------------------------ MODULE DecompositionProofs -------------------------
(***************************************************************************)
(* runDecomposition over the index cache, for any repository history, any  *)
(* number of overlapping builds and any cache size: a candidate comes from *)
(* the index of its own revision, and every call of the model is recorded. *)
(***************************************************************************)
EXTENDS Decomposition, SequenceTheorems, TLAPS

-----------------------------------------------------------------------------
(* The inductive invariant.                                                *)

\* What a build remembers: from the projection on, the tree it read is the tree
\* of the manifest; once Graphify has run, the graph is one of the key's tree.
HasKey == [pc : {"afterHead", "afterManifest", "status", "publish", "record", "scan"},
           key : Keys, graph : Graphs]
Memory ==
  [pc : {"idle", "over"}] \cup [pc : {"capture"}, head : Heads]
  \cup [pc : {"recheck", "project"}, head : Heads, tree : Trees]
  \cup {c \in [pc : {"graphify"}, head : Heads, tree : Trees, projection : Trees] :
          c.projection = c.tree}
  \cup {c \in HasKey : c.graph.tree = c.key.tree}
Evicting(c) == "pc" \in DOMAIN c /\ c.pc \in {"scanBlobs", "evict", "evictBlob"}

\* A blob file, when there is one, holds a graph of the tree in its name: not the
\* same graph at all times, but always one of that tree.
BlobsNamed ==
  /\ target \in Keys
  /\ DOMAIN blobs = Keys
  /\ \A k \in Keys : blobs[k] # NoBlob => blobs[k].tree = k.tree
  /\ DOMAIN builds = Builders
  /\ \A b \in Builders : builds[b] \in Memory \/ Evicting(builds[b])

\* What the retriever answers is a graph of the revision it names.
RetrievalOK ==
  \/ retrieval.pc \in {"idle", "record", "failed"}
  \/ "pc" \in DOMAIN retrieval /\ retrieval.pc \in {"verify", "load"}
       /\ "record" \in DOMAIN retrieval /\ retrieval.record.key \in Keys
  \/ retrieval.pc = "answered" /\ retrieval.graph.tree = retrieval.revision.tree

\* A job that calls the model has checked that the answer is of its own revision.
JobOK ==
  /\ job.pc \in {"idle", "retrieve", "returned"} \cup Calling
  /\ job.pc \in {"retrieve"} \cup Calling => job = [pc |-> job.pc, revision |-> job.revision]
  /\ job.pc \in Calling => retrieval.pc = "answered" /\ retrieval.revision = job.revision

\* The records so far say how often the model was called.
CallsOK ==
  /\ job.pc \in {"idle", "retrieve"} => calls = 0 /\ inFlight = FALSE /\ emitted = <<>>
  /\ job.pc = "initial" => calls = 1 /\ emitted = <<>>
  /\ job.pc = "repair" => calls = 2 /\ emitted = <<"initial">>

DecompositionInv ==
  /\ BlobsNamed
  /\ RetrievalOK
  /\ JobOK
  /\ CallsOK
  /\ CandidateFromOwnIndex
  /\ CallsAccountedFor

-----------------------------------------------------------------------------
(* What a build remembers, by its position.                                *)

LEMMA MemoryFields ==
  ASSUME NEW c, c \in Memory \/ Evicting(c)
  PROVE  /\ c.pc = "capture" => c \in [pc : {"capture"}, head : Heads]
         /\ c.pc \in {"recheck", "project"} =>
              c \in [pc : {"recheck", "project"}, head : Heads, tree : Trees]
         /\ c.pc = "graphify" =>
              /\ c \in [pc : {"graphify"}, head : Heads, tree : Trees, projection : Trees]
              /\ c.projection = c.tree
         /\ c.pc \in {"afterHead", "afterManifest", "status", "publish", "record", "scan"} =>
              c \in HasKey /\ c.graph.tree = c.key.tree
         /\ c.pc \in {"scanBlobs", "evict", "evictBlob"} => Evicting(c)
<1>1. CASE c \in [pc : {"idle", "over"}]
  BY <1>1
<1>2. CASE c \in [pc : {"capture"}, head : Heads]
  BY <1>2
<1>3. CASE c \in [pc : {"recheck", "project"}, head : Heads, tree : Trees]
  BY <1>3
<1>4. CASE c \in [pc : {"graphify"}, head : Heads, tree : Trees, projection : Trees]
           /\ c.projection = c.tree
  BY <1>4
<1>5. CASE c \in HasKey /\ c.graph.tree = c.key.tree
  BY <1>5 DEF HasKey
<1>6. CASE Evicting(c)
  BY <1>6 DEF Evicting
<1> QED
  BY <1>1, <1>2, <1>3, <1>4, <1>5, <1>6 DEF Memory

LEMMA OverIsMemory == [pc |-> "over"] \in Memory /\ IdleBuild \in Memory
BY DEF Memory, IdleBuild

\* A build that keeps its key and its graph when it goes on.
LEMMA KeyKept ==
  ASSUME NEW c \in HasKey, c.graph.tree = c.key.tree,
         NEW pc \in {"afterHead", "afterManifest", "status", "publish", "record", "scan"}
  PROVE  [c EXCEPT !.pc = pc] \in Memory
<1> DEFINE d == [c EXCEPT !.pc = pc]
<1>1. d \in HasKey /\ d.graph = c.graph /\ d.key = c.key
  BY DEF HasKey
<1> HIDE DEF d
<1>2. d \in Memory
  BY <1>1 DEF Memory
<1> QED
  BY <1>2 DEF d

\* A step of one build that leaves the repository and the blobs alone.
LEMMA OneBuild ==
  ASSUME BlobsNamed, NEW b \in Builders, NEW c, c \in Memory \/ Evicting(c),
         builds' = [builds EXCEPT ![b] = c], target' = target, blobs' = blobs
  PROVE  BlobsNamed'
<1>1. \A d \in Builders : builds'[d] = IF d = b THEN c ELSE builds[d]
  BY DEF BlobsNamed
<1>2. DOMAIN builds' = Builders
  BY DEF BlobsNamed
<1> QED
  BY <1>1, <1>2 DEF BlobsNamed

-----------------------------------------------------------------------------
(* The cache.                                                              *)

LEMMA CacheInitOK == CacheInit => BlobsNamed
<1> SUFFICES ASSUME CacheInit PROVE BlobsNamed
  OBVIOUS
<1>1. target \in Keys
  <2>1. PICK h \in Heads : target = [head |-> h, tree |-> TreeOf[h]]
    BY CacheAssumption DEF CacheInit
  <2> QED
    BY <2>1, CacheAssumption DEF Keys
<1> DEFINE g == [tree |-> target.tree, output |-> CHOOSE o \in Outputs : TRUE]
<1>2. PICK present \in SUBSET {target} :
        blobs = [k \in Keys |-> IF k \in present THEN g ELSE NoBlob]
  BY DEF CacheInit
<1>3. DOMAIN blobs = Keys /\ \A k \in Keys : blobs[k] # NoBlob => blobs[k].tree = k.tree
  <2>1. g.tree = target.tree
    OBVIOUS
  <2> HIDE DEF g
  <2> QED
    BY <1>2, <2>1
<1>4. DOMAIN builds = Builders /\ \A b \in Builders : builds[b] \in Memory
  BY OverIsMemory DEF CacheInit
<1> QED
  BY <1>1, <1>3, <1>4 DEF BlobsNamed

\* The reads of a build, each followed by a change of the repository or not.
LEMMA BuildReads ==
  ASSUME BlobsNamed, NEW b \in Builders,
         \/ BuildStart(b) \/ captureManifest(b) \/ RecheckHead(b) \/ materializeProjection(b)
         \/ runGraphify(b) \/ AfterHead(b) \/ AfterManifest(b) \/ resolveStatus(b)
  PROVE  BlobsNamed'
<1> DEFINE c == builds[b]
<1>1. target' = target /\ blobs' = blobs
  BY DEF BuildStart, captureManifest, RecheckHead, materializeProjection, runGraphify, AfterHead,
         AfterManifest, resolveStatus, OnlyBuilds
<1>2. c \in Memory \/ Evicting(c)
  BY DEF BlobsNamed
<1>3. target.head \in Heads /\ target.tree \in Trees
  BY DEF BlobsNamed, Keys
<1> SUFFICES \E d : (d \in Memory \/ Evicting(d)) /\ builds' = [builds EXCEPT ![b] = d]
  BY <1>1, OneBuild
<1>4. ASSUME Fail(b) PROVE \E d : d \in Memory /\ builds' = [builds EXCEPT ![b] = d]
  BY <1>4, OverIsMemory DEF Fail
<1>5. CASE BuildStart(b)
  <2> DEFINE d == [pc |-> "capture", head |-> target.head]
  <2>1. d \in Memory
    BY <1>3 DEF Memory
  <2>2. builds' = [builds EXCEPT ![b] = d]
    BY <1>5 DEF BuildStart
  <2> QED
    BY <2>1, <2>2
<1>6. CASE captureManifest(b)
  <2> DEFINE d == [pc |-> "recheck", head |-> c.head, tree |-> target.tree]
  <2>1. c.head \in Heads
    BY <1>2, <1>6, MemoryFields DEF captureManifest, At
  <2>2. d \in Memory
    BY <1>3, <2>1 DEF Memory
  <2>3. builds' = [builds EXCEPT ![b] = d]
    BY <1>6 DEF captureManifest
  <2> QED
    BY <2>2, <2>3
<1>7. CASE RecheckHead(b)
  <2>1. CASE Goto(b, "project")
    <3> DEFINE d == [c EXCEPT !.pc = "project"]
    <3>1. c \in [pc : {"recheck", "project"}, head : Heads, tree : Trees]
      BY <1>2, <1>7, MemoryFields DEF RecheckHead, At
    <3>2. d \in Memory
      BY <3>1 DEF Memory
    <3>3. builds' = [builds EXCEPT ![b] = d]
      BY <2>1 DEF Goto
    <3> QED
      BY <3>2, <3>3
  <2> QED
    BY <1>4, <1>7, <2>1 DEF RecheckHead
<1>8. CASE materializeProjection(b)
  <2>1. c \in [pc : {"recheck", "project"}, head : Heads, tree : Trees]
    BY <1>2, <1>8, MemoryFields DEF materializeProjection, At
  <2>2. CASE target.tree = c.tree
    <3> DEFINE d == [pc |-> "graphify", head |-> c.head, tree |-> c.tree,
                     projection |-> target.tree]
    <3>1. d \in Memory
      BY <1>3, <2>1, <2>2 DEF Memory
    <3>2. builds' = [builds EXCEPT ![b] = d]
      BY <1>8, <2>2 DEF materializeProjection
    <3> QED
      BY <3>1, <3>2
  <2> QED
    BY <1>4, <1>8, <2>2 DEF materializeProjection
<1>9. CASE runGraphify(b)
  <2>1. c.head \in Heads /\ c.tree \in Trees /\ c.projection = c.tree
    BY <1>2, <1>9, MemoryFields DEF runGraphify, At
  <2>2. PICK o \in Outputs : builds' = [builds EXCEPT ![b] =
          [pc |-> "afterHead", key |-> [head |-> c.head, tree |-> c.tree],
           graph |-> [tree |-> c.projection, output |-> o]]]
    BY <1>9 DEF runGraphify
  <2> DEFINE d == [pc |-> "afterHead", key |-> [head |-> c.head, tree |-> c.tree],
                   graph |-> [tree |-> c.projection, output |-> o]]
  <2>3. d \in HasKey /\ d.graph.tree = d.key.tree
    BY <2>1 DEF HasKey, Keys, Graphs
  <2>4. builds' = [builds EXCEPT ![b] = d]
    BY <2>2
  <2> HIDE DEF d
  <2>5. d \in Memory
    BY <2>3 DEF Memory
  <2> QED
    BY <2>4, <2>5
<1>10. ASSUME c \in HasKey, c.graph.tree = c.key.tree,
              NEW pc \in {"afterManifest", "status", "publish"}, Goto(b, pc)
       PROVE  \E d : d \in Memory /\ builds' = [builds EXCEPT ![b] = d]
  <2> DEFINE d == [c EXCEPT !.pc = pc]
  <2>1. d \in Memory
    BY <1>10, KeyKept
  <2>2. builds' = [builds EXCEPT ![b] = d]
    BY <1>10 DEF Goto
  <2> QED
    BY <2>1, <2>2
<1>11. CASE AfterHead(b) \/ AfterManifest(b) \/ resolveStatus(b)
  <2>1. c \in HasKey /\ c.graph.tree = c.key.tree
    BY <1>2, <1>11, MemoryFields DEF AfterHead, AfterManifest, resolveStatus, At
  <2>2. Goto(b, "afterManifest") \/ Goto(b, "status") \/ Goto(b, "publish") \/ Fail(b)
    BY <1>11 DEF AfterHead, AfterManifest, resolveStatus
  <2> QED
    BY <1>4, <1>10, <2>1, <2>2
<1> QED
  BY <1>5, <1>6, <1>7, <1>8, <1>9, <1>11

\* The publication and the eviction of files: a blob is replaced by a graph of the
\* same tree, or removed.
LEMMA BuildWrites ==
  ASSUME BlobsNamed, NEW b \in Builders,
         \/ publishBlob(b) \/ writeCache(b) \/ listEntries(b) \/ listBlobs(b)
         \/ EvictRecord(b) \/ EvictBlob(b) \/ EvictOrphans(b)
  PROVE  BlobsNamed'
<1> DEFINE c == builds[b]
<1>1. target' = target
  BY DEF publishBlob, writeCache, listEntries, listBlobs, EvictRecord, EvictBlob, EvictOrphans,
         OnlyBuilds
<1>2. c \in Memory \/ Evicting(c)
  BY DEF BlobsNamed
<1>3. \E d : (d \in Memory \/ Evicting(d)) /\ builds' = [builds EXCEPT ![b] = d]
  <2>1. CASE publishBlob(b) \/ writeCache(b)
    <3>1. c \in HasKey /\ c.graph.tree = c.key.tree
      BY <1>2, <2>1, MemoryFields DEF publishBlob, writeCache, At
    <3>2. Goto(b, "record") \/ Goto(b, "scan")
      BY <2>1 DEF publishBlob, writeCache
    <3>3. [c EXCEPT !.pc = "record"] \in Memory /\ [c EXCEPT !.pc = "scan"] \in Memory
      BY <3>1, KeyKept
    <3> QED
      BY <3>2, <3>3 DEF Goto
  <2>2. CASE listEntries(b)
    <3> DEFINE d == [pc |-> "scanBlobs", entries |-> [i \in DOMAIN records |-> records[i].key]]
    <3>1. Evicting(d)
      BY DEF Evicting
    <3>2. builds' = [builds EXCEPT ![b] = d]
      BY <2>2 DEF listEntries
    <3> QED
      BY <3>1, <3>2
  <2>6. CASE listBlobs(b)
    <3> DEFINE d == [pc |-> "evict", next |-> 1, entries |-> c.entries,
                     orphans |-> {k \in Keys : blobs[k] # NoBlob} \ Range(c.entries)]
    <3>1. Evicting(d)
      BY DEF Evicting
    <3>2. builds' = [builds EXCEPT ![b] = d]
      BY <2>6 DEF listBlobs, BlobsNamed
    <3> QED
      BY <3>1, <3>2
  <2>3. CASE EvictRecord(b)
    <3> DEFINE d == [c EXCEPT !.pc = "evictBlob"]
    <3>1. Evicting(c)
      BY <1>2, <2>3, MemoryFields DEF EvictRecord, At
    <3>2. Evicting(d)
      BY <3>1 DEF Evicting
    <3>3. builds' = [builds EXCEPT ![b] = d]
      BY <2>3 DEF EvictRecord, Goto
    <3> QED
      BY <3>2, <3>3
  <2>4. CASE EvictBlob(b)
    <3> DEFINE i == c.next
               d == [c EXCEPT !.pc = "evict", !.next = i + 1, !.entries = RemoveAt(@, i)]
    <3>1. Evicting(c)
      BY <1>2, <2>4, MemoryFields DEF EvictBlob, At
    <3>2. Evicting(d)
      BY <3>1 DEF Evicting
    <3>3. builds' = [builds EXCEPT ![b] = d]
      BY <2>4 DEF EvictBlob, BlobsNamed
    <3> QED
      BY <3>2, <3>3
  <2>5. CASE EvictOrphans(b)
    BY <2>5, OverIsMemory DEF EvictOrphans
  <2> QED
    BY <2>1, <2>2, <2>3, <2>4, <2>5, <2>6
<1>4. DOMAIN builds' = Builders
      /\ \A d \in Builders : builds'[d] \in Memory \/ Evicting(builds'[d])
  <2>1. PICK d : (d \in Memory \/ Evicting(d)) /\ builds' = [builds EXCEPT ![b] = d]
    BY <1>3
  <2>2. \A e \in Builders : builds'[e] = IF e = b THEN d ELSE builds[e]
    BY <2>1 DEF BlobsNamed
  <2> QED
    BY <2>1, <2>2 DEF BlobsNamed
<1>5. DOMAIN blobs' = Keys /\ \A k \in Keys : blobs'[k] # NoBlob => blobs'[k].tree = k.tree
  <2>1. CASE publishBlob(b)
    <3>1. c.graph.tree = c.key.tree
      BY <1>2, <2>1, MemoryFields DEF publishBlob, At
    <3>2. blobs' = [blobs EXCEPT ![c.key] = c.graph]
      BY <2>1 DEF publishBlob
    <3> HIDE DEF c
    <3> QED
      BY <3>1, <3>2 DEF BlobsNamed
  <2>2. CASE EvictBlob(b)
    <3>1. PICK k : blobs' = [blobs EXCEPT ![k] = NoBlob]
      BY <2>2 DEF EvictBlob
    <3> QED
      BY <3>1 DEF BlobsNamed
  <2>3. CASE EvictOrphans(b)
    <3>1. PICK gone : blobs' = [k \in Keys |-> IF k \in gone THEN NoBlob ELSE blobs[k]]
      BY <2>3 DEF EvictOrphans
    <3> QED
      BY <3>1 DEF BlobsNamed
  <2>4. CASE blobs' = blobs
    BY <2>4 DEF BlobsNamed
  <2> QED
    BY <2>1, <2>2, <2>3, <2>4 DEF writeCache, listEntries, listBlobs, EvictRecord, OnlyBuilds
<1> QED
  BY <1>1, <1>4, <1>5 DEF BlobsNamed

LEMMA CacheStep ==
  ASSUME BlobsNamed, CacheNext
  PROVE  BlobsNamed'
<1>1. CASE TargetChanges
  BY <1>1 DEF TargetChanges, BlobsNamed
<1> QED
  BY <1>1, BuildReads, BuildWrites DEF CacheNext

-----------------------------------------------------------------------------
(* The job.                                                                *)

LEMMA DecompositionInit == Init => DecompositionInv
<1> SUFFICES ASSUME Init PROVE DecompositionInv
  OBVIOUS
<1>1. BlobsNamed
  BY CacheInitOK DEF Init
<1>2. job.pc = "idle" /\ retrieval.pc = "idle" /\ calls = 0 /\ inFlight = FALSE /\ emitted = <<>>
  BY DEF Init, NoRetrieval
<1> QED
  BY <1>1, <1>2 DEF DecompositionInv, RetrievalOK, JobOK, CallsOK, Calling,
     CandidateFromOwnIndex, CallsAccountedFor

\* The cache's steps do not reach the job.
LEMMA CacheKeeps ==
  ASSUME DecompositionInv, CacheNext, UNCHANGED jobVars
  PROVE  DecompositionInv'
<1>1. BlobsNamed'
  BY CacheStep DEF DecompositionInv
<1> QED
  BY <1>1 DEF DecompositionInv, jobVars, RetrievalOK, JobOK, CallsOK, CandidateFromOwnIndex,
              CallsAccountedFor

\* The retriever's steps: what it reads after the digest was checked may be of
\* another build, but not of another tree.
LEMMA RetrieverKeeps ==
  ASSUME DecompositionInv, (\E k \in Keys : readRecord(k)) \/ verifyBlob \/ loadGraph
  PROVE  DecompositionInv'
<1>1. UNCHANGED <<job, calls, inFlight, emitted, target, blobs, builds>>
  BY DEF readRecord, verifyBlob, loadGraph, OnlyJob, cacheVars
<1>2. BlobsNamed'
  BY <1>1 DEF DecompositionInv, BlobsNamed
<1>3. retrieval.pc # "answered"
  BY DEF readRecord, verifyBlob, loadGraph
<1>4. RetrievalOK'
  <2>1. CASE \E k \in Keys : readRecord(k)
    <3>1. PICK k \in Keys : readRecord(k)
      BY <2>1
    <3>2. CASE retrieval' = [pc |-> "failed"]
      BY <3>2 DEF RetrievalOK
    <3>3. CASE \E r \in recordPath(k) : retrieval' = [pc |-> "verify", record |-> r]
      <4>1. PICK r : r.key = k /\ retrieval' = [pc |-> "verify", record |-> r]
        BY <3>3 DEF recordPath
      <4>2. retrieval'.pc = "verify" /\ "pc" \in DOMAIN retrieval' /\ "record" \in DOMAIN retrieval'
            /\ retrieval'.record = r
        BY <4>1
      <4> QED
        BY <4>1, <4>2 DEF RetrievalOK
    <3> QED
      BY <3>1, <3>2, <3>3 DEF readRecord
  <2>2. CASE verifyBlob
    <3>1. /\ "pc" \in DOMAIN retrieval /\ retrieval.pc = "verify"
          /\ "record" \in DOMAIN retrieval /\ retrieval.record.key \in Keys
      BY <2>2 DEF verifyBlob, DecompositionInv, RetrievalOK
    <3>2. CASE retrieval' = [pc |-> "failed"]
      BY <3>2 DEF RetrievalOK
    <3>3. CASE retrieval' = [retrieval EXCEPT !.pc = "load"]
      <4>1. retrieval'.pc = "load" /\ "pc" \in DOMAIN retrieval' /\ "record" \in DOMAIN retrieval'
            /\ retrieval'.record = retrieval.record
        BY <3>1, <3>3
      <4> QED
        BY <3>1, <4>1 DEF RetrievalOK
    <3> QED
      BY <2>2, <3>2, <3>3 DEF verifyBlob
  <2>3. CASE loadGraph
    <3> DEFINE k == retrieval.record.key
    <3>1. k \in Keys
      BY <2>3 DEF loadGraph, DecompositionInv, RetrievalOK
    <3>2. CASE retrieval' = [pc |-> "failed"]
      BY <3>2 DEF RetrievalOK
    <3>3. CASE blobs[k] # NoBlob
               /\ retrieval' = [pc |-> "answered", revision |-> k, graph |-> blobs[k]]
      <4>1. blobs[k].tree = k.tree
        BY <3>1, <3>3 DEF DecompositionInv, BlobsNamed
      <4>2. retrieval'.pc = "answered" /\ retrieval'.revision = k /\ retrieval'.graph = blobs[k]
        BY <3>3
      <4> QED
        BY <4>1, <4>2 DEF RetrievalOK
    <3> QED
      BY <2>3, <3>2, <3>3 DEF loadGraph
  <2> QED
    BY <2>1, <2>2, <2>3
<1>5. JobOK'
  BY <1>1, <1>3 DEF DecompositionInv, JobOK
<1> QED
  BY <1>1, <1>2, <1>4, <1>5 DEF DecompositionInv, CallsOK, CandidateFromOwnIndex, CallsAccountedFor

\* A list of records and the number of calls it accounts for.
Accounted(list, n) ==
  /\ n <= 2
  /\ n >= 1 => list # <<>> /\ Head(list) = "initial"
  /\ n = 2 => Last(list) = "repair"

LEMMA RecordsAccount ==
  /\ \A list : Accounted(list, 0)
  /\ Accounted(<<"initial">>, 1)
  /\ Accounted(<<"initial", "initial">>, 1)
  /\ Accounted(<<"initial", "repair">>, 1) /\ Accounted(<<"initial", "repair">>, 2)
BY DEF Accounted, Last

LEMMA Appended ==
  /\ Append(<<>>, "initial") = <<"initial">>
  /\ Append(<<"initial">>, "initial") = <<"initial", "initial">>
  /\ Append(<<"initial">>, "repair") = <<"initial", "repair">>
<1>1. Append(<<>>, "initial") = <<"initial">>
  OBVIOUS
<1>2. ASSUME NEW x \in Calling PROVE Append(<<"initial">>, x) = <<"initial", x>>
  <2> DEFINE s == Append(<<"initial">>, x)
             t == <<"initial", x>>
  <2>1. s \in Seq(Calling) /\ Len(s) = 2 /\ s[1] = "initial" /\ s[2] = x
    BY <1>2 DEF Calling
  <2>2. t \in Seq(Calling) /\ Len(t) = 2 /\ t[1] = "initial" /\ t[2] = x
    BY <1>2 DEF Calling
  <2> HIDE DEF s, t
  <2>3. \A i \in 1..2 : s[i] = t[i]
    BY <2>1, <2>2
  <2>4. s = t
    BY <2>1, <2>2, <2>3, SeqEqual
  <2> QED
    BY <2>4 DEF s, t
<1> QED
  BY <1>1, <1>2 DEF Calling

\* However the job returns, it is enough that what it has emitted accounts for
\* its calls and that a candidate comes with a graph of the right tree.
LEMMA ReturnKeeps ==
  ASSUME DecompositionInv, OnlyJob, NEW value, Return(value), value.pc = "returned",
         value.outcome = "candidate" => value.graph.tree = value.revision.tree,
         inFlight' = FALSE, Accounted(emitted', calls')
  PROVE  DecompositionInv'
<1>1. job' = value /\ retrieval'.pc = "idle"
  BY DEF Return, NoRetrieval
<1>2. BlobsNamed'
  BY DEF DecompositionInv, OnlyJob, cacheVars, BlobsNamed
<1>3. RetrievalOK' /\ JobOK' /\ CallsOK'
  BY <1>1 DEF RetrievalOK, JobOK, CallsOK, Calling
<1>4. CandidateFromOwnIndex' /\ CallsAccountedFor'
  BY <1>1 DEF CandidateFromOwnIndex, CallsAccountedFor, Accounted
<1> QED
  BY <1>2, <1>3, <1>4 DEF DecompositionInv

LEMMA RejectKeeps ==
  ASSUME DecompositionInv, OnlyJob, Reject, inFlight' = FALSE, Accounted(emitted', calls')
  PROVE  DecompositionInv'
<1> DEFINE value == [pc |-> "returned", outcome |-> "refused"]
<1>1. Return(value) /\ value.pc = "returned" /\ value.outcome = "refused"
  BY DEF Reject
<1> HIDE DEF value
<1> QED
  BY <1>1, ReturnKeeps

\* The model is called, or the deadline has passed.
LEMMA InvokeKeeps ==
  ASSUME DecompositionInv, OnlyJob, NEW phase \in Calling, NEW record, Invoke(phase, record),
         job.pc \in {"retrieve", "initial"},
         retrieval.pc = "answered", retrieval.revision = job.revision,
         phase = "initial" => calls = 0 /\ record = <<>>,
         phase = "repair" => calls = 1 /\ record = <<"initial">>
  PROVE  DecompositionInv'
<1>1. CASE /\ job' = [job EXCEPT !.pc = phase] /\ UNCHANGED retrieval
           /\ calls' = calls + 1 /\ inFlight' = TRUE /\ emitted' = record
  <2>1. job = [pc |-> job.pc, revision |-> job.revision]
    BY DEF DecompositionInv, JobOK, Calling
  <2>2. job'.pc = phase /\ job'.revision = job.revision
        /\ job' = [pc |-> job'.pc, revision |-> job'.revision]
    BY <1>1, <2>1
  <2>3. BlobsNamed'
    BY DEF DecompositionInv, OnlyJob, cacheVars, BlobsNamed
  <2>4. RetrievalOK' /\ JobOK'
    BY <1>1, <2>2 DEF DecompositionInv, RetrievalOK, JobOK
  <2>5. CallsOK'
    BY <1>1, <2>2 DEF CallsOK, Calling
  <2>6. CandidateFromOwnIndex' /\ CallsAccountedFor'
    BY <2>2 DEF CandidateFromOwnIndex, CallsAccountedFor, Calling
  <2> QED
    BY <2>3, <2>4, <2>5, <2>6 DEF DecompositionInv
<1>2. CASE /\ Reject /\ inFlight' = FALSE /\ emitted' = Append(record, phase) /\ UNCHANGED calls
  <2>1. Accounted(emitted', calls')
    <3>1. CASE phase = "initial"
      BY <1>2, <3>1, RecordsAccount
    <3>2. CASE phase = "repair"
      BY <1>2, <3>2, RecordsAccount, Appended
    <3> QED
      BY <3>1, <3>2 DEF Calling
  <2> QED
    BY <1>2, <2>1, RejectKeeps
<1> QED
  BY <1>1, <1>2 DEF Invoke

LEMMA JobKeeps ==
  ASSUME DecompositionInv,
         \/ RefuseJob
         \/ \E revision \in Revisions, head \in Heads, availability \in SUBSET Models,
               explicit \in Models \cup {NoModel} : StartJob(revision, head, availability, explicit)
         \/ TakeBreadth \/ RetrievalFailed \/ TimeOut
         \/ Accept \/ CallFailed \/ Repair \/ RepairTooLong
  PROVE  DecompositionInv'
<1>1. OnlyJob
  BY DEF RefuseJob, StartJob, TakeBreadth, RetrievalFailed, TimeOut, Accept, CallFailed, Repair,
         RepairTooLong
<1>2. CallsOK /\ JobOK
  BY DEF DecompositionInv
\* The records after a call that has ended.
<1>3. job.pc \in Calling => Accounted(Append(emitted, job.pc), calls)
  BY <1>2, RecordsAccount, Appended DEF CallsOK, Calling
<1>4. job.pc \in {"idle", "retrieve"} => Accounted(emitted, calls) /\ inFlight = FALSE
  BY <1>2, RecordsAccount DEF CallsOK
<1>5. CASE RefuseJob
  <2>1. Reject /\ UNCHANGED <<calls, inFlight, emitted>> /\ job.pc = "idle"
    BY <1>5 DEF RefuseJob, Waiting
  <2>2. inFlight' = FALSE /\ Accounted(emitted', calls')
    BY <1>4, <2>1
  <2> QED
    BY <1>1, <2>1, <2>2, RejectKeeps
<1>6. CASE \E revision \in Revisions, head \in Heads, availability \in SUBSET Models,
              explicit \in Models \cup {NoModel} : StartJob(revision, head, availability, explicit)
  <2>1. PICK revision \in Keys : /\ job.pc = "idle"
                                 /\ job' = [pc |-> "retrieve", revision |-> revision]
                                 /\ retrieval' = [pc |-> "record"]
                                 /\ UNCHANGED <<calls, inFlight, emitted>>
    BY <1>6, RevisionsAssumption DEF StartJob, Waiting
  <2>2. job'.pc = "retrieve" /\ job'.revision = revision /\ retrieval'.pc = "record"
    BY <2>1
  <2>3. BlobsNamed'
    BY <1>1 DEF DecompositionInv, OnlyJob, cacheVars, BlobsNamed
  <2>4. RetrievalOK' /\ JobOK' /\ CallsOK'
    BY <1>2, <2>1, <2>2 DEF RetrievalOK, JobOK, CallsOK, Calling
  <2>5. CandidateFromOwnIndex' /\ CallsAccountedFor'
    BY <2>2 DEF CandidateFromOwnIndex, CallsAccountedFor
  <2> QED
    BY <2>3, <2>4, <2>5 DEF DecompositionInv
<1>7. CASE TakeBreadth \/ RetrievalFailed
  <2>1. job.pc = "retrieve" /\ calls = 0 /\ emitted = <<>>
    BY <1>2, <1>7 DEF TakeBreadth, RetrievalFailed, Waiting, CallsOK
  <2>2. CASE RefuseBreadth
    <3>1. Reject /\ inFlight' = FALSE /\ Accounted(emitted', calls')
      BY <1>4, <2>1, <2>2 DEF RefuseBreadth
    <3> QED
      BY <1>1, <3>1, RejectKeeps
  <2>3. CASE /\ retrieval.pc = "answered" /\ retrieval.revision = job.revision
             /\ Invoke("initial", emitted)
    BY <1>1, <2>1, <2>3, InvokeKeeps DEF Calling
  <2> QED
    BY <1>7, <2>2, <2>3 DEF TakeBreadth, RetrievalFailed
<1>8. CASE TimeOut
  <2>1. Reject /\ inFlight' = FALSE /\ Accounted(emitted', calls')
    BY <1>3, <1>4, <1>8 DEF TimeOut
  <2> QED
    BY <1>1, <2>1, RejectKeeps
<1>9. CASE CallFailed
  <2>1. Reject /\ inFlight' = FALSE /\ Accounted(emitted', calls')
    BY <1>3, <1>9 DEF CallFailed, Emit
  <2> QED
    BY <1>1, <2>1, RejectKeeps
<1>10. CASE Accept
  <2> DEFINE value == [pc |-> "returned", outcome |-> "candidate", revision |-> job.revision,
                       graph |-> retrieval.graph]
  <2>1. Return(value) /\ inFlight' = FALSE /\ Accounted(emitted', calls') /\ job.pc \in Calling
    BY <1>3, <1>10 DEF Accept, Emit
  <2>2. retrieval.graph.tree = job.revision.tree
    BY <1>2, <2>1 DEF DecompositionInv, JobOK, RetrievalOK
  <2>3. value.pc = "returned" /\ value.graph.tree = value.revision.tree
    BY <2>2
  <2> HIDE DEF value
  <2> QED
    BY <1>1, <2>1, <2>3, ReturnKeeps
<1>11. CASE Repair
  <2>1. job.pc = "initial" /\ calls = 1 /\ Append(emitted, "initial") = <<"initial">>
    BY <1>2, <1>11, Appended DEF Repair, Waiting, CallsOK
  <2>2. retrieval.pc = "answered" /\ retrieval.revision = job.revision
    BY <1>2, <2>1 DEF JobOK, Calling
  <2>3. Invoke("repair", <<"initial">>)
    BY <1>11, <2>1 DEF Repair
  <2> QED
    BY <1>1, <2>1, <2>2, <2>3, InvokeKeeps DEF Calling
<1>12. CASE RepairTooLong
  <2>1. /\ job.pc = "initial" /\ calls = 1 /\ emitted = <<>> /\ calls' = calls
        /\ Reject /\ inFlight' = FALSE
        /\ emitted' = Append(Append(emitted, "initial"), "initial")
    BY <1>2, <1>12 DEF RepairTooLong, Waiting, CallsOK
  <2>2. Accounted(emitted', calls')
    BY <2>1, RecordsAccount, Appended
  <2> QED
    BY <1>1, <2>1, <2>2, RejectKeeps
<1> QED
  BY <1>5, <1>6, <1>7, <1>8, <1>9, <1>10, <1>11, <1>12

-----------------------------------------------------------------------------
(* The theorems.                                                           *)

LEMMA DecompositionStep == DecompositionInv /\ [Next]_vars => DecompositionInv'
<1> SUFFICES ASSUME DecompositionInv, [Next]_vars PROVE DecompositionInv'
  OBVIOUS
<1>1. CASE UNCHANGED vars
  BY <1>1 DEF vars, cacheVars, jobVars, DecompositionInv, BlobsNamed, RetrievalOK, JobOK, CallsOK,
              CandidateFromOwnIndex, CallsAccountedFor
<1> QED
  BY <1>1, CacheKeeps, RetrieverKeeps, JobKeeps DEF Next, JobStep

LEMMA DecompositionInvariant == Spec => []DecompositionInv
BY DecompositionInit, DecompositionStep, PTL DEF Spec

\* A candidate is made from a graph of exactly the files its job's revision names,
\* whatever builds overwrite and evict while breadthRetrieval reads the blob twice.
THEOREM CandidatesFromOwnIndex == Spec => []CandidateFromOwnIndex
<1>1. DecompositionInv => CandidateFromOwnIndex
  BY DEF DecompositionInv
<1> QED
  BY <1>1, DecompositionInvariant, PTL

\* When a job has returned, at most two calls of the model were made, each has its
\* record, and each has answered or been aborted.
THEOREM CallsAreAccountedFor == Spec => []CallsAccountedFor
<1>1. DecompositionInv => CallsAccountedFor
  BY DEF DecompositionInv
<1> QED
  BY <1>1, DecompositionInvariant, PTL
=============================================================================
