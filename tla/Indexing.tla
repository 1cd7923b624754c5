------------------------------- MODULE Indexing -------------------------------
(***************************************************************************)
(* The index of a repository's default branch: the gateway turns pushes    *)
(* into index jobs, the indexer workers fetch the changed files, embed     *)
(* their chunks through the embedding cache and insert them into           *)
(* code_chunks (internal/core/pipelines/indexer).                          *)
(*                                                                         *)
(* A file has one chunk, which is its content; the content hash is the     *)
(* content, and the vector embedded for a content is that content again.   *)
(***************************************************************************)
EXTENDS Naturals, Sequences, FiniteSets, Functions

CONSTANTS
  Files,                      \* paths the branch may have
  Parsed,                     \* those the parser supports
  Contents,                   \* what a file may hold
  NoFile,                     \* the file is not in the tree
  Indexers,                   \* indexer-worker processes
  PushDeliver, PushMessages,  \* MaxDeliver and MaxMessages of JobBus
  MaxPushes,                  \* pushes to the branch
  CompareLimit,               \* files GitHub puts on the one page of a comparison that is read
  CacheRows,                  \* retention.embedding_cache_max_rows
  IndexFaults                 \* what may go wrong: a subset of {"vcs", "store", "llm", "crash"}

ASSUME IndexAssumption ==
  /\ NoFile \notin Contents
  /\ IsFiniteSet(Files) /\ IsFiniteSet(Contents) /\ IsFiniteSet(Indexers)
  /\ PushDeliver \in Nat \ {0} /\ PushMessages \in Nat \ {0}
  /\ MaxPushes \in Nat \ {0} /\ CompareLimit \in Nat \ {0} /\ CacheRows \in Nat \ {0}
  /\ IndexFaults \subseteq {"vcs", "store", "llm", "crash"}

VARIABLES
  provider,            \* the host of the repository
  queue, dedup, busy,  \* the index queue, as in JobBus
  trees,               \* trees[n]: the branch at commit n; the bot is installed at commit 1
  cache,               \* embedding_cache: hash -> vector, a partial function
  born,                \* its hashes, the first inserted first
  chunks,              \* chunks[n][f]: rows inserted for file f at commit n
  vectors,             \* the <<content, embedding>> pairs in code_chunks
  failed,              \* commits of which a file or the whole job is in the error log
  at,                  \* at[w]: the call of process worker w makes next
  group,               \* group[w]: chunksByHash of its job, hash -> files
  known                \* known[w]: cached, hash -> vector

Commits == 2..(MaxPushes + 1)

Bus == INSTANCE JobBus WITH Keys <- Commits, Workers <- Indexers,
                            MaxDeliver <- PushDeliver, MaxMessages <- PushMessages,
                            stream <- queue, window <- dedup, holding <- busy

queueVars == <<queue, dedup, busy>>
tableVars == <<cache, born, chunks, vectors>>
indexerVars == <<at, group, known>>
indexVars == <<provider, queueVars, trees, tableVars, failed, indexerVars>>

-----------------------------------------------------------------------------
JobCommit(w) == queue[busy[w]].key
Tree == [Files -> Contents \cup {NoFile}]
NoHashes == <<>>
PartialMap(D, R) == UNION {[S -> R] : S \in SUBSET D}

(* The elements of a set in any order, as iterating over a map gives them.*)
Orders(S) == {p \in [1..Cardinality(S) -> S] : Range(p) = S}

IndexTypeOK ==
  /\ provider \in {"github", "bitbucket"}
  /\ Bus!BusTypeOK
  /\ trees \in Seq(Tree) /\ Len(trees) <= MaxPushes + 1
  /\ cache \in PartialMap(Contents, Contents)
  /\ born \in Orders(DOMAIN cache)
  /\ chunks \in [Commits -> [Files -> Nat]]
  /\ vectors \subseteq Contents \X Contents
  /\ failed \subseteq Commits
  /\ at \in [Indexers -> {"idle", "list", "lookup", "embed", "put", "upsert", "ack"}]
  /\ group \in [Indexers -> PartialMap(Contents, SUBSET Files)]
  /\ known \in [Indexers -> PartialMap(Contents, Contents)]
  /\ \A w \in Indexers : at[w] = "idle" <=> busy[w] = 0

IndexInit ==
  /\ provider \in {"github", "bitbucket"}
  /\ Bus!BusInit
  /\ trees \in [{1} -> Tree]
  /\ \E hashes \in SUBSET Contents :  \* of other repositories
       cache = [h \in hashes |-> h] /\ born \in Orders(hashes)
  /\ chunks = [n \in Commits |-> [f \in Files |-> 0]]
  /\ vectors = {}
  /\ failed = {}
  /\ at = [w \in Indexers |-> "idle"]
  /\ group = [w \in Indexers |-> NoHashes]
  /\ known = [w \in Indexers |-> NoHashes]

IndexerTo(w, place) == at' = [at EXCEPT ![w] = place]
JobFails(w) == IndexerTo(w, "ack") /\ failed' = failed \cup {JobCommit(w)}

-----------------------------------------------------------------------------
(* routePush: a push to the default branch becomes a job with its commit.  *)
Push(tree) ==
  /\ Len(trees) <= MaxPushes
  /\ tree # trees[Len(trees)]
  /\ trees' = Append(trees, tree)
  /\ Bus!Publish(Len(trees) + 1)
  /\ UNCHANGED <<provider, tableVars, failed, indexerVars>>

(* The host delivers the webhook of a push again.                          *)
PushAgain(n) ==
  /\ n \in DOMAIN trees
  /\ Bus!Publish(n)
  /\ UNCHANGED <<provider, trees, tableVars, failed, indexerVars>>

TakePush(w, s) ==
  /\ Bus!Deliver(w, s)
  /\ at[w] = "idle"
  /\ IndexerTo(w, "list")
  /\ UNCHANGED <<provider, trees, tableVars, failed, group, known>>

ChangedFiles(n) == {f \in Files : trees[n][f] # trees[n - 1][f]}

(* The changed files that a listing leaves out.                            *)
Unlisted(n) ==
  IF provider = "github" /\ Cardinality(ChangedFiles(n)) > CompareLimit
  THEN Cardinality(ChangedFiles(n)) - CompareLimit
  ELSE 0

(* Mutant: no host's listing is read beyond the first page.                *)
FirstPages(n) ==
  {page \in SUBSET ChangedFiles(n) :
     Cardinality(page) = IF Cardinality(ChangedFiles(n)) > CompareLimit THEN CompareLimit
                         ELSE Cardinality(ChangedFiles(n))}

(* ListChangedFiles between the job's two commits: Bitbucket's diffstat is *)
(* read to its last page, of GitHub's comparison only the first is.        *)
ListChangedFiles(n) ==
  {page \in SUBSET ChangedFiles(n) : Cardinality(page) = Cardinality(ChangedFiles(n)) - Unlisted(n)}

(* collectChunks: a file the parser does not support or that was removed is*)
(* passed over, and so is one that cannot be fetched or parsed.            *)
ByHash(n, files) ==
  [h \in {trees[n][f] : f \in files} |-> {f \in files : trees[n][f] = h}]

Collect(w) ==
  LET n == JobCommit(w)
      There(page) == {f \in page \cap Parsed : trees[n][f] # NoFile}
  IN  /\ at[w] = "list"
      /\ \/ \E page \in ListChangedFiles(n) : \E files \in SUBSET There(page) :
              /\ files # There(page) => "vcs" \in IndexFaults
              /\ group' = [group EXCEPT ![w] = ByHash(n, files)]
              /\ failed' = IF files = There(page) THEN failed ELSE failed \cup {n}
              /\ IndexerTo(w, IF files = {} THEN "ack" ELSE "lookup")
         \/ "vcs" \in IndexFaults /\ JobFails(w) /\ UNCHANGED group
      /\ UNCHANGED <<provider, queueVars, trees, tableVars, known>>

(* Mutant: contents with a cached vector are taken to be indexed already.  *)
GetManyAndSkip(w) ==
  /\ at[w] = "lookup"
  /\ known' = [known EXCEPT ![w] = Restrict(cache, DOMAIN cache \cap DOMAIN group[w])]
  /\ IndexerTo(w, IF DOMAIN group[w] \subseteq DOMAIN cache THEN "ack" ELSE "embed")
  /\ UNCHANGED <<provider, queueVars, trees, tableVars, failed, group>>

(* EmbeddingCache.GetMany; without a new hash the model is not asked.      *)
GetMany(w) ==
  /\ at[w] = "lookup"
  /\ \/ /\ known' = [known EXCEPT ![w] = Restrict(cache, DOMAIN cache \cap DOMAIN group[w])]
        /\ IndexerTo(w, IF DOMAIN group[w] \subseteq DOMAIN cache THEN "upsert" ELSE "embed")
        /\ UNCHANGED failed
     \/ "store" \in IndexFaults /\ JobFails(w) /\ UNCHANGED known
  /\ UNCHANGED <<provider, queueVars, trees, tableVars, group>>

(* splitForEmbedding: the hashes without a cached vector, in any order.    *)
ToEmbed(w) == Orders(DOMAIN group[w] \ DOMAIN known[w])

(* The gateway answers with one vector per text, in the order of the texts;*)
(* any other number of results is an error.                                *)
Fill(texts, cached) ==
  LET results == texts
  IN  [h \in Range(texts) \cup DOMAIN cached |->
         IF h \in DOMAIN cached THEN cached[h]
         ELSE results[CHOOSE i \in DOMAIN texts : texts[i] = h]]

Embed(w) ==
  /\ at[w] = "embed"
  /\ \/ /\ \E texts \in ToEmbed(w) : known' = [known EXCEPT ![w] = Fill(texts, known[w])]
        /\ IndexerTo(w, "put")
        /\ UNCHANGED failed
     \/ "llm" \in IndexFaults /\ JobFails(w) /\ UNCHANGED known
  /\ UNCHANGED <<provider, queueVars, trees, tableVars, group>>

(* EmbeddingCache.PutMany keeps the rows it finds; an error is logged only.*)
PutMany(w) ==
  /\ at[w] = "put"
  /\ \/ /\ cache' = [h \in DOMAIN cache \cup DOMAIN known[w] |->
                       IF h \in DOMAIN cache THEN cache[h] ELSE known[w][h]]
        /\ \E new \in Orders(DOMAIN known[w] \ DOMAIN cache) : born' = born \o new
     \/ "store" \in IndexFaults /\ UNCHANGED <<cache, born>>
  /\ IndexerTo(w, "upsert")
  /\ UNCHANGED <<provider, queueVars, trees, chunks, vectors, failed, group, known>>

(* CodeChunkStore.UpsertMany: one transaction.  The indexer leaves ChunkId *)
(* empty, so every row has a new id and none replaces another.             *)
RowsInserted(w) ==
  LET files == UNION Range(group[w])
  IN  /\ chunks' = [chunks EXCEPT ![JobCommit(w)] = [f \in Files |-> @[f] + IF f \in files THEN 1 ELSE 0]]
      /\ vectors' = vectors \cup {<<h, known[w][h]>> : h \in DOMAIN group[w]}

UpsertMany(w) ==
  /\ at[w] = "upsert"
  /\ \/ RowsInserted(w) /\ IndexerTo(w, "ack") /\ UNCHANGED failed
     \/ /\ "store" \in IndexFaults
        /\ RowsInserted(w) \/ UNCHANGED <<chunks, vectors>>
        /\ JobFails(w)
  /\ UNCHANGED <<provider, queueVars, trees, cache, born, group, known>>

Forget(w) == group' = [group EXCEPT ![w] = NoHashes] /\ known' = [known EXCEPT ![w] = NoHashes]

(* Handle acks a job whatever process returned.                            *)
AckIndexed(w) ==
  /\ at[w] = "ack"
  /\ Bus!Ack(w)
  /\ IndexerTo(w, "idle")
  /\ Forget(w)
  /\ UNCHANGED <<provider, trees, tableVars, failed>>

(* Mutant: the bus is not told that the callback is gone.                  *)
IndexerHangs(w) ==
  /\ "crash" \in IndexFaults
  /\ at[w] # "idle"
  /\ IndexerTo(w, "idle")
  /\ Forget(w)
  /\ UNCHANGED <<provider, queueVars, trees, tableVars, failed>>

IndexerStops(w) ==
  /\ "crash" \in IndexFaults
  /\ Bus!Abandon(w)
  /\ IndexerTo(w, "idle")
  /\ Forget(w)
  /\ UNCHANGED <<provider, trees, tableVars, failed>>

(* The janitor's EvictToMax deletes the rows at OFFSET CacheRows and above *)
(* in the order of created_at ASC.                                         *)
EvictToMax ==
  /\ Len(born) > CacheRows
  /\ born' = SubSeq(born, 1, CacheRows)
  /\ cache' = Restrict(cache, Range(born'))
  /\ UNCHANGED <<provider, queueVars, trees, chunks, vectors, failed, indexerVars>>

IndexServer ==
  /\ \/ \E n \in Commits : Bus!WindowExpires(n)
     \/ \E s \in DOMAIN queue : Bus!AckWaitExpires(s) \/ Bus!AgeOut(s)
  /\ UNCHANGED <<provider, trees, tableVars, failed, indexerVars>>

IndexWork(w) ==
  Collect(w) \/ GetMany(w) \/ Embed(w) \/ PutMany(w) \/ UpsertMany(w) \/ AckIndexed(w)

IndexNext ==
  \/ \E tree \in Tree : Push(tree)
  \/ \E n \in Commits : PushAgain(n)
  \/ \E w \in Indexers, s \in DOMAIN queue : TakePush(w, s)
  \/ \E w \in Indexers : IndexWork(w) \/ IndexerStops(w)
  \/ EvictToMax \/ IndexServer

PushDelivered(s) == s \in DOMAIN queue /\ \E w \in Indexers : TakePush(w, s)

PushExpires(s) ==
  s \in DOMAIN queue /\ Bus!AckWaitExpires(s) /\ UNCHANGED <<provider, trees, tableVars, failed, indexerVars>>

(* The handler's calls return, the client delivers to an idle worker and   *)
(* AckWait passes.                                                         *)
IndexFairness ==
  /\ \A w \in Indexers : WF_indexVars(IndexWork(w))
  /\ \A s \in 1..PushMessages : WF_indexVars(PushDelivered(s)) /\ WF_indexVars(PushExpires(s))

IndexSafety == IndexInit /\ [][IndexNext]_indexVars
IndexSpec == IndexSafety /\ IndexFairness

-----------------------------------------------------------------------------
VectorsMatchContents ==
  /\ \A pair \in vectors : pair[1] = pair[2]
  /\ \A h \in DOMAIN cache : cache[h] = h

DeliveriesOf(n) ==
  {p \in (DOMAIN queue) \X (1..PushDeliver) : queue[p[1]].key = n /\ p[2] <= queue[p[1]].deliveries}

CopiesWithinDeliveries ==
  \A n \in Commits, f \in Files :
    /\ chunks[n][f] <= Cardinality(DeliveriesOf(n))
    /\ chunks[n][f] > 0 => n \in DOMAIN trees /\ trees[n][f] # NoFile

(* The files of a push that are in the commit and have no rows.            *)
Missing(n) == {f \in ChangedFiles(n) \cap Parsed : trees[n][f] # NoFile /\ chunks[n][f] = 0}

Indexed(n) == Cardinality(Missing(n)) <= Unlisted(n)

AckedPushesAccounted ==
  \A s \in DOMAIN queue : queue[s].state = "acked" => Indexed(queue[s].key) \/ queue[s].key \in failed

(* A chunk is found by its own vector: whatever mixture of cached and new  *)
(* hashes a job has, in whatever order the map hands them out, no vector   *)
(* is stored with, or cached for, another content.  Nothing tells the      *)
(* indexer that a commit was indexed before and each run adds rows: the    *)
(* copies of a chunk are bounded by the deliveries of its commit's jobs,   *)
(* and exist only if the file was in that commit.  Handle acks whatever    *)
(* happened, so what a push that was acked leaves out of the index is lost *)
(* silently unless the error log says so.  On Bitbucket nothing is; on     *)
(* GitHub as many files as the push changed beyond the one page of the     *)
(* comparison that ListChangedFiles reads, and no more, whichever they are.*)
IndexIsSound == VectorsMatchContents /\ CopiesWithinDeliveries /\ AckedPushesAccounted

(* EvictToMax deletes the oldest rows by created_at (embedding_cache.go:47 *)
(* of the repository): what goes is older than all that stays.             *)
EvictionTakesOldest ==
  [][ Len(born') < Len(born) => born' = SubSeq(born, Len(born) - Len(born') + 1, Len(born)) ]_born

WornOut(n) == \E s \in DOMAIN queue : queue[s].key = n /\ Bus!Exhausted(s)

(* The stream dropped a job of commit n before it was acked.               *)
AgedOut(n) == \E s \in DOMAIN queue : queue[s].key = n /\ queue[s].state = "expired"

(* A push to the default branch reaches the index: in the end each file it *)
(* changed has its rows but for those beyond GitHub's page, or an error was*)
(* logged, or the deliveries of its job were used up by workers that       *)
(* stopped, or the job reached the stream's MaxAge first.                  *)
PushIsIndexed ==
  \A n \in Commits :
    n \in DOMAIN trees ~>
      n \in DOMAIN trees /\ (Indexed(n) \/ n \in failed \/ WornOut(n) \/ AgedOut(n))

=============================================================================
