------------------------------ MODULE Snapshots -------------------------------
(***************************************************************************)
(* Export of the knowledge tables, rotation of the export files, and the   *)
(* import of a snapshot into another database (internal/admin              *)
(* export_import.go, scheduler.go, janitor.go).  The export reads table    *)
(* after table while the workers write; tenants, of which there is one,    *)
(* and rules, which nothing references, are left out.                      *)
(***************************************************************************)
EXTENDS Naturals, FiniteSets, FiniteSetsExt

CONSTANTS
  SnapRepos, SnapChunks, SnapComments,  \* ids of rows
  RepoOf,      \* RepoOf[c]: the repository of chunk c
  GithubId,    \* GithubId[c]: the host's id of comment c; ids of two databases may share it
  MaxExports,  \* bound on the automatic exports
  MaxFiles     \* retention.auto_export_max_files

ASSUME SnapshotAssumption ==
  /\ DOMAIN RepoOf = SnapChunks /\ \A c \in SnapChunks : RepoOf[c] \in SnapRepos
  /\ DOMAIN GithubId = SnapComments
  /\ MaxExports \in Nat /\ MaxFiles \in Nat \ {0}

VARIABLES
  liveDb,        \* the database exported from
  coldDb,        \* the one imported into
  exporting,     \* the table the export reads next, or "idle"
  snapshot,      \* what it has read
  lateRepos,     \* repositories registered since it read that table
  exportDir,     \* exportDir[kind]: the timestamps of its export files of that kind
  exportBroken,  \* an automatic export has failed
  imported       \* "none", "ok" or "error": the last ImportData

snapshotVars == <<liveDb, coldDb, exporting, snapshot, lateRepos, exportDir, exportBroken, imported>>

-----------------------------------------------------------------------------
(* Comments maps the row's id to whether it has an embedding.              *)
Database == [repos: SUBSET SnapRepos, chunks: SUBSET SnapChunks,
             comments: UNION {[ids -> BOOLEAN] : ids \in SUBSET SnapComments}]
EmptyDb == [repos |-> {}, chunks |-> {}, comments |-> <<>>]
ExportFiles == [config: SUBSET (1..MaxExports), data: SUBSET (1..MaxExports)]

(* The foreign key of code_chunks and the unique index of review_comments. *)
Consistent(db) ==
  /\ \A c \in db.chunks : RepoOf[c] \in db.repos
  /\ \A c, d \in DOMAIN db.comments : GithubId[c] = GithubId[d] => c = d

SnapshotTypeOK ==
  /\ liveDb \in Database /\ Consistent(liveDb)
  /\ coldDb \in Database /\ Consistent(coldDb)
  /\ exporting \in {"idle", "repos", "chunks", "comments"}
  /\ snapshot \in Database
  /\ lateRepos \subseteq liveDb.repos
  /\ exportDir \in ExportFiles /\ exportBroken \in BOOLEAN
  /\ imported \in {"none", "ok", "error"}

SnapshotInit ==
  /\ liveDb = EmptyDb /\ coldDb = EmptyDb /\ snapshot = EmptyDb
  /\ exporting = "idle" /\ lateRepos = {} /\ imported = "none"
  /\ exportDir = [config |-> {}, data |-> {}] /\ exportBroken = FALSE

exportVars == <<exporting, snapshot, exportDir, exportBroken>>

-----------------------------------------------------------------------------
(* What the gateway, the workers and the backfill do meanwhile.            *)
Register(r) ==
  /\ liveDb' = [liveDb EXCEPT !.repos = @ \cup {r}]
  /\ lateRepos' = IF exporting \in {"chunks", "comments"} /\ r \notin liveDb.repos THEN lateRepos \cup {r} ELSE lateRepos
  /\ UNCHANGED <<coldDb, exportVars, imported>>

IndexChunk(c) ==
  /\ RepoOf[c] \in liveDb.repos
  /\ liveDb' = [liveDb EXCEPT !.chunks = @ \cup {c}]
  /\ UNCHANGED <<coldDb, lateRepos, exportVars, imported>>

WithComment(db, c, vec) == [db EXCEPT !.comments = [d \in DOMAIN @ \cup {c} |-> IF d = c THEN vec ELSE @[d]]]

Unclashing(db, c) == \A d \in DOMAIN db.comments : GithubId[d] = GithubId[c] => d = c

StoreComment(c, vec) ==
  /\ Unclashing(liveDb, c) /\ liveDb' = WithComment(liveDb, c, vec)
  /\ UNCHANGED <<coldDb, lateRepos, exportVars, imported>>

(* The other system meets the same comment before the import.              *)
ColdComment(c) ==
  /\ Unclashing(coldDb, c) /\ coldDb' = WithComment(coldDb, c, TRUE)
  /\ UNCHANGED <<liveDb, lateRepos, exportVars, imported>>

-----------------------------------------------------------------------------
(* exportOnce: the configuration's file first, then the data.              *)
StartExport ==
  /\ exporting = "idle"
  /\ \E stamp \in 1..MaxExports :
       /\ \A old \in exportDir.config \cup exportDir.data : old < stamp
       /\ exportDir' = [exportDir EXCEPT !.config = @ \cup {stamp}]
  /\ exporting' = "repos" /\ snapshot' = EmptyDb /\ lateRepos' = {}
  /\ UNCHANGED <<liveDb, coldDb, exportBroken, imported>>

(* Mutant: only enabled repositories are exported.                         *)
ReadSomeRepos ==
  /\ exporting = "repos" /\ exporting' = "chunks"
  /\ \E enabled \in SUBSET liveDb.repos : snapshot' = [snapshot EXCEPT !.repos = enabled]
  /\ UNCHANGED <<liveDb, coldDb, lateRepos, exportDir, exportBroken, imported>>

ReadRepos ==
  /\ exporting = "repos" /\ exporting' = "chunks"
  /\ snapshot' = [snapshot EXCEPT !.repos = liveDb.repos]
  /\ UNCHANGED <<liveDb, coldDb, lateRepos, exportDir, exportBroken, imported>>

ReadChunks ==
  /\ exporting = "chunks" /\ exporting' = "comments"
  /\ snapshot' = [snapshot EXCEPT !.chunks = liveDb.chunks]
  /\ UNCHANGED <<liveDb, coldDb, lateRepos, exportDir, exportBroken, imported>>

(* The last table; then the data's file is written.                        *)
ReadComments ==
  /\ exporting = "comments" /\ exporting' = "idle"
  /\ snapshot' = [snapshot EXCEPT !.comments = liveDb.comments]
  /\ exportDir' = [exportDir EXCEPT !.data = @ \cup {Max(exportDir.config)}]
  /\ UNCHANGED <<liveDb, coldDb, lateRepos, exportBroken, imported>>

(* A query fails or the process stops: the configuration's file stays.     *)
ExportFails ==
  /\ exporting # "idle" /\ exporting' = "idle"
  /\ exportBroken' = TRUE
  /\ snapshot' = EmptyDb
  /\ UNCHANGED <<liveDb, coldDb, lateRepos, exportDir, imported>>

(* rotateExportFiles, for one kind of file: by modification time.          *)
KeepNewest(files, n) == {i \in files : Cardinality({j \in files : j > i}) < n}

SweepExports ==
  /\ exportDir' = [config |-> KeepNewest(exportDir.config, MaxFiles), data |-> KeepNewest(exportDir.data, MaxFiles)]
  /\ UNCHANGED <<liveDb, coldDb, exporting, snapshot, lateRepos, exportBroken, imported>>

-----------------------------------------------------------------------------
(* The rows an INSERT .. ON CONFLICT of each table accepts: parents first, *)
(* a vector that is not empty (vectorLiteral writes "[]" for none, which   *)
(* the column's dimension refuses), and no second row for a github_id.     *)
ChunksFit(db) == \A c \in snapshot.chunks : RepoOf[c] \in db.repos
CommentsFit(db) ==
  \A c \in DOMAIN snapshot.comments : snapshot.comments[c] /\ Unclashing(db, c)

FitsInOrder == ChunksFit([coldDb EXCEPT !.repos = @ \cup snapshot.repos]) /\ CommentsFit(coldDb)

(* ImportData: one transaction over all tables.                            *)
ImportData ==
  /\ exporting = "idle" /\ snapshot # EmptyDb
  /\ \/ /\ FitsInOrder
        /\ coldDb' = [repos |-> coldDb.repos \cup snapshot.repos, chunks |-> coldDb.chunks \cup snapshot.chunks,
                    comments |-> [c \in DOMAIN coldDb.comments \cup DOMAIN snapshot.comments |->
                                    IF c \in DOMAIN snapshot.comments THEN snapshot.comments[c] ELSE coldDb.comments[c]]]
        /\ imported' = "ok"
     \/ /\ ~FitsInOrder
        /\ imported' = "error"
        /\ UNCHANGED coldDb
  /\ UNCHANGED <<liveDb, lateRepos, exportVars>>

SnapshotNext ==
  \/ \E r \in SnapRepos : Register(r)
  \/ \E c \in SnapChunks : IndexChunk(c)
  \/ \E c \in SnapComments : ColdComment(c) \/ \E vec \in BOOLEAN : StoreComment(c, vec)
  \/ StartExport \/ ReadRepos \/ ReadChunks \/ ReadComments \/ ExportFails
  \/ SweepExports \/ ImportData

SnapshotSpec == SnapshotInit /\ [][SnapshotNext]_snapshotVars

-----------------------------------------------------------------------------
ImportFailureIsExplained ==
  ~FitsInOrder =>
    \/ \E c \in snapshot.chunks : RepoOf[c] \in lateRepos
    \/ \E c \in DOMAIN snapshot.comments : ~snapshot.comments[c] \/ ~Unclashing(coldDb, c)

PairsStayTogether ==
  ~exportBroken /\ Cardinality(exportDir.config) <= MaxFiles /\ Cardinality(exportDir.data) <= MaxFiles =>
    exportDir.config = exportDir.data

(* What an export has left behind is of use.  It can be imported into a    *)
(* fresh database, but for two reasons: a repository was registered, and   *)
(* indexed, after the export had read the repositories; or a comment had   *)
(* no embedding yet.  Into a database in use, a comment stored there under *)
(* another id is a third.  And where every export has succeeded and no more*)
(* files are left than the limit allows, they are the pairs of the same    *)
(* exports, although the two kinds are rotated on their own and a sweep    *)
(* may fall into an export.                                                *)
ExportIsUsable == exporting = "idle" => ImportFailureIsExplained /\ PairsStayTogether
=============================================================================
