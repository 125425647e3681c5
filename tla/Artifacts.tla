----------------------------- MODULE Artifacts -----------------------------
(***************************************************************************)
(* Bytes in files, rows in SQLite: how the node keeps the artifacts of an  *)
(* attempt (runtime/artifact.go, safe_text.go, artifact_recovery.go and    *)
(* the transaction of ObserveAdapterEvent). A file is written under a      *)
(* temporary name, synced, renamed and its directory synced before the row *)
(* that refers to it is committed. Two writers: the stream observer, which *)
(* holds node.mu from its first file to its commit and names the files of  *)
(* a text after its source; and StoreArtifact, which writes a file under a *)
(* fresh id with no lock held and takes node.mu to commit.                 *)
(*                                                                         *)
(* The process may lose power at any step: a rename whose directory was    *)
(* not synced may then be undone. Opening the volume removes what no row   *)
(* refers to.                                                              *)
(***************************************************************************)
EXTENDS Integers, Sequences, FiniteSets, Functions

CONSTANTS
  Sources,          \* what a text is of: a message, the input, output or result of a call
  Uploads,          \* ids StoreArtifact draws
  None,
  ChunkBytes,       \* MaximumChunkBytes
  MaxText,          \* MaximumTextBytes, of one attempt
  MaxStorage,       \* safeTextMaximumStorage
  MarkerReserve,    \* safeTextLimitMarkerReserve
  MaxSources,       \* safeTextMaximumSources
  MaxChunks,        \* safeTextMaximumChunks
  TextSizes,        \* sizes of a text
  MaxCrashes        \* bound on the crashes

VARIABLES
  up,        \* the volume is open
  files,     \* name -> content, the directory "artifacts"
  temps,     \* temporary names in it
  unsynced,  \* names renamed and not known to be on disk
  rows,      \* name -> content, the committed rows
  usage,     \* the committed usage row of the attempt, None before the first text
  writer,    \* the observer's transaction, None when there is none
  upload,    \* id -> how far StoreArtifact is with it
  retained,  \* files kept by a commit that reported an error
  crashes

disk == <<files, temps, unsynced>>
vars == <<up, disk, rows, usage, writer, upload, retained, crashes>>

(* The names derived from a source, and an upload's. *)
UsageFile == [kind |-> "usage", of |-> None, index |-> 0]
Manifest(s) == [kind |-> "manifest", of |-> s, index |-> 0]
Chunk(s, i) == [kind |-> "chunk", of |-> s, index |-> i]
Upload(id) == [kind |-> "upload", of |-> id, index |-> 0]

(* The contents a source may be reported with: two texts of a size are different texts. *)
Texts == [size : TextSizes, variant : {1, 2}, cut : BOOLEAN]
NoText == [size |-> 0, variant |-> 0, cut |-> FALSE]

CeilDiv(a, b) == (a + b - 1) \div b
Chunks(text) == CeilDiv(text.size, ChunkBytes)
ManifestBytes(complete, text) == 1 + (IF complete THEN Chunks(text) ELSE 0)

Names == {UsageFile} \cup {Manifest(s) : s \in Sources} \cup {Upload(id) : id \in Uploads}
           \cup {Chunk(s, i) : s \in Sources, i \in 1..MaxChunks}

UsageRows == [text : 0..MaxText, storage : 0..MaxStorage, sources : 0..MaxSources,
              chunks : 0..MaxChunks, sealed : BOOLEAN]
Writers == [source : Sources, text : Texts, complete : BOOLEAN, step : {"next", "rename", "sync"},
            todo : Seq(Names), names : SUBSET Names, created : SUBSET Names]

\* What the constants have to be; the modules that put this one to work assume it.
ArtifactsAssumption ==
  /\ {ChunkBytes, MaxSources, MarkerReserve} \subseteq Nat \ {0}
  /\ {MaxText, MaxStorage, MaxChunks, MaxCrashes} \subseteq Nat
  /\ TextSizes \subseteq Nat /\ MarkerReserve <= MaxStorage
  /\ None \notin Sources \cup Uploads \cup UsageRows \cup Writers

NoUsage == [text |-> 0, storage |-> 0, sources |-> 0, chunks |-> 0, sealed |-> FALSE]
Usage == IF usage = None THEN NoUsage ELSE usage

Init ==
  /\ up = TRUE /\ files = <<>> /\ temps = {} /\ unsynced = {}
  /\ rows = <<>> /\ usage = None /\ writer = None
  /\ upload = [id \in Uploads |-> "new"]
  /\ retained = {} /\ crashes = 0

Put(f, n, c) == [m \in DOMAIN f \cup {n} |-> IF m = n THEN c ELSE f[m]]
Without(f, names) == Restrict(f, DOMAIN f \ names)

-----------------------------------------------------------------------------
\* Mutant of CanStore: no room is kept for the marker.
WithoutReserve(text) ==
  /\ ~Usage.sealed /\ Usage.text <= MaxText - text.size
  /\ Usage.storage <= MaxStorage - text.size - ManifestBytes(TRUE, text)
  /\ Usage.sources < MaxSources /\ Usage.chunks <= MaxChunks - Chunks(text)

(* safeTextCanStoreComplete: the text, its manifest, and later a marker must all fit. *)
CanStore(text) ==
  LET storage == text.size + ManifestBytes(TRUE, text)
  IN /\ ~Usage.sealed /\ Usage.text <= MaxText - text.size
     /\ Usage.storage <= MaxStorage - MarkerReserve - storage
     /\ Usage.sources < MaxSources - 1
     /\ Usage.chunks <= MaxChunks - Chunks(text)

Complete(text) == ~text.cut /\ text.size <= MaxText /\ CanStore(text)

(* The marker that says a text is missing: the reserve must have room for it. *)
MarkerFits ==
  /\ ManifestBytes(FALSE, NoText) <= MarkerReserve
  /\ Usage.sources < MaxSources
  /\ Usage.storage <= MaxStorage - ManifestBytes(FALSE, NoText)

Content(text, complete) == [text |-> text, complete |-> complete]

(* captureSafeText: the files of a text that is new, in the order they are published. A text *)
(* the attempt has must be the same, one that comes after the marker is not kept.            *)
Capture(s, text) ==
  /\ up /\ writer = None
  /\ Manifest(s) \notin DOMAIN rows /\ ~Usage.sealed
  /\ Complete(text) \/ MarkerFits
  /\ LET complete == Complete(text)
         chunks == IF complete THEN [i \in 1..Chunks(text) |-> Chunk(s, i)] ELSE <<>>
         first == IF usage = None THEN <<UsageFile>> ELSE <<>>
     IN writer' = [source |-> s, text |-> text, complete |-> complete, step |-> "next",
                   todo |-> first \o chunks \o <<Manifest(s)>>,
                   names |-> Range(first \o chunks) \cup {Manifest(s)}, created |-> {}]
  /\ UNCHANGED <<up, disk, rows, usage, upload, retained, crashes>>

(* What a file of the writer holds; the usage file is empty. *)
Body(n) == IF n = UsageFile THEN Content(NoText, TRUE) ELSE Content(writer.text, writer.complete)

CleanUp == files' = Without(files, writer.created)

(* An error before the commit: cleanupKnownRollback removes the files this writer created. *)
Rollback ==
  /\ writer' = None /\ CleanUp
  /\ temps' = temps \ writer.names /\ unsynced' = unsynced \ writer.created
  /\ UNCHANGED <<up, rows, usage, upload, retained, crashes>>

SameFile(n) == files[n] = Body(n)

(* publishSafeTextArtifact finds the file: left by an earlier commit, it must hold the same. *)
FindFile ==
  /\ writer # None /\ writer.step = "next" /\ writer.todo # <<>>
  /\ Head(writer.todo) \in DOMAIN files
  /\ IF SameFile(Head(writer.todo))
     THEN /\ writer' = [writer EXCEPT !.todo = Tail(@)]
          /\ UNCHANGED <<up, disk, rows, usage, upload, retained, crashes>>
     ELSE Rollback

(* It does not: the bytes are written and synced under a temporary name. *)
WriteTemp ==
  /\ writer # None /\ writer.step = "next" /\ writer.todo # <<>>
  /\ Head(writer.todo) \notin DOMAIN files
  /\ temps' = temps \cup {Head(writer.todo)}
  /\ writer' = [writer EXCEPT !.step = "rename"]
  /\ UNCHANGED <<up, files, unsynced, rows, usage, upload, retained, crashes>>

Rename ==
  /\ writer # None /\ writer.step = "rename"
  /\ LET n == Head(writer.todo)
     IN /\ files' = Put(files, n, Body(n))
        /\ temps' = temps \ {n} /\ unsynced' = unsynced \cup {n}
        /\ writer' = [writer EXCEPT !.step = "sync", !.created = @ \cup {n}]
  /\ UNCHANGED <<up, rows, usage, upload, retained, crashes>>

\* Mutant of Synced: the directory is not synchronised.
SyncNothing == unsynced

(* Syncing the directory makes every rename in it durable. *)
Synced == {}

SyncDir ==
  /\ writer # None /\ writer.step = "sync"
  /\ unsynced' = Synced
  /\ writer' = [writer EXCEPT !.step = "next", !.todo = Tail(@)]
  /\ UNCHANGED <<up, files, temps, rows, usage, upload, retained, crashes>>

(* Anything up to the commit may fail. *)
Fail == writer # None /\ Rollback

(* updateSafeTextUsage. *)
Counted ==
  [text |-> Usage.text + (IF writer.complete THEN writer.text.size ELSE 0),
   storage |-> Usage.storage + ManifestBytes(writer.complete, writer.text)
                 + (IF writer.complete THEN writer.text.size ELSE 0),
   sources |-> Usage.sources + 1,
   chunks |-> Usage.chunks + (IF writer.complete THEN Chunks(writer.text) ELSE 0),
   sealed |-> ~writer.complete]

(* retainForCommit and Commit: the rows of the text and its usage in one transaction. When   *)
(* Commit reports an error the transaction may have been committed, and the files are kept.  *)
Commit(committed, reported) ==
  /\ writer # None /\ writer.step = "next" /\ writer.todo = <<>>
  /\ committed \/ ~reported
  /\ IF committed
     THEN /\ rows' = [n \in DOMAIN rows \cup writer.names |->
                        IF n \in writer.names THEN Body(n) ELSE rows[n]]
          /\ usage' = Counted
     ELSE UNCHANGED <<rows, usage>>
  /\ retained' = IF reported THEN retained ELSE retained \cup writer.names
  /\ writer' = None
  /\ UNCHANGED <<up, disk, upload, crashes>>

-----------------------------------------------------------------------------
(* StoreArtifact, up to node.mu: the same steps for one file with a fresh name. *)
StoreTemp(id) ==
  /\ up /\ upload[id] = "new"
  /\ temps' = temps \cup {Upload(id)}
  /\ upload' = [upload EXCEPT ![id] = "temp"]
  /\ UNCHANGED <<up, files, unsynced, rows, usage, writer, retained, crashes>>

StoreRename(id) ==
  /\ upload[id] = "temp"
  /\ temps' = temps \ {Upload(id)}
  /\ files' = Put(files, Upload(id), Content(NoText, TRUE))
  /\ unsynced' = unsynced \cup {Upload(id)}
  /\ upload' = [upload EXCEPT ![id] = "renamed"]
  /\ UNCHANGED <<up, rows, usage, writer, retained, crashes>>

StoreSync(id) ==
  /\ upload[id] = "renamed"
  /\ unsynced' = Synced
  /\ upload' = [upload EXCEPT ![id] = "synced"]
  /\ UNCHANGED <<up, files, temps, rows, usage, writer, retained, crashes>>

Discard(id) ==
  /\ files' = Without(files, {Upload(id)})
  /\ temps' = temps \ {Upload(id)} /\ unsynced' = unsynced \ {Upload(id)}

(* An error before the commit, or an output budget that is exceeded: the file is removed.    *)
StoreRefused(id) ==
  /\ upload[id] \in {"temp", "renamed", "synced"}
  /\ Discard(id)
  /\ upload' = [upload EXCEPT ![id] = "done"]
  /\ UNCHANGED <<up, rows, usage, writer, retained, crashes>>

(* The commit, under node.mu: a row, or for a budget just exceeded the marker without one.   *)
StoreCommit(id, committed, reported) ==
  /\ upload[id] = "synced" /\ writer = None
  /\ committed \/ ~reported
  /\ rows' = IF committed THEN Put(rows, Upload(id), Content(NoText, TRUE)) ELSE rows
  /\ retained' = IF reported THEN retained ELSE retained \cup {Upload(id)}
  /\ upload' = [upload EXCEPT ![id] = "done"]
  /\ UNCHANGED <<up, disk, usage, writer, crashes>>

(* Close, once ArtifactIngress has no call under way and the observer is out of node.mu. *)
Close ==
  /\ up /\ writer = None /\ \A id \in Uploads : upload[id] \in {"new", "done"}
  /\ up' = FALSE
  /\ UNCHANGED <<disk, rows, usage, writer, upload, retained, crashes>>

(* Power is lost: some of the unsynced renames did not happen. *)
Crash(lost) ==
  /\ up /\ crashes < MaxCrashes /\ lost \subseteq unsynced
  /\ files' = Without(files, lost) /\ unsynced' = {}
  /\ up' = FALSE /\ crashes' = crashes + 1 /\ writer' = None
  /\ upload' = [id \in Uploads |-> IF upload[id] = "new" THEN "new" ELSE "done"]
  /\ UNCHANGED <<temps, rows, usage, retained>>

(* reconcileArtifactFiles, before anything else uses the volume. *)
Open ==
  /\ ~up /\ up' = TRUE
  /\ files' = Restrict(files, DOMAIN files \cap DOMAIN rows)
  /\ temps' = {} /\ retained' = {}
  /\ UNCHANGED <<unsynced, rows, usage, writer, upload, crashes>>

-----------------------------------------------------------------------------
Write == FindFile \/ WriteTemp \/ Rename \/ SyncDir
      \/ \E c, r \in BOOLEAN : Commit(c, r)

Next ==
  \/ \E s \in Sources, text \in Texts : Capture(s, text)
  \/ Write \/ Fail
  \/ \E id \in Uploads : \/ StoreTemp(id) \/ StoreRename(id) \/ StoreSync(id) \/ StoreRefused(id)
                         \/ \E c, r \in BOOLEAN : StoreCommit(id, c, r)
  \/ Close \/ (\E lost \in SUBSET unsynced : Crash(lost)) \/ Open

Spec == Init /\ [][Next]_vars

-----------------------------------------------------------------------------
TypeOK ==
  /\ up \in BOOLEAN /\ DOMAIN files \subseteq Names /\ DOMAIN rows \subseteq Names
  /\ temps \subseteq Names /\ unsynced \subseteq Names /\ retained \subseteq Names
  /\ usage \in UsageRows \cup {None} /\ writer \in Writers \cup {None}
  /\ upload \in [Uploads -> {"new", "temp", "renamed", "synced", "done"}]
  /\ crashes \in 0..MaxCrashes

(* A committed row never points at a missing or a different file: not after an error of the  *)
(* commit, a rollback of another text, a loss of power or the clean-up at the next start.    *)
RowsHaveFiles == \A n \in DOMAIN rows : n \in DOMAIN files /\ files[n] = rows[n]

(* A text is committed as a whole: its manifest with every chunk of the same text, or the    *)
(* marker with none.                                                                         *)
TextIsWhole ==
  /\ \A s \in Sources : Manifest(s) \in DOMAIN rows =>
       LET m == rows[Manifest(s)]
       IN {n.index : n \in {k \in DOMAIN rows : k.kind = "chunk" /\ k.of = s}}
            = IF m.complete THEN 1..Chunks(m.text) ELSE {}
  /\ \A n \in DOMAIN rows : n.kind = "chunk" =>
       Manifest(n.of) \in DOMAIN rows /\ rows[n] = rows[Manifest(n.of)]

(* The texts of the attempt that have rows, those that are there as a whole, and what is     *)
(* there of them: one element for each byte, and the rows of the chunks.                     *)
Kept == {s \in Sources : Manifest(s) \in DOMAIN rows}
Whole == {s \in Kept : rows[Manifest(s)].complete}
Bytes == UNION {{s} \X (1..rows[Manifest(s)].text.size) : s \in Whole}
KeptChunks == {n \in DOMAIN rows : n.kind = "chunk"}

(* The usage row counts exactly what is committed, at most one text of the attempt is a      *)
(* marker, and that one is the last.                                                         *)
UsageIsExact ==
  /\ Usage.sources = Cardinality(Kept)
  /\ Usage.text = Cardinality(Bytes) /\ Usage.chunks = Cardinality(KeptChunks)
  /\ Usage.storage = Usage.text + Usage.chunks + Usage.sources
  /\ Cardinality(Kept \ Whole) = IF Usage.sealed THEN 1 ELSE 0

(* As long as no marker was written there is room for one, so that no text is ever too much  *)
(* for the node to say that it is missing: the observer never fails on its own bookkeeping.  *)
RoomForMarker == ~Usage.sealed => MarkerFits

(* What lies on the disk without a row is being written, or was left by a commit that        *)
(* reported an error; everything else was removed.                                           *)
NoOrphans ==
  up => \A n \in DOMAIN files \ DOMAIN rows :
          \/ n \in retained \/ (writer # None /\ n \in writer.created)
          \/ n.kind = "upload" /\ upload[n.of] \in {"renamed", "synced"}

(* What is committed is on the disk, whole, and nothing else is.                             *)
ArtifactsAreKept == TypeOK /\ RowsHaveFiles /\ TextIsWhole /\ NoOrphans

(* The usage row is right, and leaves room to say that a text is missing.                    *)
UsageIsSound == UsageIsExact /\ RoomForMarker
=============================================================================
