------------------------------- MODULE MCStorage -------------------------------
(***************************************************************************)
(* What the node keeps and shows, on one small instance (MCStorage.cfg),   *)
(* for what must never happen.  Each behaviour, named by part, is one of   *)
(* five: the commands of two clients; the files of two texts and an        *)
(* upload; the limits of three texts; the lists a client walks through;    *)
(* and the export of a dialog for two bindings.  They share no state, and  *)
(* the variables of the others stay as they began.                         *)
(***************************************************************************)
EXTENDS Integers, Sequences, FiniteSets, TLC

CONSTANTS
  Ids, Disks, Undecided, Nothing, Dialog, MaxHolds,              \* CommandLog
  Sources, Extra, Uploads, ChunkBytes, MaxText, MaxStorage, MarkerReserve,
  MaxSources, MaxChunks, TextSizes,                              \* Artifacts
  Dialogs, Home, PageLimit, PageBudget, Sizes, MaxRows, MaxVersion, \* Pages
  Bindings, ExportLimit, ExportBudget, SourceChunk, ReplicaChunk, RuneCut,
  MessageSizes, MaxMessages, MaxFacts, MaxAssets, MaxLost,       \* HistoryReplica
  None, MaxCrashes

VARIABLES
  part,
  outcome, effects, receipts, deleted, held, holds, disk, reserve, up, hand, given, crashes,
  open, files, temps, unsynced, rows, usage, writer, upload, retained, failures,
  version, dialogs, tombstones, requests, messages, events, walk,
  entries, facts, commands, texts, assets, removed, streams, copy, synced, lost

Commands == INSTANCE CommandLog
AllSources == Sources \cup Extra
Files == INSTANCE Artifacts WITH
  Sources <- AllSources, up <- open, crashes <- failures
Lists == INSTANCE Pages WITH
  Limit <- PageLimit, Budget <- PageBudget, deleted <- tombstones
Replica == INSTANCE HistoryReplica WITH
  Limit <- ExportLimit, Budget <- ExportBudget, TextSizes <- MessageSizes,
  messages <- entries, deleted <- removed

ASSUME StorageAssumption ==
  /\ Commands!LogAssumption /\ Files!ArtifactsAssumption
  /\ Lists!PagesAssumption /\ Replica!ReplicaAssumption

commandVars ==
  <<outcome, effects, receipts, deleted, held, holds, disk, reserve, up, hand, given, crashes>>
fileVars == <<open, files, temps, unsynced, rows, usage, writer, upload, retained, failures>>
listVars == <<version, dialogs, tombstones, requests, messages, events, walk>>
replicaVars ==
  <<entries, facts, commands, texts, assets, removed, streams, copy, synced, lost>>
vars == <<part, commandVars, fileVars, listVars, replicaVars>>

Init ==
  /\ part \in {"commands", "files", "limits", "lists", "replica"}
  /\ Commands!Init /\ Files!Init /\ Lists!Init /\ Replica!Init

CommandStep ==
  /\ part = "commands" /\ Commands!Next
  /\ UNCHANGED <<part, fileVars, listVars, replicaVars>>

\* Two texts and uploads with crashes, or three texts alone.
FileStep ==
  /\ part \in {"files", "limits"} /\ Files!Next
  /\ part = "files" /\ writer' # None => writer'.source \in Sources
  /\ part = "limits" => failures' = 0 /\ upload' = upload
  /\ UNCHANGED <<part, commandVars, listVars, replicaVars>>

ListStep ==
  /\ part = "lists" /\ Lists!Next
  /\ UNCHANGED <<part, commandVars, fileVars, replicaVars>>

ReplicaStep ==
  /\ part = "replica" /\ Replica!Next
  /\ UNCHANGED <<part, commandVars, fileVars, listVars>>

Next == CommandStep \/ FileStep \/ ListStep \/ ReplicaStep

Spec == Init /\ [][Next]_vars

\* Texts are interchangeable, and so are command ids and the bindings of a dialog.
Interchangeable ==
  Permutations(Sources) \cup Permutations(Bindings) \cup Permutations(Ids)

-----------------------------------------------------------------------------
\* An accepted command takes effect once, all receipts of an id are one, and the
\* control reserve is never half a file under a running node (CommandLog).
CommandsAreSound == part = "commands" => Commands!CommandsAreSound

\* Command admission implements the promise of module ExactlyOnce, through lost
\* answers, retries, crashes, holds and a full disk (CommandLog).
KeepsPromise == Commands!KeepsPromise

\* A committed row has its file with the same bytes, a text is there as a whole,
\* and no file is left without an owner (Artifacts).
ArtifactsAreKept ==
  part \in {"files", "limits"} => Files!ArtifactsAreKept

\* The usage row is what the rows add up to, and the marker of a missing text
\* still fits (Artifacts).
UsageIsSound ==
  part \in {"files", "limits"} => Files!UsageIsSound

\* A walk through a list that is not refused gives the rows of the list, and the
\* history can be read back while it grows (Pages).
PagesAreExact == [](part = "lists" => Lists!PageIsExact) /\ Lists!LatestSurvives

\* The export of a dialog never contradicts what it sealed, is complete when it
\* says so, and numbers assets alike for every binding; only a text whose chunks
\* are not as many as its manifest says can stop it (HistoryReplica).
ReplicaIsSound == part = "replica" => Replica!ReplicaIsSound

\* A dialog that is there can be exported, whatever texts the node kept for it:
\* materializeReplicaText ends with the check that the chunks it made of a text
\* are as many as the manifest says (history_export.go:555).
DialogIsExportable == part = "replica" => Replica!Exportable
=============================================================================
