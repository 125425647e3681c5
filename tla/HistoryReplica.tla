--------------------------- MODULE HistoryReplica ---------------------------
(***************************************************************************)
(* The export of a dialog's history (runtime/history_export.go,            *)
(* internal/historyreplica/types.go). Every page that is asked for first   *)
(* brings an append-only stream up to date with the dialog, in one         *)
(* transaction under node.mu, and is then cut from it: entries, execution  *)
(* facts, receipts, texts with their chunks, and a manifest of the assets. *)
(* There is a stream for every binding of the dialog to a logical one. The *)
(* hash chain over a stream stands for the sequence itself.                *)
(*                                                                         *)
(* One dialog; the node goes on committing between two pages. A text is    *)
(* kept in source chunks (safe_text.go) that end at a rune, and leaves in  *)
(* smaller ones.                                                           *)
(***************************************************************************)
EXTENDS Integers, Sequences, FiniteSets, SequencesExt

CONSTANTS
  Bindings,        \* binding generations with a stream
  None,
  Limit,           \* records a page may hold
  Budget,          \* bytes a page may hold, MaximumPageBytes
  SourceChunk,     \* transcriptview.MaximumChunkBytes
  ReplicaChunk,    \* historyreplica.MaximumChunkBytes
  RuneCut,         \* most bytes a source chunk is shortened by to end at a rune
  TextSizes,       \* sizes of a text
  MaxMessages, MaxFacts, MaxAssets, MaxLost   \* bounds of the model

\* What the constants have to be; the modules that put this one to work assume it.
ReplicaAssumption ==
  /\ {Limit, SourceChunk, ReplicaChunk} \subseteq Nat \ {0}
  /\ Budget \in Nat /\ ReplicaChunk <= Budget /\ RuneCut \in 0..SourceChunk - 1
  /\ TextSizes \subseteq Nat \ {0}
  /\ {MaxMessages, MaxFacts, MaxAssets, MaxLost} \subseteq Nat

VARIABLES
  messages,    \* by sequence: role and the attempt, 0 while there is none
  facts,       \* events of the dialog, by seq: the message an event is of, or 0
  commands,    \* ids of accepted commands, in the order of their acceptance time
  texts,       \* of assistant messages: the sizes of their source chunks, None when incomplete
  assets,      \* number of artifacts
  deleted,
  streams,     \* binding -> the records of its stream
  copy,        \* binding -> the records the coordinator has
  synced,      \* binding -> what the dialog held when the coordinator last had all of it
  lost

dialog == <<messages, facts, commands, texts, assets, deleted>>
vars == <<dialog, streams, copy, synced, lost>>

Init ==
  /\ messages = <<>> /\ facts = <<>> /\ commands = <<>> /\ texts = <<>> /\ assets = 0
  /\ deleted = FALSE
  /\ streams = [b \in Bindings |-> <<>>] /\ copy = [b \in Bindings |-> <<>>]
  /\ synced = [b \in Bindings |-> None] /\ lost = 0

-----------------------------------------------------------------------------
(* What the node commits. The clock is not monotonic: a receipt may sort before earlier ones. *)
Accept(place) == commands' = InsertAt(commands, place, Len(commands) + 1)

Enqueue(place) ==
  /\ ~deleted /\ Len(messages) < MaxMessages /\ Len(facts) < MaxFacts
  /\ messages' = Append(messages, [role |-> "user", attempt |-> 0])
  /\ facts' = Append(facts, Len(messages) + 1)
  /\ Accept(place)
  /\ UNCHANGED <<texts, assets, deleted, streams, copy, synced, lost>>

(* DispatchNext: the message is given its attempt. *)
Dispatch(m) ==
  /\ ~deleted /\ Len(facts) < MaxFacts
  /\ messages[m] = [role |-> "user", attempt |-> 0]
  /\ messages' = [messages EXCEPT ![m].attempt = 1]
  /\ facts' = Append(facts, m)
  /\ UNCHANGED <<commands, texts, assets, deleted, streams, copy, synced, lost>>

Running == \E m \in 1..Len(messages) : messages[m].attempt > 0

(* The source chunks of a text: as much as a chunk takes, shortened to end at a rune, and    *)
(* the rest.                                                                                 *)
Sum(s) == FoldLeft(LAMBDA a, n : a + n, 0, s)
SourceChunks(size) ==
  {s \in UNION {[1..n -> 1..SourceChunk] : n \in 1..(size \div (SourceChunk - RuneCut)) + 1} :
     /\ Sum(s) = size
     /\ \A i \in 1..Len(s) - 1 :
          s[i] >= SourceChunk - RuneCut /\ Sum(SubSeq(s, i, Len(s))) > SourceChunk}
TextsOrNone == {None} \cup UNION {SourceChunks(n) : n \in TextSizes}

(* An assistant message with its text: complete, or the marker that it is not kept. *)
AssistantMessage(chunks) ==
  /\ ~deleted /\ Running /\ Len(messages) < MaxMessages /\ Len(facts) < MaxFacts
  /\ messages' = Append(messages, [role |-> "assistant", attempt |-> 1])
  /\ texts' = Append(texts, chunks)
  /\ facts' = Append(facts, Len(messages) + 1)
  /\ UNCHANGED <<commands, assets, deleted, streams, copy, synced, lost>>

(* input.respond: a message of the attempt, with no event. *)
AnswerInput(place) ==
  /\ ~deleted /\ Running /\ Len(messages) < MaxMessages
  /\ messages' = Append(messages, [role |-> "user", attempt |-> 1])
  /\ Accept(place)
  /\ UNCHANGED <<facts, texts, assets, deleted, streams, copy, synced, lost>>

StoreArtifact ==
  /\ ~deleted /\ Running /\ assets < MaxAssets /\ Len(facts) < MaxFacts
  /\ assets' = assets + 1 /\ facts' = Append(facts, 0)
  /\ UNCHANGED <<messages, commands, texts, deleted, streams, copy, synced, lost>>

Delete ==
  /\ ~deleted /\ deleted' = TRUE
  /\ UNCHANGED <<messages, facts, commands, texts, assets, streams, copy, synced, lost>>

-----------------------------------------------------------------------------
Record(type, id, revision, body) ==
  [type |-> type, id |-> id, revision |-> revision, body |-> body]
OfType(records, type) ==
  {records[i] : i \in {j \in 1..Len(records) : records[j].type = type}}

(* materializeReplicaEntries: an entry names the first event of its message, if it has one.  *)
(* The attempt of a user message comes after the message was accepted and is left out.       *)
AuthorEvent(m) == LET of == {i \in 1..Len(facts) : facts[i] = m}
                  IN IF of = {} THEN 0 ELSE Min(of)

SourceGeneration(m) == IF messages[m].role = "assistant" THEN messages[m].attempt ELSE 0

Entries == [m \in 1..Len(messages) |->
              Record("entry", m, 1, [role |-> messages[m].role, author |-> AuthorEvent(m),
                                     generation |-> SourceGeneration(m)])]
Facts == [i \in 1..Len(facts) |-> Record("fact", i, 1, facts[i])]
Receipts == [i \in 1..Len(commands) |-> Record("receipt", commands[i], 1, commands[i])]

(* materializeReplicaText: every source chunk is cut into pieces; the manifest says how many *)
(* there are, from the size of the text.                                                     *)
CeilDiv(a, b) == (a + b - 1) \div b
Pieces(chunks) == FoldLeft(LAMBDA a, n : a + CeilDiv(n, ReplicaChunk), 0, chunks)
ChunkCount(chunks) == CeilDiv(Sum(chunks), ReplicaChunk)
TextMatches(t) == texts[t] # None => Pieces(texts[t]) = ChunkCount(texts[t])
TextsMatch == \A t \in 1..Len(texts) : TextMatches(t)

ChunkRecords(t) ==
  IF texts[t] = None THEN <<>>
  ELSE [i \in 1..Pieces(texts[t]) |-> Record("chunk", <<t, i>>, 1, i)]

TextRecords ==
  LET upTo[t \in 0..Len(texts)] ==
        IF t = 0 THEN <<>>
        ELSE Append(upTo[t - 1], Record("text", t, 1, texts[t])) \o ChunkRecords(t)
  IN upTo[Len(texts)]
Ready == \A t \in 1..Len(texts) : texts[t] # None

(* materializeReplicaAssets: a manifest some stream has keeps its revision, a new one gets   *)
(* the next.                                                                                 *)
AssetRecords == UNION {OfType(streams[b], "assets") : b \in Bindings}
NextRevision == 1 + Max({0} \cup {r.revision : r \in AssetRecords})

AssetRevision ==
  LET same == {r.revision : r \in {q \in AssetRecords : q.body = assets}}
  IN IF same = {} THEN NextRevision ELSE Min(same)

AssetManifest == Record("assets", assets, AssetRevision, assets)

Candidates == Entries \o Facts \o Receipts \o TextRecords \o <<AssetManifest>>

(* appendReplicaRecord: what the stream has must be the same record, what it has not is      *)
(* sealed at its end.                                                                        *)
Conflicts(b) ==
  LET records == Candidates
  IN \E i \in 1..Len(records) : \E q \in OfType(streams[b], records[i].type) :
       q.id = records[i].id /\ q # records[i]
Place(r) == CHOOSE i \in 1..Len(commands) : commands[i] = r.id

\* Mutant of Sealed: receipts are taken up by their time.
SealedByTime(b, r) ==
  \E q \in OfType(streams[b], r.type) :
    IF r.type = "receipt" THEN Place(r) <= Place(q) ELSE r.id = q.id

Sealed(b, r) == \E q \in OfType(streams[b], r.type) : q.id = r.id

(* The elements of a sequence at some of its places, in their order.                         *)
Select(s, places) ==
  LET upTo[i \in 0..Len(s)] ==
        IF i = 0 THEN <<>>
        ELSE IF i \in places THEN Append(upTo[i - 1], s[i]) ELSE upTo[i - 1]
  IN upTo[Len(s)]

Unsealed(b) ==
  LET records == Candidates
  IN Select(records, {i \in 1..Len(records) : ~Sealed(b, records[i])})
Materialized(b) == streams[b] \o Unsealed(b)

Exports(b) == ~deleted /\ ~Conflicts(b) /\ TextsMatch

(* encodeHistoryExportPage: records are dropped from the end until the page fits. *)
Bytes(r) == IF r.type = "chunk" THEN ReplicaChunk ELSE 1
Rows(stream, after) ==
  SubSeq(stream, after + 1, IF after + Limit < Len(stream) THEN after + Limit ELSE Len(stream))

Fits(n) == n <= Budget

Page(stream, after) ==
  LET rows == Rows(stream, after)
      Size(n) == Sum([i \in 1..n |-> Bytes(rows[i])])
  IN SubSeq(rows, 1, Max({0} \cup {n \in 1..Len(rows) : Fits(Size(n))}))

Held == [messages |-> Len(messages), facts |-> Len(facts), commands |-> Len(commands),
         texts |-> Len(texts), assets |-> assets, ready |-> Ready]

(* ExportHistory after the last record the coordinator has: the stream is brought up to date *)
(* and committed; a page that is empty before the end is refused and nothing is committed.   *)
Export(b, delivered) ==
  /\ Exports(b)
  /\ delivered \/ lost < MaxLost
  /\ \E stream \in {Materialized(b)} : \E page \in {Page(stream, Len(copy[b]))} :
     LET end == Len(copy[b]) + Len(page) = Len(stream)
     IN /\ page # <<>> \/ end
        /\ streams' = [streams EXCEPT ![b] = stream]
        /\ copy' = IF delivered THEN [copy EXCEPT ![b] = @ \o page] ELSE copy
        /\ synced' = IF delivered /\ end THEN [synced EXCEPT ![b] = Held] ELSE synced
  /\ lost' = IF delivered THEN lost ELSE lost + 1
  /\ UNCHANGED dialog

-----------------------------------------------------------------------------
Work ==
  \/ \E place \in 1..Len(commands) + 1 : Enqueue(place) \/ AnswerInput(place)
  \/ \E m \in 1..Len(messages) : Dispatch(m)
  \/ \E chunks \in TextsOrNone : AssistantMessage(chunks)
  \/ StoreArtifact \/ Delete

Next == Work \/ \E b \in Bindings, delivered \in BOOLEAN : Export(b, delivered)

Spec == Init /\ [][Next]_vars

-----------------------------------------------------------------------------
TypeOK ==
  /\ messages \in Seq([role : {"user", "assistant"}, attempt : 0..1])
  /\ facts \in Seq(0..MaxMessages) /\ Len(facts) <= MaxFacts
  /\ IsInjective(commands) /\ Range(commands) = 1..Len(commands)
  /\ assets \in 0..MaxAssets /\ deleted \in BOOLEAN /\ lost \in 0..MaxLost
  /\ \A b \in Bindings : IsPrefix(copy[b], streams[b])
  /\ \A b \in Bindings : \A i, j \in 1..Len(streams[b]) : 
       streams[b][i].type = streams[b][j].type /\ streams[b][i].id = streams[b][j].id => i = j

(* A dialog that is there can be exported: no record of it ever differs from what was sealed *)
(* before it was dispatched, answered or extended, and its texts match their manifests. The  *)
(* last is not so for every text the node keeps: see ReplicaIsSound.                         *)
Exportable == ~deleted => \A b \in Bindings : Exports(b)

(* When the coordinator was told that it has everything, it had: every message, fact,        *)
(* receipt and text of that moment, whatever order they were accepted in and however many    *)
(* pages it took; and it was told the copy is ready only if no text was missing.             *)
SyncedIsComplete ==
  \A b \in Bindings : synced[b] # None =>
    LET ids(type) == {r.id : r \in OfType(copy[b], type)}
    IN /\ 1..synced[b].messages \subseteq ids("entry")
       /\ 1..synced[b].facts \subseteq ids("fact")
       /\ 1..synced[b].commands \subseteq ids("receipt")
       /\ 1..synced[b].texts \subseteq ids("text") /\ synced[b].assets \in ids("assets")
       /\ synced[b].ready => \A t \in 1..synced[b].texts :
            /\ texts[t] # None
            /\ {<<t, i>> : i \in 1..ChunkCount(texts[t])} \subseteq ids("chunk")

(* A revision of the asset manifest means the same assets in every stream of the dialog, and *)
(* in a stream a later manifest has a later revision, though streams are brought up to date  *)
(* at different times.                                                                       *)
RevisionsAgree ==
  /\ \A r, q \in AssetRecords : r.revision = q.revision <=> r.body = q.body
  /\ \A b \in Bindings : \A i, j \in 1..Len(streams[b]) :
       i < j /\ streams[b][i].type = "assets" /\ streams[b][j].type = "assets"
         => streams[b][i].revision < streams[b][j].revision

(* The export never contradicts itself, leaves nothing out, and its bindings agree; only a   *)
(* text that does not match its manifest can stop it.                                        *)
ReplicaIsSound ==
  TypeOK /\ (TextsMatch => Exportable) /\ SyncedIsComplete /\ RevisionsAgree

Has(b, type, id) == \E r \in OfType(copy[b], type) : r.id = id

(* The coordinator has every message and the whole of every complete text, or the dialog can *)
(* not be exported.                                                                          *)
CopyIsFull ==
  deleted \/ ~TextsMatch \/ \A b \in Bindings :
    /\ \A n \in 1..Len(messages) : Has(b, "entry", n)
    /\ \A n \in 1..Len(texts) :
         /\ Has(b, "text", n)
         /\ texts[n] # None => \A i \in 1..ChunkCount(texts[n]) : Has(b, "chunk", <<n, i>>)

=============================================================================
