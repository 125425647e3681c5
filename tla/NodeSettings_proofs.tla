------------------------ MODULE NodeSettings_proofs -------------------------
(***************************************************************************)
(* A ready node runs the settings it reports as applied                    *)
(* (ReadyRunsApplied) and a command is applied at most once                *)
(* (CommandAppliesOnce), for every set of commands, configurations and     *)
(* every number of revisions.                                              *)
(*                                                                         *)
(* The settings service is taken as MCDurable puts it to work, beside      *)
(* dispatch and the native mapping, and alone.                             *)
(*                                                                         *)
(* Neither is inductive alone.  While runApply holds the fence, the native *)
(* process, the record and the file differ in ways that depend on its      *)
(* step; the settings to go back to are still the applied ones because     *)
(* nobody else can confirm others meanwhile.                               *)
(***************************************************************************)
EXTENDS MCDurable, TLAPS

-----------------------------------------------------------------------------
\* What is assumed of the constants of the service.
LEMMA ServiceAssumption == Service!SettingsAssumption
BY PartsAssumption

-----------------------------------------------------------------------------
\* The invariant.

\* The commands runApply was started for, ever or in this process.
Taken == {c \in Commands : calls[c] > 0 \/ worker[c] \notin {"idle", "orphan"}}

\* Records that lack no receipt and restore nothing that was never applied.
Sound(taken) ==
  {s \in Service!States :
     /\ s.appliedRev = 0 => s.applied = Base
     /\ \A c \in taken : s.status[c] # "none"}

StoreInv ==
  mem \in Sound(Taken) /\ disk \in Sound(Taken) /\ durable \subseteq Sound(Taken)

\* The steps at which runApply has the fence, or may have it.
Fenced == {"fenced", "stopping", "applied", "broken", "undo", "reverted",
           "unreverted", "confirmed"}
MayHold == Fenced \cup {"failing", "doubtful", "done"}

\* One operation runs at a time, and it is the one runApply works at.
WorkInv ==
  /\ \A c \in Commands : worker[c] \in Service!Working =>
       mem.status[c] = "running" /\ mem.target[c] > 0
  /\ \A c, d \in Commands :
       mem.status[c] = "running" /\ mem.status[d] = "running" => c = d
  /\ \A c \in Commands : worker[c] = "orphan" => mem.status[c] # "none"
  /\ \A c \in Commands : worker[c] \in {"begun", "checked", "waiting", "fenced",
                                    "stopping"} => calls[c] = 0

\* There is one fence, and runApply goes back to what is applied.
FenceInv ==
  /\ \A c \in Commands : worker[c] \in Fenced => holder = c
  /\ \A c \in Commands : holder = c => worker[c] \in MayHold
  /\ \A c \in Commands : worker[c] \in (Service!Working \cup {"undo"}) \ {"begun"} =>
       prevOf[c] = mem.applied

\* The process, the record and the file agree, except under the fence.
Agree == native = mem.applied /\ disk.applied = mem.applied

SettledFence ==
  \/ holder = Service!Nobody
  \/ holder \in Commands /\ worker[holder] \in {"fenced", "stopping", "failing", "done"}

AgreeInv ==
  /\ ready /\ SettledFence => Agree
  /\ \A c \in Commands :
       /\ worker[c] = "applied" => native = draftOf[c]
       /\ worker[c] = "applied" /\ ready => disk.applied = mem.applied
       /\ worker[c] = "confirmed" => Agree
       /\ worker[c] = "reverted" => native = mem.applied

IInv == Service!TypeOK /\ StoreInv /\ WorkInv /\ FenceInv /\ AgreeInv /\ Service!CommandAppliesOnce

-----------------------------------------------------------------------------
\* Records.

\* A sound record stays sound as more commands are applied.
LEMMA SoundMonotone ==
  ASSUME NEW taken, NEW taken1, taken1 \subseteq taken
  PROVE  Sound(taken) \subseteq Sound(taken1)
BY DEF Sound

\* A write adds at most the record that is written to what the file may hold.
LEMMA PersistSound ==
  ASSUME NEW good, disk \in good, durable \subseteq good, NEW s \in good,
         NEW write \in Service!Outcomes, Service!Persist(s, write)
  PROVE  disk' \in good /\ durable' \subseteq good
BY DEF Service!Persist, Service!Outcomes

\* What the file says is applied is what it said before or what was written.
LEMMA PersistApplied ==
  ASSUME NEW s, NEW write \in Service!Outcomes, Service!Persist(s, write)
  PROVE  disk' = disk \/ disk' = s
BY DEF Service!Persist

\* A new draft leaves the operation and the receipts alone.
LEMMA SoundDrafted ==
  ASSUME NEW taken, mem \in Sound(taken), NEW config \in Configs,
         mem.draftRev < MaxRevision
  PROVE  /\ Service!Drafted(config) \in Sound(taken)
         /\ Service!Drafted(config).applied = mem.applied
         /\ Service!Drafted(config).status = mem.status
         /\ Service!Drafted(config).target = mem.target
<1> DEFINE s == Service!Drafted(config)
<1>1. mem \in Service!States
  BY DEF Sound
<1>2. mem.draftRev + 1 \in 0..MaxRevision
  BY <1>1, ServiceAssumption DEF Service!SettingsAssumption, Service!States
<1>3. s \in Service!States
  BY <1>1, <1>2 DEF Service!States, Service!Drafted, Service!Settings
<1>4. /\ s.applied = mem.applied /\ s.appliedRev = mem.appliedRev
      /\ s.status = mem.status /\ s.target = mem.target
  BY <1>1 DEF Service!States, Service!Drafted
<1> HIDE DEF s
<1> QED  BY <1>3, <1>4 DEF Sound, s

WithStatus(s, c, status) == [s EXCEPT !.status[c] = status]

\* A verdict drops no receipt.
LEMMA SoundStatus ==
  ASSUME NEW taken \in SUBSET Commands, NEW s \in Sound(taken), NEW c \in taken,
         NEW status \in {"succeeded", "failed"}
  PROVE  WithStatus(s, c, status) \in Sound(taken)
<1> DEFINE r == WithStatus(s, c, status)
<1>1. s \in Service!States
  BY DEF Sound
<1>2. r \in Service!States
  BY <1>1 DEF Service!States, WithStatus
<1>3. /\ r.applied = s.applied /\ r.appliedRev = s.appliedRev
      /\ r.status = [s.status EXCEPT ![c] = status]
  BY <1>1 DEF Service!States, WithStatus
<1>4. s.status \in [Commands -> {"none", "running", "succeeded", "failed"}]
  BY <1>1 DEF Service!States
<1> HIDE DEF r
<1>5. \A d \in taken : r.status[d] # "none"
  BY <1>3, <1>4 DEF Sound
<1> QED  BY <1>2, <1>3, <1>5 DEF Sound, r

\* What startup makes of a sound record is sound (Open).
LEMMA SoundRecovered ==
  ASSUME NEW taken \in SUBSET Commands, NEW s \in Sound(taken)
  PROVE  /\ Service!Recovered(s) \in Sound(taken)
         /\ Service!Recovered(s).applied = s.applied
         /\ \A c \in Commands : Service!Recovered(s).status[c] # "running"
<1> DEFINE r == Service!Recovered(s)
<1>1. s \in Service!States
  BY DEF Sound
<1>2. r \in Service!States
  BY <1>1 DEF Service!States, Service!Recovered
<1>3. /\ r.applied = s.applied /\ r.appliedRev = s.appliedRev
      /\ r.status = [c \in Commands |-> IF s.status[c] = "running" THEN "failed"
                                        ELSE s.status[c]]
  BY <1>1 DEF Service!States, Service!Recovered
<1> HIDE DEF r
<1>4. \A d \in taken : r.status[d] # "none"
  BY <1>3 DEF Sound
<1> QED  BY <1>2, <1>3, <1>4 DEF Sound, r

-----------------------------------------------------------------------------
\* What the steps have in common.

\* The variables other than the record have their types.
RestOK ==
  /\ worker \in [Commands -> Service!Steps]
  /\ draftOf \in [Commands -> Service!Settings]
  /\ prevOf \in [Commands -> Service!Settings]
  /\ holder \in Commands \cup {Service!Nobody}
  /\ ready \in BOOLEAN
  /\ native \in Service!Settings \cup {Service!Down}
  /\ calls \in [Commands -> Nat]

\* The invariant is put together from its parts.
LEMMA InvFromParts ==
  ASSUME StoreInv', RestOK', WorkInv', FenceInv', AgreeInv', Service!CommandAppliesOnce'
  PROVE  IInv'
BY DEF IInv, Service!TypeOK, RestOK, StoreInv, Sound

\* The parts a step may take from the invariant.
LEMMA InvParts ==
  ASSUME IInv
  PROVE  StoreInv /\ RestOK /\ WorkInv /\ FenceInv /\ AgreeInv /\ Service!CommandAppliesOnce
BY DEF IInv, Service!TypeOK, RestOK

\* A step that writes a sound record leaves sound ones only.
LEMMA StoreFromWrite ==
  ASSUME mem' \in Sound(Taken), disk' \in Sound(Taken),
         durable' \subseteq Sound(Taken), Taken' \subseteq Taken
  PROVE  StoreInv'
<1>1. Sound(Taken) \subseteq Sound(Taken')
  BY SoundMonotone
<1> QED  BY <1>1 DEF StoreInv

\* A step that leaves the record alone.
LEMMA StoreUntouched ==
  ASSUME StoreInv, UNCHANGED Service!storeVars, Taken' \subseteq Taken
  PROVE  StoreInv'
BY StoreFromWrite DEF StoreInv, Service!storeVars

\* Neither Nobody nor Down is taken for something else.
LEMMA Markers == Service!Nobody \notin Commands
BY ServiceAssumption DEF Service!SettingsAssumption, Service!Nobody

-----------------------------------------------------------------------------
\* Steps.

\* A node starts with the settings it was configured with.
LEMMA InitInv ==
  ASSUME Service!Init
  PROVE  IInv
<1>1. Service!NewState \in Service!States
  BY ServiceAssumption
     DEF Service!SettingsAssumption, Service!NewState, Service!States, Service!Settings
<1>2. Service!NewState \in Sound(Taken)
  BY <1>1 DEF Service!Init, Sound, Service!NewState, Taken
<1>3. StoreInv
  BY <1>2 DEF Service!Init, StoreInv
<1>4. Service!TypeOK
  BY <1>1 DEF Service!Init, Service!TypeOK, Service!Steps, Service!Settings
<1>5. WorkInv /\ FenceInv /\ AgreeInv /\ Service!CommandAppliesOnce
  BY Markers DEF Service!Init, WorkInv, FenceInv, AgreeInv, Service!CommandAppliesOnce, Service!NewState,
              Service!Working, Fenced, MayHold, Agree
<1> QED  BY <1>3, <1>4, <1>5 DEF IInv

\* Update touches the draft only.
LEMMA UpdateInv ==
  ASSUME IInv, NEW config \in Configs, NEW write \in Service!Outcomes,
         Service!Update(config, write)
  PROVE  IInv'
<1> USE InvParts
<1>1. /\ Service!Drafted(config) \in Sound(Taken) /\ Service!Drafted(config).applied = mem.applied
      /\ Service!Drafted(config).status = mem.status /\ Service!Drafted(config).target = mem.target
  BY SoundDrafted DEF Service!Update, StoreInv
<1>2. Taken' = Taken
  BY DEF Service!Update, Taken, Service!workerVars, Service!nodeVars
<1>3. StoreInv'
  <2>1. disk' \in Sound(Taken) /\ durable' \subseteq Sound(Taken)
    BY <1>1, PersistSound DEF Service!Update, StoreInv
  <2> QED  BY <1>1, <1>2, <2>1, StoreFromWrite DEF Service!Update, StoreInv
<1>4. mem'.applied = mem.applied /\ mem'.status = mem.status
      /\ mem'.target = mem.target
  BY <1>1 DEF Service!Update
<1>5. disk'.applied = disk.applied \/ disk'.applied = mem.applied
  BY <1>1, PersistApplied DEF Service!Update
<1>6. UNCHANGED <<worker, draftOf, prevOf, holder, ready, native, calls>>
  BY DEF Service!Update, Service!workerVars, Service!nodeVars
<1>7. RestOK' /\ Service!CommandAppliesOnce'
  BY <1>6 DEF RestOK, Service!CommandAppliesOnce
<1>8. WorkInv' /\ FenceInv'
  BY <1>4, <1>6 DEF WorkInv, FenceInv
<1>9. AgreeInv'
  BY <1>4, <1>5, <1>6 DEF AgreeInv, Agree, SettledFence
<1> QED  BY <1>3, <1>7, <1>8, <1>9, InvFromParts

\* Apply takes a command nobody has taken, when none runs.
LEMMA ApplyInv ==
  ASSUME IInv, NEW c \in Commands, NEW write \in Service!Outcomes, Service!Apply(c, write)
  PROVE  IInv'
<1> USE InvParts
<1> DEFINE next == [mem EXCEPT !.status[c] = "running", !.target[c] = mem.draftRev]
<1>1. c \notin Taken /\ worker[c] = "idle" /\ calls[c] = 0
  BY DEF Service!Apply, StoreInv, Sound, WorkInv, Taken, RestOK
<1>2. next \in Sound(Taken \cup {c}) /\ next.applied = mem.applied
  <2>1. mem \in Service!States
    BY DEF StoreInv, Sound
  <2>2. next \in Service!States
    BY <2>1 DEF Service!States
  <2>3. /\ next.applied = mem.applied /\ next.appliedRev = mem.appliedRev
        /\ next.status = [mem.status EXCEPT ![c] = "running"]
    BY <2>1 DEF Service!States
  <2>4. mem.status \in [Commands -> {"none", "running", "succeeded", "failed"}]
    BY <2>1 DEF Service!States
  <2> HIDE DEF next
  <2>5. \A d \in Taken \cup {c} : next.status[d] # "none"
    BY <2>3, <2>4 DEF StoreInv, Sound, Taken
  <2> QED  BY <2>2, <2>3, <2>5 DEF StoreInv, Sound
<1>3. next \in Sound(Taken)
  BY <1>2, SoundMonotone
<1>4. Service!Persist(next, write) /\ (mem' = IF write = "failed" THEN mem ELSE next)
  BY DEF Service!Apply
<1>5. /\ next.status = [mem.status EXCEPT ![c] = "running"]
      /\ next.target = [mem.target EXCEPT ![c] = mem.draftRev]
      /\ mem.status \in [Commands -> {"none", "running", "succeeded", "failed"}]
      /\ mem.target \in [Commands -> 0..MaxRevision]
  BY DEF StoreInv, Sound, Service!States
<1> HIDE DEF next
<1>6. UNCHANGED <<prevOf, holder, ready, native, calls>>
  BY DEF Service!Apply, Service!nodeVars
<1>7. mem'.applied = mem.applied
      /\ (disk'.applied = disk.applied \/ disk'.applied = mem.applied)
  BY <1>2, <1>4, PersistApplied
<1>8. holder # c
  BY <1>1 DEF FenceInv, MayHold, Fenced
<1>9. CASE write = "ok"
  <2>1. mem' = next /\ disk' = next /\ durable' = {next}
    BY <1>4, <1>9 DEF Service!Persist
  <2>2. worker' = [worker EXCEPT ![c] = "begun"]
        /\ draftOf' = [draftOf EXCEPT ![c] = mem.draft]
    BY <1>9 DEF Service!Apply
  <2>3. Taken' \subseteq Taken \cup {c}
    BY <1>6, <2>2 DEF Taken, RestOK
  <2>4. StoreInv'
    BY <1>2, <2>1, <2>3, SoundMonotone DEF StoreInv
  <2>5. RestOK' /\ Service!CommandAppliesOnce'
    BY <1>6, <2>2 DEF RestOK, Service!CommandAppliesOnce, Service!Steps, Service!Working, StoreInv, Sound,
                      Service!States
  <2>6. WorkInv'
    BY <1>1, <1>5, <1>6, <2>1, <2>2 DEF Service!Apply, WorkInv, RestOK, Service!Working
  <2>7. FenceInv'
    BY <1>6, <1>7, <1>8, <2>2 DEF FenceInv, RestOK, Fenced, MayHold, Service!Working
  <2>8. AgreeInv'
    BY <1>6, <1>7, <1>8, <2>2 DEF AgreeInv, Agree, SettledFence, RestOK
  <2> QED  BY <2>4, <2>5, <2>6, <2>7, <2>8, InvFromParts
<1>10. CASE write # "ok"
  <2>1. UNCHANGED draftOf
        /\ worker' = [worker EXCEPT ![c] = IF write = "failed" THEN "idle" ELSE "orphan"]
    BY <1>1, <1>10 DEF Service!Apply
  <2>2. Taken' \subseteq Taken
    BY <1>1, <1>6, <2>1 DEF Taken, RestOK
  <2>3. StoreInv'
    <3>1. disk' \in Sound(Taken) /\ durable' \subseteq Sound(Taken)
      BY <1>3, <1>4, PersistSound DEF StoreInv
    <3> QED  BY <1>3, <1>4, <2>2, <3>1, StoreFromWrite DEF StoreInv
  <2>4. RestOK' /\ Service!CommandAppliesOnce'
    BY <1>6, <2>1 DEF RestOK, Service!CommandAppliesOnce, Service!Steps
  <2>5. WorkInv'
    BY <1>1, <1>4, <1>5, <1>6, <2>1 DEF Service!Apply, WorkInv, RestOK, Service!Working
  <2>6. FenceInv'
    BY <1>6, <1>7, <1>8, <2>1 DEF FenceInv, RestOK, Fenced, MayHold, Service!Working
  <2>7. AgreeInv'
    BY <1>6, <1>7, <1>8, <2>1 DEF AgreeInv, Agree, SettledFence, RestOK
  <2> QED  BY <2>3, <2>4, <2>5, <2>6, <2>7, InvFromParts
<1> QED  BY <1>9, <1>10

\* The settings to go back to are the applied ones; nothing else changes.
LEMMA PreflightInv ==
  ASSUME IInv, NEW c \in Commands, Service!Preflight(c)
  PROVE  IInv'
<1> USE InvParts
<1>1. PICK step \in {"checked", "failing"} : worker' = [worker EXCEPT ![c] = step]
  BY DEF Service!Preflight
<1>2. worker[c] = "begun" /\ prevOf' = [prevOf EXCEPT ![c] = mem.applied]
      /\ UNCHANGED <<mem, disk, durable, draftOf, holder, ready, native, calls>>
  BY DEF Service!Preflight, Service!storeVars, Service!nodeVars
<1>3. Taken' \subseteq Taken
  BY <1>1, <1>2 DEF Taken, RestOK
<1>4. StoreInv'
  BY <1>2, <1>3, StoreUntouched DEF Service!storeVars
<1>5. RestOK' /\ Service!CommandAppliesOnce'
  BY <1>1, <1>2 DEF RestOK, Service!CommandAppliesOnce, Service!Steps, Service!Working, StoreInv, Sound,
                    Service!States
<1>6. WorkInv'
  BY <1>1, <1>2 DEF WorkInv, RestOK, Service!Working
<1>7. holder # c
  BY <1>2 DEF FenceInv, MayHold, Fenced
<1>8. FenceInv'
  BY <1>1, <1>2, <1>7 DEF FenceInv, RestOK, Fenced, MayHold, Service!Working
<1>9. AgreeInv'
  BY <1>1, <1>2, <1>7 DEF AgreeInv, Agree, SettledFence, RestOK
<1> QED  BY <1>4, <1>5, <1>6, <1>8, <1>9, InvFromParts

\* Recording a phase changes neither the settings nor the fence.
LEMMA PhaseInv ==
  ASSUME IInv, NEW c \in Commands, NEW write \in Service!Outcomes, Service!Phase(c, write)
  PROVE  IInv'
<1> USE InvParts
<1>1. PICK step \in {"failing", "waiting", "stopping"} :
        /\ worker' = [worker EXCEPT ![c] = step]
        /\ step = "waiting" => worker[c] = "checked"
        /\ step = "stopping" => worker[c] = "fenced"
  BY DEF Service!Phase
<1>2. worker[c] \in {"checked", "fenced"} /\ Service!Persist(mem, write)
      /\ UNCHANGED <<mem, draftOf, prevOf, holder, ready, native, calls>>
  BY DEF Service!Phase, Service!nodeVars
<1>3. Taken' \subseteq Taken
  BY <1>1, <1>2 DEF Taken, RestOK
<1>4. StoreInv'
  <2>1. disk' \in Sound(Taken) /\ durable' \subseteq Sound(Taken)
    BY <1>2, PersistSound DEF StoreInv
  <2> QED  BY <1>2, <1>3, <2>1, StoreFromWrite DEF StoreInv
<1>5. disk'.applied = disk.applied \/ disk'.applied = mem.applied
  BY <1>2, PersistApplied
<1>6. RestOK' /\ Service!CommandAppliesOnce'
  BY <1>1, <1>2 DEF RestOK, Service!CommandAppliesOnce, Service!Steps, Service!Working
<1>7. WorkInv'
  BY <1>1, <1>2 DEF WorkInv, RestOK, Service!Working
<1>8. FenceInv'
  BY <1>1, <1>2 DEF FenceInv, RestOK, Fenced, MayHold, Service!Working
<1>9. AgreeInv'
  BY <1>1, <1>2, <1>5 DEF AgreeInv, Agree, SettledFence, RestOK, FenceInv, MayHold,
                          Fenced
<1> QED  BY <1>4, <1>6, <1>7, <1>8, <1>9, InvFromParts

\* The fence is taken when nobody has it.
LEMMA BeginSettingsChangeInv ==
  ASSUME IInv, NEW c \in Commands, Service!BeginSettingsChange(c)
  PROVE  IInv'
<1> USE InvParts, Markers
<1>1. /\ \/ worker' = [worker EXCEPT ![c] = "fenced"] /\ holder' = c
         \/ worker' = [worker EXCEPT ![c] = "failing"] /\ UNCHANGED holder
      /\ worker[c] = "waiting" /\ holder = Service!Nobody
      /\ UNCHANGED <<mem, disk, durable, draftOf, prevOf, ready, native, calls>>
  BY DEF Service!BeginSettingsChange, Service!storeVars
<1>2. Taken' \subseteq Taken
  BY <1>1 DEF Taken, RestOK
<1>3. StoreInv'
  BY <1>1, <1>2, StoreUntouched DEF Service!storeVars
<1>4. RestOK' /\ Service!CommandAppliesOnce'
  BY <1>1 DEF RestOK, Service!CommandAppliesOnce, Service!Steps, Service!Working
<1>5. WorkInv'
  BY <1>1 DEF WorkInv, RestOK, Service!Working
<1>6. FenceInv'
  BY <1>1 DEF FenceInv, RestOK, Fenced, MayHold, Service!Working
<1>7. AgreeInv'
  BY <1>1 DEF AgreeInv, Agree, SettledFence, RestOK
<1> QED  BY <1>3, <1>4, <1>5, <1>6, <1>7, InvFromParts

\* The adapter is swapped under the fence only.
LEMMA SwapInv ==
  ASSUME IInv, NEW c \in Commands, Service!Swap(c)
  PROVE  IInv'
<1> USE InvParts, Markers
<1>1. PICK step \in {"applied", "failing", "broken"} :
        /\ worker' = [worker EXCEPT ![c] = step]
        /\ step = "applied" => native' = draftOf[c]
        /\ step = "failing" => native' = native
        /\ native' \in {draftOf[c], native, Service!Down}
  BY DEF Service!Swap, Service!ApplySettings
<1>2. /\ worker[c] = "stopping" /\ calls' = [calls EXCEPT ![c] = @ + 1]
      /\ UNCHANGED <<mem, disk, durable, draftOf, prevOf, holder, ready>>
  BY DEF Service!Swap, Service!storeVars
<1>3. holder = c /\ calls[c] = 0
  BY <1>2 DEF FenceInv, Fenced, WorkInv
<1>4. Taken' \subseteq Taken
  BY <1>1, <1>2 DEF Taken, RestOK
<1>5. StoreInv'
  BY <1>2, <1>4, StoreUntouched DEF Service!storeVars
<1>6. RestOK' /\ Service!CommandAppliesOnce'
  BY <1>1, <1>2, <1>3 DEF RestOK, Service!CommandAppliesOnce, Service!Steps, Service!Working
<1>7. WorkInv'
  BY <1>1, <1>2 DEF WorkInv, RestOK, Service!Working
<1>8. FenceInv'
  BY <1>1, <1>2, <1>3 DEF FenceInv, RestOK, Fenced, MayHold, Service!Working
<1>9. AgreeInv'
  BY <1>1, <1>2, <1>3 DEF AgreeInv, Agree, SettledFence, RestOK, FenceInv, Fenced
<1> QED  BY <1>5, <1>6, <1>7, <1>8, <1>9, InvFromParts

\* The draft becomes the applied settings: of the operation that runs, by the
\* only one that has the fence.
LEMMA ConfirmInv ==
  ASSUME IInv, NEW c \in Commands, NEW write \in Service!Outcomes, Service!Confirm(c, write)
  PROVE  IInv'
<1> USE InvParts, Markers
<1> DEFINE ended == [mem EXCEPT !.status[c] = "succeeded"]
           next == [mem EXCEPT !.status[c] = "succeeded", !.applied = draftOf[c],
                               !.appliedRev = mem.target[c]]
<1>1. /\ worker[c] = "applied" /\ holder = c /\ mem.status[c] = "running"
      /\ mem.target[c] > 0 /\ c \in Taken /\ native = draftOf[c]
  BY DEF Service!Confirm, FenceInv, Fenced, WorkInv, Service!Working, Taken, AgreeInv
<1>2. ended \in Sound(Taken) /\ ended.applied = mem.applied
      /\ ended.target = mem.target
      /\ ended.status = [mem.status EXCEPT ![c] = "succeeded"]
  <2>1. Taken \in SUBSET Commands /\ mem \in Sound(Taken) /\ c \in Taken
    BY <1>1 DEF Taken, StoreInv
  <2>2. ended \in Sound(Taken)
    BY <2>1, SoundStatus DEF WithStatus
  <2> QED  BY <2>1, <2>2 DEF Sound, Service!States
<1>3. next \in Sound(Taken) /\ next.applied = draftOf[c]
      /\ next.target = mem.target
      /\ next.status = [mem.status EXCEPT ![c] = "succeeded"]
  <2>1. mem \in Service!States
    BY DEF StoreInv, Sound
  <2>2. next \in Service!States
    BY <2>1 DEF Service!States, RestOK
  <2>3. /\ next.applied = draftOf[c] /\ next.appliedRev = mem.target[c]
        /\ next.target = mem.target
        /\ next.status = [mem.status EXCEPT ![c] = "succeeded"]
    BY <2>1 DEF Service!States
  <2>4. mem.status \in [Commands -> {"none", "running", "succeeded", "failed"}]
    BY <2>1 DEF Service!States
  <2> HIDE DEF next
  <2>5. \A d \in Taken : next.status[d] # "none"
    BY <2>3, <2>4 DEF StoreInv, Sound, Taken
  <2>6. next.appliedRev # 0
    BY <1>1, <2>3
  <2> QED  BY <2>2, <2>3, <2>5, <2>6 DEF Sound
<1>4. /\ Service!Persist(next, write)
      /\ mem' = IF write = "ok" THEN next ELSE ended
      /\ worker' = [worker EXCEPT ![c] = IF write = "ok" THEN "confirmed" ELSE "undo"]
      /\ UNCHANGED <<draftOf, prevOf, holder, ready, native, calls>>
  BY DEF Service!Confirm, Service!nodeVars
<1>5. mem.status \in [Commands -> {"none", "running", "succeeded", "failed"}]
  BY DEF StoreInv, Sound, Service!States
<1> HIDE DEF next, ended
<1>6. Taken' \subseteq Taken
  BY <1>1, <1>4 DEF Taken, RestOK
<1>7. StoreInv'
  <2>1. disk' \in Sound(Taken) /\ durable' \subseteq Sound(Taken)
    BY <1>3, <1>4, PersistSound DEF StoreInv
  <2> QED  BY <1>2, <1>3, <1>4, <1>6, <2>1, StoreFromWrite
<1>8. RestOK' /\ Service!CommandAppliesOnce'
  BY <1>4 DEF RestOK, Service!CommandAppliesOnce, Service!Steps, Service!Undoing
<1>9. mem'.status = [mem.status EXCEPT ![c] = "succeeded"]
      /\ mem'.target = mem.target
  BY <1>2, <1>3, <1>4
<1>10. WorkInv'
  BY <1>4, <1>5, <1>9 DEF WorkInv, RestOK, Service!Working
<1>11. \A d \in Commands : d # c /\ worker[d] \in Service!Working \cup {"undo"}
                           => worker[d] \in Service!Working \ Fenced /\ FALSE
  BY <1>1 DEF WorkInv, FenceInv, Fenced
<1>12. FenceInv'
  <2>1. CASE write = "ok"
    BY <1>1, <1>4, <1>11, <2>1 DEF FenceInv, RestOK, Fenced, MayHold, Service!Working
  <2>2. CASE write # "ok"
    <3>1. mem'.applied = mem.applied /\ worker' = [worker EXCEPT ![c] = "undo"]
      BY <1>2, <1>4, <2>2
    <3> QED
      BY <1>1, <1>4, <3>1 DEF FenceInv, RestOK, Fenced, MayHold, Service!Working
  <2> QED  BY <2>1, <2>2
<1>13. AgreeInv'
  <2>1. CASE write = "ok"
    <3>1. mem'.applied = draftOf[c] /\ disk' = mem'
          /\ worker' = [worker EXCEPT ![c] = "confirmed"]
      BY <1>3, <1>4, <2>1 DEF Service!Persist
    <3> QED
      BY <1>1, <1>4, <3>1 DEF AgreeInv, Agree, SettledFence, RestOK, FenceInv, Fenced
  <2>2. CASE write # "ok"
    <3>1. mem'.applied = mem.applied /\ worker' = [worker EXCEPT ![c] = "undo"]
      BY <1>2, <1>4, <2>2
    <3> QED
      BY <1>1, <1>4, <3>1 DEF AgreeInv, Agree, SettledFence, RestOK, FenceInv, Fenced
  <2> QED  BY <2>1, <2>2
<1> QED  BY <1>7, <1>8, <1>10, <1>12, <1>13, InvFromParts

\* The settings to go back to are the applied ones.
LEMMA UndoInv ==
  ASSUME IInv, NEW c \in Commands, Service!Undo(c)
  PROVE  IInv'
<1> USE InvParts, Markers
<1>1. PICK step \in {"reverted", "unreverted"} :
        /\ worker' = [worker EXCEPT ![c] = step]
        /\ step = "reverted" => native' = prevOf[c]
        /\ native' \in {prevOf[c], native, Service!Down}
  BY DEF Service!Undo, Service!ApplySettings
<1>2. /\ worker[c] = "undo"
      /\ UNCHANGED <<mem, disk, durable, draftOf, prevOf, holder, ready, calls>>
  BY DEF Service!Undo, Service!storeVars
<1>3. holder = c /\ prevOf[c] = mem.applied
  BY <1>2 DEF FenceInv, Fenced
<1>4. Taken' \subseteq Taken
  BY <1>1, <1>2 DEF Taken, RestOK
<1>5. StoreInv'
  BY <1>2, <1>4, StoreUntouched DEF Service!storeVars
<1>6. RestOK' /\ Service!CommandAppliesOnce'
  BY <1>1, <1>2 DEF RestOK, Service!CommandAppliesOnce, Service!Steps, Service!Undoing
<1>7. WorkInv'
  BY <1>1, <1>2 DEF WorkInv, RestOK, Service!Working
<1>8. FenceInv'
  BY <1>1, <1>2, <1>3 DEF FenceInv, RestOK, Fenced, MayHold, Service!Working
<1>9. AgreeInv'
  BY <1>1, <1>2, <1>3 DEF AgreeInv, Agree, SettledFence, RestOK, FenceInv, Fenced
<1> QED  BY <1>5, <1>6, <1>7, <1>8, <1>9, InvFromParts

\* A failure is recorded, and a doubtful one is yet to close the node.
LEMMA FailInv ==
  ASSUME IInv, NEW c \in Commands, NEW write \in Service!Outcomes, Service!Fail(c, write)
  PROVE  IInv'
<1> USE InvParts, Markers
<1> DEFINE next == [mem EXCEPT !.status[c] = "failed"]
<1>1. /\ worker[c] \in {"failing", "broken", "reverted", "unreverted"}
      /\ Service!Persist(next, write) /\ mem' = next
      /\ UNCHANGED <<draftOf, prevOf, holder, ready, native, calls>>
  BY DEF Service!Fail, Service!nodeVars
<1>2. next \in Sound(Taken) /\ next.applied = mem.applied
      /\ next.target = mem.target
      /\ next.status = [mem.status EXCEPT ![c] = "failed"]
  <2>1. Taken \in SUBSET Commands /\ mem \in Sound(Taken) /\ c \in Taken
    BY <1>1 DEF Taken, StoreInv
  <2>2. next \in Sound(Taken)
    BY <2>1, SoundStatus DEF WithStatus
  <2> QED  BY <2>1, <2>2 DEF Sound, Service!States
<1> HIDE DEF next
<1>3. PICK step \in {"done", "doubtful"} :
        /\ worker' = [worker EXCEPT ![c] = step]
        /\ step = "done" => write = "ok" /\ worker[c] \in {"failing", "reverted"}
  <2>1. CASE worker[c] \in {"broken", "unreverted"} \/ write # "ok"
    BY <2>1 DEF Service!Fail
  <2>2. CASE ~(worker[c] \in {"broken", "unreverted"} \/ write # "ok")
    BY <1>1, <2>2 DEF Service!Fail
  <2> QED  BY <2>1, <2>2
<1>4. mem.status \in [Commands -> {"none", "running", "succeeded", "failed"}]
  BY DEF StoreInv, Sound, Service!States
<1>5. Taken' \subseteq Taken
  BY <1>1, <1>3 DEF Taken, RestOK
<1>6. StoreInv'
  <2>1. disk' \in Sound(Taken) /\ durable' \subseteq Sound(Taken)
    BY <1>1, <1>2, PersistSound DEF StoreInv
  <2> QED  BY <1>1, <1>2, <1>5, <2>1, StoreFromWrite
<1>7. mem'.applied = mem.applied /\ (write = "ok" => disk'.applied = mem.applied)
      /\ (disk'.applied = disk.applied \/ disk'.applied = mem.applied)
  BY <1>1, <1>2, PersistApplied DEF Service!Persist
<1>8. RestOK' /\ Service!CommandAppliesOnce'
  BY <1>1, <1>3 DEF RestOK, Service!CommandAppliesOnce, Service!Steps
<1>9. WorkInv'
  BY <1>1, <1>2, <1>3, <1>4 DEF WorkInv, RestOK, Service!Working
<1>10. FenceInv'
  BY <1>1, <1>3, <1>7 DEF FenceInv, RestOK, Fenced, MayHold, Service!Working
<1>11. AgreeInv'
  BY <1>1, <1>3, <1>7 DEF AgreeInv, Agree, SettledFence, RestOK, FenceInv, Fenced
<1> QED  BY <1>6, <1>8, <1>9, <1>10, <1>11, InvFromParts

\* The fence is released on agreement, or on a node that is not ready.
LEMMA FinishInv ==
  ASSUME IInv, NEW c \in Commands, Service!Finish(c)
  PROVE  IInv'
<1> USE InvParts, Markers
<1>1. /\ worker[c] \in {"confirmed", "doubtful", "done"}
      /\ worker[c] = "confirmed" => ready' = TRUE
      /\ worker[c] = "doubtful" => ready' = FALSE
      /\ worker[c] = "done" => ready' = ready
      /\ holder' = IF holder = c THEN Service!Nobody ELSE holder
      /\ worker' = [worker EXCEPT ![c] = "idle"]
      /\ UNCHANGED <<mem, disk, durable, draftOf, prevOf, native, calls>>
  BY DEF Service!Finish, Service!storeVars
<1>2. Taken' \subseteq Taken
  BY <1>1 DEF Taken, RestOK
<1>3. StoreInv'
  BY <1>1, <1>2, StoreUntouched DEF Service!storeVars
<1>4. RestOK' /\ Service!CommandAppliesOnce'
  BY <1>1 DEF RestOK, Service!CommandAppliesOnce, Service!Steps
<1>5. WorkInv'
  BY <1>1 DEF WorkInv, RestOK, Service!Working
<1>6. FenceInv'
  BY <1>1 DEF FenceInv, RestOK, Fenced, MayHold, Service!Working
<1>7. AgreeInv'
  <2>1. CASE worker[c] = "confirmed"
    BY <1>1, <2>1 DEF AgreeInv, Agree, SettledFence, RestOK, FenceInv, Fenced
  <2>2. CASE worker[c] = "doubtful"
    BY <1>1, <2>2 DEF AgreeInv, Agree, SettledFence, RestOK
  <2>3. CASE worker[c] = "done"
    BY <1>1, <2>3 DEF AgreeInv, Agree, SettledFence, RestOK
  <2> QED  BY <1>1, <2>1, <2>2, <2>3
<1> QED  BY <1>3, <1>4, <1>5, <1>6, <1>7, InvFromParts

\* Startup restores what was applied, and the node is ready only if it did.
LEMMA RestartInv ==
  ASSUME IInv, NEW s \in durable, NEW powerLost \in BOOLEAN,
         NEW restored \in BOOLEAN, Service!Restart(s, powerLost, restored)
  PROVE  IInv'
<1> USE InvParts, Markers
<1>1. s \in Sound(Taken) /\ Taken \in SUBSET Commands
  BY DEF StoreInv, Taken
<1>2. /\ Service!Recovered(s) \in Sound(Taken)
      /\ Service!Recovered(s).applied = s.applied
      /\ \A c \in Commands : Service!Recovered(s).status[c] # "running"
  BY <1>1, SoundRecovered
<1>3. /\ mem' = Service!Recovered(s) /\ disk' = Service!Recovered(s)
      /\ durable' = {Service!Recovered(s)} \/ (durable' = durable /\ Service!Recovered(s) = s)
      /\ worker' = [c \in Commands |-> "idle"] /\ holder' = Service!Nobody
      /\ ready' = (s.appliedRev = 0 \/ restored)
      /\ UNCHANGED <<draftOf, prevOf, calls>>
  BY DEF Service!Restart
<1>4. native' \in IF s.appliedRev = 0 THEN {Base}
                  ELSE IF restored THEN {s.applied} ELSE {Base, Service!Down}
  BY DEF Service!Restart
<1>5. Taken' \subseteq Taken
  BY <1>3 DEF Taken
<1>6. StoreInv'
  BY <1>2, <1>3, <1>5, StoreFromWrite DEF StoreInv
<1>7. RestOK'
  BY <1>1, <1>3, <1>4 DEF RestOK, Service!Steps, Sound, Service!States, Service!Settings
<1>8. WorkInv' /\ FenceInv' /\ Service!CommandAppliesOnce'
  BY <1>2, <1>3 DEF WorkInv, FenceInv, Service!CommandAppliesOnce, Service!Working, Fenced, MayHold
<1>9. ready' => Agree'
  BY <1>1, <1>2, <1>3, <1>4 DEF Agree, Sound
<1>10. AgreeInv'
  BY <1>3, <1>9 DEF AgreeInv
<1> QED  BY <1>6, <1>7, <1>8, <1>10, InvFromParts

-----------------------------------------------------------------------------
\* Theorems.

\* A step that changes nothing.
LEMMA StutterInv ==
  ASSUME IInv, UNCHANGED Service!vars
  PROVE  IInv'
BY DEF Service!vars, IInv, Service!TypeOK, StoreInv, WorkInv, FenceInv, AgreeInv, Agree,
       SettledFence, Service!CommandAppliesOnce, Taken

\* One step per action of the settings service.
LEMMA NextInv ==
  ASSUME IInv, Service!Next
  PROVE  IInv'
<1>1. ASSUME NEW c \in Commands, Service!Worker(c)
      PROVE  IInv'
  BY <1>1, PreflightInv, PhaseInv, BeginSettingsChangeInv, SwapInv, ConfirmInv,
     UndoInv, FailInv, FinishInv DEF Service!Worker
<1> QED
  BY <1>1, UpdateInv, ApplyInv, RestartInv DEF Service!Next

\* The invariant holds of the settings service in every state it can reach, alone and
\* beside dispatch and the mapping.
THEOREM SettingsInvariance ==
  /\ Service!Spec => []IInv
  /\ PartsSpec => []IInv
<1>1. Service!Spec => []IInv
  BY InitInv, NextInv, StutterInv, PTL DEF Service!Spec
<1>2. PartsInit => IInv
  BY InitInv DEF PartsInit
<1>3. IInv /\ [PartsNext]_partsVars => IInv'
  <2> SUFFICES ASSUME IInv, [PartsNext]_partsVars
               PROVE  IInv'
    OBVIOUS
  <2>1. CASE MappingPart
    <3>1. UNCHANGED Service!vars
      BY <2>1 DEF MappingPart, serviceVars, Service!vars
    <3> QED  BY <3>1, StutterInv
  <2>2. CASE SettingsPart
    BY <2>2, NextInv DEF SettingsPart
  <2>3. CASE UNCHANGED partsVars
    <3>1. UNCHANGED Service!vars
      BY <2>3 DEF partsVars, serviceVars, Service!vars
    <3> QED  BY <3>1, StutterInv
  <2> QED  BY <2>1, <2>2, <2>3 DEF PartsNext
<1>4. PartsSpec => []IInv
  BY <1>2, <1>3, PTL DEF PartsSpec
<1> QED  BY <1>1, <1>4

\* The record, the worker and the node keep their types (persistedState).
THEOREM SettingsTypeCorrect ==
  /\ Service!Spec => []Service!TypeOK
  /\ PartsSpec => []Service!TypeOK
<1>1. IInv => Service!TypeOK
  BY DEF IInv
<1> QED  BY <1>1, SettingsInvariance, PTL

\* A node that is ready and not being changed runs the settings it reports as
\* applied, and these are the ones its file would restore (runApply, Open).
THEOREM RunsApplied ==
  /\ Service!Spec => []ReadyRunsApplied
  /\ PartsSpec => []ReadyRunsApplied
<1>1. IInv => ReadyRunsApplied
  BY DEF IInv, AgreeInv, SettledFence, Agree, ReadyRunsApplied, Service!ReadyRunsApplied
<1> QED  BY <1>1, SettingsInvariance, PTL

\* No command is applied twice, through lost writes and restarts (Apply).
THEOREM AppliesOnce ==
  /\ Service!Spec => []CommandAppliesOnce
  /\ PartsSpec => []CommandAppliesOnce
<1>1. IInv => CommandAppliesOnce
  BY DEF IInv, CommandAppliesOnce
<1> QED  BY <1>1, SettingsInvariance, PTL
=============================================================================
