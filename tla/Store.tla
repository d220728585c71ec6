------------------------------- MODULE Store -------------------------------
(***************************************************************************)
(* The protected state store of internal/eebusstore: bootstrap, capability  *)
(* probe, selection between the two manifest slots, recovery evidence, and  *)
(* the commit that publishes a generation and then a manifest, with a       *)
(* failure or a crash between any two system calls.                         *)
(*                                                                          *)
(* A directory entry has a visible value and a value on disk.  Creating,    *)
(* renaming and unlinking change the visible one; the fsync of the          *)
(* directory copies it to disk.  A crash keeps, entry by entry, either      *)
(* value.  File data is synced before the rename that publishes it (write   *)
(* and fsync of a temporary are one step here), so a published file is      *)
(* whole unless it is damaged later.  A digest is abstracted to the state   *)
(* that the generation holds.                                               *)
(***************************************************************************)
EXTENDS Naturals, FiniteSets

CONSTANTS
    State,          \* logical states that callers commit
    Empty,          \* stateV1{}: what the first open publishes
    None,           \* no entry, no reference
    Damaged,        \* bytes that fail their checksum
    MaxGeneration,  \* bound on generation numbers
    MaxArtifacts,   \* maximumArtifactEntries
    MaxTemps,       \* bound on temporary files
    MaxDamage       \* bound on damaged entries

ASSUME StoreAssumption ==
    /\ Empty \in State
    /\ MaxGeneration \in Nat \ {0}
    /\ MaxArtifacts \in Nat
    /\ MaxTemps \in Nat /\ MaxDamage \in Nat

Slots == {"A", "B"}
Numbers == 1..MaxGeneration

\* generationReference: sequence number and digest.
Reference == [generation : Numbers, digest : State]

\* A generation file: generationMetadata and state.
Generation == [sequence : Numbers, parent : Reference \cup {None},
               state : State]

\* A manifest slot: epoch and manifestPayloadV1.
Manifest == [epoch : Numbers, current : Reference,
             parent : Reference \cup {None}]

\* A nil parent and a missing or damaged entry are none of the values above.
ASSUME AbsentAssumption ==
    /\ None \notin Reference \cup Generation \cup Manifest
    /\ Damaged \notin Generation \cup Manifest
    /\ None # Damaged

VARIABLES
    slot, slotDisk,       \* MANIFEST.A and MANIFEST.B
    gen, genDisk,         \* generations/g-N.json
    temps, tempsDisk,     \* number of temporary files in both directories
    link, linkDisk,       \* an earlier probe has left its symbolic link
    layout, layoutDisk,   \* bootstrap entries: root, generations, LOCK
    pc,                   \* where openStore or commit is
    opening,              \* the running commit belongs to openStore
    removed,              \* maintenance has unlinked something
    poisoned,             \* store.poisoned
    selected,             \* store.selected.slot
    manifest,             \* store.manifest and store.selected.epoch
    pending,              \* the state that commit was called with
    outcome,              \* outcome of the last open or commit
    told,                 \* history: reference last reported as current
    doubt,                \* history: reference renamed into place since
    damage                \* history: number of damaged entries

disk == <<slotDisk, genDisk, tempsDisk, linkDisk, layoutDisk>>
fs == <<slot, gen, temps, link, layout, disk>>
handle == <<poisoned, selected, manifest>>
history == <<told, doubt>>
vars == <<fs, pc, opening, removed, handle, pending, outcome, history, damage>>

Steps == {"closed", "bootstrap", "probe", "probing", "layout", "idle",
          "pre", "generation", "renameGeneration", "syncGenerations",
          "manifest", "renameManifest", "syncRoot", "post"}

Outcomes ==
    {"none", "opened_empty", "opened_current", "key_material_unavailable",
     "recovery_candidate_available", "commit_durable",
     "commit_applied_maintenance_failed", "bootstrap_durability_unknown",
     "filesystem_capability_unavailable", "layout_rejected",
     "manifest_ambiguous", "no_valid_manifest", "no_valid_current",
     "maintenance_failed", "commit_not_published",
     "commit_durability_unknown"}

TypeOK ==
    /\ slot \in [Slots -> Manifest \cup {None, Damaged}]
    /\ slotDisk \in [Slots -> Manifest \cup {None, Damaged}]
    /\ gen \in [Numbers -> Generation \cup {None, Damaged}]
    /\ genDisk \in [Numbers -> Generation \cup {None, Damaged}]
    /\ temps \in Nat /\ tempsDisk \in Nat
    /\ link \in BOOLEAN /\ linkDisk \in BOOLEAN
    /\ layout \in SUBSET {"root", "generations", "LOCK"}
    /\ layoutDisk \in SUBSET {"root", "generations", "LOCK"}
    /\ pc \in Steps
    /\ opening \in BOOLEAN /\ removed \in BOOLEAN /\ poisoned \in BOOLEAN
    /\ selected \in Slots \cup {None}
    /\ manifest \in Manifest \cup {None}
    /\ pending \in State
    /\ outcome \in Outcomes
    /\ told \in Reference \cup {None}
    /\ doubt \in Reference \cup {None}
    /\ damage \in 0..MaxDamage

Init ==
    /\ slot = [s \in Slots |-> None] /\ slotDisk = slot
    /\ gen = [n \in Numbers |-> None] /\ genDisk = gen
    /\ temps = 0 /\ tempsDisk = 0
    /\ link = FALSE /\ linkDisk = FALSE
    /\ layout = {} /\ layoutDisk = {}
    /\ pc = "closed" /\ opening = FALSE /\ removed = FALSE
    /\ poisoned = FALSE /\ selected = None /\ manifest = None
    /\ pending = Empty /\ outcome = "none"
    /\ told = None /\ doubt = None /\ damage = 0

-----------------------------------------------------------------------------
(* Reading an image of the two directories.                                 *)

validSlots(image) == {s \in Slots : image[s] \notin {None, Damaged}}

\* selectManifestSlots: the valid slot with the higher epoch.
selectManifestSlots(image) ==
    {s \in validSlots(image) :
        \A t \in validSlots(image) : image[t].epoch <= image[s].epoch}

ambiguous(image) ==
    validSlots(image) = Slots /\ image["A"].epoch = image["B"].epoch
                              /\ image["A"] # image["B"]

hasDirectParentChronology(m) ==
    IF m.current.generation = 1
    THEN m.parent = None
    ELSE m.parent # None /\ m.parent.generation < m.current.generation

\* loadCurrentGeneration and generationMatchesManifest.
loadCurrentGeneration(m, files) ==
    LET file == files[m.current.generation] IN
    /\ file \notin {None, Damaged}
    /\ file.state = m.current.digest
    /\ file.parent = m.parent
    /\ hasDirectParentChronology(m)

\* classifyRecovery: the exact parent is there and undamaged.
classifyRecovery(m, files) ==
    /\ hasDirectParentChronology(m)
    /\ m.parent # None
    /\ files[m.parent.generation] \notin {None, Damaged}
    /\ files[m.parent.generation].state = m.parent.digest

\* Faulty variant of publicationGenerationReferences: without the parents.
currentReferences(image) ==
    {image[s].current.generation : s \in validSlots(image)}

\* publicationGenerationReferences: what the two slots refer to.
publicationGenerationReferences(image) ==
    {image[s].current.generation : s \in validSlots(image)} \cup
    {image[s].parent.generation :
        s \in {t \in validSlots(image) : image[t].parent # None}}

generationEntries == {n \in Numbers : gen[n] # None}

\* What maintenance may unlink.
unreferenced == generationEntries \ publicationGenerationReferences(slot)

enforceArtifactBound == temps + Cardinality(unreferenced) <= MaxArtifacts

-----------------------------------------------------------------------------
(* openStore.                                                               *)

\* Leave with an error: abort() closes the store and releases the locks.
refuse(result) ==
    /\ pc' = "closed" /\ outcome' = result
    /\ opening' = FALSE /\ poisoned' = FALSE
    /\ selected' = None /\ manifest' = None

\* prepareRoot and the locks.
Open ==
    /\ pc = "closed"
    /\ pc' = "bootstrap"
    /\ UNCHANGED <<fs, opening, removed, handle, pending, outcome, history,
                   damage>>

\* inspectBootstrapSubset: nothing but bootstrap entries.
bootstrapSubset ==
    temps = 0 /\ ~link /\ generationEntries = {} /\ \A s \in Slots : slot[s] = None

\* completeBootstrap creates the missing entries in this order.
BootstrapCreate ==
    /\ pc = "bootstrap"
    /\ "root" \in layout => bootstrapSubset
    /\ \/ "root" \notin layout /\ layout' = layout \cup {"root"}
       \/ /\ "root" \in layoutDisk /\ "generations" \notin layout
          /\ layout' = layout \cup {"generations"}
       \/ /\ "generations" \in layout /\ "LOCK" \notin layout
          /\ layout' = layout \cup {"LOCK"}
    /\ UNCHANGED <<slot, gen, temps, link, disk, pc, opening, removed, handle,
                   pending, outcome, history, damage>>

\* syncBootstrapParent makes the root durable.
BootstrapSyncParent ==
    /\ pc = "bootstrap" /\ layout = {"root"} /\ layoutDisk = {}
    /\ layoutDisk' = layout
    /\ UNCHANGED <<slot, gen, temps, link, layout, slotDisk, genDisk,
                   tempsDisk, linkDisk, pc, opening, removed, handle, pending,
                   outcome, history, damage>>

\* Faulty variant of BootstrapSyncRoot: the new entries are not synced.
BootstrapUnsynced ==
    /\ pc = "bootstrap" /\ layout = {"root", "generations", "LOCK"}
    /\ pc' = "probe"
    /\ UNCHANGED <<fs, opening, removed, handle, pending, outcome, history,
                   damage>>

\* The fsyncs of LOCK and the root; a bootstrap found complete repeats them.
\* A store that holds more than bootstrap entries skips this.
BootstrapSyncRoot ==
    /\ pc = "bootstrap" /\ layout = {"root", "generations", "LOCK"}
    /\ layoutDisk' = IF bootstrapSubset THEN layout ELSE layoutDisk
    /\ pc' = "probe"
    /\ UNCHANGED <<slot, gen, temps, link, layout, slotDisk, genDisk,
                   tempsDisk, linkDisk, opening, removed, handle, pending,
                   outcome, history, damage>>

\* A bootstrap step fails, or the root is not empty and yet has no LOCK or
\* no generations directory.
BootstrapFails ==
    /\ pc = "bootstrap"
    /\ bootstrapSubset \/ layout # {"root", "generations", "LOCK"}
    /\ refuse(IF bootstrapSubset \/ "root" \notin layout
              THEN "bootstrap_durability_unknown" ELSE "layout_rejected")
    /\ UNCHANGED <<fs, removed, pending, history, damage>>

\* probeCapabilities creates files and a symbolic link in both directories,
\* ...
ProbeCreate ==
    /\ pc = "probe" /\ temps < MaxTemps
    /\ temps' = temps + 1
    /\ pc' = "probing"
    /\ UNCHANGED <<slot, gen, link, layout, disk, opening, removed, handle,
                   pending, outcome, history, damage>>

\* ... syncs the directories, removes its artifacts, syncs again.
ProbeClean ==
    /\ pc = "probing"
    /\ slotDisk' = slot /\ genDisk' = gen
    /\ temps' = temps - 1 /\ tempsDisk' = temps'
    /\ linkDisk' = link
    /\ pc' = "layout"
    /\ UNCHANGED <<slot, gen, link, layout, layoutDisk, opening, removed,
                   handle, pending, outcome, history, damage>>

\* A probe step fails; its cleanup may fail too.
ProbeFails ==
    /\ pc = "probing"
    /\ link' \in {link, TRUE}
    /\ temps' \in {temps - 1, temps}
    /\ refuse("filesystem_capability_unavailable")
    /\ UNCHANGED <<slot, gen, layout, disk, removed, pending, history, damage>>

\* verifyLayout rejects the link of an interrupted probe and too many
\* artifacts.
LayoutRejected ==
    /\ pc = "layout"
    /\ link \/ ~enforceArtifactBound
    /\ refuse("layout_rejected")
    /\ UNCHANGED <<fs, removed, pending, history, damage>>

\* No slot at all: an empty store publishes stateV1{}, any other is refused.
OpenEmpty ==
    /\ pc = "layout" /\ ~link /\ enforceArtifactBound
    /\ \A s \in Slots : slot[s] = None
    /\ IF generationEntries = {} /\ temps = 0
       THEN /\ pc' = "pre" /\ opening' = TRUE
            /\ pending' = Empty /\ removed' = FALSE
            /\ UNCHANGED <<handle, outcome>>
       ELSE /\ refuse("no_valid_manifest")
            /\ UNCHANGED <<pending, removed>>
    /\ UNCHANGED <<fs, history, damage>>

\* The selected manifest and its generation are returned.  The key providers
\* may be unavailable; the store stays open all the same.
OpenCurrent ==
    /\ pc = "layout" /\ ~link /\ enforceArtifactBound
    /\ ~ambiguous(slot)
    /\ \E s \in selectManifestSlots(slot) :
         /\ loadCurrentGeneration(slot[s], gen)
         /\ selected' = s /\ manifest' = slot[s]
         /\ told' = slot[s].current
    /\ doubt' = None
    /\ outcome' \in {"opened_current", "key_material_unavailable"}
    /\ pc' = "idle" /\ poisoned' = FALSE
    /\ UNCHANGED <<fs, opening, removed, pending, damage>>

\* Every other defect of the image.
openDefect ==
    IF validSlots(slot) = {} THEN "no_valid_manifest"
    ELSE IF ambiguous(slot) THEN "manifest_ambiguous"
    ELSE IF \E s \in selectManifestSlots(slot) : classifyRecovery(slot[s], gen)
    THEN "recovery_candidate_available" ELSE "no_valid_current"

OpenRefused ==
    /\ pc = "layout" /\ ~link /\ enforceArtifactBound
    /\ \E s \in Slots : slot[s] # None
    /\ ambiguous(slot) \/ ~ \E s \in selectManifestSlots(slot) :
                              loadCurrentGeneration(slot[s], gen)
    /\ refuse(openDefect)
    /\ UNCHANGED <<fs, removed, pending, history, damage>>

-----------------------------------------------------------------------------
(* commit.                                                                  *)

\* The end of a commit: an open in progress succeeds or aborts with it.
finish(result, poison) ==
    /\ opening' = FALSE
    /\ IF opening /\ result # "commit_durable"
       THEN /\ pc' = "closed" /\ outcome' = result
            /\ poisoned' = FALSE /\ selected' = None /\ manifest' = None
       ELSE /\ pc' = "idle"
            /\ outcome' = IF opening THEN "opened_empty" ELSE result
            /\ poisoned' = poison
            /\ UNCHANGED <<selected, manifest>>

nextSequence == IF manifest = None THEN 1 ELSE manifest.current.generation + 1
nextEpoch == IF manifest = None THEN 1 ELSE manifest.epoch + 1
parent == IF manifest = None THEN None ELSE manifest.current
reference == [generation |-> nextSequence, digest |-> pending]
target == IF selected = "A" THEN "B" ELSE "A"

BeginCommit ==
    /\ pc = "idle" /\ ~poisoned
    /\ nextSequence <= MaxGeneration /\ nextEpoch <= MaxGeneration
    /\ pending' \in State
    /\ pc' = "pre" /\ removed' = FALSE
    /\ UNCHANGED <<fs, opening, handle, outcome, history, damage>>

\* maintenance unlinks one temporary or one generation that no slot names.
MaintenanceRemove ==
    /\ pc \in {"pre", "post"} /\ enforceArtifactBound
    /\ \/ temps > 0 /\ temps' = temps - 1 /\ UNCHANGED gen
       \/ \E n \in unreferenced :
            gen' = [gen EXCEPT ![n] = None] /\ UNCHANGED temps
    /\ removed' = TRUE
    /\ UNCHANGED <<slot, link, layout, disk, pc, opening, handle, pending,
                   outcome, history, damage>>

\* Nothing is left to unlink.  A directory is synced if it has changed; the
\* manifest slots have no unsynced change at this point.
MaintenanceDone ==
    /\ pc \in {"pre", "post"} /\ temps = 0 /\ unreferenced = {}
    /\ IF removed
       THEN genDisk' = gen /\ tempsDisk' = 0
       ELSE UNCHANGED <<genDisk, tempsDisk>>
    /\ IF pc = "pre"
       THEN /\ pc' = "generation"
            /\ UNCHANGED <<opening, handle, outcome>>
       ELSE finish("commit_durable", FALSE)
    /\ UNCHANGED <<slot, gen, temps, link, layout, slotDisk, linkDisk,
                   layoutDisk, removed, pending, history, damage>>

MaintenanceFails ==
    /\ pc \in {"pre", "post"}
    /\ IF pc = "pre"
       THEN finish("maintenance_failed", FALSE)
       ELSE finish("commit_applied_maintenance_failed", TRUE)
    /\ UNCHANGED <<fs, removed, pending, history, damage>>

\* publishGeneration and publishManifest: temporary, write, fsync.
WriteTemporary ==
    /\ pc \in {"generation", "manifest"}
    /\ temps' = temps + 1
    /\ pc' = IF pc = "generation" THEN "renameGeneration" ELSE "renameManifest"
    /\ UNCHANGED <<slot, gen, link, layout, disk, opening, removed, handle,
                   pending, outcome, history, damage>>

RenameGeneration ==
    /\ pc = "renameGeneration"
    /\ gen' = [gen EXCEPT ![nextSequence] =
                 [sequence |-> nextSequence, parent |-> parent,
                  state |-> pending]]
    /\ temps' = temps - 1
    /\ pc' = "syncGenerations"
    /\ UNCHANGED <<slot, link, layout, disk, opening, removed, handle, pending,
                   outcome, history, damage>>

\* Faulty variant of SyncGenerations: no fsync of the directory.
SyncGenerationsSkipped ==
    /\ pc = "syncGenerations"
    /\ pc' = "manifest"
    /\ UNCHANGED <<fs, opening, removed, handle, pending, outcome, history,
                   damage>>

SyncGenerations ==
    /\ pc = "syncGenerations"
    /\ genDisk' = gen
    /\ pc' = "manifest"
    /\ UNCHANGED <<slot, gen, temps, link, layout, slotDisk, tempsDisk,
                   linkDisk, layoutDisk, opening, removed, handle, pending,
                   outcome, history, damage>>

RenameManifest ==
    /\ pc = "renameManifest"
    /\ slot' = [slot EXCEPT ![target] =
                  [epoch |-> nextEpoch, current |-> reference,
                   parent |-> parent]]
    /\ temps' = temps - 1
    /\ doubt' = reference
    /\ pc' = "syncRoot"
    /\ UNCHANGED <<gen, link, layout, disk, opening, removed, handle, pending,
                   outcome, told, damage>>

\* Any step before the manifest is in place fails; a temporary may be left.
PublishFails ==
    /\ pc \in {"generation", "renameGeneration", "syncGenerations",
               "manifest", "renameManifest"}
    /\ temps' \in IF pc \in {"generation", "manifest"} THEN {temps, temps + 1}
                                                       ELSE {temps}
    /\ finish("commit_not_published", FALSE)
    /\ UNCHANGED <<slot, gen, link, layout, disk, removed, pending, history,
                   damage>>

\* The root fsync publishes; post-maintenance follows.
SyncRoot ==
    /\ pc = "syncRoot"
    /\ slotDisk' = slot
    /\ selected' = target /\ manifest' = slot[target]
    /\ told' = reference /\ doubt' = None
    /\ pc' = "post" /\ removed' = FALSE
    /\ UNCHANGED <<slot, gen, temps, link, layout, genDisk, tempsDisk,
                   linkDisk, layoutDisk, opening, poisoned, pending, outcome,
                   damage>>

\* Faulty variant of SyncRootFails: the store stays usable.
SyncRootFailsUnpoisoned ==
    /\ pc = "syncRoot"
    /\ finish("commit_durability_unknown", FALSE)
    /\ UNCHANGED <<fs, removed, pending, history, damage>>

SyncRootFails ==
    /\ pc = "syncRoot"
    /\ finish("commit_durability_unknown", TRUE)
    /\ UNCHANGED <<fs, removed, pending, history, damage>>

-----------------------------------------------------------------------------
(* close, crash, damage.                                                    *)

Close ==
    /\ pc = "idle"
    /\ pc' = "closed"
    /\ poisoned' = FALSE /\ selected' = None /\ manifest' = None
    /\ UNCHANGED <<fs, opening, removed, pending, outcome, history, damage>>

\* Each entry keeps its value on disk or the visible one.  A generation file
\* unlinked and written again may also be found missing.
crashImage ==
    /\ \E kept \in SUBSET {s \in Slots : slot[s] # slotDisk[s]} :
         slot' = [s \in Slots |-> IF s \in kept THEN slot[s] ELSE slotDisk[s]]
    /\ \E kept, lost \in SUBSET {n \in Numbers : gen[n] # genDisk[n]} :
         gen' = [n \in Numbers |-> IF n \in lost THEN None
                                  ELSE IF n \in kept THEN gen[n]
                                  ELSE genDisk[n]]
    /\ temps' \in 0..(IF temps > tempsDisk THEN temps ELSE tempsDisk)
    /\ link' \in {link, linkDisk, pc = "probing"}
    /\ layout' \in {l \in SUBSET layout :
                      layoutDisk \subseteq l /\ (l # {} => "root" \in l)}

Crash ==
    /\ crashImage
    /\ slotDisk' = slot' /\ genDisk' = gen' /\ tempsDisk' = temps'
    /\ linkDisk' = link' /\ layoutDisk' = layout'
    /\ pc' = "closed" /\ opening' = FALSE /\ outcome' = "none"
    /\ poisoned' = FALSE /\ selected' = None /\ manifest' = None
    /\ UNCHANGED <<removed, pending, history, damage>>

\* The medium damages one file; only a later open notices.
Damage ==
    /\ pc = "closed" /\ damage < MaxDamage
    /\ \/ /\ \E s \in validSlots(slot) : slot' = [slot EXCEPT ![s] = Damaged]
          /\ slotDisk' = slot'
          /\ UNCHANGED <<gen, genDisk>>
       \/ /\ \E n \in generationEntries : gen' = [gen EXCEPT ![n] = Damaged]
          /\ genDisk' = gen'
          /\ UNCHANGED <<slot, slotDisk>>
    /\ damage' = damage + 1
    /\ UNCHANGED <<temps, tempsDisk, link, linkDisk, layout, layoutDisk, pc,
                   opening, removed, handle, pending, outcome, history>>

Next ==
    \/ Open \/ BootstrapCreate \/ BootstrapSyncParent \/ BootstrapSyncRoot
    \/ BootstrapFails \/ ProbeCreate \/ ProbeClean \/ ProbeFails
    \/ LayoutRejected \/ OpenEmpty \/ OpenCurrent \/ OpenRefused
    \/ BeginCommit \/ MaintenanceRemove \/ MaintenanceDone \/ MaintenanceFails
    \/ WriteTemporary \/ RenameGeneration \/ SyncGenerations
    \/ RenameManifest \/ PublishFails \/ SyncRoot \/ SyncRootFails
    \/ Close \/ Crash \/ Damage

Spec == Init /\ [][Next]_vars

-----------------------------------------------------------------------------
(* Properties.                                                              *)

usable(s) ==
    loadCurrentGeneration(slot[s], gen) \/ classifyRecovery(slot[s], gen)

\* What commit or open has reported as current is what an open of the image
\* finds, after any failure and any crash; or else it finds the one
\* publication that was under way, never anything older or mixed.  One damaged
\* file leaves a store that has published twice with a usable state or with
\* recovery evidence.
CommittedSurvives ==
    /\ damage = 0 /\ told # None =>
         \E s \in selectManifestSlots(slot) :
             /\ loadCurrentGeneration(slot[s], gen)
             /\ slot[s].current \in {told, doubt}
    /\ damage <= 1 /\ told # None /\ told.generation > 1 =>
         \E s \in selectManifestSlots(slot) : usable(s)

\* Every valid slot, the one that lost the selection too, names a current
\* generation that loads and a parent that could be recovered: maintenance
\* never unlinks what a later fallback needs.
EverySlotLoads ==
    damage = 0 => \A s \in validSlots(slot) :
        /\ loadCurrentGeneration(slot[s], gen)
        /\ slot[s].parent # None => classifyRecovery(slot[s], gen)

\* While the store can commit, its handle is what a reopen would select; so
\* a commit that reports commit_not_published has published nothing.  Two slots
\* never have one epoch and different contents, even after a damaged slot was
\* written again.
HandleIsSelected ==
    /\ pc = "idle" /\ ~poisoned =>
         selectManifestSlots(slot) = {selected} /\ slot[selected] = manifest
    /\ ~ambiguous(slot)

\* Without damage an open is refused for three reasons only: the very first
\* publication was interrupted, a probe was interrupted and left its symbolic
\* link, or interrupted opens have left too many temporaries.
RefusedOnlyFor ==
    pc = "closed" /\ damage = 0 =>
        /\ outcome = "no_valid_manifest" => told = None
        /\ outcome = "layout_rejected" => link \/ ~enforceArtifactBound
        /\ outcome \notin {"manifest_ambiguous", "no_valid_current",
                           "recovery_candidate_available"}
=============================================================================
