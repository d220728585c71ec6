---------------------------- MODULE Store_proofs ----------------------------
(***************************************************************************)
(* Proofs about the protected state store.  The inductive invariant is      *)
(* about both images of the directories, the visible one and the one on     *)
(* disk: what a crash leaves is a mixture of the two.                       *)
(***************************************************************************)
EXTENDS Store, TLAPS

Full == {"root", "generations", "LOCK"}

valid(v) == v # None /\ v # Damaged

other(s) == IF s = "A" THEN "B" ELSE "A"

\* Epoch and generation advance together, and the parent is the predecessor.
wellFormed(m) ==
    /\ m.epoch = m.current.generation
    /\ m.epoch = 1 => m.parent = None
    /\ m.epoch # 1 => m.parent # None /\ m.parent.generation + 1 = m.epoch

\* The slots of an image: well formed, of different epochs, and both there
\* as soon as there was a second publication.
imageOK(image) ==
    /\ \A s \in Slots : valid(image[s]) => wellFormed(image[s])
    /\ valid(image["A"]) /\ valid(image["B"])
         => image["A"].epoch # image["B"].epoch
    /\ \A s \in Slots : valid(image[s]) /\ image[s].epoch # 1
                          => \A t \in Slots : image[t] # None

\* The generation file that a reference of a slot names.
currentFile(m, file) ==
    \/ file = Damaged
    \/ file = [sequence |-> m.current.generation, parent |-> m.parent,
               state |-> m.current.digest]
parentFile(m, file) ==
    file = Damaged \/ (file \in Generation /\ file.state = m.parent.digest)

\* What a slot names is durable and is there, unless it is damaged.
refsOK(m, files, filesDisk) ==
    /\ files[m.current.generation] = filesDisk[m.current.generation]
    /\ currentFile(m, files[m.current.generation])
    /\ m.parent # None =>
         /\ files[m.parent.generation] = filesDisk[m.parent.generation]
         /\ parentFile(m, files[m.parent.generation])

Images ==
    /\ imageOK(slot) /\ imageOK(slotDisk)
    /\ slot["A"] = slotDisk["A"] \/ slot["B"] = slotDisk["B"]

References ==
    \A s \in Slots :
        /\ valid(slot[s]) => refsOK(slot[s], gen, genDisk)
        /\ valid(slotDisk[s]) => refsOK(slotDisk[s], gen, genDisk)

Before == {"pre", "generation", "renameGeneration", "syncGenerations",
           "manifest", "renameManifest"}
Committing == Before \cup {"syncRoot"}
Holding == Committing \cup {"idle", "post"}

\* Nothing of the slots is unsynced outside the window between the rename of
\* a manifest and the next sync of the root.
Synced ==
    /\ pc \in Before \cup {"layout", "post"} => slot = slotDisk
    /\ pc = "idle" /\ ~poisoned => slot = slotDisk

\* The handle is the selected slot.
Handle ==
    /\ poisoned => pc = "idle"
    /\ opening => pc \in Committing \cup {"post"}
    /\ pc \in Holding =>
         \/ manifest = None
         \/ selected \in Slots /\ manifest # None
    /\ manifest = None /\ pc \in Committing => selected = None
    /\ pc \in Holding /\ manifest = None => opening /\ pc \in Committing
    /\ pc \in Committing /\ opening => manifest = None
    /\ pc \notin Holding => manifest = None /\ selected = None
    /\ manifest # None => manifest.current = told
    /\ pc \in Holding /\ manifest # None => wellFormed(manifest)
    /\ pc \in Before \cup {"post"} \/ (pc = "idle" /\ ~poisoned) =>
         /\ manifest # None =>
              /\ slot[selected] = manifest
              /\ valid(slot[other(selected)])
                   => slot[other(selected)].epoch < manifest.epoch
         /\ manifest = None => \A s \in Slots : slot[s] = None

\* What a commit has prepared so far.
Staged ==
    /\ pc \in Committing => nextSequence \in Numbers /\ nextEpoch \in Numbers
    /\ pc \in {"syncGenerations", "manifest", "renameManifest"} =>
         gen[nextSequence] = [sequence |-> nextSequence, parent |-> parent,
                              state |-> pending]
    /\ pc \in {"manifest", "renameManifest"} =>
         genDisk[nextSequence] = gen[nextSequence]
    /\ pc \in {"probing", "renameGeneration", "renameManifest"} => temps > 0
    /\ pc = "syncRoot" =>
         /\ slot[target] = [epoch |-> nextEpoch, current |-> reference,
                            parent |-> parent]
         /\ manifest # None => slot[selected] = manifest
         /\ manifest = None => slot[other(target)] = None
         /\ slot[other(target)] = slotDisk[other(target)]

\* The slot that an open of this image selects names what was reported, or
\* the publication under way.
current(image, reported, renamed) ==
    \E s \in Slots :
        /\ valid(image[s]) /\ image[s].current \in {reported, renamed}
        /\ valid(image[other(s)]) => image[other(s)].epoch < image[s].epoch

Reported ==
    /\ damage = 0 /\ told # None =>
         current(slot, told, doubt) /\ current(slotDisk, told, doubt)
    /\ told # None /\ told.generation # 1 =>
         \A s \in Slots : slot[s] # None /\ slotDisk[s] # None

\* At most one entry is damaged as long as the medium has damaged one.
Defects ==
    /\ damage = 0 =>
         /\ \A s \in Slots : slot[s] # Damaged /\ slotDisk[s] # Damaged
         /\ \A n \in Numbers : gen[n] # Damaged /\ genDisk[n] # Damaged
    /\ damage = 1 =>
         /\ \A s \in Slots : slot[s] = Damaged \/ slotDisk[s] = Damaged =>
              /\ slot[other(s)] # Damaged /\ slotDisk[other(s)] # Damaged
              /\ \A n \in Numbers : gen[n] # Damaged /\ genDisk[n] # Damaged
         /\ \A m, n \in Numbers :
              /\ gen[m] = Damaged \/ genDisk[m] = Damaged
              /\ gen[n] = Damaged \/ genDisk[n] = Damaged
              => m = n

\* An entry beyond the bootstrap ones is only made in a durable layout.
Layout ==
    \/ layout = Full /\ layoutDisk = Full
    \/ /\ pc \in {"closed", "bootstrap"}
       /\ temps = 0 /\ tempsDisk = 0 /\ ~link /\ ~linkDisk
       /\ \A s \in Slots : slot[s] = None /\ slotDisk[s] = None
       /\ \A n \in Numbers : gen[n] = None /\ genDisk[n] = None

Refusals == {"no_valid_manifest", "layout_rejected", "manifest_ambiguous",
             "no_valid_current", "recovery_candidate_available"}

\* A refusal is the outcome of a closed store only.
Answered ==
    /\ pc = "idle" => outcome \notin Refusals
    /\ RefusedOnlyFor

StoreInv ==
    /\ TypeOK /\ Images /\ References /\ Synced /\ Handle /\ Staged
    /\ Reported /\ Defects /\ Layout /\ Answered

-----------------------------------------------------------------------------
(* What the operators on images return.                                     *)

SlotImage == [Slots -> Manifest \cup {None, Damaged}]
Files == [Numbers -> Generation \cup {None, Damaged}]

LEMMA NumbersNat == \A n \in Numbers : n \in Nat /\ n >= 1 /\ n <= MaxGeneration
  BY StoreAssumption DEF Numbers

LEMMA OtherSlot ==
    \A s \in Slots : /\ other(s) \in Slots /\ other(s) # s
                     /\ other(other(s)) = s
                     /\ \A t \in Slots : t = s \/ t = other(s)
  BY DEF Slots, other

LEMMA ManifestFields ==
    ASSUME NEW m \in Manifest
    PROVE  /\ m.epoch \in Nat /\ m.epoch \in Numbers
           /\ m.current \in Reference /\ m.current.generation \in Numbers
           /\ m.current.generation \in Nat /\ m.current.digest \in State
           /\ m.parent \in Reference \cup {None}
           /\ m.parent # None =>
                /\ m.parent.generation \in Numbers
                /\ m.parent.generation \in Nat /\ m.parent.digest \in State
  BY NumbersNat DEF Manifest, Reference

LEMMA ValidSlot ==
    ASSUME NEW image \in SlotImage, NEW s \in Slots, valid(image[s])
    PROVE  image[s] \in Manifest
  BY DEF SlotImage, valid

\* A selected slot is valid and the other one is older.
LEMMA SelectedSlot ==
    ASSUME NEW image \in SlotImage, imageOK(image),
           NEW s \in selectManifestSlots(image)
    PROVE  /\ s \in Slots /\ valid(image[s])
           /\ valid(image[other(s)]) => image[other(s)].epoch < image[s].epoch
<1>1. s \in Slots /\ valid(image[s])
  BY DEF selectManifestSlots, validSlots, valid
<1>2. ASSUME valid(image[other(s)])
      PROVE  image[other(s)].epoch < image[s].epoch
  <2>1. other(s) \in Slots
    BY <1>1, OtherSlot
  <2>2. image[other(s)].epoch <= image[s].epoch
    BY <1>2, <2>1 DEF selectManifestSlots, validSlots, valid
  <2>3. image[s] \in Manifest /\ image[other(s)] \in Manifest
    BY <1>1, <1>2, <2>1, ValidSlot
  <2>4. image[other(s)].epoch # image[s].epoch
    BY <1>1, <1>2 DEF imageOK, other, Slots
  <2> QED BY <2>2, <2>3, <2>4, ManifestFields
<1> QED BY <1>1, <1>2

\* A valid slot that is newer than the other one is the only one selected.
LEMMA SelectedOnly ==
    ASSUME NEW image \in SlotImage, NEW s \in Slots, valid(image[s]),
           valid(image[other(s)]) => image[other(s)].epoch < image[s].epoch
    PROVE  selectManifestSlots(image) = {s}
<1>1. image[s] \in Manifest
  BY ValidSlot
<1>2. image[s].epoch \in Nat
  BY <1>1, ManifestFields
<1>3. valid(image[other(s)]) => image[other(s)].epoch \in Nat
  BY OtherSlot, ValidSlot, ManifestFields
<1>4. s \in selectManifestSlots(image)
  <2> SUFFICES ASSUME NEW t \in Slots, valid(image[t])
               PROVE  image[t].epoch <= image[s].epoch
    BY DEF selectManifestSlots, validSlots, valid
  <2> QED BY <1>2, <1>3, OtherSlot
<1>5. ASSUME NEW t \in selectManifestSlots(image) PROVE t = s
  <2>1. t \in Slots /\ valid(image[t]) /\ image[s].epoch <= image[t].epoch
    BY DEF selectManifestSlots, validSlots, valid
  <2> QED BY <2>1, <1>2, <1>3, OtherSlot
<1> QED BY <1>4, <1>5

LEMMA SelectedExists ==
    ASSUME NEW image \in SlotImage, imageOK(image),
           NEW s \in Slots, valid(image[s])
    PROVE  \E t \in Slots : t \in selectManifestSlots(image)
<1>1. CASE ~valid(image[other(s)])
  BY <1>1, SelectedOnly
<1>2. CASE valid(image[other(s)])
  <2>1. other(s) \in Slots /\ other(other(s)) = s
    BY OtherSlot
  <2>2. /\ image[s] \in Manifest /\ image[other(s)] \in Manifest
        /\ image[s].epoch \in Nat /\ image[other(s)].epoch \in Nat
    BY <1>2, <2>1, ValidSlot, ManifestFields
  <2>3. image[other(s)].epoch # image[s].epoch
    BY <1>2 DEF imageOK, other, Slots
  <2>4. CASE image[other(s)].epoch < image[s].epoch
    BY <2>4, SelectedOnly
  <2>5. CASE image[s].epoch < image[other(s)].epoch
    <3>1. selectManifestSlots(image) = {other(s)}
      BY <1>2, <2>1, <2>5, SelectedOnly
    <3> QED BY <3>1, <2>1
  <2> QED BY <2>2, <2>3, <2>4, <2>5
<1> QED BY <1>1, <1>2

LEMMA Unambiguous ==
    ASSUME NEW image \in SlotImage, imageOK(image)
    PROVE  ~ambiguous(image)
<1> SUFFICES ASSUME ambiguous(image) PROVE FALSE
  OBVIOUS
<1>1. valid(image["A"]) /\ valid(image["B"])
  BY DEF ambiguous, validSlots, valid, Slots
<1> QED BY <1>1 DEF ambiguous, imageOK

LEMMA FormedChronology ==
    ASSUME NEW m \in Manifest, wellFormed(m)
    PROVE  hasDirectParentChronology(m)
  BY ManifestFields DEF wellFormed, hasDirectParentChronology

\* The current generation of a slot loads unless it is damaged.
LEMMA CurrentLoads ==
    ASSUME NEW files \in Files, NEW filesDisk, NEW m \in Manifest,
           wellFormed(m), refsOK(m, files, filesDisk),
           files[m.current.generation] # Damaged
    PROVE  loadCurrentGeneration(m, files)
<1> DEFINE file == files[m.current.generation]
<1>1. file = [sequence |-> m.current.generation, parent |-> m.parent,
              state |-> m.current.digest]
  BY DEF refsOK, currentFile
<1>2. file.parent = m.parent /\ file.state = m.current.digest
  BY <1>1
<1>3. m.current.generation \in Numbers /\ m.current.digest \in State
      /\ m.parent \in Reference \cup {None}
  BY ManifestFields
<1>4. file \in Generation
  BY <1>1, <1>3 DEF Generation
<1>5. file \notin {None, Damaged}
  BY <1>4, AbsentAssumption
<1> QED BY <1>2, <1>5, FormedChronology DEF loadCurrentGeneration

LEMMA ParentRecoverable ==
    ASSUME NEW files \in Files, NEW filesDisk, NEW m \in Manifest,
           wellFormed(m), refsOK(m, files, filesDisk), m.parent # None,
           files[m.parent.generation] # Damaged
    PROVE  classifyRecovery(m, files)
<1>1. /\ files[m.parent.generation] \in Generation
      /\ files[m.parent.generation].state = m.parent.digest
  BY DEF refsOK, parentFile
<1>2. files[m.parent.generation] \notin {None, Damaged}
  BY <1>1, AbsentAssumption
<1> QED BY <1>1, <1>2, FormedChronology DEF classifyRecovery

LEMMA RefsSynced ==
    ASSUME NEW m, NEW files, NEW filesDisk, refsOK(m, files, filesDisk)
    PROVE  refsOK(m, files, files)
  BY DEF refsOK

\* What an unlinked, a new or a lost file is not named by, stays as it is.
LEMMA RefsKept ==
    ASSUME NEW m, NEW files, NEW filesDisk, NEW files2, NEW filesDisk2,
           refsOK(m, files, filesDisk),
           /\ files2[m.current.generation] = files[m.current.generation]
           /\ filesDisk2[m.current.generation]
                = filesDisk[m.current.generation],
           m.parent # None =>
             /\ files2[m.parent.generation] = files[m.parent.generation]
             /\ filesDisk2[m.parent.generation]
                  = filesDisk[m.parent.generation]
    PROVE  refsOK(m, files2, filesDisk2)
  BY DEF refsOK

LEMMA SlotTypes ==
    ASSUME TypeOK
    PROVE  /\ slot \in SlotImage /\ slotDisk \in SlotImage
           /\ gen \in Files /\ genDisk \in Files
           /\ temps \in Nat /\ tempsDisk \in Nat /\ damage \in Nat
  BY StoreAssumption DEF TypeOK, SlotImage, Files

\* What a valid slot names is not for maintenance to unlink.
LEMMA Referenced ==
    ASSUME NEW image, NEW s \in Slots, valid(image[s])
    PROVE  /\ image[s].current.generation
                \in publicationGenerationReferences(image)
           /\ image[s].parent # None =>
                image[s].parent.generation
                  \in publicationGenerationReferences(image)
  BY DEF publicationGenerationReferences, validSlots, valid

\* What a commit is about to publish.
published == [epoch |-> nextEpoch, current |-> reference, parent |-> parent]

LEMMA CommitFacts ==
    ASSUME StoreInv, pc \in Committing
    PROVE  /\ target \in Slots
           /\ manifest \in Manifest \cup {None}
           /\ manifest # None => /\ selected \in Slots
                                 /\ selected = other(target)
                                 /\ wellFormed(manifest)
           /\ nextEpoch = nextSequence /\ nextSequence \in Numbers
           /\ published \in Manifest /\ valid(published)
           /\ wellFormed(published)
           /\ published.epoch = nextEpoch /\ published.current = reference
           /\ published.parent = parent
           /\ reference \in Reference
           /\ reference.generation = nextSequence
           /\ reference.digest = pending
           /\ parent \in Reference \cup {None}
<1>1. TypeOK /\ Handle /\ Staged
  BY DEF StoreInv
<1>2. target \in Slots
  BY DEF target, Slots
<1>3. manifest \in Manifest \cup {None} /\ pending \in State
  BY <1>1 DEF TypeOK
<1>4. manifest # None => /\ selected \in Slots /\ selected = other(target)
                         /\ wellFormed(manifest)
  BY <1>1 DEF Handle, Holding, target, other, Slots
<1>5. nextSequence \in Numbers /\ nextEpoch \in Numbers
  BY <1>1 DEF Staged
<1>6. nextEpoch = nextSequence
  BY <1>3, <1>4, ManifestFields DEF nextEpoch, nextSequence, wellFormed
<1>7. parent \in Reference \cup {None}
  BY <1>3, ManifestFields DEF parent
<1>8. /\ reference \in Reference /\ reference.generation = nextSequence
      /\ reference.digest = pending
  BY <1>3, <1>5 DEF reference, Reference
<1>9. /\ published.epoch = nextEpoch /\ published.current = reference
      /\ published.parent = parent
  BY DEF published
<1>10. published \in Manifest
  BY <1>5, <1>7, <1>8 DEF published, Manifest
<1>11. valid(published)
  BY <1>10, AbsentAssumption DEF valid
<1>12. wellFormed(published)
  <2>1. CASE manifest = None
    BY <2>1, <1>6, <1>8, <1>9 DEF wellFormed, nextEpoch, parent
  <2>2. CASE manifest # None
    <3>1. /\ manifest \in Manifest /\ manifest.current \in Reference
          /\ manifest.current.generation \in Nat /\ manifest.epoch \in Nat
          /\ manifest.epoch >= 1
      BY <2>2, <1>3, ManifestFields, NumbersNat
    <3>2. parent = manifest.current /\ parent # None
      BY <2>2, <3>1, AbsentAssumption DEF parent
    <3>3. nextEpoch = manifest.epoch + 1
          /\ manifest.epoch = manifest.current.generation
      BY <2>2, <1>4 DEF nextEpoch, wellFormed
    <3> QED BY <1>6, <1>8, <1>9, <3>1, <3>2, <3>3 DEF wellFormed
  <2> QED BY <2>1, <2>2
<1> QED BY <1>2, <1>3, <1>4, <1>5, <1>6, <1>7, <1>8, <1>9, <1>10, <1>11, <1>12

\* Before the rename every slot is older than what will be published.
LEMMA OlderSlots ==
    ASSUME StoreInv, pc \in Before, NEW s \in Slots, valid(slot[s])
    PROVE  /\ manifest # None /\ slot[s] \in Manifest
           /\ slot[s].epoch < nextEpoch
           /\ slot[s].current.generation \in Numbers
           /\ slot[s].current.generation < nextSequence
           /\ slot[s].parent # None =>
                /\ slot[s].parent.generation \in Numbers
                /\ slot[s].parent.generation < nextSequence
<1>1. TypeOK /\ Handle /\ Images
  BY DEF StoreInv
<1>2. manifest # None
  BY <1>1 DEF Handle, valid
<1>3. /\ manifest \in Manifest /\ selected \in Slots
      /\ nextEpoch = nextSequence /\ manifest.epoch \in Nat
      /\ nextEpoch = manifest.epoch + 1
  BY <1>2, CommitFacts, ManifestFields DEF Committing, nextEpoch
<1>4. /\ slot[selected] = manifest
      /\ valid(slot[other(selected)])
           => slot[other(selected)].epoch < manifest.epoch
  BY <1>1, <1>2 DEF Handle
<1>5. slot[s] \in Manifest /\ wellFormed(slot[s])
  BY <1>1, SlotTypes, ValidSlot DEF Images, imageOK
<1>6. slot[s].epoch <= manifest.epoch /\ slot[s].epoch \in Nat
  BY <1>3, <1>4, <1>5, OtherSlot, ManifestFields
<1>7. /\ slot[s].current.generation \in Numbers
      /\ slot[s].current.generation = slot[s].epoch
  BY <1>5, ManifestFields DEF wellFormed
<1>8. slot[s].parent # None =>
        /\ slot[s].parent.generation \in Numbers
        /\ slot[s].parent.generation \in Nat
        /\ slot[s].parent.generation + 1 = slot[s].epoch
  BY <1>5, ManifestFields DEF wellFormed
<1> QED BY <1>2, <1>3, <1>5, <1>6, <1>7, <1>8

\* What the manifest will name is there and durable before the rename.
LEMMA PublishedRefs ==
    ASSUME StoreInv, pc = "renameManifest"
    PROVE  refsOK(published, gen, genDisk)
<1>1. TypeOK /\ Handle /\ Staged /\ References /\ Images
  BY DEF StoreInv
<1>2. pc \in Committing /\ pc \in Before
  BY DEF Committing, Before
<1>3. /\ published.current = reference /\ published.parent = parent
      /\ reference.generation = nextSequence /\ reference.digest = pending
      /\ nextSequence \in Numbers
  BY <1>2, CommitFacts
<1>4. /\ gen[nextSequence] = genDisk[nextSequence]
      /\ gen[nextSequence] = [sequence |-> nextSequence, parent |-> parent,
                              state |-> pending]
  BY <1>1 DEF Staged
<1>5. currentFile(published, gen[published.current.generation])
  BY <1>3, <1>4 DEF currentFile
<1>6. ASSUME parent # None
      PROVE  /\ gen[parent.generation] = genDisk[parent.generation]
             /\ parentFile(published, gen[parent.generation])
  <2>1. manifest # None /\ parent = manifest.current
    BY <1>6 DEF parent
  <2>2. manifest \in Manifest /\ selected \in Slots /\ slot[selected] = manifest
    BY <2>1, <1>1, <1>2, CommitFacts DEF Handle
  <2>3. valid(manifest)
    BY <2>2, AbsentAssumption DEF valid
  <2>4. refsOK(manifest, gen, genDisk)
    BY <1>1, <2>2, <2>3 DEF References
  <2>5. CASE gen[parent.generation] = Damaged
    BY <2>1, <2>4, <2>5 DEF refsOK, parentFile
  <2>6. CASE gen[parent.generation] # Damaged
    <3>1. gen[parent.generation]
            = [sequence |-> manifest.current.generation,
               parent |-> manifest.parent, state |-> manifest.current.digest]
      BY <2>1, <2>4, <2>6 DEF refsOK, currentFile
    <3>2. /\ manifest.current.generation \in Numbers
          /\ manifest.parent \in Reference \cup {None}
          /\ manifest.current.digest \in State
      BY <2>2, ManifestFields
    <3>3. gen[parent.generation] \in Generation
      BY <3>1, <3>2 DEF Generation
    <3>4. gen[parent.generation].state = parent.digest
      BY <2>1, <3>1
    <3> QED BY <1>3, <2>1, <2>4, <3>3, <3>4 DEF refsOK, parentFile
  <2> QED BY <2>5, <2>6
<1> QED BY <1>3, <1>4, <1>5, <1>6 DEF refsOK

LEMMA RenamedSlots ==
    ASSUME StoreInv, RenameManifest
    PROVE  /\ slot' \in SlotImage
           /\ slot'[target] = published
           /\ slot'[other(target)] = slot[other(target)]
           /\ slotDisk = slot /\ slotDisk' = slot
<1>1. TypeOK /\ Synced
  BY DEF StoreInv
<1>2. target \in Slots /\ published \in Manifest
  BY CommitFacts DEF RenameManifest, Committing, Before
<1>3. slot' = [slot EXCEPT ![target] = published]
  BY DEF RenameManifest, published
<1>4. slot \in SlotImage /\ other(target) \in Slots /\ other(target) # target
  BY <1>1, <1>2, SlotTypes, OtherSlot
<1>5. slot' \in SlotImage
  BY <1>2, <1>3, <1>4 DEF SlotImage
<1>6. slot'[target] = published /\ slot'[other(target)] = slot[other(target)]
  BY <1>2, <1>3, <1>4 DEF SlotImage
<1>7. slotDisk = slot /\ slotDisk' = slot
  BY <1>1 DEF Synced, RenameManifest, disk, Before
<1> QED BY <1>5, <1>6, <1>7

\* An image whose slots are each well formed, of different epochs.
LEMMA ImageFromSlots ==
    ASSUME NEW image, NEW s \in Slots,
           valid(image[s]) => wellFormed(image[s]),
           valid(image[other(s)]) => wellFormed(image[other(s)]),
           valid(image[s]) /\ valid(image[other(s)])
             => image[s].epoch # image[other(s)].epoch,
           valid(image[s]) /\ image[s].epoch # 1 => image[other(s)] # None,
           valid(image[other(s)]) /\ image[other(s)].epoch # 1
             => image[s] # None
    PROVE  imageOK(image)
<1>1. CASE s = "A"
  BY <1>1 DEF imageOK, other, Slots, valid
<1>2. CASE s = "B"
  BY <1>2 DEF imageOK, other, Slots, valid
<1> QED BY <1>1, <1>2 DEF Slots

\* After a crash each image of the slots is one of the two, and only what was
\* not synced of the generations is lost.
LEMMA CrashedImages ==
    ASSUME StoreInv, Crash
    PROVE  /\ slot' = slot \/ slot' = slotDisk
           /\ slotDisk' = slot'
           /\ gen' \in Files /\ genDisk' = gen'
           /\ \A n \in Numbers : gen[n] = genDisk[n] => gen'[n] = gen[n]
           /\ \A n \in Numbers : gen'[n] \in {gen[n], genDisk[n], None}
<1>1. /\ slot \in SlotImage /\ slotDisk \in SlotImage
      /\ gen \in Files /\ genDisk \in Files
      /\ slot["A"] = slotDisk["A"] \/ slot["B"] = slotDisk["B"]
  BY SlotTypes DEF StoreInv, Images
<1>2. slot' = slot \/ slot' = slotDisk
  <2>1. PICK kept \in SUBSET {s \in Slots : slot[s] # slotDisk[s]} :
          slot' = [s \in Slots |-> IF s \in kept THEN slot[s] ELSE slotDisk[s]]
    BY DEF Crash, crashImage
  <2>2. CASE \A s \in Slots : s \notin kept
    <3>1. slot' = [s \in Slots |-> slotDisk[s]]
      BY <2>1, <2>2
    <3>2. slotDisk = [s \in Slots |-> slotDisk[s]]
      BY <1>1 DEF SlotImage
    <3> QED BY <3>1, <3>2
  <2>3. CASE \E s \in Slots : s \in kept
    <3>1. PICK t \in Slots : t \in kept
      BY <2>3
    <3>2. slot[t] # slotDisk[t]
      BY <3>1
    <3>3. \A s \in Slots : s \notin kept => slot[s] = slotDisk[s]
      BY <1>1, <3>1, <3>2 DEF Slots
    <3>4. slot' = [s \in Slots |-> slot[s]]
      BY <2>1, <3>3
    <3>5. slot = [s \in Slots |-> slot[s]]
      BY <1>1 DEF SlotImage
    <3> QED BY <3>4, <3>5
  <2> QED BY <2>2, <2>3
<1>3. PICK kept, lost \in SUBSET {n \in Numbers : gen[n] # genDisk[n]} :
        gen' = [n \in Numbers |-> IF n \in lost THEN None
                                  ELSE IF n \in kept THEN gen[n]
                                  ELSE genDisk[n]]
  BY DEF Crash, crashImage
<1>4. \A n \in Numbers : gen[n] = genDisk[n] => gen'[n] = gen[n]
  BY <1>3
<1>5. \A n \in Numbers : gen'[n] \in {gen[n], genDisk[n], None}
  BY <1>3
<1>6. gen' \in Files
  BY <1>1, <1>3 DEF Files
<1>7. slotDisk' = slot' /\ genDisk' = gen'
  BY DEF Crash
<1> QED BY <1>2, <1>4, <1>5, <1>6, <1>7

LEMMA SameBound ==
    ASSUME UNCHANGED <<slot, gen, temps>>
    PROVE  enforceArtifactBound' = enforceArtifactBound
  BY DEF enforceArtifactBound, unreferenced, generationEntries,
         publicationGenerationReferences, validSlots

-----------------------------------------------------------------------------
(* Every step keeps the invariant.                                          *)

LEMMA OpenKeeps == ASSUME StoreInv, Open PROVE StoreInv'
<1>0. TypeOK /\ Images /\ References /\ Synced /\ Handle /\ Staged
      /\ Reported /\ Defects /\ Layout /\ Answered
  BY DEF StoreInv
<1>1. TypeOK'
  BY <1>0 DEF TypeOK, Open, Staged, Handle, Steps, Outcomes, fs, disk, handle,
       history
<1>2. Images'
  BY <1>0 DEF Images, Open, fs, disk, handle, history
<1>3. References'
  BY <1>0 DEF References, Open, fs, disk, handle, history
<1>4. Synced'
  BY <1>0 DEF Synced, Open, Handle, Before, Committing, Holding, fs, disk,
       handle, history
<1>5. Handle'
  BY <1>0 DEF Handle, Open, Before, Committing, Holding, Synced, fs, disk,
       handle, history
<1>6. Staged'
  BY <1>0 DEF Staged, Open, Before, Committing, Holding, Handle, nextSequence,
       nextEpoch, parent, reference, target, fs, disk, handle, history
<1>7. Reported'
  BY <1>0 DEF Reported, Open, fs, disk, handle, history
<1>8. Defects'
  BY <1>0 DEF Defects, Open, fs, disk, handle, history
<1>9. Layout'
  BY <1>0 DEF Layout, Open, TypeOK, Handle, Staged, fs, disk, handle, history
<1>10. Answered'
  BY <1>0 DEF Answered, Open, RefusedOnlyFor, Refusals, fs, disk, handle,
       history
<1> QED BY <1>1, <1>2, <1>3, <1>4, <1>5, <1>6, <1>7, <1>8, <1>9, <1>10
           DEF StoreInv

LEMMA BootstrapCreateKeeps == ASSUME StoreInv, BootstrapCreate PROVE StoreInv'
<1>0. TypeOK /\ Images /\ References /\ Synced /\ Handle /\ Staged
      /\ Reported /\ Defects /\ Layout /\ Answered
  BY DEF StoreInv
<1>1. TypeOK'
  BY <1>0 DEF TypeOK, BootstrapCreate, Staged, Handle, Steps, Outcomes, fs,
       disk, handle, history
<1>2. Images'
  BY <1>0 DEF Images, BootstrapCreate, fs, disk, handle, history
<1>3. References'
  BY <1>0 DEF References, BootstrapCreate, fs, disk, handle, history
<1>4. Synced'
  BY <1>0 DEF Synced, BootstrapCreate, Handle, Before, Committing, Holding,
       fs, disk, handle, history
<1>5. Handle'
  BY <1>0 DEF Handle, BootstrapCreate, Before, Committing, Holding, Synced,
       fs, disk, handle, history
<1>6. Staged'
  BY <1>0 DEF Staged, BootstrapCreate, Before, Committing, Holding, Handle,
       nextSequence, nextEpoch, parent, reference, target, fs, disk, handle,
       history
<1>7. Reported'
  BY <1>0 DEF Reported, BootstrapCreate, fs, disk, handle, history
<1>8. Defects'
  BY <1>0 DEF Defects, BootstrapCreate, fs, disk, handle, history
<1>9. Layout'

  <2>1. ~(layout = Full /\ layoutDisk = Full)
    BY DEF BootstrapCreate, Full
  <2> QED BY <1>0, <2>1 DEF Layout, BootstrapCreate, disk
<1>10. Answered'
  BY <1>0 DEF Answered, BootstrapCreate, RefusedOnlyFor, Refusals, fs, disk,
       handle, history
<1> QED BY <1>1, <1>2, <1>3, <1>4, <1>5, <1>6, <1>7, <1>8, <1>9, <1>10
           DEF StoreInv

LEMMA BootstrapSyncParentKeeps == ASSUME StoreInv, BootstrapSyncParent PROVE StoreInv'
<1>0. TypeOK /\ Images /\ References /\ Synced /\ Handle /\ Staged
      /\ Reported /\ Defects /\ Layout /\ Answered
  BY DEF StoreInv
<1>1. TypeOK'
  BY <1>0 DEF TypeOK, BootstrapSyncParent, Staged, Handle, Steps, Outcomes,
       fs, disk, handle, history
<1>2. Images'
  BY <1>0 DEF Images, BootstrapSyncParent, fs, disk, handle, history
<1>3. References'
  BY <1>0 DEF References, BootstrapSyncParent, fs, disk, handle, history
<1>4. Synced'
  BY <1>0 DEF Synced, BootstrapSyncParent, Handle, Before, Committing,
       Holding, fs, disk, handle, history
<1>5. Handle'
  BY <1>0 DEF Handle, BootstrapSyncParent, Before, Committing, Holding,
       Synced, fs, disk, handle, history
<1>6. Staged'
  BY <1>0 DEF Staged, BootstrapSyncParent, Before, Committing, Holding,
       Handle, nextSequence, nextEpoch, parent, reference, target, fs, disk,
       handle, history
<1>7. Reported'
  BY <1>0 DEF Reported, BootstrapSyncParent, fs, disk, handle, history
<1>8. Defects'
  BY <1>0 DEF Defects, BootstrapSyncParent, fs, disk, handle, history
<1>9. Layout'
  BY <1>0 DEF Layout, BootstrapSyncParent, TypeOK, Handle, Staged, fs, disk,
       handle, history
<1>10. Answered'
  BY <1>0 DEF Answered, BootstrapSyncParent, RefusedOnlyFor, Refusals, fs,
       disk, handle, history
<1> QED BY <1>1, <1>2, <1>3, <1>4, <1>5, <1>6, <1>7, <1>8, <1>9, <1>10
           DEF StoreInv

LEMMA BootstrapSyncRootKeeps == ASSUME StoreInv, BootstrapSyncRoot PROVE StoreInv'
<1>0. TypeOK /\ Images /\ References /\ Synced /\ Handle /\ Staged
      /\ Reported /\ Defects /\ Layout /\ Answered
  BY DEF StoreInv
<1>1. TypeOK'
  BY <1>0 DEF TypeOK, BootstrapSyncRoot, Staged, Handle, Steps, Outcomes, fs,
       disk, handle, history
<1>2. Images'
  BY <1>0 DEF Images, BootstrapSyncRoot, fs, disk, handle, history
<1>3. References'
  BY <1>0 DEF References, BootstrapSyncRoot, fs, disk, handle, history
<1>4. Synced'
  BY <1>0 DEF Synced, BootstrapSyncRoot, Handle, Before, Committing, Holding,
       fs, disk, handle, history
<1>5. Handle'
  BY <1>0 DEF Handle, BootstrapSyncRoot, Before, Committing, Holding, Synced,
       fs, disk, handle, history
<1>6. Staged'
  BY <1>0 DEF Staged, BootstrapSyncRoot, Before, Committing, Holding, Handle,
       nextSequence, nextEpoch, parent, reference, target, fs, disk, handle,
       history
<1>7. Reported'
  BY <1>0 DEF Reported, BootstrapSyncRoot, fs, disk, handle, history
<1>8. Defects'
  BY <1>0 DEF Defects, BootstrapSyncRoot, fs, disk, handle, history
<1>9. Layout'

  <2>1. CASE layout = Full /\ layoutDisk = Full
    BY <2>1 DEF Layout, BootstrapSyncRoot
  <2>2. CASE ~(layout = Full /\ layoutDisk = Full)
    <3>1. bootstrapSubset
      BY <1>0, <2>2 DEF Layout, bootstrapSubset, generationEntries
    <3> QED BY <3>1 DEF Layout, BootstrapSyncRoot, Full
  <2> QED BY <2>1, <2>2
<1>10. Answered'
  BY <1>0 DEF Answered, BootstrapSyncRoot, RefusedOnlyFor, Refusals, fs, disk,
       handle, history
<1> QED BY <1>1, <1>2, <1>3, <1>4, <1>5, <1>6, <1>7, <1>8, <1>9, <1>10
           DEF StoreInv

LEMMA BootstrapFailsKeeps == ASSUME StoreInv, BootstrapFails PROVE StoreInv'
<1>0. TypeOK /\ Images /\ References /\ Synced /\ Handle /\ Staged
      /\ Reported /\ Defects /\ Layout /\ Answered
  BY DEF StoreInv
<1>1. TypeOK'
  BY <1>0 DEF TypeOK, BootstrapFails, Staged, Handle, Steps, Outcomes, refuse,
       fs, disk, handle, history
<1>2. Images'
  BY <1>0 DEF Images, BootstrapFails, refuse, fs, disk, handle, history
<1>3. References'
  BY <1>0 DEF References, BootstrapFails, refuse, fs, disk, handle, history
<1>4. Synced'
  BY <1>0 DEF Synced, BootstrapFails, Handle, Before, Committing, Holding,
       refuse, fs, disk, handle, history
<1>5. Handle'
  BY <1>0 DEF Handle, BootstrapFails, Before, Committing, Holding, Synced,
       refuse, fs, disk, handle, history
<1>6. Staged'
  BY <1>0 DEF Staged, BootstrapFails, Before, Committing, Holding, Handle,
       nextSequence, nextEpoch, parent, reference, target, refuse, fs, disk,
       handle, history
<1>7. Reported'
  BY <1>0 DEF Reported, BootstrapFails, refuse, fs, disk, handle, history
<1>8. Defects'
  BY <1>0 DEF Defects, BootstrapFails, refuse, fs, disk, handle, history
<1>9. Layout'
  BY <1>0 DEF Layout, BootstrapFails, TypeOK, Handle, Staged, refuse, fs,
       disk, handle, history
<1>10. Answered'

  <2>1. pc' = "closed"
    BY DEF BootstrapFails, refuse
  <2>2. outcome' = "bootstrap_durability_unknown"
    <3>1. CASE bootstrapSubset
      BY <3>1 DEF BootstrapFails, refuse
    <3>2. CASE ~bootstrapSubset
      <4>1. layout = Full
        BY <1>0, <3>2 DEF Layout, bootstrapSubset, generationEntries
      <4> QED BY <3>2, <4>1 DEF BootstrapFails, Full
    <3> QED BY <3>1, <3>2
  <2> QED BY <2>1, <2>2 DEF Answered, RefusedOnlyFor
<1> QED BY <1>1, <1>2, <1>3, <1>4, <1>5, <1>6, <1>7, <1>8, <1>9, <1>10
           DEF StoreInv

LEMMA ProbeCreateKeeps == ASSUME StoreInv, ProbeCreate PROVE StoreInv'
<1>0. TypeOK /\ Images /\ References /\ Synced /\ Handle /\ Staged
      /\ Reported /\ Defects /\ Layout /\ Answered
  BY DEF StoreInv
<1>1. TypeOK'
  BY <1>0 DEF TypeOK, ProbeCreate, Staged, Handle, Steps, Outcomes, fs, disk,
       handle, history
<1>2. Images'
  BY <1>0 DEF Images, ProbeCreate, fs, disk, handle, history
<1>3. References'
  BY <1>0 DEF References, ProbeCreate, fs, disk, handle, history
<1>4. Synced'
  BY <1>0 DEF Synced, ProbeCreate, Handle, Before, Committing, Holding, fs,
       disk, handle, history
<1>5. Handle'
  BY <1>0 DEF Handle, ProbeCreate, Before, Committing, Holding, Synced, fs,
       disk, handle, history
<1>6. Staged'

  <2>1. temps' > 0
    BY <1>0, SlotTypes DEF ProbeCreate
  <2> QED BY <2>1 DEF Staged, ProbeCreate, Committing, Before
<1>7. Reported'
  BY <1>0 DEF Reported, ProbeCreate, fs, disk, handle, history
<1>8. Defects'
  BY <1>0 DEF Defects, ProbeCreate, fs, disk, handle, history
<1>9. Layout'
  BY <1>0 DEF Layout, ProbeCreate, TypeOK, Handle, Staged, fs, disk, handle,
       history
<1>10. Answered'
  BY <1>0 DEF Answered, ProbeCreate, RefusedOnlyFor, Refusals, fs, disk,
       handle, history
<1> QED BY <1>1, <1>2, <1>3, <1>4, <1>5, <1>6, <1>7, <1>8, <1>9, <1>10
           DEF StoreInv

LEMMA ProbeCleanKeeps == ASSUME StoreInv, ProbeClean PROVE StoreInv'
<1>0. TypeOK /\ Images /\ References /\ Synced /\ Handle /\ Staged
      /\ Reported /\ Defects /\ Layout /\ Answered
  BY DEF StoreInv
<1>1. TypeOK'
  BY <1>0 DEF TypeOK, ProbeClean, Staged, Handle, Steps, Outcomes, fs, disk,
       handle, history
<1>2. Images'
  BY <1>0 DEF Images, ProbeClean, fs, disk, handle, history
<1>3. References'

  <2> SUFFICES ASSUME NEW s \in Slots, valid(slot[s])
               PROVE  refsOK(slot[s], gen, gen)
    BY DEF ProbeClean, References
  <2> QED BY <1>0, RefsSynced DEF References
<1>4. Synced'
  BY <1>0 DEF Synced, ProbeClean, Handle, Before, Committing, Holding, fs,
       disk, handle, history
<1>5. Handle'
  BY <1>0 DEF Handle, ProbeClean, Before, Committing, Holding, Synced, fs,
       disk, handle, history
<1>6. Staged'
  BY <1>0 DEF Staged, ProbeClean, Before, Committing, Holding, Handle,
       nextSequence, nextEpoch, parent, reference, target, fs, disk, handle,
       history
<1>7. Reported'
  BY <1>0 DEF Reported, ProbeClean, fs, disk, handle, history
<1>8. Defects'
  BY <1>0 DEF Defects, ProbeClean, fs, disk, handle, history
<1>9. Layout'
  BY <1>0 DEF Layout, ProbeClean, TypeOK, Handle, Staged, fs, disk, handle,
       history
<1>10. Answered'
  BY <1>0 DEF Answered, ProbeClean, RefusedOnlyFor, Refusals, fs, disk,
       handle, history
<1> QED BY <1>1, <1>2, <1>3, <1>4, <1>5, <1>6, <1>7, <1>8, <1>9, <1>10
           DEF StoreInv

LEMMA ProbeFailsKeeps == ASSUME StoreInv, ProbeFails PROVE StoreInv'
<1>0. TypeOK /\ Images /\ References /\ Synced /\ Handle /\ Staged
      /\ Reported /\ Defects /\ Layout /\ Answered
  BY DEF StoreInv
<1>1. TypeOK'

  <2>1. temps \in Nat /\ temps > 0
    BY <1>0, SlotTypes DEF Staged, ProbeFails
  <2>2. temps' \in Nat
    BY <2>1 DEF ProbeFails
  <2>4. link' \in BOOLEAN
    BY <1>0, Zenon DEF TypeOK, ProbeFails
  <2>3. /\ pc' \in Steps /\ outcome' \in Outcomes
        /\ opening' \in BOOLEAN /\ poisoned' \in BOOLEAN
        /\ selected' \in Slots \cup {None} /\ manifest' \in Manifest \cup {None}
    BY DEF ProbeFails, refuse, Steps, Outcomes
  <2> QED BY <1>0, <2>2, <2>3, <2>4 DEF TypeOK, ProbeFails, disk, history
<1>2. Images'
  BY <1>0 DEF Images, ProbeFails, refuse, fs, disk, handle, history
<1>3. References'
  BY <1>0 DEF References, ProbeFails, refuse, fs, disk, handle, history
<1>4. Synced'
  BY <1>0 DEF Synced, ProbeFails, Handle, Before, Committing, Holding, refuse,
       fs, disk, handle, history
<1>5. Handle'
  BY <1>0 DEF Handle, ProbeFails, Before, Committing, Holding, Synced, refuse,
       fs, disk, handle, history
<1>6. Staged'
  BY <1>0 DEF Staged, ProbeFails, Before, Committing, Holding, Handle,
       nextSequence, nextEpoch, parent, reference, target, refuse, fs, disk,
       handle, history
<1>7. Reported'
  BY <1>0 DEF Reported, ProbeFails, refuse, fs, disk, handle, history
<1>8. Defects'
  BY <1>0 DEF Defects, ProbeFails, refuse, fs, disk, handle, history
<1>9. Layout'
  BY <1>0 DEF Layout, ProbeFails, TypeOK, Handle, Staged, refuse, fs, disk,
       handle, history
<1>10. Answered'
  BY <1>0 DEF Answered, ProbeFails, RefusedOnlyFor, Refusals, refuse, fs,
       disk, handle, history
<1> QED BY <1>1, <1>2, <1>3, <1>4, <1>5, <1>6, <1>7, <1>8, <1>9, <1>10
           DEF StoreInv

LEMMA LayoutRejectedKeeps == ASSUME StoreInv, LayoutRejected PROVE StoreInv'
<1>0. TypeOK /\ Images /\ References /\ Synced /\ Handle /\ Staged
      /\ Reported /\ Defects /\ Layout /\ Answered
  BY DEF StoreInv
<1>1. TypeOK'
  BY <1>0 DEF TypeOK, LayoutRejected, Staged, Handle, Steps, Outcomes, refuse,
       fs, disk, handle, history
<1>2. Images'
  BY <1>0 DEF Images, LayoutRejected, refuse, fs, disk, handle, history
<1>3. References'
  BY <1>0 DEF References, LayoutRejected, refuse, fs, disk, handle, history
<1>4. Synced'
  BY <1>0 DEF Synced, LayoutRejected, Handle, Before, Committing, Holding,
       refuse, fs, disk, handle, history
<1>5. Handle'
  BY <1>0 DEF Handle, LayoutRejected, Before, Committing, Holding, Synced,
       refuse, fs, disk, handle, history
<1>6. Staged'
  BY <1>0 DEF Staged, LayoutRejected, Before, Committing, Holding, Handle,
       nextSequence, nextEpoch, parent, reference, target, refuse, fs, disk,
       handle, history
<1>7. Reported'
  BY <1>0 DEF Reported, LayoutRejected, refuse, fs, disk, handle, history
<1>8. Defects'
  BY <1>0 DEF Defects, LayoutRejected, refuse, fs, disk, handle, history
<1>9. Layout'
  BY <1>0 DEF Layout, LayoutRejected, TypeOK, Handle, Staged, refuse, fs,
       disk, handle, history
<1>10. Answered'

  <2>1. enforceArtifactBound' = enforceArtifactBound /\ link' = link
    BY SameBound DEF LayoutRejected, fs
  <2> QED BY <2>1 DEF Answered, RefusedOnlyFor, LayoutRejected, refuse
<1> QED BY <1>1, <1>2, <1>3, <1>4, <1>5, <1>6, <1>7, <1>8, <1>9, <1>10
           DEF StoreInv

LEMMA OpenEmptyKeeps == ASSUME StoreInv, OpenEmpty PROVE StoreInv'
<1>0. TypeOK /\ Images /\ References /\ Synced /\ Handle /\ Staged
      /\ Reported /\ Defects /\ Layout /\ Answered
  BY DEF StoreInv
<1>1. TypeOK'

  <2>1. pending' \in State /\ removed' \in BOOLEAN
    BY <1>0, StoreAssumption DEF TypeOK, OpenEmpty
  <2>2. /\ pc' \in Steps /\ outcome' \in Outcomes
        /\ opening' \in BOOLEAN /\ poisoned' \in BOOLEAN
        /\ selected' \in Slots \cup {None} /\ manifest' \in Manifest \cup {None}
    BY <1>0 DEF TypeOK, OpenEmpty, refuse, Steps, Outcomes, handle
  <2> QED BY <1>0, <2>1, <2>2 DEF TypeOK, OpenEmpty, fs, disk, history
<1>2. Images'
  BY <1>0 DEF Images, OpenEmpty, refuse, fs, disk, handle, history
<1>3. References'
  BY <1>0 DEF References, OpenEmpty, refuse, fs, disk, handle, history
<1>4. Synced'
  BY <1>0 DEF Synced, OpenEmpty, Handle, Before, Committing, Holding, refuse,
       fs, disk, handle, history
<1>5. Handle'
  BY <1>0 DEF Handle, OpenEmpty, Before, Committing, Holding, Synced, refuse,
       fs, disk, handle, history
<1>6. Staged'

  <2>1. manifest' = None
    BY <1>0 DEF Handle, Holding, Committing, Before, OpenEmpty, refuse, handle
  <2>2. nextSequence' \in Numbers /\ nextEpoch' \in Numbers
    BY <2>1, StoreAssumption DEF nextSequence, nextEpoch, Numbers
  <2> QED BY <2>2 DEF Staged, OpenEmpty, refuse
<1>7. Reported'
  BY <1>0 DEF Reported, OpenEmpty, refuse, fs, disk, handle, history
<1>8. Defects'
  BY <1>0 DEF Defects, OpenEmpty, refuse, fs, disk, handle, history
<1>9. Layout'
  BY <1>0 DEF Layout, OpenEmpty, TypeOK, Handle, Staged, refuse, fs, disk,
       handle, history
<1>10. Answered'

  <2>1. ASSUME damage = 0 PROVE told = None
    BY <1>0, <2>1 DEF Reported, current, valid, OpenEmpty
  <2> QED BY <2>1 DEF Answered, RefusedOnlyFor, OpenEmpty, refuse, history
<1> QED BY <1>1, <1>2, <1>3, <1>4, <1>5, <1>6, <1>7, <1>8, <1>9, <1>10
           DEF StoreInv

LEMMA OpenCurrentKeeps == ASSUME StoreInv, OpenCurrent PROVE StoreInv'
<1>0. TypeOK /\ Images /\ References /\ Synced /\ Handle /\ Staged
      /\ Reported /\ Defects /\ Layout /\ Answered
  BY DEF StoreInv
<1>1. TypeOK'

  <2> PICK s \in selectManifestSlots(slot) :
           /\ selected' = s /\ manifest' = slot[s]
           /\ told' = slot[s].current
    BY DEF OpenCurrent
  <2>1. s \in Slots /\ slot[s] \in Manifest
    BY <1>0, SlotTypes, SelectedSlot, ValidSlot DEF Images
  <2>2. /\ selected' \in Slots \cup {None} /\ manifest' \in Manifest \cup {None}
        /\ told' \in Reference \cup {None} /\ doubt' \in Reference \cup {None}
    BY <2>1, ManifestFields DEF OpenCurrent
  <2>3. pc' \in Steps /\ outcome' \in Outcomes /\ poisoned' \in BOOLEAN
    BY DEF OpenCurrent, Steps, Outcomes
  <2> QED BY <1>0, <2>2, <2>3 DEF TypeOK, OpenCurrent, fs, disk
<1>2. Images'
  BY <1>0 DEF Images, OpenCurrent, fs, disk, handle, history
<1>3. References'
  BY <1>0 DEF References, OpenCurrent, fs, disk, handle, history
<1>4. Synced'
  BY <1>0 DEF Synced, OpenCurrent, Handle, Before, Committing, Holding, fs,
       disk, handle, history
<1>5. Handle'

  <2> PICK s \in selectManifestSlots(slot) :
           /\ selected' = s /\ manifest' = slot[s]
           /\ told' = slot[s].current
    BY DEF OpenCurrent
  <2>1. /\ s \in Slots /\ valid(slot[s])
        /\ valid(slot[other(s)]) => slot[other(s)].epoch < slot[s].epoch
    BY <1>0, SlotTypes, SelectedSlot DEF Images
  <2>2. slot[s] # None /\ wellFormed(slot[s])
    BY <1>0, <2>1 DEF Images, imageOK, valid
  <2>3. slot' = slot /\ pc' = "idle" /\ ~opening /\ opening' = opening
        /\ ~poisoned'
    BY <1>0 DEF OpenCurrent, fs, Handle, Committing, Before
  <2> QED BY <2>1, <2>2, <2>3 DEF Handle, Committing, Before, Holding
<1>6. Staged'
  BY <1>0 DEF Staged, OpenCurrent, Before, Committing, Holding, Handle,
       nextSequence, nextEpoch, parent, reference, target, fs, disk, handle,
       history
<1>7. Reported'

  <2> PICK s \in selectManifestSlots(slot) :
           /\ selected' = s /\ manifest' = slot[s]
           /\ told' = slot[s].current
    BY DEF OpenCurrent
  <2>1. /\ s \in Slots /\ valid(slot[s])
        /\ valid(slot[other(s)]) => slot[other(s)].epoch < slot[s].epoch
    BY <1>0, SlotTypes, SelectedSlot DEF Images
  <2>2. slot' = slot /\ slotDisk' = slot /\ slotDisk = slot
    BY <1>0 DEF OpenCurrent, fs, disk, Synced
  <2>3. current(slot, told', doubt')
    BY <2>1 DEF current
  <2>4. wellFormed(slot[s])
    BY <1>0, <2>1 DEF Images, imageOK
  <2>5. ASSUME told'.generation # 1
        PROVE  \A t \in Slots : slot[t] # None
    BY <1>0, <2>1, <2>4, <2>5 DEF Images, imageOK, wellFormed
  <2> QED BY <2>2, <2>3, <2>5 DEF Reported
<1>8. Defects'
  BY <1>0 DEF Defects, OpenCurrent, fs, disk, handle, history
<1>9. Layout'
  BY <1>0 DEF Layout, OpenCurrent, TypeOK, Handle, Staged, fs, disk, handle,
       history
<1>10. Answered'
  BY <1>0 DEF Answered, OpenCurrent, RefusedOnlyFor, Refusals, fs, disk,
       handle, history
<1> QED BY <1>1, <1>2, <1>3, <1>4, <1>5, <1>6, <1>7, <1>8, <1>9, <1>10
           DEF StoreInv

LEMMA OpenRefusedKeeps == ASSUME StoreInv, OpenRefused PROVE StoreInv'
<1>0. TypeOK /\ Images /\ References /\ Synced /\ Handle /\ Staged
      /\ Reported /\ Defects /\ Layout /\ Answered
  BY DEF StoreInv
<1>1. TypeOK'

  <2>1. /\ pc' \in Steps /\ outcome' \in Outcomes
        /\ opening' \in BOOLEAN /\ poisoned' \in BOOLEAN
        /\ selected' \in Slots \cup {None} /\ manifest' \in Manifest \cup {None}
    BY DEF OpenRefused, refuse, openDefect, Steps, Outcomes
  <2> QED BY <1>0, <2>1 DEF TypeOK, OpenRefused, fs, disk, history
<1>2. Images'
  BY <1>0 DEF Images, OpenRefused, refuse, fs, disk, handle, history
<1>3. References'
  BY <1>0 DEF References, OpenRefused, refuse, fs, disk, handle, history
<1>4. Synced'
  BY <1>0 DEF Synced, OpenRefused, Handle, Before, Committing, Holding,
       refuse, fs, disk, handle, history
<1>5. Handle'
  BY <1>0 DEF Handle, OpenRefused, Before, Committing, Holding, Synced,
       refuse, fs, disk, handle, history
<1>6. Staged'
  BY <1>0 DEF Staged, OpenRefused, Before, Committing, Holding, Handle,
       nextSequence, nextEpoch, parent, reference, target, refuse, fs, disk,
       handle, history
<1>7. Reported'
  BY <1>0 DEF Reported, OpenRefused, refuse, fs, disk, handle, history
<1>8. Defects'
  BY <1>0 DEF Defects, OpenRefused, refuse, fs, disk, handle, history
<1>9. Layout'
  BY <1>0 DEF Layout, OpenRefused, TypeOK, Handle, Staged, refuse, fs, disk,
       handle, history
<1>10. Answered'

  <2>1. ASSUME damage = 0 PROVE FALSE
    <3>1. PICK s \in Slots : slot[s] # None
      BY DEF OpenRefused
    <3>2. valid(slot[s])
      BY <1>0, <2>1, <3>1 DEF Defects, valid
    <3>3. slot \in SlotImage /\ imageOK(slot) /\ gen \in Files
      BY <1>0, SlotTypes DEF Images
    <3>4. PICK t \in Slots : t \in selectManifestSlots(slot)
      BY <3>2, <3>3, SelectedExists
    <3>5. valid(slot[t]) /\ slot[t] \in Manifest
      BY <3>3, <3>4, SelectedSlot, ValidSlot
    <3>6. wellFormed(slot[t]) /\ refsOK(slot[t], gen, genDisk)
      BY <1>0, <3>3, <3>5 DEF imageOK, References
    <3>7. gen[slot[t].current.generation] # Damaged
      BY <1>0, <2>1, <3>5, ManifestFields DEF Defects
    <3>8. loadCurrentGeneration(slot[t], gen)
      BY <3>3, <3>5, <3>6, <3>7, CurrentLoads
    <3> QED BY <3>3, <3>4, <3>8, Unambiguous DEF OpenRefused
  <2> QED BY <2>1 DEF Answered, RefusedOnlyFor, OpenRefused, refuse
<1> QED BY <1>1, <1>2, <1>3, <1>4, <1>5, <1>6, <1>7, <1>8, <1>9, <1>10
           DEF StoreInv

LEMMA BeginCommitKeeps == ASSUME StoreInv, BeginCommit PROVE StoreInv'
<1>0. TypeOK /\ Images /\ References /\ Synced /\ Handle /\ Staged
      /\ Reported /\ Defects /\ Layout /\ Answered
  BY DEF StoreInv
<1>1. TypeOK'
  BY <1>0 DEF TypeOK, BeginCommit, Staged, Handle, Steps, Outcomes, fs, disk,
       handle, history
<1>2. Images'
  BY <1>0 DEF Images, BeginCommit, fs, disk, handle, history
<1>3. References'
  BY <1>0 DEF References, BeginCommit, fs, disk, handle, history
<1>4. Synced'
  BY <1>0 DEF Synced, BeginCommit, Handle, Before, Committing, Holding, fs,
       disk, handle, history
<1>5. Handle'
  BY <1>0 DEF Handle, BeginCommit, Before, Committing, Holding, Synced, fs,
       disk, handle, history
<1>6. Staged'

  <2>1. /\ nextSequence' = nextSequence /\ nextEpoch' = nextEpoch
        /\ nextSequence <= MaxGeneration /\ nextEpoch <= MaxGeneration
    BY DEF BeginCommit, handle, nextSequence, nextEpoch
  <2>2. manifest \in Manifest \cup {None}
    BY <1>0 DEF TypeOK
  <2>3. nextSequence \in Nat \ {0} /\ nextEpoch \in Nat \ {0}
    BY <2>2, ManifestFields DEF nextSequence, nextEpoch
  <2>4. nextSequence' \in Numbers /\ nextEpoch' \in Numbers
    BY <2>1, <2>3, StoreAssumption DEF Numbers
  <2> QED BY <2>4 DEF Staged, BeginCommit
<1>7. Reported'
  BY <1>0 DEF Reported, BeginCommit, fs, disk, handle, history
<1>8. Defects'
  BY <1>0 DEF Defects, BeginCommit, fs, disk, handle, history
<1>9. Layout'
  BY <1>0 DEF Layout, BeginCommit, TypeOK, Handle, Staged, fs, disk, handle,
       history
<1>10. Answered'
  BY <1>0 DEF Answered, BeginCommit, RefusedOnlyFor, Refusals, fs, disk,
       handle, history
<1> QED BY <1>1, <1>2, <1>3, <1>4, <1>5, <1>6, <1>7, <1>8, <1>9, <1>10
           DEF StoreInv

LEMMA MaintenanceRemoveKeeps == ASSUME StoreInv, MaintenanceRemove PROVE StoreInv'
<1>0. TypeOK /\ Images /\ References /\ Synced /\ Handle /\ Staged
      /\ Reported /\ Defects /\ Layout /\ Answered
  BY DEF StoreInv
<1>1. TypeOK'
  BY <1>0 DEF TypeOK, MaintenanceRemove, Staged, Handle, Steps, Outcomes, fs,
       disk, handle, history
<1>2. Images'
  BY <1>0 DEF Images, MaintenanceRemove, fs, disk, handle, history
<1>3. References'

  <2>1. slot' = slot /\ slotDisk' = slot /\ slotDisk = slot
        /\ genDisk' = genDisk
    BY <1>0 DEF MaintenanceRemove, disk, Synced, Before
  <2>2. CASE gen' = gen
    BY <1>0, <2>1, <2>2 DEF References
  <2>3. CASE \E n \in unreferenced : gen' = [gen EXCEPT ![n] = None]
    <3>1. PICK n \in unreferenced : gen' = [gen EXCEPT ![n] = None]
      BY <2>3
    <3>2. n \notin publicationGenerationReferences(slot)
      BY DEF unreferenced
    <3>3. \A k \in Numbers : k # n => gen'[k] = gen[k]
      BY <1>0, <3>1, SlotTypes DEF Files
    <3>4. ASSUME NEW s \in Slots, valid(slot[s])
          PROVE  refsOK(slot[s], gen', genDisk)
      <4>1. slot[s] \in Manifest /\ refsOK(slot[s], gen, genDisk)
        BY <1>0, <3>4, SlotTypes, ValidSlot DEF References
      <4>2. gen'[slot[s].current.generation] = gen[slot[s].current.generation]
        BY <3>2, <3>3, <3>4, <4>1, ManifestFields, Referenced
      <4>3. slot[s].parent # None =>
              gen'[slot[s].parent.generation] = gen[slot[s].parent.generation]
        BY <3>2, <3>3, <3>4, <4>1, ManifestFields, Referenced
      <4> QED BY <4>1, <4>2, <4>3, RefsKept
    <3> QED BY <2>1, <3>4 DEF References
  <2> QED BY <2>2, <2>3 DEF MaintenanceRemove
<1>4. Synced'
  BY <1>0 DEF Synced, MaintenanceRemove, Handle, Before, Committing, Holding,
       fs, disk, handle, history
<1>5. Handle'
  BY <1>0 DEF Handle, MaintenanceRemove, Before, Committing, Holding, Synced,
       fs, disk, handle, history
<1>6. Staged'
  BY <1>0 DEF Staged, MaintenanceRemove, Before, Committing, Holding, Handle,
       nextSequence, nextEpoch, parent, reference, target, fs, disk, handle,
       history
<1>7. Reported'
  BY <1>0 DEF Reported, MaintenanceRemove, fs, disk, handle, history
<1>8. Defects'

  <2>1. \A n \in Numbers : gen'[n] = gen[n] \/ gen'[n] = None
    BY <1>0, SlotTypes DEF MaintenanceRemove, Files
  <2>2. \A n \in Numbers : gen'[n] = Damaged => gen[n] = Damaged
    BY <2>1, AbsentAssumption
  <2>3. UNCHANGED <<slot, slotDisk, genDisk, damage>>
    BY DEF MaintenanceRemove, disk
  <2> QED BY <1>0, <2>2, <2>3 DEF Defects
<1>9. Layout'
  BY <1>0 DEF Layout, MaintenanceRemove, TypeOK, Handle, Staged, fs, disk,
       handle, history
<1>10. Answered'
  BY <1>0 DEF Answered, MaintenanceRemove, RefusedOnlyFor, Refusals, fs, disk,
       handle, history
<1> QED BY <1>1, <1>2, <1>3, <1>4, <1>5, <1>6, <1>7, <1>8, <1>9, <1>10
           DEF StoreInv

LEMMA MaintenanceDoneKeeps == ASSUME StoreInv, MaintenanceDone PROVE StoreInv'
<1>0. TypeOK /\ Images /\ References /\ Synced /\ Handle /\ Staged
      /\ Reported /\ Defects /\ Layout /\ Answered
  BY DEF StoreInv
<1>1. TypeOK'

  <2>1. genDisk' \in [Numbers -> Generation \cup {None, Damaged}]
        /\ tempsDisk' \in Nat
    BY <1>0 DEF TypeOK, MaintenanceDone
  <2>2. /\ pc' \in Steps /\ outcome' \in Outcomes
        /\ opening' \in BOOLEAN /\ poisoned' \in BOOLEAN
    BY <1>0 DEF TypeOK, MaintenanceDone, finish, handle, Steps, Outcomes
  <2>3. selected' \in Slots \cup {None} /\ manifest' \in Manifest \cup {None}
    BY <1>0 DEF TypeOK, MaintenanceDone, finish, handle
  <2> QED BY <1>0, <2>1, <2>2, <2>3 DEF TypeOK, MaintenanceDone, history
<1>2. Images'
  BY <1>0 DEF Images, MaintenanceDone, finish, fs, disk, handle, history
<1>3. References'

  <2>1. slot' = slot /\ slotDisk' = slotDisk /\ gen' = gen
        /\ (genDisk' = gen \/ genDisk' = genDisk)
    BY DEF MaintenanceDone
  <2> QED BY <1>0, <2>1, RefsSynced DEF References
<1>4. Synced'
  BY <1>0 DEF Synced, MaintenanceDone, Handle, Before, Committing, Holding,
       finish, fs, disk, handle, history
<1>5. Handle'
  BY <1>0 DEF Handle, MaintenanceDone, Before, Committing, Holding, Synced,
       finish, fs, disk, handle, history
<1>6. Staged'
  BY <1>0 DEF Staged, MaintenanceDone, Before, Committing, Holding, Handle,
       nextSequence, nextEpoch, parent, reference, target, finish, fs, disk,
       handle, history
<1>7. Reported'
  BY <1>0 DEF Reported, MaintenanceDone, finish, fs, disk, handle, history
<1>8. Defects'
  BY <1>0 DEF Defects, MaintenanceDone, finish, fs, disk, handle, history
<1>9. Layout'
  BY <1>0 DEF Layout, MaintenanceDone, TypeOK, Handle, Staged, finish, fs,
       disk, handle, history
<1>10. Answered'
  BY <1>0 DEF Answered, MaintenanceDone, RefusedOnlyFor, Refusals, finish, fs,
       disk, handle, history
<1> QED BY <1>1, <1>2, <1>3, <1>4, <1>5, <1>6, <1>7, <1>8, <1>9, <1>10
           DEF StoreInv

LEMMA MaintenanceFailsKeeps == ASSUME StoreInv, MaintenanceFails PROVE StoreInv'
<1>0. TypeOK /\ Images /\ References /\ Synced /\ Handle /\ Staged
      /\ Reported /\ Defects /\ Layout /\ Answered
  BY DEF StoreInv
<1>1. TypeOK'
  BY <1>0 DEF TypeOK, MaintenanceFails, Staged, Handle, Steps, Outcomes,
       finish, fs, disk, handle, history
<1>2. Images'
  BY <1>0 DEF Images, MaintenanceFails, finish, fs, disk, handle, history
<1>3. References'
  BY <1>0 DEF References, MaintenanceFails, finish, fs, disk, handle, history
<1>4. Synced'
  BY <1>0 DEF Synced, MaintenanceFails, Handle, Before, Committing, Holding,
       finish, fs, disk, handle, history
<1>5. Handle'
  BY <1>0 DEF Handle, MaintenanceFails, Before, Committing, Holding, Synced,
       finish, fs, disk, handle, history
<1>6. Staged'
  BY <1>0 DEF Staged, MaintenanceFails, Before, Committing, Holding, Handle,
       nextSequence, nextEpoch, parent, reference, target, finish, fs, disk,
       handle, history
<1>7. Reported'
  BY <1>0 DEF Reported, MaintenanceFails, finish, fs, disk, handle, history
<1>8. Defects'
  BY <1>0 DEF Defects, MaintenanceFails, finish, fs, disk, handle, history
<1>9. Layout'
  BY <1>0 DEF Layout, MaintenanceFails, TypeOK, Handle, Staged, finish, fs,
       disk, handle, history
<1>10. Answered'
  BY <1>0 DEF Answered, MaintenanceFails, RefusedOnlyFor, Refusals, finish,
       fs, disk, handle, history
<1> QED BY <1>1, <1>2, <1>3, <1>4, <1>5, <1>6, <1>7, <1>8, <1>9, <1>10
           DEF StoreInv

LEMMA WriteTemporaryKeeps == ASSUME StoreInv, WriteTemporary PROVE StoreInv'
<1>0. TypeOK /\ Images /\ References /\ Synced /\ Handle /\ Staged
      /\ Reported /\ Defects /\ Layout /\ Answered
  BY DEF StoreInv
<1>1. TypeOK'
  BY <1>0 DEF TypeOK, WriteTemporary, Staged, Handle, Steps, Outcomes, fs,
       disk, handle, history
<1>2. Images'
  BY <1>0 DEF Images, WriteTemporary, fs, disk, handle, history
<1>3. References'
  BY <1>0 DEF References, WriteTemporary, fs, disk, handle, history
<1>4. Synced'
  BY <1>0 DEF Synced, WriteTemporary, Handle, Before, Committing, Holding, fs,
       disk, handle, history
<1>5. Handle'
  BY <1>0 DEF Handle, WriteTemporary, Before, Committing, Holding, Synced, fs,
       disk, handle, history
<1>6. Staged'

  <2>1. temps' > 0
    BY <1>0, SlotTypes DEF WriteTemporary
  <2>2. /\ nextSequence' = nextSequence /\ nextEpoch' = nextEpoch
        /\ parent' = parent /\ pending' = pending
    BY DEF WriteTemporary, handle, nextSequence, nextEpoch, parent
  <2>3. /\ gen' = gen /\ genDisk' = genDisk
        /\ \/ pc = "generation" /\ pc' = "renameGeneration"
           \/ pc = "manifest" /\ pc' = "renameManifest"
    BY DEF WriteTemporary, disk
  <2> QED BY <1>0, <2>1, <2>2, <2>3 DEF Staged, Committing, Before
<1>7. Reported'
  BY <1>0 DEF Reported, WriteTemporary, fs, disk, handle, history
<1>8. Defects'
  BY <1>0 DEF Defects, WriteTemporary, fs, disk, handle, history
<1>9. Layout'
  BY <1>0 DEF Layout, WriteTemporary, TypeOK, Handle, Staged, fs, disk,
       handle, history
<1>10. Answered'
  BY <1>0 DEF Answered, WriteTemporary, RefusedOnlyFor, Refusals, fs, disk,
       handle, history
<1> QED BY <1>1, <1>2, <1>3, <1>4, <1>5, <1>6, <1>7, <1>8, <1>9, <1>10
           DEF StoreInv

LEMMA RenameGenerationKeeps == ASSUME StoreInv, RenameGeneration PROVE StoreInv'
<1>0. TypeOK /\ Images /\ References /\ Synced /\ Handle /\ Staged
      /\ Reported /\ Defects /\ Layout /\ Answered
  BY DEF StoreInv
<1>1. TypeOK'

  <2>1. /\ nextSequence \in Numbers /\ parent \in Reference \cup {None}
    BY CommitFacts DEF RenameGeneration, Committing, Before
  <2>2. [sequence |-> nextSequence, parent |-> parent, state |-> pending]
          \in Generation
    BY <1>0, <2>1 DEF Generation, TypeOK
  <2>3. gen' \in [Numbers -> Generation \cup {None, Damaged}]
    BY <1>0, <2>2 DEF TypeOK, RenameGeneration
  <2>4. temps' \in Nat
    BY <1>0, SlotTypes DEF Staged, RenameGeneration
  <2> QED BY <1>0, <2>3, <2>4
          DEF TypeOK, RenameGeneration, Steps, disk, handle, history
<1>2. Images'
  BY <1>0 DEF Images, RenameGeneration, fs, disk, handle, history
<1>3. References'

  <2>1. slot' = slot /\ slotDisk' = slot /\ slotDisk = slot
        /\ genDisk' = genDisk /\ pc \in Before
    BY <1>0 DEF RenameGeneration, disk, Synced, Before
  <2>2. \A k \in Numbers : k # nextSequence => gen'[k] = gen[k]
    BY <1>0, SlotTypes DEF RenameGeneration, Files
  <2>3. ASSUME NEW s \in Slots, valid(slot[s])
        PROVE  refsOK(slot[s], gen', genDisk)
    <3>1. refsOK(slot[s], gen, genDisk)
      BY <1>0, <2>3 DEF References
    <3>2. nextSequence \in Nat
      BY <2>1, CommitFacts, NumbersNat DEF Committing
    <3>3. gen'[slot[s].current.generation] = gen[slot[s].current.generation]
      BY <2>1, <2>2, <2>3, <3>2, OlderSlots, NumbersNat
    <3>4. slot[s].parent # None =>
            gen'[slot[s].parent.generation] = gen[slot[s].parent.generation]
      BY <2>1, <2>2, <2>3, <3>2, OlderSlots, NumbersNat
    <3> QED BY <3>1, <3>3, <3>4, RefsKept
  <2> QED BY <2>1, <2>3 DEF References
<1>4. Synced'
  BY <1>0 DEF Synced, RenameGeneration, Handle, Before, Committing, Holding,
       fs, disk, handle, history
<1>5. Handle'
  BY <1>0 DEF Handle, RenameGeneration, Before, Committing, Holding, Synced,
       fs, disk, handle, history
<1>6. Staged'

  <2>1. /\ nextSequence' = nextSequence /\ nextEpoch' = nextEpoch
        /\ parent' = parent /\ pending' = pending
    BY DEF RenameGeneration, handle, nextSequence, nextEpoch, parent
  <2>2. nextSequence \in Numbers /\ nextEpoch \in Numbers
    BY <1>0 DEF Staged, RenameGeneration, Committing, Before
  <2>3. gen'[nextSequence] = [sequence |-> nextSequence, parent |-> parent,
                              state |-> pending]
    BY <1>0, <2>2, SlotTypes DEF RenameGeneration, Files
  <2> QED BY <2>1, <2>2, <2>3 DEF Staged, RenameGeneration
<1>7. Reported'
  BY <1>0 DEF Reported, RenameGeneration, fs, disk, handle, history
<1>8. Defects'

  <2>1. /\ nextSequence \in Numbers /\ parent \in Reference \cup {None}
    BY CommitFacts DEF RenameGeneration, Committing, Before
  <2>2. [sequence |-> nextSequence, parent |-> parent, state |-> pending]
          \in Generation
    BY <1>0, <2>1 DEF Generation, TypeOK
  <2>3. \A n \in Numbers : gen'[n] = gen[n] \/ gen'[n] \in Generation
    BY <1>0, <2>2, SlotTypes DEF RenameGeneration, Files
  <2>4. \A n \in Numbers : gen'[n] = Damaged => gen[n] = Damaged
    BY <2>3, AbsentAssumption
  <2>5. UNCHANGED <<slot, slotDisk, genDisk, damage>>
    BY DEF RenameGeneration, disk
  <2> QED BY <1>0, <2>4, <2>5 DEF Defects
<1>9. Layout'
  BY <1>0 DEF Layout, RenameGeneration, TypeOK, Handle, Staged, fs, disk,
       handle, history
<1>10. Answered'
  BY <1>0 DEF Answered, RenameGeneration, RefusedOnlyFor, Refusals, fs, disk,
       handle, history
<1> QED BY <1>1, <1>2, <1>3, <1>4, <1>5, <1>6, <1>7, <1>8, <1>9, <1>10
           DEF StoreInv

LEMMA SyncGenerationsKeeps == ASSUME StoreInv, SyncGenerations PROVE StoreInv'
<1>0. TypeOK /\ Images /\ References /\ Synced /\ Handle /\ Staged
      /\ Reported /\ Defects /\ Layout /\ Answered
  BY DEF StoreInv
<1>1. TypeOK'
  BY <1>0 DEF TypeOK, SyncGenerations, Staged, Handle, Steps, Outcomes, fs,
       disk, handle, history
<1>2. Images'
  BY <1>0 DEF Images, SyncGenerations, fs, disk, handle, history
<1>3. References'

  <2>1. slot' = slot /\ slotDisk' = slotDisk /\ gen' = gen /\ genDisk' = gen
    BY DEF SyncGenerations
  <2> QED BY <1>0, <2>1, RefsSynced DEF References
<1>4. Synced'
  BY <1>0 DEF Synced, SyncGenerations, Handle, Before, Committing, Holding,
       fs, disk, handle, history
<1>5. Handle'
  BY <1>0 DEF Handle, SyncGenerations, Before, Committing, Holding, Synced,
       fs, disk, handle, history
<1>6. Staged'
  BY <1>0 DEF Staged, SyncGenerations, Before, Committing, Holding, Handle,
       nextSequence, nextEpoch, parent, reference, target, fs, disk, handle,
       history
<1>7. Reported'
  BY <1>0 DEF Reported, SyncGenerations, fs, disk, handle, history
<1>8. Defects'
  BY <1>0 DEF Defects, SyncGenerations, fs, disk, handle, history
<1>9. Layout'
  BY <1>0 DEF Layout, SyncGenerations, TypeOK, Handle, Staged, fs, disk,
       handle, history
<1>10. Answered'
  BY <1>0 DEF Answered, SyncGenerations, RefusedOnlyFor, Refusals, fs, disk,
       handle, history
<1> QED BY <1>1, <1>2, <1>3, <1>4, <1>5, <1>6, <1>7, <1>8, <1>9, <1>10
           DEF StoreInv

LEMMA RenameManifestKeeps == ASSUME StoreInv, RenameManifest PROVE StoreInv'
<1>0. TypeOK /\ Images /\ References /\ Synced /\ Handle /\ Staged
      /\ Reported /\ Defects /\ Layout /\ Answered
  BY DEF StoreInv
<1>1. TypeOK'

  <2>1. slot' \in [Slots -> Manifest \cup {None, Damaged}]
    BY RenamedSlots DEF SlotImage
  <2>2. temps' \in Nat
    BY <1>0, SlotTypes DEF Staged, RenameManifest
  <2>3. doubt' \in Reference \cup {None}
    BY CommitFacts DEF RenameManifest, Committing, Before
  <2> QED BY <1>0, <2>1, <2>2, <2>3
          DEF TypeOK, RenameManifest, Steps, disk, handle
<1>2. Images'

  <2>1. pc \in Before /\ pc \in Committing
    BY DEF RenameManifest, Before, Committing
  <2>2. /\ target \in Slots /\ other(target) \in Slots
        /\ valid(published) /\ wellFormed(published)
        /\ published.epoch = nextEpoch
        /\ nextEpoch \in Nat
        /\ slot'[target] = published
        /\ slot'[other(target)] = slot[other(target)]
    BY <2>1, CommitFacts, OtherSlot, RenamedSlots, NumbersNat
  <2>3. ASSUME valid(slot[other(target)])
        PROVE  /\ slot[other(target)].epoch # nextEpoch
               /\ wellFormed(slot[other(target)])
    BY <1>0, <2>1, <2>2, <2>3, OlderSlots, ManifestFields DEF Images, imageOK
  <2>4. ASSUME nextEpoch # 1 PROVE slot[other(target)] # None
    <3>1. manifest # None
      BY <2>4 DEF nextEpoch
    <3>2. slot[other(target)] = manifest
      BY <1>0, <2>1, <3>1, CommitFacts DEF Handle
    <3> QED BY <3>1, <3>2
  <2>5. imageOK(slot')
    BY <2>2, <2>3, <2>4, ImageFromSlots DEF valid
  <2>6. imageOK(slotDisk')
    BY <1>0, RenamedSlots DEF Images
  <2>7. slot'["A"] = slotDisk'["A"] \/ slot'["B"] = slotDisk'["B"]
    BY <2>2, RenamedSlots DEF other, Slots
  <2> QED BY <2>5, <2>6, <2>7 DEF Images
<1>3. References'

  <2>1. gen' = gen /\ genDisk' = genDisk /\ slotDisk' = slotDisk
    BY DEF RenameManifest, disk
  <2>2. target \in Slots
    BY DEF target, Slots
  <2>3. refsOK(slot'[target], gen, genDisk)
    BY PublishedRefs, RenamedSlots DEF RenameManifest
  <2>4. valid(slot'[other(target)])
          => refsOK(slot'[other(target)], gen, genDisk)
    BY <1>0, <2>2, RenamedSlots, OtherSlot DEF References
  <2>5. \A s \in Slots : valid(slot'[s]) => refsOK(slot'[s], gen, genDisk)
    BY <2>2, <2>3, <2>4, OtherSlot
  <2> QED BY <1>0, <2>1, <2>5 DEF References
<1>4. Synced'
  BY <1>0 DEF Synced, RenameManifest, Handle, Before, Committing, Holding, fs,
       disk, handle, history
<1>5. Handle'
  BY <1>0 DEF Handle, RenameManifest, Before, Committing, Holding, Synced, fs,
       disk, handle, history
<1>6. Staged'

  <2>1. /\ nextSequence' = nextSequence /\ nextEpoch' = nextEpoch
        /\ parent' = parent /\ reference' = reference /\ target' = target
        /\ manifest' = manifest /\ selected' = selected
    BY DEF RenameManifest, handle, nextSequence, nextEpoch, parent, reference,
           target
  <2>2. nextSequence \in Numbers /\ nextEpoch \in Numbers
    BY <1>0 DEF Staged, RenameManifest, Committing, Before
  <2>3. slot'[target] = [epoch |-> nextEpoch, current |-> reference,
                         parent |-> parent]
    BY RenamedSlots DEF published
  <2>4. slot'[other(target)] = slotDisk'[other(target)]
    BY RenamedSlots
  <2>5. /\ manifest # None => slot'[selected] = manifest
        /\ manifest = None => slot'[other(target)] = None
    <3>1. pc \in Before /\ pc \in Committing
      BY DEF RenameManifest, Before, Committing
    <3>2. target \in Slots /\ other(target) \in Slots
          /\ (manifest # None => selected = other(target))
      BY <3>1, CommitFacts, OtherSlot
    <3>3. /\ manifest # None => slot[selected] = manifest
          /\ manifest = None => \A s \in Slots : slot[s] = None
      BY <1>0, <3>1 DEF Handle
    <3> QED BY <3>2, <3>3, RenamedSlots
  <2>6. pc' = "syncRoot"
    BY DEF RenameManifest
  <2> QED BY <2>1, <2>2, <2>3, <2>4, <2>5, <2>6 DEF Staged
<1>7. Reported'

  <2>1. pc \in Before /\ pc \in Committing
    BY DEF RenameManifest, Before, Committing
  <2>2. /\ target \in Slots /\ other(target) \in Slots
        /\ valid(published) /\ published.epoch = nextEpoch
        /\ published.current = reference
        /\ slot'[target] = published
        /\ slot'[other(target)] = slot[other(target)]
        /\ slotDisk' = slot /\ slotDisk = slot
        /\ doubt' = reference /\ told' = told /\ damage' = damage
    BY <2>1, CommitFacts, OtherSlot, RenamedSlots DEF RenameManifest
  <2>3. current(slot', told, reference)
    BY <2>1, <2>2, OlderSlots DEF current
  <2>4. ASSUME damage = 0, told # None
        PROVE  current(slot, told, reference)
    <3>1. manifest # None
      BY <1>0, <2>1, <2>4 DEF Handle, Reported, current, valid
    <3>2. /\ selected \in Slots /\ slot[selected] = manifest
          /\ manifest \in Manifest /\ manifest.current = told
          /\ valid(slot[other(selected)])
               => slot[other(selected)].epoch < manifest.epoch
      BY <1>0, <2>1, <3>1, CommitFacts DEF Handle
    <3>3. valid(manifest)
      BY <3>2, AbsentAssumption DEF valid
    <3> QED BY <3>2, <3>3 DEF current
  <2>5. ASSUME told # None, told.generation # 1
        PROVE  \A s \in Slots : slot'[s] # None
    BY <1>0, <2>2, <2>5, OtherSlot DEF Reported, valid
  <2> QED BY <1>0, <2>2, <2>3, <2>4, <2>5 DEF Reported
<1>8. Defects'

  <2>1. target \in Slots /\ valid(published)
    BY CommitFacts DEF RenameManifest, Committing, Before
  <2>2. \A s \in Slots : slot'[s] = Damaged => slot[s] = Damaged
    BY <2>1, RenamedSlots, OtherSlot DEF valid
  <2>3. UNCHANGED <<slotDisk, gen, genDisk, damage>>
    BY DEF RenameManifest, disk
  <2> QED BY <1>0, <2>2, <2>3, OtherSlot DEF Defects
<1>9. Layout'
  BY <1>0 DEF Layout, RenameManifest, TypeOK, Handle, Staged, fs, disk,
       handle, history
<1>10. Answered'
  BY <1>0 DEF Answered, RenameManifest, RefusedOnlyFor, Refusals, fs, disk,
       handle, history
<1> QED BY <1>1, <1>2, <1>3, <1>4, <1>5, <1>6, <1>7, <1>8, <1>9, <1>10
           DEF StoreInv

LEMMA PublishFailsKeeps == ASSUME StoreInv, PublishFails PROVE StoreInv'
<1>0. TypeOK /\ Images /\ References /\ Synced /\ Handle /\ Staged
      /\ Reported /\ Defects /\ Layout /\ Answered
  BY DEF StoreInv
<1>1. TypeOK'

  <2>1. temps' \in Nat
    BY <1>0, SlotTypes DEF PublishFails
  <2>2. /\ pc' \in Steps /\ outcome' \in Outcomes
        /\ opening' \in BOOLEAN /\ poisoned' \in BOOLEAN
    BY <1>0 DEF TypeOK, PublishFails, finish, Steps, Outcomes
  <2>3. selected' \in Slots \cup {None} /\ manifest' \in Manifest \cup {None}
    BY <1>0 DEF TypeOK, PublishFails, finish
  <2> QED BY <1>0, <2>1, <2>2, <2>3 DEF TypeOK, PublishFails, disk, history
<1>2. Images'
  BY <1>0 DEF Images, PublishFails, finish, fs, disk, handle, history
<1>3. References'
  BY <1>0 DEF References, PublishFails, finish, fs, disk, handle, history
<1>4. Synced'
  BY <1>0 DEF Synced, PublishFails, Handle, Before, Committing, Holding,
       finish, fs, disk, handle, history
<1>5. Handle'
  BY <1>0 DEF Handle, PublishFails, Before, Committing, Holding, Synced,
       finish, fs, disk, handle, history
<1>6. Staged'
  BY <1>0 DEF Staged, PublishFails, Before, Committing, Holding, Handle,
       nextSequence, nextEpoch, parent, reference, target, finish, fs, disk,
       handle, history
<1>7. Reported'
  BY <1>0 DEF Reported, PublishFails, finish, fs, disk, handle, history
<1>8. Defects'
  BY <1>0 DEF Defects, PublishFails, finish, fs, disk, handle, history
<1>9. Layout'
  BY <1>0 DEF Layout, PublishFails, TypeOK, Handle, Staged, finish, fs, disk,
       handle, history
<1>10. Answered'
  BY <1>0 DEF Answered, PublishFails, RefusedOnlyFor, Refusals, finish, fs,
       disk, handle, history
<1> QED BY <1>1, <1>2, <1>3, <1>4, <1>5, <1>6, <1>7, <1>8, <1>9, <1>10
           DEF StoreInv

LEMMA SyncRootKeeps == ASSUME StoreInv, SyncRoot PROVE StoreInv'
<1>0. TypeOK /\ Images /\ References /\ Synced /\ Handle /\ Staged
      /\ Reported /\ Defects /\ Layout /\ Answered
  BY DEF StoreInv
<1>1. TypeOK'

  <2>1. /\ target \in Slots /\ published \in Manifest /\ reference \in Reference
    BY CommitFacts DEF SyncRoot, Committing
  <2>2. slot[target] = published
    BY <1>0 DEF Staged, SyncRoot, published
  <2>3. /\ selected' \in Slots \cup {None} /\ manifest' \in Manifest \cup {None}
        /\ told' \in Reference \cup {None} /\ doubt' \in Reference \cup {None}
    BY <2>1, <2>2 DEF SyncRoot
  <2> QED BY <1>0, <2>3 DEF TypeOK, SyncRoot, Steps
<1>2. Images'
  BY <1>0 DEF Images, SyncRoot, fs, disk, handle, history
<1>3. References'
  BY <1>0 DEF References, SyncRoot, fs, disk, handle, history
<1>4. Synced'
  BY <1>0 DEF Synced, SyncRoot, Handle, Before, Committing, Holding, fs, disk,
       handle, history
<1>5. Handle'

  <2>1. /\ target \in Slots /\ published \in Manifest /\ valid(published)
        /\ wellFormed(published) /\ published.current = reference
        /\ published.epoch = nextEpoch
        /\ manifest \in Manifest \cup {None}
        /\ manifest # None => selected = other(target)
    BY CommitFacts DEF SyncRoot, Committing
  <2>2. /\ slot[target] = published
        /\ manifest # None => slot[selected] = manifest
        /\ manifest = None => slot[other(target)] = None
    BY <1>0 DEF Staged, SyncRoot, published
  <2>3. ASSUME valid(slot[other(target)])
        PROVE  slot[other(target)].epoch < nextEpoch
    <3>1. manifest # None /\ slot[other(target)] = manifest
      BY <2>1, <2>2, <2>3 DEF valid
    <3> QED BY <2>1, <3>1, ManifestFields DEF nextEpoch
  <2>4. /\ selected' = target /\ manifest' = published /\ slot' = slot
        /\ told' = reference /\ pc' = "post" /\ opening' = opening
        /\ poisoned' = poisoned /\ ~poisoned
    BY <1>0, <2>2 DEF SyncRoot, Handle
  <2> QED BY <2>1, <2>2, <2>3, <2>4
          DEF Handle, Committing, Before, Holding, valid
<1>6. Staged'
  BY <1>0 DEF Staged, SyncRoot, Before, Committing, Holding, Handle,
       nextSequence, nextEpoch, parent, reference, target, fs, disk, handle,
       history
<1>7. Reported'

  <2>1. /\ target \in Slots /\ other(target) \in Slots
        /\ published \in Manifest /\ valid(published)
        /\ published.current = reference /\ published.epoch = nextEpoch
        /\ reference.generation = nextSequence /\ nextEpoch = nextSequence
        /\ manifest \in Manifest \cup {None}
        /\ manifest # None => selected = other(target)
    BY CommitFacts, OtherSlot DEF SyncRoot, Committing
  <2>2. /\ slot[target] = published
        /\ manifest # None => slot[selected] = manifest
        /\ manifest = None => slot[other(target)] = None
    BY <1>0 DEF Staged, SyncRoot, published
  <2>3. ASSUME valid(slot[other(target)])
        PROVE  slot[other(target)].epoch < nextEpoch
    <3>1. manifest # None /\ slot[other(target)] = manifest
      BY <2>1, <2>2, <2>3 DEF valid
    <3> QED BY <2>1, <3>1, ManifestFields DEF nextEpoch
  <2>4. slot' = slot /\ slotDisk' = slot /\ told' = reference
    BY DEF SyncRoot
  <2>5. current(slot, reference, doubt')
    BY <2>1, <2>2, <2>3 DEF current
  <2>6. ASSUME reference.generation # 1
        PROVE  \A s \in Slots : slot[s] # None
    <3>1. manifest # None
      BY <2>1, <2>6 DEF nextSequence
    <3> QED BY <2>1, <2>2, <3>1, OtherSlot DEF valid
  <2> QED BY <2>4, <2>5, <2>6 DEF Reported
<1>8. Defects'
  BY <1>0 DEF Defects, SyncRoot, fs, disk, handle, history
<1>9. Layout'
  BY <1>0 DEF Layout, SyncRoot, TypeOK, Handle, Staged, fs, disk, handle,
       history
<1>10. Answered'
  BY <1>0 DEF Answered, SyncRoot, RefusedOnlyFor, Refusals, fs, disk, handle,
       history
<1> QED BY <1>1, <1>2, <1>3, <1>4, <1>5, <1>6, <1>7, <1>8, <1>9, <1>10
           DEF StoreInv

LEMMA SyncRootFailsKeeps == ASSUME StoreInv, SyncRootFails PROVE StoreInv'
<1>0. TypeOK /\ Images /\ References /\ Synced /\ Handle /\ Staged
      /\ Reported /\ Defects /\ Layout /\ Answered
  BY DEF StoreInv
<1>1. TypeOK'
  BY <1>0 DEF TypeOK, SyncRootFails, Staged, Handle, Steps, Outcomes, finish,
       fs, disk, handle, history
<1>2. Images'
  BY <1>0 DEF Images, SyncRootFails, finish, fs, disk, handle, history
<1>3. References'
  BY <1>0 DEF References, SyncRootFails, finish, fs, disk, handle, history
<1>4. Synced'
  BY <1>0 DEF Synced, SyncRootFails, Handle, Before, Committing, Holding,
       finish, fs, disk, handle, history
<1>5. Handle'
  BY <1>0 DEF Handle, SyncRootFails, Before, Committing, Holding, Synced,
       finish, fs, disk, handle, history
<1>6. Staged'
  BY <1>0 DEF Staged, SyncRootFails, Before, Committing, Holding, Handle,
       nextSequence, nextEpoch, parent, reference, target, finish, fs, disk,
       handle, history
<1>7. Reported'
  BY <1>0 DEF Reported, SyncRootFails, finish, fs, disk, handle, history
<1>8. Defects'
  BY <1>0 DEF Defects, SyncRootFails, finish, fs, disk, handle, history
<1>9. Layout'
  BY <1>0 DEF Layout, SyncRootFails, TypeOK, Handle, Staged, finish, fs, disk,
       handle, history
<1>10. Answered'
  BY <1>0 DEF Answered, SyncRootFails, RefusedOnlyFor, Refusals, finish, fs,
       disk, handle, history
<1> QED BY <1>1, <1>2, <1>3, <1>4, <1>5, <1>6, <1>7, <1>8, <1>9, <1>10
           DEF StoreInv

LEMMA CloseKeeps == ASSUME StoreInv, Close PROVE StoreInv'
<1>0. TypeOK /\ Images /\ References /\ Synced /\ Handle /\ Staged
      /\ Reported /\ Defects /\ Layout /\ Answered
  BY DEF StoreInv
<1>1. TypeOK'
  BY <1>0 DEF TypeOK, Close, Staged, Handle, Steps, Outcomes, fs, disk,
       handle, history
<1>2. Images'
  BY <1>0 DEF Images, Close, fs, disk, handle, history
<1>3. References'
  BY <1>0 DEF References, Close, fs, disk, handle, history
<1>4. Synced'
  BY <1>0 DEF Synced, Close, Handle, Before, Committing, Holding, fs, disk,
       handle, history
<1>5. Handle'
  BY <1>0 DEF Handle, Close, Before, Committing, Holding, Synced, fs, disk,
       handle, history
<1>6. Staged'
  BY <1>0 DEF Staged, Close, Before, Committing, Holding, Handle,
       nextSequence, nextEpoch, parent, reference, target, fs, disk, handle,
       history
<1>7. Reported'
  BY <1>0 DEF Reported, Close, fs, disk, handle, history
<1>8. Defects'
  BY <1>0 DEF Defects, Close, fs, disk, handle, history
<1>9. Layout'
  BY <1>0 DEF Layout, Close, TypeOK, Handle, Staged, fs, disk, handle, history
<1>10. Answered'
  BY <1>0 DEF Answered, Close, RefusedOnlyFor, Refusals, fs, disk, handle,
       history
<1> QED BY <1>1, <1>2, <1>3, <1>4, <1>5, <1>6, <1>7, <1>8, <1>9, <1>10
           DEF StoreInv

LEMMA CrashKeeps == ASSUME StoreInv, Crash PROVE StoreInv'
<1>0. TypeOK /\ Images /\ References /\ Synced /\ Handle /\ Staged
      /\ Reported /\ Defects /\ Layout /\ Answered
  BY DEF StoreInv
<1>1. TypeOK'

  <2>1. /\ slot' \in [Slots -> Manifest \cup {None, Damaged}]
        /\ slotDisk' \in [Slots -> Manifest \cup {None, Damaged}]
    BY CrashedImages, <1>0 DEF TypeOK
  <2>2. /\ gen' \in [Numbers -> Generation \cup {None, Damaged}]
        /\ genDisk' \in [Numbers -> Generation \cup {None, Damaged}]
    BY CrashedImages DEF Files
  <2>3. temps' \in Nat /\ tempsDisk' \in Nat
    BY <1>0, SlotTypes DEF Crash, crashImage
  <2>4. link' \in BOOLEAN /\ linkDisk' \in BOOLEAN
    BY <1>0, Zenon DEF TypeOK, Crash, crashImage
  <2>5. /\ layout' \in SUBSET {"root", "generations", "LOCK"}
        /\ layoutDisk' \in SUBSET {"root", "generations", "LOCK"}
    BY <1>0 DEF TypeOK, Crash, crashImage
  <2>6. pc' \in Steps /\ outcome' \in Outcomes
    BY DEF Crash, Steps, Outcomes
  <2> QED BY <1>0, <2>1, <2>2, <2>3, <2>4, <2>5, <2>6
          DEF TypeOK, Crash, history
<1>2. Images'

  BY <1>0, CrashedImages DEF Images
<1>3. References'

  <2>1. ASSUME NEW m \in Manifest, refsOK(m, gen, genDisk)
        PROVE  refsOK(m, gen', gen')
    <3>1. gen'[m.current.generation] = gen[m.current.generation]
      BY <2>1, CrashedImages, ManifestFields DEF refsOK
    <3>2. m.parent # None =>
            gen'[m.parent.generation] = gen[m.parent.generation]
      BY <2>1, CrashedImages, ManifestFields DEF refsOK
    <3> QED BY <2>1, <3>1, <3>2 DEF refsOK
  <2>2. ASSUME NEW s \in Slots, valid(slot'[s])
        PROVE  refsOK(slot'[s], gen', gen')
    <3>1. CASE slot' = slot
      BY <1>0, <2>1, <2>2, <3>1, SlotTypes, ValidSlot DEF References
    <3>2. CASE slot' = slotDisk
      BY <1>0, <2>1, <2>2, <3>2, SlotTypes, ValidSlot DEF References
    <3> QED BY <3>1, <3>2, CrashedImages
  <2>3. slotDisk' = slot' /\ genDisk' = gen'
    BY CrashedImages
  <2> QED BY <2>2, <2>3 DEF References
<1>4. Synced'
  BY <1>0 DEF Synced, Crash, Handle, Before, Committing, Holding, fs, disk,
       handle, history
<1>5. Handle'
  BY <1>0 DEF Handle, Crash, Before, Committing, Holding, Synced, fs, disk,
       handle, history
<1>6. Staged'
  BY <1>0 DEF Staged, Crash, Before, Committing, Holding, Handle,
       nextSequence, nextEpoch, parent, reference, target, fs, disk, handle,
       history
<1>7. Reported'

  <2>1. told' = told /\ doubt' = doubt /\ damage' = damage
    BY DEF Crash, history
  <2>2. slotDisk' = slot' /\ (slot' = slot \/ slot' = slotDisk)
    BY CrashedImages
  <2> QED BY <1>0, <2>1, <2>2 DEF Reported
<1>8. Defects'

  <2>1. \A s \in Slots : slot'[s] = Damaged \/ slotDisk'[s] = Damaged
                           => slot[s] = Damaged \/ slotDisk[s] = Damaged
    BY CrashedImages
  <2>2. \A n \in Numbers : gen'[n] = Damaged \/ genDisk'[n] = Damaged
                             => gen[n] = Damaged \/ genDisk[n] = Damaged
    BY CrashedImages, AbsentAssumption
  <2>3. damage' = damage
    BY DEF Crash
  <2> QED BY <1>0, <2>1, <2>2, <2>3, OtherSlot DEF Defects
<1>9. Layout'

  <2>1. CASE layout = Full /\ layoutDisk = Full
    <3>1. layout' = Full /\ layoutDisk' = Full
      BY <2>1 DEF Crash, crashImage
    <3> QED BY <3>1 DEF Layout
  <2>2. CASE ~(layout = Full /\ layoutDisk = Full)
    <3>1. /\ pc \in {"closed", "bootstrap"}
          /\ temps = 0 /\ tempsDisk = 0 /\ ~link /\ ~linkDisk
          /\ \A s \in Slots : slot[s] = None /\ slotDisk[s] = None
          /\ \A n \in Numbers : gen[n] = None /\ genDisk[n] = None
      BY <1>0, <2>2 DEF Layout
    <3>2. \A s \in Slots : slot'[s] = None /\ slotDisk'[s] = None
      BY <3>1, CrashedImages
    <3>3. \A n \in Numbers : gen'[n] = None /\ genDisk'[n] = None
      BY <3>1, CrashedImages
    <3>4. temps' = 0 /\ tempsDisk' = 0 /\ pc' = "closed"
      BY <3>1 DEF Crash, crashImage
    <3>5. link' = FALSE /\ linkDisk' = FALSE
      <4>1. link = FALSE /\ linkDisk = FALSE
        BY <3>1
      <4>2. (pc = "probing") = FALSE
        BY <3>1
      <4> QED BY <4>1, <4>2, Zenon DEF Crash, crashImage
    <3> QED BY <3>2, <3>3, <3>4, <3>5 DEF Layout
  <2> QED BY <2>1, <2>2
<1>10. Answered'
  BY <1>0 DEF Answered, Crash, RefusedOnlyFor, Refusals, fs, disk, handle,
       history
<1> QED BY <1>1, <1>2, <1>3, <1>4, <1>5, <1>6, <1>7, <1>8, <1>9, <1>10
           DEF StoreInv

LEMMA DamageKeeps == ASSUME StoreInv, Damage PROVE StoreInv'
<1>0. TypeOK /\ Images /\ References /\ Synced /\ Handle /\ Staged
      /\ Reported /\ Defects /\ Layout /\ Answered
  BY DEF StoreInv
<1>1. TypeOK'

  <2>1. /\ slot' \in [Slots -> Manifest \cup {None, Damaged}]
        /\ slotDisk' \in [Slots -> Manifest \cup {None, Damaged}]
    BY <1>0 DEF TypeOK, Damage
  <2>2. /\ gen' \in [Numbers -> Generation \cup {None, Damaged}]
        /\ genDisk' \in [Numbers -> Generation \cup {None, Damaged}]
    BY <1>0 DEF TypeOK, Damage
  <2>3. damage' \in 0..MaxDamage
    BY <1>0, StoreAssumption DEF TypeOK, Damage
  <2> QED BY <1>0, <2>1, <2>2, <2>3 DEF TypeOK, Damage, handle, history
<1>2. Images'

  <2>1. CASE /\ \E s \in validSlots(slot) : slot' = [slot EXCEPT ![s] = Damaged]
             /\ slotDisk' = slot' /\ gen' = gen /\ genDisk' = genDisk
    <3>1. PICK s \in validSlots(slot) : slot' = [slot EXCEPT ![s] = Damaged]
      BY <2>1
    <3>2. /\ s \in Slots /\ valid(slot[s]) /\ slot \in SlotImage
          /\ other(s) \in Slots /\ other(s) # s
      BY <1>0, SlotTypes, OtherSlot DEF validSlots, valid
    <3>3. slot'[s] = Damaged /\ slot'[other(s)] = slot[other(s)]
      BY <3>1, <3>2 DEF SlotImage
    <3>4. imageOK(slot')
      <4>1. ~valid(slot'[s]) /\ slot'[s] # None
        BY <3>3, AbsentAssumption DEF valid
      <4>2. valid(slot[other(s)]) => wellFormed(slot[other(s)])
        BY <1>0, <3>2 DEF Images, imageOK
      <4> QED BY <3>2, <3>3, <4>1, <4>2, ImageFromSlots
    <3> QED BY <2>1, <3>4 DEF Images
  <2>2. CASE /\ \E n \in generationEntries : gen' = [gen EXCEPT ![n] = Damaged]
             /\ genDisk' = gen' /\ slot' = slot /\ slotDisk' = slotDisk
    BY <1>0, <2>2 DEF Images
  <2> QED BY <2>1, <2>2 DEF Damage
<1>3. References'

  <2>1. CASE /\ \E s \in validSlots(slot) : slot' = [slot EXCEPT ![s] = Damaged]
             /\ slotDisk' = slot' /\ gen' = gen /\ genDisk' = genDisk
    <3>1. PICK s \in validSlots(slot) : slot' = [slot EXCEPT ![s] = Damaged]
      BY <2>1
    <3>2. /\ s \in Slots /\ valid(slot[s]) /\ slot \in SlotImage
          /\ other(s) \in Slots /\ other(s) # s
      BY <1>0, SlotTypes, OtherSlot DEF validSlots, valid
    <3>3. slot'[s] = Damaged /\ slot'[other(s)] = slot[other(s)]
      BY <3>1, <3>2 DEF SlotImage
    <3>4. ASSUME NEW t \in Slots, valid(slot'[t])
          PROVE  t = other(s) /\ slot'[t] = slot[t]
      BY <3>2, <3>3, <3>4, OtherSlot DEF valid
    <3> QED BY <1>0, <2>1, <3>4 DEF References
  <2>2. CASE /\ \E n \in generationEntries : gen' = [gen EXCEPT ![n] = Damaged]
             /\ genDisk' = gen' /\ slot' = slot /\ slotDisk' = slotDisk
    <3>1. PICK n \in generationEntries : gen' = [gen EXCEPT ![n] = Damaged]
      BY <2>2
    <3>2. n \in Numbers /\ gen \in Files
      BY <1>0, SlotTypes DEF generationEntries
    <3>3. gen'[n] = Damaged /\ \A k \in Numbers : k # n => gen'[k] = gen[k]
      BY <3>1, <3>2 DEF Files
    <3>4. ASSUME NEW m \in Manifest, refsOK(m, gen, genDisk)
          PROVE  refsOK(m, gen', gen')
      <4>1. currentFile(m, gen'[m.current.generation])
        BY <3>3, <3>4, ManifestFields DEF refsOK, currentFile
      <4>2. m.parent # None => parentFile(m, gen'[m.parent.generation])
        BY <3>3, <3>4, ManifestFields DEF refsOK, parentFile
      <4> QED BY <4>1, <4>2 DEF refsOK
    <3> QED BY <1>0, <2>2, <3>4, SlotTypes, ValidSlot DEF References
  <2> QED BY <2>1, <2>2 DEF Damage
<1>4. Synced'
  BY <1>0 DEF Synced, Damage, Handle, Before, Committing, Holding, fs, disk,
       handle, history
<1>5. Handle'
  BY <1>0 DEF Handle, Damage, Before, Committing, Holding, Synced, fs, disk,
       handle, history
<1>6. Staged'
  BY <1>0 DEF Staged, Damage, Before, Committing, Holding, Handle,
       nextSequence, nextEpoch, parent, reference, target, fs, disk, handle,
       history
<1>7. Reported'

  <2>1. damage' # 0 /\ told' = told
    BY <1>0, SlotTypes DEF Damage, history
  <2>2. CASE /\ \E s \in validSlots(slot) : slot' = [slot EXCEPT ![s] = Damaged]
             /\ slotDisk' = slot' /\ gen' = gen /\ genDisk' = genDisk
    <3>1. PICK s \in validSlots(slot) : slot' = [slot EXCEPT ![s] = Damaged]
      BY <2>2
    <3>2. /\ s \in Slots /\ valid(slot[s]) /\ slot \in SlotImage
          /\ other(s) \in Slots /\ other(s) # s
      BY <1>0, SlotTypes, OtherSlot DEF validSlots, valid
    <3>3. slot'[s] = Damaged /\ slot'[other(s)] = slot[other(s)]
      BY <3>1, <3>2 DEF SlotImage
    <3>4. ASSUME told # None, told.generation # 1
          PROVE  \A t \in Slots : slot'[t] # None
      BY <1>0, <3>2, <3>3, <3>4, OtherSlot, AbsentAssumption DEF Reported
    <3> QED BY <2>1, <2>2, <3>4 DEF Reported
  <2>3. CASE /\ \E n \in generationEntries : gen' = [gen EXCEPT ![n] = Damaged]
             /\ genDisk' = gen' /\ slot' = slot /\ slotDisk' = slotDisk
    BY <1>0, <2>1, <2>3 DEF Reported
  <2> QED BY <2>2, <2>3 DEF Damage
<1>8. Defects'

  <2>1. damage \in Nat /\ damage' = damage + 1
    BY <1>0, SlotTypes DEF Damage
  <2>2. CASE /\ \E s \in validSlots(slot) : slot' = [slot EXCEPT ![s] = Damaged]
             /\ slotDisk' = slot' /\ gen' = gen /\ genDisk' = genDisk
    <3>1. PICK s \in validSlots(slot) : slot' = [slot EXCEPT ![s] = Damaged]
      BY <2>2
    <3>2. /\ s \in Slots /\ valid(slot[s]) /\ slot \in SlotImage
          /\ other(s) \in Slots /\ other(s) # s
      BY <1>0, SlotTypes, OtherSlot DEF validSlots, valid
    <3>3. slot'[s] = Damaged /\ slot'[other(s)] = slot[other(s)]
      BY <3>1, <3>2 DEF SlotImage
    <3>4. ASSUME damage = 0
          PROVE  /\ slot'[other(s)] # Damaged /\ slotDisk'[other(s)] # Damaged
                 /\ \A n \in Numbers : gen'[n] # Damaged /\ genDisk'[n] # Damaged
      BY <1>0, <2>2, <3>2, <3>3, <3>4 DEF Defects
    <3> QED BY <2>1, <2>2, <3>2, <3>3, <3>4, OtherSlot DEF Defects
  <2>3. CASE /\ \E n \in generationEntries : gen' = [gen EXCEPT ![n] = Damaged]
             /\ genDisk' = gen' /\ slot' = slot /\ slotDisk' = slotDisk
    <3>1. PICK n \in generationEntries : gen' = [gen EXCEPT ![n] = Damaged]
      BY <2>3
    <3>2. n \in Numbers /\ gen \in Files
      BY <1>0, SlotTypes DEF generationEntries
    <3>3. gen'[n] = Damaged /\ \A k \in Numbers : k # n => gen'[k] = gen[k]
      BY <3>1, <3>2 DEF Files
    <3>4. ASSUME damage = 0
          PROVE  /\ \A s \in Slots : slot'[s] # Damaged /\ slotDisk'[s] # Damaged
                 /\ \A k \in Numbers : gen'[k] = Damaged \/ genDisk'[k] = Damaged
                                         => k = n
      BY <1>0, <2>3, <3>2, <3>3, <3>4 DEF Defects
    <3> QED BY <2>1, <2>3, <3>2, <3>4 DEF Defects
  <2> QED BY <2>2, <2>3 DEF Damage
<1>9. Layout'

  <2>1. layout = Full /\ layoutDisk = Full
    BY <1>0 DEF Layout, Damage, validSlots, generationEntries
  <2> QED BY <2>1 DEF Layout, Damage
<1>10. Answered'

  <2>1. damage' # 0 /\ pc' = "closed"
    BY <1>0, SlotTypes DEF Damage
  <2> QED BY <2>1 DEF Answered, RefusedOnlyFor
<1> QED BY <1>1, <1>2, <1>3, <1>4, <1>5, <1>6, <1>7, <1>8, <1>9, <1>10
           DEF StoreInv

LEMMA InitInv == Init => StoreInv
<1> SUFFICES ASSUME Init PROVE StoreInv
  OBVIOUS
<1>1. TypeOK
  <2>1. /\ slot \in [Slots -> Manifest \cup {None, Damaged}]
        /\ slotDisk \in [Slots -> Manifest \cup {None, Damaged}]
        /\ gen \in [Numbers -> Generation \cup {None, Damaged}]
        /\ genDisk \in [Numbers -> Generation \cup {None, Damaged}]
    BY DEF Init
  <2>2. /\ temps \in Nat /\ tempsDisk \in Nat
        /\ layout \in SUBSET {"root", "generations", "LOCK"}
        /\ layoutDisk \in SUBSET {"root", "generations", "LOCK"}
        /\ pc \in Steps /\ outcome \in Outcomes
    BY DEF Init, Steps, Outcomes
  <2>3. /\ pending \in State /\ damage \in 0..MaxDamage
        /\ told \in Reference \cup {None} /\ doubt \in Reference \cup {None}
        /\ selected \in Slots \cup {None} /\ manifest \in Manifest \cup {None}
    BY StoreAssumption DEF Init
  <2>4. /\ link \in BOOLEAN /\ linkDisk \in BOOLEAN /\ opening \in BOOLEAN
        /\ removed \in BOOLEAN /\ poisoned \in BOOLEAN
    BY Zenon DEF Init
  <2> QED BY <2>1, <2>2, <2>3, <2>4 DEF TypeOK
<1>2. \A s \in Slots : slot[s] = None /\ slotDisk[s] = None
  BY DEF Init
<1>3. \A n \in Numbers : gen[n] = None /\ genDisk[n] = None
  BY DEF Init
<1>4. Images
  BY <1>2 DEF Images, imageOK, valid, Slots
<1>5. References
  BY <1>2 DEF References, valid
<1>6. Synced /\ Handle /\ Staged
  BY DEF Init, Synced, Handle, Staged, Holding, Committing, Before
<1>7. Reported
  BY DEF Init, Reported
<1>8. Defects
  BY <1>2, <1>3, AbsentAssumption DEF Init, Defects
<1>9. Layout
  BY <1>2, <1>3 DEF Init, Layout
<1>10. Answered
  BY DEF Init, Answered, RefusedOnlyFor
<1> QED BY <1>1, <1>4, <1>5, <1>6, <1>7, <1>8, <1>9, <1>10 DEF StoreInv

LEMMA SameInv == ASSUME StoreInv, UNCHANGED vars PROVE StoreInv'
<1>1. UNCHANGED <<slot, slotDisk, gen, genDisk, temps, tempsDisk, link, linkDisk,
                  layout, layoutDisk, pc, opening, removed, poisoned, selected,
                  manifest, pending, outcome, told, doubt, damage>>
  BY DEF vars, fs, disk, handle, history
<1>2. (TypeOK /\ Images /\ References /\ Synced /\ Reported /\ Defects)'
  BY <1>1 DEF StoreInv, TypeOK, Images, References, Synced, Reported, Defects
<1>3. (Handle /\ Layout)'
  BY <1>1 DEF StoreInv, Handle, Layout
<1>4. Staged'
  BY <1>1 DEF StoreInv, Staged, nextSequence, nextEpoch, parent, reference,
              target
<1>5. Answered'
  BY <1>1, SameBound DEF StoreInv, Answered, RefusedOnlyFor
<1> QED BY <1>2, <1>3, <1>4, <1>5 DEF StoreInv

LEMMA NextInv == ASSUME StoreInv, Next PROVE StoreInv'
<1>1. CASE \/ Open \/ BootstrapCreate \/ BootstrapSyncParent
           \/ BootstrapSyncRoot \/ BootstrapFails
  BY <1>1, OpenKeeps, BootstrapCreateKeeps, BootstrapSyncParentKeeps,
     BootstrapSyncRootKeeps, BootstrapFailsKeeps
<1>2. CASE \/ ProbeCreate \/ ProbeClean \/ ProbeFails \/ LayoutRejected
           \/ OpenEmpty \/ OpenCurrent \/ OpenRefused
  BY <1>2, ProbeCreateKeeps, ProbeCleanKeeps, ProbeFailsKeeps,
     LayoutRejectedKeeps, OpenEmptyKeeps, OpenCurrentKeeps, OpenRefusedKeeps
<1>3. CASE \/ BeginCommit \/ MaintenanceRemove \/ MaintenanceDone
           \/ MaintenanceFails
  BY <1>3, BeginCommitKeeps, MaintenanceRemoveKeeps, MaintenanceDoneKeeps,
     MaintenanceFailsKeeps
<1>4. CASE \/ WriteTemporary \/ RenameGeneration \/ SyncGenerations
           \/ RenameManifest \/ PublishFails \/ SyncRoot \/ SyncRootFails
  BY <1>4, WriteTemporaryKeeps, RenameGenerationKeeps, SyncGenerationsKeeps,
     RenameManifestKeeps, PublishFailsKeeps, SyncRootKeeps, SyncRootFailsKeeps
<1>5. CASE Close \/ Crash \/ Damage
  BY <1>5, CloseKeeps, CrashKeeps, DamageKeeps
<1> QED BY <1>1, <1>2, <1>3, <1>4, <1>5 DEF Next

-----------------------------------------------------------------------------
(* What the invariant says.                                                 *)

LEMMA SlotsLoad == StoreInv => EverySlotLoads
<1> SUFFICES ASSUME StoreInv, damage = 0, NEW s \in validSlots(slot)
             PROVE  /\ loadCurrentGeneration(slot[s], gen)
                    /\ slot[s].parent # None => classifyRecovery(slot[s], gen)
  BY DEF EverySlotLoads
<1>1. /\ s \in Slots /\ valid(slot[s])
      /\ slot[s] \in Manifest /\ gen \in Files
  BY SlotTypes, ValidSlot DEF StoreInv, validSlots, valid
<1>2. wellFormed(slot[s]) /\ refsOK(slot[s], gen, genDisk)
  BY <1>1 DEF StoreInv, Images, imageOK, References
<1>3. /\ gen[slot[s].current.generation] # Damaged
      /\ slot[s].parent # None => gen[slot[s].parent.generation] # Damaged
  BY <1>1, ManifestFields DEF StoreInv, Defects
<1> QED BY <1>1, <1>2, <1>3, CurrentLoads, ParentRecoverable

LEMMA HandleSelected == StoreInv => HandleIsSelected
<1> SUFFICES ASSUME StoreInv PROVE HandleIsSelected
  OBVIOUS
<1>1. slot \in SlotImage /\ imageOK(slot) /\ manifest \in Manifest \cup {None}
  BY SlotTypes DEF StoreInv, Images, TypeOK
<1>2. ASSUME pc = "idle", ~poisoned
      PROVE  selectManifestSlots(slot) = {selected} /\ slot[selected] = manifest
  <2>1. /\ manifest # None /\ selected \in Slots /\ slot[selected] = manifest
        /\ valid(slot[other(selected)])
             => slot[other(selected)].epoch < manifest.epoch
    BY <1>2 DEF StoreInv, Handle, Holding, Committing, Before
  <2>2. valid(slot[selected])
    BY <1>1, <2>1, AbsentAssumption DEF valid
  <2> QED BY <1>1, <2>1, <2>2, SelectedOnly
<1> QED BY <1>1, <1>2, Unambiguous DEF HandleIsSelected

LEMMA ReportedSurvives == StoreInv => CommittedSurvives
<1> SUFFICES ASSUME StoreInv PROVE CommittedSurvives
  OBVIOUS
<1>1. /\ slot \in SlotImage /\ imageOK(slot) /\ gen \in Files
      /\ damage \in Nat /\ told \in Reference \cup {None}
  BY SlotTypes DEF StoreInv, Images, TypeOK
<1>2. ASSUME damage = 0, told # None
      PROVE  \E s \in selectManifestSlots(slot) :
                 /\ loadCurrentGeneration(slot[s], gen)
                 /\ slot[s].current \in {told, doubt}
  <2>1. PICK s \in Slots :
          /\ valid(slot[s]) /\ slot[s].current \in {told, doubt}
          /\ valid(slot[other(s)]) => slot[other(s)].epoch < slot[s].epoch
    BY <1>2 DEF StoreInv, Reported, current
  <2>2. s \in selectManifestSlots(slot) /\ s \in validSlots(slot)
    BY <1>1, <2>1, SelectedOnly DEF validSlots, valid
  <2> QED BY <1>2, <2>1, <2>2, SlotsLoad DEF EverySlotLoads
<1>3. ASSUME damage <= 1, told # None, told.generation > 1
      PROVE  \E s \in selectManifestSlots(slot) : usable(s)
  <2>1. damage = 0 \/ damage = 1
    BY <1>1, <1>3
  <2>2. told.generation # 1
    BY <1>1, <1>3, NumbersNat DEF Reference
  <2>3. \A s \in Slots : slot[s] # None
    BY <1>3, <2>2 DEF StoreInv, Reported
  <2>4. \A s \in Slots : slot[s] = Damaged => slot[other(s)] # Damaged
    BY <2>1 DEF StoreInv, Defects
  <2>5. PICK v \in Slots : valid(slot[v])
    <3>1. "A" \in Slots /\ other("A") \in Slots
      BY DEF Slots, other
    <3> QED BY <2>3, <2>4, <3>1 DEF valid
  <2>6. PICK s \in Slots : s \in selectManifestSlots(slot)
    BY <1>1, <2>5, SelectedExists
  <2>7. /\ valid(slot[s]) /\ slot[s] \in Manifest
        /\ valid(slot[other(s)]) => slot[other(s)].epoch < slot[s].epoch
    BY <1>1, <2>6, SelectedSlot, ValidSlot
  <2>8. wellFormed(slot[s]) /\ refsOK(slot[s], gen, genDisk)
    BY <2>7 DEF StoreInv, Images, imageOK, References
  <2>9. CASE gen[slot[s].current.generation] # Damaged
    BY <1>1, <2>6, <2>7, <2>8, <2>9, CurrentLoads DEF usable
  <2>10. CASE gen[slot[s].current.generation] = Damaged
    <3>1. slot[s].current.generation \in Numbers
      BY <2>7, ManifestFields
    <3>2. slot[other(s)] # Damaged
      BY <2>1, <2>10, <3>1, OtherSlot DEF StoreInv, Defects
    <3>3. valid(slot[other(s)]) /\ slot[other(s)] \in Manifest
      BY <1>1, <2>3, <3>2, OtherSlot, ValidSlot DEF valid
    <3>4. slot[s].epoch # 1
      <4>1. /\ slot[s].epoch \in Nat /\ slot[other(s)].epoch \in Nat
            /\ slot[other(s)].epoch >= 1
        BY <2>7, <3>3, ManifestFields, NumbersNat
      <4> QED BY <4>1, <2>7, <3>3
    <3>5. /\ slot[s].parent # None
          /\ slot[s].parent.generation + 1 = slot[s].current.generation
      BY <2>8, <3>4 DEF wellFormed
    <3>6. /\ slot[s].parent.generation \in Numbers
          /\ slot[s].parent.generation # slot[s].current.generation
      BY <2>7, <3>5, ManifestFields
    <3>7. gen[slot[s].parent.generation] # Damaged
      BY <2>1, <2>10, <3>1, <3>6 DEF StoreInv, Defects
    <3>8. classifyRecovery(slot[s], gen)
      BY <1>1, <2>7, <2>8, <3>5, <3>7, ParentRecoverable
    <3> QED BY <2>6, <3>8 DEF usable
  <2> QED BY <2>9, <2>10
<1> QED BY <1>2, <1>3 DEF CommittedSurvives

-----------------------------------------------------------------------------
(* Theorems.                                                                *)

\* The variables of the store keep their types.
THEOREM StoreTypes == Spec => []TypeOK
<1>1. StoreInv => TypeOK
  BY DEF StoreInv
<1> QED BY <1>1, InitInv, NextInv, SameInv, PTL DEF Spec

\* What commit or openStore has reported as current is what the next open
\* finds, after any failures and crashes, or else the one publication under
\* way; and one damaged file leaves a store that published twice usable.
THEOREM CommittedStateSurvives == Spec => []CommittedSurvives
  BY InitInv, NextInv, SameInv, ReportedSurvives, PTL DEF Spec

\* Maintenance never unlinks what a slot, selected or not, still names: the
\* generation that loadCurrentGeneration reads and the parent that
\* classifyRecovery offers.
THEOREM MaintenanceSparesSlots == Spec => []EverySlotLoads
  BY InitInv, NextInv, SameInv, SlotsLoad, PTL DEF Spec

\* A handle that may commit is what a reopen would select, and
\* selectManifestSlots never meets two slots of one epoch; both after any
\* number of damaged files.
THEOREM HandleStaysSelected == Spec => []HandleIsSelected
  BY InitInv, NextInv, SameInv, HandleSelected, PTL DEF Spec

\* As long as nothing is damaged, openStore refuses a store only because its
\* first publication was interrupted or a probe or earlier opens left their
\* artifacts.
THEOREM OpenRefusedOnlyFor == Spec => []RefusedOnlyFor
<1>1. StoreInv => RefusedOnlyFor
  BY DEF StoreInv, Answered
<1> QED BY <1>1, InitInv, NextInv, SameInv, PTL DEF Spec

=============================================================================
