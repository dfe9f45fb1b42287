------------------------------- MODULE AbFlow -------------------------------
(***************************************************************************)
(* The A/B boot of the MStar U-Boot: avb_verify_boot_start() runs          *)
(* avb_ab_flow() on the slot metadata in "misc", then the boot state check *)
(* hands over to the OS or halts.  The metadata is also changed by         *)
(* fastboot "set_active" and by the OS through the avb_ab_mark_slot_*()    *)
(* functions.  Every persistent write is a step of its own, power may fail *)
(* before, in or after it, and every I/O call may fail.  A write may also  *)
(* fail unnoticed: 32 bytes are less than a sector, and "mmc write" does   *)
(* not look at the result of writing a last, partial sector (RawIo).       *)
(*                                                                         *)
(* The two errors AVB_IO_RESULT_ERROR_OOM and _ERROR_IO are one error "IO".*)
(***************************************************************************)
EXTENDS AbData, SlotVerify

CONSTANTS
  ClassB,      \* CONFIG_ANDROID_SECURE_BOOT_CLASS_B: unlocked devices may boot
  Undefined    \* the content of a local that was never assigned

ASSUME ClassBAssumption == ClassB \in BOOLEAN
ASSUME UndefinedAssumption == Undefined \notin AvbABData /\ Undefined # Invalid

VARIABLES
  misc,          \* the metadata block on the misc partition
  image,         \* what each slot's partitions hold
  pc,            \* where the device is
  call,          \* which function is using load_metadata()
  ab_data,       \* its local copy of the metadata ...
  ab_data_orig,  \* ... and the copy as it was read
  slot,          \* slot_index_to_boot; while running, the booted slot
  n,             \* the attempt of the verification loop
  allow,         \* flags & AVB_SLOT_VERIFY_FLAGS_ALLOW_VERIFICATION_ERROR
  saw,           \* saw_and_allowed_verification_error
  loc,           \* the rollback index location being updated
  ret,           \* the result of the call
  lost,          \* history: a write of this call failed, and nothing reports it
  handoffs       \* history: boots of a slot since it was last granted tries
                 \*   or confirmed, but for those whose save failed unnoticed

flowVars == <<ab_data, ab_data_orig, n, allow, saw, loc>>
vars == <<rpmbVars, misc, image, pc, call, flowVars, slot, ret, lost, handoffs>>

OKs == {"OK", "OK_WITH_VERIFICATION_ERROR"}
Callers == {"flow", "active", "unbootable", "successful"}
Calls == [op : Callers, slot : Slots, back : {"menu", "running"}]

TypeOK ==
  /\ RpmbTypeOK
  /\ misc \in AvbABData \cup {Invalid}
  /\ image \in [Slots -> Images]
  /\ pc \in {"menu", "load", "select", "verify", "rollback", "save",
             "handoff", "running", "halted"}
  /\ call \in Calls
  /\ ab_data \in AvbABData \cup {Undefined}
  /\ ab_data_orig \in AvbABData \cup {Undefined}
  /\ slot \in Slots
  /\ n \in 0..2
  /\ allow \in BOOLEAN
  /\ saw \in BOOLEAN
  /\ loc \in 0..NumLocations
  /\ ret \in {"OK", "OK_WITH_VERIFICATION_ERROR", "NO_BOOTABLE_SLOTS", "IO"}
  /\ lost \in BOOLEAN
  /\ handoffs \in [Slots -> 0..MaxTries]

\* The locals outside any call.
Locals == ab_data = Undefined /\ ab_data_orig = Undefined /\ n = 0
          /\ allow = FALSE /\ saw = FALSE /\ loc = 0
Forget == /\ ab_data' = Undefined /\ ab_data_orig' = Undefined /\ n' = 0
          /\ allow' = FALSE /\ saw' = FALSE /\ loc' = 0

FlowCall == [op |-> "flow", slot |-> 0, back |-> "menu"]

\* A factory-fresh device: verified images, no metadata written yet, a
\* provisioned lock state.
Init ==
  /\ misc = Invalid
  /\ image \in [Slots -> [state : {"good"}, index : [Locations -> Indexes]]]
  /\ rpmb \in {[Blank EXCEPT !.device_state = st] : st \in {Unlock, Lock}}
  /\ ColdCache
  /\ pc = "menu"
  /\ call = FlowCall
  /\ Locals
  /\ slot = 0
  /\ ret = "OK"
  /\ lost = FALSE
  /\ handoffs = [s \in Slots |-> 0]
-----------------------------------------------------------------------------
(***************************************************************************)
(* load_metadata() and avb_ab_data_read()                                  *)
(***************************************************************************)

\* What the caller does to the normalised metadata before it saves; the boot
\* flow goes through its selection steps first.
Edited(d) ==
  CASE call.op = "active" -> MarkActive(d, call.slot)
    [] call.op = "unbootable" -> Disable(d, call.slot)
    [] call.op = "successful" -> MarkSuccessful(d, call.slot)
    [] call.op = "flow" -> d

Loads(d) ==
  /\ ab_data' = Edited(Normalize(d))
  /\ ab_data_orig' = d
  /\ pc' = IF call.op = "flow" THEN "select" ELSE "save"
  /\ UNCHANGED <<rpmbVars, image, call, slot, n, allow, saw, loc, ret>>

\* A failed load: the boot flow still runs its "out:" path on locals that
\* were never assigned, the mark functions return at once.
LoadFails(d) ==
  /\ ret' = "IO"
  /\ IF call.op = "flow"
     THEN /\ pc' = "save"
          /\ ab_data' = d /\ ab_data_orig' = Undefined
          /\ UNCHANGED <<n, allow, saw, loc>>
     ELSE pc' = call.back /\ Forget
  /\ UNCHANGED <<rpmbVars, image, call, slot, lost>>

\* Both slots start afresh.
GrantAll == handoffs' = [s \in Slots |-> 0]

LoadValid ==
  /\ pc = "load" /\ misc # Invalid
  /\ Loads(misc)
  /\ UNCHANGED <<misc, lost, handoffs>>

\* Unusable metadata is replaced by avb_ab_data_init() on the partition.
LoadResets ==
  /\ pc = "load" /\ misc = Invalid
  /\ misc' = avb_ab_data_init
  /\ GrantAll
  /\ Loads(avb_ab_data_init)
  /\ UNCHANGED lost

\* The replacing write fails unnoticed: the call works on metadata the
\* partition does not have.
LoadResetLost ==
  /\ pc = "load" /\ misc = Invalid
  /\ lost' = TRUE
  /\ GrantAll
  /\ Loads(avb_ab_data_init)
  /\ UNCHANGED misc

\* The replacing write reports an error, having taken effect or not.
LoadResetFails ==
  /\ pc = "load" /\ misc = Invalid
  /\ misc' \in {Invalid, avb_ab_data_init}
  /\ IF misc' = Invalid THEN UNCHANGED handoffs ELSE GrantAll
  /\ LoadFails(avb_ab_data_init)

LoadReadFails ==
  /\ pc = "load"
  /\ LoadFails(Undefined)
  /\ UNCHANGED <<misc, handoffs>>

Load == LoadValid \/ LoadResets \/ LoadResetLost \/ LoadResetFails \/ LoadReadFails
-----------------------------------------------------------------------------
(***************************************************************************)
(* save_metadata_if_changed()                                              *)
(***************************************************************************)

\* Mutant: only the priorities are compared.
MaySkipSave_Priorities ==
  ab_data_orig # Undefined =>
    \A s \in Slots : ab_data[s].priority = ab_data_orig[s].priority

\* avb_safe_memcmp() of locals that were never assigned may go either way.
MaySkipSave == ab_data_orig = Undefined \/ ab_data = ab_data_orig
MaySave == ab_data_orig = Undefined \/ ab_data # ab_data_orig

\* The block the write produces; unassigned memory does not have the magic.
SavedBlock == IF ab_data = Undefined THEN Invalid ELSE ab_data

\* The slots whose tries the saved block grants anew, or no longer counts.
Granted ==
  IF ab_data_orig = Undefined THEN Slots
  ELSE {s \in Slots : \/ call.op = "active" /\ s = call.slot
                      \/ ab_data[s].successful_boot}

Store(d) ==
  LET granted == IF d # Invalid /\ d = SavedBlock THEN Granted ELSE {} IN
  /\ misc' = d
  /\ handoffs' = [s \in Slots |-> IF s \in granted THEN 0 ELSE handoffs[s]]

Return(r) ==
  /\ ret' = r
  /\ pc' = IF call.op = "flow" THEN "handoff" ELSE call.back
  /\ Forget
  /\ UNCHANGED <<rpmbVars, image, call, slot>>

SaveSkips ==
  /\ pc = "save" /\ MaySkipSave
  /\ Return(ret)
  /\ UNCHANGED <<misc, lost, handoffs>>

SaveWrites ==
  /\ pc = "save" /\ MaySave
  /\ Store(SavedBlock)
  /\ lost' = FALSE
  /\ Return(ret)

\* The write fails unnoticed: the old block stays, or a torn one is left, and
\* the call returns what it would have returned.
SaveLoses ==
  /\ pc = "save" /\ MaySave
  /\ misc' \in {misc, Invalid}
  /\ lost' = (ret \in OKs)
  /\ Return(ret)
  /\ UNCHANGED handoffs

\* The write reports an error; the sector has the old, the new or no content.
SaveFails ==
  /\ pc = "save" /\ MaySave
  /\ \E d \in {misc, SavedBlock, Invalid} : Store(d)
  /\ lost' = FALSE
  /\ Return("IO")

Save == SaveSkips \/ SaveWrites \/ SaveLoses \/ SaveFails
-----------------------------------------------------------------------------
(***************************************************************************)
(* avb_verify_boot_start() and avb_ab_flow()                               *)
(***************************************************************************)

\* Loads the RPMB record, and once more for the flag argument of the flow.
StartBoot(ok0, ok) ==
  /\ pc = "menu"
  /\ cache' = Loaded(ok, rpmb, Loaded(ok0, rpmb, cache))
  /\ support' = ok
  /\ UNCHANGED rpmb
  /\ allow' = DeviceUnlocked(ok)
  /\ call' = FlowCall
  /\ ret' = "OK"
  /\ pc' = "load"
  /\ lost' = FALSE
  /\ UNCHANGED <<misc, image, ab_data, ab_data_orig, slot, n, saw, loc, handoffs>>

ToSave(r) ==
  /\ ret' = r
  /\ pc' = "save"

\* Mutant: slot 0 whenever it is bootable.
SelectSlot_First ==
  /\ pc = "select"
  /\ Bootables(ab_data) # {}
  /\ slot' = IF 0 \in Bootables(ab_data) THEN 0 ELSE 1
  /\ pc' = "verify"
  /\ UNCHANGED <<rpmbVars, misc, image, call, flowVars, ret, lost, handoffs>>

SelectSlot ==
  /\ pc = "select"
  /\ Bootables(ab_data) # {}
  /\ slot' = ActiveSlot(ab_data)
  /\ pc' = "verify"
  /\ UNCHANGED <<rpmbVars, misc, image, call, flowVars, ret, lost, handoffs>>

\* Mutant: starts over with fresh metadata.
SelectFindsNone_Resets ==
  /\ pc = "select"
  /\ Bootables(ab_data) = {}
  /\ ab_data' = avb_ab_data_init
  /\ ToSave("NO_BOOTABLE_SLOTS")
  /\ UNCHANGED <<rpmbVars, misc, image, call, ab_data_orig, n, allow, saw, loc,
                 slot, lost, handoffs>>

SelectFindsNone ==
  /\ pc = "select"
  /\ Bootables(ab_data) = {}
  /\ ToSave("NO_BOOTABLE_SLOTS")
  /\ UNCHANGED <<rpmbVars, misc, image, call, flowVars, slot, lost, handoffs>>

Verifying(r) ==
  /\ pc = "verify" /\ n < 2
  /\ slot_is_bootable(ab_data[slot])
  /\ CanReport(image[slot], allow, r)

\* The loop body does nothing for a slot that is not bootable.
VerifySkips ==
  /\ pc = "verify" /\ n < 2
  /\ ~slot_is_bootable(ab_data[slot])
  /\ n' = n + 1
  /\ UNCHANGED <<rpmbVars, misc, image, pc, call, ab_data, ab_data_orig, slot,
                 allow, saw, loc, ret, lost, handoffs>>

\* Mutant: an I/O error makes the slot unbootable.
VerifyFails_Disables ==
  /\ Verifying("IO")
  /\ ab_data' = Disable(ab_data, slot)
  /\ ToSave("IO")
  /\ UNCHANGED <<rpmbVars, misc, image, call, ab_data_orig, n, allow, saw, loc,
                 slot, lost, handoffs>>

VerifyFails ==
  /\ Verifying("IO")
  /\ ToSave("IO")
  /\ UNCHANGED <<rpmbVars, misc, image, call, flowVars, slot, lost, handoffs>>

\* The slot loads; append_options() reads the device state once more.
VerifyAccepts(r, ok) ==
  /\ Verifying(r)
  /\ HandsOut(r, allow)
  /\ saw' = (r = "REJECTED")
  /\ avb_load_info_from_rpmb(ok)
  /\ pc' = "rollback"
  /\ UNCHANGED <<misc, image, call, ab_data, ab_data_orig, slot, n, allow, loc,
                 ret, lost, handoffs>>

\* slot_set_unbootable(), and on the first attempt turn to the other slot.
VerifyRejects(r) ==
  /\ Verifying(r)
  /\ r # "IO" /\ ~HandsOut(r, allow)
  /\ ab_data' = Disable(ab_data, slot)
  /\ slot' = IF n = 0 THEN Other(slot) ELSE slot
  /\ n' = n + 1
  /\ UNCHANGED <<rpmbVars, misc, image, pc, call, ab_data_orig, allow, saw, loc,
                 ret, lost, handoffs>>

\* Both attempts over and no slot data.
VerifyFindsNone ==
  /\ pc = "verify" /\ n = 2
  /\ ToSave("NO_BOOTABLE_SLOTS")
  /\ UNCHANGED <<rpmbVars, misc, image, call, flowVars, slot, lost, handoffs>>

\* The index slot_data reports for the current location, and whether the
\* stored one has to change: only for a slot that has booted successfully.
SlotIndex == image[slot].index[loc]
UpdateDue ==
  /\ pc = "rollback" /\ loc < NumLocations
  /\ SlotIndex # 0 /\ support
  /\ ab_data[slot].successful_boot
  /\ CachedIndex(loc) # SlotIndex

NextLocation ==
  /\ loc' = loc + 1
  /\ UNCHANGED <<pc, ret>>

RollbackSkips ==
  /\ pc = "rollback" /\ loc < NumLocations
  /\ SlotIndex = 0 \/ support
  /\ ~UpdateDue
  /\ NextLocation
  /\ UNCHANGED <<rpmbVars, misc, image, call, ab_data, ab_data_orig, slot, n,
                 allow, saw, lost, handoffs>>

RollbackReadFails ==
  /\ pc = "rollback" /\ loc < NumLocations
  /\ SlotIndex # 0 /\ ~support
  /\ ToSave("IO")
  /\ UNCHANGED <<rpmbVars, misc, image, call, flowVars, slot, lost, handoffs>>

RollbackUnlocked(ok) ==
  /\ UpdateDue
  /\ DeviceUnlocked(ok)
  /\ avb_load_info_from_rpmb(ok)
  /\ NextLocation
  /\ UNCHANGED <<misc, image, call, ab_data, ab_data_orig, slot, n, allow, saw,
                 lost, handoffs>>

RollbackWrites(w, ok) ==
  /\ UpdateDue
  /\ ~DeviceUnlocked(TRUE)
  /\ write_rollback_index(rpmb, loc, SlotIndex, w, ok)
  /\ IF IndexWriteSucceeds(loc, SlotIndex, w)
     THEN NextLocation
     ELSE ToSave("IO") /\ UNCHANGED loc
  /\ UNCHANGED <<misc, image, call, ab_data, ab_data_orig, slot, n, allow, saw,
                 lost, handoffs>>

\* "Finally, select this slot."
Conclude ==
  /\ pc = "rollback" /\ loc = NumLocations
  /\ ab_data' = SpendTry(ab_data, slot)
  /\ ToSave(IF saw THEN "OK_WITH_VERIFICATION_ERROR" ELSE "OK")
  /\ UNCHANGED <<rpmbVars, misc, image, call, ab_data_orig, slot, n, allow, saw,
                 loc, lost, handoffs>>
-----------------------------------------------------------------------------
(***************************************************************************)
(* check_android_boot_state() and avb_load_boot_image()                    *)
(***************************************************************************)

\* Orange or green state for the device state read now.
BootStateAllows(unlocked) ==
  \/ ClassB /\ unlocked /\ ret \in {"OK", "OK_WITH_VERIFICATION_ERROR"}
  \/ ~unlocked /\ ret = "OK"

Boot(ok) ==
  /\ pc = "handoff"
  /\ BootStateAllows(DeviceUnlocked(ok))
  /\ avb_load_info_from_rpmb(ok)
  /\ IF lost \/ misc[slot].successful_boot THEN UNCHANGED handoffs
     ELSE handoffs' = [handoffs EXCEPT ![slot] = @ + 1]
  /\ pc' = "running"
  /\ lost' = FALSE
  /\ UNCHANGED <<misc, image, call, flowVars, slot, ret>>

\* Red state, or the boot image cannot be read back: the CPU loops, and what
\* the call left in its locals is not looked at again.
Halt(ok) ==
  /\ pc = "handoff"
  /\ avb_load_info_from_rpmb(ok)
  /\ pc' = "halted"
  /\ slot' = 0 /\ ret' = "OK" /\ lost' = FALSE
  /\ UNCHANGED <<misc, image, call, flowVars, handoffs>>
-----------------------------------------------------------------------------
(***************************************************************************)
(* Other users of the metadata, and the environment                        *)
(***************************************************************************)

CallMark(op, s, back) ==
  /\ call' = [op |-> op, slot |-> s, back |-> back]
  /\ ret' = "OK"
  /\ pc' = "load"
  /\ lost' = FALSE
  /\ UNCHANGED <<rpmbVars, misc, image, flowVars, slot, handoffs>>

\* fastboot "set_active" through ab_setActiveSlot().
FastbootSetActive(s) == pc = "menu" /\ CallMark("active", s, "menu")

\* The fastboot slot variables read the metadata through the same
\* avb_ab_data_read(), which repairs an unusable block, if its write works.
FastbootQuery ==
  /\ pc = "menu" /\ misc = Invalid
  /\ misc' = avb_ab_data_init
  /\ GrantAll
  /\ UNCHANGED <<rpmbVars, image, pc, call, flowVars, slot, ret, lost>>

FastbootFlashing(st, ok0, ok1, w, ok2) ==
  /\ pc = "menu" /\ ClassB
  /\ cb_flashing(st, ok0, ok1, w, ok2)
  /\ UNCHANGED <<misc, image, pc, call, flowVars, slot, ret, lost, handoffs>>

\* The OS confirms the slot it runs from, retires or activates a slot.
OsConfirms == pc = "running" /\ CallMark("successful", slot, "running")
OsRetires == pc = "running" /\ CallMark("unbootable", Other(slot), "running")
OsActivates(s) == pc = "running" /\ CallMark("active", s, "running")

\* The updater writes the slot that is not running, once it is retired.
OsWritesImage(im) ==
  /\ pc = "running" /\ misc # Invalid
  /\ ~slot_is_bootable(misc[Other(slot)])
  /\ image' = [image EXCEPT ![Other(slot)] = im]
  /\ UNCHANGED <<rpmbVars, misc, pc, call, flowVars, slot, ret, lost, handoffs>>

\* A partition stops verifying.
ImageDecays(s) ==
  /\ pc = "running" /\ image[s].state = "good"
  /\ image' = [image EXCEPT ![s].state = "unverified"]
  /\ UNCHANGED <<rpmbVars, misc, pc, call, flowVars, slot, ret, lost, handoffs>>

\* Power fails or the device is reset, between two steps.
Restart ==
  /\ pc' = "menu"
  /\ cache' = Blank /\ support' = FALSE
  /\ Forget
  /\ call' = FlowCall /\ ret' = "OK" /\ slot' = 0 /\ lost' = FALSE
  /\ UNCHANGED <<rpmb, image>>

PowerCycle ==
  /\ pc # "menu"
  /\ Restart
  /\ UNCHANGED <<misc, handoffs>>

\* Power fails within a write of the metadata block.
PowerFailsInSave ==
  /\ pc = "save" /\ MaySave
  /\ \E d \in {SavedBlock, Invalid} : Store(d)
  /\ Restart

Next ==
  \/ Load \/ Save
  \/ \E ok0, ok \in BOOLEAN : StartBoot(ok0, ok)
  \/ SelectSlot \/ SelectFindsNone
  \/ VerifySkips \/ VerifyFails \/ VerifyFindsNone
  \/ \E r \in Verdicts :
       VerifyRejects(r) \/ \E ok \in BOOLEAN : VerifyAccepts(r, ok)
  \/ RollbackSkips \/ RollbackReadFails
  \/ \E ok \in BOOLEAN : RollbackUnlocked(ok)
  \/ \E w \in WriteOutcomes, ok \in BOOLEAN : RollbackWrites(w, ok)
  \/ Conclude
  \/ \E ok \in BOOLEAN : Boot(ok) \/ Halt(ok)
  \/ \E s \in Slots : FastbootSetActive(s) \/ OsActivates(s) \/ ImageDecays(s)
  \/ FastbootQuery
  \/ \E st \in {Unlock, Lock}, ok0, ok1, ok2 \in BOOLEAN, w \in WriteOutcomes :
       FastbootFlashing(st, ok0, ok1, w, ok2)
  \/ OsConfirms \/ OsRetires
  \/ \E im \in Images : OsWritesImage(im)
  \/ PowerCycle \/ PowerFailsInSave

Spec == Init /\ [][Next]_vars

\* The program keeps running, and a halted device is switched off and on.
Progress ==
  \/ Load \/ Save \/ SelectSlot \/ SelectFindsNone
  \/ VerifySkips \/ VerifyFails \/ VerifyFindsNone
  \/ RollbackSkips \/ RollbackReadFails \/ Conclude
  \/ \E w \in WriteOutcomes, ok \in BOOLEAN :
       RollbackUnlocked(ok) \/ RollbackWrites(w, ok)
  \/ \E ok \in BOOLEAN : Boot(ok) \/ Halt(ok)
  \/ pc = "halted" /\ PowerCycle

\* Faults are transient: a step of a boot without a fault so far works out now
\* and then when it is tried again and again.
Smooth == support /\ call.op = "flow" /\ ret \in OKs
TransientFaults ==
  /\ SF_vars(StartBoot(TRUE, TRUE))
  /\ SF_vars(Smooth /\ (LoadValid \/ LoadResets))
  /\ SF_vars(Smooth /\ SelectSlot)
  /\ SF_vars(Smooth /\ (VerifySkips \/ \E r \in {"REJECTED", "INVALID"} : VerifyRejects(r)))
  /\ SF_vars(Smooth /\ \E r \in {"OK", "REJECTED"} : VerifyAccepts(r, TRUE))
  /\ SF_vars(Smooth /\ (\/ RollbackSkips \/ RollbackUnlocked(TRUE)
                       \/ RollbackWrites("written", TRUE)))
  /\ SF_vars(Smooth /\ Conclude)
  /\ SF_vars(Smooth /\ (SaveSkips \/ SaveWrites))
  /\ SF_vars(Smooth /\ Boot(TRUE))

FairSpec == Spec /\ WF_vars(Progress) /\ TransientFaults
-----------------------------------------------------------------------------
(***************************************************************************)
(* Properties                                                              *)
(***************************************************************************)

NoSlot == 2

\* A slot that was never confirmed is handed over to at most MaxTries times
\* since it was last granted its tries, not counting the boots whose save
\* failed unnoticed; no power failure and no reported error between the
\* decrement in avb_ab_flow(), its save and the boot adds one, and what an
\* unnoticed failure leaves behind does not either in a later boot.
AttemptBudget ==
  misc # Invalid =>
    \A s \in Slots : ~misc[s].successful_boot =>
      handoffs[s] + misc[s].tries_remaining <= MaxTries

\* The two slots never compete with the same priority: activation on top of
\* activation, retirement and reset always leaves a strict preference.
DistinctPriorities ==
  misc # Invalid =>
    (misc[0].priority = misc[1].priority => misc[0].priority = 0)

\* ab_getCurrentSlotIndex() decides on metadata it does not normalise; it
\* still names the slot the next avb_ab_flow() will try first.
QueryAgreesWithBoot ==
  misc # Invalid =>
    /\ Bootables(misc) = Bootables(Normalize(misc))
    /\ Bootables(misc) # {} => ActiveSlot(misc) = ActiveSlot(Normalize(misc))

\* On a locked device the OS only starts from images that verify and are not
\* behind the stored indexes, although the device state is read four times
\* in one boot and each read may fail with the answer "unlocked".
LockedBootsVerified ==
  [][pc = "handoff" /\ pc' = "running" /\ rpmb.device_state = Lock
       => /\ image[slot].state = "good"
          /\ \A k \in Locations : image[slot].index[k] >= rpmb.rollback_index[k]
    ]_vars

\* The A/B flow never lowers a stored rollback index, although it writes
\* whenever the index differs and not only when it grows, and never changes
\* one while the device is unlocked.
RollbackOnlyRises ==
  [][pc = "rollback" =>
       \A k \in Locations :
         /\ rpmb'.rollback_index[k] >= rpmb.rollback_index[k]
         /\ rpmb.device_state = Unlock =>
              rpmb'.rollback_index[k] = rpmb.rollback_index[k]
    ]_vars

\* A boot that stores metadata makes a bootable slot unbootable only if its
\* images were rejected or its last try is spent on this very boot.
BootKeepsGoodSlots ==
  [][pc = "save" /\ call.op = "flow" /\ misc # Invalid /\ misc' # Invalid =>
       \A s \in Slots :
         slot_is_bootable(misc[s]) /\ ~slot_is_bootable(misc'[s]) =>
           \/ image[s].state # "good" \/ Behind(image[s])
           \/ /\ s = slot /\ ret \in OKs
              /\ misc[s].tries_remaining = 1 /\ ~misc[s].successful_boot
    ]_vars

\* A slot that is not bootable becomes bootable only by avb_ab_mark_slot_active
\* for that slot or because the metadata block had become unusable.
NoResurrection ==
  [][misc # Invalid /\ misc' # Invalid =>
       \A s \in Slots :
         ~slot_is_bootable(misc[s]) /\ slot_is_bootable(misc'[s]) =>
           call.op = "active" /\ call.slot = s
    ]_vars

\* If ab_setActiveSlot() reports success the slot is the one the next boot
\* tries first, also when the block had to be reset on the way; unless a write
\* failed unnoticed, and then it is the one that was first before, or the
\* block is torn and the next boot starts afresh.
SetActiveTakesEffect ==
  [][pc = "save" /\ pc' # "save" /\ call.op = "active" /\ ret' = "OK" /\ ret = "OK"
       /\ call' = call =>
       IF lost' THEN misc' \in {misc, Invalid}
       ELSE /\ misc' # Invalid
            /\ slot_is_bootable(misc'[call.slot])
            /\ ActiveSlot(Normalize(misc')) = call.slot
    ]_vars

\* A confirmation the caller saw succeed is on the partition, unless the slot
\* runs on its last try: then it no longer counts as bootable; or unless a
\* write failed unnoticed.
ConfirmSticks ==
  [][pc = "save" /\ call.op = "successful" /\ call' = call
       /\ pc' = call.back /\ ret' = "OK" =>
       IF lost' THEN misc' \in {misc, Invalid}
       ELSE \/ misc'[call.slot].successful_boot
            \/ ~slot_is_bootable(misc[call.slot])
    ]_vars

\* A confirmed slot whose images verify and are allowed by the stored indexes
\* is never locked out: the device keeps coming back to a running OS, from
\* that slot or a better one, as long as the slot stays as it is.
ConfirmedGood(s) ==
  /\ misc # Invalid
  /\ misc[s].priority > 0 /\ misc[s].successful_boot /\ misc[s].tries_remaining = 0
  /\ image[s].state = "good"
  /\ \A k \in Locations : image[s].index[k] >= rpmb.rollback_index[k]
  /\ ClassB \/ rpmb.device_state = Lock

ConfirmedSlotBoots ==
  \A s \in Slots : ConfirmedGood(s) ~> (pc = "running" \/ ~ConfirmedGood(s))

\* The flow, with all its I/O, does only what the policy allows; a boot whose
\* save failed unnoticed is the policy's ChargeLost.
InMark == pc \in {"load", "save"} /\ call.op # "flow"
Policy == INSTANCE AbPolicy WITH
  None <- NoSlot,
  meta <- IF misc = Invalid THEN avb_ab_data_init ELSE Normalize(misc),
  charged <- IF pc = "handoff" /\ ret \in OKs THEN slot ELSE NoSlot,
  dropped <- pc = "handoff" /\ ret \in OKs /\ lost,
  running <- IF pc = "running" \/ (InMark /\ call.back = "running")
             THEN slot ELSE NoSlot

ImplementsPolicy == Policy!Spec
=============================================================================
