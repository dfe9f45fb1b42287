--------------------------- MODULE SingleSlotBoot ---------------------------
(***************************************************************************)
(* The verified boot of the build without A/B slots: avb_verify_boot_start *)
(* verifies the one set of images, the boot state check of                 *)
(* common/image-android-sig.c says whether it may run, then                *)
(* update_stored_rollback_index() stores its rollback indexes and the boot *)
(* image is read.  Every RPMB transfer may fail, power may fail between    *)
(* any two of them.                                                        *)
(***************************************************************************)
EXTENDS SlotVerify

CONSTANT ClassB   \* CONFIG_ANDROID_SECURE_BOOT_CLASS_B: unlocked devices may boot

ASSUME ClassBAssumption == ClassB \in BOOLEAN

VARIABLES
  image,   \* what the partitions hold, one of Images
  stage,      \* where the device is
  allow,   \* the flag given to avb_slot_verify()
  ret,     \* avb_slot_verify_result
  data,    \* avb_data is set
  loc      \* n of update_stored_rollback_index()

locals == <<allow, ret, data, loc>>
singleVars == <<rpmbVars, image, stage, locals>>

Locals == allow = FALSE /\ ret = "OK" /\ data = FALSE /\ loc = 0
Forget == allow' = FALSE /\ ret' = "OK" /\ data' = FALSE /\ loc' = 0

\* A factory-fresh device: verified images, a provisioned lock state.
SingleInit ==
  /\ image \in [state : {"good"}, index : [Locations -> Indexes]]
  /\ rpmb \in {[Blank EXCEPT !.device_state = st] : st \in {Unlock, Lock}}
  /\ ColdCache
  /\ stage = "menu"
  /\ Locals
-----------------------------------------------------------------------------
\* Loads the RPMB record, and once more for the flag argument.
StartBoot(ok0, ok) ==
  /\ stage = "menu"
  /\ cache' = Loaded(ok, rpmb, Loaded(ok0, rpmb, cache))
  /\ support' = ok
  /\ UNCHANGED rpmb
  /\ allow' = DeviceUnlocked(ok)
  /\ stage' = "verify"
  /\ UNCHANGED <<image, ret, data, loc>>

\* avb_slot_verify() hands out the data; append_options() reads the device
\* state on the way.
VerifyHandsOut(r, ok) ==
  /\ stage = "verify"
  /\ CanReport(image, allow, r) /\ HandsOut(r, allow)
  /\ avb_load_info_from_rpmb(ok)
  /\ ret' = r /\ data' = TRUE
  /\ stage' = "accept"
  /\ UNCHANGED <<image, allow, loc>>

VerifyFails(r) ==
  /\ stage = "verify"
  /\ CanReport(image, allow, r) /\ ~HandsOut(r, allow)
  /\ ret' = r /\ data' = FALSE
  /\ stage' = "accept"
  /\ UNCHANGED <<rpmbVars, image, allow, loc>>

\* The condition that opens the boot branch asks for the lock state again
\* when a verification error is to be let through.
AcceptOK ==
  /\ stage = "accept" /\ ret = "OK"
  /\ stage' = "state"
  /\ UNCHANGED <<rpmbVars, image, locals>>

\* Without slot data the branch uses a null pointer: the CPU stops, or goes
\* on with what it finds there.
AcceptRejected(ok) ==
  /\ stage = "accept" /\ ret = "REJECTED"
  /\ avb_load_info_from_rpmb(ok)
  /\ IF DeviceUnlocked(ok)
     THEN stage' = "state" \/ (~data /\ stage' = "halted")
     ELSE stage' = "red"
  /\ UNCHANGED <<image, locals>>

AcceptNothing ==
  /\ stage = "accept" /\ ret \in {"INVALID", "IO"}
  /\ stage' = "red"
  /\ UNCHANGED <<rpmbVars, image, locals>>

\* check_android_boot_state(): orange or green for the lock state read now.
BootStateAllows(unlocked) ==
  \/ ClassB /\ unlocked /\ ret \in {"OK", "REJECTED"}
  \/ ~unlocked /\ ret = "OK"

\* From the boot branch it goes on; from the other one the caller gets back
\* without an image in memory, bootm fails and the shell is back.
StateAllows(ok) ==
  /\ stage \in {"state", "red"}
  /\ BootStateAllows(DeviceUnlocked(ok))
  /\ avb_load_info_from_rpmb(ok)
  /\ IF stage = "state"
     THEN stage' = "enter" /\ UNCHANGED locals
     ELSE stage' = "menu" /\ Forget
  /\ UNCHANGED image

StateHalts(ok) ==
  /\ stage \in {"state", "red"}
  /\ ~BootStateAllows(DeviceUnlocked(ok))
  /\ avb_load_info_from_rpmb(ok)
  /\ stage' = "halted"
  /\ UNCHANGED <<image, locals>>
-----------------------------------------------------------------------------
(***************************************************************************)
(* update_stored_rollback_index().  It reads the lock state into a flag    *)
(* and at once overwrites the flag with the result code of the read, which *)
(* is always 0, so the early return for unlocked devices is dead.          *)
(***************************************************************************)

UpdateStarts(ok) ==
  /\ stage = "enter"
  /\ avb_load_info_from_rpmb(ok)
  /\ stage' = "update"
  /\ UNCHANGED <<image, locals>>

SlotIndex == IF data THEN image.index[loc] ELSE 0
NextLocation == loc' = loc + 1 /\ UNCHANGED stage

\* The first failure ends the loop; the boot goes on all the same.
GiveUpUpdate == stage' = "read" /\ UNCHANGED loc

UpdateSkips ==
  /\ stage = "update" /\ loc < NumLocations
  /\ SlotIndex = 0 \/ (support /\ CachedIndex(loc) = SlotIndex)
  /\ NextLocation
  /\ UNCHANGED <<rpmbVars, image, allow, ret, data>>

UpdateReadFails ==
  /\ stage = "update" /\ loc < NumLocations
  /\ SlotIndex # 0 /\ ~support
  /\ GiveUpUpdate
  /\ UNCHANGED <<rpmbVars, image, allow, ret, data>>

UpdateWrites(w, ok) ==
  /\ stage = "update" /\ loc < NumLocations
  /\ SlotIndex # 0 /\ support /\ CachedIndex(loc) # SlotIndex
  /\ write_rollback_index(cache, loc, SlotIndex, w, ok)
  /\ IF IndexWriteSucceeds(loc, SlotIndex, w) THEN NextLocation ELSE GiveUpUpdate
  /\ UNCHANGED <<image, allow, ret, data>>

UpdateEnds ==
  /\ stage = "update" /\ loc = NumLocations
  /\ stage' = "read"
  /\ UNCHANGED <<rpmbVars, image, locals>>

\* avb_load_boot_image(): the OS starts, or avb_abort() stops the CPU.
ReadImage ==
  /\ stage = "read"
  /\ stage' \in {"running", "halted"}
  /\ UNCHANGED <<rpmbVars, image, locals>>
-----------------------------------------------------------------------------
(***************************************************************************)
(* Between boots                                                           *)
(***************************************************************************)

FastbootFlashing(st, ok0, ok1, w, ok2) ==
  /\ stage = "menu" /\ ClassB
  /\ cb_flashing(st, ok0, ok1, w, ok2)
  /\ UNCHANGED <<image, stage, locals>>

\* An update installs other images, whole or interrupted, with any indexes.
Install(im) ==
  /\ stage = "running"
  /\ image' = im
  /\ UNCHANGED <<rpmbVars, stage, locals>>

PowerCycle ==
  /\ stage # "menu"
  /\ stage' = "menu"
  /\ cache' = Blank /\ support' = FALSE
  /\ Forget
  /\ UNCHANGED <<rpmb, image>>

SingleNext ==
  \/ \E ok0, ok \in BOOLEAN : StartBoot(ok0, ok)
  \/ \E r \in Verdicts, ok \in BOOLEAN : VerifyHandsOut(r, ok)
  \/ \E r \in Verdicts \cup {"IO"} : VerifyFails(r)
  \/ AcceptOK \/ AcceptNothing
  \/ \E ok \in BOOLEAN :
       AcceptRejected(ok) \/ StateAllows(ok) \/ StateHalts(ok) \/ UpdateStarts(ok)
  \/ UpdateSkips \/ UpdateReadFails \/ UpdateEnds \/ ReadImage
  \/ \E w \in WriteOutcomes, ok \in BOOLEAN : UpdateWrites(w, ok)
  \/ \E st \in {Unlock, Lock}, ok0, ok1, ok2 \in BOOLEAN, w \in WriteOutcomes :
       FastbootFlashing(st, ok0, ok1, w, ok2)
  \/ \E im \in Images : Install(im)
  \/ PowerCycle

SingleSpec == SingleInit /\ [][SingleNext]_singleVars
-----------------------------------------------------------------------------
(***************************************************************************)
(* Properties                                                              *)
(***************************************************************************)

Safe(im) ==
  im.state = "good" /\ \A k \in Locations : im.index[k] >= rpmb.rollback_index[k]

\* On a locked device the slot data that is handed out leads to a running OS
\* only if the images verify and are not behind the stored indexes, although
\* a failed read of the lock state means "unlocked" at each of its readers.
LockedRunsVerified ==
  [][stage = "read" /\ stage' = "running" /\ data /\ rpmb.device_state = Lock
       => Safe(image)]_singleVars

\* A write of one index writes the whole record from the RAM copy; it still
\* changes nothing but that index, whatever loads failed before.
UpdateTouchesOneIndex ==
  [][stage = "update" =>
       /\ rpmb'.device_state = rpmb.device_state
       /\ \A k \in Locations \ {loc} :
            rpmb'.rollback_index[k] = rpmb.rollback_index[k]
    ]_singleVars

\* On a locked device the update never lowers a stored index, although it
\* writes whenever the index differs.
LockedIndexOnlyRises ==
  [][stage = "update" /\ rpmb.device_state = Lock =>
       \A k \in Locations : rpmb'.rollback_index[k] >= rpmb.rollback_index[k]
    ]_singleVars

\* image-android-sig.c in update_stored_rollback_index(): "if device state is
\* unlock, should not to update rollback index."
UnlockedKeepsIndexes ==
  [][stage = "update" /\ rpmb.device_state = Unlock => UNCHANGED rpmb]_singleVars
=============================================================================
