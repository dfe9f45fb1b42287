-------------------------------- MODULE Rpmb --------------------------------
(***************************************************************************)
(* The RPMB record of the bootloader: the device (lock) state and the      *)
(* stored rollback indexes, behind the RAM copy g_uboot_rpmb_raw_data of   *)
(* lib/libavb_ab_uboot/avb_ops_uboot.c.  Every operation below is one      *)
(* function of that file; its parameters say how each RPMB transfer it     *)
(* makes turns out.  A write is one authenticated 256-byte block, so it is *)
(* atomic, but its result may be lost after it took effect.                *)
(*                                                                         *)
(* The fastboot "flashing lock/unlock" command, the only caller of         *)
(* write_device_state(), is here too; the boot flows that use the other    *)
(* operations are in AbFlow and SingleSlotBoot.                            *)
(***************************************************************************)
EXTENDS Integers

CONSTANTS
  NumLocations,  \* AVB_MAX_NUMBER_OF_ROLLBACK_INDEX_LOCATIONS, 15 in the code
  Indexes        \* the rollback index values images carry; 0 means "none"

ASSUME LocationsAssumption == NumLocations \in Nat /\ NumLocations >= 1
ASSUME IndexesAssumption == Indexes \subseteq Nat /\ 0 \in Indexes

Locations == 0..(NumLocations - 1)

\* device_state: 0 is unlocked, 1 is locked.
Unlock == 0
Lock == 1
UBOOT_RPMB_RAW_DATA == [device_state : {Unlock, Lock},
                        rollback_index : [Locations -> Indexes]]

\* What static storage holds before the first successful load.
Blank == [device_state |-> Unlock, rollback_index |-> [n \in Locations |-> 0]]

VARIABLES
  rpmb,     \* the record in the RPMB partition
  cache,    \* g_uboot_rpmb_raw_data
  support   \* g_support_rpmb: the last load succeeded

rpmbVars == <<rpmb, cache, support>>

RpmbTypeOK ==
  /\ rpmb \in UBOOT_RPMB_RAW_DATA
  /\ cache \in UBOOT_RPMB_RAW_DATA
  /\ support \in BOOLEAN

\* The RAM copy and flag at power on.
ColdCache == cache = Blank /\ support = FALSE

\* How a call of ubootRpmbWriteData() may end: written and reported, failed,
\* or written although an error is reported.
WriteOutcomes == {"written", "failed", "unreported"}
Written(w) == w # "failed"
Reported(w) == w = "written"
-----------------------------------------------------------------------------
\* avb_load_info_from_rpmb(): the copy a load leaves, for a record and the
\* copy before it.  A failed load keeps the copy and only clears the flag.
Loaded(ok, record, copy) == IF ok THEN record ELSE copy

avb_load_info_from_rpmb(ok) ==
  /\ cache' = Loaded(ok, rpmb, cache)
  /\ support' = ok
  /\ UNCHANGED rpmb

\* The answer of read_is_device_unlocked() with its load: its local starts
\* at 0, so a failed read_device_state() answers "unlocked".
DeviceUnlocked(ok) == ok => rpmb.device_state = Unlock

\* read_rollback_index(): answers from the copy while the flag is set.
CachedIndex(loc) == cache.rollback_index[loc]

\* Mutant: the other indexes are not carried over into the new block.
write_rollback_index_DropsOthers(copy, loc, v, w, ok) ==
  LET block == [Blank EXCEPT !.device_state = copy.device_state,
                             !.rollback_index[loc] = v]
  IN /\ rpmb' = IF Written(w) THEN block ELSE rpmb
     /\ cache' = IF Reported(w) THEN Loaded(ok, block, copy) ELSE copy
     /\ support' = (Reported(w) => ok)

\* write_rollback_index(): rebuild the block from the RAM copy with one index
\* replaced, write it, load it back; "copy" is the copy when it is called.
write_rollback_index(copy, loc, v, w, ok) ==
  LET block == [copy EXCEPT !.rollback_index[loc] = v]
  IN /\ rpmb' = IF Written(w) THEN block ELSE rpmb
     /\ cache' = IF Reported(w) THEN Loaded(ok, block, copy) ELSE copy
     /\ support' = (Reported(w) => ok)

\* Its verdict: the reloaded copy must hold the new index.
IndexWriteSucceeds(loc, v, w) ==
  Reported(w) /\ cache'.rollback_index[loc] = v

\* write_device_state(): load ("init first", the result is ignored), write
\* the copy with the new state, load again.
write_device_state(copy, st, ok1, w, ok2) ==
  LET first == Loaded(ok1, rpmb, copy)
      block == [first EXCEPT !.device_state = st]
  IN /\ rpmb' = IF Written(w) THEN block ELSE rpmb
     /\ cache' = IF Reported(w) THEN Loaded(ok2, block, first) ELSE first
     /\ support' = IF Reported(w) THEN ok2 ELSE ok1

\* fastboot "flashing lock" (st = Lock) and "flashing unlock".  The command's
\* own is_device_unlocked() reads with ok0 and takes a failed read for
\* "locked"; the state is written only when the answer differs from st.
cb_flashing(st, ok0, ok1, w, ok2) ==
  LET answer == IF ok0 THEN rpmb.device_state ELSE Lock
  IN IF answer # st
     THEN write_device_state(Loaded(ok0, rpmb, cache), st, ok1, w, ok2)
     ELSE avb_load_info_from_rpmb(ok0)
=============================================================================
