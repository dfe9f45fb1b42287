-------------------------------- MODULE Bcb --------------------------------
(***************************************************************************)
(* The bootloader control block of ufbl-features, features/bcb/bcb.c: who  *)
(* reads and writes it, with I/O calls that fail and power failures.  A    *)
(* CRC is the content it was computed over, so a block is valid when the   *)
(* two agree; a CRC32 notices every change of a single field.              *)
(***************************************************************************)
EXTENDS Integers

CONSTANTS
  MaxPriority,   \* BCB_MAX_SLOT_PRIORITY, 15 in the code
  MaxRetries,    \* BCB_MAX_RETRY_LIMIT
  Garbage,       \* the CRC field of a torn block
  None           \* no slot: -1 or NULL

ASSUME PriorityAssumption == MaxPriority \in Nat /\ MaxPriority >= 2
ASSUME RetriesAssumption == MaxRetries \in Nat /\ MaxRetries >= 1

Slots == {0, 1}
slot_metadata == [priority : 0..MaxPriority,
                  tries_remaining : 0..MaxRetries,
                  successful_boot : BOOLEAN]
SlotInfo == [Slots -> slot_metadata]

ASSUME GarbageAssumption == Garbage \notin SlotInfo
ASSUME NoneAssumption == None \notin Slots

VARIABLES
  misc,    \* the block in the misc partition
  pc,      \* "off", "loader" or "os"
  slot,    \* the slot the OS runs from
  ret,     \* what the last call returned
  clean    \* history: the last call met no I/O error

vars == <<misc, pc, slot, ret, clean>>

Sealed(d) == [slot_info |-> d, crc |-> d]
Valid(bc) == bc.crc = bc.slot_info

TypeOK ==
  /\ misc \in [slot_info : SlotInfo, crc : SlotInfo \cup {Garbage}]
  /\ pc \in {"off", "loader", "os"}
  /\ slot \in Slots \cup {None}
  /\ ret \in Slots \cup {None}
  /\ clean \in BOOLEAN

create_default_metadata(active) ==
  Sealed([s \in Slots |->
            [priority |-> IF s = active THEN MaxPriority ELSE MaxPriority - 1,
             tries_remaining |-> MaxRetries,
             successful_boot |-> FALSE]])

\* Mutant: a block is believed without its CRC.
get_active_slot_NoCrc(bc) ==
  IF bc.crc = Garbage \/ \A s \in Slots : bc.slot_info[s].priority = 0 THEN None
  ELSE IF bc.slot_info[1].priority > bc.slot_info[0].priority THEN 1 ELSE 0

\* The slot with the highest priority, slot 0 if they are equal.
get_active_slot(bc) ==
  IF ~Valid(bc) \/ \A s \in Slots : bc.slot_info[s].priority = 0 THEN None
  ELSE IF bc.slot_info[1].priority > bc.slot_info[0].priority THEN 1 ELSE 0

\* What decrement_retry() makes of a block; the CRC stays what it was.
Decremented(bc, s) ==
  IF bc.slot_info[s].tries_remaining > 0
  THEN [bc EXCEPT !.slot_info[s].tries_remaining = @ - 1]
  ELSE [bc EXCEPT !.slot_info[s].priority = 0]

\* retry(bcb_platform_write): the block is there when one of the tries worked,
\* otherwise it is the old or the new one or torn.
Torn == [misc EXCEPT !.crc = Garbage]
Outcomes(bc, ok) == IF ok THEN {bc} ELSE {misc, bc, Torn}

Init ==
  /\ misc \in {create_default_metadata(0),
               [create_default_metadata(0) EXCEPT !.crc = Garbage]}
  /\ pc = "off" /\ slot = None /\ ret = None /\ clean = TRUE
-----------------------------------------------------------------------------
PowerOn ==
  /\ pc = "off" /\ pc' = "loader"
  /\ UNCHANGED <<misc, slot, ret, clean>>

Returns(s) == ret' = s /\ UNCHANGED <<pc, slot>>

\* retry(bcb_platform_read) gave up.
ReadFails ==
  /\ pc = "loader"
  /\ clean' = FALSE
  /\ Returns(None)
  /\ UNCHANGED misc

\* ufbl_bcb_get_active_slot_suffix(NULL), and ufbl_bcb_get_info().
ReadSlot ==
  /\ pc = "loader"
  /\ clean' = TRUE
  /\ Returns(get_active_slot(misc))
  /\ UNCHANGED misc

\* The policy leaves a slot that booted alone.
PolicyKeeps ==
  /\ pc = "loader"
  /\ LET s == get_active_slot(misc) IN
       /\ s # None => misc.slot_info[s].successful_boot
       /\ clean' = TRUE
       /\ Returns(s)
  /\ UNCHANGED misc

\* The policy changes the block and asks again for the active slot of what it
\* has changed; the write only follows when there is one.
PolicyDecrements ==
  /\ pc = "loader"
  /\ LET s == get_active_slot(misc)
         bc == Decremented(misc, s)
     IN /\ s # None /\ ~misc.slot_info[s].successful_boot
        /\ \E ok \in BOOLEAN :
             /\ get_active_slot(bc) = None => ok
             /\ misc' \in IF get_active_slot(bc) = None THEN {misc}
                          ELSE Outcomes(bc, ok)
             /\ clean' = ok
        /\ Returns(get_active_slot(bc))

\* ufbl_bcb_set_active_slot(), for fastboot and for a caller that got no slot.
SetActive(s) ==
  /\ pc = "loader"
  /\ \E ok \in BOOLEAN :
       /\ misc' \in Outcomes(create_default_metadata(s), ok)
       /\ clean' = ok
       /\ ret' = IF ok THEN s ELSE None
  /\ UNCHANGED <<pc, slot>>

\* Power fails in the write of set_active.
SetActiveInterrupted(s) ==
  /\ pc = "loader"
  /\ misc' \in Outcomes(create_default_metadata(s), FALSE)
  /\ pc' = "off" /\ ret' = None
  /\ UNCHANGED <<slot, clean>>

\* The caller boots the slot it was given.
HandOver ==
  /\ pc = "loader" /\ ret # None
  /\ pc' = "os" /\ slot' = ret
  /\ UNCHANGED <<misc, ret, clean>>

\* The boot control HAL writes the block with the CRC; it never gives two
\* slots the same priority, unless they are both unbootable.
OsWrites ==
  /\ pc = "os"
  /\ \E d \in SlotInfo :
       /\ d[0].priority = d[1].priority => d[0].priority = 0
       /\ misc' = Sealed(d)
  /\ UNCHANGED <<pc, slot, ret, clean>>

PowerOff ==
  /\ pc # "off"
  /\ pc' = "off" /\ slot' = None /\ ret' = None
  /\ UNCHANGED <<misc, clean>>

Next ==
  \/ PowerOn \/ ReadFails \/ ReadSlot \/ PolicyKeeps \/ PolicyDecrements
  \/ \E s \in Slots : SetActive(s) \/ SetActiveInterrupted(s)
  \/ HandOver \/ OsWrites \/ PowerOff

Spec == Init /\ [][Next]_vars
-----------------------------------------------------------------------------
(***************************************************************************)
(* Properties                                                              *)
(***************************************************************************)

\* Nothing the loader does but set_active changes the block in the partition: it is torn,
\* or the defaults with the chosen slot the active one.  So the tries that
\* decrement_retry() takes from a slot never count, and none is given up, although the
\* comment there says "run out of retry count, mark as invalid" (bcb.c:190): the block
\* has lost its CRC when the function asks whether to write it.
OnlySetActiveStores ==
  [][pc = "loader" /\ misc' # misc =>
       \/ misc'.crc = Garbage
       \/ \E s \in Slots : misc' = create_default_metadata(s) /\ get_active_slot(misc') = s]_vars

\* Looking for the slot to boot never makes a valid block invalid when no I/O
\* call fails: decrement_retry() does not store a block without its CRC.
BootKeepsBlockValid ==
  [][(PolicyDecrements \/ PolicyKeeps) /\ clean' /\ Valid(misc)
       => Valid(misc')]_vars
=============================================================================
