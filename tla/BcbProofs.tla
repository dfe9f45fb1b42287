------------------------------ MODULE BcbProofs ------------------------------
(***************************************************************************)
(* Proofs about Bcb for any number of priorities and of tries.             *)
(*                                                                         *)
(* The properties say what the policy leaves alone.  They rest on one fact *)
(* about decrement_retry(): a block it has changed is not valid any more,  *)
(* it has no active slot and is not written.                               *)
(***************************************************************************)
EXTENDS Bcb, TLAPS

Misc == [slot_info : SlotInfo, crc : SlotInfo \cup {Garbage}]
-----------------------------------------------------------------------------
\* The slot that is chosen is a slot, or none; there is one only in a valid block.
LEMMA ActiveSlotType ==
  ASSUME NEW bc
  PROVE  /\ get_active_slot(bc) \in Slots \cup {None}
         /\ get_active_slot(bc) # None => Valid(bc)
  BY NoneAssumption DEF get_active_slot, Slots

\* set_active writes a valid block in which the slot it was given is active.
LEMMA DefaultMetadata ==
  ASSUME NEW s \in Slots
  PROVE  /\ create_default_metadata(s) \in Misc
         /\ get_active_slot(create_default_metadata(s)) = s
<1> DEFINE e(t) == [priority |-> IF t = s THEN MaxPriority ELSE MaxPriority - 1,
                    tries_remaining |-> MaxRetries,
                    successful_boot |-> FALSE]
           d == [t \in Slots |-> e(t)]
           bc == create_default_metadata(s)
<1>1. bc = [slot_info |-> d, crc |-> d]
  BY DEF create_default_metadata, Sealed
<1>2. \A t \in Slots : e(t) \in slot_metadata
  <2> SUFFICES ASSUME NEW t \in Slots PROVE e(t) \in slot_metadata
    OBVIOUS
  <2>1. (IF t = s THEN MaxPriority ELSE MaxPriority - 1) \in 0..MaxPriority
    BY PriorityAssumption
  <2>2. MaxRetries \in 0..MaxRetries
    BY RetriesAssumption
  <2> QED
    BY <2>1, <2>2 DEF slot_metadata
<1>3. d \in SlotInfo
  BY <1>2 DEF SlotInfo
<1>4. bc \in Misc
  BY <1>1, <1>3 DEF Misc
<1>5. \A t \in Slots :
        bc.slot_info[t].priority = IF t = s THEN MaxPriority ELSE MaxPriority - 1
  BY <1>1
<1>6. bc.crc = bc.slot_info
  BY <1>1
<1>7. get_active_slot(bc) = s
  <2>1. \A t \in Slots : bc.slot_info[t].priority # 0
    BY <1>5, PriorityAssumption
  <2>2. bc.slot_info[1].priority > bc.slot_info[0].priority <=> s = 1
    BY <1>5, PriorityAssumption DEF Slots
  <2> QED
    BY <1>6, <2>1, <2>2 DEF get_active_slot, Valid, Slots
<1> QED
  BY <1>4, <1>7

\* decrement_retry() keeps the block's type, and leaves a CRC that is not that
\* of what it has changed.
LEMMA DecrementedBlock ==
  ASSUME NEW bc \in Misc, Valid(bc), NEW s \in Slots,
         bc.slot_info[s].priority # 0 \/ bc.slot_info[s].tries_remaining > 0
  PROVE  Decremented(bc, s) \in Misc /\ ~Valid(Decremented(bc, s))
<1> DEFINE x == Decremented(bc, s)
           i == bc.slot_info
<1>1. i \in SlotInfo /\ bc.crc = i
  BY DEF Misc, Valid
<1>2. i[s] \in slot_metadata
  BY <1>1 DEF SlotInfo
<1>3. CASE i[s].tries_remaining > 0
  <2> DEFINE n == [i[s] EXCEPT !.tries_remaining = @ - 1]
  <2>1. i[s].tries_remaining - 1 \in 0..MaxRetries
    BY <1>2, <1>3, RetriesAssumption DEF slot_metadata
  <2>2. n \in slot_metadata /\ n.tries_remaining = i[s].tries_remaining - 1
    BY <1>2, <2>1 DEF slot_metadata
  <2>3. x.slot_info = [i EXCEPT ![s] = n] /\ x.crc = bc.crc
        /\ x = [bc EXCEPT !.slot_info = [i EXCEPT ![s] = n]]
    BY <1>3 DEF Decremented, Misc
  <2>4. [i EXCEPT ![s] = n] \in SlotInfo
    BY <1>1, <2>2 DEF SlotInfo
  <2>5. x \in Misc
    BY <2>3, <2>4 DEF Misc
  <2>6. x.slot_info[s] # i[s]
    <3>1. x.slot_info[s] = n
      BY <1>1, <2>3 DEF SlotInfo
    <3>2. n.tries_remaining # i[s].tries_remaining
      BY <1>2, <2>2 DEF slot_metadata
    <3> QED
      BY <3>1, <3>2
  <2> QED
    BY <1>1, <2>3, <2>5, <2>6 DEF Valid
<1>4. CASE ~(i[s].tries_remaining > 0)
  <2> DEFINE n == [i[s] EXCEPT !.priority = 0]
  <2>1. i[s].priority # 0
    BY <1>4
  <2>2. n \in slot_metadata /\ n.priority = 0
    BY <1>2, PriorityAssumption DEF slot_metadata
  <2>3. x.slot_info = [i EXCEPT ![s] = n] /\ x.crc = bc.crc
        /\ x = [bc EXCEPT !.slot_info = [i EXCEPT ![s] = n]]
    BY <1>4 DEF Decremented, Misc
  <2>4. [i EXCEPT ![s] = n] \in SlotInfo
    BY <1>1, <2>2 DEF SlotInfo
  <2>5. x \in Misc
    BY <2>3, <2>4 DEF Misc
  <2>6. x.slot_info[s] # i[s]
    <3>1. x.slot_info[s] = n
      BY <1>1, <2>3 DEF SlotInfo
    <3> QED
      BY <3>1, <2>1, <2>2
  <2> QED
    BY <1>1, <2>3, <2>5, <2>6 DEF Valid
<1> QED
  BY <1>3, <1>4

\* The active slot is one that may be booted.
LEMMA ActiveSlotBootable ==
  ASSUME NEW bc \in Misc, NEW s \in Slots, get_active_slot(bc) = s
  PROVE  bc.slot_info[s].priority # 0
<1>1. \A t \in Slots : bc.slot_info[t].priority \in Nat
  BY PriorityAssumption DEF Misc, SlotInfo, slot_metadata
<1>2. \E t \in Slots : bc.slot_info[t].priority # 0
  BY NoneAssumption DEF get_active_slot
<1>3. s = IF bc.slot_info[1].priority > bc.slot_info[0].priority THEN 1 ELSE 0
  BY NoneAssumption DEF get_active_slot
<1> QED
  BY <1>1, <1>2, <1>3 DEF Slots

\* The policy asks the block it has changed for its active slot, and gets none:
\* nothing is written.
LEMMA PolicyWritesNothing ==
  ASSUME TypeOK, PolicyDecrements
  PROVE  UNCHANGED <<misc, pc, slot>> /\ ret' = None /\ clean' = TRUE
<1> DEFINE s == get_active_slot(misc)
           bc == Decremented(misc, s)
<1>1. misc \in Misc
  BY DEF TypeOK, Misc
<1>2. s \in Slots /\ Valid(misc)
  BY ActiveSlotType DEF PolicyDecrements
<1>3. misc.slot_info[s].priority # 0
  BY <1>1, <1>2, ActiveSlotBootable
<1>4. ~Valid(bc)
  BY <1>1, <1>2, <1>3, DecrementedBlock
<1>5. get_active_slot(bc) = None
  BY <1>4, ActiveSlotType
<1> QED
  BY <1>5 DEF PolicyDecrements, Returns
-----------------------------------------------------------------------------
(***************************************************************************)
(* The invariant                                                           *)
(***************************************************************************)

LEMMA InitTypeOK == ASSUME Init PROVE TypeOK
<1>1. create_default_metadata(0) \in Misc
  BY DefaultMetadata DEF Slots
<1>2. misc \in Misc
  BY <1>1 DEF Init, Misc
<1> QED
  BY <1>2 DEF Init, TypeOK, Misc

\* Whatever becomes of a write, what is in the partition is a block.
LEMMA OutcomesType ==
  ASSUME misc \in Misc, NEW bc \in Misc, NEW ok
  PROVE  Outcomes(bc, ok) \subseteq Misc
  BY DEF Outcomes, Torn, Misc

LEMMA SetActiveTypeOK ==
  ASSUME TypeOK, NEW s \in Slots, SetActive(s) PROVE TypeOK'
<1>1. PICK ok \in BOOLEAN :
        /\ misc' \in Outcomes(create_default_metadata(s), ok)
        /\ clean' = ok
        /\ ret' = IF ok THEN s ELSE None
  BY DEF SetActive
<1>2. misc' \in Misc
  BY <1>1, DefaultMetadata, OutcomesType DEF TypeOK, Misc
<1> QED
  BY <1>1, <1>2 DEF SetActive, TypeOK, Misc

LEMMA SetActiveInterruptedTypeOK ==
  ASSUME TypeOK, NEW s \in Slots, SetActiveInterrupted(s) PROVE TypeOK'
<1>1. misc' \in Misc
  BY DefaultMetadata, OutcomesType DEF SetActiveInterrupted, TypeOK, Misc
<1> QED
  BY <1>1 DEF SetActiveInterrupted, TypeOK, Misc

LEMMA OsWritesTypeOK == ASSUME TypeOK, OsWrites PROVE TypeOK'
<1>1. misc' \in Misc
  BY DEF OsWrites, Sealed, Misc
<1> QED
  BY <1>1 DEF OsWrites, TypeOK, Misc

LEMMA NextTypeOK == ASSUME TypeOK, [Next]_vars PROVE TypeOK'
<1>1. CASE PowerOn \/ ReadFails \/ HandOver \/ PowerOff \/ UNCHANGED vars
  BY <1>1 DEF PowerOn, ReadFails, Returns, HandOver, PowerOff, vars, TypeOK
<1>2. CASE ReadSlot \/ PolicyKeeps
  <2>1. ret' \in Slots \cup {None} /\ clean' = TRUE
    BY <1>2, ActiveSlotType DEF ReadSlot, PolicyKeeps, Returns
  <2>2. UNCHANGED <<misc, pc, slot>>
    BY <1>2 DEF ReadSlot, PolicyKeeps, Returns
  <2> QED
    BY <2>1, <2>2 DEF TypeOK
<1>3. CASE PolicyDecrements
  BY <1>3, PolicyWritesNothing DEF TypeOK
<1> QED
  BY <1>1, <1>2, <1>3, SetActiveTypeOK, SetActiveInterruptedTypeOK, OsWritesTypeOK
  DEF Next

\* The block in the misc partition and what the calls return stay in their
\* ranges: a decrement never goes below 0.
THEOREM TypeCorrect == Spec => []TypeOK
  BY InitTypeOK, NextTypeOK, PTL DEF Spec
-----------------------------------------------------------------------------
(***************************************************************************)
(* What the loader stores                                                  *)
(***************************************************************************)

\* Whatever becomes of set_active's write, the block is the old one, the
\* defaults with the slot active, or torn.
LEMMA SetActiveStores ==
  ASSUME TypeOK, NEW s \in Slots, NEW ok,
         misc' \in Outcomes(create_default_metadata(s), ok), misc' # misc
  PROVE  \/ misc'.crc = Garbage
         \/ misc' = create_default_metadata(s) /\ get_active_slot(misc') = s
<1>1. misc' \in {create_default_metadata(s), Torn}
  BY DEF Outcomes
<1>2. CASE misc' = create_default_metadata(s)
  BY <1>2, DefaultMetadata
<1>3. CASE misc' = Torn
  BY <1>3 DEF Torn, TypeOK
<1> QED
  BY <1>1, <1>2, <1>3

\* decrement_retry() stores nothing it has changed: only
\* ufbl_bcb_set_active_slot() changes the block in a boot.
THEOREM TriesAreNotStored == Spec => OnlySetActiveStores
<1> DEFINE A ==
      pc = "loader" /\ misc' # misc =>
        \/ misc'.crc = Garbage
        \/ \E s \in Slots : misc' = create_default_metadata(s) /\ get_active_slot(misc') = s
<1>1. ASSUME TypeOK, Next PROVE A
  <2> SUFFICES ASSUME pc = "loader", misc' # misc PROVE A
    OBVIOUS
  <2>1. \E s \in Slots : SetActive(s) \/ SetActiveInterrupted(s)
    BY <1>1, PolicyWritesNothing
    DEF Next, PowerOn, ReadFails, ReadSlot, PolicyKeeps, HandOver, OsWrites, PowerOff
  <2>2. PICK s \in Slots : SetActive(s) \/ SetActiveInterrupted(s)
    BY <2>1
  <2>3. \E ok \in BOOLEAN : misc' \in Outcomes(create_default_metadata(s), ok)
    BY <2>2 DEF SetActive, SetActiveInterrupted
  <2> QED
    BY <1>1, <2>3, SetActiveStores
<1>2. TypeOK /\ [Next]_vars => [A]_vars
  BY <1>1, Zenon
<1> QED
  BY <1>2, TypeCorrect, PTL DEF Spec, OnlySetActiveStores

\* The policy never makes a valid block invalid unless an I/O call fails.
THEOREM BlockStaysValid == Spec => BootKeepsBlockValid
<1> DEFINE A ==
      (PolicyDecrements \/ PolicyKeeps) /\ clean' /\ Valid(misc) => Valid(misc')
<1>1. ASSUME TypeOK, Next PROVE A
  <2>1. CASE PolicyDecrements
    BY <1>1, <2>1, PolicyWritesNothing DEF Valid
  <2>2. CASE PolicyKeeps
    BY <2>2 DEF PolicyKeeps, Valid
  <2> QED
    BY <2>1, <2>2
<1>2. TypeOK /\ [Next]_vars => [A]_vars
  BY <1>1, Zenon
<1> QED
  BY <1>2, TypeCorrect, PTL DEF Spec, BootKeepsBlockValid
=============================================================================
