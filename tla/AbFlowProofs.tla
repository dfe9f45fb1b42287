---------------------------- MODULE AbFlowProofs ----------------------------
(***************************************************************************)
(* Proofs about AbFlow, for every priority and try limit, number of        *)
(* rollback locations and set of index values.                             *)
(*                                                                         *)
(* 1. What the operators of AbData and the operations of Rpmb return and   *)
(*    preserve.                                                            *)
(* 2. Types, and the budget of boots of a slot that was never confirmed.   *)
(* 3. The metadata stay legal: two slots never have the same priority      *)
(*    unless neither may be booted, and no slot is both confirmed and on   *)
(*    trial.  The invariant speaks of the partition and of the local copy  *)
(*    of a call alike, since each is copied to the other.                  *)
(* 4. No slot comes back to life: the local copy is compared with the      *)
(*    partition, which it will replace.                                    *)
(* 5. A locked device boots what verifies and is not rolled back: what the *)
(*    verification has seen in the RAM copy of the RPMB record still holds *)
(*    of the record when the OS starts.                                    *)
(* 6. A mark call that reports success took effect, and a boot gives up    *)
(*    only the slots it rejects: the copy of a call is what the operations *)
(*    so far make of the block it read.                                    *)
(* 7. The flow implements the policy of AbPolicy.                          *)
(***************************************************************************)
EXTENDS AbFlow, TLAPS
-----------------------------------------------------------------------------
(***************************************************************************)
(* The metadata operations, for every MaxPriority and MaxTries             *)
(***************************************************************************)

\* The metadata operations of avb_ab_flow.c return well-formed metadata.
LEMMA NormalizeType == ASSUME NEW d \in AvbABData PROVE Normalize(d) \in AvbABData
  BY PriorityAssumption, TriesAssumption
  DEF Normalize, AvbABData, AvbABSlotData, slot_normalize, Unbootable

LEMMA InitType == avb_ab_data_init \in AvbABData
  BY PriorityAssumption, TriesAssumption
  DEF avb_ab_data_init, AvbABData, AvbABSlotData, Slots

LEMMA DisableType ==
  ASSUME NEW d \in AvbABData, NEW s \in Slots PROVE Disable(d, s) \in AvbABData
  BY PriorityAssumption, TriesAssumption
  DEF Disable, AvbABData, AvbABSlotData, Unbootable

LEMMA SpendTryType ==
  ASSUME NEW d \in AvbABData, NEW s \in Slots PROVE SpendTry(d, s) \in AvbABData
  BY PriorityAssumption, TriesAssumption
  DEF SpendTry, AvbABData, AvbABSlotData

LEMMA MarkActiveType ==
  ASSUME NEW d \in AvbABData, NEW s \in Slots PROVE MarkActive(d, s) \in AvbABData
<1>1. ASSUME NEW t \in Slots
      PROVE  [d[t] EXCEPT !.priority = IF @ = MaxPriority THEN @ - 1 ELSE @]
               \in AvbABSlotData
  <2>1. d[t] \in AvbABSlotData
    BY DEF AvbABData
  <2>. DEFINE p == IF d[t].priority = MaxPriority THEN d[t].priority - 1
                   ELSE d[t].priority
  <2>2. p \in 0..MaxPriority
    BY <2>1, PriorityAssumption DEF AvbABSlotData
  <2>. HIDE DEF p
  <2>3. [d[t] EXCEPT !.priority = p] \in AvbABSlotData
    BY <2>1, <2>2 DEF AvbABSlotData
  <2>. QED BY <2>3 DEF p
<1>2. [priority |-> MaxPriority, tries_remaining |-> MaxTries,
       successful_boot |-> FALSE] \in AvbABSlotData
  BY PriorityAssumption, TriesAssumption DEF AvbABSlotData
<1>. QED BY <1>1, <1>2, Zenon DEF MarkActive, AvbABData

LEMMA MarkSuccessfulType ==
  ASSUME NEW d \in AvbABData, NEW s \in Slots
  PROVE MarkSuccessful(d, s) \in AvbABData
<1>1. CASE slot_is_bootable(d[s])
  <2>1. MarkSuccessful(d, s) =
          [d EXCEPT ![s] = [@ EXCEPT !.tries_remaining = 0, !.successful_boot = TRUE]]
    BY <1>1 DEF MarkSuccessful, AvbABData, AvbABSlotData
  <2>2. [d[s] EXCEPT !.tries_remaining = 0, !.successful_boot = TRUE] \in AvbABSlotData
    <3>1. d[s] \in AvbABSlotData /\ 0 \in 0..MaxTries /\ TRUE \in BOOLEAN
      BY TriesAssumption DEF AvbABData
    <3>. DEFINE t == TRUE
    <3>. HIDE DEF t
    <3>2. t \in BOOLEAN
      BY DEF t
    <3>3. [d[s] EXCEPT !.tries_remaining = 0, !.successful_boot = t] \in AvbABSlotData
      BY <3>1, <3>2 DEF AvbABSlotData
    <3>. QED BY <3>3 DEF t
  <2>. QED BY <2>1, <2>2 DEF AvbABData
<1>2. CASE ~slot_is_bootable(d[s])
  BY <1>2 DEF MarkSuccessful
<1>. QED BY <1>1, <1>2
-----------------------------------------------------------------------------
(***************************************************************************)
(* What the operations do to the tries of a slot                           *)
(***************************************************************************)

\* From d to e, slot s is granted no tries: it is confirmed, out of tries, or
\* was already trying and has no more left than before.
NoNewTries(d, e, s) ==
  ~e[s].successful_boot =>
    \/ e[s].tries_remaining = 0
    \/ ~d[s].successful_boot /\ e[s].tries_remaining <= d[s].tries_remaining

\* The fields of a slot of well-formed metadata.
LEMMA SlotFields ==
  ASSUME NEW d \in AvbABData, NEW s \in Slots
  PROVE  /\ d[s].priority \in 0..MaxPriority
         /\ d[s].tries_remaining \in 0..MaxTries
         /\ d[s].successful_boot \in BOOLEAN
         /\ d[s].tries_remaining \in Int
<1>1. d[s] \in AvbABSlotData
  BY DEF AvbABData
<1>. QED BY <1>1, TriesAssumption DEF AvbABSlotData

\* Only avb_ab_mark_slot_active() grants tries, and only to its slot.
LEMMA NormalizeGrantsNothing ==
  ASSUME NEW d \in AvbABData, NEW s \in Slots
  PROVE  NoNewTries(d, Normalize(d), s)
<1>1. Normalize(d)[s] = Unbootable \/ Normalize(d)[s] = d[s]
  BY DEF Normalize, slot_normalize
<1>. QED BY <1>1, SlotFields DEF NoNewTries, Unbootable

LEMMA DisableGrantsNothing ==
  ASSUME NEW d \in AvbABData, NEW s \in Slots, NEW t \in Slots
  PROVE  NoNewTries(d, Disable(d, t), s)
<1>1. Disable(d, t)[s] = Unbootable \/ Disable(d, t)[s] = d[s]
  BY DEF Disable, AvbABData
<1>. QED BY <1>1, SlotFields DEF NoNewTries, Unbootable

LEMMA MarkActiveGrantsToItsSlot ==
  ASSUME NEW d \in AvbABData, NEW s \in Slots, NEW t \in Slots, s # t
  PROVE  NoNewTries(d, MarkActive(d, t), s)
<1>. DEFINE p == IF d[s].priority = MaxPriority THEN d[s].priority - 1
                 ELSE d[s].priority
<1>1. MarkActive(d, t)[s] = [d[s] EXCEPT !.priority = p]
  BY Zenon DEF MarkActive
<1>. HIDE DEF p
<1>2. d[s] \in AvbABSlotData
  BY DEF AvbABData
<1>3. /\ MarkActive(d, t)[s].tries_remaining = d[s].tries_remaining
      /\ MarkActive(d, t)[s].successful_boot = d[s].successful_boot
  BY <1>1, <1>2 DEF AvbABSlotData
<1>. QED BY <1>3, SlotFields DEF NoNewTries

LEMMA MarkSuccessfulGrantsNothing ==
  ASSUME NEW d \in AvbABData, NEW s \in Slots, NEW t \in Slots
  PROVE  NoNewTries(d, MarkSuccessful(d, t), s)
<1>1. \/ MarkSuccessful(d, t)[s] = d[s]
      \/ MarkSuccessful(d, t)[s].tries_remaining = 0
  BY DEF MarkSuccessful, AvbABData, AvbABSlotData
<1>. QED BY <1>1, SlotFields DEF NoNewTries

\* Spending a try leaves the other slot alone and takes exactly one from a
\* bootable slot that is not confirmed.
LEMMA SpendTryEffect ==
  ASSUME NEW d \in AvbABData, NEW s \in Slots, NEW t \in Slots
  PROVE  /\ NoNewTries(d, SpendTry(d, t), s)
         /\ SpendTry(d, t)[s].successful_boot = d[s].successful_boot
         /\ s = t /\ slot_is_bootable(d[t]) /\ ~d[t].successful_boot =>
              SpendTry(d, t)[s].tries_remaining = d[s].tries_remaining - 1
<1>1. CASE ~d[t].successful_boot /\ d[t].tries_remaining > 0
  <2>1. SpendTry(d, t) = [d EXCEPT ![t] = [d[t] EXCEPT !.tries_remaining = d[t].tries_remaining - 1]]
    BY <1>1, Zenon DEF SpendTry
  <2>2. d[s] \in AvbABSlotData /\ d[t] \in AvbABSlotData
    BY DEF AvbABData
  <2>3. s # t => SpendTry(d, t)[s] = d[s]
    BY <2>1 DEF AvbABData
  <2>4. s = t => /\ SpendTry(d, t)[s].tries_remaining = d[s].tries_remaining - 1
                 /\ SpendTry(d, t)[s].successful_boot = d[s].successful_boot
    BY <2>1, <2>2 DEF AvbABData, AvbABSlotData
  <2>. QED BY <1>1, <2>3, <2>4, SlotFields DEF NoNewTries
<1>2. CASE ~(~d[t].successful_boot /\ d[t].tries_remaining > 0)
  <2>1. SpendTry(d, t) = d
    BY <1>2, Zenon DEF SpendTry
  <2>2. ~(slot_is_bootable(d[t]) /\ ~d[t].successful_boot)
    BY <1>2 DEF slot_is_bootable
  <2>. QED BY <2>1, <2>2, SlotFields DEF NoNewTries
<1>. QED BY <1>1, <1>2

\* A slot with a budget of h boots already used stays within the budget.
LEMMA BudgetKept ==
  ASSUME NEW d \in AvbABData, NEW e \in AvbABData, NEW s \in Slots,
         NEW h \in 0..MaxTries, NoNewTries(d, e, s),
         ~d[s].successful_boot => h + d[s].tries_remaining <= MaxTries,
         ~e[s].successful_boot
  PROVE  h + e[s].tries_remaining <= MaxTries
  BY SlotFields, TriesAssumption DEF NoNewTries
-----------------------------------------------------------------------------
(***************************************************************************)
(* The operations of Rpmb, for every number of locations and index values  *)
(***************************************************************************)

\* The blank record of static storage is well formed.
LEMMA BlankType == Blank \in UBOOT_RPMB_RAW_DATA
  BY IndexesAssumption DEF Blank, UBOOT_RPMB_RAW_DATA, Unlock, Lock

\* Each operation of avb_ops_uboot.c keeps record, copy and flag well formed.
LEMMA LoadType ==
  ASSUME RpmbTypeOK, NEW ok \in BOOLEAN, avb_load_info_from_rpmb(ok)
  PROVE  RpmbTypeOK'
  BY DEF RpmbTypeOK, avb_load_info_from_rpmb, Loaded

LEMMA WriteIndexType ==
  ASSUME RpmbTypeOK, NEW copy \in UBOOT_RPMB_RAW_DATA, NEW l \in Locations,
         NEW v \in Indexes, NEW w \in WriteOutcomes, NEW ok \in BOOLEAN,
         write_rollback_index(copy, l, v, w, ok)
  PROVE  RpmbTypeOK'
<1>. DEFINE block == [copy EXCEPT !.rollback_index[l] = v]
<1>1. block \in UBOOT_RPMB_RAW_DATA
  BY DEF UBOOT_RPMB_RAW_DATA
<1>2. /\ rpmb' = IF Written(w) THEN block ELSE rpmb
      /\ cache' = IF Reported(w) THEN Loaded(ok, block, copy) ELSE copy
      /\ support' = (Reported(w) => ok)
  BY Zenon DEF write_rollback_index
<1>. HIDE DEF block
<1>3. rpmb' \in UBOOT_RPMB_RAW_DATA /\ cache' \in UBOOT_RPMB_RAW_DATA
  BY <1>1, <1>2, Zenon DEF Loaded, RpmbTypeOK
<1>4. support' \in BOOLEAN
  BY <1>2, Zenon
<1>. QED BY <1>3, <1>4, Zenon DEF RpmbTypeOK

LEMMA WriteStateType ==
  ASSUME RpmbTypeOK, NEW copy \in UBOOT_RPMB_RAW_DATA, NEW st \in {Unlock, Lock},
         NEW w \in WriteOutcomes, NEW ok1 \in BOOLEAN, NEW ok2 \in BOOLEAN,
         write_device_state(copy, st, ok1, w, ok2)
  PROVE  RpmbTypeOK'
<1>. DEFINE first == Loaded(ok1, rpmb, copy)
            block == [first EXCEPT !.device_state = st]
<1>1. first \in UBOOT_RPMB_RAW_DATA
  BY Zenon DEF Loaded, RpmbTypeOK
<1>2. block \in UBOOT_RPMB_RAW_DATA
  <2>. HIDE DEF first
  <2>. QED BY <1>1 DEF UBOOT_RPMB_RAW_DATA
<1>3. /\ rpmb' = IF Written(w) THEN block ELSE rpmb
      /\ cache' = IF Reported(w) THEN Loaded(ok2, block, first) ELSE first
      /\ support' = IF Reported(w) THEN ok2 ELSE ok1
  BY Zenon DEF write_device_state
<1>. HIDE DEF first, block
<1>. QED BY <1>1, <1>2, <1>3, Zenon DEF Loaded, RpmbTypeOK

LEMMA FlashingType ==
  ASSUME RpmbTypeOK, NEW st \in {Unlock, Lock}, NEW ok0 \in BOOLEAN,
         NEW w \in WriteOutcomes, NEW ok1 \in BOOLEAN, NEW ok2 \in BOOLEAN,
         cb_flashing(st, ok0, ok1, w, ok2)
  PROVE  RpmbTypeOK'
<1>. DEFINE copy == Loaded(ok0, rpmb, cache)
<1>1. \/ write_device_state(copy, st, ok1, w, ok2)
      \/ avb_load_info_from_rpmb(ok0)
  BY Zenon DEF cb_flashing
<1>2. copy \in UBOOT_RPMB_RAW_DATA
  BY Zenon DEF Loaded, RpmbTypeOK
<1>. HIDE DEF copy
<1>. QED BY <1>1, <1>2, WriteStateType, LoadType
-----------------------------------------------------------------------------
(***************************************************************************)
(* The inductive invariant.  AttemptBudget alone is not inductive: what is *)
(* on the partition depends on the local copy of a call in progress, and   *)
(* the next boot on the charge the flow has made but perhaps not yet saved.*)
(***************************************************************************)
Flowing == pc \in {"select", "verify", "rollback"}

\* A block was read and is being worked on.
Working == Flowing \/ (pc = "save" /\ ab_data_orig # Undefined)

\* The copy a call keeps for comparison is the block, or what should have
\* replaced an unusable block.
CopyOfBlock ==
  \/ misc # Invalid /\ ab_data_orig = misc
  \/ misc = Invalid /\ ab_data_orig = avb_ab_data_init /\ lost

CallInv ==
  /\ Flowing => call.op = "flow" /\ ab_data_orig # Undefined
  /\ Working => ab_data \in AvbABData /\ CopyOfBlock
  /\ pc = "save" /\ ab_data_orig = Undefined => call.op = "flow" /\ ret = "IO"
  /\ pc = "rollback" => slot_is_bootable(ab_data[slot])

\* Slot s of metadata d has tries for k boots beyond those it counts.
Room(d, s, k) ==
  ~d[s].successful_boot => handoffs[s] + d[s].tries_remaining + k <= MaxTries

Charged(d) == Room(d, slot, 1)

BudgetInv ==
  /\ misc # Invalid => \A s \in Slots : Room(misc, s, 0)
  /\ Working => \A s \in Slots \ Granted : Room(ab_data, s, 0)
  /\ pc = "save" /\ call.op = "flow" /\ ret \in OKs => Charged(ab_data)
  /\ pc = "handoff" /\ ret \in OKs /\ ~lost => misc # Invalid /\ Charged(misc)

IInv == TypeOK /\ CallInv /\ BudgetInv

\* The constants that stand for no metadata are no metadata.
LEMMA Marks == Invalid \notin AvbABData /\ Undefined \notin AvbABData
  BY InvalidAssumption, UndefinedAssumption

LEMMA InitIInv == Init => IInv
<1>. SUFFICES ASSUME Init PROVE IInv
  OBVIOUS
<1>1. RpmbTypeOK
  <2>1. ASSUME NEW st \in {Unlock, Lock}
        PROVE  [Blank EXCEPT !.device_state = st] \in UBOOT_RPMB_RAW_DATA
    BY BlankType DEF UBOOT_RPMB_RAW_DATA
  <2>. QED BY <2>1, BlankType DEF Init, ColdCache, RpmbTypeOK
<1>2. image \in [Slots -> Images]
  BY DEF Init, Images, ImageStates
<1>3. handoffs \in [Slots -> 0..MaxTries]
  BY TriesAssumption DEF Init
<1>4. call \in Calls /\ 0 \in Slots /\ loc \in 0..NumLocations
  BY LocationsAssumption DEF Init, Calls, Callers, FlowCall, Slots, Locals
<1>5. TypeOK
  <2>1. allow \in BOOLEAN /\ saw \in BOOLEAN
    BY Zenon DEF Init, Locals
  <2>3. lost \in BOOLEAN
    BY Zenon DEF Init
  <2>2. /\ misc \in AvbABData \cup {Invalid} /\ n \in 0..2
        /\ ab_data = Undefined /\ ab_data_orig = Undefined
        /\ pc = "menu" /\ ret = "OK" /\ slot \in Slots
    BY <1>4 DEF Init, Locals
  <2>. QED BY <1>1, <1>2, <1>3, <1>4, <2>1, <2>2, <2>3 DEF TypeOK
<1>6. CallInv /\ BudgetInv
  BY DEF Init, CallInv, BudgetInv, Flowing, Working
<1>. QED BY <1>5, <1>6 DEF IInv
-----------------------------------------------------------------------------
\* What a call does to the metadata it loaded is well formed, and only the
\* slot it activates is granted tries.
LEMMA EditedEffect ==
  ASSUME TypeOK, NEW d \in AvbABData
  PROVE  /\ Edited(d) \in AvbABData
         /\ \A s \in Slots : ~(call.op = "active" /\ s = call.slot)
                               => NoNewTries(d, Edited(d), s)
<1>1. call.op \in Callers /\ call.slot \in Slots
  BY DEF TypeOK, Calls
<1>2. CASE call.op = "active"
  BY <1>1, <1>2, MarkActiveType, MarkActiveGrantsToItsSlot DEF Edited
<1>3. CASE call.op = "unbootable"
  BY <1>1, <1>3, DisableType, DisableGrantsNothing DEF Edited
<1>4. CASE call.op = "successful"
  BY <1>1, <1>4, MarkSuccessfulType, MarkSuccessfulGrantsNothing DEF Edited
<1>5. CASE call.op = "flow"
  <2>1. Edited(d) = d
    BY <1>5 DEF Edited
  <2>. QED BY <2>1, SlotFields DEF NoNewTries
<1>. QED BY <1>1, <1>2, <1>3, <1>4, <1>5 DEF Callers

\* Loading a block, read or written or believed written, that is within the
\* budget.
LEMMA LoadsStep ==
  ASSUME IInv, pc = "load", NEW d \in AvbABData, Loads(d), lost' \in BOOLEAN,
         \/ misc' = d
         \/ misc' = Invalid /\ d = avb_ab_data_init /\ lost',
         handoffs' \in [Slots -> 0..MaxTries],
         \A s \in Slots : Room(d, s, 0)'
  PROVE  IInv'
<1>. USE DEF IInv
<1>. DEFINE e == Normalize(d)
<1>1. e \in AvbABData /\ \A s \in Slots : NoNewTries(d, e, s)
  BY NormalizeType, NormalizeGrantsNothing
<1>. HIDE DEF e
<1>2. /\ Edited(e) \in AvbABData
      /\ \A s \in Slots : ~(call.op = "active" /\ s = call.slot)
                            => NoNewTries(e, Edited(e), s)
  BY <1>1, EditedEffect
<1>3. /\ ab_data' = Edited(e) /\ ab_data_orig' = d
      /\ pc' = IF call.op = "flow" THEN "select" ELSE "save"
      /\ UNCHANGED <<rpmbVars, image, call, slot, n, allow, saw, loc, ret>>
  BY DEF Loads, e
<1>4. TypeOK'
  BY <1>2, <1>3 DEF TypeOK, RpmbTypeOK, rpmbVars
<1>5. CallInv'
  <2>1. ab_data_orig' # Undefined /\ ab_data' \in AvbABData /\ d # Invalid
        /\ pc' \in {"select", "save"} /\ (pc' = "select" => call'.op = "flow")
    BY <1>2, <1>3, Marks
  <2>2. CopyOfBlock'
    BY <1>3, <2>1 DEF CopyOfBlock
  <2>. QED BY <2>1, <2>2 DEF CallInv, Flowing, Working
<1>6. BudgetInv'
  <2>1. ASSUME NEW s \in Slots, s \notin Granted' PROVE Room(ab_data, s, 0)'
    <3>1. ~(call.op = "active" /\ s = call.slot)
      BY <2>1, <1>3, Marks DEF Granted
    <3>2. handoffs'[s] \in 0..MaxTries
      OBVIOUS
    <3>3. ~d[s].successful_boot => handoffs'[s] + d[s].tries_remaining <= MaxTries
      BY <3>2, SlotFields, TriesAssumption DEF Room
    <3>4. ~e[s].successful_boot => handoffs'[s] + e[s].tries_remaining <= MaxTries
      BY <1>1, <3>2, <3>3, BudgetKept
    <3>5. ~Edited(e)[s].successful_boot
            => handoffs'[s] + Edited(e)[s].tries_remaining <= MaxTries
      BY <1>1, <1>2, <3>1, <3>2, <3>4, BudgetKept
    <3>. QED BY <1>2, <1>3, <3>2, <3>5, SlotFields, TriesAssumption DEF Room
  <2>2. pc' \in {"select", "save"} /\ (pc' = "save" => call'.op # "flow")
    BY <1>3
  <2>3. misc' # Invalid => \A s \in Slots : Room(misc, s, 0)'
    BY DEF Room
  <2>. QED BY <2>1, <2>2, <2>3 DEF BudgetInv
<1>. QED BY <1>4, <1>5, <1>6

\* Freshly initialised metadata with no boot counted is within the budget.
LEMMA InitWithinBudget ==
  ASSUME GrantAll
  PROVE  /\ handoffs' \in [Slots -> 0..MaxTries]
         /\ \A s \in Slots : Room(avb_ab_data_init, s, 0)'
  BY TriesAssumption DEF GrantAll, Room, avb_ab_data_init

\* load_metadata() that fails, whatever it left of the local copy.
LEMMA LoadFailsStep ==
  ASSUME IInv, pc = "load", NEW d \in AvbABData \cup {Undefined}, LoadFails(d),
         misc' \in AvbABData \cup {Invalid},
         handoffs' \in [Slots -> 0..MaxTries],
         misc' # Invalid => \A s \in Slots : Room(misc, s, 0)'
  PROVE  IInv'
<1>. USE DEF IInv
<1>1. CASE call.op = "flow"
  <2>1. /\ pc' = "save" /\ ret' = "IO" /\ ab_data' = d /\ ab_data_orig' = Undefined
        /\ UNCHANGED <<n, allow, saw, loc, rpmbVars, image, call, slot, lost>>
    BY <1>1 DEF LoadFails
  <2>2. TypeOK'
    BY <2>1 DEF TypeOK, RpmbTypeOK, rpmbVars
  <2>3. CallInv'
    BY <1>1, <2>1 DEF CallInv, Flowing, Working
  <2>4. BudgetInv'
    BY <2>1 DEF BudgetInv, Flowing, Working, OKs
  <2>. QED BY <2>2, <2>3, <2>4
<1>2. CASE call.op # "flow"
  <2>1. /\ pc' = call.back /\ ret' = "IO" /\ Forget
        /\ UNCHANGED <<rpmbVars, image, call, slot, lost>>
    BY <1>2 DEF LoadFails
  <2>2. pc' \in {"menu", "running"}
    BY <2>1 DEF TypeOK, Calls
  <2>3. TypeOK'
    <3>1. allow' \in BOOLEAN /\ saw' \in BOOLEAN /\ lost' \in BOOLEAN
      BY <2>1, Zenon DEF Forget, TypeOK
    <3>2. loc' \in 0..NumLocations /\ n' \in 0..2
      BY <2>1, LocationsAssumption DEF Forget
    <3>3. ab_data' = Undefined /\ ab_data_orig' = Undefined
      BY <2>1 DEF Forget
    <3>. QED BY <2>1, <2>2, <3>1, <3>2, <3>3 DEF TypeOK, RpmbTypeOK, rpmbVars
  <2>4. CallInv' /\ BudgetInv'
    BY <2>2 DEF CallInv, BudgetInv, Flowing, Working
  <2>. QED BY <2>3, <2>4
<1>. QED BY <1>1, <1>2

LEMMA LoadStep == ASSUME IInv, Load PROVE IInv'
<1>. USE DEF IInv
<1>0. misc # Invalid => \A s \in Slots : Room(misc, s, 0)
  BY DEF BudgetInv
<1>1. CASE LoadValid
  <2>1. pc = "load" /\ misc # Invalid /\ Loads(misc) /\ misc' = misc
        /\ handoffs' = handoffs /\ lost' = lost
    BY <1>1 DEF LoadValid
  <2>2. lost' \in BOOLEAN
    BY <2>1, Zenon DEF TypeOK
  <2>. QED BY <1>0, <2>1, <2>2, LoadsStep DEF TypeOK, Room
<1>2. CASE LoadResets \/ LoadResetLost
  <2>1. /\ pc = "load" /\ GrantAll /\ Loads(avb_ab_data_init)
        /\ \/ misc' = avb_ab_data_init /\ lost' = lost
           \/ misc' = Invalid /\ lost' = TRUE
    BY <1>2 DEF LoadResets, LoadResetLost
  <2>2. lost' \in BOOLEAN
    BY <2>1, Zenon DEF TypeOK
  <2>. QED BY <2>1, <2>2, InitType, InitWithinBudget, LoadsStep
<1>3. CASE LoadResetFails
  <2>1. /\ pc = "load" /\ misc' \in {Invalid, avb_ab_data_init}
        /\ IF misc' = Invalid THEN handoffs' = handoffs ELSE GrantAll
        /\ LoadFails(avb_ab_data_init)
    BY <1>3 DEF LoadResetFails
  <2>2. misc' # Invalid => /\ handoffs' \in [Slots -> 0..MaxTries]
                           /\ \A s \in Slots : Room(misc, s, 0)'
    BY <2>1, InitWithinBudget DEF Room
  <2>3. handoffs' \in [Slots -> 0..MaxTries]
    BY <2>1, <2>2 DEF TypeOK
  <2>. QED BY <2>1, <2>2, <2>3, InitType, LoadFailsStep
<1>4. CASE LoadReadFails
  <2>1. pc = "load" /\ LoadFails(Undefined) /\ misc' = misc /\ handoffs' = handoffs
    BY <1>4 DEF LoadReadFails
  <2>. QED BY <1>0, <2>1, LoadFailsStep DEF TypeOK, Room
<1>. QED BY <1>1, <1>2, <1>3, <1>4 DEF Load
-----------------------------------------------------------------------------
\* Whichever content a write of the block leaves, it is within the budget.
LEMMA StoreStep ==
  ASSUME IInv, pc = "save", MaySave, NEW d \in {misc, SavedBlock, Invalid}, Store(d)
  PROVE  /\ misc' \in AvbABData \cup {Invalid}
         /\ handoffs' \in [Slots -> 0..MaxTries]
         /\ misc' # Invalid => \A s \in Slots : Room(misc, s, 0)'
<1>. USE DEF IInv
<1>1. SavedBlock \in AvbABData \cup {Invalid}
  BY DEF SavedBlock, TypeOK
<1>2. misc' \in AvbABData \cup {Invalid} /\ misc' = d
  BY <1>1 DEF Store, TypeOK
<1>. DEFINE granted(s) == d # Invalid /\ d = SavedBlock /\ s \in Granted
<1>3. /\ handoffs' \in [Slots -> 0..MaxTries]
      /\ \A s \in Slots : granted(s) => handoffs'[s] = 0
      /\ \A s \in Slots : ~granted(s) => handoffs'[s] = handoffs[s]
  BY TriesAssumption DEF Store, TypeOK
<1>4. ASSUME NEW s \in Slots, misc' # Invalid PROVE Room(misc, s, 0)'
  <2>0. d \in AvbABData /\ handoffs[s] \in 0..MaxTries
    BY <1>2, <1>4 DEF TypeOK
  <2>1. CASE granted(s)
    BY <1>2, <1>3, <2>0, <2>1, SlotFields, TriesAssumption DEF Room
  <2>2. CASE ~granted(s) /\ d = misc
    BY <1>2, <1>3, <1>4, <2>2 DEF Room, BudgetInv
  <2>3. CASE ~granted(s) /\ d # misc
    <3>1. d = SavedBlock /\ d = ab_data /\ s \notin Granted
      BY <1>2, <1>4, <2>3 DEF SavedBlock
    <3>2. Working
      BY <3>1 DEF Working, Granted
    <3>3. Room(ab_data, s, 0)
      BY <3>1, <3>2 DEF BudgetInv
    <3>. QED BY <1>2, <1>3, <2>3, <3>1, <3>3 DEF Room
  <2>. QED BY <2>1, <2>2, <2>3
<1>. QED BY <1>2, <1>3, <1>4

\* The locals of a call are gone when it is over.
LEMMA ForgetType ==
  ASSUME Forget
  PROVE  /\ allow' \in BOOLEAN /\ saw' \in BOOLEAN
         /\ loc' \in 0..NumLocations /\ n' \in 0..2
         /\ ab_data' = Undefined /\ ab_data_orig' = Undefined
<1>1. allow' \in BOOLEAN /\ saw' \in BOOLEAN
  BY Zenon DEF Forget
<1>. QED BY <1>1, LocationsAssumption DEF Forget

\* A call that returns; a boot that reports success has left its charge.
LEMMA ReturnStep ==
  ASSUME IInv, pc = "save", Return(ret'), lost' \in BOOLEAN,
         ret' \in {"OK", "OK_WITH_VERIFICATION_ERROR", "NO_BOOTABLE_SLOTS", "IO"},
         misc' \in AvbABData \cup {Invalid},
         handoffs' \in [Slots -> 0..MaxTries],
         misc' # Invalid => \A s \in Slots : Room(misc, s, 0)',
         call.op = "flow" /\ ret' \in OKs /\ ~lost' => misc' # Invalid /\ Charged(misc)'
  PROVE  IInv'
<1>. USE DEF IInv
<1>1. /\ pc' = IF call.op = "flow" THEN "handoff" ELSE call.back
      /\ Forget
      /\ UNCHANGED <<rpmbVars, image, call, slot>>
  BY DEF Return
<1>2. pc' \in {"handoff", "menu", "running"} /\ (pc' = "handoff" => call.op = "flow")
  BY <1>1 DEF TypeOK, Calls
<1>3. TypeOK'
  BY <1>1, <1>2, ForgetType DEF TypeOK, RpmbTypeOK, rpmbVars
<1>4. CallInv' /\ BudgetInv'
  BY <1>2 DEF CallInv, BudgetInv, Flowing, Working
<1>. QED BY <1>3, <1>4

LEMMA SaveStep == ASSUME IInv, Save PROVE IInv'
<1>. USE DEF IInv
<1>0. /\ misc # Invalid => \A s \in Slots : Room(misc, s, 0)
      /\ pc = "save" /\ call.op = "flow" /\ ret \in OKs =>
           /\ Working /\ Charged(ab_data)
           /\ ab_data \in AvbABData /\ CopyOfBlock /\ ab_data_orig # Undefined
  BY DEF BudgetInv, CallInv, Working, OKs
<1>1. CASE SaveSkips
  <2>1. /\ pc = "save" /\ MaySkipSave /\ Return(ret) /\ ret' = ret
        /\ misc' = misc /\ handoffs' = handoffs /\ slot' = slot /\ lost' = lost
    BY <1>1 DEF SaveSkips, Return
  <2>2. call.op = "flow" /\ ret \in OKs /\ ~lost => misc' # Invalid /\ Charged(misc)'
    BY <1>0, <2>1 DEF MaySkipSave, CopyOfBlock, Charged, Room
  <2>3. misc' # Invalid => \A s \in Slots : Room(misc, s, 0)'
    BY <1>0, <2>1 DEF Room
  <2>4. lost' \in BOOLEAN
    BY <2>1, Zenon DEF TypeOK
  <2>. QED BY <2>1, <2>2, <2>3, <2>4, ReturnStep DEF TypeOK
<1>2. CASE SaveWrites
  <2>1. /\ pc = "save" /\ MaySave /\ Store(SavedBlock) /\ Return(ret)
        /\ ret' = ret /\ slot' = slot /\ lost' = FALSE
    BY <1>2 DEF SaveWrites, Return
  <2>2. /\ misc' \in AvbABData \cup {Invalid}
        /\ handoffs' \in [Slots -> 0..MaxTries]
        /\ misc' # Invalid => \A s \in Slots : Room(misc, s, 0)'
    BY <2>1, StoreStep
  <2>3. call.op = "flow" /\ ret \in OKs => misc' # Invalid /\ Charged(misc)'
    <3>1. SUFFICES ASSUME call.op = "flow", ret \in OKs
                   PROVE  misc' # Invalid /\ Charged(misc)'
      OBVIOUS
    <3>2. misc' = ab_data /\ ab_data \in AvbABData
      BY <1>0, <2>1, <3>1, Marks DEF Store, SavedBlock
    <3>3. slot \in Slots
      BY DEF TypeOK
    <3>4. ~ab_data[slot].successful_boot => slot \notin Granted
      BY <1>0, <2>1, <3>1, <3>3 DEF Granted
    <3>5. ~ab_data[slot].successful_boot => handoffs'[slot] = handoffs[slot]
      BY <2>1, <3>3, <3>4 DEF Store
    <3>. QED BY <1>0, <2>1, <3>1, <3>2, <3>5, Marks DEF Charged, Room
  <2>. QED BY <2>1, <2>2, <2>3, ReturnStep DEF TypeOK
<1>3. CASE SaveFails
  <2>1. PICK d \in {misc, SavedBlock, Invalid} : Store(d)
    BY <1>3 DEF SaveFails
  <2>2. pc = "save" /\ MaySave /\ Return("IO") /\ ret' = "IO" /\ lost' = FALSE
    BY <1>3 DEF SaveFails, Return
  <2>3. /\ misc' \in AvbABData \cup {Invalid}
        /\ handoffs' \in [Slots -> 0..MaxTries]
        /\ misc' # Invalid => \A s \in Slots : Room(misc, s, 0)'
    BY <2>1, <2>2, StoreStep
  <2>. QED BY <2>2, <2>3, ReturnStep DEF OKs
<1>4. CASE SaveLoses
  <2>1. /\ pc = "save" /\ Return(ret) /\ ret' = ret
        /\ misc' \in {misc, Invalid} /\ handoffs' = handoffs
        /\ lost' = (ret \in OKs)
    BY <1>4 DEF SaveLoses, Return
  <2>2. lost' \in BOOLEAN
    BY <2>1
  <2>3. misc' # Invalid => \A s \in Slots : Room(misc, s, 0)'
    BY <1>0, <2>1 DEF Room
  <2>. QED BY <2>1, <2>2, <2>3, ReturnStep DEF TypeOK
<1>. QED BY <1>1, <1>2, <1>3, <1>4 DEF Save

\* Power fails, also within a write of the block.
LEMMA RestartStep ==
  ASSUME IInv, Restart,
         misc' \in AvbABData \cup {Invalid},
         handoffs' \in [Slots -> 0..MaxTries],
         misc' # Invalid => \A s \in Slots : Room(misc, s, 0)'
  PROVE  IInv'
<1>. USE DEF IInv
<1>1. pc' = "menu" /\ cache' = Blank /\ support' \in BOOLEAN /\ Forget
      /\ call' = FlowCall /\ ret' = "OK" /\ slot' = 0 /\ lost' \in BOOLEAN
      /\ rpmb' = rpmb /\ image' = image
  BY Zenon DEF Restart
<1>2. call' \in Calls /\ slot' \in Slots
  BY <1>1 DEF Calls, Callers, FlowCall, Slots
<1>3. TypeOK'
  BY <1>1, <1>2, BlankType, ForgetType DEF TypeOK, RpmbTypeOK
<1>4. CallInv' /\ BudgetInv'
  BY <1>1 DEF CallInv, BudgetInv, Flowing, Working
<1>. QED BY <1>3, <1>4
-----------------------------------------------------------------------------
\* A step of the boot flow between the load and the save.
LEMMA WithinFlow ==
  ASSUME IInv, Flowing,
         UNCHANGED <<misc, image, call, ab_data_orig, lost, handoffs>>,
         RpmbTypeOK', slot' \in Slots, n' \in 0..2, allow' \in BOOLEAN,
         saw' \in BOOLEAN, loc' \in 0..NumLocations,
         ret' \in {"OK", "OK_WITH_VERIFICATION_ERROR", "NO_BOOTABLE_SLOTS", "IO"},
         pc' \in {"select", "verify", "rollback", "save"},
         ab_data' \in AvbABData,
         \A s \in Slots : NoNewTries(ab_data, ab_data', s),
         pc' = "rollback" => slot_is_bootable(ab_data'[slot']),
         pc' = "save" /\ ret' \in OKs => Charged(ab_data)'
  PROVE  IInv'
<1>. USE DEF IInv
<1>1. /\ call.op = "flow" /\ ab_data_orig # Undefined /\ Working
      /\ ab_data \in AvbABData /\ CopyOfBlock
  BY DEF CallInv, Working
<1>0. lost' \in BOOLEAN
  BY Zenon DEF TypeOK
<1>2. TypeOK'
  BY <1>0 DEF TypeOK
<1>3. CallInv'
  BY <1>1 DEF CallInv, CopyOfBlock, Flowing, Working
<1>4. BudgetInv'
  <2>1. ASSUME NEW s \in Slots PROVE Room(ab_data, s, 0)'
    <3>1. s \in Granted => ab_data[s].successful_boot
      BY <1>1 DEF Granted
    <3>2. handoffs[s] \in 0..MaxTries /\ Room(ab_data, s, 0)
      BY <1>1, <3>1 DEF TypeOK, BudgetInv, Room
    <3>3. ~ab_data[s].successful_boot
            => handoffs[s] + ab_data[s].tries_remaining <= MaxTries
      BY <1>1, <3>2, SlotFields, TriesAssumption DEF Room
    <3>4. ~ab_data'[s].successful_boot
            => handoffs[s] + ab_data'[s].tries_remaining <= MaxTries
      BY <1>1, <3>2, <3>3, BudgetKept
    <3>. QED BY <3>2, <3>4, SlotFields, TriesAssumption DEF Room
  <2>2. misc' # Invalid => \A s \in Slots : Room(misc, s, 0)'
    BY DEF BudgetInv, Room
  <2>. QED BY <2>1, <2>2 DEF BudgetInv
<1>. QED BY <1>2, <1>3, <1>4

\* The steps that leave the metadata alone and do not conclude the flow.
LEMMA WithinFlowSameData ==
  ASSUME IInv, Flowing,
         UNCHANGED <<misc, image, call, ab_data, ab_data_orig, allow, lost, handoffs>>,
         RpmbTypeOK', slot' \in Slots, n' \in 0..2, saw' \in BOOLEAN,
         loc' \in 0..NumLocations,
         ret' \in {"OK", "OK_WITH_VERIFICATION_ERROR", "NO_BOOTABLE_SLOTS", "IO"},
         \/ pc' \in {"select", "verify"}
         \/ pc' = "rollback" /\ slot_is_bootable(ab_data[slot'])
         \/ pc' = "save" /\ ret' \notin OKs
  PROVE  IInv'
<1>1. ab_data \in AvbABData
  BY DEF IInv, CallInv, Working
<1>2. \A s \in Slots : NoNewTries(ab_data, ab_data, s)
  BY <1>1, SlotFields DEF NoNewTries
<1>3. allow' \in BOOLEAN
  BY Zenon DEF IInv, TypeOK
<1>. QED BY <1>1, <1>2, <1>3, WithinFlow

LEMMA SelectStep == ASSUME IInv, SelectSlot \/ SelectFindsNone PROVE IInv'
<1>1. RpmbTypeOK' /\ slot' \in Slots
  BY DEF IInv, TypeOK, SelectSlot, SelectFindsNone, RpmbTypeOK, rpmbVars,
         ActiveSlot, Slots
<1>2. n \in 0..2 /\ saw \in BOOLEAN /\ loc \in 0..NumLocations
      /\ ret \in {"OK", "OK_WITH_VERIFICATION_ERROR", "NO_BOOTABLE_SLOTS", "IO"}
  BY DEF IInv, TypeOK
<1>3. Flowing
  BY DEF SelectSlot, SelectFindsNone, Flowing
<1>. QED BY <1>1, <1>2, <1>3, WithinFlowSameData
         DEF SelectSlot, SelectFindsNone, ToSave, flowVars, OKs

LEMMA VerifyStep ==
  ASSUME IInv,
         \/ VerifySkips \/ VerifyFails \/ VerifyFindsNone
         \/ \E r \in Verdicts :
              VerifyRejects(r) \/ \E ok \in BOOLEAN : VerifyAccepts(r, ok)
  PROVE  IInv'
<1>0. /\ RpmbTypeOK /\ slot \in Slots
      /\ n \in 0..2 /\ saw \in BOOLEAN /\ allow \in BOOLEAN /\ loc \in 0..NumLocations
      /\ ret \in {"OK", "OK_WITH_VERIFICATION_ERROR", "NO_BOOTABLE_SLOTS", "IO"}
  BY DEF IInv, TypeOK
<1>1. CASE VerifySkips
  <2>1. Flowing /\ RpmbTypeOK' /\ n' \in 0..2 /\ pc' = "verify"
    BY <1>0, <1>1 DEF VerifySkips, Flowing, RpmbTypeOK, rpmbVars
  <2>. QED BY <1>0, <1>1, <2>1, WithinFlowSameData DEF VerifySkips
<1>2. CASE VerifyFails \/ VerifyFindsNone
  <2>1. Flowing /\ RpmbTypeOK' /\ pc' = "save" /\ ret' \in {"IO", "NO_BOOTABLE_SLOTS"}
    BY <1>0, <1>2 DEF VerifyFails, VerifyFindsNone, Verifying, ToSave, Flowing,
                      RpmbTypeOK, rpmbVars
  <2>. QED BY <1>0, <1>2, <2>1, WithinFlowSameData
           DEF VerifyFails, VerifyFindsNone, flowVars, OKs
<1>3. ASSUME NEW r \in Verdicts, VerifyRejects(r) PROVE IInv'
  <2>1. /\ Flowing /\ RpmbTypeOK' /\ pc' = "verify"
        /\ n' \in 0..2 /\ slot' \in Slots
        /\ ab_data' = Disable(ab_data, slot)
        /\ UNCHANGED <<misc, image, call, ab_data_orig, lost, handoffs, allow, saw, loc,
                       ret>>
    BY <1>0, <1>3 DEF VerifyRejects, Verifying, Flowing, RpmbTypeOK, rpmbVars,
                      Other, Slots
  <2>2. ab_data \in AvbABData
    BY <2>1 DEF IInv, CallInv, Working
  <2>3. ab_data' \in AvbABData /\ \A s \in Slots : NoNewTries(ab_data, ab_data', s)
    BY <1>0, <2>1, <2>2, DisableType, DisableGrantsNothing
  <2>. QED BY <1>0, <2>1, <2>3, WithinFlow
<1>4. ASSUME NEW r \in Verdicts, NEW ok \in BOOLEAN,
             VerifyAccepts(r, ok)
      PROVE  IInv'
  <2>1. saw' \in BOOLEAN
    BY <1>4, Zenon DEF VerifyAccepts
  <2>2. RpmbTypeOK'
    BY <1>0, <1>4, LoadType DEF VerifyAccepts
  <2>3. Flowing /\ pc' = "rollback" /\ slot_is_bootable(ab_data[slot])
        /\ UNCHANGED <<misc, image, call, ab_data, ab_data_orig, slot, n, allow, loc,
                       ret, lost, handoffs>>
    BY <1>4 DEF VerifyAccepts, Verifying, Flowing
  <2>. QED BY <1>0, <2>1, <2>2, <2>3, WithinFlowSameData
<1>. QED BY <1>1, <1>2, <1>3, <1>4

LEMMA RollbackStep ==
  ASSUME IInv,
         \/ RollbackSkips \/ RollbackReadFails
         \/ \E ok \in BOOLEAN : RollbackUnlocked(ok)
         \/ \E w \in WriteOutcomes, ok \in BOOLEAN : RollbackWrites(w, ok)
  PROVE  IInv'
<1>0. /\ RpmbTypeOK /\ slot \in Slots /\ image \in [Slots -> Images]
      /\ n \in 0..2 /\ saw \in BOOLEAN /\ loc \in 0..NumLocations
      /\ ret \in {"OK", "OK_WITH_VERIFICATION_ERROR", "NO_BOOTABLE_SLOTS", "IO"}
      /\ pc = "rollback" => slot_is_bootable(ab_data[slot])
  BY DEF IInv, TypeOK, CallInv
<1>1. loc < NumLocations => loc + 1 \in 0..NumLocations /\ loc \in Locations
  BY <1>0, LocationsAssumption DEF Locations
<1>2. CASE RollbackSkips
  <2>1. Flowing /\ RpmbTypeOK' /\ pc' = "rollback" /\ ret' = ret
        /\ loc' \in 0..NumLocations /\ slot_is_bootable(ab_data[slot])
    BY <1>0, <1>1, <1>2 DEF RollbackSkips, NextLocation, Flowing, RpmbTypeOK, rpmbVars
  <2>. QED BY <1>0, <1>2, <2>1, WithinFlowSameData DEF RollbackSkips
<1>3. CASE RollbackReadFails
  <2>1. Flowing /\ RpmbTypeOK' /\ pc' = "save" /\ ret' = "IO"
    BY <1>0, <1>3 DEF RollbackReadFails, ToSave, Flowing, RpmbTypeOK, rpmbVars
  <2>. QED BY <1>0, <1>3, <2>1, WithinFlowSameData DEF RollbackReadFails, flowVars, OKs
<1>4. ASSUME NEW ok \in BOOLEAN, RollbackUnlocked(ok) PROVE IInv'
  <2>1. RpmbTypeOK'
    BY <1>0, <1>4, LoadType DEF RollbackUnlocked
  <2>2. Flowing /\ pc' = "rollback" /\ ret' = ret /\ loc' \in 0..NumLocations
        /\ slot_is_bootable(ab_data[slot])
    BY <1>0, <1>1, <1>4 DEF RollbackUnlocked, UpdateDue, NextLocation, Flowing
  <2>. QED BY <1>0, <1>4, <2>1, <2>2, WithinFlowSameData DEF RollbackUnlocked
<1>5. ASSUME NEW w \in WriteOutcomes, NEW ok \in BOOLEAN, RollbackWrites(w, ok)
      PROVE  IInv'
  <2>1. pc = "rollback" /\ loc \in Locations /\ SlotIndex \in Indexes
    <3>1. pc = "rollback" /\ loc \in Locations
      BY <1>1, <1>5 DEF RollbackWrites, UpdateDue
    <3>. QED BY <1>0, <3>1 DEF SlotIndex, Images
  <2>2. RpmbTypeOK'
    BY <1>0, <1>5, <2>1, WriteIndexType DEF RollbackWrites, RpmbTypeOK
  <2>3. /\ loc' \in 0..NumLocations
        /\ \/ pc' = "rollback" /\ ret' = ret
           \/ pc' = "save" /\ ret' = "IO"
    BY <1>0, <1>1, <1>5, <2>1 DEF RollbackWrites, UpdateDue, NextLocation, ToSave
  <2>4. UNCHANGED <<misc, image, call, ab_data, ab_data_orig, slot, n, allow, saw,
                    lost, handoffs>>
    BY <1>5 DEF RollbackWrites
  <2>5. Flowing
    BY <2>1 DEF Flowing
  <2>6. \/ pc' = "rollback" /\ slot_is_bootable(ab_data[slot'])
        \/ pc' = "save" /\ ret' \notin OKs
    BY <1>0, <2>1, <2>3, <2>4 DEF OKs
  <2>7. ret' \in {"OK", "OK_WITH_VERIFICATION_ERROR", "NO_BOOTABLE_SLOTS", "IO"}
    BY <1>0, <2>3
  <2>. QED BY <1>0, <2>2, <2>3, <2>4, <2>5, <2>6, <2>7, WithinFlowSameData
<1>. QED BY <1>2, <1>3, <1>4, <1>5

\* Concluding the flow takes one try from a slot that is not confirmed.
LEMMA ConcludeStep == ASSUME IInv, Conclude PROVE IInv'
<1>0. /\ RpmbTypeOK /\ slot \in Slots /\ handoffs \in [Slots -> 0..MaxTries]
      /\ n \in 0..2 /\ allow \in BOOLEAN /\ saw \in BOOLEAN /\ loc \in 0..NumLocations
  BY DEF IInv, TypeOK
<1>1. /\ pc = "rollback" /\ Flowing /\ Working /\ slot_is_bootable(ab_data[slot])
      /\ ab_data \in AvbABData /\ call.op = "flow" /\ ab_data_orig # Undefined
  BY DEF Conclude, IInv, CallInv, Flowing, Working
<1>2. /\ ab_data' = SpendTry(ab_data, slot) /\ pc' = "save"
      /\ ret' \in {"OK", "OK_WITH_VERIFICATION_ERROR"}
      /\ UNCHANGED <<rpmbVars, misc, image, call, ab_data_orig, slot, n, allow, saw,
                     loc, lost, handoffs>>
  BY DEF Conclude, ToSave
<1>3. ab_data' \in AvbABData /\ \A s \in Slots : NoNewTries(ab_data, ab_data', s)
  BY <1>0, <1>1, <1>2, SpendTryType, SpendTryEffect
<1>4. Charged(ab_data)'
  <2>1. slot \in Granted => ab_data[slot].successful_boot
    BY <1>1 DEF Granted
  <2>2. Room(ab_data, slot, 0)
    BY <1>0, <1>1, <2>1 DEF IInv, BudgetInv, Room
  <2>3. /\ ab_data'[slot].successful_boot = ab_data[slot].successful_boot
        /\ ~ab_data[slot].successful_boot =>
             ab_data'[slot].tries_remaining = ab_data[slot].tries_remaining - 1
    BY <1>0, <1>1, <1>2, SpendTryEffect
  <2>4. handoffs[slot] \in Int /\ ab_data[slot].tries_remaining \in Int
    BY <1>0, <1>1, SlotFields, TriesAssumption
  <2>. QED BY <1>2, <2>2, <2>3, <2>4, TriesAssumption DEF Charged, Room
<1>5. RpmbTypeOK'
  BY <1>0, <1>2 DEF RpmbTypeOK, rpmbVars
<1>. QED BY <1>0, <1>1, <1>2, <1>3, <1>4, <1>5, WithinFlow
-----------------------------------------------------------------------------
\* The steps outside a call that leave the metadata and its history alone and
\* end where no copy of the metadata is held.
LEMMA OutsideStep ==
  ASSUME IInv, RpmbTypeOK', image' \in [Slots -> Images], call' \in Calls,
         slot' \in Slots, allow' \in BOOLEAN, lost' \in BOOLEAN,
         UNCHANGED <<misc, ab_data, ab_data_orig, n, saw, loc, handoffs>>,
         ret' \in {"OK", "OK_WITH_VERIFICATION_ERROR", "NO_BOOTABLE_SLOTS", "IO"},
         pc' \in {"menu", "load", "running", "halted"}
  PROVE  IInv'
<1>. USE DEF IInv
<1>1. saw' \in BOOLEAN
  BY Zenon DEF TypeOK
<1>2. TypeOK'
  BY <1>1 DEF TypeOK
<1>3. CallInv' /\ BudgetInv'
  BY DEF CallInv, BudgetInv, Flowing, Working, Room
<1>. QED BY <1>2, <1>3

LEMMA StartBootStep ==
  ASSUME IInv, NEW ok0 \in BOOLEAN, NEW ok \in BOOLEAN, StartBoot(ok0, ok)
  PROVE  IInv'
<1>1. allow' \in BOOLEAN /\ lost' \in BOOLEAN
  BY Zenon DEF StartBoot, DeviceUnlocked
<1>2. RpmbTypeOK'
  BY DEF StartBoot, Loaded, IInv, TypeOK, RpmbTypeOK
<1>3. call' \in Calls
  BY DEF StartBoot, FlowCall, Calls, Callers, Slots
<1>4. slot' \in Slots /\ image' \in [Slots -> Images] /\ pc' = "load" /\ ret' = "OK"
  BY DEF StartBoot, IInv, TypeOK
<1>. QED BY <1>1, <1>2, <1>3, <1>4, OutsideStep DEF StartBoot

\* A boot of an unconfirmed slot is counted, and was charged before.
LEMMA BootStep == ASSUME IInv, NEW ok \in BOOLEAN, Boot(ok) PROVE IInv'
<1>. USE DEF IInv
<1>0. /\ pc = "handoff" /\ pc' = "running" /\ ret \in OKs
      /\ handoffs' = IF lost \/ misc[slot].successful_boot THEN handoffs
                     ELSE [handoffs EXCEPT ![slot] = @ + 1]
      /\ UNCHANGED <<misc, image, call, flowVars, slot, ret>>
  BY DEF Boot, BootStateAllows, OKs
<1>1. /\ misc # Invalid => misc \in AvbABData /\ \A s \in Slots : Room(misc, s, 0)
      /\ ~lost => misc # Invalid /\ Charged(misc)
  BY <1>0 DEF BudgetInv, TypeOK
<1>2. RpmbTypeOK'
  BY LoadType DEF Boot, TypeOK
<1>3. /\ handoffs' \in [Slots -> 0..MaxTries]
      /\ misc' # Invalid => \A s \in Slots : Room(misc, s, 0)'
  <2>0. slot \in Slots /\ handoffs \in [Slots -> 0..MaxTries]
    BY DEF TypeOK
  <2>1. CASE lost \/ misc[slot].successful_boot
    BY <1>0, <1>1, <2>0, <2>1 DEF Room
  <2>2. CASE ~(lost \/ misc[slot].successful_boot)
    <3>1. handoffs[slot] + misc[slot].tries_remaining + 1 <= MaxTries
      BY <1>1, <2>2 DEF Charged, Room
    <3>2. handoffs[slot] \in Nat /\ misc[slot].tries_remaining \in Nat
      BY <1>1, <2>0, <2>2, SlotFields, TriesAssumption
    <3>3. handoffs' = [handoffs EXCEPT ![slot] = @ + 1]
      BY <1>0, <2>2
    <3>4. handoffs[slot] + 1 \in 0..MaxTries
      BY <3>1, <3>2, TriesAssumption
    <3>5. ASSUME NEW s \in Slots PROVE Room(misc, s, 0)'
      BY <1>0, <1>1, <2>0, <3>1, <3>2, <3>3 DEF Room
    <3>. QED BY <2>0, <3>3, <3>4, <3>5
  <2>. QED BY <2>1, <2>2
<1>4. TypeOK'
  <2>1. allow' \in BOOLEAN /\ saw' \in BOOLEAN /\ lost' \in BOOLEAN
    BY <1>0, Zenon DEF Boot, TypeOK, flowVars
  <2>. QED BY <1>0, <1>2, <1>3, <2>1 DEF TypeOK, flowVars
<1>5. CallInv' /\ BudgetInv'
  BY <1>0, <1>3 DEF CallInv, BudgetInv, Flowing, Working
<1>. QED BY <1>4, <1>5

LEMMA HaltStep == ASSUME IInv, NEW ok \in BOOLEAN, Halt(ok) PROVE IInv'
<1>1. RpmbTypeOK'
  BY LoadType DEF Halt, IInv, TypeOK
<1>2. /\ UNCHANGED <<misc, image, call, ab_data, ab_data_orig, n, allow, saw, loc,
                     handoffs>>
      /\ pc' = "halted" /\ slot' = 0 /\ ret' = "OK"
  BY DEF Halt, flowVars
<1>3. allow' \in BOOLEAN /\ lost' \in BOOLEAN
  BY <1>2, Zenon DEF Halt, IInv, TypeOK
<1>4. /\ image' \in [Slots -> Images] /\ call' \in Calls /\ slot' \in Slots
      /\ ret' \in {"OK", "OK_WITH_VERIFICATION_ERROR", "NO_BOOTABLE_SLOTS", "IO"}
  BY <1>2 DEF IInv, TypeOK, Slots
<1>. QED BY <1>1, <1>2, <1>3, <1>4, OutsideStep

\* The other users of the metadata, fastboot and the running OS.
LEMMA CallMarkStep ==
  ASSUME IInv, NEW op \in Callers, NEW s \in Slots, NEW back \in {"menu", "running"},
         CallMark(op, s, back)
  PROVE  IInv'
<1>1. RpmbTypeOK' /\ image' \in [Slots -> Images] /\ slot' \in Slots
      /\ pc' = "load" /\ ret' = "OK"
      /\ UNCHANGED <<misc, ab_data, ab_data_orig, n, allow, saw, loc, handoffs>>
  BY DEF CallMark, IInv, TypeOK, RpmbTypeOK, rpmbVars, flowVars
<1>2. allow' \in BOOLEAN /\ lost' \in BOOLEAN
  BY <1>1, Zenon DEF CallMark, IInv, TypeOK
<1>3. call' \in Calls
  BY DEF CallMark, Calls
<1>. QED BY <1>1, <1>2, <1>3, OutsideStep

LEMMA OtherStep ==
  ASSUME IInv,
         \/ \E s \in Slots : FastbootSetActive(s) \/ OsActivates(s) \/ ImageDecays(s)
         \/ FastbootQuery
         \/ \E st \in {Unlock, Lock}, ok0, ok1, ok2 \in BOOLEAN, w \in WriteOutcomes :
              FastbootFlashing(st, ok0, ok1, w, ok2)
         \/ OsConfirms \/ OsRetires
         \/ \E im \in Images : OsWritesImage(im)
  PROVE  IInv'
<1>0. /\ TypeOK /\ RpmbTypeOK /\ slot \in Slots /\ image \in [Slots -> Images]
      /\ call \in Calls
      /\ ret \in {"OK", "OK_WITH_VERIFICATION_ERROR", "NO_BOOTABLE_SLOTS", "IO"}
  BY DEF IInv, TypeOK
<1>a. allow \in BOOLEAN /\ lost \in BOOLEAN
  BY Zenon DEF IInv, TypeOK
<1>1. ASSUME NEW s \in Slots, FastbootSetActive(s) \/ OsActivates(s) PROVE IInv'
  BY <1>1, CallMarkStep DEF FastbootSetActive, OsActivates, Callers
<1>2. CASE OsConfirms \/ OsRetires
  <2>1. Other(slot) \in Slots
    BY <1>0 DEF Other, Slots
  <2>. QED BY <1>0, <1>2, <2>1, CallMarkStep DEF OsConfirms, OsRetires, Callers
<1>3. ASSUME NEW s \in Slots, ImageDecays(s) PROVE IInv'
  <2>1. pc' = "running" /\ image' = [image EXCEPT ![s].state = "unverified"]
        /\ UNCHANGED <<rpmbVars, misc, call, flowVars, slot, ret, lost, handoffs>>
    BY <1>3 DEF ImageDecays
  <2>2. image' \in [Slots -> Images]
    <3>1. [image[s] EXCEPT !.state = "unverified"] \in Images
      BY <1>0 DEF Images, ImageStates
    <3>2. image' = [image EXCEPT ![s] = [image[s] EXCEPT !.state = "unverified"]]
      BY <2>1
    <3>. QED BY <1>0, <3>1, <3>2
  <2>3. allow' \in BOOLEAN /\ lost' \in BOOLEAN
    BY <1>a, <2>1, Zenon DEF flowVars
  <2>. QED BY <1>0, <2>1, <2>2, <2>3, OutsideStep DEF RpmbTypeOK, rpmbVars, flowVars
<1>4. ASSUME NEW im \in Images, OsWritesImage(im) PROVE IInv'
  <2>1. pc' = "running" /\ image' = [image EXCEPT ![Other(slot)] = im]
        /\ UNCHANGED <<rpmbVars, misc, call, flowVars, slot, ret, lost, handoffs>>
    BY <1>4 DEF OsWritesImage
  <2>2. image' \in [Slots -> Images]
    BY <1>0, <1>4, <2>1
  <2>3. allow' \in BOOLEAN /\ lost' \in BOOLEAN
    BY <1>a, <2>1, Zenon DEF flowVars
  <2>. QED BY <1>0, <2>1, <2>2, <2>3, OutsideStep DEF RpmbTypeOK, rpmbVars, flowVars
<1>5. ASSUME NEW st \in {Unlock, Lock}, NEW ok0 \in BOOLEAN, NEW ok1 \in BOOLEAN,
             NEW ok2 \in BOOLEAN, NEW w \in WriteOutcomes,
             FastbootFlashing(st, ok0, ok1, w, ok2)
      PROVE  IInv'
  <2>1. pc' = "menu" /\ cb_flashing(st, ok0, ok1, w, ok2)
        /\ UNCHANGED <<misc, image, call, flowVars, slot, ret, lost, handoffs>>
    BY <1>5 DEF FastbootFlashing
  <2>2. RpmbTypeOK'
    BY <1>0, <2>1, FlashingType
  <2>3. allow' \in BOOLEAN /\ lost' \in BOOLEAN
    BY <1>a, <2>1, Zenon DEF flowVars
  <2>. QED BY <1>0, <2>1, <2>2, <2>3, OutsideStep DEF flowVars
<1>6. CASE FastbootQuery
  <2>1. /\ pc = "menu" /\ pc' = "menu" /\ misc' = avb_ab_data_init
        /\ GrantAll
        /\ UNCHANGED <<rpmbVars, image, call, flowVars, slot, ret, lost>>
    BY <1>6 DEF FastbootQuery
  <2>2. handoffs' \in [Slots -> 0..MaxTries] /\ \A s \in Slots : Room(misc, s, 0)'
    BY <2>1, InitWithinBudget DEF Room
  <2>3. allow' \in BOOLEAN /\ saw' \in BOOLEAN /\ lost' \in BOOLEAN
    BY <1>0, <2>1, Zenon DEF flowVars, TypeOK
  <2>4. TypeOK'
    BY <1>0, <2>1, <2>2, <2>3, InitType DEF TypeOK, RpmbTypeOK, rpmbVars, flowVars
  <2>5. CallInv' /\ BudgetInv'
    BY <2>1, <2>2 DEF CallInv, BudgetInv, Flowing, Working
  <2>. QED BY <2>4, <2>5 DEF IInv
<1>. QED BY <1>1, <1>2, <1>3, <1>4, <1>5, <1>6

LEMMA PowerStep == ASSUME IInv, PowerCycle \/ PowerFailsInSave PROVE IInv'
<1>1. CASE PowerCycle
  <2>1. Restart /\ misc' = misc /\ handoffs' = handoffs
    BY <1>1 DEF PowerCycle
  <2>. QED BY <2>1, RestartStep DEF IInv, TypeOK, BudgetInv, Room
<1>2. CASE PowerFailsInSave
  <2>1. PICK d \in {SavedBlock, Invalid} : Store(d)
    BY <1>2 DEF PowerFailsInSave
  <2>2. pc = "save" /\ MaySave /\ Restart
    BY <1>2 DEF PowerFailsInSave
  <2>. QED BY <2>1, <2>2, StoreStep, RestartStep
<1>. QED BY <1>1, <1>2
-----------------------------------------------------------------------------
LEMMA IInvStep == ASSUME IInv, [Next]_vars PROVE IInv'
<1>1. CASE Next
  BY <1>1, LoadStep, SaveStep, StartBootStep, SelectStep, VerifyStep, RollbackStep,
     ConcludeStep, BootStep, HaltStep, OtherStep, PowerStep DEF Next
<1>2. CASE UNCHANGED vars
  <2>1. allow' = allow /\ saw' = saw /\ support' = support /\ lost' = lost
    BY <1>2 DEF vars, flowVars, rpmbVars
  <2>2. allow' \in BOOLEAN /\ saw' \in BOOLEAN /\ support' \in BOOLEAN
        /\ lost' \in BOOLEAN
    BY <2>1, Zenon DEF IInv, TypeOK, RpmbTypeOK
  <2>3. TypeOK'
    BY <1>2, <2>2 DEF IInv, TypeOK, RpmbTypeOK, vars, flowVars, rpmbVars
  <2>4. CallInv' /\ BudgetInv'
    BY <1>2 DEF IInv, CallInv, BudgetInv, CopyOfBlock, Flowing, Working, Room, Charged,
                Granted, vars, flowVars, rpmbVars
  <2>. QED BY <2>3, <2>4 DEF IInv
<1>. QED BY <1>1, <1>2

THEOREM IInvHolds == Spec => []IInv
<1>1. Init => IInv
  BY InitIInv
<1>2. IInv /\ [Next]_vars => IInv'
  BY IInvStep
<1>. QED BY <1>1, <1>2, PTL DEF Spec

\* Every variable keeps its type; in particular, no slot is handed over to more
\* than MaxTries times between two grants, not counting the boots whose save
\* failed unnoticed.
THEOREM TypeCorrect == Spec => []TypeOK
<1>1. IInv => TypeOK
  BY DEF IInv
<1>. QED BY <1>1, IInvHolds, PTL

\* avb_ab_flow() and the mark functions never let an unconfirmed slot be
\* handed over to more often than it was granted tries, whatever power
\* failures and reported I/O errors come between the decrement, its save and
\* the boot, but for the boots whose save failed and reported success.
THEOREM AttemptBudgetHolds == Spec => []AttemptBudget
<1>1. IInv => AttemptBudget
  <2>. SUFFICES ASSUME IInv, misc # Invalid, NEW s \in Slots, ~misc[s].successful_boot
                PROVE  handoffs[s] + misc[s].tries_remaining <= MaxTries
    BY DEF AttemptBudget
  <2>1. handoffs[s] \in 0..MaxTries /\ misc \in AvbABData /\ Room(misc, s, 0)
    BY DEF IInv, TypeOK, BudgetInv
  <2>. QED BY <2>1, SlotFields, TriesAssumption DEF Room
<1>. QED BY <1>1, IInvHolds, PTL
-----------------------------------------------------------------------------
(***************************************************************************)
(* The metadata stay legal                                                 *)
(***************************************************************************)

\* A strict preference between the slots.
Strict(d) == d[0].priority = d[1].priority => d[0].priority = 0

\* A slot that is confirmed has no tries left.
Settled(d) == \A s \in Slots : ~(d[s].tries_remaining > 0 /\ d[s].successful_boot)

Legal(d) == Strict(d) /\ Settled(d)

LegalInv ==
  /\ misc # Invalid => Legal(misc)
  /\ ab_data # Undefined => Legal(ab_data)
-----------------------------------------------------------------------------
(***************************************************************************)
(* Every operation of avb_ab_flow.c leaves legal metadata legal            *)
(***************************************************************************)

LEMMA InitLegal == Legal(avb_ab_data_init)
  BY PriorityAssumption DEF Legal, Strict, Settled, avb_ab_data_init, Slots

LEMMA NormalizeLegal ==
  ASSUME NEW d \in AvbABData, Legal(d) PROVE Legal(Normalize(d))
<1>1. \A s \in Slots : Normalize(d)[s] = Unbootable \/ Normalize(d)[s] = d[s]
  BY DEF Normalize, slot_normalize
<1>2. Unbootable.priority = 0 /\ Unbootable.tries_remaining = 0
  BY DEF Unbootable
<1>3. 0 \in Slots /\ 1 \in Slots
  BY DEF Slots
<1>4. Strict(Normalize(d))
  BY <1>1, <1>2, <1>3 DEF Legal, Strict
<1>5. Settled(Normalize(d))
  BY <1>1, <1>2 DEF Legal, Settled
<1> QED
  BY <1>4, <1>5 DEF Legal

LEMMA DisableLegal ==
  ASSUME NEW d \in AvbABData, NEW t \in Slots, Legal(d) PROVE Legal(Disable(d, t))
<1>1. \A s \in Slots : Disable(d, t)[s] = IF s = t THEN Unbootable ELSE d[s]
  BY DEF Disable, AvbABData
<1>2. Unbootable.priority = 0 /\ Unbootable.tries_remaining = 0
  BY DEF Unbootable
<1>3. Strict(Disable(d, t))
  BY <1>1, <1>2 DEF Legal, Strict, Slots
<1>4. Settled(Disable(d, t))
  BY <1>1, <1>2 DEF Legal, Settled
<1> QED
  BY <1>3, <1>4 DEF Legal

LEMMA MarkActiveLegal ==
  ASSUME NEW d \in AvbABData, NEW t \in Slots, Legal(d) PROVE Legal(MarkActive(d, t))
<1> DEFINE e == MarkActive(d, t)
           p(s) == IF d[s].priority = MaxPriority THEN d[s].priority - 1
                   ELSE d[s].priority
<1>1. e[t] = [priority |-> MaxPriority, tries_remaining |-> MaxTries,
              successful_boot |-> FALSE]
  BY DEF MarkActive
<1>2. ASSUME NEW s \in Slots, s # t
      PROVE  /\ e[s].priority = p(s)
             /\ e[s].tries_remaining = d[s].tries_remaining
             /\ e[s].successful_boot = d[s].successful_boot
  <2>1. e[s] = [d[s] EXCEPT !.priority = p(s)]
    BY <1>2, Zenon DEF MarkActive
  <2>2. d[s] \in AvbABSlotData
    BY DEF AvbABData
  <2> QED
    BY <2>1, <2>2 DEF AvbABSlotData
<1>3. ASSUME NEW s \in Slots, s # t PROVE e[s].priority # e[t].priority
  BY <1>1, <1>2, <1>3, SlotFields, PriorityAssumption
<1>4. Strict(e)
  BY <1>3 DEF Strict, Slots
<1>5. Settled(e)
  <2>1. ~e[t].successful_boot
    BY <1>1
  <2> QED
    BY <1>2, <2>1, Zenon DEF Legal, Settled
<1> QED
  BY <1>4, <1>5 DEF Legal

LEMMA MarkSuccessfulLegal ==
  ASSUME NEW d \in AvbABData, NEW t \in Slots, Legal(d)
  PROVE  Legal(MarkSuccessful(d, t))
<1> DEFINE e == MarkSuccessful(d, t)
<1>1. CASE slot_is_bootable(d[t])
  <2>1. e = [d EXCEPT ![t] = [d[t] EXCEPT !.tries_remaining = 0, !.successful_boot = TRUE]]
    BY <1>1 DEF MarkSuccessful, AvbABData, AvbABSlotData
  <2>2. d[t] \in AvbABSlotData
    BY DEF AvbABData
  <2>3. e[t].priority = d[t].priority /\ e[t].tries_remaining = 0
    BY <2>1, <2>2 DEF AvbABData, AvbABSlotData
  <2>4. \A s \in Slots : s # t => e[s] = d[s]
    BY <2>1 DEF AvbABData
  <2>5. Strict(e)
    BY <2>3, <2>4 DEF Legal, Strict, Slots
  <2>6. Settled(e)
    BY <2>3, <2>4 DEF Legal, Settled
  <2> QED
    BY <2>5, <2>6 DEF Legal
<1>2. CASE ~slot_is_bootable(d[t])
  BY <1>2 DEF MarkSuccessful
<1> QED
  BY <1>1, <1>2

LEMMA SpendTryLegal ==
  ASSUME NEW d \in AvbABData, NEW t \in Slots, Legal(d) PROVE Legal(SpendTry(d, t))
<1> DEFINE e == SpendTry(d, t)
<1>1. CASE ~d[t].successful_boot /\ d[t].tries_remaining > 0
  <2>1. e = [d EXCEPT ![t] = [d[t] EXCEPT !.tries_remaining = d[t].tries_remaining - 1]]
    BY <1>1, Zenon DEF SpendTry
  <2>2. d[t] \in AvbABSlotData
    BY DEF AvbABData
  <2>3. e[t].priority = d[t].priority /\ e[t].successful_boot = d[t].successful_boot
    BY <2>1, <2>2 DEF AvbABData, AvbABSlotData
  <2>4. \A s \in Slots : s # t => e[s] = d[s]
    BY <2>1 DEF AvbABData
  <2>5. Strict(e)
    BY <2>3, <2>4 DEF Legal, Strict, Slots
  <2>6. Settled(e)
    BY <1>1, <2>3, <2>4, Zenon DEF Legal, Settled
  <2> QED
    BY <2>5, <2>6 DEF Legal
<1>2. CASE ~(~d[t].successful_boot /\ d[t].tries_remaining > 0)
  BY <1>2, Zenon DEF SpendTry
<1> QED
  BY <1>1, <1>2

LEMMA EditedLegal ==
  ASSUME TypeOK, NEW d \in AvbABData, Legal(d) PROVE Legal(Edited(d))
<1>1. call.op \in Callers /\ call.slot \in Slots
  BY DEF TypeOK, Calls
<1> QED
  BY <1>1, MarkActiveLegal, DisableLegal, MarkSuccessfulLegal DEF Edited, Callers
-----------------------------------------------------------------------------
(***************************************************************************)
(* Every step keeps the metadata legal                                     *)
(***************************************************************************)

LEMMA LoadLegal == ASSUME IInv, LegalInv, Load PROVE LegalInv'
<1>1. ASSUME NEW d \in AvbABData, Legal(d), Loads(d), misc' \in {d, Invalid}
      PROVE  LegalInv'
  <2>1. Legal(Normalize(d)) /\ Normalize(d) \in AvbABData
    BY <1>1, NormalizeLegal, NormalizeType
  <2>2. Legal(Edited(Normalize(d)))
    BY <2>1, EditedLegal DEF IInv
  <2>3. ab_data' = Edited(Normalize(d))
    BY <1>1 DEF Loads
  <2> QED
    BY <1>1, <2>2, <2>3 DEF LegalInv
<1>2. CASE LoadValid
  BY <1>1, <1>2 DEF LoadValid, LegalInv, IInv, TypeOK
<1>3. CASE LoadResets \/ LoadResetLost
  BY <1>1, <1>3, InitLegal, InitType DEF LoadResets, LoadResetLost
<1>4. CASE LoadResetFails
  BY <1>4, InitLegal DEF LoadResetFails, LoadFails, Forget, LegalInv
<1>5. CASE LoadReadFails
  BY <1>5 DEF LoadReadFails, LoadFails, Forget, LegalInv
<1> QED
  BY <1>2, <1>3, <1>4, <1>5 DEF Load

\* What a write may leave on the partition is what was there, the local copy or
\* garbage.
LEMMA StoreLegal ==
  ASSUME IInv, LegalInv, NEW d \in {misc, SavedBlock, Invalid}, Store(d)
  PROVE  misc' # Invalid => Legal(misc')
  BY DEF Store, SavedBlock, LegalInv

LEMMA SaveLegal == ASSUME IInv, LegalInv, Save PROVE LegalInv'
<1>1. ab_data' = Undefined
  BY DEF Save, SaveSkips, SaveWrites, SaveLoses, SaveFails, Return, Forget
<1>2. misc' # Invalid => Legal(misc')
  BY StoreLegal DEF Save, SaveSkips, SaveWrites, SaveLoses, SaveFails, LegalInv
<1> QED
  BY <1>1, <1>2 DEF LegalInv

LEMMA PowerLegal ==
  ASSUME IInv, LegalInv, PowerCycle \/ PowerFailsInSave PROVE LegalInv'
<1>1. ab_data' = Undefined
  BY DEF PowerCycle, PowerFailsInSave, Restart, Forget
<1>2. misc' # Invalid => Legal(misc')
  BY StoreLegal DEF PowerCycle, PowerFailsInSave, LegalInv
<1> QED
  BY <1>1, <1>2 DEF LegalInv

\* The two steps of the flow that change its copy.
LEMMA FlowLegal ==
  ASSUME IInv, LegalInv, Conclude \/ \E r \in Verdicts : VerifyRejects(r)
  PROVE  LegalInv'
<1>1. misc' = misc /\ ab_data' \in {SpendTry(ab_data, slot), Disable(ab_data, slot)}
  BY DEF Conclude, VerifyRejects
<1>2. Flowing
  BY DEF Conclude, VerifyRejects, Verifying, Flowing
<1>3. ab_data \in AvbABData /\ ab_data # Undefined /\ slot \in Slots
  BY <1>2, Marks DEF IInv, TypeOK, CallInv, Working
<1>4. Legal(ab_data')
  BY <1>1, <1>3, SpendTryLegal, DisableLegal DEF LegalInv
<1> QED
  BY <1>1, <1>4 DEF LegalInv

\* Any other step changes neither copy, except a query that repairs the block.
LEMMA OtherLegal ==
  ASSUME LegalInv,
         \/ \E ok0, ok \in BOOLEAN : StartBoot(ok0, ok)
         \/ SelectSlot \/ SelectFindsNone
         \/ VerifySkips \/ VerifyFails \/ VerifyFindsNone
         \/ \E r \in Verdicts, ok \in BOOLEAN : VerifyAccepts(r, ok)
         \/ RollbackSkips \/ RollbackReadFails
         \/ \E ok \in BOOLEAN : RollbackUnlocked(ok)
         \/ \E w \in WriteOutcomes, ok \in BOOLEAN : RollbackWrites(w, ok)
         \/ \E ok \in BOOLEAN : Boot(ok) \/ Halt(ok)
         \/ \E s \in Slots : FastbootSetActive(s) \/ OsActivates(s) \/ ImageDecays(s)
         \/ FastbootQuery
         \/ \E st \in {Unlock, Lock}, ok0, ok1, ok2 \in BOOLEAN, w \in WriteOutcomes :
              FastbootFlashing(st, ok0, ok1, w, ok2)
         \/ OsConfirms \/ OsRetires
         \/ \E im \in Images : OsWritesImage(im)
         \/ UNCHANGED vars
  PROVE  LegalInv'
<1>1. CASE FastbootQuery
  BY <1>1, InitLegal DEF FastbootQuery, flowVars, LegalInv
<1>2. CASE UNCHANGED <<misc, ab_data>>
  BY <1>2 DEF LegalInv
<1>3. FastbootQuery \/ UNCHANGED <<misc, ab_data>>
  BY DEF StartBoot, SelectSlot, SelectFindsNone, VerifySkips, VerifyFails,
         VerifyFindsNone, VerifyAccepts, RollbackSkips, RollbackReadFails,
         RollbackUnlocked, RollbackWrites, Boot, Halt, FastbootSetActive,
         OsActivates, ImageDecays, FastbootFlashing, OsConfirms, OsRetires,
         CallMark, OsWritesImage, flowVars, vars
<1> QED
  BY <1>1, <1>2, <1>3

LEMMA LegalStep == ASSUME IInv, LegalInv, [Next]_vars PROVE LegalInv'
  BY LoadLegal, SaveLegal, PowerLegal, FlowLegal, OtherLegal DEF Next

LEMMA LegalHolds == Spec => []LegalInv
<1>1. Init => LegalInv
  BY DEF Init, Locals, LegalInv
<1> QED
  BY <1>1, LegalStep, IInvHolds, PTL DEF Spec

\* Activation, retirement, confirmation and reset, in any order and through any
\* fault, leave a strict preference between the slots.
THEOREM PrioritiesStayDistinct == Spec => []DistinctPriorities
<1>1. LegalInv => DistinctPriorities
  BY DEF LegalInv, Legal, Strict, DistinctPriorities
<1> QED
  BY <1>1, LegalHolds, PTL

\* ab_getCurrentSlotIndex() may do without load_metadata()'s normalisation: it
\* would not change which slots are bootable nor which of them is first.
THEOREM QueryAgrees == Spec => []QueryAgreesWithBoot
<1>1. ASSUME TypeOK, LegalInv PROVE QueryAgreesWithBoot
  <2> SUFFICES ASSUME misc # Invalid
               PROVE  /\ Bootables(misc) = Bootables(Normalize(misc))
                      /\ ActiveSlot(misc) = ActiveSlot(Normalize(misc))
    BY DEF QueryAgreesWithBoot
  <2>1. misc \in AvbABData /\ Settled(misc)
    BY <1>1 DEF TypeOK, LegalInv, Legal
  <2>2. ASSUME NEW s \in Slots
        PROVE  /\ slot_is_bootable(misc[s]) => Normalize(misc)[s] = misc[s]
               /\ slot_is_bootable(Normalize(misc)[s]) => slot_is_bootable(misc[s])
    <3>1. Normalize(misc)[s] = slot_normalize(misc[s])
      BY DEF Normalize
    <3>2. ~slot_is_bootable(Unbootable)
      BY DEF slot_is_bootable, Unbootable
    <3>3. slot_is_bootable(misc[s]) => ~IllegalOrSpent(misc[s])
      BY <2>1, SlotFields DEF Settled, slot_is_bootable, IllegalOrSpent
    <3> QED
      BY <3>1, <3>2, <3>3 DEF slot_normalize
  <2>3. Bootables(misc) = Bootables(Normalize(misc))
    BY <2>2 DEF Bootables
  <2>4. Bootables(misc) = Slots =>
          Normalize(misc)[0] = misc[0] /\ Normalize(misc)[1] = misc[1]
    BY <2>2 DEF Bootables, Slots
  <2> QED
    BY <2>3, <2>4 DEF ActiveSlot
<1> QED
  BY <1>1, TypeCorrect, LegalHolds, PTL
-----------------------------------------------------------------------------
(***************************************************************************)
(* No slot comes back to life                                              *)
(***************************************************************************)

\* What is bootable in e was bootable in d, but for the slots G.
OnlyRevives(d, e, G) ==
  \A s \in Slots \ G : slot_is_bootable(e[s]) => slot_is_bootable(d[s])

Activated == {s \in Slots : call.op = "active" /\ call.slot = s}

\* The copy a call works on revives nothing but the slot it activates; a boot
\* whose load failed has no copy, or the one it may have written.
RevivalInv ==
  /\ Working /\ misc # Invalid => OnlyRevives(misc, ab_data, Activated)
  /\ pc = "save" /\ ab_data_orig = Undefined /\ ab_data # Undefined =>
       misc \in {Invalid, ab_data}

LEMMA NormalizeRevives ==
  ASSUME NEW d \in AvbABData PROVE OnlyRevives(d, Normalize(d), {})
<1>1. \A s \in Slots : Normalize(d)[s] = Unbootable \/ Normalize(d)[s] = d[s]
  BY DEF Normalize, slot_normalize
<1>2. ~slot_is_bootable(Unbootable)
  BY DEF slot_is_bootable, Unbootable
<1> QED
  BY <1>1, <1>2 DEF OnlyRevives

LEMMA DisableRevives ==
  ASSUME NEW d \in AvbABData, NEW t \in Slots PROVE OnlyRevives(d, Disable(d, t), {})
<1>1. \A s \in Slots : Disable(d, t)[s] = Unbootable \/ Disable(d, t)[s] = d[s]
  BY DEF Disable, AvbABData
<1>2. ~slot_is_bootable(Unbootable)
  BY DEF slot_is_bootable, Unbootable
<1> QED
  BY <1>1, <1>2 DEF OnlyRevives

LEMMA MarkActiveRevives ==
  ASSUME NEW d \in AvbABData, NEW t \in Slots
  PROVE  OnlyRevives(d, MarkActive(d, t), {t})
<1> SUFFICES ASSUME NEW s \in Slots, s # t, slot_is_bootable(MarkActive(d, t)[s])
             PROVE  slot_is_bootable(d[s])
  BY DEF OnlyRevives
<1> DEFINE p == IF d[s].priority = MaxPriority THEN d[s].priority - 1
                ELSE d[s].priority
<1>1. MarkActive(d, t)[s] = [d[s] EXCEPT !.priority = p]
  BY Zenon DEF MarkActive
<1>2. d[s] \in AvbABSlotData
  BY DEF AvbABData
<1>3. p > 0 => d[s].priority > 0
  BY SlotFields, PriorityAssumption
<1> HIDE DEF p
<1>4. /\ MarkActive(d, t)[s].priority = p
      /\ MarkActive(d, t)[s].tries_remaining = d[s].tries_remaining
      /\ MarkActive(d, t)[s].successful_boot = d[s].successful_boot
  BY <1>1, <1>2 DEF AvbABSlotData
<1> QED
  BY <1>3, <1>4 DEF slot_is_bootable

LEMMA MarkSuccessfulRevives ==
  ASSUME NEW d \in AvbABData, NEW t \in Slots
  PROVE  OnlyRevives(d, MarkSuccessful(d, t), {})
<1>1. \A s \in Slots : s # t => MarkSuccessful(d, t)[s] = d[s]
  BY DEF MarkSuccessful, AvbABData
<1>2. slot_is_bootable(MarkSuccessful(d, t)[t]) => slot_is_bootable(d[t])
  BY DEF MarkSuccessful
<1> QED
  BY <1>1, <1>2 DEF OnlyRevives

LEMMA SpendTryRevives ==
  ASSUME NEW d \in AvbABData, NEW t \in Slots PROVE OnlyRevives(d, SpendTry(d, t), {})
<1>1. CASE ~d[t].successful_boot /\ d[t].tries_remaining > 0
  <2>1. SpendTry(d, t) = [d EXCEPT ![t] = [d[t] EXCEPT !.tries_remaining = d[t].tries_remaining - 1]]
    BY <1>1, Zenon DEF SpendTry
  <2>2. d[t] \in AvbABSlotData
    BY DEF AvbABData
  <2>3. SpendTry(d, t)[t].priority = d[t].priority
    BY <2>1, <2>2 DEF AvbABData, AvbABSlotData
  <2>4. \A s \in Slots : s # t => SpendTry(d, t)[s] = d[s]
    BY <2>1 DEF AvbABData
  <2> QED
    BY <1>1, <2>3, <2>4 DEF OnlyRevives, slot_is_bootable
<1>2. CASE ~(~d[t].successful_boot /\ d[t].tries_remaining > 0)
  BY <1>2, Zenon DEF SpendTry, OnlyRevives
<1> QED
  BY <1>1, <1>2

LEMMA EditedRevives ==
  ASSUME TypeOK, NEW d \in AvbABData PROVE OnlyRevives(d, Edited(d), Activated)
<1>1. call.op \in Callers /\ call.slot \in Slots
  BY DEF TypeOK, Calls
<1>2. call.op = "active" => call.slot \in Activated
  BY <1>1 DEF Activated
<1> QED
  BY <1>1, <1>2, MarkActiveRevives, DisableRevives, MarkSuccessfulRevives
  DEF Edited, Callers, OnlyRevives

LEMMA LoadRevival == ASSUME IInv, Load PROVE RevivalInv'
<1>1. ASSUME NEW d \in AvbABData, Loads(d), misc' \in {d, Invalid} PROVE RevivalInv'
  <2>1. Normalize(d) \in AvbABData /\ OnlyRevives(d, Normalize(d), {})
    BY NormalizeType, NormalizeRevives
  <2>2. OnlyRevives(Normalize(d), Edited(Normalize(d)), Activated)
    BY <2>1, EditedRevives DEF IInv
  <2>3. ab_data' = Edited(Normalize(d)) /\ ab_data_orig' = d /\ call' = call
    BY <1>1 DEF Loads
  <2>4. ab_data_orig' # Undefined /\ Activated' = Activated
    BY <1>1, <2>3, Marks DEF Activated
  <2> QED
    BY <1>1, <2>1, <2>2, <2>3, <2>4 DEF RevivalInv, OnlyRevives
<1>2. CASE LoadValid
  BY <1>1, <1>2 DEF LoadValid, IInv, TypeOK
<1>3. CASE LoadResets \/ LoadResetLost
  BY <1>1, <1>3, InitType DEF LoadResets, LoadResetLost
<1>4. CASE LoadResetFails \/ LoadReadFails
  <2>1. PICK d \in AvbABData \cup {Undefined} :
          LoadFails(d) /\ (d # Undefined => misc' \in {Invalid, d})
    BY <1>4, InitType DEF LoadResetFails, LoadReadFails
  <2>2. pc' \in {"save", "menu", "running"}
    BY <2>1 DEF LoadFails, IInv, TypeOK, Calls
  <2>3. pc' = "save" => ab_data' = d /\ ab_data_orig' = Undefined
    BY <2>1 DEF LoadFails, IInv, TypeOK, Calls
  <2> QED
    BY <2>1, <2>2, <2>3 DEF RevivalInv, Working, Flowing
<1> QED
  BY <1>2, <1>3, <1>4 DEF Load

LEMMA FlowRevival ==
  ASSUME IInv, RevivalInv, Conclude \/ \E r \in Verdicts : VerifyRejects(r)
  PROVE  RevivalInv'
<1>1. /\ UNCHANGED <<misc, call, ab_data_orig>>
      /\ ab_data' \in {SpendTry(ab_data, slot), Disable(ab_data, slot)}
  BY DEF Conclude, VerifyRejects
<1>2. Flowing
  BY DEF Conclude, VerifyRejects, Verifying, Flowing
<1>3. ab_data \in AvbABData /\ slot \in Slots /\ ab_data_orig # Undefined
  BY <1>2 DEF IInv, TypeOK, CallInv, Working
<1>4. misc # Invalid => OnlyRevives(misc, ab_data, Activated)
  BY <1>2 DEF RevivalInv, Working
<1>5. OnlyRevives(ab_data, ab_data', {})
  BY <1>1, <1>3, SpendTryRevives, DisableRevives
<1>6. misc' # Invalid => OnlyRevives(misc, ab_data, Activated)'
  BY <1>1, <1>4, <1>5 DEF OnlyRevives, Activated
<1> QED
  BY <1>1, <1>3, <1>6 DEF RevivalInv

\* Outside a call there is nothing to preserve; within the flow nothing changes.
LEMMA OtherRevival ==
  ASSUME IInv, RevivalInv, [Next]_vars,
         ~Load, ~Conclude, ~\E r \in Verdicts : VerifyRejects(r)
  PROVE  RevivalInv'
<1>1. CASE Save \/ PowerCycle \/ PowerFailsInSave
  <2>1. pc' \in {"menu", "handoff", "running"}
    BY <1>1 DEF Save, SaveSkips, SaveWrites, SaveLoses, SaveFails, Return, PowerCycle,
                PowerFailsInSave, Restart, IInv, TypeOK, Calls
  <2> QED
    BY <2>1 DEF RevivalInv, Working, Flowing
<1>2. CASE \/ \E ok0, ok \in BOOLEAN : StartBoot(ok0, ok)
           \/ \E ok \in BOOLEAN : Boot(ok) \/ Halt(ok)
           \/ \E s \in Slots : FastbootSetActive(s) \/ OsActivates(s) \/ ImageDecays(s)
           \/ FastbootQuery
           \/ \E st \in {Unlock, Lock}, ok0, ok1, ok2 \in BOOLEAN, w \in WriteOutcomes :
                FastbootFlashing(st, ok0, ok1, w, ok2)
           \/ OsConfirms \/ OsRetires
           \/ \E im \in Images : OsWritesImage(im)
  <2>1. pc' \in {"load", "running", "halted", "menu"}
    BY <1>2 DEF StartBoot, Boot, Halt, FastbootSetActive, OsActivates, ImageDecays,
                CallMark, FastbootQuery, FastbootFlashing, OsConfirms, OsRetires,
                OsWritesImage
  <2> QED
    BY <2>1 DEF RevivalInv, Working, Flowing
<1>3. CASE \/ SelectSlot \/ SelectFindsNone
           \/ VerifySkips \/ VerifyFails \/ VerifyFindsNone
           \/ \E r \in Verdicts, ok \in BOOLEAN : VerifyAccepts(r, ok)
           \/ RollbackSkips \/ RollbackReadFails
           \/ \E ok \in BOOLEAN : RollbackUnlocked(ok)
           \/ \E w \in WriteOutcomes, ok \in BOOLEAN : RollbackWrites(w, ok)
  <2>1. Flowing /\ UNCHANGED <<misc, call, ab_data, ab_data_orig>>
    BY <1>3 DEF SelectSlot, SelectFindsNone, VerifySkips, VerifyFails,
                VerifyFindsNone, VerifyAccepts, Verifying, RollbackSkips,
                RollbackReadFails, RollbackUnlocked, RollbackWrites, UpdateDue,
                flowVars, Flowing
  <2>2. ab_data_orig # Undefined
    BY <2>1 DEF IInv, CallInv
  <2> QED
    BY <2>1, <2>2 DEF RevivalInv, Working, OnlyRevives, Activated
<1>4. CASE UNCHANGED vars
  BY <1>4 DEF RevivalInv, Working, Flowing, OnlyRevives, Activated, vars, flowVars
<1> QED
  BY <1>1, <1>2, <1>3, <1>4 DEF Next

LEMMA RevivalHolds == Spec => []RevivalInv
<1>1. Init => RevivalInv
  BY DEF Init, RevivalInv, Working, Flowing
<1>2. IInv /\ RevivalInv /\ [Next]_vars => RevivalInv'
  BY LoadRevival, FlowRevival, OtherRevival
<1> QED
  BY <1>1, <1>2, IInvHolds, PTL DEF Spec

\* The block only changes to a fresh one if it was unusable, or in a save.
LEMMA MiscChanges ==
  ASSUME Next, misc # Invalid, misc' # Invalid, misc' # misc
  PROVE  pc = "save" /\ misc' = SavedBlock
  BY DEF Next, Load, LoadValid, LoadResets, LoadResetLost, LoadResetFails,
         LoadReadFails, Save, SaveSkips, SaveWrites, SaveLoses, SaveFails, Store, StartBoot, SelectSlot,
         SelectFindsNone, VerifySkips, VerifyFails, VerifyFindsNone, VerifyAccepts,
         VerifyRejects, RollbackSkips, RollbackReadFails, RollbackUnlocked,
         RollbackWrites, Conclude, Boot, Halt, FastbootSetActive, OsActivates,
         ImageDecays, CallMark, FastbootQuery, FastbootFlashing, OsConfirms,
         OsRetires, OsWritesImage, PowerCycle, PowerFailsInSave, flowVars

\* A slot given up, by a boot or by the OS, stays given up until the metadata are
\* lost or avb_ab_mark_slot_active() is called for it.
THEOREM SlotsStayRetired == Spec => NoResurrection
<1> DEFINE A ==
      misc # Invalid /\ misc' # Invalid =>
        \A s \in Slots :
          ~slot_is_bootable(misc[s]) /\ slot_is_bootable(misc'[s]) =>
            call.op = "active" /\ call.slot = s
<1>1. ASSUME IInv, RevivalInv, Next PROVE A
  <2> SUFFICES ASSUME misc # Invalid, misc' # Invalid, misc' # misc
               PROVE  OnlyRevives(misc, misc', Activated)
    BY DEF OnlyRevives, Activated
  <2>1. pc = "save" /\ misc' = SavedBlock
    BY <1>1, MiscChanges
  <2>2. misc' = ab_data /\ ab_data # Undefined
    BY <2>1 DEF SavedBlock
  <2>3. Working
    BY <1>1, <2>1, <2>2 DEF RevivalInv, Working
  <2> QED
    BY <1>1, <2>2, <2>3 DEF RevivalInv
<1>2. misc' = misc => A
  OBVIOUS
<1>3. IInv /\ RevivalInv /\ [Next]_vars => [A]_vars
  BY <1>1, <1>2, Zenon DEF vars
<1> QED
  BY <1>3, IInvHolds, RevivalHolds, PTL DEF Spec, NoResurrection
-----------------------------------------------------------------------------
(***************************************************************************)
(* What a locked device boots                                              *)
(***************************************************************************)

Locked == rpmb.device_state = Lock

\* The images of the slot may be booted on this device.
Vetted ==
  Locked =>
    /\ image[slot].state = "good"
    /\ \A k \in Locations : image[slot].index[k] >= rpmb.rollback_index[k]

\* While the slot is chosen, the RAM copy is the record if it was read at all,
\* and errors are allowed if the device is unlocked or was not read.  Once the
\* slot is accepted, the copy is the record, and the slot is vetted.
LockInv ==
  /\ pc \in {"load", "select", "verify"} /\ call.op = "flow" =>
       /\ support => cache = rpmb
       /\ allow /\ support => ~Locked
  /\ pc = "rollback" => cache = rpmb /\ Vetted
  /\ pc = "save" /\ call.op = "flow" /\ ret \in OKs => Vetted
  /\ pc = "handoff" /\ ret \in OKs => Vetted

LEMMA RecordFields ==
  ASSUME NEW r \in UBOOT_RPMB_RAW_DATA, NEW k \in Locations
  PROVE  r.rollback_index[k] \in Nat /\ r.device_state \in {Unlock, Lock}
  BY IndexesAssumption DEF UBOOT_RPMB_RAW_DATA

LEMMA ImageFields ==
  ASSUME TypeOK, NEW k \in Locations
  PROVE  image[slot].index[k] \in Indexes /\ image[slot].index[k] \in Nat
<1>1. image[slot] \in Images
  BY DEF TypeOK
<1> QED
  BY <1>1, IndexesAssumption DEF Images

\* Images that are not behind the copy, when it is the record, are vetted.
LEMMA NotBehindIsVetted ==
  ASSUME TypeOK, cache = rpmb, ~Behind(image[slot]), image[slot].state = "good"
  PROVE  Vetted
<1> SUFFICES ASSUME NEW k \in Locations
             PROVE  image[slot].index[k] >= rpmb.rollback_index[k]
  BY DEF Vetted
<1>1. ~(image[slot].index[k] < rpmb.rollback_index[k])
  BY DEF Behind, CachedIndex
<1>2. image[slot].index[k] \in Nat /\ rpmb.rollback_index[k] \in Nat
  BY ImageFields, RecordFields DEF TypeOK, RpmbTypeOK
<1> QED
  BY <1>1, <1>2

\* A slot is accepted on the record, or on an unlocked device.
LEMMA AcceptsLock ==
  ASSUME IInv, LockInv, NEW r \in Verdicts, NEW ok \in BOOLEAN, VerifyAccepts(r, ok)
  PROVE  LockInv'
<1>1. /\ pc = "verify" /\ pc' = "rollback" /\ CanReport(image[slot], allow, r)
      /\ HandsOut(r, allow) /\ UNCHANGED <<image, slot, rpmb>>
  BY DEF VerifyAccepts, Verifying, avb_load_info_from_rpmb
<1>2. call.op = "flow"
  BY <1>1 DEF IInv, CallInv, Flowing
<1>3. support
  BY <1>1 DEF CanReport, HandsOut, Verdicts
<1>4. cache = rpmb
  BY <1>1, <1>2, <1>3 DEF LockInv
<1>5. cache' = rpmb
  BY <1>4 DEF VerifyAccepts, avb_load_info_from_rpmb, Loaded
<1>6. Vetted
  <2>1. CASE r = "OK"
    <3>1. image[slot].state = "good" /\ ~Behind(image[slot])
      BY <1>1, <2>1 DEF CanReport
    <3> QED
      BY <1>4, <3>1, NotBehindIsVetted DEF IInv
  <2>2. CASE r # "OK"
    <3>1. allow
      BY <1>1, <2>2 DEF HandsOut
    <3> QED
      BY <1>1, <1>2, <1>3, <3>1 DEF LockInv, Vetted
  <2> QED
    BY <2>1, <2>2
<1>7. Vetted'
  BY <1>1, <1>6 DEF Vetted, Locked
<1> QED
  BY <1>1, <1>5, <1>7 DEF LockInv

\* An index is only ever written to the value of the vetted slot, on a locked
\* device; the flow goes on only if the copy read back is the new record.
LEMMA WritesIndex ==
  ASSUME IInv, LockInv, NEW w \in WriteOutcomes, NEW ok \in BOOLEAN,
         RollbackWrites(w, ok)
  PROVE  /\ Locked /\ Vetted /\ rpmb'.device_state = rpmb.device_state
         /\ \A k \in Locations :
              rpmb'.rollback_index[k] \in {rpmb.rollback_index[k], image[slot].index[k]}
         /\ pc' = "rollback" => cache' = rpmb'
<1> DEFINE block == [rpmb EXCEPT !.rollback_index[loc] = SlotIndex]
<1>1. /\ pc = "rollback" /\ loc \in Locations
      /\ CachedIndex(loc) # SlotIndex
    BY LocationsAssumption DEF RollbackWrites, UpdateDue, IInv, TypeOK, Locations
<1>2. cache = rpmb /\ Vetted
  BY <1>1 DEF LockInv
<1>3. rpmb \in UBOOT_RPMB_RAW_DATA
  BY DEF IInv, TypeOK, RpmbTypeOK
<1>4. rpmb.device_state # Unlock
  BY DEF RollbackWrites, DeviceUnlocked
<1>5. Locked
  BY <1>3, <1>4 DEF Locked, UBOOT_RPMB_RAW_DATA
<1>6. /\ block.device_state = rpmb.device_state
      /\ \A k \in Locations :
           block.rollback_index[k] = IF k = loc THEN SlotIndex ELSE rpmb.rollback_index[k]
  BY <1>1, <1>3 DEF UBOOT_RPMB_RAW_DATA
<1>7. /\ rpmb' = IF Written(w) THEN block ELSE rpmb
      /\ cache' = IF Reported(w) THEN Loaded(ok, block, rpmb) ELSE rpmb
  BY Zenon DEF RollbackWrites, write_rollback_index
<1> HIDE DEF block
<1>8. rpmb' = rpmb \/ rpmb' = block
  BY <1>7
<1>9. \A k \in Locations :
        rpmb'.rollback_index[k] \in {rpmb.rollback_index[k], image[slot].index[k]}
  BY <1>6, <1>8 DEF SlotIndex
<1>10. rpmb'.device_state = rpmb.device_state
  BY <1>6, <1>8
<1>11. ASSUME pc' = "rollback" PROVE cache' = rpmb'
  <2>1. Reported(w) /\ cache'.rollback_index[loc] = SlotIndex
    BY <1>11 DEF RollbackWrites, IndexWriteSucceeds, ToSave
  <2>2. rpmb.rollback_index[loc] # SlotIndex
    BY <1>1, <1>2 DEF CachedIndex
  <2>3. cache' = block
    BY <1>7, <2>1, <2>2 DEF Loaded
  <2>4. Written(w)
    BY <2>1 DEF Written, Reported
  <2> QED
    BY <1>7, <2>3, <2>4
<1> QED
  BY <1>2, <1>5, <1>9, <1>10, <1>11

LEMMA WritesLock ==
  ASSUME IInv, LockInv, NEW w \in WriteOutcomes, NEW ok \in BOOLEAN,
         RollbackWrites(w, ok)
  PROVE  LockInv'
<1>1. /\ Locked /\ Vetted /\ rpmb'.device_state = rpmb.device_state
      /\ \A k \in Locations :
           rpmb'.rollback_index[k] \in {rpmb.rollback_index[k], image[slot].index[k]}
      /\ pc' = "rollback" => cache' = rpmb'
  BY WritesIndex
<1>2. UNCHANGED <<image, slot, call>> /\ pc = "rollback"
  BY DEF RollbackWrites, UpdateDue
<1>3. \/ pc' = "rollback"
      \/ (pc' = "save" /\ ret' = "IO")
  BY <1>2 DEF RollbackWrites, NextLocation, ToSave
<1>4. Vetted'
  <2> SUFFICES ASSUME NEW k \in Locations
               PROVE  image[slot].index[k] >= rpmb'.rollback_index[k]
    BY <1>1, <1>2 DEF Vetted, Locked
  <2>1. image[slot].index[k] >= rpmb.rollback_index[k]
    BY <1>1 DEF Vetted
  <2>2. image[slot].index[k] \in Nat
    BY ImageFields DEF IInv
  <2> QED
    BY <1>1, <2>1, <2>2
<1> QED
  BY <1>1, <1>3, <1>4 DEF LockInv, OKs

\* A boot starts with the record, or without one and then without support.
LEMMA StartsLock ==
  ASSUME IInv, NEW ok0 \in BOOLEAN, NEW ok \in BOOLEAN, StartBoot(ok0, ok)
  PROVE  LockInv'
<1>1. /\ rpmb' = rpmb /\ pc' = "load" /\ allow' = DeviceUnlocked(ok) /\ support' = ok
      /\ cache' = Loaded(ok, rpmb, Loaded(ok0, rpmb, cache))
  BY Zenon DEF StartBoot
<1>2. support' => cache' = rpmb'
  BY <1>1, Zenon DEF Loaded
<1>3. allow' /\ support' => ~Locked'
  <2>1. ok /\ DeviceUnlocked(ok) => rpmb.device_state = Unlock
    BY DEF DeviceUnlocked
  <2>2. Unlock # Lock
    BY DEF Unlock, Lock
  <2> QED
    BY <1>1, <2>1, <2>2, Zenon DEF Locked
<1> QED
  BY <1>1, <1>2, <1>3 DEF LockInv

\* The steps before a slot is accepted, or that give up.
LEMMA ChoosesLock ==
  ASSUME IInv, LockInv,
         \/ Load \/ SelectSlot \/ SelectFindsNone
         \/ VerifySkips \/ VerifyFails \/ VerifyFindsNone
         \/ \E r \in Verdicts : VerifyRejects(r)
         \/ RollbackReadFails
  PROVE  LockInv'
<1>1. UNCHANGED <<rpmb, cache, support, call>>
  BY DEF Load, LoadValid, LoadResets, LoadResetLost, LoadResetFails, LoadReadFails, Loads,
         LoadFails, SelectSlot, SelectFindsNone, VerifySkips, VerifyFails,
         VerifyFindsNone, VerifyRejects, RollbackReadFails, rpmbVars
<1>2. /\ pc' = "save" /\ call.op = "flow" => ret' \notin OKs
      /\ pc' \in {"save", "select", "verify", "menu", "running"}
  BY DEF Load, LoadValid, LoadResets, LoadResetLost, LoadResetFails, LoadReadFails, Loads,
         LoadFails, SelectSlot, SelectFindsNone, VerifySkips, VerifyFails,
         VerifyFindsNone, VerifyRejects, Verifying, RollbackReadFails, ToSave,
         OKs, IInv, TypeOK, Calls
<1>3. pc' \in {"select", "verify"} =>
        pc \in {"load", "select", "verify"} /\ allow' = allow
  BY DEF Load, LoadValid, LoadResets, LoadResetLost, LoadResetFails, LoadReadFails, Loads,
         LoadFails, SelectSlot, SelectFindsNone, VerifySkips, VerifyFails,
         VerifyFindsNone, VerifyRejects, Verifying, RollbackReadFails, ToSave,
         flowVars, IInv, TypeOK, Calls
<1>4. (support => cache = rpmb) => (support' => cache' = rpmb')
  BY <1>1
<1>5. pc' \in {"select", "verify"} /\ call.op = "flow" =>
        /\ support' => cache' = rpmb'
        /\ allow' /\ support' => ~Locked'
  BY <1>1, <1>3, Zenon DEF LockInv, Locked
<1> QED
  BY <1>1, <1>2, <1>5 DEF LockInv

\* The steps after it that write no index.
LEMMA GoesOnLock ==
  ASSUME IInv, LockInv,
         \/ RollbackSkips \/ Conclude \/ Save
         \/ \E ok \in BOOLEAN : RollbackUnlocked(ok)
  PROVE  LockInv'
<1>1. UNCHANGED <<rpmb, image, slot, call>>
  BY DEF RollbackSkips, Conclude, Save, SaveSkips, SaveWrites, SaveLoses, SaveFails, Return,
         RollbackUnlocked, avb_load_info_from_rpmb, rpmbVars
<1>2. Vetted => Vetted'
  BY <1>1 DEF Vetted, Locked
<1>3. CASE RollbackSkips \/ Conclude \/ \E ok \in BOOLEAN : RollbackUnlocked(ok)
  <2>1. pc = "rollback"
    BY <1>3 DEF RollbackSkips, Conclude, RollbackUnlocked, UpdateDue
  <2>2. cache' = rpmb
    BY <1>3, <2>1 DEF RollbackSkips, Conclude, RollbackUnlocked,
                      avb_load_info_from_rpmb, Loaded, rpmbVars, LockInv
  <2>3. pc' \in {"rollback", "save"}
    BY <1>3, <2>1 DEF RollbackSkips, Conclude, RollbackUnlocked, NextLocation, ToSave
  <2> QED
    BY <1>1, <1>2, <2>1, <2>2, <2>3 DEF LockInv
<1>4. CASE Save
  <2>1. /\ pc = "save" /\ ret' \in {ret, "IO"}
        /\ pc' = IF call.op = "flow" THEN "handoff" ELSE call.back
    BY <1>4 DEF Save, SaveSkips, SaveWrites, SaveLoses, SaveFails, Return
  <2>2. pc' \in {"handoff", "menu", "running"}
    BY <2>1 DEF IInv, TypeOK, Calls
  <2>3. pc' = "handoff" => call.op = "flow"
    BY <2>1 DEF IInv, TypeOK, Calls
  <2>4. pc' = "handoff" /\ ret' \in OKs => Vetted
    BY <2>1, <2>3 DEF LockInv, OKs
  <2> QED
    BY <1>2, <2>2, <2>4 DEF LockInv
<1> QED
  BY <1>3, <1>4

\* Outside the boot flow there is nothing to preserve.
LEMMA OutsideLock ==
  ASSUME IInv,
         \/ \E ok \in BOOLEAN : Boot(ok) \/ Halt(ok)
         \/ \E s \in Slots : FastbootSetActive(s) \/ OsActivates(s) \/ ImageDecays(s)
         \/ FastbootQuery
         \/ \E st \in {Unlock, Lock}, ok0, ok1, ok2 \in BOOLEAN, w \in WriteOutcomes :
              FastbootFlashing(st, ok0, ok1, w, ok2)
         \/ OsConfirms \/ OsRetires
         \/ \E im \in Images : OsWritesImage(im)
         \/ PowerCycle \/ PowerFailsInSave
  PROVE  LockInv'
<1>1. \/ pc' \in {"running", "halted", "menu"}
      \/ (pc' = "load" /\ call'.op # "flow")
  BY DEF Boot, Halt, FastbootSetActive, OsActivates, ImageDecays, FastbootQuery,
         FastbootFlashing, OsConfirms, OsRetires, OsWritesImage, CallMark,
         PowerCycle, PowerFailsInSave, Restart
<1> QED
  BY <1>1 DEF LockInv

LEMMA StutterLock == ASSUME LockInv, UNCHANGED vars PROVE LockInv'
<1>1. UNCHANGED <<pc, call, support, cache, rpmb, allow, image, slot, ret>>
  BY DEF vars, rpmbVars, flowVars
<1> QED
  BY <1>1, Zenon DEF LockInv, Vetted, Locked

LEMMA LockHolds == Spec => []LockInv
<1>1. Init => LockInv
  BY DEF Init, LockInv
<1>2. IInv /\ LockInv /\ [Next]_vars => LockInv'
  BY AcceptsLock, WritesLock, StartsLock, ChoosesLock, GoesOnLock, OutsideLock,
     StutterLock
  DEF Next
<1> QED
  BY <1>1, <1>2, IInvHolds, PTL DEF Spec

\* A locked device hands over only to images that verify and are not behind the
\* record, although the record is read four times and each read may fail with
\* the answer "unlocked".
THEOREM LockedDeviceBootsVerified == Spec => LockedBootsVerified
<1> DEFINE A ==
      pc = "handoff" /\ pc' = "running" /\ rpmb.device_state = Lock =>
        /\ image[slot].state = "good"
        /\ \A k \in Locations : image[slot].index[k] >= rpmb.rollback_index[k]
<1>1. ASSUME LockInv, Next PROVE A
  <2> SUFFICES ASSUME pc = "handoff", pc' = "running" PROVE Vetted
    BY DEF Vetted, Locked
  <2>1. PICK ok \in BOOLEAN : Boot(ok)
    BY <1>1 DEF Next, Load, LoadValid, LoadResets, LoadResetLost, LoadResetFails, LoadReadFails,
      Save, SaveSkips, SaveWrites, SaveLoses, SaveFails, StartBoot, SelectSlot,
      SelectFindsNone, VerifySkips, VerifyFails, VerifyFindsNone, VerifyAccepts,
      VerifyRejects, Verifying, RollbackSkips, RollbackReadFails,
      RollbackUnlocked, RollbackWrites, UpdateDue, Conclude, Halt,
      FastbootSetActive, OsActivates, ImageDecays, FastbootQuery,
      FastbootFlashing, OsConfirms, OsRetires, OsWritesImage, PowerCycle,
      PowerFailsInSave, Restart
  <2>2. ret \in OKs
    BY <2>1 DEF Boot, BootStateAllows, OKs
  <2> QED
    BY <1>1, <2>2 DEF LockInv
<1>2. pc' = pc => A
  OBVIOUS
<1>3. LockInv /\ [Next]_vars => [A]_vars
  BY <1>1, <1>2, Zenon DEF vars
<1> QED
  BY <1>3, LockHolds, PTL DEF Spec, LockedBootsVerified

\* The flow writes a stored index only upwards, and never on an unlocked device,
\* although it writes whenever the index differs.
THEOREM IndexesOnlyRise == Spec => RollbackOnlyRises
<1> DEFINE A ==
      pc = "rollback" =>
        \A k \in Locations :
          /\ rpmb'.rollback_index[k] >= rpmb.rollback_index[k]
          /\ rpmb.device_state = Unlock =>
               rpmb'.rollback_index[k] = rpmb.rollback_index[k]
<1>1. ASSUME TypeOK, rpmb' = rpmb PROVE A
  BY <1>1, RecordFields DEF RpmbTypeOK, TypeOK
<1>2. ASSUME IInv, LockInv, NEW w \in WriteOutcomes, NEW ok \in BOOLEAN,
             RollbackWrites(w, ok)
      PROVE  A
  <2>1. /\ Locked /\ Vetted
        /\ \A k \in Locations :
             rpmb'.rollback_index[k] \in {rpmb.rollback_index[k], image[slot].index[k]}
    BY <1>2, WritesIndex
  <2>2. ASSUME NEW k \in Locations
        PROVE  rpmb'.rollback_index[k] >= rpmb.rollback_index[k]
    <3>1. image[slot].index[k] >= rpmb.rollback_index[k]
      BY <2>1 DEF Vetted
    <3>2. rpmb.rollback_index[k] \in Nat
      BY <1>2, RecordFields DEF IInv, TypeOK, RpmbTypeOK
    <3> QED
      BY <2>1, <3>1, <3>2
  <2>3. rpmb.device_state # Unlock
    BY <2>1 DEF Locked, Lock, Unlock
  <2> QED
    BY <2>2, <2>3
<1>3. ASSUME Next, pc = "rollback"
      PROVE  \/ rpmb' = rpmb
             \/ \E w \in WriteOutcomes, ok \in BOOLEAN : RollbackWrites(w, ok)
  BY <1>3 DEF Next, Load, LoadValid, LoadResets, LoadResetLost, LoadResetFails, LoadReadFails,
    Save, SaveSkips, SaveWrites, SaveLoses, SaveFails, StartBoot, SelectSlot,
    SelectFindsNone, VerifySkips, VerifyFails, VerifyFindsNone, VerifyAccepts,
    VerifyRejects, Verifying, RollbackSkips, RollbackReadFails,
    RollbackUnlocked, avb_load_info_from_rpmb, Conclude, Boot, Halt,
    FastbootSetActive, OsActivates, ImageDecays, FastbootQuery,
    FastbootFlashing, OsConfirms, OsRetires, OsWritesImage, PowerCycle,
    PowerFailsInSave, Restart, rpmbVars
<1>4. IInv /\ LockInv /\ [Next]_vars => [A]_vars
  BY <1>1, <1>2, <1>3, Zenon DEF vars, IInv
<1> QED
  BY <1>4, IInvHolds, LockHolds, PTL DEF Spec, RollbackOnlyRises
-----------------------------------------------------------------------------
(***************************************************************************)
(* What normalised metadata are, and which operations keep them so         *)
(***************************************************************************)

Normal(d) == \A s \in Slots : ~IllegalOrSpent(d[s]) \/ d[s] = Unbootable

LEMMA NormalIsFixed ==
  ASSUME NEW d \in AvbABData, Normal(d) PROVE Normalize(d) = d
<1>1. \A s \in Slots : slot_normalize(d[s]) = d[s]
  BY DEF Normal, slot_normalize
<1> QED
  BY <1>1, Zenon DEF Normalize, AvbABData

LEMMA NormalizeNormal ==
  ASSUME NEW d \in AvbABData
  PROVE  /\ Normal(Normalize(d))
         /\ \A s \in Slots : Normalize(d)[s] \in {d[s], Unbootable}
  BY DEF Normal, Normalize, slot_normalize

LEMMA InitNormal == Normal(avb_ab_data_init)
  BY PriorityAssumption, TriesAssumption
  DEF Normal, avb_ab_data_init, IllegalOrSpent, Slots

LEMMA DisableNormal ==
  ASSUME NEW d \in AvbABData, NEW t \in Slots, Normal(d) PROVE Normal(Disable(d, t))
<1>1. \A s \in Slots : Disable(d, t)[s] = IF s = t THEN Unbootable ELSE d[s]
  BY DEF Disable, AvbABData
<1> QED
  BY <1>1 DEF Normal

LEMMA MarkActiveNormal ==
  ASSUME NEW d \in AvbABData, NEW t \in Slots, Normal(d) PROVE Normal(MarkActive(d, t))
<1> DEFINE e == MarkActive(d, t)
           p(s) == IF d[s].priority = MaxPriority THEN d[s].priority - 1
                   ELSE d[s].priority
<1> SUFFICES ASSUME NEW s \in Slots PROVE ~IllegalOrSpent(e[s]) \/ e[s] = Unbootable
  BY DEF Normal
<1>1. CASE s = t
  <2>1. e[s] = [priority |-> MaxPriority, tries_remaining |-> MaxTries,
                successful_boot |-> FALSE]
    BY <1>1 DEF MarkActive
  <2> QED
    BY <2>1, PriorityAssumption, TriesAssumption DEF IllegalOrSpent
<1>2. CASE s # t
  <2>1. e[s] = [d[s] EXCEPT !.priority = p(s)]
    BY <1>2, Zenon DEF MarkActive
  <2>2. d[s] \in AvbABSlotData
    BY DEF AvbABData
  <2>3. /\ e[s].priority = p(s)
        /\ e[s].tries_remaining = d[s].tries_remaining
        /\ e[s].successful_boot = d[s].successful_boot
    BY <2>1, <2>2 DEF AvbABSlotData
  <2>4. CASE d[s] = Unbootable
    <3>1. p(s) = d[s].priority
      BY <2>4, PriorityAssumption DEF Unbootable
    <3>2. e[s] = d[s]
      BY <2>1, <2>2, <3>1 DEF AvbABSlotData
    <3> QED
      BY <2>4, <3>2
  <2>5. CASE ~IllegalOrSpent(d[s])
    <3>1. p(s) # 0
      BY <2>5, SlotFields, PriorityAssumption DEF IllegalOrSpent
    <3> QED
      BY <2>3, <2>5, <3>1, Zenon DEF IllegalOrSpent
  <2> QED
    BY <2>4, <2>5 DEF Normal
<1> QED
  BY <1>1, <1>2

LEMMA MarkSuccessfulNormal ==
  ASSUME NEW d \in AvbABData, NEW t \in Slots, Normal(d)
  PROVE  Normal(MarkSuccessful(d, t))
<1> DEFINE e == MarkSuccessful(d, t)
<1>1. CASE slot_is_bootable(d[t])
  <2>1. e = [d EXCEPT ![t] = [d[t] EXCEPT !.tries_remaining = 0, !.successful_boot = TRUE]]
    BY <1>1 DEF MarkSuccessful, AvbABData, AvbABSlotData
  <2>2. d[t] \in AvbABSlotData
    BY DEF AvbABData
  <2>3. e[t].priority = d[t].priority /\ e[t].tries_remaining = 0 /\ e[t].successful_boot
    BY <2>1, <2>2 DEF AvbABData, AvbABSlotData
  <2>4. \A s \in Slots : s # t => e[s] = d[s]
    BY <2>1 DEF AvbABData
  <2>5. ~IllegalOrSpent(e[t])
    BY <1>1, <2>3 DEF IllegalOrSpent, slot_is_bootable
  <2> QED
    BY <2>4, <2>5 DEF Normal
<1>2. CASE ~slot_is_bootable(d[t])
  BY <1>2 DEF MarkSuccessful
<1> QED
  BY <1>1, <1>2

LEMMA EditedNormal ==
  ASSUME TypeOK, NEW d \in AvbABData, Normal(d)
  PROVE  Edited(d) \in AvbABData /\ Normal(Edited(d))
<1>1. call.op \in Callers /\ call.slot \in Slots
  BY DEF TypeOK, Calls
<1> QED
  BY <1>1, EditedEffect, MarkActiveNormal, DisableNormal, MarkSuccessfulNormal
  DEF Edited, Callers
-----------------------------------------------------------------------------
(***************************************************************************)
(* The slot a boot tries, and what is left when it is given up             *)
(***************************************************************************)

LEMMA ActiveIsBootable ==
  ASSUME NEW d \in AvbABData, Bootables(d) # {}
  PROVE  ActiveSlot(d) \in Slots /\ slot_is_bootable(d[ActiveSlot(d)])
<1>1. Bootables(d) \subseteq {0, 1} /\ \A s \in Bootables(d) : slot_is_bootable(d[s])
  BY DEF Bootables, Slots
<1>2. ActiveSlot(d) \in {0, 1}
  BY DEF ActiveSlot
<1>3. ActiveSlot(d) \in Bootables(d)
  BY <1>1 DEF ActiveSlot, Slots
<1> QED
  BY <1>1, <1>2, <1>3 DEF Slots

\* The preferred slot rejected, if there is one.
GivenUp(d) == IF Bootables(d) = {} THEN d ELSE Disable(d, ActiveSlot(d))

Rejecting(d) == {d, GivenUp(d), GivenUp(GivenUp(d))}

LEMMA GivenUpNormal ==
  ASSUME NEW d \in AvbABData, Normal(d)
  PROVE  GivenUp(d) \in AvbABData /\ Normal(GivenUp(d))
  BY ActiveIsBootable, DisableType, DisableNormal DEF GivenUp

\* With the preferred slot gone only the other one can be left.
LEMMA OtherIsLeft ==
  ASSUME NEW d \in AvbABData, Bootables(d) # {},
         slot_is_bootable(GivenUp(d)[Other(ActiveSlot(d))])
  PROVE  /\ Bootables(GivenUp(d)) # {}
         /\ ActiveSlot(GivenUp(d)) = Other(ActiveSlot(d))
<1> DEFINE a == ActiveSlot(d)
           e == GivenUp(d)
<1>1. a \in Slots /\ e = Disable(d, a)
  BY ActiveIsBootable DEF GivenUp
<1> HIDE DEF a, e
<1>2. e[a] = Unbootable
  BY <1>1 DEF Disable, AvbABData
<1>3. ~slot_is_bootable(e[a])
  BY <1>2 DEF slot_is_bootable, Unbootable
<1>4. a \in {0, 1} /\ slot_is_bootable(e[1 - a])
  BY <1>1 DEF Slots, a, e, Other
<1>5. Bootables(e) = {1 - a}
  BY <1>3, <1>4 DEF Bootables, Slots
<1>6. Bootables(e) # {} /\ ActiveSlot(e) = 1 - a
  BY <1>4, <1>5 DEF ActiveSlot, Slots
<1> QED
  BY <1>6 DEF a, e, Other
-----------------------------------------------------------------------------
(***************************************************************************)
(* How the copy of a call comes from the block on the partition            *)
(***************************************************************************)

\* The verification loop: both slots are tried, the preferred one first.
Trying ==
  LET d == Normalize(ab_data_orig)
  IN \/ n = 0 /\ Bootables(d) # {} /\ slot = ActiveSlot(d) /\ ab_data = d
     \/ /\ n = 1 /\ Bootables(d) # {} /\ slot = Other(ActiveSlot(d))
        /\ ab_data = GivenUp(d)
     \/ n = 2 /\ ab_data \in Rejecting(d)

\* The slot is the one to boot after the rejections in d.
Chosen(d) ==
  /\ d \in Rejecting(Normalize(ab_data_orig)) /\ d \in AvbABData
  /\ Bootables(d) # {} /\ slot = ActiveSlot(d)

\* The copy kept for comparison is metadata.
LEMMA OrigType == ASSUME IInv, Working PROVE ab_data_orig \in AvbABData
  BY InitType DEF IInv, TypeOK, CallInv, CopyOfBlock

\* The slot a running OS names in its calls.
NamesSlot ==
  /\ call.op = "unbootable" => call.back = "running" /\ call.slot = Other(slot)
  /\ call.op = "successful" => call.back = "running" /\ call.slot = slot

CopyInv ==
  /\ pc \notin {"verify", "rollback", "save"} => n = 0
  /\ pc = "select" => ab_data = Normalize(ab_data_orig)
  /\ pc = "verify" => Trying
  /\ pc = "rollback" => Chosen(ab_data)
  /\ pc = "save" /\ ab_data_orig # Undefined =>
       \/ call.op # "flow" /\ ab_data = Edited(Normalize(ab_data_orig))
       \/ call.op = "flow" /\ ret \notin OKs /\ ab_data \in Rejecting(Normalize(ab_data_orig))
       \/ /\ call.op = "flow" /\ ret \in OKs
          /\ \E d \in AvbABData : Chosen(d) /\ ab_data = SpendTry(d, slot)
  /\ pc \in {"load", "save"} => NamesSlot

LEMMA LoadCopy == ASSUME IInv, CopyInv, Load PROVE CopyInv'
<1>1. ASSUME NEW d \in AvbABData, pc = "load", Loads(d) PROVE CopyInv'
  <2>1. /\ ab_data' = Edited(Normalize(d)) /\ ab_data_orig' = d
        /\ pc' = IF call.op = "flow" THEN "select" ELSE "save"
        /\ call' = call /\ slot' = slot /\ n' = n /\ n = 0
    BY <1>1 DEF Loads, CopyInv
  <2>2. call.op = "flow" => Edited(Normalize(d)) = Normalize(d)
    BY DEF Edited
  <2>3. Edited(Normalize(ab_data_orig))' = Edited(Normalize(d))
    BY <2>1 DEF Edited
  <2>4. NamesSlot'
    BY <1>1, <2>1 DEF CopyInv, NamesSlot
  <2> QED
    BY <2>1, <2>2, <2>3, <2>4 DEF CopyInv
<1>2. CASE LoadValid
  BY <1>1, <1>2 DEF LoadValid, IInv, TypeOK
<1>3. CASE LoadResets \/ LoadResetLost
  BY <1>1, <1>3, InitType DEF LoadResets, LoadResetLost
<1>4. CASE LoadResetFails \/ LoadReadFails
  <2>1. PICK d \in AvbABData \cup {Undefined} : LoadFails(d) /\ pc = "load"
    BY <1>4, InitType DEF LoadResetFails, LoadReadFails
  <2>2. pc' \in {"save", "menu", "running"} /\ (pc' # "save" => n' = 0)
    BY <2>1 DEF LoadFails, Forget, IInv, TypeOK, Calls
  <2>3. pc' = "save" => ab_data_orig' = Undefined
    BY <2>1 DEF LoadFails, IInv, TypeOK, Calls
  <2>4. NamesSlot'
    BY <2>1 DEF CopyInv, NamesSlot, LoadFails
  <2> QED
    BY <2>2, <2>3, <2>4 DEF CopyInv
<1> QED
  BY <1>2, <1>3, <1>4 DEF Load

LEMMA SelectCopy == ASSUME IInv, CopyInv, SelectSlot \/ SelectFindsNone PROVE CopyInv'
<1>0. /\ pc = "select" /\ ab_data = Normalize(ab_data_orig) /\ call.op = "flow"
      /\ n = 0
      /\ UNCHANGED <<ab_data, ab_data_orig, call, n>>
  BY DEF SelectSlot, SelectFindsNone, flowVars, CopyInv, IInv, TypeOK, CallInv, Flowing
<1>1. NamesSlot'
  BY <1>0 DEF NamesSlot
<1>2. CASE SelectFindsNone
  BY <1>0, <1>1, <1>2 DEF SelectFindsNone, ToSave, CopyInv, Rejecting, OKs
<1> QED
  BY <1>0, <1>1, <1>2 DEF SelectSlot, CopyInv, Trying

\* Whatever a boot is trying, it has rejected the slots before it.
LEMMA TryingRejects ==
  ASSUME IInv, Trying, Working
  PROVE  /\ ab_data \in Rejecting(Normalize(ab_data_orig)) /\ ab_data \in AvbABData
         /\ n < 2 /\ slot_is_bootable(ab_data[slot]) => Chosen(ab_data)
<1> DEFINE d == Normalize(ab_data_orig)
<1>1. d \in AvbABData /\ Normal(d)
  BY OrigType, NormalizeType, NormalizeNormal
<1>2. GivenUp(d) \in AvbABData /\ GivenUp(GivenUp(d)) \in AvbABData
  BY <1>1, GivenUpNormal
<1>3. \A e \in Rejecting(d) : e \in AvbABData
  BY <1>1, <1>2 DEF Rejecting
<1> HIDE DEF d
<1>4. ab_data \in Rejecting(d)
  BY DEF Trying, d, Rejecting
<1>5. ASSUME n < 2, slot_is_bootable(ab_data[slot]) PROVE Chosen(ab_data)
  <2>1. CASE n = 0
    BY <1>3, <1>4, <2>1 DEF Trying, Chosen, d
  <2>2. CASE n = 1
    <3>1. Bootables(d) # {} /\ slot = Other(ActiveSlot(d)) /\ ab_data = GivenUp(d)
      BY <2>2 DEF Trying, d
    <3>2. Bootables(ab_data) # {} /\ ActiveSlot(ab_data) = slot
      BY <1>1, <1>5, <3>1, OtherIsLeft
    <3> QED
      BY <1>3, <1>4, <3>2 DEF Chosen, d
  <2> QED
    BY <1>5, <2>1, <2>2 DEF Trying
<1> QED
  BY <1>3, <1>4, <1>5 DEF d

LEMMA RejectsCopy ==
  ASSUME IInv, CopyInv, NEW r \in Verdicts, VerifyRejects(r) PROVE CopyInv'
<1>1. /\ pc = "verify" /\ pc' = "verify" /\ n < 2 /\ n' = n + 1
      /\ slot_is_bootable(ab_data[slot])
      /\ ab_data' = Disable(ab_data, slot)
      /\ slot' = IF n = 0 THEN Other(slot) ELSE slot
      /\ ab_data_orig' = ab_data_orig
  BY DEF VerifyRejects, Verifying
<1>2. Trying /\ Working
  BY <1>1 DEF CopyInv, Flowing, Working
<1>3. Chosen(ab_data)
  BY <1>1, <1>2, TryingRejects
<1>4. ab_data' = GivenUp(ab_data)
  BY <1>1, <1>3 DEF Chosen, GivenUp
<1>5. Trying'
  BY <1>1, <1>2, <1>4 DEF Trying, Rejecting
<1> QED
  BY <1>1, <1>5 DEF CopyInv

LEMMA VerifyCopy ==
  ASSUME IInv, CopyInv,
         \/ VerifySkips \/ VerifyFails \/ VerifyFindsNone
         \/ \E r \in Verdicts, ok \in BOOLEAN : VerifyAccepts(r, ok)
  PROVE  CopyInv'
<1>1. /\ pc = "verify" /\ UNCHANGED <<ab_data, ab_data_orig, call, slot>>
  BY DEF VerifySkips, VerifyFails, VerifyFindsNone, VerifyAccepts, Verifying, flowVars
<1>2. /\ Trying /\ call.op = "flow" /\ ab_data_orig # Undefined /\ Working
      /\ n \in 0..2
  BY <1>1 DEF CopyInv, IInv, TypeOK, CallInv, Flowing, Working
<1>3. ab_data \in Rejecting(Normalize(ab_data_orig)) /\ ab_data \in AvbABData
      /\ (n < 2 /\ slot_is_bootable(ab_data[slot]) => Chosen(ab_data))
  BY <1>2, TryingRejects
<1>4. CASE VerifyFails \/ VerifyFindsNone
  <2>1. pc' = "save" /\ ret' \notin OKs /\ n' = n
    BY <1>4 DEF VerifyFails, VerifyFindsNone, ToSave, OKs, flowVars
  <2> QED
    BY <1>1, <1>2, <1>3, <2>1 DEF CopyInv, NamesSlot
<1>5. ASSUME NEW r \in Verdicts, NEW ok \in BOOLEAN, VerifyAccepts(r, ok)
      PROVE  CopyInv'
  <2>1. pc' = "rollback" /\ n < 2 /\ slot_is_bootable(ab_data[slot])
    BY <1>5 DEF VerifyAccepts, Verifying
  <2> QED
    BY <1>1, <1>3, <2>1 DEF CopyInv, Chosen
<1>6. CASE VerifySkips
  <2>1. pc' = "verify" /\ n' = n + 1 /\ n < 2 /\ ~slot_is_bootable(ab_data[slot])
    BY <1>1, <1>6 DEF VerifySkips
  <2>2. n # 0
    BY <1>2, <2>1, OrigType, ActiveIsBootable, NormalizeType DEF Trying
  <2>3. n' = 2
    BY <1>2, <2>1, <2>2
  <2>4. Trying'
    BY <1>1, <1>3, <2>3 DEF Trying
  <2> QED
    BY <2>1, <2>4 DEF CopyInv
<1> QED
  BY <1>4, <1>5, <1>6

LEMMA RollbackCopy ==
  ASSUME IInv, CopyInv,
         \/ RollbackSkips \/ RollbackReadFails
         \/ \E ok \in BOOLEAN : RollbackUnlocked(ok)
         \/ \E w \in WriteOutcomes, ok \in BOOLEAN : RollbackWrites(w, ok)
  PROVE  CopyInv'
<1>1. /\ pc = "rollback" /\ UNCHANGED <<ab_data, ab_data_orig, call, slot>>
      /\ \/ pc' = "rollback"
         \/ pc' = "save" /\ ret' \notin OKs
  BY DEF RollbackSkips, RollbackReadFails, RollbackUnlocked, RollbackWrites, UpdateDue,
         NextLocation, ToSave, OKs, flowVars
<1>2. Chosen(ab_data) /\ call.op = "flow"
  BY <1>1 DEF CopyInv, IInv, CallInv, Flowing
<1> QED
  BY <1>1, <1>2 DEF CopyInv, Chosen, NamesSlot

LEMMA ConcludeCopy == ASSUME IInv, CopyInv, Conclude PROVE CopyInv'
<1>1. /\ pc = "rollback" /\ pc' = "save" /\ ret' \in OKs
      /\ ab_data' = SpendTry(ab_data, slot)
      /\ UNCHANGED <<ab_data_orig, call, slot>>
  BY DEF Conclude, ToSave, OKs
<1>2. Chosen(ab_data) /\ call.op = "flow"
  BY <1>1 DEF CopyInv, IInv, CallInv, Flowing
<1>3. \E d \in AvbABData : Chosen(d)' /\ ab_data' = SpendTry(d, slot')
  BY <1>1, <1>2 DEF Chosen
<1> QED
  BY <1>1, <1>2, <1>3 DEF CopyInv, NamesSlot, Chosen

\* Outside a call no copy is held; a call of the OS names its slot.
LEMMA OtherCopy ==
  ASSUME IInv, CopyInv,
         \/ Save \/ PowerCycle \/ PowerFailsInSave
         \/ \E ok0, ok \in BOOLEAN : StartBoot(ok0, ok)
         \/ \E ok \in BOOLEAN : Boot(ok) \/ Halt(ok)
         \/ \E s \in Slots : FastbootSetActive(s) \/ OsActivates(s) \/ ImageDecays(s)
         \/ FastbootQuery
         \/ \E st \in {Unlock, Lock}, ok0, ok1, ok2 \in BOOLEAN, w \in WriteOutcomes :
              FastbootFlashing(st, ok0, ok1, w, ok2)
         \/ OsConfirms \/ OsRetires
         \/ \E im \in Images : OsWritesImage(im)
  PROVE  CopyInv'
<1>1. CASE Save \/ PowerCycle \/ PowerFailsInSave
  <2>1. pc' \in {"menu", "handoff", "running"} /\ n' = 0
    BY <1>1 DEF Save, SaveSkips, SaveWrites, SaveLoses, SaveFails, Return, PowerCycle,
                PowerFailsInSave, Restart, Forget, IInv, TypeOK, Calls
  <2> QED
    BY <2>1 DEF CopyInv
<1>2. CASE ~(Save \/ PowerCycle \/ PowerFailsInSave)
  <2>1. /\ pc' \in {"load", "running", "halted", "menu"} /\ n' = n
        /\ pc \in {"load", "running", "halted", "menu", "handoff"}
        /\ pc' = "load" => NamesSlot'
    BY <1>2 DEF StartBoot, Boot, Halt, FastbootSetActive, OsActivates, ImageDecays,
                CallMark, FastbootQuery, FastbootFlashing, OsConfirms, OsRetires,
                OsWritesImage, flowVars, FlowCall, NamesSlot
  <2> QED
    BY <2>1 DEF CopyInv
<1> QED
  BY <1>1, <1>2

LEMMA StutterCopy == ASSUME CopyInv, UNCHANGED vars PROVE CopyInv'
  BY DEF CopyInv, Trying, Chosen, NamesSlot, Edited, vars, flowVars

LEMMA CopyHolds == Spec => []CopyInv
<1>1. Init => CopyInv
  BY DEF Init, Locals, CopyInv
<1>2. IInv /\ CopyInv /\ [Next]_vars => CopyInv'
  BY LoadCopy, SelectCopy, RejectsCopy, VerifyCopy, RollbackCopy, ConcludeCopy,
     OtherCopy, StutterCopy
  DEF Next
<1> QED
  BY <1>1, <1>2, IInvHolds, PTL DEF Spec
-----------------------------------------------------------------------------
(***************************************************************************)
(* What the callers of the mark functions are promised                     *)
(***************************************************************************)

\* A call that reports success has its copy on the partition, or the write of
\* the copy or of the fresh block it started from failed unnoticed.
LEMMA SuccessIsStored ==
  ASSUME IInv, CopyInv, Next, pc = "save", call.op # "flow", call' = call,
         pc' # "save", ret' = "OK"
  PROVE  IF lost' THEN misc' \in {misc, Invalid}
         ELSE /\ ab_data_orig \in AvbABData
              /\ misc' = Edited(Normalize(ab_data_orig))
              /\ misc # Invalid => ab_data_orig = misc
              /\ misc = Invalid => ab_data_orig = avb_ab_data_init
<1>1. /\ ab_data_orig # Undefined /\ Working /\ CopyOfBlock
      /\ ab_data = Edited(Normalize(ab_data_orig)) /\ ab_data \in AvbABData
  BY DEF IInv, CallInv, Working, CopyInv
<1>2. SaveSkips \/ SaveWrites \/ SaveLoses
  BY DEF Next, Load, LoadValid, LoadResets, LoadResetLost, LoadResetFails, LoadReadFails,
    Save, SaveFails, Return, StartBoot, SelectSlot,
    SelectFindsNone, VerifySkips, VerifyFails, VerifyFindsNone, VerifyAccepts,
    VerifyRejects, Verifying, RollbackSkips, RollbackReadFails,
    RollbackUnlocked, RollbackWrites, UpdateDue, Conclude, Boot, Halt,
    FastbootSetActive, OsActivates, ImageDecays, FastbootQuery,
    FastbootFlashing, OsConfirms, OsRetires, OsWritesImage, PowerCycle,
    PowerFailsInSave, Restart, FlowCall
<1>3. CASE SaveSkips
  BY <1>1, <1>3, OrigType DEF SaveSkips, MaySkipSave, CopyOfBlock
<1>4. CASE SaveWrites
  BY <1>1, <1>4, OrigType, Marks DEF SaveWrites, Store, SavedBlock, CopyOfBlock
<1>5. CASE SaveLoses
  BY <1>5 DEF SaveLoses, Return, OKs
<1> QED
  BY <1>2, <1>3, <1>4, <1>5

\* The slot that was made active has the top priority and the other one has not.
LEMMA MarkActiveWins ==
  ASSUME NEW d \in AvbABData, NEW t \in Slots, Normal(d)
  PROVE  /\ slot_is_bootable(MarkActive(d, t)[t])
         /\ ActiveSlot(MarkActive(d, t)) = t
<1> DEFINE e == MarkActive(d, t)
           p(s) == IF d[s].priority = MaxPriority THEN d[s].priority - 1
                   ELSE d[s].priority
<1>1. e[t] = [priority |-> MaxPriority, tries_remaining |-> MaxTries,
              successful_boot |-> FALSE]
  BY DEF MarkActive
<1>2. slot_is_bootable(e[t])
  BY <1>1, PriorityAssumption, TriesAssumption DEF slot_is_bootable
<1>3. ASSUME NEW s \in Slots, s # t PROVE e[s].priority < e[t].priority
  <2>1. e[s] = [d[s] EXCEPT !.priority = p(s)]
    BY <1>3, Zenon DEF MarkActive
  <2>2. d[s] \in AvbABSlotData
    BY DEF AvbABData
  <2>3. e[s].priority = p(s)
    BY <2>1, <2>2 DEF AvbABSlotData
  <2> QED
    BY <1>1, <2>3, SlotFields, PriorityAssumption
<1> HIDE DEF e
<1>4. t \in {0, 1}
  BY DEF Slots
<1>5. CASE t = 1
  <2>1. e[0].priority < e[1].priority /\ slot_is_bootable(e[1])
    BY <1>2, <1>3, <1>5 DEF Slots
  <2> QED
    BY <1>2, <1>5, <2>1 DEF ActiveSlot, Bootables, Slots, e
<1>6. CASE t = 0
  <2>1. e[1].priority < e[0].priority /\ slot_is_bootable(e[0])
    BY <1>2, <1>3, <1>6 DEF Slots
  <2>2. Bootables(e) # {1} /\ ~(e[1].priority > e[0].priority)
    <3>1. e[0].priority \in Int /\ e[1].priority \in Int
      BY MarkActiveType, SlotFields, PriorityAssumption DEF e, Slots
    <3> QED
      BY <2>1, <3>1 DEF Bootables, Slots
  <2> QED
    BY <1>2, <1>6, <2>2 DEF ActiveSlot, e
<1> QED
  BY <1>4, <1>5, <1>6

\* When avb_ab_mark_slot_active() reports success, the next avb_ab_flow() tries
\* that slot first, also when the block had to be reset on the way; if a write
\* failed unnoticed, the block is the one before or unusable, and nothing else.
THEOREM ActivationTakesEffect == Spec => SetActiveTakesEffect
<1> DEFINE A ==
      pc = "save" /\ pc' # "save" /\ call.op = "active" /\ ret' = "OK" /\ ret = "OK"
        /\ call' = call =>
        IF lost' THEN misc' \in {misc, Invalid}
        ELSE /\ misc' # Invalid
             /\ slot_is_bootable(misc'[call.slot])
             /\ ActiveSlot(Normalize(misc')) = call.slot
<1>1. ASSUME IInv, CopyInv, Next PROVE A
  <2>0. SUFFICES ASSUME pc = "save", pc' # "save", call.op = "active", ret' = "OK",
                        call' = call, ~lost'
                 PROVE  /\ misc' # Invalid
                        /\ slot_is_bootable(misc'[call.slot])
                        /\ ActiveSlot(Normalize(misc')) = call.slot
    BY <1>1, SuccessIsStored
  <2> DEFINE d == Normalize(ab_data_orig)
             e == MarkActive(d, call.slot)
  <2>1. ab_data_orig \in AvbABData /\ misc' = e /\ call.slot \in Slots
    BY <1>1, <2>0, SuccessIsStored DEF Edited, IInv, TypeOK, Calls
  <2>2. d \in AvbABData /\ Normal(d)
    BY <2>1, NormalizeType, NormalizeNormal
  <2> HIDE DEF d
  <2>3. e \in AvbABData /\ Normal(e)
    BY <2>1, <2>2, MarkActiveType, MarkActiveNormal
  <2>4. slot_is_bootable(e[call.slot]) /\ ActiveSlot(e) = call.slot
    BY <2>1, <2>2, MarkActiveWins
  <2> QED
    BY <2>1, <2>3, <2>4, NormalIsFixed, Marks
<1>2. UNCHANGED vars => A
  BY DEF vars
<1>3. IInv /\ CopyInv /\ [Next]_vars => [A]_vars
  BY <1>1, <1>2, Zenon
<1> QED
  BY <1>3, IInvHolds, CopyHolds, PTL DEF Spec, SetActiveTakesEffect

\* When avb_ab_mark_slot_successful() reports success the slot is confirmed on
\* the partition, unless it had run on its last try; if a write failed
\* unnoticed, the block is the one before or unusable.
THEOREM ConfirmationSticks == Spec => ConfirmSticks
<1> DEFINE A ==
      pc = "save" /\ call.op = "successful" /\ call' = call
        /\ pc' = call.back /\ ret' = "OK" =>
        IF lost' THEN misc' \in {misc, Invalid}
        ELSE \/ misc'[call.slot].successful_boot
             \/ ~slot_is_bootable(misc[call.slot])
<1>1. ASSUME IInv, LegalInv, CopyInv, Next PROVE A
  <2>0. SUFFICES ASSUME pc = "save", call.op = "successful", call' = call,
                        pc' = call.back, ret' = "OK", ~lost',
                        slot_is_bootable(misc[call.slot])
                 PROVE  misc'[call.slot].successful_boot
    <3>1. call.back # "save"
      BY <1>1 DEF IInv, TypeOK, Calls
    <3> QED
      BY <1>1, <3>1, SuccessIsStored
  <2> DEFINE s == call.slot
             d == Normalize(ab_data_orig)
  <2>1. s \in Slots /\ call.back \in {"menu", "running"}
    BY <1>1 DEF IInv, TypeOK, Calls
  <2>2. /\ ab_data_orig \in AvbABData /\ misc' = MarkSuccessful(d, s)
        /\ misc # Invalid => ab_data_orig = misc
        /\ misc = Invalid => ab_data_orig = avb_ab_data_init
    BY <1>1, <2>0, <2>1, SuccessIsStored DEF Edited
  <2>a. slot_is_bootable(ab_data_orig[s]) /\ Settled(ab_data_orig)
    <3>1. CASE misc = Invalid
      <4>1. slot_is_bootable(avb_ab_data_init[s])
        BY <2>1, PriorityAssumption, TriesAssumption
        DEF slot_is_bootable, avb_ab_data_init, Slots
      <4> QED
        BY <2>2, <3>1, <4>1, InitLegal DEF Legal
    <3>2. CASE misc # Invalid
      BY <1>1, <2>0, <2>2, <3>2 DEF LegalInv, Legal
    <3> QED
      BY <3>1, <3>2
  <2>3. d[s] = ab_data_orig[s] /\ d \in AvbABData
    <3>1. ~IllegalOrSpent(ab_data_orig[s])
      BY <2>1, <2>2, <2>a, SlotFields DEF Settled, IllegalOrSpent, slot_is_bootable
    <3> QED
      BY <2>1, <2>2, <3>1, NormalizeType DEF Normalize, slot_normalize
  <2> HIDE DEF d
  <2>4. MarkSuccessful(d, s) =
          [d EXCEPT ![s] = [d[s] EXCEPT !.tries_remaining = 0, !.successful_boot = TRUE]]
    BY <2>1, <2>3, <2>a DEF MarkSuccessful, AvbABData, AvbABSlotData
  <2>5. d[s] \in AvbABSlotData
    BY <2>1, <2>3 DEF AvbABData
  <2> QED
    BY <2>1, <2>2, <2>3, <2>4, <2>5 DEF AvbABData, AvbABSlotData
<1>2. ASSUME IInv, UNCHANGED vars PROVE A
  BY <1>2 DEF vars, IInv, TypeOK, Calls
<1>3. IInv /\ LegalInv /\ CopyInv /\ [Next]_vars => [A]_vars
  BY <1>1, <1>2, Zenon
<1> QED
  BY <1>3, IInvHolds, LegalHolds, CopyHolds, PTL DEF Spec, ConfirmSticks
-----------------------------------------------------------------------------
(***************************************************************************)
(* A boot gives up only the slots it rejects                               *)
(***************************************************************************)

\* The images of slot s do not verify or are behind the stored indexes.
Unfit(s) == image[s].state # "good" \/ Behind(image[s])

\* The last try of slot s is spent on this boot.
LastTry(s) ==
  /\ s = slot /\ ret \in OKs
  /\ ab_data_orig[s].tries_remaining = 1 /\ ~ab_data_orig[s].successful_boot

\* The copy of a boot differs from the block in the slots that were rejected and,
\* in the end, in the slot that is charged.
KeepInv ==
  /\ Flowing => \A s \in Slots : slot_is_bootable(ab_data_orig[s]) =>
                  ab_data[s] = ab_data_orig[s] \/ Unfit(s)
  /\ pc = "save" /\ ab_data_orig # Undefined /\ call.op = "flow" =>
       \A s \in Slots :
         slot_is_bootable(ab_data_orig[s]) /\ ~slot_is_bootable(ab_data[s]) =>
           Unfit(s) \/ LastTry(s)

\* What is behind the RAM copy stays behind it for the rest of the boot.
LEMMA CopyRises ==
  ASSUME IInv, LockInv, NEW k \in Locations,
         \/ UNCHANGED cache
         \/ \E r \in Verdicts, ok \in BOOLEAN : VerifyAccepts(r, ok)
         \/ \E ok \in BOOLEAN : RollbackUnlocked(ok)
         \/ \E w \in WriteOutcomes, ok \in BOOLEAN : RollbackWrites(w, ok)
  PROVE  cache'.rollback_index[k] >= cache.rollback_index[k]
<1>0. cache \in UBOOT_RPMB_RAW_DATA /\ cache.rollback_index[k] \in Nat
  BY RecordFields DEF IInv, TypeOK, RpmbTypeOK
<1>1. CASE UNCHANGED cache
  BY <1>0, <1>1
<1>2. ASSUME NEW r \in Verdicts, NEW ok \in BOOLEAN, VerifyAccepts(r, ok)
      PROVE  cache' = cache
  <2>1. pc = "verify" /\ call.op = "flow" /\ support
    BY <1>2 DEF VerifyAccepts, Verifying, CanReport, HandsOut, Verdicts, IInv, CallInv,
                Flowing
  <2> QED
    BY <1>2, <2>1 DEF LockInv, VerifyAccepts, avb_load_info_from_rpmb, Loaded
<1>3. ASSUME NEW ok \in BOOLEAN, RollbackUnlocked(ok) PROVE cache' = cache
  BY <1>3 DEF LockInv, RollbackUnlocked, UpdateDue, avb_load_info_from_rpmb, Loaded
<1>4. ASSUME NEW w \in WriteOutcomes, NEW ok \in BOOLEAN, RollbackWrites(w, ok)
      PROVE  cache'.rollback_index[k] >= cache.rollback_index[k]
  <2> DEFINE block == [rpmb EXCEPT !.rollback_index[loc] = SlotIndex]
  <2>1. pc = "rollback" /\ loc \in Locations /\ cache = rpmb
    BY <1>4, LocationsAssumption DEF RollbackWrites, UpdateDue, IInv, TypeOK, Locations,
                                     LockInv
  <2>2. block.rollback_index[k] = IF k = loc THEN SlotIndex ELSE rpmb.rollback_index[k]
    BY <1>0, <2>1 DEF UBOOT_RPMB_RAW_DATA
  <2>3. cache' \in {block, rpmb}
    BY <1>4, Zenon DEF RollbackWrites, write_rollback_index, Loaded
  <2> HIDE DEF block
  <2>4. image[slot].index[k] >= rpmb.rollback_index[k]
    BY <1>4, WritesIndex DEF Vetted
  <2> QED
    BY <1>0, <2>1, <2>2, <2>3, <2>4 DEF SlotIndex
<1> QED
  BY <1>0, <1>1, <1>2, <1>3, <1>4

LEMMA UnfitStays ==
  ASSUME TypeOK, NEW s \in Slots, Unfit(s), image' = image, RpmbTypeOK',
         \A k \in Locations : cache'.rollback_index[k] >= cache.rollback_index[k]
  PROVE  Unfit(s)'
<1> SUFFICES ASSUME Behind(image[s]) PROVE Behind(image[s])'
  BY DEF Unfit
<1>1. PICK k \in Locations : image[s].index[k] < cache.rollback_index[k]
  BY DEF Behind, CachedIndex
<1>2. image[s].index[k] \in Nat
  <2>1. image[s] \in Images
    BY DEF TypeOK
  <2> QED
    BY <2>1, IndexesAssumption DEF Images
<1>3. cache.rollback_index[k] \in Nat /\ cache'.rollback_index[k] \in Nat
  BY RecordFields DEF TypeOK, RpmbTypeOK
<1>4. image'[s].index[k] < cache'.rollback_index[k]
  BY <1>1, <1>2, <1>3
<1> QED
  BY <1>4 DEF Behind, CachedIndex

LEMMA LoadKeeps == ASSUME IInv, LegalInv, Load PROVE KeepInv'
<1>1. ASSUME pc' = "select"
      PROVE  /\ ab_data_orig' \in AvbABData /\ Legal(ab_data_orig')
             /\ ab_data' = Normalize(ab_data_orig')
  <2>1. PICK d \in AvbABData : Loads(d) /\ Legal(d)
    BY <1>1, InitType, InitLegal
    DEF Load, LoadValid, LoadResets, LoadResetLost, LoadResetFails, LoadReadFails,
        LoadFails, IInv, TypeOK, Calls, LegalInv
  <2> QED
    BY <1>1, <2>1 DEF Loads, Edited
<1>2. ASSUME pc' = "select", NEW s \in Slots, slot_is_bootable(ab_data_orig'[s])
      PROVE  ab_data'[s] = ab_data_orig'[s]
  <2>1. ~IllegalOrSpent(ab_data_orig'[s])
    BY <1>1, <1>2, SlotFields DEF Legal, Settled, IllegalOrSpent, slot_is_bootable
  <2> QED
    BY <1>1, <1>2, <2>1 DEF Normalize, slot_normalize
<1>3. /\ pc' \in {"select", "save", "menu", "running"}
      /\ pc' = "save" /\ call'.op = "flow" => ab_data_orig' = Undefined
  BY DEF Load, LoadValid, LoadResets, LoadResetLost, LoadResetFails, LoadReadFails, Loads, LoadFails,
         IInv, TypeOK, Calls
<1> QED
  BY <1>2, <1>3 DEF KeepInv, Flowing

\* The steps of the flow that leave the copy alone.
LEMMA FlowKeeps ==
  ASSUME IInv, IInv', LockInv, KeepInv,
         \/ SelectSlot \/ SelectFindsNone
         \/ VerifySkips \/ VerifyFails \/ VerifyFindsNone
         \/ \E r \in Verdicts, ok \in BOOLEAN : VerifyAccepts(r, ok)
         \/ RollbackSkips \/ RollbackReadFails
         \/ \E ok \in BOOLEAN : RollbackUnlocked(ok)
         \/ \E w \in WriteOutcomes, ok \in BOOLEAN : RollbackWrites(w, ok)
  PROVE  KeepInv'
<1>1. Flowing /\ UNCHANGED <<image, ab_data, ab_data_orig>>
  BY DEF SelectSlot, SelectFindsNone, VerifySkips, VerifyFails, VerifyFindsNone,
         VerifyAccepts, Verifying, RollbackSkips, RollbackReadFails,
         RollbackUnlocked, RollbackWrites, UpdateDue, flowVars, Flowing
<1>2. \A k \in Locations : cache'.rollback_index[k] >= cache.rollback_index[k]
  BY CopyRises
  DEF SelectSlot, SelectFindsNone, VerifySkips, VerifyFails, VerifyFindsNone,
      RollbackSkips, RollbackReadFails, rpmbVars
<1>3. ASSUME NEW s \in Slots, Unfit(s) PROVE Unfit(s)'
  BY <1>1, <1>2, <1>3, UnfitStays DEF IInv, TypeOK
<1> QED
  BY <1>1, <1>3 DEF KeepInv

LEMMA RejectsKeeps ==
  ASSUME IInv, LockInv, KeepInv, NEW r \in Verdicts, VerifyRejects(r) PROVE KeepInv'
<1>1. /\ pc = "verify" /\ pc' = "verify" /\ UNCHANGED <<ab_data_orig, image, cache>>
      /\ ab_data' = Disable(ab_data, slot)
      /\ CanReport(image[slot], allow, r) /\ r # "OK"
  BY DEF VerifyRejects, Verifying, rpmbVars, HandsOut
<1>2. Unfit(slot)
  BY <1>1 DEF CanReport, Verdicts, Unfit
<1>3. ab_data \in AvbABData /\ slot \in Slots /\ Flowing
  BY <1>1 DEF IInv, TypeOK, CallInv, Working, Flowing
<1>4. \A s \in Slots : s # slot => ab_data'[s] = ab_data[s]
  BY <1>1, <1>3 DEF Disable, AvbABData
<1>5. \A s \in Slots : Unfit(s)' = Unfit(s)
  BY <1>1 DEF Unfit, Behind, CachedIndex
<1>6. \A s \in Slots : slot_is_bootable(ab_data_orig'[s]) =>
        ab_data'[s] = ab_data_orig'[s] \/ Unfit(s)'
  BY <1>1, <1>2, <1>3, <1>4, <1>5 DEF KeepInv
<1> QED
  BY <1>1, <1>6 DEF KeepInv

LEMMA ConcludeKeeps == ASSUME IInv, KeepInv, Conclude PROVE KeepInv'
<1>1. /\ pc = "rollback" /\ pc' = "save"
      /\ UNCHANGED <<ab_data_orig, image, cache, slot>>
      /\ ab_data' = SpendTry(ab_data, slot) /\ ret' \in OKs
  BY DEF Conclude, ToSave, rpmbVars, OKs
<1>2. ab_data \in AvbABData /\ slot \in Slots /\ Flowing
      /\ ab_data_orig \in AvbABData
  BY <1>1, OrigType DEF IInv, TypeOK, CallInv, Working, Flowing
<1>3. \A s \in Slots : Unfit(s)' = Unfit(s)
  BY <1>1 DEF Unfit, Behind, CachedIndex
<1>4. ASSUME NEW s \in Slots, slot_is_bootable(ab_data_orig[s]), ~slot_is_bootable(ab_data'[s]),
             ~Unfit(s)
      PROVE  LastTry(s)'
  <2>1. ab_data[s] = ab_data_orig[s]
    BY <1>2, <1>4 DEF KeepInv
  <2>2. CASE ~ab_data[slot].successful_boot /\ ab_data[slot].tries_remaining > 0
    <3>1. ab_data' = [ab_data EXCEPT ![slot] =
             [ab_data[slot] EXCEPT !.tries_remaining = ab_data[slot].tries_remaining - 1]]
      BY <1>1, <2>2, Zenon DEF SpendTry
    <3>2. s = slot
      BY <1>2, <1>4, <2>1, <3>1 DEF AvbABData
    <3>3. ab_data[s] \in AvbABSlotData
      BY <1>2 DEF AvbABData
    <3>4. /\ ab_data'[s].priority = ab_data[s].priority
          /\ ab_data'[s].tries_remaining = ab_data[s].tries_remaining - 1
      BY <1>2, <3>1, <3>2, <3>3 DEF AvbABData, AvbABSlotData
    <3>5. ab_data[s].tries_remaining \in Nat
      BY <1>2, SlotFields, TriesAssumption
    <3>6. ab_data_orig[s].tries_remaining = 1
      BY <1>4, <2>1, <2>2, <3>2, <3>4, <3>5 DEF slot_is_bootable
    <3> QED
      BY <1>1, <2>1, <2>2, <3>2, <3>6, Zenon DEF LastTry
  <2>3. CASE ~(~ab_data[slot].successful_boot /\ ab_data[slot].tries_remaining > 0)
    <3>1. ab_data' = ab_data
      BY <1>1, <2>3, Zenon DEF SpendTry
    <3> QED
      BY <1>4, <2>1, <3>1
  <2> QED
    BY <2>2, <2>3
<1> QED
  BY <1>1, <1>3, <1>4 DEF KeepInv, Flowing

LEMMA OtherKeeps ==
  ASSUME IInv,
         \/ Save \/ PowerCycle \/ PowerFailsInSave
         \/ \E ok0, ok \in BOOLEAN : StartBoot(ok0, ok)
         \/ \E ok \in BOOLEAN : Boot(ok) \/ Halt(ok)
         \/ \E s \in Slots : FastbootSetActive(s) \/ OsActivates(s) \/ ImageDecays(s)
         \/ FastbootQuery
         \/ \E st \in {Unlock, Lock}, ok0, ok1, ok2 \in BOOLEAN, w \in WriteOutcomes :
              FastbootFlashing(st, ok0, ok1, w, ok2)
         \/ OsConfirms \/ OsRetires
         \/ \E im \in Images : OsWritesImage(im)
  PROVE  KeepInv'
<1>1. pc' \in {"menu", "handoff", "running", "halted", "load"}
  BY DEF Save, SaveSkips, SaveWrites, SaveLoses, SaveFails, Return, PowerCycle, PowerFailsInSave,
         Restart, StartBoot, Boot, Halt, FastbootSetActive, OsActivates, ImageDecays,
         CallMark, FastbootQuery, FastbootFlashing, OsConfirms, OsRetires,
         OsWritesImage, IInv, TypeOK, Calls
<1> QED
  BY <1>1 DEF KeepInv, Flowing

LEMMA StutterKeeps == ASSUME KeepInv, UNCHANGED vars PROVE KeepInv'
  BY DEF KeepInv, Flowing, Unfit, LastTry, Behind, CachedIndex, vars, flowVars, rpmbVars

LEMMA KeepHolds == Spec => []KeepInv
<1>1. Init => KeepInv
  BY DEF Init, KeepInv, Flowing
<1>2. IInv /\ IInv' /\ LegalInv /\ LockInv /\ KeepInv /\ [Next]_vars => KeepInv'
  BY LoadKeeps, FlowKeeps, RejectsKeeps, ConcludeKeeps, OtherKeeps, StutterKeeps
  DEF Next
<1> QED
  BY <1>1, <1>2, IInvHolds, LegalHolds, LockHolds, PTL DEF Spec

\* A boot that stores metadata makes a bootable slot unbootable only if its images
\* were rejected or its last try is spent on this very boot.
THEOREM BootKeepsFitSlots == Spec => BootKeepsGoodSlots
<1> DEFINE A ==
      pc = "save" /\ call.op = "flow" /\ misc # Invalid /\ misc' # Invalid =>
        \A s \in Slots :
          slot_is_bootable(misc[s]) /\ ~slot_is_bootable(misc'[s]) =>
            \/ image[s].state # "good" \/ Behind(image[s])
            \/ /\ s = slot /\ ret \in OKs
               /\ misc[s].tries_remaining = 1 /\ ~misc[s].successful_boot
<1>1. ASSUME IInv, RevivalInv, KeepInv, Next PROVE A
  <2> SUFFICES ASSUME pc = "save", call.op = "flow", misc # Invalid, misc' # Invalid,
                      NEW s \in Slots,
                      slot_is_bootable(misc[s]), ~slot_is_bootable(misc'[s])
               PROVE  \/ Unfit(s)
                      \/ /\ s = slot /\ ret \in OKs
                         /\ misc[s].tries_remaining = 1 /\ ~misc[s].successful_boot
    BY DEF Unfit
  <2>1. misc' = SavedBlock
    BY <1>1, MiscChanges
  <2>2. misc' = ab_data /\ ab_data # Undefined
    BY <2>1 DEF SavedBlock
  <2>3. ab_data_orig # Undefined
    BY <1>1, <2>2 DEF RevivalInv
  <2>4. ab_data_orig = misc
    BY <1>1, <2>3 DEF IInv, CallInv, Working, CopyOfBlock
  <2> QED
    BY <1>1, <2>2, <2>3, <2>4 DEF KeepInv, LastTry
<1>2. misc' = misc => A
  OBVIOUS
<1>3. IInv /\ RevivalInv /\ KeepInv /\ [Next]_vars => [A]_vars
  BY <1>1, <1>2, Zenon DEF vars
<1> QED
  BY <1>3, IInvHolds, RevivalHolds, KeepHolds, PTL DEF Spec, BootKeepsGoodSlots
-----------------------------------------------------------------------------
(***************************************************************************)
(* The flow implements the policy                                          *)
(***************************************************************************)

\* The state of the policy.
Meta == IF misc = Invalid THEN avb_ab_data_init ELSE Normalize(misc)
ChargedSlot == IF pc = "handoff" /\ ret \in OKs THEN slot ELSE NoSlot
Dropped == pc = "handoff" /\ ret \in OKs /\ lost
RunningSlot == IF pc = "running" \/ (InMark /\ call.back = "running")
               THEN slot ELSE NoSlot

\* The policy speaks of the metadata with the same operators.
LEMMA SameOperators ==
  /\ Policy!Slots = Slots
  /\ \A s : Policy!Other(s) = Other(s)
  /\ Policy!avb_ab_data_init = avb_ab_data_init
  /\ \A d : Policy!Normalize(d) = Normalize(d)
  /\ \A d : Policy!Bootables(d) = Bootables(d)
  /\ \A d : Policy!ActiveSlot(d) = ActiveSlot(d)
  /\ \A d, s : Policy!Disable(d, s) = Disable(d, s)
  /\ \A d, s : Policy!SpendTry(d, s) = SpendTry(d, s)
  /\ \A d, s : Policy!MarkActive(d, s) = MarkActive(d, s)
  /\ \A d, s : Policy!MarkSuccessful(d, s) = MarkSuccessful(d, s)
<1>1. Policy!Slots = Slots /\ \A s : Policy!Other(s) = Other(s)
  BY DEF Policy!Slots, Slots, Policy!Other, Other
<1>2. Policy!avb_ab_data_init = avb_ab_data_init
  BY <1>1, Zenon DEF Policy!avb_ab_data_init, avb_ab_data_init
<1>3. Policy!Unbootable = Unbootable
  BY Zenon DEF Policy!Unbootable, Unbootable
<1>4. \A d : Policy!Normalize(d) = Normalize(d)
  BY <1>1, <1>3, Zenon
  DEF Policy!Normalize, Normalize, Policy!slot_normalize, slot_normalize,
      Policy!IllegalOrSpent, IllegalOrSpent
<1>5. \A d : Policy!Bootables(d) = Bootables(d)
  BY <1>1, Zenon
  DEF Policy!Bootables, Bootables, Policy!slot_is_bootable, slot_is_bootable
<1>6. \A d : Policy!ActiveSlot(d) = ActiveSlot(d)
  BY <1>1, <1>5, Zenon DEF Policy!ActiveSlot, ActiveSlot
<1>7. \A d, s : Policy!Disable(d, s) = Disable(d, s)
  BY <1>3, Zenon DEF Policy!Disable, Disable
<1>8. \A d, s : Policy!SpendTry(d, s) = SpendTry(d, s)
  BY Zenon DEF Policy!SpendTry, SpendTry
<1>9. \A d, s : Policy!MarkActive(d, s) = MarkActive(d, s)
  BY <1>1, Zenon DEF Policy!MarkActive, MarkActive
<1>10. \A d, s : Policy!MarkSuccessful(d, s) = MarkSuccessful(d, s)
  BY Zenon DEF Policy!MarkSuccessful, MarkSuccessful, Policy!slot_is_bootable,
               slot_is_bootable
<1> QED
  BY <1>1, <1>2, <1>4, <1>5, <1>6, <1>7, <1>8, <1>9, <1>10, Zenon

LEMMA RejectingMaps == Policy!AfterRejecting = Rejecting(Meta)
  BY SameOperators DEF Policy!AfterRejecting, Rejecting, GivenUp, Meta

\* No charge is dropped where no boot is about to start.
LEMMA NothingDropped ==
  ASSUME ChargedSlot = NoSlot, slot # NoSlot PROVE Dropped = FALSE
  BY DEF ChargedSlot, Dropped

LEMMA ChargeMaps ==
  ASSUME RunningSlot = NoSlot, RunningSlot' = NoSlot,
         NEW d \in Rejecting(Meta), Bootables(d) # {},
         Meta' = Normalize(SpendTry(d, ActiveSlot(d))),
         ChargedSlot' \in {ActiveSlot(d), NoSlot}, Dropped' = FALSE
  PROVE  Policy!Charge
  BY RejectingMaps, SameOperators
  DEF Policy!Charge, Meta, ChargedSlot, Dropped, RunningSlot

LEMMA ChargeLostMaps ==
  ASSUME RunningSlot = NoSlot, RunningSlot' = NoSlot,
         NEW d \in Rejecting(Meta), Bootables(d) # {},
         Meta' \in {Meta, avb_ab_data_init}, ChargedSlot' = ActiveSlot(d),
         Dropped' = TRUE
  PROVE  Policy!ChargeLost
  BY RejectingMaps, SameOperators
  DEF Policy!ChargeLost, Meta, ChargedSlot, Dropped, RunningSlot

LEMMA GiveUpMaps ==
  ASSUME RunningSlot = NoSlot, RunningSlot' = NoSlot,
         Meta' \in Rejecting(Meta), ChargedSlot' = NoSlot, Dropped' = FALSE
  PROVE  Policy!GiveUp
  BY RejectingMaps DEF Policy!GiveUp, Meta, ChargedSlot, Dropped, RunningSlot

LEMMA LoseMaps ==
  ASSUME Meta' = avb_ab_data_init, ChargedSlot' = NoSlot, Dropped' = FALSE,
         RunningSlot' \in {RunningSlot, NoSlot}
  PROVE  Policy!Lose
  BY SameOperators DEF Policy!Lose, Meta, ChargedSlot, Dropped, RunningSlot

LEMMA PowerOffMaps ==
  ASSUME Meta' = Meta, ChargedSlot' = NoSlot, Dropped' = FALSE, RunningSlot' = NoSlot
  PROVE  Policy!PowerOff
  BY DEF Policy!PowerOff, Meta, ChargedSlot, Dropped, RunningSlot

LEMMA StutterMaps ==
  ASSUME Meta' = Meta, ChargedSlot' = ChargedSlot, Dropped' = Dropped,
         RunningSlot' = RunningSlot
  PROVE  UNCHANGED Policy!policyVars
  BY DEF Policy!policyVars, Meta, ChargedSlot, Dropped, RunningSlot

LEMMA HandOverMaps ==
  ASSUME Meta' = Meta, ChargedSlot # NoSlot, RunningSlot' = ChargedSlot,
         ChargedSlot' = NoSlot, Dropped' = FALSE
  PROVE  Policy!HandOver
  BY DEF Policy!HandOver, Meta, ChargedSlot, Dropped, RunningSlot

\* A change by the running OS or by fastboot.
LEMMA ChangeMaps ==
  ASSUME ChargedSlot = NoSlot, ChargedSlot' = NoSlot, Dropped' = Dropped,
         RunningSlot' \in {RunningSlot, NoSlot}, NEW s \in Slots,
         \/ Meta' = MarkActive(Meta, s)
         \/ Meta' = Disable(Meta, s) /\ RunningSlot = Other(s)
         \/ Meta' = MarkSuccessful(Meta, s) /\ RunningSlot = s
  PROVE  Policy!Next
<1>0. NoSlot \notin Slots
  BY DEF NoSlot, Slots
<1>1. CASE Meta' = MarkActive(Meta, s)
  <2>1. Policy!Activate(s)
    BY <1>1, SameOperators
    DEF Policy!Activate, Policy!OsChange, Meta, ChargedSlot, Dropped, RunningSlot
  <2> QED
    BY <2>1, SameOperators DEF Policy!Next
<1>2. CASE Meta' = Disable(Meta, s) /\ RunningSlot = Other(s)
  <2>1. Policy!Retire(s)
    BY <1>2, SameOperators
    DEF Policy!Retire, Policy!OsChange, Meta, ChargedSlot, Dropped, RunningSlot
  <2> QED
    BY <2>1, SameOperators DEF Policy!Next
<1>3. CASE Meta' = MarkSuccessful(Meta, s) /\ RunningSlot = s
  <2>1. Policy!Confirm
    BY <1>0, <1>3, SameOperators
    DEF Policy!Confirm, Policy!OsChange, Meta, ChargedSlot, Dropped, RunningSlot
  <2> QED
    BY <2>1 DEF Policy!Next
<1> QED
  BY <1>1, <1>2, <1>3

\* A boot whose load failed saves a fresh block or what no block was ever read into.
ResetInv ==
  pc = "save" /\ ab_data_orig = Undefined => ab_data \in {Undefined, avb_ab_data_init}

LEMMA ResetStep == ASSUME IInv, ResetInv, [Next]_vars PROVE ResetInv'
<1>1. CASE Load
  <2>1. CASE \E d \in AvbABData : Loads(d)
    BY <2>1, Marks DEF ResetInv, Loads
  <2>2. CASE \E d \in {Undefined, avb_ab_data_init} : LoadFails(d)
    BY <2>2 DEF ResetInv, LoadFails, IInv, TypeOK, Calls
  <2> QED
    BY <1>1, <2>1, <2>2, InitType
    DEF Load, LoadValid, LoadResets, LoadResetLost, LoadResetFails, LoadReadFails, IInv, TypeOK
<1>2. CASE SelectSlot \/ SelectFindsNone \/ VerifySkips \/ VerifyFails \/ VerifyFindsNone
           \/ (\E r \in Verdicts :
                 VerifyRejects(r) \/ \E ok \in BOOLEAN : VerifyAccepts(r, ok))
           \/ RollbackSkips \/ RollbackReadFails
           \/ (\E ok \in BOOLEAN : RollbackUnlocked(ok))
           \/ (\E w \in WriteOutcomes, ok \in BOOLEAN : RollbackWrites(w, ok))
           \/ Conclude
  <2>1. Flowing /\ ab_data_orig' = ab_data_orig
    BY <1>2 DEF SelectSlot, SelectFindsNone, VerifySkips, VerifyFails, VerifyFindsNone,
                VerifyAccepts, VerifyRejects, Verifying, RollbackSkips,
                RollbackReadFails, RollbackUnlocked, RollbackWrites, UpdateDue,
                Conclude, flowVars, Flowing
  <2> QED
    BY <2>1 DEF IInv, CallInv, ResetInv
<1>3. CASE Save \/ PowerCycle \/ PowerFailsInSave
           \/ (\E ok0, ok \in BOOLEAN : StartBoot(ok0, ok))
           \/ (\E ok \in BOOLEAN : Boot(ok) \/ Halt(ok))
           \/ (\E s \in Slots : FastbootSetActive(s) \/ OsActivates(s) \/ ImageDecays(s))
           \/ FastbootQuery
           \/ (\E st \in {Unlock, Lock}, ok0, ok1, ok2 \in BOOLEAN, w \in WriteOutcomes :
                 FastbootFlashing(st, ok0, ok1, w, ok2))
           \/ OsConfirms \/ OsRetires
           \/ (\E im \in Images : OsWritesImage(im))
  <2>1. pc' # "save"
    BY <1>3
    DEF Save, SaveSkips, SaveWrites, SaveLoses, SaveFails, Return, PowerCycle, PowerFailsInSave,
        Restart, StartBoot, Boot, Halt, FastbootSetActive, OsActivates, ImageDecays,
        CallMark, FastbootQuery, FastbootFlashing, OsConfirms, OsRetires,
        OsWritesImage, IInv, TypeOK, Calls
  <2> QED
    BY <2>1 DEF ResetInv
<1>4. CASE UNCHANGED vars
  BY <1>4 DEF ResetInv, vars, flowVars
<1> QED
  BY <1>1, <1>2, <1>3, <1>4 DEF Next

LEMMA ResetHolds == Spec => []ResetInv
<1>1. Init => ResetInv
  BY DEF Init, ResetInv
<1> QED
  BY <1>1, ResetStep, IInvHolds, PTL DEF Spec

\* What the flow works with before it saves does not show.
LEMMA FlowIsQuiet ==
  ASSUME IInv, Flowing, misc' = misc, call' = call,
         pc' \in {"select", "verify", "rollback", "save"}
  PROVE  UNCHANGED Policy!policyVars
<1>1. call.op = "flow" /\ pc \in {"select", "verify", "rollback"}
  BY DEF IInv, CallInv, Flowing
<1>2. /\ Meta' = Meta /\ ChargedSlot' = NoSlot /\ ChargedSlot = NoSlot
      /\ Dropped' = Dropped
  BY <1>1 DEF Meta, ChargedSlot, Dropped
<1>3. RunningSlot' = NoSlot /\ RunningSlot = NoSlot
  BY <1>1 DEF RunningSlot, InMark
<1> QED
  BY <1>2, <1>3, StutterMaps

\* Replacing an unusable block does not show either.
LEMMA SameMeta ==
  ASSUME misc' = misc \/ (misc = Invalid /\ misc' = avb_ab_data_init)
  PROVE  Meta' = Meta
<1>1. Normalize(avb_ab_data_init) = avb_ab_data_init
  BY InitType, InitNormal, NormalIsFixed
<1> QED
  BY <1>1, Marks, InitType DEF Meta

LEMMA LoadIsQuiet == ASSUME IInv, Load PROVE UNCHANGED Policy!policyVars
<1>1. pc = "load" /\ call' = call /\ slot' = slot
  BY DEF Load, LoadValid, LoadResets, LoadResetLost, LoadResetFails, LoadReadFails, Loads, LoadFails
<1>2. Meta' = Meta
  BY SameMeta DEF Load, LoadValid, LoadResets, LoadResetLost, LoadResetFails, LoadReadFails, Loads
<1>3. \/ pc' \in {"select", "save"} /\ (pc' = "select" => call.op = "flow")
      \/ call.op # "flow" /\ pc' = call.back /\ call.back \in {"menu", "running"}
  BY DEF Load, LoadValid, LoadResets, LoadResetLost, LoadResetFails, LoadReadFails, Loads, LoadFails,
         IInv, TypeOK, Calls
<1>4. ChargedSlot = NoSlot /\ ChargedSlot' = NoSlot /\ Dropped' = Dropped
  BY <1>1, <1>3 DEF ChargedSlot, Dropped
<1>5. RunningSlot' = RunningSlot
  BY <1>1, <1>3 DEF RunningSlot, InMark
<1> QED
  BY <1>2, <1>4, <1>5, StutterMaps

\* The calls that only name a slot, and what happens to the images and the lock state.
LEMMA OutsideIsQuiet ==
  ASSUME IInv,
         \/ \E ok0, ok \in BOOLEAN : StartBoot(ok0, ok)
         \/ \E s \in Slots : FastbootSetActive(s) \/ OsActivates(s) \/ ImageDecays(s)
         \/ FastbootQuery
         \/ \E st \in {Unlock, Lock}, ok0, ok1, ok2 \in BOOLEAN, w \in WriteOutcomes :
              FastbootFlashing(st, ok0, ok1, w, ok2)
         \/ OsConfirms \/ OsRetires
         \/ \E im \in Images : OsWritesImage(im)
  PROVE  UNCHANGED Policy!policyVars
<1>1. /\ slot' = slot
      /\ misc' = misc \/ (misc = Invalid /\ misc' = avb_ab_data_init)
  BY DEF StartBoot, FastbootSetActive, OsActivates, ImageDecays, CallMark,
         FastbootQuery, FastbootFlashing, OsConfirms, OsRetires, OsWritesImage
<1>2. \/ pc = "menu" /\ pc' = "load" /\ call'.op = "flow"
      \/ pc = "menu" /\ pc' = "load" /\ call'.back = "menu"
      \/ pc = "running" /\ pc' = "load" /\ call'.op # "flow" /\ call'.back = "running"
      \/ pc \in {"menu", "running"} /\ pc' = pc
  BY DEF StartBoot, FlowCall, FastbootSetActive, OsActivates, ImageDecays, CallMark,
         FastbootQuery, FastbootFlashing, OsConfirms, OsRetires, OsWritesImage
<1>3. ChargedSlot = NoSlot /\ ChargedSlot' = NoSlot /\ Dropped' = Dropped
  BY <1>2 DEF ChargedSlot, Dropped
<1>4. RunningSlot' = RunningSlot
  BY <1>1, <1>2 DEF RunningSlot, InMark
<1> QED
  BY <1>1, <1>3, <1>4, SameMeta, StutterMaps

\* The block a call works from is the one the policy sees.
LEMMA MetaIsRead == ASSUME IInv, Working PROVE Meta = Normalize(ab_data_orig)
<1>1. Normalize(avb_ab_data_init) = avb_ab_data_init
  BY InitType, InitNormal, NormalIsFixed
<1> QED
  BY <1>1 DEF IInv, CallInv, CopyOfBlock, Meta

\* What a save leaves on the partition, as the policy sees it.
Saves(d) ==
  /\ pc = "save" /\ misc' = d
  /\ d \in {misc, SavedBlock, Invalid}
  /\ RunningSlot' \in {RunningSlot, NoSlot}
  /\ Dropped' = FALSE

LEMMA LostMaps ==
  ASSUME IInv, Saves(Invalid), ChargedSlot' = NoSlot PROVE Policy!Lose
<1>1. Meta' = avb_ab_data_init
  BY DEF Saves, Meta
<1> QED
  BY <1>1, LoseMaps DEF Saves

\* The copy of a call by the OS or by fastboot.
LEMMA MarkSaves ==
  ASSUME IInv, CopyInv, call.op # "flow", Saves(ab_data), ChargedSlot' = NoSlot
  PROVE  Policy!Next
<1> DEFINE e == Normalize(ab_data_orig)
<1>1. /\ pc = "save" /\ ab_data_orig # Undefined /\ Working
      /\ misc' = ab_data /\ ab_data = Edited(e)
  BY DEF IInv, CallInv, Working, CopyInv, Saves
<1>2. e \in AvbABData /\ Normal(e) /\ Meta = e
  BY <1>1, OrigType, NormalizeType, NormalizeNormal, MetaIsRead
<1> HIDE DEF e
<1>3. ab_data \in AvbABData /\ Normal(ab_data)
  BY <1>1, <1>2, EditedNormal DEF IInv, CallInv
<1>4. Meta' = Edited(Meta)
  BY <1>1, <1>2, <1>3, NormalIsFixed, Marks DEF Meta
<1>5. call.op \in Callers /\ call.slot \in Slots /\ slot \in Slots
  BY DEF IInv, TypeOK, Calls
<1>6. /\ call.op = "unbootable" => RunningSlot = slot /\ call.slot = Other(slot)
      /\ call.op = "successful" => RunningSlot = slot /\ call.slot = slot
  BY <1>1 DEF CopyInv, NamesSlot, RunningSlot, InMark
<1>7. /\ ChargedSlot = NoSlot /\ RunningSlot' \in {RunningSlot, NoSlot}
      /\ Dropped' = Dropped
  BY <1>1 DEF ChargedSlot, Dropped, Saves
<1>8. slot = Other(Other(slot))
  BY <1>5 DEF Slots, Other
<1>9. \/ Meta' = MarkActive(Meta, call.slot)
      \/ Meta' = Disable(Meta, call.slot) /\ RunningSlot = Other(call.slot)
      \/ Meta' = MarkSuccessful(Meta, call.slot) /\ RunningSlot = call.slot
  BY <1>4, <1>5, <1>6, <1>8 DEF Edited, Callers
<1> QED
  BY <1>5, <1>7, <1>9, ChangeMaps

\* The copy of a boot: it gave up or it charged the slot it chose.
LEMMA FlowSaves ==
  ASSUME IInv, CopyInv, call.op = "flow", ab_data_orig # Undefined, Saves(ab_data),
         ChargedSlot' = NoSlot \/ (ret \in OKs /\ ChargedSlot' = slot)
  PROVE  Policy!Next
<1> DEFINE e == Normalize(ab_data_orig)
<1>1. /\ pc = "save" /\ Working /\ misc' = ab_data /\ ab_data \in AvbABData
      /\ Dropped' = FALSE
  BY DEF IInv, CallInv, Working, Saves
<1>2. e \in AvbABData /\ Normal(e) /\ Meta = e
  BY <1>1, OrigType, NormalizeType, NormalizeNormal, MetaIsRead
<1>3. RunningSlot = NoSlot /\ RunningSlot' = NoSlot
  BY <1>1 DEF RunningSlot, InMark, Saves
<1>4. Meta' = Normalize(ab_data)
  BY <1>1, Marks DEF Meta
<1>5. CASE ret \notin OKs
  <2>1. ab_data \in Rejecting(e)
    BY <1>1, <1>5 DEF CopyInv
  <2> HIDE DEF e
  <2>2. Normal(ab_data)
    BY <1>2, <2>1, GivenUpNormal DEF Rejecting
  <2>3. Meta' \in Rejecting(Meta)
    BY <1>1, <1>2, <1>4, <2>1, <2>2, NormalIsFixed
  <2> QED
    BY <1>1, <1>3, <1>5, <2>3, GiveUpMaps DEF Policy!Next
<1>6. CASE ret \in OKs
  <2>1. PICK d \in AvbABData : Chosen(d) /\ ab_data = SpendTry(d, slot)
    BY <1>1, <1>6 DEF CopyInv
  <2>2. /\ d \in Rejecting(Meta) /\ Bootables(d) # {} /\ slot = ActiveSlot(d)
        /\ Meta' = Normalize(SpendTry(d, ActiveSlot(d)))
    BY <1>2, <1>4, <2>1 DEF Chosen
  <2>3. Policy!Charge
    BY <1>1, <1>3, <2>2, ChargeMaps
  <2> QED
    BY <2>3 DEF Policy!Next
<1> QED
  BY <1>5, <1>6

\* A boot that goes on although its charge, or the block the charge was made
\* on, did not reach the partition.
LEMMA DroppedMaps ==
  ASSUME IInv, CopyInv, pc = "save", call.op = "flow", ret \in OKs,
         misc' \in {misc, Invalid}, ChargedSlot' = slot, Dropped' = TRUE,
         RunningSlot' = RunningSlot
  PROVE  Policy!Next
<1>1. ab_data_orig # Undefined /\ Working
  BY DEF IInv, CallInv, Working, OKs
<1>2. PICK d \in AvbABData : Chosen(d) /\ ab_data = SpendTry(d, slot)
  BY <1>1 DEF CopyInv
<1>3. d \in Rejecting(Meta) /\ Bootables(d) # {} /\ slot = ActiveSlot(d)
  BY <1>1, <1>2, MetaIsRead DEF Chosen
<1>4. Meta' \in {Meta, avb_ab_data_init}
  BY DEF Meta
<1>5. RunningSlot = NoSlot
  BY DEF RunningSlot, InMark
<1>6. Policy!ChargeLost
  BY <1>3, <1>4, <1>5, ChargeLostMaps
<1> QED
  BY <1>6 DEF Policy!Next

LEMMA SaveMaps ==
  ASSUME IInv, CopyInv, RevivalInv, ResetInv, NEW d, Saves(d),
         \/ ChargedSlot' = NoSlot
         \/ /\ ret \in OKs /\ call.op = "flow" /\ ChargedSlot' = slot
            /\ d = ab_data,
         d = misc => RunningSlot' = RunningSlot
  PROVE  Policy!Next \/ UNCHANGED Policy!policyVars
<1>0. /\ pc = "save" /\ ChargedSlot = NoSlot /\ misc' = d
      /\ Dropped = FALSE /\ Dropped' = FALSE
  BY DEF Saves, ChargedSlot, Dropped
<1>1. CASE d = Invalid
  <2>1. misc' = Invalid /\ (ChargedSlot' = NoSlot \/ ab_data_orig # Undefined)
    BY <1>0, <1>1 DEF IInv, CallInv, OKs
  <2>2. ChargedSlot' = NoSlot
    BY <1>0, <1>1, <2>1, Marks DEF IInv, CallInv, Working
  <2> QED
    BY <1>1, <2>2, LostMaps DEF Policy!Next
<1>2. CASE d = misc /\ ChargedSlot' = NoSlot
  <2>1. Meta' = Meta
    BY <1>0, <1>2 DEF Meta
  <2> QED
    BY <1>0, <1>2, <2>1, StutterMaps
<1>3. CASE d = ab_data /\ d # Invalid /\ ab_data_orig # Undefined
  BY <1>3, MarkSaves, FlowSaves
<1>4. CASE d = ab_data /\ d # Invalid /\ ab_data_orig = Undefined
  <2>1. call.op = "flow" /\ ret = "IO" /\ ab_data \in {Undefined, avb_ab_data_init}
    BY <1>0, <1>4 DEF IInv, CallInv, ResetInv
  <2>2. ChargedSlot' = NoSlot
    BY <2>1 DEF OKs
  <2>3. RunningSlot' \in {RunningSlot, NoSlot}
    BY DEF Saves
  <2>4. d = avb_ab_data_init \/ d = misc
    BY <1>4, <2>1, Marks DEF Saves, SavedBlock, IInv, TypeOK
  <2>5. CASE d = avb_ab_data_init
    <3>1. Meta' = avb_ab_data_init
      BY <1>0, <2>5, InitType, InitNormal, NormalIsFixed, Marks DEF Meta
    <3> QED
      BY <1>0, <2>2, <2>3, <3>1, LoseMaps DEF Policy!Next
  <2> QED
    BY <1>2, <2>2, <2>4, <2>5
<1>6. d = misc \/ d = Invalid \/ d = ab_data
  BY DEF Saves, SavedBlock
<1> QED
  BY <1>1, <1>2, <1>3, <1>4, <1>6

LEMMA SaveStepMaps ==
  ASSUME IInv, CopyInv, RevivalInv, ResetInv, Save
  PROVE  Policy!Next \/ UNCHANGED Policy!policyVars
<1>0. /\ pc = "save" /\ UNCHANGED <<call, slot>>
      /\ pc' = IF call.op = "flow" THEN "handoff" ELSE call.back
      /\ call.back \in {"menu", "running"}
      /\ ret' = ret \/ ret' = "IO"
  BY DEF Save, SaveSkips, SaveWrites, SaveLoses, SaveFails, Return, IInv, TypeOK, Calls
<1>1. RunningSlot' = RunningSlot
  BY <1>0 DEF RunningSlot, InMark
<1>2. /\ ChargedSlot' = IF call.op = "flow" /\ ret' \in OKs THEN slot ELSE NoSlot
      /\ Dropped' = (call.op = "flow" /\ ret' \in OKs /\ lost')
  BY <1>0 DEF ChargedSlot, Dropped
<1>3. "IO" \notin OKs
  BY DEF OKs
<1>4. CASE SaveSkips
  <2>1. misc' = misc /\ ret' = ret /\ MaySkipSave /\ lost' = lost
    BY <1>4 DEF SaveSkips, Return
  <2>2. CASE call.op = "flow" /\ ret \in OKs /\ lost
    BY <1>0, <1>1, <1>2, <2>1, <2>2, DroppedMaps
  <2>3. CASE ~(call.op = "flow" /\ ret \in OKs /\ lost)
    <3>1. Dropped' = FALSE
      BY <1>2, <2>1, <2>3
    <3>2. Saves(misc)
      BY <1>0, <1>1, <2>1, <3>1 DEF Saves
    <3>3. call.op = "flow" /\ ret \in OKs => misc = ab_data
      BY <1>0, <2>1, <2>3 DEF IInv, CallInv, Working, CopyOfBlock, MaySkipSave, OKs
    <3> QED
      BY <1>1, <1>2, <2>1, <3>2, <3>3, SaveMaps
  <2> QED
    BY <2>2, <2>3
<1>5. CASE SaveWrites
  <2>1. misc' = SavedBlock /\ ret' = ret /\ lost' = FALSE
    BY <1>5 DEF SaveWrites, Store, Return
  <2>2. Saves(SavedBlock)
    BY <1>0, <1>1, <1>2, <2>1 DEF Saves
  <2>3. ret \in OKs /\ call.op = "flow" => SavedBlock = ab_data
    BY <1>0, Marks DEF IInv, CallInv, Working, SavedBlock, OKs
  <2> QED
    BY <1>1, <1>2, <2>1, <2>2, <2>3, SaveMaps
<1>6. CASE SaveFails
  <2>1. PICK d \in {misc, SavedBlock, Invalid} : misc' = d /\ ret' = "IO"
    BY <1>6 DEF SaveFails, Store, Return
  <2>2. Saves(d)
    BY <1>0, <1>1, <1>2, <1>3, <2>1 DEF Saves
  <2>3. ChargedSlot' = NoSlot
    BY <1>2, <1>3, <2>1
  <2> QED
    BY <1>1, <2>2, <2>3, SaveMaps
<1>7. CASE SaveLoses
  <2>1. misc' \in {misc, Invalid} /\ ret' = ret /\ lost' = (ret \in OKs)
    BY <1>7 DEF SaveLoses, Return
  <2>2. CASE call.op = "flow" /\ ret \in OKs
    BY <1>0, <1>1, <1>2, <2>1, <2>2, DroppedMaps
  <2>3. CASE ~(call.op = "flow" /\ ret \in OKs)
    <3>1. Saves(misc') /\ ChargedSlot' = NoSlot
      BY <1>0, <1>1, <1>2, <2>1, <2>3 DEF Saves
    <3> QED
      BY <1>1, <3>1, SaveMaps
  <2> QED
    BY <2>2, <2>3
<1> QED
  BY <1>4, <1>5, <1>6, <1>7 DEF Save

\* Power is lost: in a save, after it or anywhere else.
LEMMA PowerMaps ==
  ASSUME IInv, CopyInv, RevivalInv, ResetInv, PowerCycle \/ PowerFailsInSave
  PROVE  Policy!Next \/ UNCHANGED Policy!policyVars
<1>1. ChargedSlot' = NoSlot /\ Dropped' = FALSE /\ RunningSlot' = NoSlot
  BY DEF PowerCycle, PowerFailsInSave, Restart, ChargedSlot, Dropped, RunningSlot, InMark
<1>2. CASE misc' = misc
  <2>1. Meta' = Meta
    BY <1>2 DEF Meta
  <2> QED
    BY <1>1, <2>1, PowerOffMaps DEF Policy!Next
<1>3. CASE PowerFailsInSave /\ misc' # misc
  <2>1. PICK d \in {SavedBlock, Invalid} : misc' = d /\ pc = "save"
    BY <1>3 DEF PowerFailsInSave, Store
  <2>2. Saves(d) /\ d # misc
    BY <1>1, <1>3, <2>1 DEF Saves
  <2> QED
    BY <1>1, <2>2, SaveMaps
<1> QED
  BY <1>2, <1>3 DEF PowerCycle

LEMMA BootMaps ==
  ASSUME IInv, NEW ok \in BOOLEAN, Boot(ok) \/ Halt(ok) PROVE Policy!Next
<1>1. /\ pc = "handoff" /\ misc' = misc
      /\ \/ ret \in OKs /\ pc' = "running" /\ slot' = slot
         \/ pc' = "halted"
  BY DEF Boot, BootStateAllows, OKs, Halt
<1>2. slot # NoSlot
  BY DEF IInv, TypeOK, NoSlot, Slots
<1>3. Meta' = Meta /\ ChargedSlot' = NoSlot /\ Dropped' = FALSE
  BY <1>1 DEF Meta, ChargedSlot, Dropped
<1>4. CASE ret \in OKs /\ pc' = "running"
  <2>1. ChargedSlot = slot /\ RunningSlot' = slot
    BY <1>1, <1>4 DEF ChargedSlot, RunningSlot
  <2> QED
    BY <1>2, <1>3, <2>1, HandOverMaps DEF Policy!Next
<1>5. CASE pc' = "halted"
  <2>1. RunningSlot' = NoSlot
    BY <1>5 DEF RunningSlot, InMark
  <2> QED
    BY <1>3, <2>1, PowerOffMaps DEF Policy!Next
<1> QED
  BY <1>1, <1>4, <1>5

LEMMA FlowStepIsQuiet ==
  ASSUME IInv,
         \/ SelectSlot \/ SelectFindsNone \/ VerifySkips \/ VerifyFails \/ VerifyFindsNone
         \/ \E r \in Verdicts :
              VerifyRejects(r) \/ \E ok \in BOOLEAN : VerifyAccepts(r, ok)
         \/ RollbackSkips \/ RollbackReadFails
         \/ \E ok \in BOOLEAN : RollbackUnlocked(ok)
         \/ \E w \in WriteOutcomes, ok \in BOOLEAN : RollbackWrites(w, ok)
         \/ Conclude
  PROVE  UNCHANGED Policy!policyVars
<1>1. /\ Flowing /\ misc' = misc /\ call' = call
      /\ pc' \in {"select", "verify", "rollback", "save"}
  BY DEF SelectSlot, SelectFindsNone, VerifySkips, VerifyFails, VerifyFindsNone,
         VerifyAccepts, VerifyRejects, Verifying, RollbackSkips, RollbackReadFails,
         RollbackUnlocked, RollbackWrites, UpdateDue, NextLocation, ToSave, Conclude,
         Flowing
<1> QED
  BY <1>1, FlowIsQuiet

\* avb_ab_flow(), the boot state check and the avb_ab_mark_slot_*() functions, with all
\* their I/O, faults and power cycles, implement the policy: a slot only runs if a boot
\* was charged to it, or the storage dropped that charge without a report, and the
\* metadata only change in the policy's ways.
THEOREM FlowImplementsPolicy == Spec => ImplementsPolicy
<1>1. Init => Policy!Init
  <2> SUFFICES ASSUME Init PROVE Policy!Init
    OBVIOUS
  <2>1. /\ Meta = avb_ab_data_init /\ ChargedSlot = NoSlot /\ Dropped = FALSE
        /\ RunningSlot = NoSlot
    BY DEF Init, Meta, ChargedSlot, Dropped, RunningSlot, InMark
  <2> QED
    BY <2>1, SameOperators DEF Policy!Init, Meta, ChargedSlot, Dropped, RunningSlot
<1>2. ASSUME IInv, CopyInv, RevivalInv, ResetInv, [Next]_vars
      PROVE  [Policy!Next]_Policy!policyVars
  <2>1. CASE UNCHANGED vars
    <3>1. UNCHANGED <<misc, pc, ret, slot, call, lost>>
      BY <2>1 DEF vars
    <3>2. /\ Meta' = Meta /\ ChargedSlot' = ChargedSlot /\ Dropped' = Dropped
          /\ RunningSlot' = RunningSlot
      BY <3>1 DEF Meta, ChargedSlot, Dropped, RunningSlot, InMark
    <3> QED
      BY <3>2, StutterMaps
  <2>2. CASE Next
    BY <1>2, <2>2, LoadIsQuiet, SaveStepMaps, OutsideIsQuiet, FlowStepIsQuiet, BootMaps,
       PowerMaps DEF Next
  <2> QED
    BY <1>2, <2>1, <2>2
<1> QED
  BY <1>1, <1>2, IInvHolds, CopyHolds, RevivalHolds, ResetHolds, PTL
  DEF Spec, ImplementsPolicy, Policy!Spec
=============================================================================
