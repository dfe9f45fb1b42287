------------------------------- MODULE AbData -------------------------------
(***************************************************************************)
(* The A/B slot metadata (struct AvbABData) and the pure functions         *)
(* lib/libavb_ab/avb_ab_flow.c computes on it.  Magic, version and CRC are *)
(* abstracted to one bit: a block that fails                               *)
(* avb_ab_data_verify_and_byteswap() is the value Invalid.                 *)
(***************************************************************************)
EXTENDS Integers

CONSTANTS
  MaxPriority,   \* AVB_AB_MAX_PRIORITY, 15 in the code
  MaxTries,      \* AVB_AB_MAX_TRIES_REMAINING, 7 in the code
  Invalid        \* a metadata block whose magic, version or CRC is wrong

\* The code distinguishes the top priority, the one below it, and zero.
ASSUME PriorityAssumption == MaxPriority \in Nat /\ MaxPriority >= 2
ASSUME TriesAssumption == MaxTries \in Nat /\ MaxTries >= 1

Slots == {0, 1}
Other(s) == 1 - s

AvbABSlotData == [priority : 0..MaxPriority,
                  tries_remaining : 0..MaxTries,
                  successful_boot : BOOLEAN]
AvbABData == [Slots -> AvbABSlotData]

ASSUME InvalidAssumption == Invalid \notin AvbABData

\* Mutant: a confirmed slot, which has no tries left, is not bootable.
slot_is_bootable_NeedsTries(sl) == sl.priority > 0 /\ sl.tries_remaining > 0

slot_is_bootable(sl) ==
  /\ sl.priority > 0
  /\ sl.successful_boot \/ sl.tries_remaining > 0

\* What slot_set_unbootable() leaves in a slot.
Unbootable == [priority |-> 0, tries_remaining |-> 0, successful_boot |-> FALSE]

\* Every state slot_normalize() turns into the canonical unbootable one: no
\* priority, no tries and no success, or both tries and success.
IllegalOrSpent(sl) ==
  \/ sl.priority = 0
  \/ sl.tries_remaining = 0 /\ ~sl.successful_boot
  \/ sl.tries_remaining > 0 /\ sl.successful_boot

slot_normalize(sl) == IF IllegalOrSpent(sl) THEN Unbootable ELSE sl

Normalize(d) == [s \in Slots |-> slot_normalize(d[s])]

avb_ab_data_init ==
  [s \in Slots |-> [priority |-> MaxPriority - s,
                    tries_remaining |-> MaxTries,
                    successful_boot |-> FALSE]]

Bootables(d) == {s \in Slots : slot_is_bootable(d[s])}

\* The active slot: slot 1 only when it is the only bootable one or has
\* strictly the higher priority.  Meaningful when Bootables(d) # {}.
ActiveSlot(d) ==
  IF \/ Bootables(d) = {1}
     \/ Bootables(d) = Slots /\ d[1].priority > d[0].priority
  THEN 1 ELSE 0

\* slot_set_unbootable() applied to one slot of the metadata.
Disable(d, s) == [d EXCEPT ![s] = Unbootable]

\* Mutant: no try is spent.
SpendTry_Never(d, s) == d

\* "decrement tries remaining, if applicable"
SpendTry(d, s) ==
  IF ~d[s].successful_boot /\ d[s].tries_remaining > 0
  THEN [d EXCEPT ![s].tries_remaining = @ - 1]
  ELSE d

\* Mutant: the other slot keeps the top priority.
MarkActive_KeepsOther(d, s) ==
  [d EXCEPT ![s] = [priority |-> MaxPriority, tries_remaining |-> MaxTries,
                    successful_boot |-> FALSE]]

MarkActive(d, s) ==
  [t \in Slots |->
     IF t = s
     THEN [priority |-> MaxPriority, tries_remaining |-> MaxTries,
           successful_boot |-> FALSE]
     ELSE [d[t] EXCEPT !.priority = IF @ = MaxPriority THEN @ - 1 ELSE @]]

\* Mutant: the tries are not reset.
MarkSuccessful_KeepsTries(d, s) ==
  IF slot_is_bootable(d[s]) THEN [d EXCEPT ![s].successful_boot = TRUE] ELSE d

\* The call leaves the (normalised) metadata alone for an unbootable slot.
MarkSuccessful(d, s) ==
  IF slot_is_bootable(d[s])
  THEN [d EXCEPT ![s].tries_remaining = 0, ![s].successful_boot = TRUE]
  ELSE d
=============================================================================
