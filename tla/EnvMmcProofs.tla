---------------------------- MODULE EnvMmcProofs ----------------------------
(***************************************************************************)
(* What the two copies of the environment survive, for any number of saves *)
(* and of faults.                                                          *)
(***************************************************************************)
EXTENDS EnvMmc, FiniteSetTheorems, TLAPS

(***************************************************************************)
(* The inductive invariant                                                 *)
(***************************************************************************)

\* What is being written is recent: a repair copies something no older than
\* the last acknowledged save, a save is the latest one.
WritingInv ==
  /\ acked <= serial
  /\ pc = "repair" => buf >= acked
  /\ pc = "save" => buf = serial /\ env = serial
  /\ pc = "save" /\ target = "backup" /\ clean => copies["primary"] = buf

\* A usable copy is never older than the last acknowledged save, and there
\* are no more unusable copies than faults.
CopiesInv ==
  /\ \A c \in Copies : copies[c] # Bad => copies[c] >= acked
  /\ acked > 0 /\ faults = 0 => \A c \in Copies : copies[c] # Bad
  /\ acked > 0 /\ faults <= 1 => \E c \in Copies : copies[c] # Bad

IInv == TypeOK /\ WritingInv /\ CopiesInv /\ BootsSavedEnv
-----------------------------------------------------------------------------
(***************************************************************************)
(* Lemmas                                                                  *)
(***************************************************************************)

\* The number of failed reads is a number, and what it is when it is small.
LEMMA ReadErrorsBound ==
  ASSUME NEW r \in [Copies -> Reads]
  PROVE  /\ ReadErrors(r) \in Nat
         /\ ReadErrors(r) = 0 => \A c \in Copies : r[c] = "read"
         /\ ReadErrors(r) <= 1 => \E c \in Copies : r[c] = "read"
<1> DEFINE E == {c \in Copies : r[c] # "read"}
<1>1. IsFiniteSet({"primary"}) /\ Cardinality({"primary"}) = 1
  BY FS_Singleton
<1>2. Copies = {"primary"} \cup {"backup"} /\ "backup" \notin {"primary"}
  BY DEF Copies
<1>3. IsFiniteSet(Copies) /\ Cardinality(Copies) = 2
  BY <1>1, <1>2, FS_AddElement
<1>4. E \subseteq Copies
  OBVIOUS
<1>5. IsFiniteSet(E)
  BY <1>3, <1>4, FS_Subset
<1>6. Cardinality(E) \in Nat
  BY <1>5, FS_CardinalityType
<1>7. Cardinality(E) = 0 => E = {}
  BY <1>5, FS_EmptySet
<1>8. E = Copies => Cardinality(E) = 2
  BY <1>3
<1>9. ReadErrors(r) = Cardinality(E)
  BY DEF ReadErrors
<1> QED
  BY <1>4, <1>6, <1>7, <1>8, <1>9

\* A buffer is the copy that was read, or garbage.
LEMMA BufferIsCopy ==
  ASSUME NEW r \in [Copies -> Reads], NEW c \in Copies, TypeOK
  PROVE  /\ Buffers(r)[c] # Bad => Buffers(r)[c] = copies[c]
         /\ r[c] = "read" => Buffers(r)[c] = copies[c]
         /\ Buffers(r)[c] # Bad => Buffers(r)[c] \in Serials
BY DEF Buffers, TypeOK, Contents

\* A step that leaves the card alone, whatever it counts.
LEMMA CopiesStay ==
  ASSUME CopiesInv, UNCHANGED <<copies, acked>>,
         faults \in Nat, faults' \in Nat, faults <= faults'
  PROVE  CopiesInv'
<1>1. \A c \in Copies : copies'[c] = copies[c]
  OBVIOUS
<1>2. /\ faults' = 0 => faults = 0
      /\ faults' <= 1 => faults <= 1
  OBVIOUS
<1> QED
  BY <1>1, <1>2, Zenon DEF CopiesInv

LEMMA InitIInv == Init => IInv
<1> SUFFICES ASSUME Init PROVE IInv
  OBVIOUS
<1>1. Default \in Serials
  BY SavesAssumption DEF Default, Serials
<1>2. copies \in [Copies -> Contents] /\ clean \in BOOLEAN
  BY DEF Init, Contents
<1>3. TypeOK
  BY <1>1, <1>2, FaultsAssumption DEF Init, TypeOK, Copies, Default
<1>4. WritingInv /\ BootsSavedEnv
  BY DEF Init, WritingInv, BootsSavedEnv
<1>5. CopiesInv
  BY DEF Init, CopiesInv
<1> QED
  BY <1>3, <1>4, <1>5 DEF IInv
-----------------------------------------------------------------------------
(***************************************************************************)
(* One lemma per operation                                                 *)
(***************************************************************************)

LEMMA DefaultStep ==
  ASSUME IInv, NEW r \in [Copies -> Reads], RelocateDefault(r)
  PROVE  IInv'
<1> USE SavesAssumption, FaultsAssumption, BadAssumption
<1>1. TypeOK'
  BY ReadErrorsBound
    DEF IInv, TypeOK, RelocateDefault, CountFaults, Up, Default, Serials
<1>2. WritingInv'
  BY DEF IInv, WritingInv, RelocateDefault
<1>3. /\ faults <= faults' /\ faults' = faults + ReadErrors(r)
      /\ faults \in Nat /\ faults' \in Nat
  BY ReadErrorsBound DEF IInv, TypeOK, RelocateDefault, CountFaults
<1>4. CopiesInv'
  BY <1>3, CopiesStay DEF IInv, RelocateDefault
<1>5. ASSUME faults' <= 1, acked > 0 PROVE FALSE
  <2>1. PICK c \in Copies : r[c] = "read" /\ copies[c] # Bad
    <3>1. CASE faults = 0
      <4>1. PICK c \in Copies : r[c] = "read"
        BY <1>3, <1>5, <3>1, ReadErrorsBound
      <4> QED
        BY <4>1, <3>1, <1>5 DEF IInv, CopiesInv
    <3>2. CASE faults = 1
      <4>1. \A c \in Copies : r[c] = "read"
        BY <1>3, <1>5, <3>2, ReadErrorsBound
      <4> QED
        BY <4>1, <3>2, <1>5 DEF IInv, CopiesInv
    <3> QED
      BY <1>3, <1>5, <3>1, <3>2, ReadErrorsBound
  <2>2. Buffers(r)[c] # Bad /\ r[c] # "late"
    BY <2>1, BufferIsCopy DEF IInv
  <2> QED
    BY <2>1, <2>2 DEF RelocateDefault, NothingUsable
<1>6. BootsSavedEnv'
  BY <1>5 DEF IInv, TypeOK, BootsSavedEnv, RelocateDefault, Default, Serials
<1> QED
  BY <1>1, <1>2, <1>4, <1>6 DEF IInv

LEMMA PrimaryStep ==
  ASSUME IInv, NEW r \in [Copies -> Reads], RelocatePrimary(r)
  PROVE  IInv'
<1> USE SavesAssumption, FaultsAssumption, BadAssumption
<1>0. "primary" \in Copies
  BY DEF Copies
<1>1. /\ env' \in Serials /\ env' = copies["primary"]
      /\ copies["primary"] # Bad
  BY <1>0, BufferIsCopy DEF IInv, RelocatePrimary
<1>2. TypeOK'
  BY <1>1, ReadErrorsBound
    DEF IInv, TypeOK, RelocatePrimary, CountFaults, Up
<1>3. WritingInv'
  BY DEF IInv, WritingInv, RelocatePrimary
<1>4. faults <= faults' /\ faults \in Nat /\ faults' \in Nat
  BY ReadErrorsBound DEF IInv, TypeOK, RelocatePrimary, CountFaults
<1>5. CopiesInv'
  BY <1>4, CopiesStay DEF IInv, RelocatePrimary
<1>6. BootsSavedEnv'
  BY <1>0, <1>1 DEF IInv, CopiesInv, BootsSavedEnv, RelocatePrimary
<1> QED
  BY <1>2, <1>3, <1>5, <1>6 DEF IInv

LEMMA RepairsStep ==
  ASSUME IInv, NEW r \in [Copies -> Reads], RelocateRepairs(r)
  PROVE  IInv'
<1> USE SavesAssumption, FaultsAssumption, BadAssumption
<1>0. PICK d \in Copies : buf' = Buffers(r)[d] /\ buf' # Bad /\ target' \in Copies
  <2>1. PICK c \in Copies :
          /\ Buffers(r)[c] = Bad /\ target' = c
          /\ \E d \in Copies \ {c} : buf' = Buffers(r)[d]
    BY DEF RelocateRepairs
  <2>2. PICK d \in Copies \ {c} : buf' = Buffers(r)[d]
    BY <2>1
  <2>3. \A e \in Copies : e = c \/ e = d
    BY <2>2 DEF Copies
  <2>4. Buffers(r)[d] # Bad
    BY <2>1, <2>3 DEF RelocateRepairs, NothingUsable
  <2> QED
    BY <2>1, <2>2, <2>4
<1>1. buf' \in Serials /\ buf' >= acked
  BY <1>0, BufferIsCopy DEF IInv, CopiesInv
<1>2. TypeOK'
  BY <1>0, <1>1, ReadErrorsBound
    DEF IInv, TypeOK, RelocateRepairs, CountFaults
<1>3. WritingInv'
  BY <1>1 DEF IInv, WritingInv, RelocateRepairs
<1>4. faults <= faults' /\ faults \in Nat /\ faults' \in Nat
  BY ReadErrorsBound DEF IInv, TypeOK, RelocateRepairs, CountFaults
<1>5. CopiesInv'
  BY <1>4, CopiesStay DEF IInv, RelocateRepairs
<1>6. BootsSavedEnv'
  BY DEF BootsSavedEnv, RelocateRepairs
<1> QED
  BY <1>2, <1>3, <1>5, <1>6 DEF IInv

\* The steps that leave the card alone.
LEMMA QuietStep ==
  ASSUME IInv,
         \/ RelocateNoMemory \/ SaveStarts \/ SaveNoMemory \/ PowerOff
         \/ UNCHANGED vars
  PROVE  IInv'
<1> USE SavesAssumption, FaultsAssumption, BadAssumption
<1>1. CASE RelocateNoMemory
  BY <1>1 DEF RelocateNoMemory, IInv, TypeOK, WritingInv, CopiesInv,
              BootsSavedEnv, Up, Default, Serials
<1>2. CASE SaveStarts
  BY <1>2 DEF SaveStarts, IInv, TypeOK, WritingInv, CopiesInv,
              BootsSavedEnv, Up, Serials, Copies
<1>3. CASE SaveNoMemory
  BY <1>3 DEF SaveNoMemory, IInv, TypeOK, WritingInv, CopiesInv,
              BootsSavedEnv, Up, Default, Serials
<1>4. CASE PowerOff
  BY <1>4 DEF PowerOff, IInv, TypeOK, WritingInv, CopiesInv, BootsSavedEnv, Up
<1>5. CASE UNCHANGED vars
  BY <1>5 DEF vars, IInv, TypeOK, WritingInv, CopiesInv, BootsSavedEnv
<1> QED
  BY <1>1, <1>2, <1>3, <1>4, <1>5

\* What the card holds after a write that worked.
LEMMA WorksStep ==
  ASSUME IInv, WriteWorks
  PROVE  IInv'
<1> USE SavesAssumption, FaultsAssumption, BadAssumption
<1>1. /\ copies' \in [Copies -> Contents]
      /\ copies'[target] = buf /\ target \in Copies
      /\ \A c \in Copies \ {target} : copies'[c] = copies[c]
      /\ buf \in Serials /\ buf # Bad
  BY DEF IInv, TypeOK, WriteWorks, Put, Contents, Serials
<1>2. /\ faults' \in 0..MaxFaults
      /\ \/ faults' = faults
         \/ faults' = 0 /\ \A c \in Copies : copies'[c] = buf
  BY <1>1 DEF IInv, TypeOK, WriteWorks, CountWrite, InSync, Copies
<1>3. CASE pc = "repair"
  <2>1. AfterWrite(TRUE) /\ env' = buf /\ pc' = "up" /\ buf >= acked
        /\ UNCHANGED <<target, clean, acked, buf, serial>>
    BY <1>3 DEF IInv, WritingInv, WriteWorks, AfterWrite
  <2>2. TypeOK'
    BY <1>1, <1>2, <2>1 DEF IInv, TypeOK, Up
  <2>3. WritingInv'
    BY <2>1 DEF IInv, WritingInv
  <2>4. CopiesInv'
    BY <1>1, <1>2, <2>1 DEF IInv, TypeOK, CopiesInv
  <2> QED
    BY <2>1, <2>2, <2>3, <2>4 DEF IInv, BootsSavedEnv
<1>4. CASE pc = "save" /\ target = "primary"
  <2>1. /\ target' = "backup" /\ clean' = TRUE
        /\ UNCHANGED <<env, pc, acked, buf, serial>>
    BY <1>4 DEF WriteWorks, AfterWrite
  <2>2. TypeOK'
    BY <1>1, <1>2, <2>1 DEF IInv, TypeOK, Copies
  <2>3. WritingInv'
    BY <1>1, <1>4, <2>1 DEF IInv, WritingInv
  <2>4. buf >= acked
    BY <1>4 DEF IInv, WritingInv
  <2>5. CopiesInv'
    BY <1>1, <1>2, <2>1, <2>4 DEF IInv, TypeOK, CopiesInv
  <2> QED
    BY <1>4, <2>1, <2>2, <2>3, <2>5 DEF IInv, BootsSavedEnv
<1>5. CASE pc = "save" /\ target = "backup"
  <2>1. /\ acked' = IF clean THEN buf ELSE acked
        /\ pc' = "up"
        /\ UNCHANGED <<env, target, clean, buf, serial>>
    BY <1>5 DEF WriteWorks, AfterWrite
  <2>2. buf = serial /\ env = serial /\ acked <= serial /\ acked \in Serials
        /\ serial \in Serials /\ acked' <= serial /\ acked' \in Serials
        /\ (clean => copies["primary"] = buf)
    BY <1>5, <2>1 DEF IInv, TypeOK, WritingInv, Serials
  <2>3. TypeOK'
    BY <1>1, <1>2, <2>1, <2>2 DEF IInv, TypeOK, Up
  <2>4. WritingInv'
    BY <2>1, <2>2 DEF IInv, WritingInv
  <2>5. CASE clean
    <3>1. \A c \in Copies : copies'[c] = buf /\ acked' = buf
      BY <1>1, <1>5, <2>1, <2>2, <2>5 DEF Copies
    <3>2. CopiesInv'
      BY <3>1, <1>1 DEF CopiesInv, Serials, Copies
    <3> QED
      BY <2>1, <2>2, <2>3, <2>4, <3>2 DEF IInv, BootsSavedEnv, Serials
  <2>6. CASE ~clean
    <3>1. acked' = acked
      BY <2>1, <2>6
    <3>2. CopiesInv'
      BY <1>1, <1>2, <2>2, <3>1 DEF IInv, TypeOK, CopiesInv, Serials
    <3> QED
      BY <2>1, <2>2, <2>3, <2>4, <3>2 DEF IInv, BootsSavedEnv, Serials
  <2> QED
    BY <2>5, <2>6
<1> QED
  BY <1>3, <1>4, <1>5 DEF WriteWorks, AfterWrite

\* A write that fails or is interrupted spoils one copy and is one more fault.
LEMMA FaultyCopies ==
  ASSUME IInv, Writing, CountWrite(1),
         \E x \in {copies[target], buf, Bad} : Put(x)
  PROVE  /\ copies' \in [Copies -> Contents]
         /\ faults' \in 0..MaxFaults
         /\ acked' = acked => CopiesInv'
<1> USE SavesAssumption, FaultsAssumption, BadAssumption
<1>0. TypeOK /\ CopiesInv /\ buf >= acked
  BY DEF IInv, Writing, WritingInv
<1>1. PICK x \in {copies[target], buf, Bad} : Put(x)
  OBVIOUS
<1>2. x \in Contents /\ (x # Bad => x >= acked)
  BY <1>0 DEF TypeOK, CopiesInv, Contents
<1>3. /\ copies' \in [Copies -> Contents]
      /\ copies'[target] = x /\ target \in Copies
      /\ \A c \in Copies \ {target} : copies'[c] = copies[c]
  BY <1>0, <1>1, <1>2 DEF TypeOK, Put
<1>4. /\ faults' \in 0..MaxFaults /\ faults \in Nat
      /\ \/ faults' = faults + 1
         \/ faults' = 0 /\ \A c \in Copies : copies'[c] # Bad
  BY <1>0 DEF TypeOK, CountWrite, InSync, Copies
<1>5. ASSUME acked' = acked PROVE CopiesInv'
  <2>1. \A c \in Copies : copies'[c] # Bad => copies'[c] >= acked
    BY <1>0, <1>2, <1>3 DEF CopiesInv
  <2>2. acked > 0 /\ faults' = 0 => \A c \in Copies : copies'[c] # Bad
    BY <1>4
  <2>3. ASSUME acked > 0, faults' <= 1 PROVE \E c \in Copies : copies'[c] # Bad
    <3>1. CASE faults' = 0
      BY <1>3, <1>4, <3>1
    <3>2. CASE faults = 0
      <4>1. PICK c \in Copies : c # target
        BY <1>3 DEF Copies
      <4> QED
        BY <1>0, <1>3, <2>3, <3>2, <4>1 DEF CopiesInv
    <3> QED
      BY <1>4, <2>3, <3>1, <3>2
  <2> QED
    BY <2>1, <2>2, <2>3, <1>5 DEF CopiesInv
<1> QED
  BY <1>3, <1>4, <1>5

LEMMA FailsStep ==
  ASSUME IInv, WriteFails
  PROVE  IInv'
<1> USE SavesAssumption, FaultsAssumption, BadAssumption
<1>1. acked' = acked
  BY DEF WriteFails, AfterWrite
<1>2. /\ copies' \in [Copies -> Contents] /\ faults' \in 0..MaxFaults
      /\ CopiesInv'
  BY <1>1, FaultyCopies DEF WriteFails
<1>3. TypeOK'
  BY <1>2 DEF IInv, TypeOK, WriteFails, AfterWrite, Up, Copies
<1>4. WritingInv'
  BY DEF IInv, WritingInv, WriteFails, AfterWrite
<1>5. BootsSavedEnv'
  BY DEF IInv, WritingInv, BootsSavedEnv, WriteFails, AfterWrite
<1> QED
  BY <1>2, <1>3, <1>4, <1>5 DEF IInv

LEMMA InterruptedStep ==
  ASSUME IInv, PowerFailsInWrite
  PROVE  IInv'
<1>1. /\ copies' \in [Copies -> Contents] /\ faults' \in 0..MaxFaults
      /\ CopiesInv'
  BY FaultyCopies DEF PowerFailsInWrite
<1>2. TypeOK'
  BY <1>1 DEF IInv, TypeOK, PowerFailsInWrite, Up
<1>3. WritingInv' /\ BootsSavedEnv'
  BY DEF IInv, WritingInv, BootsSavedEnv, PowerFailsInWrite
<1> QED
  BY <1>1, <1>2, <1>3 DEF IInv
-----------------------------------------------------------------------------
(***************************************************************************)
(* Theorems                                                                *)
(***************************************************************************)

\* The invariant holds in every state the program can reach.
THEOREM IInvHolds == Spec => []IInv
<1>1. IInv /\ [Next]_vars => IInv'
  <2> SUFFICES ASSUME IInv, [Next]_vars PROVE IInv'
    OBVIOUS
  <2> QED
    BY DefaultStep, PrimaryStep, RepairsStep, QuietStep, WorksStep, FailsStep,
       InterruptedStep DEF Next
<1> QED
  BY InitIInv, <1>1, PTL DEF Spec

\* The copies, the buffer and the counters stay in their ranges: nothing but
\* the content of a good copy is ever written or used.
THEOREM TypeCorrect == Spec => []TypeOK
<1>1. IInv => TypeOK
  BY DEF IInv
<1> QED
  BY IInvHolds, <1>1, PTL

\* One fault since the copies last agreed never costs a save that reported no
\* error: the order of the two writes of saveenv() and the repair at boot.
THEOREM SavedSurvives == Spec => []SavedSurvivesOneFault
<1>1. IInv => SavedSurvivesOneFault
  <2> SUFFICES ASSUME IInv, faults <= 1 PROVE Recovered >= acked
    BY DEF SavedSurvivesOneFault
  <2>1. CASE acked = 0
    BY <2>1, BadAssumption, SavesAssumption
      DEF IInv, TypeOK, Recovered, Contents, Serials, Copies, Default
  <2>2. CASE acked > 0
    BY <2>2 DEF IInv, CopiesInv, Recovered, Copies
  <2> QED
    BY <2>1, <2>2, SavesAssumption DEF IInv, TypeOK, Serials
<1> QED
  BY IInvHolds, <1>1, PTL

\* A boot that met no more than one fault comes up with the last acknowledged
\* environment or a later one: the choice env_relocate_spec() makes.
THEOREM BootsSaved == Spec => []BootsSavedEnv
<1>1. IInv => BootsSavedEnv
  BY DEF IInv
<1> QED
  BY IInvHolds, <1>1, PTL
=============================================================================
