------------------------------- MODULE EnvMmc -------------------------------
(***************************************************************************)
(* The environment in eMMC, common/env_mmc.c: two copies with a CRC at the *)
(* end of the MPOOL partition, written one after the other by saveenv(),   *)
(* compared and repaired by env_relocate_spec() at boot.  The content of   *)
(* an environment is the serial number of the saveenv() call that wrote    *)
(* it, Default for the built-in one, Bad for a copy whose CRC is wrong.    *)
(***************************************************************************)
EXTENDS Integers, FiniteSets

CONSTANTS
  MaxSaves,    \* bound: calls of saveenv()
  MaxFaults,   \* bound: faults since the copies last agreed
  Bad          \* a copy whose CRC does not match

ASSUME SavesAssumption == MaxSaves \in Nat
ASSUME FaultsAssumption == MaxFaults \in Nat
ASSUME BadAssumption == Bad \notin Nat

VARIABLES
  copies,   \* what is on the card
  pc,       \* where the program is
  target,   \* the copy being written
  buf,      \* what is being written
  env,      \* the environment in use
  clean,    \* the first write of this saveenv() reported no error
  serial,   \* history: the number of saveenv() calls
  acked,    \* history: the last one that reported no error
  faults    \* history: failed and interrupted I/O calls since the copies
            \* were last written to the same content

vars == <<copies, pc, target, buf, env, clean, serial, acked, faults>>

Copies == {"primary", "backup"}
Default == 0
Serials == 0..MaxSaves
Contents == Serials \cup {Bad}

\* The program uses an environment, in "nomem" the default one because there
\* was no memory for another.
Up == {"up", "nomem"}

TypeOK ==
  /\ copies \in [Copies -> Contents]
  /\ pc \in Up \cup {"off", "repair", "save"}
  /\ target \in Copies
  /\ buf \in Serials
  /\ env \in Serials
  /\ clean \in BOOLEAN
  /\ serial \in Serials
  /\ acked \in Serials
  /\ faults \in 0..MaxFaults

\* A card on which no environment was ever saved.
Init ==
  /\ copies = [c \in Copies |-> Bad]
  /\ pc = "off"
  /\ target = "primary" /\ buf = Default /\ env = Default /\ clean = FALSE
  /\ serial = 0 /\ acked = 0 /\ faults = 0

InSync(cs) == cs["primary"] = cs["backup"] /\ cs["primary"] # Bad

\* k more faults; a write that makes the copies agree starts the count anew.
CountFaults(k) == faults + k <= MaxFaults /\ faults' = faults + k
CountWrite(k) ==
  /\ faults + k <= MaxFaults
  /\ faults' = IF InSync(copies') THEN 0 ELSE faults + k
-----------------------------------------------------------------------------
(***************************************************************************)
(* env_relocate_spec()                                                     *)
(***************************************************************************)

\* How read_env() may end: with the data; with an error before it read the
\* copy, the buffer being garbage; with an error after it.
Reads == {"read", "failed", "late"}
Buffers(r) == [c \in Copies |-> IF r[c] = "failed" THEN Bad ELSE copies[c]]

\* Mutant: one unusable copy is enough for the default environment.
NothingUsable_Either(r) ==
  \E c \in Copies : Buffers(r)[c] = Bad \/ r[c] = "late"

NothingUsable(r) == \A c \in Copies : Buffers(r)[c] = Bad \/ r[c] = "late"

ReadErrors(r) == Cardinality({c \in Copies : r[c] # "read"})

\* Both copies are read, nothing is written.
RelocateDefault(r) ==
  /\ pc = "off" /\ NothingUsable(r)
  /\ CountFaults(ReadErrors(r))
  /\ env' = Default /\ pc' = "up"
  /\ UNCHANGED <<copies, target, buf, clean, serial, acked>>

RelocatePrimary(r) ==
  /\ pc = "off" /\ ~NothingUsable(r)
  /\ \A c \in Copies : Buffers(r)[c] # Bad
  /\ CountFaults(ReadErrors(r))
  /\ env' = Buffers(r)["primary"] /\ pc' = "up"
  /\ UNCHANGED <<copies, target, buf, clean, serial, acked>>

\* A copy with a wrong CRC is going to be rewritten from the other one.
RelocateRepairs(r) ==
  /\ pc = "off" /\ ~NothingUsable(r)
  /\ \E c \in Copies :
       /\ c = "backup" => Buffers(r)["primary"] # Bad
       /\ Buffers(r)[c] = Bad
       /\ target' = c
       /\ \E d \in Copies \ {c} : buf' = Buffers(r)[d]
  /\ CountFaults(ReadErrors(r))
  /\ pc' = "repair"
  /\ UNCHANGED <<copies, env, clean, serial, acked>>

RelocateNoMemory ==
  /\ pc = "off"
  /\ env' = Default /\ pc' = "nomem"
  /\ UNCHANGED <<copies, target, buf, clean, serial, acked, faults>>
-----------------------------------------------------------------------------
(***************************************************************************)
(* saveenv() and write_env()                                               *)
(***************************************************************************)

\* The environment was changed since, or not; the save has its own number.
SaveStarts ==
  /\ pc \in Up /\ serial < MaxSaves
  /\ serial' = serial + 1
  /\ buf' = serial + 1 /\ env' = serial + 1
  /\ target' = "primary"
  /\ pc' = "save"
  /\ UNCHANGED <<copies, clean, acked, faults>>

\* Without memory for the export the default environment replaces the one in
\* use; nothing is written.
SaveNoMemory ==
  /\ pc \in Up
  /\ env' = Default /\ pc' = "nomem"
  /\ UNCHANGED <<copies, target, buf, clean, serial, acked, faults>>

\* What follows a write that did or did not report an error: the boot goes on
\* after a repair, the second copy follows the first one in any case.
AfterWrite(ok) ==
  \/ /\ pc = "repair"
     /\ env' = buf /\ pc' = "up"
     /\ UNCHANGED <<target, clean, acked>>
  \/ /\ pc = "save" /\ target = "primary"
     /\ target' = "backup" /\ clean' = ok
     /\ UNCHANGED <<env, pc, acked>>
  \/ /\ pc = "save" /\ target = "backup"
     /\ acked' = IF clean /\ ok THEN buf ELSE acked
     /\ pc' = "up"
     /\ UNCHANGED <<env, target, clean>>

\* Mutant: the offset of the backup copy is forgotten.
Put_PrimaryOnly(x) == copies' = [copies EXCEPT !["primary"] = x]

Put(x) == copies' = [copies EXCEPT ![target] = x]

Writing == pc \in {"repair", "save"}

WriteWorks ==
  /\ Writing
  /\ Put(buf) /\ CountWrite(0)
  /\ AfterWrite(TRUE)
  /\ UNCHANGED <<buf, serial>>

\* The write reports an error: nothing, all or something else was written.
WriteFails ==
  /\ Writing
  /\ \E x \in {copies[target], buf, Bad} : Put(x)
  /\ CountWrite(1)
  /\ AfterWrite(FALSE)
  /\ UNCHANGED <<buf, serial>>

PowerFailsInWrite ==
  /\ Writing
  /\ \E x \in {copies[target], buf, Bad} : Put(x)
  /\ CountWrite(1)
  /\ pc' = "off"
  /\ UNCHANGED <<target, buf, env, clean, serial, acked>>

\* Power fails between two writes, or the device is switched off.
PowerOff ==
  /\ pc # "off"
  /\ pc' = "off"
  /\ UNCHANGED <<copies, target, buf, env, clean, serial, acked, faults>>

Next ==
  \/ \E r \in [Copies -> Reads] :
       RelocateDefault(r) \/ RelocatePrimary(r) \/ RelocateRepairs(r)
  \/ RelocateNoMemory
  \/ SaveStarts \/ SaveNoMemory
  \/ WriteWorks \/ WriteFails \/ PowerFailsInWrite
  \/ PowerOff

Spec == Init /\ [][Next]_vars
-----------------------------------------------------------------------------
(***************************************************************************)
(* Properties                                                              *)
(***************************************************************************)

\* What a boot without errors uses.
Recovered ==
  IF copies["primary"] # Bad THEN copies["primary"]
  ELSE IF copies["backup"] # Bad THEN copies["backup"]
  ELSE Default

\* One fault never costs a save that reported no error: since the copies last
\* agreed, one failed or interrupted I/O call, in saveenv() or in the repair
\* at boot, leaves a card from which that save or a later one is recovered.
SavedSurvivesOneFault == faults <= 1 => Recovered >= acked

\* The environment a boot comes up with is never older than the last save
\* that reported no error, if no more than one fault happened since the
\* copies last agreed, the reads of this boot included.
BootsSavedEnv == pc = "up" /\ faults <= 1 => env >= acked
=============================================================================
