------------------------------ MODULE RpmbBlock ------------------------------
(***************************************************************************)
(* Block 0 of the eMMC's RPMB partition, which two programs share:         *)
(* sboot's anti-rollback (tee_loader/ns_uboot_loader.c) keeps the versions *)
(* of the images in one half, U-Boot's AVB (avb_rpmb.c) its record in the  *)
(* other.  Each reads the whole block and writes it back with the write    *)
(* counter it read, through its own driver eMMC_RPMB.c.  Every transfer to *)
(* the eMMC may fail, before or after it took effect, and power may be cut *)
(* before every write to it.  The eMMC and the secure world are external.  *)
(***************************************************************************)
EXTENDS Integers

CONSTANTS
  Parts,       \* the images whose versions are kept: sboot, uboot, optee, armfw
  MaxVersion,  \* bound: versions are 32-bit numbers
  MaxCounter,  \* the write counter's last value, 2^32 - 1
  Records,     \* AVB records, opaque here
  NoRecord

ASSUME PartsAssumption == Parts # {}
ASSUME NumbersAssumption == MaxVersion \in Nat /\ MaxCounter \in Nat \ {0}
ASSUME RecordsAssumption == NoRecord \notin Records

Versions == [Parts -> 0..MaxVersion]
\* initialized: anti_rollback_init_flag
Blocks == [initialized : BOOLEAN, kept : Versions, avb : Records]
Counters == 0..MaxCounter
\* -1 in the uint32_t write_cnt
UnknownCounter == MaxCounter

VARIABLES
  key, counter, block,  \* in the eMMC
  flash,    \* the versions of the images in their partitions
  loaded,   \* the versions of the images that were loaded
  reg,      \* the register ANTIROLLBACK_REG_ADDR, which survives a reset
  pc,
  buf,      \* sboot's copy of the block, then U-Boot's block_data
  cnt,      \* the write counter that was read
  want,     \* the record U-Boot is writing, or NoRecord
  done,     \* history: that write has taken effect
  result, value   \* of U-Boot's last call

emmc == <<key, counter, block>>
call == <<buf, cnt, want, done, result, value>>
vars == <<emmc, flash, loaded, reg, pc, call>>

TypeOK ==
  /\ key \in BOOLEAN /\ counter \in Counters /\ block \in Blocks
  /\ flash \in Versions /\ loaded \in Versions
  /\ reg \in {"clear", "enabling", "not_enabled"}
  /\ pc \in {"off", "key", "check", "write", "halted", "uboot", "counter",
             "frame", "send", "answer", "os"}
  /\ buf \in Blocks /\ cnt \in Counters
  /\ want \in Records \cup {NoRecord} /\ done \in BOOLEAN
  /\ result \in {"none", "ok", "failed"}
  /\ value \in Records \cup {NoRecord}

\* From the factory: no key, no versions kept, any record.
Init ==
  /\ key = FALSE /\ counter = 0
  /\ block \in Blocks /\ ~block.initialized /\ block.kept = [p \in Parts |-> 0]
  /\ flash = [p \in Parts |-> 0] /\ loaded = flash
  /\ reg = "clear" /\ pc = "off"
  /\ buf = block /\ cnt = 0
  /\ want = NoRecord /\ done = FALSE /\ result = "none" /\ value = NoRecord
-----------------------------------------------------------------------------
(***************************************************************************)
(* The eMMC                                                                *)
(***************************************************************************)

\* An authenticated write of b with the counter n: refused without a key, when
\* the counter is used up and when n is not the counter.
Accepts(n) == key /\ counter # MaxCounter /\ n = counter
Write(b, n) ==
  IF Accepts(n) THEN block' = b /\ counter' = counter + 1
                ELSE UNCHANGED <<block, counter>>

\* The transfer does not reach the eMMC.
NoWrite == UNCHANGED <<block, counter>>
-----------------------------------------------------------------------------
(***************************************************************************)
(* sboot                                                                   *)
(***************************************************************************)

\* The boot ROM and sboot load and verify the images.
Load ==
  /\ pc = "off"
  /\ pc' = "key" /\ loaded' = flash
  /\ UNCHANGED <<emmc, flash, reg, call>>

\* eMMC_RPMB_Check_Program_Key(): a key that is not seen is programmed; what
\* becomes of it is not asked.  The eMMC takes a key once.
CheckProgramKey ==
  /\ pc = "key" /\ pc' = "check"
  /\ key' \in {key, TRUE}
  /\ UNCHANGED <<counter, block, flash, loaded, reg, call>>

Halt ==
  /\ pc' = "halted"
  /\ UNCHANGED <<emmc, flash, loaded, reg, call>>

\* ns_uboot_anti_rollback() up to its write: the block is read and verified.
ReadFails == pc = "check" /\ Halt

Initialized == block.initialized
\* Mutant: the register keeps what it held.
Told_Nothing == reg
Told == "not_enabled"
NotEnabled ==
  /\ pc = "check" /\ key /\ ~Initialized /\ reg # "enabling"
  /\ reg' = Told /\ pc' = "uboot"
  /\ UNCHANGED <<emmc, flash, loaded, call>>

Older == \E p \in Parts : block.kept[p] > loaded[p]

Refuse == pc = "check" /\ key /\ Initialized /\ Older /\ Halt

\* Mutant: one version that agrees is enough.
Same_One == \E p \in Parts : block.kept[p] = loaded[p]
Same == block.kept = loaded
SameVersions ==
  /\ pc = "check" /\ key /\ Initialized /\ ~Older /\ Same
  /\ reg' = "clear" /\ pc' = "uboot"
  /\ UNCHANGED <<emmc, flash, loaded, call>>

NewBlock == [block EXCEPT !.initialized = TRUE, !.kept = loaded]

\* Mutant: no check before the versions are written.
Updates_Any == Initialized /\ block.kept # loaded
Updates == Initialized /\ ~Older /\ block.kept # loaded

NewVersions ==
  /\ pc = "check" /\ key
  /\ Updates \/ (~Initialized /\ reg = "enabling")
  /\ buf' = NewBlock
  /\ pc' = "write"
  /\ UNCHANGED <<emmc, flash, loaded, reg, cnt, want, done, result, value>>

\* eMMC_RPMB_Write_data(): a counter that cannot be read counts as 0.  What is
\* not reported done halts the boot, whether it was written or not.
WriteVersions ==
  /\ pc = "write"
  /\ \/ \E n \in {counter, 0} : Write(buf, n)
     \/ NoWrite
  /\ \/ block' = buf /\ counter' # counter /\ pc' = "uboot" /\ reg' = "clear"
     \/ pc' = "halted" /\ reg' = reg
  /\ UNCHANGED <<key, flash, loaded, call>>
-----------------------------------------------------------------------------
(***************************************************************************)
(* U-Boot                                                                  *)
(***************************************************************************)

Fails ==
  /\ result' = "failed" /\ value' = NoRecord /\ want' = NoRecord /\ done' = FALSE
  /\ pc' = "uboot"

\* ubootRpmbReadData(): a whole block, verified by the secure world.
ReadData ==
  /\ pc = "uboot"
  /\ \/ /\ key /\ result' = "ok" /\ value' = block.avb
        /\ UNCHANGED <<pc, want, done>>
     \/ Fails
  /\ UNCHANGED <<emmc, flash, loaded, reg, buf, cnt>>

\* ubootRpmbWriteData(), called
WriteData ==
  /\ pc = "uboot" /\ pc' = "counter"
  /\ want' \in Records /\ done' = FALSE /\ result' = "none" /\ value' = NoRecord
  /\ UNCHANGED <<emmc, flash, loaded, reg, buf, cnt>>

\* ubootRpmbWriteCounter(): eMMC_RPMB_IfKeyWritten() stops the machine when a
\* transfer fails; without a key, and when the counter cannot be read, it returns
\* -1, which ubootRpmbWriteData() does not notice.
WriteCounter ==
  /\ pc = "counter"
  /\ \/ pc' = "frame" /\ cnt' \in {UnknownCounter} \cup {c \in {counter} : key}
     \/ pc' = "halted" /\ cnt' = cnt
  /\ UNCHANGED <<emmc, flash, loaded, reg, buf, want, done, result, value>>

\* The secure world puts the record into the block read and authenticates it.
Framed == [block EXCEPT !.avb = want]

Frame ==
  /\ pc = "frame"
  /\ \/ /\ pc' = "send" /\ buf' = Framed
        /\ UNCHANGED <<want, done, result, value>>
     \/ Fails /\ UNCHANGED buf
  /\ UNCHANGED <<emmc, flash, loaded, reg, cnt>>

\* eMMC_RPMB_Write_Blk(): the block is sent ...
Send ==
  /\ pc = "send"
  /\ \/ /\ Write(buf, cnt) /\ done' = Accepts(cnt) /\ pc' = "answer"
        /\ UNCHANGED <<want, result, value>>
     \/ NoWrite /\ Fails
  /\ UNCHANGED <<key, flash, loaded, reg, buf, cnt>>

\* Mutant: the result is read and not looked at.
Accepted_Always == TRUE
\* "No key" is no error for eMMC_RPMB_CheckResultError().
Accepted == done \/ ~key

\* ... and its result read.
Answer ==
  /\ pc = "answer"
  /\ \/ /\ Accepted
        /\ result' = "ok" /\ value' = NoRecord /\ want' = NoRecord /\ done' = FALSE
        /\ pc' = "uboot"
     \/ Fails
  /\ UNCHANGED <<emmc, flash, loaded, reg, buf, cnt>>
-----------------------------------------------------------------------------
(***************************************************************************)
(* What happens around them                                                *)
(***************************************************************************)

Boot ==
  /\ pc = "uboot" /\ pc' = "os"
  /\ UNCHANGED <<emmc, flash, loaded, reg, call>>

\* An image is written, by an update or fastboot.
Flash ==
  /\ pc \in {"uboot", "os"}
  /\ \E p \in Parts, v \in 0..MaxVersion : flash' = [flash EXCEPT ![p] = v]
  /\ UNCHANGED <<emmc, loaded, reg, pc, call>>

Stops ==
  /\ pc' = "off"
  /\ want' = NoRecord /\ done' = FALSE /\ result' = "none" /\ value' = NoRecord
  /\ UNCHANGED <<emmc, flash, loaded, buf, cnt>>

\* "adb reboot rpmbp"
RebootEnabling == pc = "os" /\ reg' = "enabling" /\ Stops
Reboot == pc \in {"uboot", "os"} /\ reg' = reg /\ Stops
PowerLoss == pc # "off" /\ reg' = "clear" /\ Stops

Next ==
  \/ Load \/ CheckProgramKey \/ ReadFails \/ NotEnabled \/ Refuse
  \/ SameVersions \/ NewVersions \/ WriteVersions
  \/ ReadData \/ WriteData \/ WriteCounter \/ Frame \/ Send \/ Answer
  \/ Boot \/ Flash \/ RebootEnabling \/ Reboot \/ PowerLoss
Spec == Init /\ [][Next]_vars
-----------------------------------------------------------------------------
\* Either program leaves the other's half of the block alone.
HalvesKept == [][
  /\ block'.avb # block.avb => pc = "send"
  /\ <<block'.initialized, block'.kept>> # <<block.initialized, block.kept>> => pc = "write"
  ]_vars

\* Once anti-rollback is enabled it stays so, and no kept version decreases.
KeptNeverDecrease == [][
  block.initialized =>
    block'.initialized /\ \A p \in Parts : block.kept[p] <= block'.kept[p]
  ]_vars

\* When U-Boot runs, the images that were loaded are those whose versions are
\* kept, whatever was interrupted before: none of them is older than any that ran.
KeptIsLoaded ==
  pc \notin {"off", "key", "check", "write", "halted"} /\ block.initialized =>
    block.kept = loaded

\* The register, by which U-Boot tells a production device from an engineering
\* one, agrees with the block.
RegisterTells ==
  pc \notin {"off", "key", "check", "write", "halted"} =>
    (reg = "not_enabled" <=> ~block.initialized)

\* U-Boot's half behaves as the record its callers rely on.
Record == INSTANCE RpmbRecord WITH record <- block.avb
RecordKept == Record!Spec
=============================================================================
