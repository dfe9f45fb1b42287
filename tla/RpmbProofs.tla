----------------------------- MODULE RpmbProofs ------------------------------
(***************************************************************************)
(* Proofs about the RPMB and its users: RpmbBlock, the block that secure   *)
(* boot and AVB share, for any set of images, versions and records, and    *)
(* SingleSlotBoot, the boot that takes the lock state and the rollback     *)
(* indexes from it.                                                        *)
(*                                                                         *)
(* Two facts are hidden in the control flow of RpmbBlock and make its      *)
(* invariant inductive: what is about to be written is the block last read *)
(* with one half replaced (WriteHalf, SendHalf), and U-Boot runs only on   *)
(* an eMMC that has its key (HasKey), without which "no key" would be      *)
(* reported as a write that succeeded.  In SingleSlotBoot it is that from  *)
(* the verification on an image of a locked device is safe.                *)
(***************************************************************************)
EXTENDS RpmbBlock, SingleSlotBoot, TLAPS

Before == {"off", "key", "check", "write", "halted"}
Writing == {"counter", "frame", "send", "answer"}

\* Versions are compared and kept only with the key; U-Boot runs only with it.
HasKey == pc \in {"write"} \cup Writing \cup {"uboot", "os"} => key

\* sboot is about to write the block it read, with the versions of what it
\* loaded, none of which is older than the one that is kept.
WriteHalf ==
  pc = "write" =>
    /\ buf.initialized /\ buf.kept = loaded /\ buf.avb = block.avb
    /\ block.initialized => \A p \in Parts : block.kept[p] <= loaded[p]

\* U-Boot is about to send the block it read, with its record.
SendHalf ==
  pc = "send" =>
    buf.initialized = block.initialized /\ buf.kept = block.kept /\ buf.avb = want

\* A record is being written while a write call runs, or stopped the machine; it
\* has taken effect only after it was sent, and is then what the block holds.
WriteCall ==
  /\ pc \in Writing => want # NoRecord
  /\ want # NoRecord => pc \in Writing \cup {"halted"}
  /\ done => pc = "answer" /\ block.avb = want

IInv ==
  /\ TypeOK /\ KeptIsLoaded /\ RegisterTells
  /\ HasKey /\ WriteHalf /\ SendHalf /\ WriteCall
-----------------------------------------------------------------------------
(***************************************************************************)
(* The two halves of a block                                               *)
(***************************************************************************)

\* Replacing the record leaves the versions alone.
LEMMA RecordReplaced ==
  ASSUME NEW b \in Blocks, NEW r \in Records, NEW c,
         c = [b EXCEPT !.avb = r]
  PROVE  c \in Blocks /\ c.initialized = b.initialized /\ c.kept = b.kept /\ c.avb = r
  BY DEF Blocks

LEMMA BlockParts ==
  ASSUME NEW b \in Blocks
  PROVE  b.initialized \in BOOLEAN /\ b.kept \in Versions /\ b.avb \in Records
  BY DEF Blocks

\* A version is no greater than itself.
LEMMA KeptNumbers ==
  ASSUME IInv PROVE \A p \in Parts : block.kept[p] <= block.kept[p]
<1>1. block.kept \in [Parts -> 0..MaxVersion]
  BY BlockParts DEF IInv, TypeOK, Versions
<1> SUFFICES ASSUME NEW p \in Parts PROVE block.kept[p] <= block.kept[p]
  OBVIOUS
<1>2. block.kept[p] \in Int
  BY <1>1, NumbersAssumption
<1> QED
  BY <1>2

\* A version that is not newer than another one is at most that one.
LEMMA NotOlder ==
  ASSUME TypeOK, ~Older
  PROVE  \A p \in Parts : block.kept[p] <= loaded[p]
<1> SUFFICES ASSUME NEW p \in Parts PROVE block.kept[p] <= loaded[p]
  OBVIOUS
<1>1. block.kept \in [Parts -> 0..MaxVersion] /\ loaded \in [Parts -> 0..MaxVersion]
  BY BlockParts DEF TypeOK, Versions
<1>2. block.kept[p] \in Int /\ loaded[p] \in Int
  BY <1>1, NumbersAssumption
<1>3. ~(block.kept[p] > loaded[p])
  BY DEF Older
<1> QED
  BY <1>2, <1>3
-----------------------------------------------------------------------------
LEMMA InitIInv == ASSUME Init PROVE IInv
<1>1. [p \in Parts |-> 0] \in Versions
  BY NumbersAssumption DEF Versions
<1>2. ~block.initialized
  BY DEF Init
<1>3. block \in Blocks /\ counter \in Counters /\ cnt \in Counters
  BY NumbersAssumption DEF Init, Counters
<1>4. TypeOK
  BY <1>1, <1>3 DEF Init, TypeOK
<1> QED
  BY <1>2, <1>4 DEF Init, IInv, KeptIsLoaded, RegisterTells, HasKey, WriteHalf,
                    SendHalf, WriteCall, Writing
-----------------------------------------------------------------------------
(***************************************************************************)
(* Every step keeps the invariant: sboot                                   *)
(***************************************************************************)

\* A write leaves the eMMC with a block and a counter.
LEMMA WriteType ==
  ASSUME TypeOK, NEW b \in Blocks, NEW n, Write(b, n) \/ NoWrite
  PROVE  block' \in Blocks /\ counter' \in Counters
<1>1. CASE Accepts(n) /\ Write(b, n)
  <2>1. block' = b /\ counter' = counter + 1 /\ counter # MaxCounter
    BY <1>1 DEF Write, Accepts
  <2>2. counter + 1 \in Counters
    BY <2>1, NumbersAssumption DEF TypeOK, Counters
  <2> QED
    BY <2>1, <2>2
<1>2. CASE UNCHANGED <<block, counter>>
  BY <1>2 DEF TypeOK
<1> QED
  BY <1>1, <1>2 DEF Write, NoWrite

LEMMA LoadIInv == ASSUME IInv, Load PROVE IInv'
  BY DEF IInv, Load, TypeOK, emmc, call, KeptIsLoaded, RegisterTells, HasKey,
         WriteHalf, SendHalf, WriteCall, Writing

LEMMA CheckProgramKeyIInv == ASSUME IInv, CheckProgramKey PROVE IInv'
  BY DEF IInv, CheckProgramKey, TypeOK, call, KeptIsLoaded, RegisterTells,
         HasKey, WriteHalf, SendHalf, WriteCall, Writing

LEMMA HaltIInv ==
  ASSUME IInv, pc = "check", Halt
  PROVE  IInv'
  BY DEF IInv, Halt, TypeOK, emmc, call, KeptIsLoaded, RegisterTells, HasKey,
         WriteHalf, SendHalf, WriteCall, Writing

LEMMA NotEnabledIInv == ASSUME IInv, NotEnabled PROVE IInv'
  BY DEF IInv, NotEnabled, Initialized, Told, TypeOK, emmc, call, KeptIsLoaded,
         RegisterTells, HasKey, WriteHalf, SendHalf, WriteCall, Writing

LEMMA SameVersionsIInv == ASSUME IInv, SameVersions PROVE IInv'
  BY DEF IInv, SameVersions, Initialized, Same, TypeOK, emmc, call, KeptIsLoaded,
         RegisterTells, HasKey, WriteHalf, SendHalf, WriteCall, Writing

LEMMA NewVersionsIInv == ASSUME IInv, NewVersions PROVE IInv'
<1>1. TypeOK /\ pc = "check" /\ key
  BY DEF IInv, NewVersions
<1>2. buf' = [block EXCEPT !.initialized = TRUE, !.kept = loaded]
  BY DEF NewVersions, NewBlock
<1>3. buf' \in Blocks /\ buf'.initialized /\ buf'.kept = loaded /\ buf'.avb = block.avb
  <2>1. block \in Blocks /\ loaded \in Versions
    BY <1>1 DEF TypeOK
  <2>2. buf' \in Blocks
    BY <1>2, <2>1 DEF Blocks
  <2>3. buf'.kept = loaded /\ buf'.avb = block.avb
    BY <1>2, <2>1 DEF Blocks
  <2>4. buf'.initialized
    BY <1>2, <2>1 DEF Blocks
  <2> QED
    BY <2>2, <2>3, <2>4
<1>4. block.initialized => \A p \in Parts : block.kept[p] <= loaded[p]
  BY <1>1, NotOlder DEF NewVersions, Updates, Initialized
<1>5. UNCHANGED <<key, counter, block, flash, loaded, reg, cnt, want, done, result, value>>
  BY DEF NewVersions, emmc
<1>6. pc' = "write"
  BY DEF NewVersions
<1>7. TypeOK'
  BY <1>1, <1>3, <1>5, <1>6 DEF TypeOK
<1>8. WriteHalf'
  BY <1>3, <1>4, <1>5, Zenon DEF WriteHalf
<1> QED
  BY <1>1, <1>5, <1>6, <1>7, <1>8
  DEF IInv, KeptIsLoaded, RegisterTells, HasKey, SendHalf, WriteCall, Writing

LEMMA WriteVersionsIInv == ASSUME IInv, WriteVersions PROVE IInv'
<1>1. TypeOK /\ pc = "write" /\ key
  BY DEF IInv, WriteVersions, HasKey
<1>3. buf.initialized /\ buf.kept = loaded
  BY <1>1 DEF IInv, WriteHalf
<1>4. PICK n : Write(buf, n) \/ NoWrite
  BY DEF WriteVersions
<1>5. block' \in Blocks /\ counter' \in Counters
  BY <1>1, <1>4, WriteType DEF TypeOK
<1>6. UNCHANGED <<key, flash, loaded, buf, cnt, want, done, result, value>>
  BY DEF WriteVersions, call
<1>7. \/ block' = buf /\ pc' = "uboot" /\ reg' = "clear"
      \/ pc' = "halted" /\ reg' = reg
  BY DEF WriteVersions
<1>8. TypeOK'
  BY <1>1, <1>5, <1>6, <1>7 DEF TypeOK
<1>9. KeptIsLoaded' /\ RegisterTells'
  BY <1>3, <1>6, <1>7 DEF KeptIsLoaded, RegisterTells
<1> QED
  BY <1>1, <1>6, <1>7, <1>8, <1>9
  DEF IInv, HasKey, WriteHalf, SendHalf, WriteCall, Writing
-----------------------------------------------------------------------------
(***************************************************************************)
(* Every step keeps the invariant: U-Boot                                  *)
(***************************************************************************)

\* A call that fails is over, and says nothing of the block.
LEMMA FailsIInv ==
  ASSUME IInv, pc \in Writing \cup {"uboot"}, Fails,
         UNCHANGED <<emmc, flash, loaded, reg, buf, cnt>>
  PROVE  IInv'
  BY DEF IInv, Fails, TypeOK, emmc, KeptIsLoaded, RegisterTells, HasKey,
         WriteHalf, SendHalf, WriteCall, Writing

LEMMA ReadDataIInv == ASSUME IInv, ReadData PROVE IInv'
<1>1. CASE Fails
  BY <1>1, FailsIInv DEF ReadData
<1>2. CASE key /\ result' = "ok" /\ value' = block.avb /\ UNCHANGED <<pc, want, done>>
  <2>1. block.avb \in Records
    BY BlockParts DEF IInv, TypeOK
  <2>2. UNCHANGED <<key, counter, block, flash, loaded, reg, pc, buf, cnt, want, done>>
    BY <1>2 DEF ReadData, emmc
  <2>3. TypeOK'
    BY <1>2, <2>1, <2>2 DEF IInv, TypeOK
  <2> QED
    BY <2>2, <2>3 DEF IInv, KeptIsLoaded, RegisterTells, HasKey, WriteHalf,
                      SendHalf, WriteCall, Writing
<1> QED
  BY <1>1, <1>2 DEF ReadData

LEMMA WriteDataIInv == ASSUME IInv, WriteData PROVE IInv'
  BY RecordsAssumption
  DEF IInv, WriteData, TypeOK, emmc, KeptIsLoaded, RegisterTells, HasKey,
      WriteHalf, SendHalf, WriteCall, Writing

LEMMA WriteCounterIInv == ASSUME IInv, WriteCounter PROVE IInv'
<1>1. cnt' \in Counters
  BY NumbersAssumption DEF IInv, WriteCounter, TypeOK, UnknownCounter, Counters
<1>2. pc = "counter" /\ pc' \in {"frame", "halted"}
  BY DEF WriteCounter
<1>3. UNCHANGED <<key, counter, block, flash, loaded, reg, buf, want, done, result, value>>
  BY DEF WriteCounter, emmc
<1>4. TypeOK'
  BY <1>1, <1>2, <1>3 DEF IInv, TypeOK
<1> QED
  BY <1>2, <1>3, <1>4
  DEF IInv, KeptIsLoaded, RegisterTells, HasKey, WriteHalf, SendHalf, WriteCall, Writing

LEMMA FrameIInv == ASSUME IInv, Frame PROVE IInv'
<1>1. CASE Fails /\ UNCHANGED buf
  BY <1>1, FailsIInv DEF Frame, Writing
<1>2. CASE pc' = "send" /\ buf' = Framed /\ UNCHANGED <<want, done, result, value>>
  <2>1. pc = "frame" /\ UNCHANGED <<key, counter, block, flash, loaded, reg, cnt>>
    BY DEF Frame, emmc
  <2>2. block \in Blocks /\ want \in Records
    BY <2>1 DEF IInv, TypeOK, WriteCall, Writing
  <2>3. /\ buf' \in Blocks /\ buf'.avb = want
        /\ buf'.initialized = block.initialized /\ buf'.kept = block.kept
    BY <1>2, <2>2, RecordReplaced DEF Framed
  <2>4. TypeOK'
    BY <1>2, <2>1, <2>3 DEF IInv, TypeOK
  <2> QED
    BY <1>2, <2>1, <2>3, <2>4 DEF IInv, KeptIsLoaded, RegisterTells, HasKey,
                                  WriteHalf, SendHalf, WriteCall, Writing
<1> QED
  BY <1>1, <1>2 DEF Frame

LEMMA SendIInv == ASSUME IInv, Send PROVE IInv'
<1>1. pc = "send" /\ UNCHANGED <<key, flash, loaded, reg, buf, cnt>>
  BY DEF Send
<1>2. CASE NoWrite /\ Fails
  BY <1>1, <1>2, FailsIInv DEF NoWrite, emmc, Writing
<1>3. CASE /\ Write(buf, cnt) /\ done' = Accepts(cnt) /\ pc' = "answer"
           /\ UNCHANGED <<want, result, value>>
  <2>1. want # NoRecord
    BY <1>1 DEF IInv, WriteCall, Writing
  <2>2. /\ buf.initialized = block.initialized /\ buf.kept = block.kept
        /\ buf.avb = want
    BY <1>1 DEF IInv, SendHalf
  <2>3. block' \in Blocks /\ counter' \in Counters
    BY <1>3, WriteType DEF IInv, TypeOK
  <2>4. done' \in BOOLEAN
    BY <1>3 DEF Accepts, IInv, TypeOK
  <2>5. TypeOK'
    BY <1>1, <1>3, <2>3, <2>4 DEF IInv, TypeOK
  <2>6. done' => block' = buf
    BY <1>3 DEF Write
  <2>7. block' = buf \/ block' = block
    BY <1>3 DEF Write
  <2>8. KeptIsLoaded' /\ RegisterTells'
    BY <1>1, <1>3, <2>2, <2>7, Zenon DEF IInv, KeptIsLoaded, RegisterTells
  <2> QED
    BY <1>1, <1>3, <2>1, <2>2, <2>5, <2>6, <2>8
    DEF IInv, HasKey, WriteHalf, SendHalf, WriteCall, Writing
<1> QED
  BY <1>2, <1>3 DEF Send

LEMMA AnswerIInv == ASSUME IInv, Answer PROVE IInv'
  BY DEF IInv, Answer, Fails, TypeOK, emmc, KeptIsLoaded, RegisterTells, HasKey,
         WriteHalf, SendHalf, WriteCall, Writing
-----------------------------------------------------------------------------
(***************************************************************************)
(* Every step keeps the invariant: what happens around them                *)
(***************************************************************************)

LEMMA BootIInv == ASSUME IInv, Boot PROVE IInv'
  BY DEF IInv, Boot, TypeOK, emmc, call, KeptIsLoaded, RegisterTells, HasKey,
         WriteHalf, SendHalf, WriteCall, Writing

LEMMA FlashIInv == ASSUME IInv, Flash PROVE IInv'
<1>1. flash' \in Versions
  BY DEF IInv, Flash, TypeOK, Versions
<1>2. UNCHANGED <<key, counter, block, loaded, reg, pc, buf, cnt, want, done, result, value>>
  BY DEF Flash, emmc, call
<1>3. TypeOK'
  BY <1>1, <1>2 DEF IInv, TypeOK
<1> QED
  BY <1>2, <1>3 DEF IInv, KeptIsLoaded, RegisterTells, HasKey, WriteHalf,
                    SendHalf, WriteCall, Writing

LEMMA StopsIInv ==
  ASSUME IInv, Stops, reg' \in {"clear", "enabling", reg}
  PROVE  IInv'
<1>1. TypeOK'
  BY DEF IInv, Stops, TypeOK, emmc
<1> QED
  BY <1>1 DEF IInv, Stops, emmc, KeptIsLoaded, RegisterTells, HasKey, WriteHalf,
              SendHalf, WriteCall, Writing

LEMMA StutterIInv == ASSUME IInv, UNCHANGED vars PROVE IInv'
<1>1. UNCHANGED <<key, counter, block, flash, loaded, reg, pc, buf, cnt, want,
                  done, result, value>>
  BY DEF vars, emmc, call
<1>2. TypeOK'
  BY <1>1 DEF IInv, TypeOK
<1> QED
  BY <1>1, <1>2 DEF IInv, KeptIsLoaded, RegisterTells, HasKey, WriteHalf,
                    SendHalf, WriteCall, Writing

LEMMA NextIInv == ASSUME IInv, [Next]_vars PROVE IInv'
<1>1. CASE ReadFails \/ Refuse
  BY <1>1, HaltIInv DEF ReadFails, Refuse
<1>2. CASE RebootEnabling \/ Reboot \/ PowerLoss
  BY <1>2, StopsIInv DEF RebootEnabling, Reboot, PowerLoss
<1> QED
  BY <1>1, <1>2, LoadIInv, CheckProgramKeyIInv, NotEnabledIInv, SameVersionsIInv,
     NewVersionsIInv, WriteVersionsIInv, ReadDataIInv, WriteDataIInv,
     WriteCounterIInv, FrameIInv, SendIInv, AnswerIInv, BootIInv, FlashIInv,
     StutterIInv
  DEF Next

\* The invariant that the theorems below are drawn from.
LEMMA Invariance == Spec => []IInv
  BY InitIInv, NextIInv, PTL DEF Spec

\* Every variable stays in its range; in particular the write counter never
\* passes its last value.
THEOREM TypeCorrect == Spec => []TypeOK
<1>1. IInv => TypeOK
  BY DEF IInv
<1> QED
  BY <1>1, Invariance, PTL

\* ns_uboot_anti_rollback(): when U-Boot runs, the versions of what was loaded
\* are the versions that are kept.
THEOREM KeptVersionsAreLoaded == Spec => []KeptIsLoaded
<1>1. IInv => KeptIsLoaded
  BY DEF IInv
<1> QED
  BY <1>1, Invariance, PTL

\* ns_uboot_anti_rollback() and anti_rb_enabled(): the register says that
\* anti-rollback is not enabled exactly when the block does.
THEOREM RegisterAgrees == Spec => []RegisterTells
<1>1. IInv => RegisterTells
  BY DEF IInv
<1> QED
  BY <1>1, Invariance, PTL
-----------------------------------------------------------------------------
(***************************************************************************)
(* What a step may do to the block                                         *)
(***************************************************************************)

\* The block changes in two actions only, to what the action had prepared.
LEMMA BlockChanges ==
  ASSUME Next, block' # block
  PROVE  (WriteVersions /\ block' = buf) \/ (Send /\ block' = buf)
  BY DEF Next, Load, CheckProgramKey, ReadFails, Halt, NotEnabled, Refuse,
         SameVersions, NewVersions, WriteVersions, ReadData, WriteData,
         WriteCounter, Frame, Send, Answer, Fails, Boot, Flash, RebootEnabling,
         Reboot, PowerLoss, Stops, Write, NoWrite, emmc

\* sboot leaves the record of AVB alone, U-Boot the versions of sboot.
THEOREM HalvesAreKept == Spec => HalvesKept
<1> DEFINE A ==
      /\ block'.avb # block.avb => pc = "send"
      /\ <<block'.initialized, block'.kept>> # <<block.initialized, block.kept>>
           => pc = "write"
<1>1. ASSUME IInv, Next, block' # block PROVE A
  <2>1. CASE WriteVersions /\ block' = buf
    BY <1>1, <2>1, Zenon DEF WriteVersions, IInv, WriteHalf
  <2>2. CASE Send /\ block' = buf
    BY <1>1, <2>2, Zenon DEF Send, IInv, SendHalf
  <2> QED
    BY <1>1, <2>1, <2>2, BlockChanges
<1>2. block' = block => A
  OBVIOUS
<1>3. IInv /\ [Next]_vars => [A]_vars
  BY <1>1, <1>2, Zenon
<1> QED
  BY <1>3, Invariance, PTL DEF Spec, HalvesKept

\* Anti-rollback, once enabled, stays enabled, and no version it keeps falls,
\* wherever power is cut and whatever fails.
THEOREM VersionsNeverFall == Spec => KeptNeverDecrease
<1> DEFINE A ==
      block.initialized =>
        block'.initialized /\ \A p \in Parts : block.kept[p] <= block'.kept[p]
<1>1. ASSUME IInv, Next, block' # block PROVE A
  <2>1. CASE WriteVersions /\ block' = buf
    <3>1. pc = "write"
      BY <2>1 DEF WriteVersions
    <3>2. buf.initialized /\ buf.kept = loaded
      BY <1>1, <3>1 DEF IInv, WriteHalf
    <3>3. block.initialized => \A p \in Parts : block.kept[p] <= loaded[p]
      BY <1>1, <3>1 DEF IInv, WriteHalf
    <3> QED
      BY <2>1, <3>2, <3>3, Zenon
  <2>2. CASE Send /\ block' = buf
    <3>1. block'.initialized = block.initialized /\ block'.kept = block.kept
      BY <1>1, <2>2, Zenon DEF Send, IInv, SendHalf
    <3>2. \A p \in Parts : block.kept[p] <= block.kept[p]
      BY <1>1, KeptNumbers
    <3> QED
      BY <3>1, <3>2, Zenon
  <2> QED
    BY <1>1, <2>1, <2>2, BlockChanges
<1>2. ASSUME IInv, block' = block PROVE A
  <2>1. \A p \in Parts : block.kept[p] <= block.kept[p]
    BY <1>2, KeptNumbers
  <2> QED
    BY <1>2, <2>1, Zenon
<1>3. IInv /\ [Next]_vars => [A]_vars
  BY <1>1, <1>2, Zenon
<1> QED
  BY <1>3, Invariance, PTL DEF Spec, KeptNeverDecrease
-----------------------------------------------------------------------------
(***************************************************************************)
(* U-Boot's half is the record its callers rely on                         *)
(***************************************************************************)

\* What the record's specification sees.
seen == <<block.avb, want, done, result, value>>

\* A call that ends, whatever its result, ends the abstract call.
LEMMA FailsIsFail ==
  ASSUME want # NoRecord, Fails, UNCHANGED block
  PROVE  Record!Fail
  BY DEF Fails, Record!Fail, Record!Ends

\* sboot and whatever does not touch the record or its caller is a stutter.
LEMMA Unseen ==
  ASSUME IInv,
         \/ Load \/ CheckProgramKey \/ ReadFails \/ NotEnabled \/ Refuse
         \/ SameVersions \/ NewVersions \/ WriteCounter \/ Boot \/ Flash
         \/ UNCHANGED vars
  PROVE  UNCHANGED seen
  BY DEF Load, CheckProgramKey, ReadFails, NotEnabled, Refuse, Halt, SameVersions,
         NewVersions, WriteCounter, Boot, Flash, emmc, call, vars, seen

LEMMA WriteVersionsUnseen == ASSUME IInv, WriteVersions PROVE UNCHANGED seen
<1>1. buf.avb = block.avb
  BY DEF IInv, WriteVersions, WriteHalf
<1>2. block' = buf \/ block' = block
  BY DEF WriteVersions, Write, NoWrite
<1>3. UNCHANGED <<want, done, result, value>>
  BY DEF WriteVersions, call
<1> QED
  BY <1>1, <1>2, <1>3 DEF seen

LEMMA ReadIsRead == ASSUME IInv, ReadData PROVE Record!Read
<1>1. want = NoRecord /\ ~done /\ UNCHANGED block
  BY DEF IInv, ReadData, WriteCall, Writing, emmc
<1> QED
  BY <1>1 DEF IInv, TypeOK, ReadData, Fails, Record!Read

LEMMA WriteIsStart == ASSUME IInv, WriteData PROVE Record!Start
  BY DEF IInv, WriteData, WriteCall, Writing, emmc, Record!Start

LEMMA FrameIsFail == ASSUME IInv, Frame PROVE Record!Fail \/ UNCHANGED seen
<1>1. want # NoRecord /\ UNCHANGED block
  BY DEF IInv, Frame, WriteCall, Writing, emmc
<1> QED
  BY <1>1, FailsIsFail DEF Frame, seen

\* Sending the block is the moment at which the write takes effect, if the eMMC
\* accepts it.
LEMMA SendIsEffect ==
  ASSUME IInv, Send PROVE Record!Effect \/ Record!Fail \/ UNCHANGED seen
<1>1. want # NoRecord /\ done = FALSE /\ buf.avb = want
  BY DEF IInv, TypeOK, Send, WriteCall, Writing, SendHalf
<1>2. CASE NoWrite /\ Fails
  BY <1>1, <1>2, FailsIsFail DEF NoWrite
<1>3. CASE /\ Write(buf, cnt) /\ done' = Accepts(cnt) /\ pc' = "answer"
           /\ UNCHANGED <<want, result, value>>
  <2>1. CASE Accepts(cnt)
    <3>1. block' = buf /\ done' = TRUE
      BY <1>3, <2>1, Zenon DEF Write
    <3> QED
      BY <1>1, <1>3, <3>1 DEF Record!Effect
  <2>2. CASE ~Accepts(cnt)
    <3>1. block' = block
      BY <1>3, <2>2, Zenon DEF Write
    <3>2. done' = FALSE
      BY <1>3, <2>2 DEF Accepts, IInv, TypeOK
    <3> QED
      BY <1>1, <1>3, <3>1, <3>2 DEF seen
  <2> QED
    BY <2>1, <2>2
<1> QED
  BY <1>2, <1>3 DEF Send

\* What is reported done has been written: without a key, when the driver takes
\* the eMMC's refusal for no error, U-Boot does not run.
LEMMA AnswerIsEnd == ASSUME IInv, Answer PROVE Record!Succeed \/ Record!Fail
<1>1. want # NoRecord /\ key /\ UNCHANGED block
  BY DEF IInv, Answer, WriteCall, Writing, HasKey, emmc
<1>2. Accepted => done
  BY <1>1 DEF Accepted
<1> QED
  BY <1>1, <1>2, FailsIsFail DEF Answer, Record!Succeed, Record!Ends

LEMMA StopsIsPowerLoss == ASSUME Stops PROVE Record!PowerLoss
  BY DEF Stops, emmc, Record!PowerLoss, Record!Ends

\* avb_ops_uboot.c may take ubootRpmbReadData() and ubootRpmbWriteData() for the
\* reads and writes of one record: one that sboot's writes do not disturb, whose
\* write takes effect at once or not at all, and has if it is reported done.
THEOREM RecordRefinement == Spec => RecordKept
<1>1. Init => Record!Init
  BY BlockParts DEF Init, Record!Init
<1>2. IInv /\ [Next]_vars => [Record!Next]_Record!vars
  <2> SUFFICES ASSUME IInv, [Next]_vars PROVE Record!Next \/ UNCHANGED seen
    BY DEF Record!vars, seen
  <2>1. CASE RebootEnabling \/ Reboot \/ PowerLoss
    BY <2>1, StopsIsPowerLoss DEF RebootEnabling, Reboot, PowerLoss, Record!Next
  <2> QED
    BY <2>1, Unseen, WriteVersionsUnseen, ReadIsRead, WriteIsStart, FrameIsFail,
       SendIsEffect, AnswerIsEnd
    DEF Next, Record!Next
<1> QED
  BY <1>1, <1>2, Invariance, PTL DEF Spec, RecordKept, Record!Spec
-----------------------------------------------------------------------------
(***************************************************************************)
(* SingleSlotBoot                                                          *)
(***************************************************************************)

SingleTypeOK ==
  /\ RpmbTypeOK
  /\ image \in Images
  /\ stage \in {"menu", "verify", "accept", "state", "red", "enter", "update", "read",
                "running", "halted"}
  /\ allow \in BOOLEAN
  /\ ret \in Verdicts \cup {"IO"}
  /\ data \in BOOLEAN
  /\ loc \in 0..NumLocations

Locked == rpmb.device_state = Lock

\* The images may run on this device.
Vetted == Locked => Safe(image)

\* While the images are verified, the RAM copy is the record if it was read at all, and
\* errors are allowed if the device is unlocked or was not read.  From the moment the
\* slot data is handed out the copy is the record and the images are vetted, up to the
\* last index write, which may take effect unreported.
VettedInv ==
  /\ stage = "verify" =>
       /\ support => cache = rpmb
       /\ allow /\ support => ~Locked
  /\ data /\ stage \in {"accept", "state", "red", "enter", "update"} =>
       cache = rpmb /\ Vetted
  /\ data /\ stage = "read" => Vetted

SingleInv == SingleTypeOK /\ VettedInv
-----------------------------------------------------------------------------
(***************************************************************************)
(* The operations on the record                                            *)
(***************************************************************************)

LEMMA RecordFields ==
  ASSUME NEW r \in UBOOT_RPMB_RAW_DATA, NEW k \in Locations
  PROVE  r.rollback_index[k] \in Nat /\ r.device_state \in {Unlock, Lock}
  BY IndexesAssumption DEF UBOOT_RPMB_RAW_DATA

LEMMA BlankType == Blank \in UBOOT_RPMB_RAW_DATA
  BY IndexesAssumption DEF Blank, UBOOT_RPMB_RAW_DATA

LEMMA LoadedType ==
  ASSUME NEW ok \in BOOLEAN, NEW r \in UBOOT_RPMB_RAW_DATA, NEW c \in UBOOT_RPMB_RAW_DATA
  PROVE  Loaded(ok, r, c) \in UBOOT_RPMB_RAW_DATA
  BY DEF Loaded

LEMMA LoadType ==
  ASSUME RpmbTypeOK, NEW ok \in BOOLEAN, avb_load_info_from_rpmb(ok)
  PROVE  RpmbTypeOK'
  BY DEF RpmbTypeOK, avb_load_info_from_rpmb, Loaded

\* One index replaced: the record is one, and the rest of it is what it was.
LEMMA IndexReplaced ==
  ASSUME NEW c \in UBOOT_RPMB_RAW_DATA, NEW l \in Locations, NEW v \in Indexes, NEW b,
         b = [c EXCEPT !.rollback_index[l] = v]
  PROVE  /\ b \in UBOOT_RPMB_RAW_DATA
         /\ b.device_state = c.device_state
         /\ \A k \in Locations : b.rollback_index[k] = IF k = l THEN v ELSE c.rollback_index[k]
  BY DEF UBOOT_RPMB_RAW_DATA

LEMMA StateReplaced ==
  ASSUME NEW c \in UBOOT_RPMB_RAW_DATA, NEW st \in {Unlock, Lock}
  PROVE  [c EXCEPT !.device_state = st] \in UBOOT_RPMB_RAW_DATA
  BY DEF UBOOT_RPMB_RAW_DATA

LEMMA IndexWriteType ==
  ASSUME RpmbTypeOK, NEW l \in Locations, NEW v \in Indexes, NEW w \in WriteOutcomes,
         NEW ok \in BOOLEAN, write_rollback_index(cache, l, v, w, ok)
  PROVE  RpmbTypeOK'
<1> DEFINE new == [cache EXCEPT !.rollback_index[l] = v]
<1>1. new \in UBOOT_RPMB_RAW_DATA
  BY IndexReplaced DEF RpmbTypeOK
<1>2. /\ rpmb' = IF Written(w) THEN new ELSE rpmb
      /\ cache' = IF Reported(w) THEN Loaded(ok, new, cache) ELSE cache
      /\ support' = (Reported(w) => ok)
  BY Zenon DEF write_rollback_index
<1> HIDE DEF new
<1>3. rpmb' \in UBOOT_RPMB_RAW_DATA /\ cache' \in UBOOT_RPMB_RAW_DATA
  BY <1>1, <1>2, LoadedType DEF RpmbTypeOK
<1>4. support' \in BOOLEAN
  BY <1>2, Zenon
<1> QED
  BY <1>3, <1>4 DEF RpmbTypeOK

LEMMA FlashingType ==
  ASSUME RpmbTypeOK, NEW st \in {Unlock, Lock}, NEW ok0 \in BOOLEAN, NEW ok1 \in BOOLEAN,
         NEW w \in WriteOutcomes, NEW ok2 \in BOOLEAN, cb_flashing(st, ok0, ok1, w, ok2)
  PROVE  RpmbTypeOK'
<1>1. CASE avb_load_info_from_rpmb(ok0)
  BY <1>1, LoadType
<1>2. CASE write_device_state(Loaded(ok0, rpmb, cache), st, ok1, w, ok2)
  <2> DEFINE first == Loaded(ok1, rpmb, Loaded(ok0, rpmb, cache))
             new == [first EXCEPT !.device_state = st]
  <2>1. first \in UBOOT_RPMB_RAW_DATA
    BY LoadedType DEF RpmbTypeOK
  <2>2. /\ rpmb' = IF Written(w) THEN new ELSE rpmb
        /\ cache' = IF Reported(w) THEN Loaded(ok2, new, first) ELSE first
        /\ support' = IF Reported(w) THEN ok2 ELSE ok1
    BY <1>2, Zenon DEF write_device_state
  <2> HIDE DEF first
  <2>3. new \in UBOOT_RPMB_RAW_DATA
    BY <2>1, StateReplaced
  <2> HIDE DEF new
  <2> QED
    BY <2>1, <2>2, <2>3, LoadedType DEF RpmbTypeOK
<1> QED
  BY <1>1, <1>2, Zenon DEF cb_flashing
-----------------------------------------------------------------------------
(***************************************************************************)
(* Each step keeps the invariant                                           *)
(***************************************************************************)

LEMMA SingleInitInv == ASSUME SingleInit PROVE SingleInv
<1>1. image \in Images
  BY DEF SingleInit, Images, ImageStates
<1>2. rpmb \in UBOOT_RPMB_RAW_DATA
  BY BlankType, StateReplaced DEF SingleInit
<1>3. RpmbTypeOK
  BY <1>2, BlankType DEF SingleInit, RpmbTypeOK, ColdCache
<1>4. /\ stage = "menu" /\ allow = FALSE /\ ret = "OK" /\ data = FALSE /\ loc = 0
  BY DEF SingleInit, Locals
<1>5. loc \in 0..NumLocations
  BY <1>4, LocationsAssumption
<1>6. VettedInv
  BY <1>4 DEF VettedInv
<1> QED
  BY <1>1, <1>3, <1>4, <1>5, <1>6 DEF SingleInv, SingleTypeOK, Verdicts

\* A boot starts with the record, or without one and then without support.
LEMMA StartKeeps ==
  ASSUME SingleInv, NEW ok0 \in BOOLEAN, NEW ok \in BOOLEAN, StartBoot(ok0, ok)
  PROVE  SingleInv'
<1>1. /\ rpmb' = rpmb /\ stage' = "verify" /\ allow' = DeviceUnlocked(ok) /\ support' = ok
      /\ cache' = Loaded(ok, rpmb, Loaded(ok0, rpmb, cache))
      /\ UNCHANGED <<image, ret, data, loc>>
  BY Zenon DEF StartBoot
<1>2. support' => cache' = rpmb'
  BY <1>1, Zenon DEF Loaded
<1>3. allow' /\ support' => ~Locked'
  <2>1. ok /\ DeviceUnlocked(ok) => rpmb.device_state = Unlock
    BY DEF DeviceUnlocked
  <2>2. Unlock # Lock
    BY DEF Unlock, Lock
  <2> QED
    BY <1>1, <2>1, <2>2, Zenon DEF Locked
<1>4. RpmbTypeOK'
  BY <1>1, LoadedType DEF SingleInv, SingleTypeOK, RpmbTypeOK
<1>5. allow' \in BOOLEAN
  BY <1>1, Zenon DEF DeviceUnlocked
<1> QED
  BY <1>1, <1>2, <1>3, <1>4, <1>5 DEF SingleInv, SingleTypeOK, VettedInv

\* Images that are not behind the copy, when it is the record, are vetted.
LEMMA NotBehindIsVetted ==
  ASSUME SingleInv, cache = rpmb, ~Behind(image), image.state = "good" PROVE Vetted
<1> SUFFICES ASSUME NEW k \in Locations PROVE image.index[k] >= rpmb.rollback_index[k]
  BY DEF Vetted, Safe
<1>1. ~(image.index[k] < rpmb.rollback_index[k])
  BY DEF Behind, CachedIndex
<1>2. image.index[k] \in Nat /\ rpmb.rollback_index[k] \in Nat
  BY RecordFields, IndexesAssumption DEF SingleInv, SingleTypeOK, RpmbTypeOK, Images
<1> QED
  BY <1>1, <1>2

\* The slot data is handed out on the record, or on an unlocked device.
LEMMA HandsOutKeeps ==
  ASSUME SingleInv, NEW r \in Verdicts, NEW ok \in BOOLEAN, VerifyHandsOut(r, ok)
  PROVE  SingleInv'
<1>1. /\ stage = "verify" /\ stage' = "accept" /\ CanReport(image, allow, r)
      /\ HandsOut(r, allow) /\ UNCHANGED <<image, allow, loc, rpmb>>
      /\ ret' = r /\ data' = TRUE /\ avb_load_info_from_rpmb(ok)
  BY DEF VerifyHandsOut, avb_load_info_from_rpmb
<1>2. support
  BY <1>1 DEF CanReport, HandsOut, Verdicts
<1>3. cache = rpmb
  BY <1>1, <1>2 DEF SingleInv, VettedInv
<1>4. cache' = rpmb
  BY <1>1, <1>3 DEF avb_load_info_from_rpmb, Loaded
<1>5. Vetted
  <2>1. CASE r = "OK"
    <3>1. image.state = "good" /\ ~Behind(image)
      BY <1>1, <2>1 DEF CanReport
    <3> QED
      BY <1>3, <3>1, NotBehindIsVetted
  <2>2. CASE r # "OK"
    <3>1. allow
      BY <1>1, <2>2 DEF HandsOut
    <3> QED
      BY <1>1, <1>2, <3>1 DEF SingleInv, VettedInv, Vetted
  <2> QED
    BY <2>1, <2>2
<1>6. Vetted'
  BY <1>1, <1>5 DEF Vetted, Locked, Safe
<1>7. RpmbTypeOK'
  BY <1>1, LoadType DEF SingleInv, SingleTypeOK
<1> QED
  BY <1>1, <1>4, <1>6, <1>7 DEF SingleInv, SingleTypeOK, VettedInv

\* In the menu nothing is known of a boot.
LEMMA ForgetKeeps ==
  ASSUME Forget, RpmbTypeOK', image' \in Images, stage' = "menu" PROVE SingleInv'
<1>1. /\ allow' = FALSE /\ ret' = "OK" /\ data' = FALSE /\ loc' = 0
  BY DEF Forget
<1>2. loc' \in 0..NumLocations
  BY <1>1, LocationsAssumption
<1>3. VettedInv'
  BY <1>1 DEF VettedInv
<1> QED
  BY <1>1, <1>2, <1>3 DEF SingleInv, SingleTypeOK, Verdicts

LEMMA FailsKeeps ==
  ASSUME SingleInv, NEW r \in Verdicts \cup {"IO"}, VerifyFails(r) PROVE SingleInv'
<1>1. /\ stage' = "accept" /\ ret' = r /\ data' = FALSE
      /\ UNCHANGED <<rpmb, cache, support, image, allow, loc>>
  BY DEF VerifyFails, rpmbVars
<1> QED
  BY <1>1 DEF SingleInv, SingleTypeOK, RpmbTypeOK, VettedInv

\* Between the verification and the update nothing changes but what a load brings.
LEMMA AcceptKeeps ==
  ASSUME SingleInv,
         \/ AcceptOK \/ AcceptNothing
         \/ \E ok \in BOOLEAN :
              AcceptRejected(ok) \/ StateAllows(ok) \/ StateHalts(ok) \/ UpdateStarts(ok)
  PROVE  SingleInv'
<1>1. /\ stage \in {"accept", "state", "red", "enter"} /\ UNCHANGED <<rpmb, image>>
      /\ stage' \in {"state", "red", "enter", "update", "halted", "menu"}
      /\ stage' # "menu" => UNCHANGED locals
      /\ stage' = "menu" => Forget
      /\ UNCHANGED rpmbVars \/ \E ok \in BOOLEAN : avb_load_info_from_rpmb(ok)
  BY DEF AcceptOK, AcceptNothing, AcceptRejected, StateAllows, StateHalts, UpdateStarts,
         avb_load_info_from_rpmb, rpmbVars
<1>2. RpmbTypeOK'
  <2>1. CASE UNCHANGED rpmbVars
    BY <2>1 DEF rpmbVars, RpmbTypeOK, SingleInv, SingleTypeOK
  <2> QED
    BY <1>1, <2>1, LoadType DEF SingleInv, SingleTypeOK
<1>3. cache = rpmb => cache' = rpmb'
  BY <1>1 DEF rpmbVars, avb_load_info_from_rpmb, Loaded
<1>4. Vetted => Vetted'
  BY <1>1 DEF Vetted, Locked, Safe
<1>5. CASE stage' = "menu"
  BY <1>1, <1>2, <1>5, ForgetKeeps DEF SingleInv, SingleTypeOK
<1>6. CASE stage' # "menu"
  <2>1. UNCHANGED <<allow, ret, data, loc>>
    BY <1>1, <1>6 DEF locals
  <2> QED
    BY <1>1, <1>2, <1>3, <1>4, <1>6, <2>1 DEF SingleInv, SingleTypeOK, VettedInv
<1> QED
  BY <1>5, <1>6

\* The steps of the update that write nothing, and those after it.
LEMMA QuietKeeps ==
  ASSUME SingleInv, UpdateSkips \/ UpdateReadFails \/ UpdateEnds \/ ReadImage
  PROVE  SingleInv'
<1>1. /\ UNCHANGED <<rpmb, cache, support, image, allow, ret, data>>
      /\ stage \in {"update", "read"} /\ stage' \in {"update", "read", "running", "halted"}
      /\ stage' = "update" => stage = "update"
  BY DEF UpdateSkips, UpdateReadFails, UpdateEnds, ReadImage, NextLocation, GiveUpUpdate,
         rpmbVars, locals
<1>2. loc' \in 0..NumLocations
  BY LocationsAssumption
  DEF UpdateSkips, UpdateReadFails, UpdateEnds, ReadImage, NextLocation, GiveUpUpdate,
      locals, SingleInv, SingleTypeOK
<1>3. Vetted => Vetted'
  BY <1>1 DEF Vetted, Locked, Safe
<1> QED
  BY <1>1, <1>2, <1>3 DEF SingleInv, SingleTypeOK, RpmbTypeOK, VettedInv

\* An index is only written to the value of vetted images, and it is the only one the
\* write changes; the update goes on only if the copy read back is the new record.
LEMMA UpdateWriteEffect ==
  ASSUME SingleInv, NEW w \in WriteOutcomes, NEW ok \in BOOLEAN, UpdateWrites(w, ok)
  PROVE  /\ stage = "update" /\ data /\ Vetted /\ RpmbTypeOK'
         /\ rpmb'.device_state = rpmb.device_state
         /\ \A k \in Locations :
              rpmb'.rollback_index[k] \in
                {rpmb.rollback_index[k]} \cup (IF k = loc THEN {image.index[k]} ELSE {})
         /\ stage' = "update" => cache' = rpmb' /\ loc' = loc + 1
         /\ stage' = "read" => loc' = loc
         /\ stage' \in {"update", "read"}
<1> DEFINE new == [cache EXCEPT !.rollback_index[loc] = SlotIndex]
<1>1. /\ stage = "update" /\ loc \in Locations /\ SlotIndex # 0
      /\ CachedIndex(loc) # SlotIndex
  BY LocationsAssumption DEF UpdateWrites, SingleInv, SingleTypeOK, Locations
<1>2. data /\ SlotIndex = image.index[loc]
  BY <1>1 DEF SlotIndex
<1>3. cache = rpmb /\ Vetted
  BY <1>1, <1>2 DEF SingleInv, VettedInv
<1>4. SlotIndex \in Indexes
  BY <1>1, <1>2 DEF SingleInv, SingleTypeOK, Images
<1>5. cache \in UBOOT_RPMB_RAW_DATA
  BY DEF SingleInv, SingleTypeOK, RpmbTypeOK
<1>6. write_rollback_index(cache, loc, SlotIndex, w, ok)
  BY DEF UpdateWrites
<1>7. RpmbTypeOK'
  BY <1>1, <1>4, <1>6, IndexWriteType DEF SingleInv, SingleTypeOK
<1>8. /\ new.device_state = cache.device_state
      /\ \A k \in Locations :
           new.rollback_index[k] = IF k = loc THEN SlotIndex ELSE cache.rollback_index[k]
  BY <1>1, <1>5 DEF UBOOT_RPMB_RAW_DATA
<1>9. /\ rpmb' = IF Written(w) THEN new ELSE rpmb
      /\ cache' = IF Reported(w) THEN Loaded(ok, new, cache) ELSE cache
  BY <1>6, Zenon DEF write_rollback_index
<1> HIDE DEF new
<1>10. rpmb' = rpmb \/ rpmb' = new
  BY <1>9
<1>11. /\ stage' = "update" => loc' = loc + 1 /\ IndexWriteSucceeds(loc, SlotIndex, w)
       /\ stage' = "read" => loc' = loc
       /\ stage' \in {"update", "read"}
  BY <1>1 DEF UpdateWrites, NextLocation, GiveUpUpdate
<1>12. ASSUME stage' = "update" PROVE cache' = rpmb'
  <2>1. Reported(w) /\ cache'.rollback_index[loc] = SlotIndex
    BY <1>11, <1>12 DEF IndexWriteSucceeds
  <2>2. cache' = new
    BY <1>1, <1>9, <2>1 DEF Loaded, CachedIndex
  <2>3. Written(w)
    BY <2>1 DEF Written, Reported
  <2> QED
    BY <1>9, <2>2, <2>3
<1> QED
  BY <1>1, <1>2, <1>3, <1>7, <1>8, <1>10, <1>11, <1>12

LEMMA UpdateKeeps ==
  ASSUME SingleInv, NEW w \in WriteOutcomes, NEW ok \in BOOLEAN, UpdateWrites(w, ok)
  PROVE  SingleInv'
<1>1. /\ stage = "update" /\ data /\ Vetted /\ RpmbTypeOK'
      /\ rpmb'.device_state = rpmb.device_state
      /\ \A k \in Locations :
           rpmb'.rollback_index[k] \in
             {rpmb.rollback_index[k]} \cup (IF k = loc THEN {image.index[k]} ELSE {})
      /\ stage' = "update" => cache' = rpmb' /\ loc' = loc + 1
      /\ stage' = "read" => loc' = loc
      /\ stage' \in {"update", "read"}
  BY UpdateWriteEffect
<1>2. UNCHANGED <<image, allow, ret, data>> /\ loc < NumLocations
  BY DEF UpdateWrites
<1>3. Vetted'
  <2>1. image \in Images
    BY DEF SingleInv, SingleTypeOK
  <2>2. ASSUME Locked, NEW k \in Locations
        PROVE  image.index[k] >= rpmb'.rollback_index[k]
    <3>1. image.index[k] >= rpmb.rollback_index[k]
      BY <1>1, <2>2 DEF Vetted, Safe
    <3>2. image.index[k] \in Nat
      BY <2>1, IndexesAssumption DEF Images
    <3> QED
      BY <1>1, <3>1, <3>2
  <2> QED
    BY <1>1, <1>2, <2>2 DEF Vetted, Safe, Locked
<1>4. loc' \in 0..NumLocations
  BY <1>1, <1>2, LocationsAssumption DEF SingleInv, SingleTypeOK
<1> QED
  BY <1>1, <1>2, <1>3, <1>4 DEF SingleInv, SingleTypeOK, VettedInv

\* Before and after a boot there is nothing to preserve.
LEMMA BetweenKeeps ==
  ASSUME SingleInv,
         \/ \E st \in {Unlock, Lock}, ok0, ok1, ok2 \in BOOLEAN, w \in WriteOutcomes :
              FastbootFlashing(st, ok0, ok1, w, ok2)
         \/ \E im \in Images : Install(im)
         \/ PowerCycle
  PROVE  SingleInv'
<1>1. ASSUME NEW st \in {Unlock, Lock}, NEW ok0 \in BOOLEAN, NEW ok1 \in BOOLEAN,
             NEW ok2 \in BOOLEAN, NEW w \in WriteOutcomes,
             FastbootFlashing(st, ok0, ok1, w, ok2)
      PROVE  SingleInv'
  <2>1. RpmbTypeOK'
    BY <1>1, FlashingType DEF FastbootFlashing, SingleInv, SingleTypeOK
  <2> QED
    BY <1>1, <2>1 DEF FastbootFlashing, locals, SingleInv, SingleTypeOK, VettedInv
<1>2. ASSUME NEW im \in Images, Install(im) PROVE SingleInv'
  BY <1>2 DEF Install, rpmbVars, locals, SingleInv, SingleTypeOK, RpmbTypeOK, VettedInv
<1>3. CASE PowerCycle
  <2>1. /\ stage' = "menu" /\ Forget /\ UNCHANGED <<rpmb, image>>
        /\ cache' = Blank /\ support' = FALSE
    BY <1>3 DEF PowerCycle
  <2>2. RpmbTypeOK'
    BY <2>1, BlankType DEF SingleInv, SingleTypeOK, RpmbTypeOK
  <2> QED
    BY <2>1, <2>2, ForgetKeeps DEF SingleInv, SingleTypeOK
<1> QED
  BY <1>1, <1>2, <1>3

LEMMA SingleStutterKeeps == ASSUME SingleInv, UNCHANGED singleVars PROVE SingleInv'
<1>1. UNCHANGED <<rpmb, cache, support, image, stage, allow, ret, data, loc>>
  BY DEF singleVars, rpmbVars, locals
<1> QED
  BY <1>1, Zenon
  DEF SingleInv, SingleTypeOK, RpmbTypeOK, VettedInv, Vetted, Locked, Safe

LEMMA SingleInvHolds == SingleSpec => []SingleInv
<1>1. SingleInit => SingleInv
  BY SingleInitInv
<1>2. SingleInv /\ [SingleNext]_singleVars => SingleInv'
  BY StartKeeps, HandsOutKeeps, FailsKeeps, AcceptKeeps, QuietKeeps, UpdateKeeps,
     BetweenKeeps, SingleStutterKeeps
  DEF SingleNext
<1> QED
  BY <1>1, <1>2, PTL DEF SingleSpec
-----------------------------------------------------------------------------
(***************************************************************************)
(* What the boot without A/B slots promises                                *)
(***************************************************************************)

\* The variables of the boot, its lock state and its indexes keep their types; the
\* loop of update_stored_rollback_index() stays within its locations.
THEOREM SingleTypeCorrect == SingleSpec => []SingleTypeOK
<1>1. SingleInv => SingleTypeOK
  BY DEF SingleInv
<1> QED
  BY <1>1, SingleInvHolds, PTL

\* Only a write of update_stored_rollback_index() changes the record during the update.
LEMMA OnlyWritesChange ==
  ASSUME SingleNext, stage = "update"
  PROVE  rpmb' = rpmb \/ \E w \in WriteOutcomes, ok \in BOOLEAN : UpdateWrites(w, ok)
  BY DEF SingleNext, StartBoot, VerifyHandsOut, VerifyFails, AcceptOK, AcceptNothing,
    AcceptRejected, StateAllows, StateHalts, UpdateStarts, UpdateSkips, UpdateReadFails,
    UpdateEnds, ReadImage, FastbootFlashing, Install, PowerCycle, rpmbVars

\* When avb_load_boot_image() starts the OS from slot data on a locked device, its images
\* verified and are not behind the record, although each reader of the lock state takes a
\* failed read for "unlocked".
THEOREM LockedDeviceRunsVerified == SingleSpec => LockedRunsVerified
<1> DEFINE A ==
      stage = "read" /\ stage' = "running" /\ data /\ rpmb.device_state = Lock => Safe(image)
<1>1. SingleInv /\ [SingleNext]_singleVars => [A]_singleVars
  BY DEF SingleInv, VettedInv, Vetted, Locked
<1> QED
  BY <1>1, SingleInvHolds, PTL DEF SingleSpec, LockedRunsVerified

\* A write of the update changes the index it is for and nothing else of the record,
\* whatever loads failed before.
THEOREM OneIndexIsWritten == SingleSpec => UpdateTouchesOneIndex
<1> DEFINE A ==
      stage = "update" =>
        /\ rpmb'.device_state = rpmb.device_state
        /\ \A k \in Locations \ {loc} :
             rpmb'.rollback_index[k] = rpmb.rollback_index[k]
<1>1. ASSUME SingleInv, SingleNext PROVE A
  <2> SUFFICES ASSUME stage = "update" PROVE A
    OBVIOUS
  <2>1. CASE rpmb' = rpmb
    BY <2>1
  <2>2. ASSUME NEW w \in WriteOutcomes, NEW ok \in BOOLEAN, UpdateWrites(w, ok) PROVE A
    <3>1. /\ rpmb'.device_state = rpmb.device_state
          /\ \A k \in Locations :
               rpmb'.rollback_index[k] \in
                 {rpmb.rollback_index[k]} \cup (IF k = loc THEN {image.index[k]} ELSE {})
      BY <1>1, <2>2, UpdateWriteEffect
    <3> QED
      BY <3>1
  <2> QED
    BY <1>1, <2>1, <2>2, OnlyWritesChange
<1>2. SingleInv /\ [SingleNext]_singleVars => [A]_singleVars
  BY <1>1, Zenon
<1> QED
  BY <1>2, SingleInvHolds, PTL DEF SingleSpec, UpdateTouchesOneIndex

\* On a locked device the update writes a stored index only upwards, although it writes
\* whenever the index differs.
THEOREM LockedIndexesOnlyRise == SingleSpec => LockedIndexOnlyRises
<1> DEFINE A ==
      stage = "update" /\ rpmb.device_state = Lock =>
        \A k \in Locations : rpmb'.rollback_index[k] >= rpmb.rollback_index[k]
<1>1. ASSUME SingleInv, SingleNext PROVE A
  <2> SUFFICES ASSUME stage = "update", Locked, NEW k \in Locations
               PROVE  rpmb'.rollback_index[k] >= rpmb.rollback_index[k]
    BY DEF Locked
  <2>1. rpmb.rollback_index[k] \in Nat
    BY <1>1, RecordFields DEF SingleInv, SingleTypeOK, RpmbTypeOK
  <2>2. CASE rpmb' = rpmb
    BY <2>1, <2>2
  <2>3. ASSUME NEW w \in WriteOutcomes, NEW ok \in BOOLEAN, UpdateWrites(w, ok)
        PROVE  rpmb'.rollback_index[k] >= rpmb.rollback_index[k]
    <3>1. Vetted /\ rpmb'.rollback_index[k] \in {rpmb.rollback_index[k], image.index[k]}
      BY <1>1, <2>3, UpdateWriteEffect
    <3>2. image.index[k] >= rpmb.rollback_index[k]
      BY <3>1 DEF Vetted, Safe
    <3> QED
      BY <2>1, <3>1, <3>2
  <2> QED
    BY <1>1, <2>2, <2>3, OnlyWritesChange
<1>2. SingleInv /\ [SingleNext]_singleVars => [A]_singleVars
  BY <1>1, Zenon
<1> QED
  BY <1>2, SingleInvHolds, PTL DEF SingleSpec, LockedIndexOnlyRises
=============================================================================
