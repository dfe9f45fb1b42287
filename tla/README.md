# A formal model of the MStar U-Boot boot path

This directory holds TLA+ models of the boot-critical parts of the bootloader in
`src/uboot-mstar/t22/u-boot-2011.06` (a U-Boot 2011.06 with MStar's drivers and
Android Verified Boot) and `src/ufbl-features` (Amazon's bootloader features), the
TLC configurations that check them, and proofs that TLAPS checks.

Below, `U/` stands for `src/uboot-mstar/t22/u-boot-2011.06/` and `F/` for
`src/ufbl-features/features/`.

## 1. The system

### Components, state, operations

| Component | State it keeps | Operations | What makes it correct |
|---|---|---|---|
| **A/B metadata and boot flow**, `U/lib/libavb_ab/avb_ab_flow.c` | 32-byte block with CRC at offset 2048 of *misc*: priority, tries, success per slot | read with repair, write, normalise, `avb_ab_flow`, mark active / unbootable / successful | attempts are bounded, a good slot is not given up, a set-active or a confirmation that was acknowledged lasts (both but for writes that fail unnoticed) |
| **AVB operations and RPMB record**, `U/lib/libavb_ab_uboot/avb_ops_uboot.c`, `avb_rpmb.c` | RPMB block (lock state, 15 rollback indexes), its RAM copy, the flag "last load worked" | load, read/write index, read/write lock state, partition I/O | indexes never fall, a locked device runs only verified images |
| **Boot state check**, `U/common/image-android-sig.c` | none | green / orange / red, index update of the non-A/B build | as above |
| **A/B interface**, `U/lib/libavb_ab_uboot/avb_ab_interface.c` | none | slot queries, set active | the answer agrees with what the boot does |
| **Slot verification**, `U/lib/libavb/avb_slot_verify.c` | none | verdict on one slot | order of its checks |
| **fastboot commands**, `U/common/cmd_fastboot.c`, `download_command.c` | download buffer, lock flags | set_active, getvar, flashing lock/unlock, flash, erase, ... | lock changes keep the indexes |
| **fastboot over UDP**, the same file | expected sequence number, stored answer, bitmap of a download | answer, repeat, store, finish | commands run once, only whole images are flashed |
| **TFTP client**, `U/net/tftp.c`, `net.c` | block numbers, wrap offset, ports, timers | request, option, data, timeout, restart | what is reported loaded is the file |
| **Environment**, `U/common/env_mmc.c` | two copies with CRC on the MPOOL partition | save, relocate (read, choose, repair) | a saved environment survives a power failure or an I/O error |
| **Customer key bank**, `U/MstarApp/src/MsSecureBoot.c` | two copies in the MBOOT image, a flag in the environment | encrypt, repair, load | a usable copy remains, no plain key stays |
| **Rescue environment**, `U/MstarApp/src/MsEnvironment.c` | two more copies | save, restore, relocate | the same as the environment |
| **Bootloader control block**, `F/bcb/bcb.c` | the same misc offset, another format | active slot, decrement retry, set active, info | a chosen slot is active, the boot keeps the block valid |
| **Raw I/O**, `U/MstarApp/src/MsRawIO.c`, `MsMmc.c` | configuration and a stack of saved ones | config, push, pop, read, write | push and pop pair up, a write stays in its range |
| **Shared RPMB block**, `U/lib/libavb_ab_uboot/avb_rpmb.c`, the eMMC RPMB driver, sboot's `ns_uboot_loader.c` | key, write counter, one block with a half for each program | read, authenticated write, anti-rollback check | versions never fall, neither program spoils the other's half |
| **eMMC driver**, `eMMC_prg.c`, `eMMC_hal_v5.c`, `eMMC_RPMB.c` | the recorded area, the card's area | calls on user area, boot partitions, RPMB; repetition after reset | a call works in the area it names |
| **IDME**, `F/idme` | item table in boot partition 2 | get, update, save | an update keeps the other items |
| **Upgrade**, `U/MstarApp/src/MsUpgrade.c`, `CusUpgrade.c` | environment flags, scripts | USB / network / OTA upgrade | an interrupted upgrade is resumed |
| **NAND FTL** | mapping tables | block I/O | - |
| **Unlock, secure boot, secure flashing, lockdown** (`F/`) | keys, flags | certificate and signature checks | cryptographic |
| **Boot sequencing, command loop, board set-up** | - | command lists, hardware set-up | - |

Not every part is in every image. The M7322 configuration kept with sboot
(`src/uboot-mstar/t22/sboot/configs/M7322`, the Amazon one) has the environment in eMMC, fastboot over UDP in the
Amazon variant and over USB, customer and network upgrade, the RPMB key, the non-secure U-Boot
loader with authentication and ARMv8 trusted firmware. It leaves out A/B slots, the secure store in
eMMC, anti-rollback, the second MBOOT and the rescue environment; NAND is not built. Of
ufbl-features, IDME, unlock, secure boot and one-time unlock are on; the control block is off.
The models cover the built parts and the A/B, anti-rollback and control block code beside them.

### How they interact

Everything runs on one CPU and each command runs to its end, so the interleavings
that matter are those with the outside: power failures between any two writes and
inside a write, I/O calls that fail, that report a failure after taking effect or that fail without a word, the
OS, which changes the same metadata and writes the other slot's images while
U-Boot is not running, the user's fastboot commands between boots, and packets that
are lost, repeated and late.

The parts share state in a few places. *misc* holds the A/B block (or the control block of
ufbl-features); RPMB block 0 holds a half each of sboot's anti-rollback and of AVB; the raw I/O
configuration is one for all its callers; the area selected on the eMMC is one for all calls of
the driver; the key bank flag lives in the environment.

The A/B boot goes: `avb_verify_boot_start` loads the RPMB record, calls
`avb_ab_flow` with the lock state as its flag, `avb_ab_flow` reads (and repairs)
the metadata, chooses and verifies slots, raises the rollback indexes, spends a try,
saves the metadata; `check_android_boot_state` reads the lock state again and hands
over or halts.

### Hard behaviours

The lock state is read up to four times in one boot and a failed read means
"unlocked" in `read_is_device_unlocked` but "locked" in fastboot; the metadata load
repairs a bad block by writing a fresh one; a failed load still runs the common exit
of `avb_ab_flow` on locals that were never assigned; RPMB writes rebuild the whole
record from a RAM copy that a failed load leaves as it was; the two environment
copies are written in turn and repaired from each other. `PROJECT.json` lists each
hazard with its line and the properties aimed at it.

## 2. Modules

| Module | Models | Kind |
|---|---|---|
| `AbData` | the A/B metadata and the pure functions on it | operators |
| `Rpmb` | the RPMB record, its RAM copy, every operation on them | state + operations |
| `SlotVerify` | what `avb_slot_verify` may report of an image, given the RPMB state; extends `Rpmb` | operators |
| `AbFlow` | the whole A/B boot, its users, its environment; composes `AbData` and `SlotVerify` | specification |
| `AbPolicy` | what the A/B boot promises, without I/O | abstract specification |
| `SingleSlotBoot` | the boot of the build without A/B slots; composes `SlotVerify` | specification |
| `RpmbBlock` | the RPMB block shared by sboot and U-Boot, down to key, counter and transfers | specification |
| `RpmbRecord` | the record that `Rpmb` takes it for | abstract specification |
| `EmmcArea` | the area on the eMMC that each command works on | specification |
| `RawIo` | the raw I/O configuration, writes down to sectors, the AVB partition operations | specification |
| `EnvMmc` | the two environment copies on the card | specification |
| `KeyBank` | the two copies of the customer key bank | specification |
| `Bcb` | the bootloader control block of ufbl-features | specification |
| `FbUdp` | a fastboot session over UDP, with its host | specification |
| `Tftp` | a TFTP transfer, with its server | specification |
| `MC...` | the instance of each specification for TLC | MC |
| `AbFlowProofs`, `EmmcAreaProofs`, `RawIoProofs`, `EnvMmcProofs`, `KeyBankProofs`, `BcbProofs` | lemmas and theorems about one specification each | proofs |
| `RpmbProofs` | lemmas and theorems about `RpmbBlock` and about `SingleSlotBoot` | proofs |
| `NetProofs` | lemmas and theorems about `FbUdp` and about `Tftp` | proofs |

The layers fit together by what each promises the next: `EmmcArea` that a call works in the
area it names, `RawIo` that a write changes its range and no other, `RpmbBlock` that U-Boot's half
of the block behaves as one record (it implements `RpmbRecord`), `Rpmb` that record as the boot flows
use it, `AbFlow` that the boot with all its I/O implements `AbPolicy`.

### AbData and AbFlow against the code

`AbvABSlotData` is `AvbABSlotData`; magic, version and CRC are one bit: a block
that `avb_ab_data_verify_and_byteswap` refuses is the value `Invalid`. `misc` is that
block. `pc` says where the device is:

| `pc` | code |
|---|---|
| `menu` | U-Boot's shell or fastboot, before the boot |
| `load` | in `load_metadata`, for the caller in `call` |
| `select`, `verify`, `rollback` | `avb_ab_flow` lines 229-246, 252-349, 351-391 |
| `save` | `save_metadata_if_changed`, for the caller in `call` |
| `handoff` | back in `avb_verify_boot_start`, at `check_android_boot_state` |
| `running` | the OS runs from `slot` |
| `halted` | `while (1)` |

`ab_data`, `ab_data_orig`, `slot`, `n`, `allow`, `saw`, `loc`, `ret` are the locals of
`avb_ab_flow` (`loc` is `n` of its second loop; the mark functions share the first two).
`Undefined` is a local that was never assigned: the comparison in
`save_metadata_if_changed` may then go either way and the block written has no magic.
`handoffs` and `lost` are history variables. The results `ERROR_OOM` and `ERROR_IO` are one
value, since every caller treats them alike.

A step ends at each point where power may fail with something on the media
changed, that is at each persistent write. `SaveFails` covers a write that
reports an error having written all, nothing, or an unusable block;
`PowerFailsInSave` a power failure inside it. The block is 32 bytes, so raw I/O writes it as one partial
sector, and a failure of that write is not reported (`MsMmc.c:3378`): `SaveLoses` and `LoadResetLost`
are such writes, after which the call goes on and returns OK. `lost` is true from there to the end of the call.
Acknowledged changes last, and boots are counted, except after such a write: `SetActiveTakesEffect` and `ConfirmSticks` then say
only that the block is the one before or unusable, and `AttemptBudget` does not count that boot, but does count every other. A broken slot
on a card that loses each of these writes is booted for ever.

`image[s]` is what slot s's partitions hold as far as `avb_slot_verify` can tell: its
images verify, fail a hash, signature or key check, or have no usable header, and carry
a rollback index per location. `CanReport` gives the verdicts in the order of its checks,
including the read of the stored index in between, which fails when the last RPMB
load failed. The OS's updater retires the other slot before it writes it; a partition of
either slot may also stop verifying at any time the OS runs.

### Rpmb against the code

`rpmb` is the record, `cache` is `g_uboot_rpmb_raw_data`, `support` is `g_support_rpmb`.
An RPMB transfer is one authenticated 256-byte block, so it is atomic; a write may
report an error although it took effect. `write_rollback_index` and
`write_device_state` write the whole record out of the RAM copy, as in the code, and the
load before them that fails leaves the copy as it was (zero after power on).

### SingleSlotBoot against the code

The build without A/B slots runs the same `avb_verify_boot_start` with its other `#if` branch,
then `check_android_boot_state`, then `update_stored_rollback_index`, which stores the index
of each location in turn. `allow` is the lock state used for the verification, `stage` is where the program is, and the other locals are
named as in `AbFlow`. The lock state is read afresh in the condition that opens the boot branch, in the boot state check
and (with its result overwritten) in the update; each may fail. One step per RPMB write of
the update, since power may fail between two of them. With the images of `SlotVerify`
there are several locations, so that an image can be ahead at one and behind at another, and a
record write that spoilt another location would show.

### EnvMmc against the code

An environment is the number of the `saveenv()` that wrote it. `pc` is where the program is:
off, up, in the repair of a copy (`env_relocate_spec`), in the writes of `saveenv`, or up after memory
ran out and the default environment replaced the one in use. A read ends with the data, with an error
before the data is there, or with an error after it: the code looks at the result of a read only when
both copies are in doubt. A write that fails leaves the old copy, the new one, or a bad one.
`faults` counts the failed and interrupted I/O calls since the copies were last written to the same
content, because that is what the scheme can bear: one. Two faults lose the environment, as
they do with any two copies.

The promises are about saves that reported no error. Two good copies with different contents,
left by a power failure between the two writes, are used (the primary one) but never made equal
again, so what a later fault takes is a save that was never reported as done.

### Bcb against the code

`misc` is the block with its CRC, and a CRC is the content it was computed over, so that a changed block with an
old CRC is what it is in the code: invalid. The three attempts of `retry` are one step with the
outcomes they have together. `decrement_retry()` changes the block and then asks `get_active_slot()` for it, which finds the old CRC and answers that
there is no slot, so that nothing is written: no try is ever counted and no slot made invalid, although the comment at `bcb.c:190` says "run out of retry
count, mark as invalid". `OnlySetActiveStores` states what the code does instead. The caller that boots the slot or asks for another, and the
boot control HAL of the OS, are external: the HAL may write any block whose usable slots have different priorities.

### RpmbBlock against the code

`key`, `counter` and `block` are in the eMMC, which answers each request and is external. `block` has
a half of sboot (`initialized`, `kept`, the versions of the images) and a half of AVB (`avb`). `pc` goes through
sboot (`key`, `check`, `write`, or `halted`) into `uboot`, through the steps of a write (`counter`, `frame`,
`send`, `answer`) and to `os`. Both programs go through `eMMC_RPMB.c`; an authenticated write is accepted with
the counter the eMMC has, and the answer may be lost after the write took effect. `reg` is the register by
which sboot tells U-Boot whether anti-rollback is on. It survives a reset, not a power cut. What is
left out: the resume from STR, which skips the check, and a version the secure world does not report.

`RpmbRecord` is the record the callers of `avb_rpmb.c` take the block for: a write takes
effect at once or not at all, one reported done has, one that failed or was cut may have.
`RecordKept` says that `RpmbBlock` implements it.

### EmmcArea against the code

`card` is the area in EXT_CSD[179], `config` is `u8_partition_config`, what the driver believes. `Program` lists what each call
does, command by command; `pc`, `call`, `step` and `status` (a CMD13 is due) say where it is. A command
that fails is repeated up to the driver's limit, after a reset (`Reset`), in which the card goes back to the user area and the
driver applies the recorded one. `written`, `good`, `source` say which sectors of which area the call touched. The calls on
a boot partition return at once on an error, the RPMB calls go to `LABEL_END`; both forms are as in the code.

### RawIo against the code

`part` is the configured partition, `stack` the saved ones, `disk` the bytes. `Outcomes` is
`raw_write()` with `cmd_write()` below it: a head up to a sector boundary (read, patch, write), the last
partial sector (written before the others, and without a look at the result), the whole sectors between,
of which an error may leave any number written. What begins with the sparse magic is written as an image (`WriteImage`), be it the buffer or the
sector a head was read from: the header's total replaces the number of sectors, and the raw chunks go where the header puts them, each without a
comparison with the total. `Magic` is a byte value that stands for such a beginning, the bytes of an image may be any one value, and `Headers` are the
headers, with a total of at least one sector. The callers modelled here never write or read back such a beginning: the A/B block begins with a NUL byte
and lies on a sector boundary, and RPMB does not go this way. A call is one step: nothing else runs inside it. `last` records the call for the
properties and is left out of the view; no step depends on it, and the properties that use its
value after a step are action properties, which are evaluated on every step.

### KeyBank against the code

A copy of the key bank is its body and its tail with the magic, each plain, encrypted or bad; whether a copy is
plain is judged by the tail alone. `pc` follows `RestoreCustomerKeyBank()` and the loading after it, a step per write. Media
differ in how a write tears: a page of SPI flash is erased first, a card is written sector by sector, so that a torn copy
may keep its old tail under a new or partly new body (`mixed`). On SPI flash each copy is taken to have pages of its own, which the code
does not check: copies that shared one could be lost together. `wfaults` and `rfaults` count failed writes
and reads since both copies were good.

### FbUdp against the code

The device is `fb_expected_seq`, `fb_packet` (the answer to repeat) and the download (`downloading`, `receive_bitmap`,
`received`); `mem` says whose packet lies at each place, `log` which commands were run.
The host is external and does what the device's answers call for: query, init, download, data packets of which every
`kBarrierNum`-th is acknowledged, flash. `toDevice` is a set: what was ever sent may arrive again at any time; an
answer may be lost or read late. A host may be started again in the middle (`sess`), and a query may come late.

### Tftp against the code

The variables of `net/tftp.c` keep their names; a step is a packet handled, a timeout, or a step of the server,
which is external and follows RFC 1350: one transfer per request, one block at a time, a block repeated when it is not
acknowledged. A new attempt takes any of `Ports`, since the code takes 1024 + time modulo 3072, so a port may come again; `CONFIG_TFTP_PORT`, with which it may be fixed,
is not set in this build, and is the case of one port. `used` and `repeated` record it. A late block 1 of the earlier attempt can then be accepted before the new one has
agreed on the size of blocks (`blind`), and a wrong file reported as loaded: `Intact` leaves that case out. `ram` records which byte of the file lies at each place. Block numbers wrap at `TFTP_SEQUENCE_SIZE`.
`hurried` marks a timeout with packets still on their way.

### AbPolicy

Slots have a status; a boot *charges* a slot, possibly after giving up the preferred
one, and only a charged slot runs; the metadata may be lost, which starts both slots
afresh. One step is a concession to the storage: `ChargeLost`, a charge that is believed stored and is not, after
which the slot runs (`dropped`). `ImplementsPolicy` says that `AbFlow` with all its I/O, under the mapping in
`AbFlow` (`Policy`), does nothing else.

## 3. Runs

| Run | Bounds | Shows |
|---|---|---|
| `ab_flow` | 2 priorities, 1 try, 1 location, indexes 0 to 2, class B | legal metadata, queries agree, set-active and confirm last unless a write failed unnoticed, locked devices run verified images, indexes only rise, good slots survive |
| `ab_liveness` | 2 tries, one index, class A | stored attempts within the budget, `AbPolicy` implemented, a confirmed good slot comes back to a running OS |
| `single_boot` | 3 locations, indexes 0..2, class B | locked devices run verified images, a failed update spoils no other index, indexes only rise |
| `single_unlocked` | 1 location | violation: "should not to update rollback index" when unlocked |
| `rpmb_block` | 2 images, versions 0 and 1, 2 records, 3 writes | versions never fall, what runs is what is kept, the register tells the truth, `RpmbRecord` implemented |
| `emmc_area` | 2 boot partitions, 2 sectors, 2 repetitions | calls work in their area, acknowledged writes are there, calls end |
| `rawio` | partitions of 2 and 1 sectors of 2 bytes, 2 values (one the magic), 3 image headers, stack of 2 | plain writes stay in their range and images in their partition, callers get their configuration back, success means written but for a last partial sector |
| `env_copies` | 4 saves, 3 faults at a time | one fault never costs a reported save, a boot comes up with it |
| `keybank` | both media, 2 faults of each kind | one fault leaves a usable copy, no plain key stays, a clean boot repairs |
| `bcb` | 3 priorities, 3 tries | only set-active changes the block, the block stays valid |
| `fb_udp` | 5 packets, barrier every 3, 1 disturbance | commands once, whole images only, data and commands not confused, sessions end |
| `tftp` | numbers modulo 3, blocks of 2 without and 3 with the option, files of 4 and 9, 3 attempts, 2 ports, 1 loss, 1 repetition | what is reported loaded is the file, and it arrives |

Why the bounds are enough. *A/B*: the code compares priorities with 0, with the maximum and with each other, and
treats locations one after the other with no interaction but the shared record, which `single_boot` has
three of. Two slots are fixed in the code. With three index values an image is behind, equal to or ahead of the stored one with neither of them zero, which the code skips, so that a
stored index could be lowered; the view hides only `handoffs`, on which no step depends; two tries, in
`ab_liveness`, let a slot be charged, survive and be charged again, and tell the last try from one before it. The two runs divide the
properties because their product is out of reach of one run. *Record*: three counter values allow a write of each program and one
more at the limit. *Area*: two repetitions let a reset hit a command, its repetition and the command after it. *Raw I/O*: with two bytes
a sector and up to five bytes a write there is every combination of head, whole sectors and tail, at
either end of either partition; the headers are an image of one sector, one of two with a hole, and one with more chunks than its total says. *Environment*: four saves give two acknowledged ones with an unacknowledged one before and
between them; three faults are two more than the copies survive, so the run goes on beyond the loss. *Key bank*: likewise with
two. *Control block*: three priorities are the two of the default metadata and one the OS may give below them. *UDP*: five
packets with a barrier every three have a full group, a short one and a last packet that is a barrier of its own. *TFTP*: nine units
in blocks of three are four blocks, one more than there are numbers before zero comes again, and the last one is empty; four units are two blocks. A client that has not
seen the options yet takes the blocks to be of two. With three attempts and two ports an attempt may repeat the port of
the one before or of the first; the first has port 1, since ports are alike.

A property is left out of a run where a theorem states it for all instances and the
run would only repeat it: the type invariants of `AbFlow`, `SingleSlotBoot`, `RpmbBlock`, `EmmcArea`, `RawIo`, `EnvMmc` and `Bcb`,
`HalvesKept` and `RpmbReleased`. `FbUdp` and `Tftp` have theirs in their runs.

### Fairness

* `AbFlow`: `Progress` (weak): U-Boot is a sequential program that keeps executing, and a halted device is switched
  off and on at last. `TransientFaults` (strong, on each step of a boot that has seen no error so far): I/O errors and
  power failures are not permanent; when the step is tried over and over, it works at some try. Nothing is assumed of the OS, the user or the updater.
* `EmmcArea`: a call that has begun goes on (weak, `Work`): the driver polls with time limits. Nothing is assumed of what
  the card answers.
* `FbUdp`: the host repeats its packets, so that one of them is answered in the end, and reads the answers (weak). Which
  answer is lost is not restricted otherwise.
* `Tftp`: `NetLoop()` polls the controller and the timer, and the server answers (weak). Losses are finite by the bound
  `MaxLost`.

### Hazards without a property

Eight hazards of `PROJECT.json` name no property; a note at each says why. For six the code goes wrong and the models have the step, so a property
could only state the failure or leave it out: the lock state rebuilt from a copy that was not loaded, entries left on the raw I/O stack, CMD13 repeated after
a switch, the address compared with a count, a read of the key bank that failed, a block 0 repeated. For the answer of UDP that is overwritten and the A/B flow's unassigned
locals the effect is that of another fault, a lost answer or an unusable block.

### Where the code departs from what one would expect

Met while modelling. The models contain all of these; where a property would fail because of one, its comment says which case it leaves out.

* The stored index follows the slot that booted, not only upwards (`avb_ab_flow.c:373`); raising it can leave the other slot refused (`:379`).
* Confirming an unbootable slot reports success and stores nothing of it (`avb_ab_flow.c:516`).
* Changing the lock state after a failed load rebuilds the record from a RAM copy that was not loaded (`avb_ops_uboot.c:525`).
* The branch that boots and the flag for the verification are two reads of the lock state (`avb_ops_uboot.c:760`).
* A read or write beyond the end of a partition is reported as a success, and one that crosses it is cut (`avb_ops_uboot.c:191`, `:278`).
* Early returns leave an entry on the raw I/O stack (`avb_ops_uboot.c:162`); the last partial sector is written without a look at the result (`MsMmc.c:3378`), so an A/B change may be acknowledged and not stored.
* Whatever begins with the sparse magic is written as an image, for which only the header's total is compared with the partition (`MsMmc.c:3355`, `:3391`).
* The write counter is unsigned, so the test for a negative one never fails (`avb_rpmb.c:268`).
* On an unlocked device the update stores indexes, against its comment (`image-android-sig.c:302`, run `single_unlocked`).
* The lock command wipes user data and locks whatever the results are (`cmd_fastboot.c:1198`).
* A late query overwrites the answer that is to be repeated (`cmd_fastboot.c:2580`): the host may then wait for ever.
* A failed read of the key bank is encrypted and written over both copies (`MsSecureBoot.c:1220`); on a card a torn backup may look plain (`:1294`).
* A TFTP port may repeat (`tftp.c:706`), and a late block of the earlier attempt make a wrong file that is reported as loaded. A repeated block 0 is taken for another wrap (`tftp.c:434`); a restart sets the timeout count back (`tftp.c:602`, `:703`).
* A retry spent in the control block is never stored: the block is judged by the CRC it had before (`bcb.c:194`), against the comment that a slot out of retries is made invalid (`bcb.c:190`). `fill_info()` runs to the stored `nb_slot`, not the bounded one (`bcb.c:170`).
* A repeated CMD13 after a switch finds the card back in the old area, and the driver records the new one (`eMMC_hal_v5.c:2022`). Error returns of boot partition calls leave it selected (`eMMC_prg.c:387`), and its verification compares an address with a count (`eMMC_prg.c:401`).
* Erasing without TRIM works in units of the erase size (`eMMC_prg.c:1725`).
* Two good environment copies that differ are never made equal (`env_mmc.c:388`); without memory the environment in use is replaced by the default one (`env_mmc.c:208`).

## 4. Proofs

All theorems hold for every value of the constants that satisfies the named `ASSUME`s of the modules.

`AbFlowProofs` begins with what the metadata functions of `AbData` and the operations of `Rpmb` return and preserve. Then,
each from an invariant that uses the ones before it:

* `TypeCorrect` and `AttemptBudgetHolds`. The arithmetic that could leave its type is the decrement
  of the tries, and the history counter, which is bounded only because of the budget, so the two are one induction.
  `IInv == TypeOK /\ CallInv /\ BudgetInv`: `CallInv` says when the locals are assigned and how the copy on its way to the
  partition relates to the block there; `BudgetInv` extends the budget from the block to that copy, and counts the try that a
  finished boot has already spent.
* `PrioritiesStayDistinct` and `QueryAgrees` from `LegalInv`, that block and copy are legal metadata;
  `SlotsStayRetired` from `RevivalInv`, that the copy revives no slot the block has retired.
* `LockedDeviceBootsVerified` and `IndexesOnlyRise` from `LockInv`, that what the verification has seen of the RAM copy of
  the record is still true of the record when the OS starts.
* `ActivationTakesEffect` and `ConfirmationSticks` from `CopyInv`, which says exactly what the copy is: the block as it was read,
  normalised, with the edit of the mark function, or with slots rejected and one charged; if a write was lost before, the block is still unusable.
* `BootKeepsFitSlots` from `KeepInv`, that a boot changes a bootable slot only after its images were rejected. It leans on
  `CopyRises`: what was behind the RAM copy of the record when it was rejected is still behind it when the metadata are saved.
* `FlowImplementsPolicy`, that `AbFlow` implements `AbPolicy`. The metadata of the policy are the block as the next reader
  will normalise it, so every step but a save, a hand-over, a start of the OS and a power failure is a stutter. For a save, `CopyInv` names the
  step of the policy (`Charge`, `GiveUp`, `Activate`, `Retire`, `Confirm`), and `ResetInv` covers the save of a boot that read no block, its
  `Lose`.

`RpmbProofs`, `RpmbBlock`: the versions (`VersionsNeverFall`, `KeptVersionsAreLoaded`), the register (`RegisterAgrees`), the halves
(`HalvesAreKept`) and the refinement (`RecordRefinement`: the initial state and every step map to `RpmbRecord`). The invariant adds that
what is about to be written is the block last read with one half replaced (`WriteHalf`, `SendHalf`) and that
U-Boot runs only on an eMMC that has its key (`HasKey`).

`RpmbProofs`, `SingleSlotBoot`: `LockedDeviceRunsVerified`, `OneIndexIsWritten` and `LockedIndexesOnlyRise`, for any indexes and
any number of locations. All three are about one step, and none follows from that step alone. The invariant `SingleInv`
adds `VettedInv` to the types: during the verification the RAM copy is the record if it was read at all, and errors are
allowed only for a device that is unlocked or was not read; from the moment the slot data is handed out, the copy is the record, and
the image of a locked device is good and not behind it (`Vetted`). A boot that could not read the record gets no slot data, so a lock state
that failed reads take for "unlocked" starts no image. `Vetted` outlives the update, which raises an index at most to that of the image, and
its last write, which may take effect unreported.

`EmmcAreaProofs`: `ResetsAreHarmless`, `BootWritesAreThere`, `RpmbWritesAreThere`, `RpmbIsReleased`. The core of the
invariant is `Agree`: card and record agree except between a switch and its CMD13. A reset brings them together again, which is
harmless outside that gap, and the invariant for writes says which sectors are good once each step of the call is done.

`RawIoProofs`: `WritesStayInRange`, `CallerKeeps`, `SuccessMeansWritten`, for sectors of any size and headers of any images. A write is described once as a change of the bytes from lo to hi
(`Change`, `Holds`), each part has its lemma (`HeadWrites`, `TailWrites`, `BulkWrites`, `RestWrites`), and the sector arithmetic is in four lemmas at the top.

`EnvMmcProofs`: `SavedSurvives` and `BootsSaved`, for any number of saves and faults. `IInv` adds that a usable copy is never
older than the last reported save, that there are no more bad copies than faults, that a repair copies something
recent, and that the second write of a save with a clean first one finds its content in the primary copy.

`KeyBankProofs`: `KeysSurvive`, `UsedKeysAreEncrypted` and `OneFaultIsRepaired`, on both kinds of flash. `IInv` has two parts beside the types.
`PlainInv` holds after any number of failed writes: only the magic of a copy can be left plain. `RepairInv` holds after at most one
and says which copy counts: until the bank is encrypted the backup, which is plain then (`FromBackup`), and from then on the bank (`FromBank`).

`BcbProofs`: `TriesAreNotStored` and `BlockStaysValid`; both rest on the lemma `PolicyWritesNothing`: the block that `decrement_retry()` has changed does not have its CRC any more. The types
are inductive by themselves.

`NetProofs`, `FbUdp`: `TypeCorrect` needs that the byte count is the size of the packets marked in the bitmap; otherwise it could pass the total.
`EachCommandOnce`, `NothingIsMistaken` and `FlashIsWhole` are one induction over the protocol:

* `SeqInv`: the device is never behind a packet that was sent, and at most one step ahead of the host; the packets with the number it
  waits for are those the host waits on.
* `PhaseInv`: from the host's step and whether its packet was taken follows where the download is, which sessions' data are
  in memory, and that a packet the device would take next is one it waits for.
* `LogInv`: a command has one number in its session, and the device is past the numbers of the commands it ran.

These three need the hypothesis `[]Unwrapped`, that the sequence numbers have not come round, and could not do without it: a packet that
is 65536 numbers late looks like the next one, and nothing in the code tells them apart. `NumbersSuffice` says when the hypothesis holds:
`BudgetInv` counts the numbers a session may still use, no more than two for each packet and five for its other steps even if every packet has to
be asked for again, and `WindowInv` that the device asks only for packets that are missing. It covers all sessions together with up to
some 32000 packets. A bigger download whose packets arrive stays within the numbers too, since only every `kBarrierNum`-th packet
takes one; with very many missing it may not, and then nothing is proved.

`NetProofs`, `Tftp`: `TftpTypeCorrect` and `FilesAreIntact`, for files and blocks of any length, any count of block numbers but one, any set of ports, and any
number of attempts and of packets lost, late or repeated. Nothing in a data packet says which file or which wrap it belongs to, so the
invariant has to say what is on its way:

* `PacketsInv`: a packet to the client is an error or comes from the transfer that serves its port, which has sent that block; an
  acknowledgement comes from the port its transfer serves. The ports in use are those of the attempts so far (`used`).
* `BlockSizeInv`: as long as no port has been repeated, data reach only a client that knows the size of the blocks (`SizeKnown`), so that nothing is
  taken blindly; and a client that took no first block blindly and has begun a transfer knows the size, on whatever port. With options a transfer starts with block 0, the granted options,
  and goes on only when they have been acknowledged.
* `PrefixInv`: a transfer has sent a block only when the client has all the blocks before it. The blocks of an earlier
  attempt stay in memory, and are the same.
* `NumberInv` is for files whose blocks are fewer than the numbers: a number tells the block, in an acknowledgement as in the
  client's variables, and no wrap is counted. It bears any repetition, of ports too unless a block is taken blindly.
* `TurnInv` is for files that wrap, and holds while no packet and no port has been repeated: an attempt has one transfer, of its last packet and the
  acknowledgement of it at most one is on its way, and the client's wraps are those of the block it has (`Got`). A restart leaves
  the count of wraps as it was, and the first block, which has to be number 1, clears it.

`StoreRight` and `NextWrap` are the arithmetic of `store_block()`: with the wraps counted right, a block goes to where it begins in the file.
`Intact` leaves out the files that wrap while packets or ports are repeated and the block 1 taken blindly on a repeated port, for which the code gives no guarantee
(`tftp.c:434`, `:706`).

Only model-checked: the liveness properties (`ConfirmedSlotBoots`, `CallEnds`, `SessionEnds`, `FileArrives`), which are out of
the prover's reach, and `UnlockedKeepsIndexes`, which the code violates.

## 5. Not modelled

* The cryptography, formats and strings: keys, hashes, descriptors, boot arguments, TEE binding, certificates of the unlock commands.
* Images built with verification disabled (`AVB_VBMETA_IMAGE_FLAGS_VERIFICATION_DISABLED`), and
  the CONFIG_AVB_DEBUG commands.
* IDME: the migration between table versions and the I/O errors `idme_platform_mstar.c` drops. The writes below it are in `EmmcArea`.
* The rescue environment, which is off in this board's configuration and repeats the scheme of `EnvMmc`.
* In ufbl-features: a control block with more than two slots.
* fastboot over USB, the image formats of flashing, and `EraseUserData`, whose result is ignored and which touches
  *misc* only at offset 0. The TFTP server mode, ARP and the other protocols of `NetLoop()`.
* Builds without RPMB, where the lock state is in the environment; the RPMB commands of `MsMmc.c`.
* In the eMMC driver: erase loops, bus modes and tuning, ADMA, HPI; in sboot: hardware set-up, decryption, loading, resume from STR.
* Upgrade scripts and image parsing; the NAND translation layer, which this board does not build.
* The rest of the tree: display, tuner, audio and other drivers, file systems, stock U-Boot commands and headers. They are most of its lines,
  which is why the map covers so little of the whole.

## 6. Plan

1. `Idme`: the item store over boot partition 2, with the I/O errors its platform layer drops.
2. An abstract store for two copies (a register that a fault may not roll back behind an acknowledged save)
   that `EnvMmc` and `KeyBank` implement while they meet one fault at a time.
3. `EnvRescue`: the rescue copies composed with `EnvMmc`.
