------------------------------- MODULE KeyBank -------------------------------
(***************************************************************************)
(* The customer key bank, MsSecureBoot.c: two copies in the MBOOT image,   *)
(* delivered in plain text, which RestoreCustomerKeyBank() encrypts at     *)
(* boot with the key of the device and repairs from one another, a flag    *)
(* in the environment telling that both are written.  Whether a copy is    *)
(* plain is judged by the magic at its end alone.                          *)
(*                                                                         *)
(* A copy is its body and the tail with the magic.  A part holds the       *)
(* "plain" data, the "cipher" text of it, or anything else ("bad"), the    *)
(* result of encrypting twice included.  This is the mode in which U-Boot  *)
(* encrypts by itself (IsHouseKeepingBootingMode()), with one MBOOT.       *)
(***************************************************************************)
EXTENDS Naturals

CONSTANTS
  Media,      \* where MBOOT may be: "spi" (erased and written by pages) or
              \* "mmc" (written sector by sector)
  MaxFaults   \* bound: failed reads, and failed writes, since the copies were
              \* last both good

ASSUME MediaAssumption == Media \subseteq {"spi", "mmc"}
ASSUME FaultsAssumption == MaxFaults \in Nat

VARIABLES
  medium,   \* one of Media
  copies,   \* the key bank and its backup, each [body, tail]
  flag,     \* ENV_KEYBANK_DONE in the stored environment is "1"
  pc,       \* where the boot is
  buf,      \* tempDRAMAddr
  wfaults,  \* history: failed or interrupted writes since a boot last came
            \* up with two good copies, or both were delivered anew
  rfaults,  \* history: failed reads, likewise
  quiet,    \* history: no I/O call failed in this boot
  mixed     \* history: a torn backup kept its plain tail under another body

vars == <<medium, copies, flag, pc, buf, wfaults, rfaults, quiet, mixed>>
faultVars == <<wfaults, rfaults, quiet>>

Copies == {"bank", "backup"}

\* A copy with its body and its tail in the same state.
Same(t) == [body |-> t, tail |-> t]
Garbage == Same("bad")

\* A new device: MBOOT with the plain key bank, an empty environment.
Init ==
  /\ copies = [c \in Copies |-> Same("plain")]
  /\ flag = FALSE
  /\ pc = "off"
  /\ buf = Garbage
  /\ wfaults = 0 /\ rfaults = 0 /\ quiet = TRUE
  /\ medium \in Media /\ mixed = FALSE

\* An already encrypted part is encrypted once more.
Encrypted(b) ==
  [p \in {"body", "tail"} |-> IF b[p] = "plain" THEN "cipher" ELSE "bad"]

\* isCustomerKeyBankCipher() looks at the magic.
LooksCipher(b) == b.tail # "plain"

\* isCustomerKeyBankValid() after the decryption: the signature spans both.
Valid(b) == b = Same("cipher")

Usable(b) == Valid(b) \/ b = Same("plain")

\* k reads or writes fail.
CountReads(k) ==
  /\ rfaults + k <= MaxFaults
  /\ rfaults' = rfaults + k /\ quiet' = (quiet /\ k = 0)
  /\ UNCHANGED wfaults

CountWrites(k) ==
  /\ wfaults + k <= MaxFaults
  /\ wfaults' = wfaults + k /\ quiet' = (quiet /\ k = 0)
  /\ UNCHANGED rfaults
-----------------------------------------------------------------------------
(***************************************************************************)
(* raw_read() and raw_write()                                              *)
(***************************************************************************)

\* What the buffer holds after a failed read of a copy.
AfterFailedRead(b, c) == {b, copies[c], Garbage}

\* The buffers one unchecked read may leave, with the number of faults.
Read(b, c) ==
  {[buf |-> copies[c], fails |-> 0]}
  \cup {[buf |-> x, fails |-> 1] : x \in AfterFailedRead(b, c)}

\* What an interrupted write leaves of the old content x of a copy.  SPI
\* flash is erased by the page before it is written, a card overwrites one
\* sector after the other.
Torn(x, y) ==
  {x, y} \cup IF medium = "spi"
              THEN {Garbage, [body |-> y.body, tail |-> "bad"]}
              ELSE {[body |-> y.body, tail |-> x.tail],
                    [body |-> "bad", tail |-> x.tail]}

Mixed(x) == x.tail = "plain" /\ x.body # "plain"
Put(c, y) ==
  /\ copies' = [copies EXCEPT ![c] = y]
  /\ mixed' = (mixed \/ (c = "backup" /\ Mixed(y)))

\* One raw_write() of the buffer to copy c: it works and the boot goes on at
\* next, it reports an error and the boot stops, or power fails.
WriteCopy(c, next) ==
  \/ /\ Put(c, buf) /\ CountWrites(0) /\ pc' = next
  \/ /\ \E y \in Torn(copies[c], buf) : Put(c, y)
     /\ CountWrites(1)
     /\ pc' \in {"console", "off"}
-----------------------------------------------------------------------------
(***************************************************************************)
(* RestoreCustomerKeyBank()                                                *)
(***************************************************************************)

PowerOn ==
  /\ pc = "off"
  /\ pc' = "inspect" /\ buf' = Garbage /\ quiet' = TRUE
  /\ UNCHANGED <<medium, copies, flag, wfaults, rfaults, mixed>>

\* Mutants: both copies have to look plain; only the first one is looked at.
MustEncrypt_Both(r1, r2) == ~LooksCipher(r1) /\ ~LooksCipher(r2)
MustEncrypt_First(r1, r2) == ~LooksCipher(r1)

MustEncrypt(r1, r2) == ~LooksCipher(r1) \/ ~LooksCipher(r2)

\* Mutant: a missing flag is not looked at.
AfterInspection_NoRestore(r1, r2) ==
  IF MustEncrypt(r1, r2) THEN "clear" ELSE IF flag THEN "load" ELSE "set"

AfterInspection(r1, r2) ==
  IF MustEncrypt(r1, r2) THEN "clear" ELSE IF flag THEN "load" ELSE "copy"

\* Both copies are read into the same buffer, the backup last; the results
\* of the reads are not looked at.
Inspect ==
  /\ pc = "inspect"
  /\ \E r1 \in Read(buf, "bank") : \E r2 \in Read(r1.buf, "backup") :
       /\ buf' = r2.buf
       /\ CountReads(r1.fails + r2.fails)
       /\ pc' = AfterInspection(r1.buf, r2.buf)
  /\ UNCHANGED <<medium, copies, flag, mixed>>

\* clearKeyBankProcessStatus(): setenv and saveenv, the result is ignored.
Clear ==
  /\ pc = "clear"
  /\ UNCHANGED <<medium, copies, buf, mixed>>
  /\ \/ flag' = FALSE /\ CountWrites(0)
     \/ flag' \in {flag, FALSE} /\ CountWrites(1)
  /\ pc' = "encrypt"

\* _EncryptCustomerKeyBank(): whatever is in the buffer.
Encrypt ==
  /\ pc = "encrypt"
  /\ buf' = Encrypted(buf)
  /\ pc' = "bank"
  /\ UNCHANGED <<medium, copies, flag, faultVars, mixed>>

WriteBank ==
  /\ pc = "bank"
  /\ WriteCopy("bank", "backup")
  /\ UNCHANGED <<medium, flag, buf>>

WriteBackup ==
  /\ pc = "backup"
  /\ WriteCopy("backup", "recheck")
  /\ UNCHANGED <<medium, flag, buf>>

\* A copy that still looks plain forbids the boot.
Recheck ==
  /\ pc = "recheck"
  /\ \E r1 \in Read(buf, "bank") : \E r2 \in Read(r1.buf, "backup") :
       /\ buf' = r2.buf
       /\ CountReads(r1.fails + r2.fails)
       /\ pc' = IF LooksCipher(r1.buf) /\ LooksCipher(r2.buf) THEN "set" ELSE "console"
  /\ UNCHANGED <<medium, copies, flag, mixed>>

\* copyKeyBank() from the bank to its backup, the result of the read checked.
Copy ==
  /\ pc = "copy"
  /\ \/ buf' = copies["bank"] /\ CountReads(0) /\ pc' = "restore"
     \/ buf' \in AfterFailedRead(buf, "bank") /\ CountReads(1) /\ pc' = "console"
  /\ UNCHANGED <<medium, copies, flag, mixed>>

Restore ==
  /\ pc = "restore"
  /\ WriteCopy("backup", "set")
  /\ UNCHANGED <<medium, flag, buf>>

\* setKeyBankProcessStatusDone(): env_mmc.c reports success for failed writes,
\* an error comes from the rest of the command.
SetDone ==
  /\ pc = "set"
  /\ UNCHANGED <<medium, copies, buf, mixed>>
  /\ \/ flag' = TRUE /\ CountWrites(0) /\ pc' = "load"
     \/ flag' \in {flag, TRUE} /\ CountWrites(1) /\ pc' \in {"load", "console", "off"}

\* _LoadCustomerKeyBank() ignores a failed read, the signature decides.
Load ==
  /\ pc = "load"
  /\ \E r \in Read(buf, "bank") :
       /\ buf' = r.buf
       /\ pc' = IF Valid(r.buf) THEN "up" ELSE "console"
       /\ IF pc' = "up" /\ \A c \in Copies : Valid(copies[c])
          THEN /\ wfaults' = 0 /\ rfaults' = 0 /\ mixed' = FALSE
               /\ quiet' = (quiet /\ r.fails = 0)
          ELSE CountReads(r.fails) /\ UNCHANGED mixed
  /\ UNCHANGED <<medium, copies, flag>>

\* Power fails outside a write, or somebody restarts the device.
PowerOff ==
  /\ pc # "off"
  /\ pc' = "off"
  /\ UNCHANGED <<medium, copies, flag, buf, faultVars, mixed>>

\* An update writes an MBOOT image with a plain key bank; the environment
\* keeps its flag.
Reflash ==
  /\ pc = "up"
  /\ copies' = [c \in Copies |-> Same("plain")]
  /\ wfaults' = 0 /\ rfaults' = 0 /\ mixed' = FALSE
  /\ UNCHANGED <<medium, flag, pc, buf, quiet>>

Next ==
  \/ PowerOn \/ Inspect
  \/ Clear \/ Encrypt \/ WriteBank \/ WriteBackup \/ Recheck
  \/ Copy \/ Restore
  \/ SetDone \/ Load
  \/ PowerOff \/ Reflash

Spec == Init /\ [][Next]_vars
-----------------------------------------------------------------------------
(***************************************************************************)
(* Properties                                                              *)
(***************************************************************************)

\* One failed or interrupted write, at any point of the encryption and of the
\* repair of the copies, leaves a usable copy of the key bank.  A card can tear
\* the backup so that it looks plain and is not, and then the next boot encrypts
\* it a second time over the good copy: that case is left out, and no other.
KeysSurviveOneFault ==
  wfaults <= 1 /\ rfaults = 0 /\ ~mixed => \E c \in Copies : Usable(copies[c])

\* A boot that goes on has left no readable key behind: every part of both
\* copies is encrypted, whatever writes failed before.
NoPlainKeysInUse ==
  pc = "up" /\ rfaults = 0 /\ copies # [c \in Copies |-> Same("plain")]
    => \A c \in Copies : copies[c].body # "plain" /\ copies[c].tail # "plain"

\* A boot in which no I/O call fails gets over one earlier fault: it does not
\* end in the console, and it comes up with two good copies.
BootRepairs ==
  wfaults <= 1 /\ rfaults = 0 /\ quiet /\ ~mixed =>
    /\ pc # "console"
    /\ pc = "load" => \A c \in Copies : Valid(copies[c])
=============================================================================
