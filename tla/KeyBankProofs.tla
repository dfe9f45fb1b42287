---------------------------- MODULE KeyBankProofs ----------------------------
(***************************************************************************)
(* Proofs about the customer key bank, for every number of faults and      *)
(* either medium.                                                          *)
(***************************************************************************)
EXTENDS KeyBank, TLAPS
-----------------------------------------------------------------------------
(***************************************************************************)
(* The inductive invariant                                                 *)
(***************************************************************************)

Parts == {"plain", "cipher", "bad"}
CopyStates == [body : Parts, tail : Parts]

P == Same("plain")
C == Same("cipher")

TypeInv ==
  /\ medium \in Media
  /\ copies \in [Copies -> CopyStates]
  /\ flag \in BOOLEAN
  /\ pc \in {"off", "inspect", "clear", "encrypt", "bank", "backup", "recheck",
             "copy", "restore", "set", "load", "up", "console"}
  /\ buf \in CopyStates
  /\ wfaults \in Nat /\ rfaults \in Nat
  /\ quiet \in BOOLEAN /\ mixed \in BOOLEAN

NoPlain(b) == b.body # "plain" /\ b.tail # "plain"

\* As long as no read failed, only the magic of a copy can be left plain, and a
\* boot that takes both copies for cipher text is right.
PlainInv ==
  /\ pc \in {"bank", "backup"} => NoPlain(buf)
  /\ rfaults = 0 =>
       /\ \A c \in Copies : copies[c].tail # "plain" => NoPlain(copies[c])
       /\ pc = "restore" => buf = copies["bank"]
       /\ pc \in {"copy", "restore", "set", "load"} => \A c \in Copies : NoPlain(copies[c])
       /\ pc = "up" => \/ \A c \in Copies : copies[c] = P
                       \/ \A c \in Copies : NoPlain(copies[c])

\* At most one write failed and the repair can rely on what the copies look like.
Repairable == wfaults <= 1 /\ rfaults = 0 /\ ~mixed

\* The backup is the plain one until the bank is encrypted, and from then on it is
\* the bank that counts.
FromBackup == copies["backup"] = P /\ (wfaults = 0 => copies["bank"] \in {P, C})
FromBank == copies["bank"] = C /\ LooksCipher(copies["backup"])
            /\ (copies["backup"] = C \/ (wfaults = 1 /\ ~flag))
BothDone == \A c \in Copies : copies[c] = C

RepairInv ==
  Repairable =>
    /\ FromBackup \/ FromBank
    /\ pc \in {"clear", "encrypt"} => FromBackup /\ buf = P
    /\ pc \in {"bank", "backup"} => FromBackup /\ buf = C
    /\ pc = "backup" => copies["bank"] = C
    /\ pc \in {"encrypt", "bank", "backup"} /\ wfaults = 0 => ~flag
    /\ pc \in {"copy", "restore"} => FromBank /\ ~flag
    /\ pc \in {"recheck", "set", "load"} => BothDone
    /\ pc = "up" => BothDone \/ \A c \in Copies : copies[c] = P
    /\ quiet => pc # "console"

IInv == TypeInv /\ PlainInv /\ RepairInv
-----------------------------------------------------------------------------
(***************************************************************************)
(* The operators on copies                                                 *)
(***************************************************************************)

\* A copy is known by its two parts.
LEMMA CopyIsItsParts ==
  ASSUME NEW b \in CopyStates, NEW t
  PROVE  /\ b = Same(t) <=> b.body = t /\ b.tail = t
         /\ b.body \in Parts /\ b.tail \in Parts
  BY DEF CopyStates, Same

LEMMA SameType == Garbage \in CopyStates /\ P \in CopyStates /\ C \in CopyStates
  BY DEF Garbage, P, C, Same, CopyStates, Parts

\* _EncryptCustomerKeyBank() leaves no plain part, and makes the plain copy the good one.
LEMMA EncryptedEffect ==
  ASSUME NEW b \in CopyStates
  PROVE  /\ Encrypted(b) \in CopyStates
         /\ NoPlain(Encrypted(b))
         /\ b = P => Encrypted(b) = C
<1> DEFINE e(t) == IF t = "plain" THEN "cipher" ELSE "bad"
<1>1. Encrypted(b) = [body |-> e(b.body), tail |-> e(b.tail)]
  BY DEF Encrypted
<1> QED
  BY <1>1 DEF CopyStates, Parts, NoPlain, P, C, Same

\* What an interrupted write leaves.
LEMMA TornEffect ==
  ASSUME NEW x \in CopyStates, NEW y \in CopyStates, NEW z \in Torn(x, y), NoPlain(y)
  PROVE  /\ z \in CopyStates
         /\ z.body # "plain" \/ z = x
         /\ NoPlain(x) => NoPlain(z)
         /\ x = P => z = P \/ NoPlain(z) \/ Mixed(z)
<1>1. z \in {x, y, Garbage, [body |-> y.body, tail |-> "bad"],
             [body |-> y.body, tail |-> x.tail], [body |-> "bad", tail |-> x.tail]}
  BY DEF Torn
<1> QED
  BY <1>1 DEF CopyStates, Parts, NoPlain, Mixed, Garbage, Same, P
-----------------------------------------------------------------------------
(***************************************************************************)
(* Types                                                                   *)
(***************************************************************************)

LEMMA ReadType ==
  ASSUME NEW b \in CopyStates, NEW c \in Copies, copies \in [Copies -> CopyStates],
         NEW r \in Read(b, c)
  PROVE  /\ r.buf \in CopyStates /\ r.fails \in {0, 1}
         /\ r.fails = 0 => r.buf = copies[c]
  BY SameType DEF Read, AfterFailedRead

LEMMA CountType ==
  ASSUME TypeInv, NEW k \in Nat, CountReads(k) \/ CountWrites(k)
  PROVE  /\ wfaults' \in Nat /\ rfaults' \in Nat /\ quiet' \in BOOLEAN
         /\ wfaults <= wfaults' /\ rfaults <= rfaults'
         /\ quiet' => quiet
<1>1. quiet' \in BOOLEAN /\ (quiet' => quiet)
  BY Zenon DEF CountReads, CountWrites, TypeInv
<1> QED
  BY <1>1 DEF CountReads, CountWrites, TypeInv

LEMMA PutType ==
  ASSUME TypeInv, NEW c \in Copies, NEW y \in CopyStates, Put(c, y)
  PROVE  /\ copies' \in [Copies -> CopyStates] /\ mixed' \in BOOLEAN
         /\ copies'[c] = y /\ \A d \in Copies : d # c => copies'[d] = copies[d]
         /\ mixed => mixed'
<1>1. mixed' \in BOOLEAN /\ (mixed => mixed')
  BY Zenon DEF Put, TypeInv
<1> QED
  BY <1>1 DEF Put, TypeInv

\* One raw_write(): it works, or it leaves a torn copy and the boot is over.
LEMMA WriteEffect ==
  ASSUME TypeInv, NEW c \in Copies, NEW next, WriteCopy(c, next), NoPlain(buf)
  PROVE  /\ copies' \in [Copies -> CopyStates] /\ mixed' \in BOOLEAN
         /\ wfaults' \in Nat /\ rfaults' = rfaults /\ quiet' \in BOOLEAN
         /\ \A d \in Copies : d # c => copies'[d] = copies[d]
         /\ mixed => mixed'
         /\ \/ copies'[c] = buf /\ wfaults' = wfaults /\ pc' = next /\ (quiet' => quiet)
            \/ /\ copies'[c] \in Torn(copies[c], buf) /\ wfaults' = wfaults + 1
               /\ pc' \in {"console", "off"} /\ ~quiet'
               /\ c = "backup" /\ Mixed(copies'[c]) => mixed'
<1>0. buf \in CopyStates /\ copies[c] \in CopyStates
  BY DEF TypeInv
<1>1. CASE Put(c, buf) /\ CountWrites(0) /\ pc' = next
  BY <1>0, <1>1, PutType, CountType DEF CountWrites, TypeInv
<1>2. CASE /\ \E y \in Torn(copies[c], buf) : Put(c, y)
           /\ CountWrites(1)
           /\ pc' \in {"console", "off"}
  <2>1. PICK y \in Torn(copies[c], buf) : Put(c, y)
    BY <1>2
  <2>2. y \in CopyStates
    BY <1>0, <2>1, TornEffect
  <2>3. /\ copies' \in [Copies -> CopyStates] /\ mixed' \in BOOLEAN
        /\ copies'[c] = y /\ \A d \in Copies : d # c => copies'[d] = copies[d]
        /\ mixed => mixed'
    BY <2>1, <2>2, PutType
  <2>4. wfaults' = wfaults + 1 /\ rfaults' = rfaults /\ ~quiet' /\ quiet' \in BOOLEAN
    <3>1. 1 # 0 /\ 1 \in Nat
      OBVIOUS
    <3>2. ~quiet' /\ quiet' \in BOOLEAN
      BY <1>2, <3>1, Zenon DEF CountWrites
    <3> QED
      BY <1>2, <3>2 DEF CountWrites
  <2>5. c = "backup" /\ Mixed(copies'[c]) => mixed'
    BY <2>1, <2>3 DEF Put
  <2> QED
    BY <1>2, <2>1, <2>3, <2>4, <2>5 DEF TypeInv
<1> QED
  BY <1>1, <1>2 DEF WriteCopy
-----------------------------------------------------------------------------
(***************************************************************************)
(* Every step keeps the invariant                                          *)
(***************************************************************************)

LEMMA CopyFacts ==
  /\ P # C /\ ~LooksCipher(P) /\ NoPlain(C)
  /\ Copies = {"bank", "backup"} /\ "bank" # "backup"
  /\ \A b : /\ NoPlain(b) => LooksCipher(b)
            /\ LooksCipher(b) <=> b.tail # "plain"
            /\ Valid(b) <=> b = C
  BY DEF P, C, Same, LooksCipher, NoPlain, Valid, Copies

LEMMA InitIInv == Init => IInv
<1> SUFFICES ASSUME Init PROVE IInv
  OBVIOUS
<1>1. TypeInv
  BY SameType DEF Init, TypeInv, P
<1>2. copies = [c \in Copies |-> P] /\ pc = "off" /\ ~flag /\ wfaults = 0
  BY DEF Init, P
<1>3. PlainInv
  BY <1>2, CopyFacts DEF PlainInv, LooksCipher
<1>4. RepairInv
  BY <1>2, CopyFacts DEF RepairInv, FromBackup
<1> QED
  BY <1>1, <1>3, <1>4 DEF IInv

\* Power goes off or comes back.
LEMMA PowerStep == ASSUME IInv, PowerOn \/ PowerOff PROVE IInv'
<1>1. /\ UNCHANGED <<medium, copies, flag, wfaults, rfaults, mixed>>
      /\ pc' \in {"off", "inspect"} /\ buf' \in {buf, Garbage}
      /\ quiet' \in BOOLEAN
  <2>1. quiet' \in BOOLEAN
    BY Zenon DEF PowerOn, PowerOff, faultVars, IInv, TypeInv
  <2> QED
    BY <2>1 DEF PowerOn, PowerOff, faultVars
<1>2. TypeInv'
  BY <1>1, SameType DEF IInv, TypeInv
<1>3. PlainInv'
  BY <1>1 DEF IInv, PlainInv
<1>4. RepairInv'
  BY <1>1 DEF IInv, RepairInv, Repairable, FromBackup, FromBank
<1> QED
  BY <1>2, <1>3, <1>4 DEF IInv

\* Both copies are read into the buffer.
LEMMA ReadBoth ==
  ASSUME TypeInv, NEW r1 \in Read(buf, "bank"), NEW r2 \in Read(r1.buf, "backup"),
         CountReads(r1.fails + r2.fails)
  PROVE  /\ r2.buf \in CopyStates /\ wfaults' = wfaults /\ rfaults' \in Nat
         /\ quiet' \in BOOLEAN /\ (quiet' => quiet)
         /\ rfaults' = 0 => /\ rfaults = 0 /\ r1.buf = copies["bank"]
                            /\ r2.buf = copies["backup"]
<1>1. /\ r1.buf \in CopyStates /\ r1.fails \in {0, 1}
      /\ r1.fails = 0 => r1.buf = copies["bank"]
  BY ReadType, CopyFacts DEF TypeInv
<1>2. /\ r2.buf \in CopyStates /\ r2.fails \in {0, 1}
      /\ r2.fails = 0 => r2.buf = copies["backup"]
  BY <1>1, ReadType, CopyFacts DEF TypeInv
<1>3. r1.fails + r2.fails \in Nat
  BY <1>1, <1>2
<1>4. quiet' \in BOOLEAN /\ (quiet' => quiet) /\ rfaults' \in Nat
  BY <1>3, CountType
<1> QED
  BY <1>1, <1>2, <1>3, <1>4 DEF CountReads, TypeInv

LEMMA InspectStep == ASSUME IInv, Inspect PROVE IInv'
<1>1. PICK r1 \in Read(buf, "bank") : \E r2 \in Read(r1.buf, "backup") :
        /\ buf' = r2.buf
        /\ CountReads(r1.fails + r2.fails)
        /\ pc' = AfterInspection(r1.buf, r2.buf)
  BY DEF Inspect
<1>2. PICK r2 \in Read(r1.buf, "backup") :
        /\ buf' = r2.buf
        /\ CountReads(r1.fails + r2.fails)
        /\ pc' = AfterInspection(r1.buf, r2.buf)
  BY <1>1
<1>3. /\ buf' \in CopyStates /\ wfaults' = wfaults /\ rfaults' \in Nat
      /\ quiet' \in BOOLEAN
      /\ rfaults' = 0 => /\ rfaults = 0 /\ r1.buf = copies["bank"]
                         /\ r2.buf = copies["backup"] /\ buf' = copies["backup"]
  BY <1>2, ReadBoth DEF IInv
<1>4. UNCHANGED <<medium, copies, flag, mixed>>
  BY DEF Inspect
<1>5. /\ pc' \in {"clear", "load", "copy"}
      /\ pc' = "clear" => ~LooksCipher(r1.buf) \/ ~LooksCipher(r2.buf)
      /\ pc' # "clear" => LooksCipher(r1.buf) /\ LooksCipher(r2.buf)
      /\ pc' = "load" <=> pc' # "clear" /\ flag
  BY <1>2 DEF AfterInspection, MustEncrypt
<1>6. TypeInv'
  BY <1>3, <1>4, <1>5 DEF IInv, TypeInv
<1>7. PlainInv'
  BY <1>3, <1>4, <1>5, CopyFacts DEF IInv, PlainInv
<1>8. RepairInv'
  <2> SUFFICES ASSUME Repairable' PROVE RepairInv'
    BY DEF RepairInv
  <2>1. /\ Repairable /\ (FromBackup \/ FromBank)
        /\ r1.buf = copies["bank"] /\ r2.buf = copies["backup"] /\ buf' = copies["backup"]
    BY <1>3, <1>4 DEF Repairable, IInv, RepairInv
  <2>2. FromBackup' = FromBackup /\ FromBank' = FromBank /\ BothDone' = BothDone
    BY <1>3, <1>4 DEF FromBackup, FromBank, BothDone
  <2>3. CASE FromBackup
    BY <1>5, <2>1, <2>2, <2>3, CopyFacts DEF RepairInv, FromBackup, P
  <2>4. CASE FromBank
    <3>1. pc' # "clear"
      BY <1>5, <2>1, <2>4, CopyFacts DEF FromBank
    <3>2. pc' = "load" => BothDone
      BY <1>5, <2>4, CopyFacts DEF FromBank, BothDone
    <3>3. flag' = flag
      BY <1>4
    <3> QED
      BY <1>5, <2>2, <2>4, <3>1, <3>2, <3>3 DEF RepairInv
  <2> QED
    BY <2>1, <2>3, <2>4
<1> QED
  BY <1>6, <1>7, <1>8 DEF IInv

LEMMA ClearStep == ASSUME IInv, Clear PROVE IInv'
<1>1. /\ pc = "clear" /\ pc' = "encrypt" /\ UNCHANGED <<medium, copies, buf, mixed>>
      /\ flag' \in BOOLEAN /\ rfaults' = rfaults
      /\ \/ ~flag' /\ wfaults' = wfaults
         \/ wfaults' = wfaults + 1
  <2>1. flag' \in BOOLEAN
    BY DEF Clear, IInv, TypeInv
  <2>2. CASE flag' = FALSE /\ CountWrites(0)
    <3>1. ~flag' /\ wfaults' = wfaults
      BY <2>2 DEF CountWrites, IInv, TypeInv
    <3> QED
      BY <2>1, <2>2, <3>1 DEF Clear, CountWrites
  <2>3. CASE CountWrites(1)
    BY <2>1, <2>3 DEF Clear, CountWrites
  <2> QED
    BY <2>2, <2>3 DEF Clear
<1>2. quiet' \in BOOLEAN /\ wfaults' \in Nat /\ rfaults' \in Nat
  BY CountType DEF Clear, IInv
<1>3. TypeInv'
  BY <1>1, <1>2 DEF IInv, TypeInv
<1>4. PlainInv'
  BY <1>1 DEF IInv, PlainInv
<1>5. RepairInv'
  <2> SUFFICES ASSUME Repairable' PROVE RepairInv'
    BY DEF RepairInv
  <2>1. Repairable /\ wfaults \in Nat
    BY <1>1 DEF Repairable, IInv, TypeInv
  <2>2. FromBackup /\ buf = P
    BY <1>1, <2>1 DEF IInv, RepairInv
  <2>3. FromBackup'
    BY <1>1, <2>1, <2>2 DEF FromBackup
  <2>4. wfaults' = 0 => ~flag'
    BY <1>1, <2>1
  <2> QED
    BY <1>1, <2>2, <2>3, <2>4 DEF RepairInv
<1> QED
  BY <1>3, <1>4, <1>5 DEF IInv

LEMMA EncryptStep == ASSUME IInv, Encrypt PROVE IInv'
<1>1. /\ pc = "encrypt" /\ pc' = "bank" /\ buf' = Encrypted(buf)
      /\ UNCHANGED <<medium, copies, flag, wfaults, rfaults, quiet, mixed>>
  BY DEF Encrypt, faultVars
<1>2. buf' \in CopyStates /\ NoPlain(buf') /\ (buf = P => buf' = C)
  BY <1>1, EncryptedEffect DEF IInv, TypeInv
<1>3. TypeInv'
  BY <1>1, <1>2 DEF IInv, TypeInv
<1>4. PlainInv'
  BY <1>1, <1>2 DEF IInv, PlainInv
<1>5. RepairInv'
  BY <1>1, <1>2 DEF IInv, RepairInv, Repairable, FromBackup, FromBank
<1> QED
  BY <1>3, <1>4, <1>5 DEF IInv

\* A torn copy is still one of which at most the magic is left.
LEMMA TornPlain ==
  ASSUME IInv, rfaults = 0, NEW c \in Copies, NoPlain(buf), NEW y \in Torn(copies[c], buf)
  PROVE  y.tail # "plain" => NoPlain(y)
<1>1. buf \in CopyStates /\ copies[c] \in CopyStates
  BY DEF IInv, TypeInv
<1>2. y.body # "plain" \/ y = copies[c]
  BY <1>1, TornEffect
<1> QED
  BY <1>2 DEF IInv, PlainInv, NoPlain

LEMMA WriteBankStep == ASSUME IInv, WriteBank PROVE IInv'
<1>0. pc = "bank" /\ UNCHANGED <<medium, flag, buf>> /\ NoPlain(buf)
  BY DEF WriteBank, IInv, PlainInv
<1>1. /\ copies' \in [Copies -> CopyStates] /\ mixed' \in BOOLEAN
      /\ wfaults' \in Nat /\ rfaults' = rfaults /\ quiet' \in BOOLEAN
      /\ copies'["backup"] = copies["backup"]
      /\ mixed => mixed'
      /\ \/ copies'["bank"] = buf /\ wfaults' = wfaults /\ pc' = "backup"
         \/ /\ copies'["bank"] \in Torn(copies["bank"], buf) /\ wfaults' = wfaults + 1
            /\ pc' \in {"console", "off"} /\ ~quiet'
  BY <1>0, WriteEffect, CopyFacts DEF WriteBank, IInv
<1>2. TypeInv'
  BY <1>0, <1>1 DEF IInv, TypeInv
<1>3. PlainInv'
  <2>1. rfaults = 0 => (copies'["bank"].tail # "plain" => NoPlain(copies'["bank"]))
    BY <1>0, <1>1, TornPlain, CopyFacts
  <2> QED
    BY <1>0, <1>1, <2>1, CopyFacts DEF IInv, PlainInv
<1>4. RepairInv'
  <2> SUFFICES ASSUME Repairable' PROVE RepairInv'
    BY DEF RepairInv
  <2>1. Repairable /\ wfaults \in Nat
    BY <1>1 DEF Repairable, IInv, TypeInv
  <2>2. FromBackup /\ buf = C /\ (wfaults = 0 => ~flag)
    BY <1>0, <2>1 DEF IInv, RepairInv
  <2>3. FromBackup'
    BY <1>1, <2>1, <2>2 DEF FromBackup
  <2> QED
    BY <1>0, <1>1, <2>1, <2>2, <2>3 DEF RepairInv
<1> QED
  BY <1>2, <1>3, <1>4 DEF IInv

LEMMA WriteBackupStep == ASSUME IInv, WriteBackup PROVE IInv'
<1>0. pc = "backup" /\ UNCHANGED <<medium, flag, buf>> /\ NoPlain(buf)
  BY DEF WriteBackup, IInv, PlainInv
<1>1. /\ copies' \in [Copies -> CopyStates] /\ mixed' \in BOOLEAN
      /\ wfaults' \in Nat /\ rfaults' = rfaults /\ quiet' \in BOOLEAN
      /\ copies'["bank"] = copies["bank"]
      /\ mixed => mixed'
      /\ \/ copies'["backup"] = buf /\ wfaults' = wfaults /\ pc' = "recheck"
         \/ /\ copies'["backup"] \in Torn(copies["backup"], buf) /\ wfaults' = wfaults + 1
            /\ pc' \in {"console", "off"} /\ ~quiet'
            /\ Mixed(copies'["backup"]) => mixed'
  BY <1>0, WriteEffect, CopyFacts DEF WriteBackup, IInv
<1>2. TypeInv'
  BY <1>0, <1>1 DEF IInv, TypeInv
<1>3. PlainInv'
  <2>1. rfaults = 0 => (copies'["backup"].tail # "plain" => NoPlain(copies'["backup"]))
    BY <1>0, <1>1, TornPlain, CopyFacts
  <2> QED
    BY <1>0, <1>1, <2>1, CopyFacts DEF IInv, PlainInv
<1>4. RepairInv'
  <2> SUFFICES ASSUME Repairable' PROVE RepairInv'
    BY DEF RepairInv
  <2>1. Repairable /\ wfaults \in Nat
    BY <1>1 DEF Repairable, IInv, TypeInv
  <2>2. /\ FromBackup /\ buf = C /\ copies["bank"] = C
        /\ wfaults = 0 => ~flag
    BY <1>0, <2>1 DEF IInv, RepairInv
  <2>3. CASE copies'["backup"] = buf /\ pc' = "recheck"
    <3>1. BothDone' /\ FromBank'
      BY <1>1, <2>2, <2>3, CopyFacts DEF BothDone, FromBank
    <3> QED
      BY <2>3, <3>1 DEF RepairInv
  <2>4. CASE /\ copies'["backup"] \in Torn(copies["backup"], buf)
             /\ wfaults' = wfaults + 1
             /\ pc' \in {"console", "off"} /\ ~quiet'
             /\ Mixed(copies'["backup"]) => mixed'
    <3>1. wfaults = 0 /\ wfaults' = 1 /\ ~flag /\ ~mixed'
      BY <2>1, <2>2, <2>4 DEF Repairable
    <3>2. copies["backup"] = P /\ buf \in CopyStates /\ copies["backup"] \in CopyStates
      BY <2>2, SameType DEF FromBackup, IInv, TypeInv
    <3>3. copies'["backup"] = P \/ NoPlain(copies'["backup"])
      BY <1>0, <2>4, <3>1, <3>2, TornEffect
    <3>4. CASE copies'["backup"] = P
      <4>1. FromBackup'
        BY <3>1, <3>4 DEF FromBackup
      <4> QED
        BY <2>4, <4>1 DEF RepairInv
    <3>5. CASE NoPlain(copies'["backup"])
      <4>1. FromBank'
        BY <1>0, <1>1, <2>2, <3>1, <3>5, CopyFacts DEF FromBank
      <4> QED
        BY <2>4, <4>1 DEF RepairInv
    <3> QED
      BY <3>3, <3>4, <3>5
  <2> QED
    BY <1>1, <2>3, <2>4
<1> QED
  BY <1>2, <1>3, <1>4 DEF IInv

LEMMA RecheckStep == ASSUME IInv, Recheck PROVE IInv'
<1>0. PICK r1 \in Read(buf, "bank") : \E r2 \in Read(r1.buf, "backup") :
        /\ buf' = r2.buf
        /\ CountReads(r1.fails + r2.fails)
        /\ pc' = IF LooksCipher(r1.buf) /\ LooksCipher(r2.buf) THEN "set" ELSE "console"
  BY DEF Recheck
<1>1. PICK r2 \in Read(r1.buf, "backup") :
        /\ buf' = r2.buf
        /\ CountReads(r1.fails + r2.fails)
        /\ pc' = IF LooksCipher(r1.buf) /\ LooksCipher(r2.buf) THEN "set" ELSE "console"
  BY <1>0
<1>2. /\ buf' \in CopyStates /\ wfaults' = wfaults /\ rfaults' \in Nat
      /\ quiet' \in BOOLEAN
      /\ rfaults' = 0 => /\ rfaults = 0 /\ r1.buf = copies["bank"]
                         /\ r2.buf = copies["backup"]
  BY <1>1, ReadBoth DEF IInv
<1>3. pc = "recheck" /\ UNCHANGED <<medium, copies, flag, mixed>>
  BY DEF Recheck
<1>4. /\ pc' \in {"set", "console"}
      /\ pc' = "set" <=> LooksCipher(r1.buf) /\ LooksCipher(r2.buf)
  BY <1>1
<1>5. TypeInv'
  BY <1>2, <1>3, <1>4 DEF IInv, TypeInv
<1>6. PlainInv'
  BY <1>2, <1>3, <1>4, CopyFacts DEF IInv, PlainInv
<1>7. RepairInv'
  <2> SUFFICES ASSUME Repairable' PROVE RepairInv'
    BY DEF RepairInv
  <2>1. Repairable /\ r1.buf = copies["bank"] /\ r2.buf = copies["backup"]
    BY <1>2, <1>3 DEF Repairable
  <2>2. BothDone
    BY <1>3, <2>1 DEF IInv, RepairInv
  <2>3. BothDone' /\ FromBank' /\ pc' = "set"
    BY <1>2, <1>3, <1>4, <2>1, <2>2, CopyFacts DEF BothDone, FromBank
  <2> QED
    BY <2>3 DEF RepairInv
<1> QED
  BY <1>5, <1>6, <1>7 DEF IInv

LEMMA CopyStep == ASSUME IInv, Copy PROVE IInv'
<1>1. pc = "copy" /\ UNCHANGED <<medium, copies, flag, mixed>>
  BY DEF Copy
<1>2. /\ wfaults' = wfaults /\ rfaults' \in Nat /\ quiet' \in BOOLEAN
      /\ \/ buf' = copies["bank"] /\ rfaults' = rfaults /\ pc' = "restore"
         \/ /\ buf' \in AfterFailedRead(buf, "bank") /\ rfaults' = rfaults + 1
            /\ pc' = "console"
  <2>1. quiet' \in BOOLEAN /\ rfaults' \in Nat
    BY CountType DEF Copy, IInv
  <2> QED
    BY <2>1 DEF Copy, CountReads, IInv, TypeInv
<1>3. buf' \in CopyStates
  BY <1>2, SameType, CopyFacts DEF AfterFailedRead, IInv, TypeInv
<1>4. TypeInv'
  BY <1>1, <1>2, <1>3 DEF IInv, TypeInv
<1>5. rfaults' = 0 => rfaults = 0 /\ pc' = "restore" /\ buf' = copies["bank"]
  BY <1>2 DEF IInv, TypeInv
<1>6. PlainInv'
  BY <1>1, <1>2, <1>5 DEF IInv, PlainInv
<1>7. RepairInv'
  <2> SUFFICES ASSUME Repairable' PROVE RepairInv'
    BY DEF RepairInv
  <2>1. Repairable /\ pc' = "restore"
    BY <1>1, <1>2, <1>5 DEF Repairable
  <2>2. FromBank /\ ~flag
    BY <1>1, <2>1 DEF IInv, RepairInv
  <2>3. FromBank' /\ ~flag'
    BY <1>1, <1>2, <2>2 DEF FromBank
  <2> QED
    BY <2>1, <2>3 DEF RepairInv
<1> QED
  BY <1>4, <1>6, <1>7 DEF IInv

LEMMA RestoreStep == ASSUME IInv, Restore PROVE IInv'
<1>0. pc = "restore" /\ UNCHANGED <<medium, flag, buf>>
  BY DEF Restore
<1>1. CASE rfaults = 0
  <2>0. NoPlain(buf) /\ NoPlain(copies["backup"]) /\ NoPlain(copies["bank"])
    BY <1>0, <1>1, CopyFacts DEF IInv, PlainInv
  <2>1. /\ copies' \in [Copies -> CopyStates] /\ mixed' \in BOOLEAN
        /\ wfaults' \in Nat /\ rfaults' = rfaults /\ quiet' \in BOOLEAN
        /\ copies'["bank"] = copies["bank"]
        /\ mixed => mixed'
        /\ \/ copies'["backup"] = buf /\ wfaults' = wfaults /\ pc' = "set"
           \/ /\ copies'["backup"] \in Torn(copies["backup"], buf)
              /\ wfaults' = wfaults + 1 /\ pc' \in {"console", "off"} /\ ~quiet'
    BY <1>0, <2>0, WriteEffect, CopyFacts DEF Restore, IInv
  <2>2. TypeInv'
    BY <1>0, <2>1 DEF IInv, TypeInv
  <2>3. NoPlain(copies'["backup"])
    BY <2>0, <2>1, TornEffect, CopyFacts DEF IInv, TypeInv
  <2>4. PlainInv'
    BY <1>0, <2>0, <2>1, <2>3, CopyFacts DEF IInv, PlainInv
  <2>5. RepairInv'
    <3> SUFFICES ASSUME Repairable' PROVE RepairInv'
      BY DEF RepairInv
    <3>1. Repairable /\ wfaults \in Nat
      BY <2>1 DEF Repairable, IInv, TypeInv
    <3>2. FromBank /\ ~flag /\ buf = copies["bank"]
      BY <1>0, <1>1, <3>1 DEF IInv, RepairInv, PlainInv
    <3>3. CASE copies'["backup"] = buf /\ pc' = "set"
      <4>1. BothDone' /\ FromBank'
        BY <2>1, <3>2, <3>3, CopyFacts DEF BothDone, FromBank
      <4> QED
        BY <3>3, <4>1 DEF RepairInv
    <3>4. CASE wfaults' = wfaults + 1 /\ pc' \in {"console", "off"} /\ ~quiet'
      <4>1. wfaults' = 1 /\ ~flag'
        BY <1>0, <3>1, <3>2, <3>4 DEF Repairable
      <4>2. FromBank'
        BY <2>1, <2>3, <3>2, <4>1, CopyFacts DEF FromBank
      <4> QED
        BY <3>4, <4>2 DEF RepairInv
    <3> QED
      BY <2>1, <3>3, <3>4
  <2> QED
    BY <2>2, <2>4, <2>5 DEF IInv
<1>2. CASE rfaults # 0
  <2>1. /\ copies' \in [Copies -> CopyStates] /\ mixed' \in BOOLEAN
        /\ wfaults' \in Nat /\ quiet' \in BOOLEAN
    <3>1. \A x, y \in CopyStates : \A z \in Torn(x, y) : z \in CopyStates
      BY SameType DEF Torn, CopyStates, Parts, Garbage
    <3>2. /\ buf \in CopyStates /\ copies["backup"] \in CopyStates
          /\ "backup" \in Copies
      BY CopyFacts DEF IInv, TypeInv
    <3>3. PICK y \in CopyStates : Put("backup", y)
      BY <3>1, <3>2 DEF Restore, WriteCopy
    <3>4. CountWrites(0) \/ CountWrites(1)
      BY DEF Restore, WriteCopy
    <3> QED
      BY <3>2, <3>3, <3>4, PutType, CountType DEF IInv
  <2>2. rfaults' = rfaults /\ pc' \in {"set", "console", "off"}
    BY DEF Restore, WriteCopy, CountWrites
  <2>3. TypeInv'
    BY <1>0, <2>1, <2>2 DEF IInv, TypeInv
  <2>4. PlainInv' /\ RepairInv'
    BY <1>2, <2>2 DEF PlainInv, RepairInv, Repairable
  <2> QED
    BY <2>3, <2>4 DEF IInv
<1> QED
  BY <1>1, <1>2

LEMMA SetDoneStep == ASSUME IInv, SetDone PROVE IInv'
<1>1. pc = "set" /\ UNCHANGED <<medium, copies, buf, mixed>>
  BY DEF SetDone
<1>2. /\ wfaults' \in Nat /\ wfaults <= wfaults' /\ rfaults' = rfaults
      /\ quiet' \in BOOLEAN /\ flag' \in BOOLEAN
      /\ pc' \in {"load", "console", "off"}
      /\ pc' = "console" => ~quiet'
  <2>1. flag' \in BOOLEAN /\ rfaults' = rfaults /\ pc' \in {"load", "console", "off"}
    BY DEF SetDone, CountWrites, IInv, TypeInv
  <2>2. wfaults' \in Nat /\ quiet' \in BOOLEAN /\ wfaults <= wfaults'
    BY CountType DEF SetDone, IInv
  <2>3. ASSUME pc' = "console" PROVE ~quiet'
    <3>1. CountWrites(1) /\ 1 # 0
      BY <2>3 DEF SetDone
    <3> QED
      BY <3>1, Zenon DEF CountWrites
  <2> QED
    BY <2>1, <2>2, <2>3
<1>3. TypeInv'
  BY <1>1, <1>2 DEF IInv, TypeInv
<1>4. PlainInv'
  BY <1>1, <1>2 DEF IInv, PlainInv
<1>5. RepairInv'
  <2> SUFFICES ASSUME Repairable' PROVE RepairInv'
    BY DEF RepairInv
  <2>1. Repairable
    BY <1>1, <1>2 DEF Repairable, IInv, TypeInv
  <2>2. BothDone
    BY <1>1, <2>1 DEF IInv, RepairInv
  <2>3. BothDone' /\ FromBank'
    BY <1>1, <2>2, CopyFacts DEF BothDone, FromBank
  <2> QED
    BY <1>2, <2>3 DEF RepairInv
<1> QED
  BY <1>3, <1>4, <1>5 DEF IInv

LEMMA LoadStep == ASSUME IInv, Load PROVE IInv'
<1>1. PICK r \in Read(buf, "bank") :
        /\ buf' = r.buf
        /\ pc' = IF Valid(r.buf) THEN "up" ELSE "console"
        /\ IF pc' = "up" /\ \A c \in Copies : Valid(copies[c])
           THEN /\ wfaults' = 0 /\ rfaults' = 0 /\ mixed' = FALSE
                /\ quiet' = (quiet /\ r.fails = 0)
           ELSE CountReads(r.fails) /\ UNCHANGED mixed
  BY DEF Load
<1>2. /\ pc = "load" /\ UNCHANGED <<medium, copies, flag>>
      /\ pc' \in {"up", "console"}
  BY <1>1 DEF Load
<1>3. buf' \in CopyStates /\ r.fails \in {0, 1} /\ (r.fails = 0 => r.buf = copies["bank"])
  BY <1>1, ReadType, CopyFacts DEF IInv, TypeInv
<1>4. CASE pc' = "up" /\ BothDone
  <2>1. wfaults' = 0 /\ rfaults' = 0 /\ ~mixed' /\ mixed' \in BOOLEAN
    <3>1. wfaults' = 0 /\ rfaults' = 0 /\ mixed' = FALSE
      BY <1>1, <1>4, CopyFacts DEF BothDone
    <3> QED
      BY <3>1
  <2>2. quiet' \in BOOLEAN
    BY <1>1, <1>4, CopyFacts, Zenon DEF BothDone
  <2>3. TypeInv'
    BY <1>2, <1>3, <2>1, <2>2 DEF IInv, TypeInv
  <2>4. BothDone' /\ FromBank'
    BY <1>2, <1>4, CopyFacts DEF BothDone, FromBank
  <2>5. PlainInv'
    BY <1>4, <2>4, CopyFacts DEF PlainInv, BothDone
  <2>6. RepairInv'
    BY <1>4, <2>4 DEF RepairInv
  <2> QED
    BY <2>3, <2>5, <2>6 DEF IInv
<1>5. CASE ~(pc' = "up" /\ BothDone)
  <2>1. CountReads(r.fails) /\ UNCHANGED mixed
    BY <1>1, <1>5, CopyFacts DEF BothDone
  <2>2. rfaults' \in Nat /\ quiet' \in BOOLEAN /\ wfaults' = wfaults
    BY <1>3, <2>1, CountType DEF CountReads, IInv
  <2>3. rfaults' = 0 => rfaults = 0 /\ r.buf = copies["bank"]
    BY <1>3, <2>1 DEF CountReads, IInv, TypeInv
  <2>4. TypeInv'
    BY <1>2, <1>3, <2>1, <2>2 DEF IInv, TypeInv
  <2>5. PlainInv'
    BY <1>2, <2>3 DEF IInv, PlainInv
  <2>6. ~Repairable'
    <3> SUFFICES ASSUME Repairable' PROVE FALSE
      OBVIOUS
    <3>1. Repairable /\ r.buf = copies["bank"]
      BY <2>1, <2>2, <2>3 DEF Repairable
    <3>2. BothDone
      BY <1>2, <3>1 DEF IInv, RepairInv
    <3>3. pc' = "up"
      BY <1>1, <3>1, <3>2, CopyFacts DEF BothDone
    <3> QED
      BY <1>5, <3>2, <3>3
  <2>7. RepairInv'
    BY <2>6 DEF RepairInv
  <2> QED
    BY <2>4, <2>5, <2>7 DEF IInv
<1> QED
  BY <1>4, <1>5

LEMMA ReflashStep == ASSUME IInv, Reflash PROVE IInv'
<1>1. /\ pc = "up" /\ copies' = [c \in Copies |-> P]
      /\ wfaults' = 0 /\ rfaults' = 0 /\ ~mixed' /\ mixed' \in BOOLEAN
      /\ UNCHANGED <<medium, flag, pc, buf, quiet>>
  <2>1. mixed' = FALSE
    BY DEF Reflash
  <2> QED
    BY <2>1 DEF Reflash, P
<1>2. TypeInv'
  BY <1>1, SameType DEF IInv, TypeInv
<1>3. PlainInv'
  BY <1>1, CopyFacts DEF PlainInv, LooksCipher
<1>4. RepairInv'
  BY <1>1, CopyFacts DEF RepairInv, FromBackup
<1> QED
  BY <1>2, <1>3, <1>4 DEF IInv

LEMMA StutterStep == ASSUME IInv, UNCHANGED vars PROVE IInv'
  BY DEF IInv, TypeInv, PlainInv, RepairInv, Repairable, FromBackup, FromBank, BothDone,
         vars

LEMMA IInvHolds == Spec => []IInv
<1>1. IInv /\ [Next]_vars => IInv'
  BY PowerStep, InspectStep, ClearStep, EncryptStep, WriteBankStep, WriteBackupStep,
     RecheckStep, CopyStep, RestoreStep, SetDoneStep, LoadStep, ReflashStep, StutterStep
  DEF Next
<1> QED
  BY <1>1, InitIInv, PTL DEF Spec
-----------------------------------------------------------------------------
(***************************************************************************)
(* The theorems                                                            *)
(***************************************************************************)

\* One failed or interrupted write, wherever it hits the encryption or the repair of
\* the copies, leaves a usable copy of the key bank.
THEOREM KeysSurvive == Spec => []KeysSurviveOneFault
<1>1. IInv => KeysSurviveOneFault
  BY CopyFacts
  DEF IInv, RepairInv, Repairable, FromBackup, FromBank, KeysSurviveOneFault, Usable, P
<1> QED
  BY <1>1, IInvHolds, PTL

\* A boot that goes on has left no readable key behind, however many writes failed
\* before.
THEOREM UsedKeysAreEncrypted == Spec => []NoPlainKeysInUse
<1>1. IInv => NoPlainKeysInUse
  <2> SUFFICES ASSUME IInv, pc = "up", rfaults = 0,
                      copies # [c \in Copies |-> Same("plain")], NEW c \in Copies
               PROVE  NoPlain(copies[c])
    BY DEF NoPlainKeysInUse, NoPlain
  <2>1. ~\A d \in Copies : copies[d] = P
    BY DEF IInv, TypeInv, P
  <2> QED
    BY <2>1 DEF IInv, PlainInv
<1> QED
  BY <1>1, IInvHolds, PTL

\* A boot in which no I/O call fails gets over one earlier fault: it comes up, with
\* two good copies.
THEOREM OneFaultIsRepaired == Spec => []BootRepairs
<1>1. IInv => BootRepairs
  BY CopyFacts DEF IInv, RepairInv, Repairable, BothDone, BootRepairs
<1> QED
  BY <1>1, IInvHolds, PTL
=============================================================================
