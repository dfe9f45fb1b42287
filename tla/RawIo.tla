-------------------------------- MODULE RawIo --------------------------------
(***************************************************************************)
(* Raw I/O on eMMC: the configuration stack of MsRawIO.c, raw_write() down *)
(* to the sectors that "mmc write.p.continue" writes, and the AVB          *)
(* operations read_from_partition() and write_to_partition() built on it.  *)
(* Addresses are bytes; a call is one step with every way its sector       *)
(* accesses may fail.  A write of one byte value stands for any data, and  *)
(* Magic for a buffer that begins with SPARSE_HEADER_MAGIC: "mmc write"    *)
(* takes such a buffer for an image, whatever it was asked to write, and   *)
(* its header for the size.                                                *)
(***************************************************************************)
EXTENDS Integers, Sequences, FiniteSets

CONSTANTS
  Partitions,   \* names; Absent is not in the partition table
  Absent,
  Start, Size,  \* of each partition, in sectors
  SectorSize,
  Data,         \* byte values
  Magic,        \* the one that makes a buffer an image
  Headers,      \* of images: the total of sectors, those the raw chunks fill
  MaxStack      \* bound: entries of config_list

ASSUME PartitionsAssumption ==
  /\ IsFiniteSet(Partitions) /\ Absent \notin Partitions
  /\ Start \in [Partitions -> Nat] /\ Size \in [Partitions -> Nat \ {0}]
ASSUME SectorAssumption == SectorSize \in Nat /\ SectorSize >= 2
ASSUME StackAssumption == MaxStack \in Nat
ASSUME DataAssumption == Magic \in Data
ASSUME HeadersAssumption == Headers \subseteq [total : Nat \ {0}, raw : SUBSET Nat]

VARIABLES
  disk,   \* the bytes of the card
  part,   \* partName, the partition raw I/O is configured for
  stack,  \* config_list, the newest entry first
  last    \* history: the last call

vars == <<disk, part, stack, last>>

Names == Partitions \cup {Absent}
Base(p) == Start[p] * SectorSize
Bytes(p) == Size[p] * SectorSize
Disk == UNION {Base(p)..(Base(p) + Bytes(p) - 1) : p \in Partitions}
Ranges == -2..(2 * SectorSize + 1)
Lengths == 0..(2 * SectorSize + 1)

\* A write was to put v in the bytes wrote, and took images of these headers.
Call(op, p, res, wrote, v, images) ==
  [op |-> op, part |-> p, res |-> res, wrote |-> wrote, value |-> v,
   images |-> images]
Quiet(op, p, res) == Call(op, p, res, {}, Magic, {})
Results == {"OK", "IO"}

TypeOK ==
  /\ disk \in [Disk -> Data]
  /\ part \in Names
  /\ stack \in Seq(Names) /\ Len(stack) <= MaxStack
  /\ last.op \in {"none", "config", "raw_write", "avb_read", "avb_write"}
  /\ last.part \in Names /\ last.res \in Results /\ last.value \in Data
  /\ last.images \subseteq Headers

Init ==
  /\ disk \in [Disk -> {CHOOSE v \in Data : TRUE}]
  /\ part \in Partitions
  /\ stack = <<>>
  /\ last = Quiet("none", part, "OK")
-----------------------------------------------------------------------------
(***************************************************************************)
(* raw_write_mmc() and cmd_write()                                         *)
(***************************************************************************)
Sector(b) == b \div SectorSize
RoundDown(b) == Sector(b) * SectorSize
RoundUp(b) == RoundDown(b + SectorSize - 1)

\* Mutant: the rest of the sector is not read first.
Patch_NoReadBack(d, lo, hi, v) ==
  [b \in DOMAIN d |-> IF (lo <= b /\ b < hi) \/ Sector(b) = Sector(lo) THEN v
                      ELSE d[b]]

\* Bytes lo to hi, exclusive, of one sector: it is read, changed and written.
Patch(d, lo, hi, v) == [b \in DOMAIN d |-> IF lo <= b /\ b < hi THEN v ELSE d[b]]

Fill(d, lo, hi, v) == [b \in DOMAIN d |-> IF lo <= b /\ b < hi THEN v ELSE d[b]]

\* What becomes of a write: the card, success, the headers of images taken.
Step(d, ok) == [disk |-> d, ok |-> ok, images |-> {}]
Took(t, images) ==
  [disk |-> t.disk, ok |-> t.ok, images |-> t.images \cup images]

\* "the write data size bigger than the partition": whole sectors count.
Fits(p, hi) == RoundUp(hi) <= Base(p) + Bytes(p)

\* The last sector, where the range does not end with it: a failed read ends
\* the command, the result of the write is not looked at.
WriteTail(d, lo, hi, v) ==
  IF hi % SectorSize = 0 THEN {Step(d, TRUE)}
  ELSE {Step(Patch(d, RoundDown(hi), hi, v), TRUE), Step(d, TRUE), Step(d, FALSE)}

\* Mutant: the number of written sectors is not looked at.
WriteBulk_Unchecked(d, lo, hi, v) ==
  {Step(Fill(d, lo, b, v), TRUE) :
     b \in {x \in lo..RoundDown(hi) : x % SectorSize = 0}}

\* The whole sectors, in order; an error may leave any number written.
WriteBulk(d, lo, hi, v) ==
  {Step(Fill(d, lo, RoundDown(hi), v), TRUE)}
  \cup {Step(Fill(d, lo, b, v), FALSE) :
          b \in {x \in lo..RoundDown(hi) : x % SectorSize = 0}}

\* From a sector's start on; the last sector goes first, then the others.
WriteSectors(d, lo, hi, v) ==
  UNION {IF t.ok THEN WriteBulk(t.disk, lo, hi, v) ELSE {t} :
           t \in WriteTail(d, lo, hi, v)}

\* Raw chunks fill the sectors raw, counted from the one the write is at.
Chunks(d, lo, raw, v) ==
  [b \in DOMAIN d |-> IF Sector(b) - Sector(lo) \in raw THEN v ELSE d[b]]

\* A buffer with the magic, its bytes any: the header's total replaces the number
\* of sectors and must fit. With a partial last sector the image is written
\* as it is; else chunk by chunk, a chunk that fails keeping no other from being
\* written, and the size of the chunks is not compared with the total.
WriteImage(p, d, lo, hi, h, v) ==
  IF ~Fits(p, lo + h.total * SectorSize) THEN {Step(d, FALSE)}
  ELSE IF hi % SectorSize # 0
  THEN WriteSectors(d, lo, lo + (h.total - 1) * SectorSize + (hi % SectorSize), v)
  ELSE {Step(Chunks(d, lo, h.raw, v), TRUE)}
       \cup {Step(Chunks(d, lo, raw, v), FALSE) : raw \in SUBSET h.raw}

AnyImage(p, d, lo, hi) ==
  UNION {{Took(t, {h}) : t \in WriteImage(p, d, lo, hi, h, v)} :
           h \in Headers, v \in Data}

\* The first sector, where the range does not begin with it: read, changed and
\* written, as an image when what was read begins with the magic.
HeadEnd(lo, hi) ==
  IF lo % SectorSize = 0 THEN lo
  ELSE IF RoundUp(lo) < hi THEN RoundUp(lo) ELSE hi

WriteHead(p, d, lo, hi, v) ==
  IF HeadEnd(lo, hi) = lo THEN {Step(d, TRUE)}
  ELSE IF ~Fits(p, HeadEnd(lo, hi)) THEN {Step(d, FALSE)}
  ELSE {Step(d, FALSE)} \cup
       IF d[RoundDown(lo)] = Magic THEN AnyImage(p, d, RoundDown(lo), RoundUp(lo))
       ELSE {Step(Patch(d, lo, HeadEnd(lo, hi), v), ok) : ok \in BOOLEAN}

\* The rest, from a sector's start on.
WriteRest(p, d, lo, hi, v) ==
  IF lo = hi THEN {Step(d, TRUE)}
  ELSE IF v = Magic THEN AnyImage(p, d, lo, hi)
  ELSE IF ~Fits(p, hi) THEN {Step(d, FALSE)}
  ELSE WriteSectors(d, lo, hi, v)

\* raw_write() of len bytes at offset off: no length and no such partition are
\* errors.
Outcomes(p, off, len, v) ==
  IF len = 0 \/ p = Absent THEN {Step(disk, FALSE)}
  ELSE LET lo == Base(p) + off
           hi == lo + len
       IN UNION {IF h.ok
                 THEN {Took(r, h.images) :
                         r \in WriteRest(p, h.disk, HeadEnd(lo, hi), hi, v)}
                 ELSE {h} : h \in WriteHead(p, disk, lo, hi, v)}

\* The bytes a write is to change, wherever they are.
Wanted(p, off, len) ==
  IF p = Absent THEN {} ELSE (Base(p) + off)..(Base(p) + off + len - 1)
-----------------------------------------------------------------------------
(***************************************************************************)
(* The configuration                                                       *)
(***************************************************************************)

\* Other code configures raw I/O for itself, without the stack, and writes.
raw_io_config(p) ==
  /\ part' = p
  /\ last' = Quiet("config", p, "OK")
  /\ UNCHANGED <<disk, stack>>

raw_write(off, len, v) ==
  \E o \in Outcomes(part, off, len, v) :
    /\ disk' = o.disk
    /\ last' = Call("raw_write", part, IF o.ok THEN "OK" ELSE "IO",
                    Wanted(part, off, len), v, o.images)
    /\ UNCHANGED <<part, stack>>

\* Mutant: the entry is taken from the other end of the list.
Popped_Oldest(pushed) ==
  /\ part' = pushed[Len(pushed)]
  /\ stack' = SubSeq(pushed, 1, Len(pushed) - 1)

\* raw_io_config_pop()
Popped(pushed) == part' = Head(pushed) /\ stack' = Tail(pushed)

\* raw_io_config_push()
Pushed == <<part>> \o stack
-----------------------------------------------------------------------------
(***************************************************************************)
(* read_from_partition() and write_to_partition()                          *)
(***************************************************************************)

\* A negative offset counts from the end, the length is cut at the end.
Offset(p, lo) == IF lo < 0 THEN lo + Bytes(p) ELSE lo
Length(p, lo, len) ==
  IF Offset(p, lo) + len > Bytes(p) THEN Bytes(p) - Offset(p, lo) ELSE len

\* An offset beyond the end touches nothing and is no error after all; a
\* failed raw_read() or raw_write() leaves the pushed entry where it is.
avb_read(p, lo, len) ==
  /\ Len(stack) < MaxStack
  /\ UNCHANGED disk
  /\ \/ /\ Popped(Pushed)
        /\ lo < Bytes(p) => Length(p, lo, len) > 0
        /\ last' = Quiet("avb_read", p, "OK")
     \/ /\ lo < Bytes(p)
        /\ part' = p /\ stack' = Pushed
        /\ last' = Quiet("avb_read", p, "IO")

avb_write(p, lo, len, v) ==
  /\ Len(stack) < MaxStack
  /\ IF lo >= Bytes(p)
     THEN /\ Popped(Pushed) /\ UNCHANGED disk
          /\ last' = Call("avb_write", p, "OK", {}, v, {})
     ELSE \E o \in Outcomes(p, Offset(p, lo), Length(p, lo, len), v) :
            /\ disk' = o.disk
            /\ IF o.ok THEN Popped(Pushed) ELSE part' = p /\ stack' = Pushed
            /\ last' = Call("avb_write", p, IF o.ok THEN "OK" ELSE "IO",
                            Wanted(p, Offset(p, lo), Length(p, lo, len)), v,
                            o.images)

Next ==
  \/ \E p \in Names : raw_io_config(p)
  \/ \E off \in Ranges \cap Nat, len \in Lengths, v \in Data : raw_write(off, len, v)
  \/ \E p \in Partitions, lo \in Ranges, len \in Lengths :
       \/ avb_read(p, lo, len)
       \/ \E v \in Data : avb_write(p, lo, len, v)

Spec == Init /\ [][Next]_vars
-----------------------------------------------------------------------------
(***************************************************************************)
(* Properties                                                              *)
(***************************************************************************)

\* The chunks end where the header says the image does.
Honest(h) == h.raw \subseteq 0..(h.total - 1)

\* No write, whole, failed or cut, changes a byte beside the range it was
\* given, not in the sectors it shares with others either; what is taken for an
\* image, because it or the sector it begins in begins with the magic, may change
\* other bytes, but of its partition, if the chunks are no more than the header
\* says: the code compares with the partition only what the header says
\* (MsMmc.c:3355).
WritesOnlyItsRange ==
  [][\A b \in Disk : disk'[b] # disk[b] =>
       /\ last'.images = {} => b \in last'.wrote
       /\ (\A h \in last'.images : Honest(h)) =>
            b >= Base(last'.part) /\ b < Base(last'.part) + Bytes(last'.part)]_vars

\* A call that reports success leaves the configuration of its caller, however
\* many entries failed calls left on the stack.
CallerKeepsItsPartition ==
  [][last'.op \in {"avb_read", "avb_write"} /\ last'.res = "OK"
       => part' = part /\ stack' = stack]_vars

\* Bytes of a last sector that the range begins with and does not end with.
LastSector(bytes) ==
  {b \in bytes : RoundDown(b) \in bytes /\ RoundDown(b) + SectorSize - 1 \notin bytes}

\* "it either transfers all of the requested bytes or returns an error"
\* (avb_ops.h:133), as far as the code keeps it: unless taken for an image, the
\* bytes of the range that lie in the partition are on the card when a write
\* reports success, those of a last, partial sector all or none: the error of
\* writing it is not looked at (MsMmc.c:3378).
SuccessIsWritten ==
  [][last'.op \in {"avb_write", "raw_write"} /\ last'.res = "OK" /\ last'.images = {} =>
       \E lost \in {{}, LastSector(last'.wrote)} : \A b \in last'.wrote :
         disk'[b] = IF b \in lost THEN disk[b] ELSE last'.value]_vars
=============================================================================
