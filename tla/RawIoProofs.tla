----------------------------- MODULE RawIoProofs -----------------------------
(***************************************************************************)
(* Proofs about RawIo, for any partitions of any sizes, sectors of any     *)
(* size, and any data.                                                     *)
(*                                                                         *)
(* What a write may do is described once, as a change of the bytes from lo *)
(* to hi (Change) which its parts have each in their own range: the head   *)
(* ends on a sector boundary or with the write, the tail begins on one,    *)
(* and the whole sectors lie between.  What is taken for an image is a     *)
(* change of the sectors its header counts, which fit in the partition.    *)
(***************************************************************************)
EXTENDS RawIo, SequenceTheorems, TLAPS

Disks == [Disk -> Data]
End(p) == Base(p) + Bytes(p)

\* e is d with some bytes from lo on and before hi changed ...
Change(d, e, lo, hi) == e \in Disks /\ \A b \in Disk : e[b] # d[b] => lo <= b /\ b < hi
\* ... and has the value v in all of these.
Holds(e, lo, hi, v) == \A b \in Disk : lo <= b /\ b < hi => e[b] = v
Same(d, e, lo, hi) == \A b \in Disk : lo <= b /\ b < hi => e[b] = d[b]

\* The images taken are no longer than they say.
Sound(images) == \A h \in images : Honest(h)
-----------------------------------------------------------------------------
(***************************************************************************)
(* Sectors                                                                 *)
(***************************************************************************)

\* A number and its sector.
LEMMA Sectors ==
  ASSUME NEW x \in Int
  PROVE  /\ Sector(x) \in Int /\ x % SectorSize \in Int
         /\ RoundDown(x) \in Int /\ RoundDown(x) <= x /\ x < RoundDown(x) + SectorSize
         /\ x = RoundDown(x) + (x % SectorSize)
  BY SectorAssumption DEF RoundDown, Sector

\* A multiple of the sector size is one, whatever the factor.
LEMMA Multiples ==
  ASSUME NEW q \in Int
  PROVE  /\ q * SectorSize \in Int /\ Sector(q * SectorSize) = q
         /\ (q * SectorSize) % SectorSize = 0
  BY SectorAssumption DEF Sector

\* Factors are ordered as their multiples.
LEMMA Ordered ==
  ASSUME NEW q \in Int, NEW r \in Int, q * SectorSize < r * SectorSize + SectorSize
  PROVE  q * SectorSize <= r * SectorSize
  BY SectorAssumption

\* Multiples of a sum and of what is no greater.
LEMMA Sums ==
  ASSUME NEW q \in Int, NEW r \in Int
  PROVE  /\ (q + r) * SectorSize = q * SectorSize + r * SectorSize
         /\ q <= r => q * SectorSize <= r * SectorSize
  BY SectorAssumption

\* Rounding ends on a boundary and passes none.
LEMMA Rounding ==
  ASSUME NEW x \in Int
  PROVE  /\ RoundDown(x) % SectorSize = 0
         /\ RoundUp(x) \in Int /\ x <= RoundUp(x) /\ RoundUp(x) % SectorSize = 0
         /\ \A a \in Int : a % SectorSize = 0 /\ a <= x => a <= RoundDown(x)
<1>1. RoundDown(x) % SectorSize = 0
  BY Sectors, Multiples DEF RoundDown
<1>2. x + SectorSize - 1 \in Int
  BY SectorAssumption
<1>3. RoundUp(x) \in Int /\ RoundUp(x) % SectorSize = 0
  BY <1>2, Sectors, Multiples DEF RoundUp, RoundDown
<1>4. x <= RoundUp(x)
  BY <1>2, Sectors, SectorAssumption DEF RoundUp
<1>5. ASSUME NEW a \in Int, a % SectorSize = 0, a <= x PROVE a <= RoundDown(x)
  <2>1. a = Sector(a) * SectorSize
    BY <1>5, Sectors DEF RoundDown
  <2>2. Sector(a) * SectorSize < Sector(x) * SectorSize + SectorSize
    BY <1>5, <2>1, Sectors, SectorAssumption DEF RoundDown
  <2> QED
    BY <2>1, <2>2, Sectors, Ordered DEF RoundDown
<1> QED
  BY <1>1, <1>3, <1>4, <1>5

\* Partitions begin and end on boundaries.
LEMMA Geometry ==
  ASSUME NEW p \in Partitions
  PROVE  /\ Base(p) \in Nat /\ Base(p) % SectorSize = 0
         /\ Bytes(p) \in Nat /\ Bytes(p) >= 2
         /\ End(p) \in Nat
<1>1. Start[p] \in Nat /\ Size[p] \in Nat /\ Size[p] >= 1
  BY PartitionsAssumption
<1>2. Start[p] * SectorSize \in Nat /\ Size[p] * SectorSize \in Nat
  BY <1>1, SectorAssumption
<1>3. Size[p] * SectorSize >= 2
  BY <1>1, SectorAssumption
<1>4. (Start[p] * SectorSize) % SectorSize = 0
  BY <1>1, Multiples
<1> QED
  BY <1>2, <1>3, <1>4 DEF Base, Bytes, End

\* Addresses are numbers, and every byte of a partition is one.
LEMMA Addresses ==
  /\ Disk \subseteq Int
  /\ \A p \in Partitions, b \in Int : Base(p) <= b /\ b < End(p) => b \in Disk
  BY Geometry DEF Disk, End
-----------------------------------------------------------------------------
(***************************************************************************)
(* Changes                                                                 *)
(***************************************************************************)

\* Nothing done is a change of any range.
LEMMA NoChange ==
  ASSUME NEW d \in Disks, NEW lo, NEW hi
  PROVE  Change(d, d, lo, hi)
  BY DEF Change

\* Patching and filling change their range, to the value.
LEMMA PatchChanges ==
  ASSUME NEW d \in Disks, NEW lo \in Int, NEW hi \in Int, NEW v \in Data
  PROVE  /\ Change(d, Patch(d, lo, hi, v), lo, hi) /\ Holds(Patch(d, lo, hi, v), lo, hi, v)
         /\ Change(d, Fill(d, lo, hi, v), lo, hi) /\ Holds(Fill(d, lo, hi, v), lo, hi, v)
  BY DEF Change, Holds, Patch, Fill, Disks

\* A change of a range is one of any wider range.
LEMMA Wider ==
  ASSUME NEW d \in Disks, NEW e, NEW lo \in Int, NEW hi \in Int, NEW a \in Int, NEW b \in Int,
         Change(d, e, a, b), lo <= a, b <= hi
  PROVE  Change(d, e, lo, hi)
  BY Addresses DEF Change

\* Two changes within a range are one of it.
LEMMA Joined ==
  ASSUME NEW d \in Disks, NEW e, NEW f, NEW lo \in Int, NEW hi \in Int,
         NEW a \in Int, NEW b \in Int, NEW x \in Int, NEW y \in Int,
         Change(d, e, a, b), Change(e, f, x, y),
         lo <= a, b <= hi, lo <= x, y <= hi
  PROVE  Change(d, f, lo, hi)
<1> SUFFICES ASSUME NEW c \in Disk, f[c] # d[c] PROVE lo <= c /\ c < hi
  BY DEF Change
<1>1. c \in Int
  BY Addresses
<1>2. CASE f[c] # e[c]
  BY <1>1, <1>2 DEF Change
<1>3. CASE e[c] # d[c]
  BY <1>1, <1>3 DEF Change
<1> QED
  BY <1>2, <1>3

\* A value held before a change above it is held after it, and below it too
\* when the change brought it there.
LEMMA HeldOn ==
  ASSUME NEW d, NEW e, NEW lo \in Int, NEW mid \in Int, NEW hi \in Int, NEW v,
         Holds(d, lo, mid, v), Change(d, e, mid, hi), Holds(e, mid, hi, v)
  PROVE  Holds(e, lo, hi, v)
<1> SUFFICES ASSUME NEW c \in Disk, lo <= c, c < hi PROVE e[c] = v
  BY DEF Holds
<1>1. c \in Int
  BY Addresses
<1>2. CASE c < mid
  BY <1>1, <1>2 DEF Holds, Change
<1>3. CASE ~(c < mid)
  BY <1>1, <1>3 DEF Holds
<1> QED
  BY <1>2, <1>3
-----------------------------------------------------------------------------
(***************************************************************************)
(* The three parts of a write                                              *)
(***************************************************************************)

\* What raw_write() relies on: the head ends on a boundary or with the range.
LEMMA Heads ==
  ASSUME NEW lo \in Int, NEW hi \in Int, lo < hi
  PROVE  /\ HeadEnd(lo, hi) \in Int /\ lo <= HeadEnd(lo, hi) /\ HeadEnd(lo, hi) <= hi
         /\ HeadEnd(lo, hi) = hi \/ HeadEnd(lo, hi) % SectorSize = 0
  BY Rounding DEF HeadEnd

\* A range that fits ends in the partition.
LEMMA Fitting ==
  ASSUME NEW p \in Partitions, NEW hi \in Int, Fits(p, hi)
  PROVE  hi <= End(p)
  BY Rounding, Geometry DEF Fits, End

LEMMA TailWrites ==
  ASSUME NEW d \in Disks, NEW lo \in Int, NEW hi \in Int, NEW v \in Data,
         NEW t \in WriteTail(d, lo, hi, v)
  PROVE  /\ Change(d, t.disk, RoundDown(hi), hi) /\ t.images = {}
         /\ \/ t.disk = d
            \/ hi % SectorSize # 0 /\ Holds(t.disk, RoundDown(hi), hi, v)
<1> DEFINE new == Patch(d, RoundDown(hi), hi, v)
<1>1. Change(d, new, RoundDown(hi), hi) /\ Holds(new, RoundDown(hi), hi, v)
  BY Sectors, PatchChanges
<1>2. t.images = {} /\ (t.disk = d \/ (hi % SectorSize # 0 /\ t.disk = new))
  BY DEF WriteTail, Step
<1> QED
  BY <1>1, <1>2, NoChange

LEMMA BulkWrites ==
  ASSUME NEW d \in Disks, NEW lo \in Int, NEW hi \in Int, NEW v \in Data,
         NEW t \in WriteBulk(d, lo, hi, v)
  PROVE  /\ Change(d, t.disk, lo, RoundDown(hi)) /\ t.images = {}
         /\ t.ok => Holds(t.disk, lo, RoundDown(hi), v)
<1>1. RoundDown(hi) \in Int
  BY Sectors
<1>2. CASE t = Step(Fill(d, lo, RoundDown(hi), v), TRUE)
  BY <1>1, <1>2, PatchChanges DEF Step
<1>3. CASE \E b \in {x \in lo..RoundDown(hi) : x % SectorSize = 0} :
             t = Step(Fill(d, lo, b, v), FALSE)
  <2>1. PICK b \in lo..RoundDown(hi) : t = Step(Fill(d, lo, b, v), FALSE)
    BY <1>3
  <2>2. b \in Int /\ b <= RoundDown(hi)
    BY <1>1, <2>1
  <2>3. Change(d, Fill(d, lo, b, v), lo, b)
    BY <2>2, PatchChanges
  <2>4. Change(d, Fill(d, lo, b, v), lo, RoundDown(hi))
    BY <1>1, <2>2, <2>3, Addresses DEF Change
  <2> QED
    BY <2>1, <2>4 DEF Step
<1> QED
  BY <1>2, <1>3 DEF WriteBulk

\* Whole sectors and a tail: what succeeds has brought the value to the sectors,
\* and to the bytes of a partial last one or to none of them.
LEMMA SectorsWritten ==
  ASSUME NEW d \in Disks, NEW lo \in Int, NEW hi \in Int, lo <= hi, lo % SectorSize = 0,
         NEW v \in Data, NEW r \in WriteSectors(d, lo, hi, v)
  PROVE  /\ Change(d, r.disk, lo, hi) /\ r.images = {}
         /\ lo <= RoundDown(hi) /\ RoundDown(hi) <= hi
         /\ r.ok => /\ Holds(r.disk, lo, RoundDown(hi), v)
                    /\ \/ Holds(r.disk, RoundDown(hi), hi, v)
                       \/ hi % SectorSize # 0 /\ Same(d, r.disk, RoundDown(hi), hi)
<1> DEFINE cut == RoundDown(hi)
<1>1. cut \in Int /\ lo <= cut /\ cut <= hi /\ (hi % SectorSize = 0 => cut = hi)
  BY Sectors, Rounding
<1>2. PICK t \in WriteTail(d, lo, hi, v) :
        r \in (IF t.ok THEN WriteBulk(t.disk, lo, hi, v) ELSE {t})
  BY DEF WriteSectors
<1>3. /\ Change(d, t.disk, cut, hi) /\ t.disk \in Disks /\ t.images = {}
      /\ t.disk = d \/ (hi % SectorSize # 0 /\ Holds(t.disk, cut, hi, v))
  BY TailWrites DEF Change
<1>4. CASE ~t.ok
  <2>1. r = t
    BY <1>2, <1>4
  <2>2. Change(d, t.disk, lo, hi)
    BY <1>1, <1>3, Wider
  <2> QED
    BY <1>1, <1>3, <1>4, <2>1, <2>2
<1>5. CASE t.ok
  <2>1. /\ Change(t.disk, r.disk, lo, cut) /\ r.images = {}
        /\ r.ok => Holds(r.disk, lo, cut, v)
    BY <1>2, <1>3, <1>5, BulkWrites
  <2>2. Change(d, r.disk, lo, hi)
    BY <1>1, <1>3, <2>1, Joined
  <2>3. ASSUME NEW b \in Disk, cut <= b PROVE r.disk[b] = t.disk[b]
    <3>1. b \in Int /\ ~(b < cut)
      BY <1>1, <2>3, Addresses
    <3> QED
      BY <2>1, <3>1 DEF Change
  <2>4. CASE t.disk = d
    <3>1. Same(d, r.disk, cut, hi)
      BY <2>3, <2>4 DEF Same
    <3>2. hi % SectorSize = 0 => Holds(r.disk, cut, hi, v)
      BY <1>1, Addresses DEF Holds
    <3> QED
      BY <1>1, <2>1, <2>2, <3>1, <3>2
  <2>5. CASE hi % SectorSize # 0 /\ Holds(t.disk, cut, hi, v)
    <3>1. Holds(r.disk, cut, hi, v)
      BY <2>3, <2>5 DEF Holds
    <3> QED
      BY <1>1, <2>1, <2>2, <3>1
  <2> QED
    BY <1>3, <2>4, <2>5
<1> QED
  BY <1>4, <1>5

\* Chunks stay in the sectors the header counts, when they are no more.
LEMMA ChunksChange ==
  ASSUME NEW d \in Disks, NEW lo \in Int, lo % SectorSize = 0, NEW h \in Headers,
         NEW raw \in SUBSET h.raw, NEW v \in Data
  PROVE  /\ Chunks(d, lo, raw, v) \in Disks
         /\ Honest(h) => Change(d, Chunks(d, lo, raw, v), lo, lo + h.total * SectorSize)
<1>1. Chunks(d, lo, raw, v) \in Disks
  BY DEF Chunks, Disks
<1>2. ASSUME Honest(h), NEW b \in Disk, Chunks(d, lo, raw, v)[b] # d[b]
      PROVE  lo <= b /\ b < lo + h.total * SectorSize
  <2>1. h.total \in Nat /\ b \in Int
    BY HeadersAssumption, Addresses
  <2>2. Sector(b) - Sector(lo) \in raw
    BY <1>2 DEF Chunks, Disks
  <2>3. Sector(b) - Sector(lo) \in 0..(h.total - 1)
    BY <1>2, <2>2 DEF Honest
  <2>4. Sector(b) \in Int /\ Sector(lo) \in Int /\ lo = Sector(lo) * SectorSize
    BY <2>1, Sectors DEF RoundDown
  <2>5. Sector(lo) <= Sector(b) /\ Sector(b) + 1 <= Sector(lo) + h.total
    BY <2>1, <2>3, <2>4
  <2>6. lo <= Sector(b) * SectorSize
    BY <2>4, <2>5, Sums
  <2>7. (Sector(b) + 1) * SectorSize <= (Sector(lo) + h.total) * SectorSize
    <3>1. Sector(b) + 1 \in Int /\ Sector(lo) + h.total \in Int
      BY <2>1, <2>4
    <3> QED
      BY <2>5, <3>1, Sums
  <2>8. /\ (Sector(b) + 1) * SectorSize = Sector(b) * SectorSize + SectorSize
        /\ (Sector(lo) + h.total) * SectorSize = lo + h.total * SectorSize
    BY <2>1, <2>4, Sums, SectorAssumption
  <2>9. Sector(b) * SectorSize <= b /\ b < Sector(b) * SectorSize + SectorSize
    BY <2>1, Sectors DEF RoundDown
  <2>10. Sector(b) * SectorSize \in Int /\ h.total * SectorSize \in Int
    BY <2>1, <2>4, SectorAssumption
  <2> QED
    BY <2>1, <2>6, <2>7, <2>8, <2>9, <2>10, SectorAssumption
<1> QED
  BY <1>1, <1>2 DEF Change

\* An image stays in the partition when it is no longer than it says.
LEMMA ImageWrites ==
  ASSUME NEW p \in Partitions, NEW d \in Disks, NEW lo \in Int, NEW hi \in Int,
         Base(p) <= lo, lo % SectorSize = 0,
         NEW h \in Headers, NEW v \in Data, NEW t \in WriteImage(p, d, lo, hi, h, v)
  PROVE  /\ t.disk \in Disks /\ t.images = {}
         /\ Honest(h) => Change(d, t.disk, Base(p), End(p))
<1> DEFINE end == lo + h.total * SectorSize
           stop == lo + (h.total - 1) * SectorSize + (hi % SectorSize)
<1>1. h.total \in Nat \ {0} /\ Base(p) \in Int /\ End(p) \in Int
  BY HeadersAssumption, Geometry
<1>2. CASE ~Fits(p, end)
  <2>1. t.disk = d /\ t.images = {}
    BY <1>2 DEF WriteImage, Step
  <2> QED
    BY <2>1, NoChange
<1>3. CASE Fits(p, end) /\ hi % SectorSize # 0
  <2>1. t \in WriteSectors(d, lo, stop, v)
    BY <1>3 DEF WriteImage
  <2>2. /\ end \in Int /\ (h.total - 1) * SectorSize \in Int
        /\ (h.total - 1) * SectorSize >= 0
        /\ h.total * SectorSize = (h.total - 1) * SectorSize + SectorSize
    BY <1>1, SectorAssumption
  <2>3. stop \in Int /\ lo <= stop /\ stop <= end
    <3>1. hi % SectorSize \in Int /\ 0 <= hi % SectorSize /\ hi % SectorSize < SectorSize
      BY Sectors, SectorAssumption
    <3> QED
      BY <2>2, <3>1, SectorAssumption
  <2>4. Change(d, t.disk, lo, stop) /\ t.images = {}
    BY <2>1, <2>3, SectorsWritten
  <2>5. end <= End(p)
    BY <1>3, <2>2, Fitting
  <2>6. stop <= End(p)
    BY <1>1, <2>2, <2>3, <2>5
  <2>7. Change(d, t.disk, Base(p), End(p))
    BY <1>1, <2>3, <2>4, <2>6, Wider
  <2> QED
    BY <2>4, <2>7 DEF Change
<1>4. CASE Fits(p, end) /\ ~(hi % SectorSize # 0)
  <2>1. PICK raw \in SUBSET h.raw : t.disk = Chunks(d, lo, raw, v) /\ t.images = {}
    BY <1>4 DEF WriteImage, Step
  <2>2. end \in Int
    BY <1>1, SectorAssumption
  <2>3. end <= End(p)
    BY <1>4, <2>2, Fitting
  <2>4. t.disk \in Disks /\ (Honest(h) => Change(d, t.disk, lo, end))
    BY <2>1, ChunksChange
  <2>5. Honest(h) => Change(d, t.disk, Base(p), End(p))
    BY <1>1, <2>2, <2>3, <2>4, Wider
  <2> QED
    BY <2>1, <2>4, <2>5
<1> QED
  BY <1>2, <1>3, <1>4

LEMMA AnyImageWrites ==
  ASSUME NEW p \in Partitions, NEW d \in Disks, NEW lo \in Int, NEW hi \in Int,
         Base(p) <= lo, lo % SectorSize = 0, NEW r \in AnyImage(p, d, lo, hi)
  PROVE  /\ r.disk \in Disks /\ r.images # {} /\ r.images \subseteq Headers
         /\ Sound(r.images) => Change(d, r.disk, Base(p), End(p))
<1> DEFINE Of(h, v) == {Took(t, {h}) : t \in WriteImage(p, d, lo, hi, h, v)}
<1> HIDE DEF Of
<1>0. PICK S \in {Of(h, v) : h \in Headers, v \in Data} : r \in S
  BY DEF AnyImage, Of
<1>1. PICK h \in Headers, v \in Data : r \in Of(h, v)
  BY <1>0
<1> USE DEF Of
<1>2. PICK t \in WriteImage(p, d, lo, hi, h, v) : r = Took(t, {h})
  BY <1>1
<1>3. /\ t.disk \in Disks /\ t.images = {}
      /\ Honest(h) => Change(d, t.disk, Base(p), End(p))
  BY ImageWrites
<1>4. r.disk = t.disk /\ r.images = {h}
  BY <1>2, <1>3 DEF Took
<1> QED
  BY <1>3, <1>4 DEF Sound

LEMMA HeadWrites ==
  ASSUME NEW p \in Partitions, NEW d \in Disks, NEW lo \in Int, NEW hi \in Int, lo < hi,
         Base(p) <= lo, NEW v \in Data, NEW h \in WriteHead(p, d, lo, hi, v)
  PROVE  /\ h.disk \in Disks /\ h.images \subseteq Headers
         /\ Sound(h.images) => Change(d, h.disk, Base(p), End(p))
         /\ h.images = {} =>
              /\ Change(d, h.disk, lo, HeadEnd(lo, hi))
              /\ h.ok => /\ Holds(h.disk, lo, HeadEnd(lo, hi), v)
                         /\ HeadEnd(lo, hi) = lo \/ HeadEnd(lo, hi) <= End(p)
<1> DEFINE mid == HeadEnd(lo, hi)
<1> DEFINE new == Patch(d, lo, mid, v)
<1>1. mid \in Int /\ Base(p) \in Int /\ End(p) \in Int
  BY Heads, Geometry
<1>2. CASE mid = lo
  <2>1. h.disk = d /\ h.images = {}
    BY <1>2 DEF WriteHead, Step
  <2>2. Holds(d, lo, lo, v)
    BY Addresses DEF Holds
  <2> QED
    BY <1>2, <2>1, <2>2, NoChange
<1>3. CASE h = Step(d, FALSE)
  <2>1. h.disk = d /\ ~h.ok /\ h.images = {}
    BY <1>3 DEF Step
  <2> QED
    BY <2>1, NoChange
<1>4. CASE h \in AnyImage(p, d, RoundDown(lo), RoundUp(lo))
  <2>1. RoundDown(lo) \in Int /\ RoundUp(lo) \in Int /\ RoundDown(lo) % SectorSize = 0
    BY Sectors, Rounding
  <2>2. Base(p) <= RoundDown(lo)
    BY <1>1, Rounding, Geometry
  <2> QED
    BY <1>4, <2>1, <2>2, AnyImageWrites
<1>5. CASE Fits(p, mid) /\ \E ok \in BOOLEAN : h = Step(new, ok)
  <2>1. mid <= End(p)
    BY <1>1, <1>5, Fitting
  <2>2. h.disk = new /\ h.images = {}
    BY <1>5 DEF Step
  <2>3. Change(d, new, lo, mid) /\ Holds(new, lo, mid, v)
    BY <1>1, PatchChanges
  <2>4. Change(d, new, Base(p), End(p))
    BY <1>1, <2>1, <2>3, Wider
  <2> QED
    BY <2>1, <2>2, <2>3, <2>4 DEF Change
<1> QED
  BY <1>2, <1>3, <1>4, <1>5 DEF WriteHead

LEMMA RestWrites ==
  ASSUME NEW p \in Partitions, NEW d \in Disks, NEW lo \in Int, NEW hi \in Int, lo <= hi,
         Base(p) <= lo, lo = hi \/ lo % SectorSize = 0,
         NEW v \in Data, NEW r \in WriteRest(p, d, lo, hi, v)
  PROVE  /\ r.disk \in Disks /\ r.images \subseteq Headers
         /\ Sound(r.images) => Change(d, r.disk, Base(p), End(p))
         /\ r.images = {} =>
              /\ Change(d, r.disk, lo, hi)
              /\ r.ok => /\ lo = hi \/ hi <= End(p)
                         /\ \/ Holds(r.disk, lo, hi, v)
                            \/ /\ lo <= RoundDown(hi) /\ hi % SectorSize # 0
                               /\ Holds(r.disk, lo, RoundDown(hi), v)
                               /\ Same(d, r.disk, RoundDown(hi), hi)
<1>0. Base(p) \in Int /\ End(p) \in Int
  BY Geometry
<1>1. CASE lo = hi
  <2>1. r.disk = d /\ r.images = {}
    BY <1>1 DEF WriteRest, Step
  <2>2. Holds(d, lo, hi, v)
    BY <1>1, Addresses DEF Holds
  <2> QED
    BY <1>1, <2>1, <2>2, NoChange
<1>2. CASE lo # hi /\ v = Magic
  <2>1. r \in AnyImage(p, d, lo, hi)
    BY <1>2 DEF WriteRest
  <2> QED
    BY <1>2, <2>1, AnyImageWrites
<1>3. CASE lo # hi /\ v # Magic /\ ~Fits(p, hi)
  <2>1. r.disk = d /\ ~r.ok /\ r.images = {}
    BY <1>3 DEF WriteRest, Step
  <2> QED
    BY <2>1, NoChange
<1>4. CASE lo # hi /\ v # Magic /\ Fits(p, hi)
  <2>1. hi <= End(p)
    BY <1>4, Fitting
  <2>2. r \in WriteSectors(d, lo, hi, v)
    BY <1>4 DEF WriteRest
  <2>3. /\ Change(d, r.disk, lo, hi) /\ r.images = {}
        /\ lo <= RoundDown(hi) /\ RoundDown(hi) <= hi
        /\ r.ok => /\ Holds(r.disk, lo, RoundDown(hi), v)
                   /\ \/ Holds(r.disk, RoundDown(hi), hi, v)
                      \/ hi % SectorSize # 0 /\ Same(d, r.disk, RoundDown(hi), hi)
    BY <1>4, <2>2, SectorsWritten
  <2>4. Change(d, r.disk, Base(p), End(p))
    BY <1>0, <2>1, <2>3, Wider
  <2>5. Holds(r.disk, lo, RoundDown(hi), v) /\ Holds(r.disk, RoundDown(hi), hi, v)
        => Holds(r.disk, lo, hi, v)
    BY Sectors, Addresses DEF Holds
  <2> QED
    BY <2>1, <2>3, <2>4, <2>5 DEF Change
<1> QED
  BY <1>1, <1>2, <1>3, <1>4

\* What a successful write has left of its range, from lo to hi: the value in all
\* of it, or in all but a partial last sector, which is as it was.
Done(d, e, lo, hi, v) ==
  \/ Holds(e, lo, hi, v)
  \/ /\ lo <= RoundDown(hi) /\ hi % SectorSize # 0
     /\ Holds(e, lo, RoundDown(hi), v)
     /\ Same(d, e, RoundDown(hi), hi)

\* A whole write.
LEMMA Writes ==
  ASSUME disk \in Disks, NEW p \in Names, NEW off \in Nat, NEW len \in Nat, NEW v \in Data,
         NEW o \in Outcomes(p, off, len, v)
  PROVE  /\ o.disk \in Disks /\ o.images \subseteq Headers
         /\ \A b \in Disk : o.disk[b] # disk[b] =>
              /\ o.images = {} => b \in Wanted(p, off, len)
              /\ Sound(o.images) => b >= Base(p) /\ b < End(p)
         /\ o.ok => p \in Partitions /\ len > 0
         /\ o.ok /\ o.images = {} =>
              /\ Base(p) + off + len <= End(p)
              /\ Done(disk, o.disk, Base(p) + off, Base(p) + off + len, v)
<1>1. CASE len = 0 \/ p = Absent
  BY <1>1 DEF Outcomes, Step
<1>2. CASE len # 0 /\ p # Absent
  <2> DEFINE lo == Base(p) + off
             hi == lo + len
             mid == HeadEnd(lo, hi)
             cut == RoundDown(hi)
  <2>1. p \in Partitions /\ Base(p) \in Nat /\ End(p) \in Nat
    BY <1>2, Geometry DEF Names
  <2>2. lo \in Int /\ hi \in Int /\ lo < hi /\ Base(p) <= lo
    BY <1>2, <2>1
  <2>3. mid \in Int /\ lo <= mid /\ mid <= hi /\ (mid = hi \/ mid % SectorSize = 0)
    BY <2>2, Heads
  <2>4. PICK h \in WriteHead(p, disk, lo, hi, v) :
          o \in (IF h.ok THEN {Took(r, h.images) : r \in WriteRest(p, h.disk, mid, hi, v)}
                 ELSE {h})
    BY <1>2 DEF Outcomes
  <2>5. /\ h.disk \in Disks /\ h.images \subseteq Headers
        /\ Sound(h.images) => Change(disk, h.disk, Base(p), End(p))
        /\ h.images = {} =>
             /\ Change(disk, h.disk, lo, mid)
             /\ h.ok => Holds(h.disk, lo, mid, v) /\ (mid = lo \/ mid <= End(p))
    BY <2>1, <2>2, HeadWrites
  <2>6. /\ o.disk \in Disks /\ o.images \subseteq Headers
        /\ Sound(o.images) => Change(disk, o.disk, Base(p), End(p))
        /\ o.images = {} => Change(disk, o.disk, lo, hi)
        /\ o.ok /\ o.images = {} => hi <= End(p) /\ Done(disk, o.disk, lo, hi, v)
    <3>1. CASE ~h.ok
      <4>1. o = h
        BY <2>4, <3>1
      <4>2. h.images = {} => Change(disk, h.disk, lo, hi)
        BY <2>2, <2>3, <2>5, Wider
      <4> QED
        BY <2>5, <3>1, <4>1, <4>2
    <3>2. CASE h.ok
      <4>1. PICK r \in WriteRest(p, h.disk, mid, hi, v) : o = Took(r, h.images)
        BY <2>4, <3>2
      <4>2. o.disk = r.disk /\ o.ok = r.ok /\ o.images = r.images \cup h.images
        BY <4>1 DEF Took
      <4>3. /\ r.disk \in Disks /\ r.images \subseteq Headers
            /\ Sound(r.images) => Change(h.disk, r.disk, Base(p), End(p))
            /\ r.images = {} =>
                 /\ Change(h.disk, r.disk, mid, hi)
                 /\ r.ok => /\ mid = hi \/ hi <= End(p)
                            /\ Done(h.disk, r.disk, mid, hi, v)
        BY <2>1, <2>2, <2>3, <2>5, RestWrites DEF Done
      <4>4. Sound(o.images) => Change(disk, o.disk, Base(p), End(p))
        <5>1. Sound(o.images) => Sound(r.images) /\ Sound(h.images)
          BY <4>2 DEF Sound
        <5> QED
          BY <2>1, <2>5, <4>2, <4>3, <5>1, Joined
      <4>5. ASSUME o.images = {} PROVE Change(disk, o.disk, lo, hi)
        BY <2>2, <2>3, <2>5, <4>2, <4>3, <4>5, Joined
      <4>6. ASSUME o.ok, o.images = {} PROVE hi <= End(p) /\ Done(disk, o.disk, lo, hi, v)
        <5>1. h.images = {} /\ r.images = {} /\ r.ok
          BY <4>2, <4>6
        <5>2. hi <= End(p)
          BY <2>2, <2>3, <2>5, <3>2, <4>3, <5>1
        <5>3. CASE Holds(r.disk, mid, hi, v)
          <6>1. Holds(r.disk, lo, hi, v)
            BY <2>2, <2>3, <2>5, <3>2, <4>3, <5>1, <5>3, HeldOn
          <6> QED
            BY <4>2, <5>2, <6>1 DEF Done
        <5>4. CASE /\ mid <= cut /\ hi % SectorSize # 0
                   /\ Holds(r.disk, mid, cut, v) /\ Same(h.disk, r.disk, cut, hi)
          <6>1. cut \in Int /\ cut <= hi
            BY <2>2, Sectors
          <6>2. \A b \in Disk : b < mid => r.disk[b] = h.disk[b]
            BY <2>3, <4>3, <5>1, Addresses DEF Change
          <6>3. ASSUME NEW b \in Disk, mid <= b PROVE h.disk[b] = disk[b]
            <7>1. b \in Int /\ ~(b < mid)
              BY <2>3, <6>3, Addresses
            <7> QED
              BY <2>5, <5>1, <7>1 DEF Change
          <6>4. Holds(r.disk, lo, cut, v)
            BY <2>2, <2>3, <2>5, <3>2, <5>1, <5>4, <6>1, <6>2, Addresses DEF Holds
          <6>5. Same(disk, r.disk, cut, hi)
            BY <2>3, <5>4, <6>1, <6>3, Addresses DEF Same
          <6>6. lo <= cut
            BY <2>2, <2>3, <5>4, <6>1
          <6> QED
            BY <4>2, <5>2, <5>4, <6>4, <6>5, <6>6 DEF Done
        <5> QED
          BY <4>3, <5>1, <5>3, <5>4 DEF Done
      <4> QED
        BY <2>5, <4>2, <4>3, <4>4, <4>5, <4>6
    <3> QED
      BY <3>1, <3>2
  <2>7. Wanted(p, off, len) = lo..(hi - 1)
    BY <1>2, <2>1 DEF Wanted
  <2>8. \A b \in Disk : o.disk[b] # disk[b] =>
              /\ o.images = {} => b \in Wanted(p, off, len)
              /\ Sound(o.images) => b >= Base(p) /\ b < End(p)
    BY <2>2, <2>6, <2>7, Addresses DEF Change
  <2> QED
    BY <1>2, <2>1, <2>6, <2>8
<1> QED
  BY <1>1, <1>2

\* The partial last sector of a range that begins before it.
LEMMA LastSectors ==
  ASSUME NEW lo \in Int, NEW hi \in Int, lo <= RoundDown(hi), hi % SectorSize # 0
  PROVE  LastSector(lo..(hi - 1)) = RoundDown(hi)..(hi - 1)
<1> DEFINE cut == RoundDown(hi)
<1>1. cut \in Int /\ cut <= hi /\ hi < cut + SectorSize /\ cut % SectorSize = 0
  BY Sectors, Rounding
<1>2. ASSUME NEW b \in lo..(hi - 1), RoundDown(b) \in lo..(hi - 1),
             RoundDown(b) + SectorSize - 1 \notin lo..(hi - 1)
      PROVE  b \in cut..(hi - 1)
  <2>1. /\ b \in Int /\ RoundDown(b) \in Int /\ RoundDown(b) <= b
        /\ lo <= RoundDown(b)
    BY <1>2, Sectors
  <2>2. hi < RoundDown(b) + SectorSize \/ hi = RoundDown(b) + SectorSize
    BY <1>2, <2>1, SectorAssumption
  <2>3. CASE hi < RoundDown(b) + SectorSize
    <3>1. /\ Sector(hi) \in Int /\ Sector(b) \in Int
          /\ cut = Sector(hi) * SectorSize /\ RoundDown(b) = Sector(b) * SectorSize
      BY <2>1, Sectors DEF RoundDown
    <3>2. cut < RoundDown(b) + SectorSize
      BY <1>1, <2>1, <2>3, SectorAssumption
    <3>3. cut <= RoundDown(b)
      BY <3>1, <3>2, Ordered
    <3> QED
      BY <1>1, <1>2, <2>1, <3>3
  <2>4. CASE hi = RoundDown(b) + SectorSize
    <3>1. Sector(b) \in Int /\ hi = (Sector(b) + 1) * SectorSize
      BY <2>1, <2>4, Sectors, Sums, SectorAssumption DEF RoundDown
    <3> QED
      BY <3>1, Multiples
  <2> QED
    BY <2>2, <2>3, <2>4
<1>3. ASSUME NEW b \in cut..(hi - 1)
      PROVE  /\ b \in lo..(hi - 1) /\ RoundDown(b) \in lo..(hi - 1)
             /\ RoundDown(b) + SectorSize - 1 \notin lo..(hi - 1)
  <2>1. b \in Int /\ cut <= b /\ b <= hi - 1
    BY <1>1, <1>3
  <2>2. RoundDown(b) \in Int /\ RoundDown(b) <= b /\ RoundDown(b) % SectorSize = 0
    BY <2>1, Sectors, Rounding
  <2>3. cut <= RoundDown(b)
    BY <1>1, <2>1, Rounding
  <2>4. RoundDown(b) <= cut
    BY <2>1, <2>2, Rounding
  <2> QED
    BY <1>1, <2>1, <2>2, <2>3, <2>4, SectorAssumption
<1> QED
  BY <1>2, <1>3 DEF LastSector
-----------------------------------------------------------------------------
(***************************************************************************)
(* The operations                                                          *)
(***************************************************************************)

\* What an AVB operation makes of its arguments is an offset in the partition
\* and a length, where the offset is not beyond the end.
LEMMA Arguments ==
  ASSUME NEW p \in Partitions, NEW lo \in Ranges, NEW len \in Lengths
  PROVE  lo < Bytes(p) => Offset(p, lo) \in Nat /\ Length(p, lo, len) \in Nat
  BY Geometry, SectorAssumption DEF Ranges, Lengths, Offset, Length

\* What is popped right after a push is what was pushed.
LEMMA PushAndPop ==
  ASSUME part \in Names, stack \in Seq(Names)
  PROVE  /\ Pushed \in Seq(Names) /\ Len(Pushed) = Len(stack) + 1
         /\ Head(Pushed) = part /\ Tail(Pushed) = stack
<1>1. <<part>> \in Seq(Names) /\ Len(<<part>>) = 1 /\ <<part>>[1] = part
  OBVIOUS
<1>2. Pushed \in Seq(Names) /\ Len(Pushed) = Len(stack) + 1
  BY <1>1, ConcatProperties DEF Pushed
<1>3. Head(Pushed) = part
  BY <1>1, <1>2, ConcatProperties DEF Pushed
<1>4. Tail(Pushed) = stack
  BY <1>1, <1>2, ConcatProperties, HeadTailProperties, SeqEqual
     DEF Pushed
<1> QED
  BY <1>2, <1>3, <1>4

\* The steps, one operator each, as the proofs below split them.
AnyConfig == \E p \in Names : raw_io_config(p)
AnyRaw == \E off \in Ranges \cap Nat, len \in Lengths, v \in Data : raw_write(off, len, v)
AnyAvb(p, lo, len) == avb_read(p, lo, len) \/ \E v \in Data : avb_write(p, lo, len, v)

LEMMA InitTypeOK == Init => TypeOK
<1> SUFFICES ASSUME Init PROVE TypeOK
  OBVIOUS
<1>1. disk \in [Disk -> Data] /\ part \in Names /\ stack \in Seq(Names) /\ Len(stack) <= MaxStack
  BY DataAssumption, StackAssumption DEF Init, Names
<1>2. last.op = "none" /\ last.part = part /\ last.res = "OK" /\ last.value \in Data
      /\ last.images = {}
  BY DataAssumption DEF Init, Quiet, Call
<1> QED
  BY <1>1, <1>2 DEF TypeOK, Results

LEMMA StepTypeOK == TypeOK /\ [Next]_vars => TypeOK'
<1> SUFFICES ASSUME TypeOK, [Next]_vars PROVE TypeOK'
  OBVIOUS
<1> USE DEF TypeOK, Results
<1>1. CASE AnyConfig
  BY <1>1, DataAssumption DEF AnyConfig, raw_io_config, Quiet, Call
<1>2. CASE AnyRaw
  <2>1. PICK off \in Ranges \cap Nat, len \in Lengths, v \in Data : raw_write(off, len, v)
    BY <1>2 DEF AnyRaw
  <2>2. PICK o \in Outcomes(part, off, len, v) :
          /\ disk' = o.disk
          /\ last' = Call("raw_write", part, IF o.ok THEN "OK" ELSE "IO",
                          Wanted(part, off, len), v, o.images)
          /\ UNCHANGED <<part, stack>>
    BY <2>1 DEF raw_write
  <2>3. len \in Nat
    BY SectorAssumption DEF Lengths
  <2>4. o.disk \in [Disk -> Data] /\ o.images \subseteq Headers
    BY <2>3, Writes DEF Disks
  <2> QED
    BY <2>2, <2>4 DEF Call
<1>3. CASE \E p \in Partitions, lo \in Ranges, len \in Lengths : AnyAvb(p, lo, len)
  <2>1. PICK p \in Partitions, lo \in Ranges, len \in Lengths : AnyAvb(p, lo, len)
    BY <1>3
  <2>2. CASE avb_read(p, lo, len)
    <3>1. part' \in Names /\ stack' \in Seq(Names) /\ Len(stack') <= MaxStack
      BY <2>2, PushAndPop, StackAssumption DEF avb_read, Popped, Names
    <3>2. last'.op = "avb_read" /\ last'.part = p /\ last'.res \in {"OK", "IO"}
          /\ last'.value \in Data /\ last'.images = {}
      BY <2>2, DataAssumption DEF avb_read, Quiet, Call
    <3> QED
      BY <2>2, <3>1, <3>2 DEF avb_read, Names
  <2>3. ASSUME NEW v \in Data, avb_write(p, lo, len, v) PROVE TypeOK'
    <3>1. Len(stack) < MaxStack /\ Len(Pushed) <= MaxStack
      BY <2>3, PushAndPop, StackAssumption DEF avb_write
    <3>2. CASE lo >= Bytes(p)
      <4>1. Popped(Pushed) /\ disk' = disk /\ last' = Call("avb_write", p, "OK", {}, v, {})
        BY <2>3, <3>2 DEF avb_write
      <4>2. part' = part /\ stack' = stack
        BY <4>1, PushAndPop DEF Popped
      <4>3. last'.op = "avb_write" /\ last'.part = p /\ last'.res = "OK" /\ last'.value = v
            /\ last'.images = {}
        BY <4>1 DEF Call
      <4> QED
        BY <4>1, <4>2, <4>3 DEF Names
    <3>3. CASE ~(lo >= Bytes(p))
      <4>1. PICK o \in Outcomes(p, Offset(p, lo), Length(p, lo, len), v) :
              /\ disk' = o.disk
              /\ IF o.ok THEN Popped(Pushed) ELSE part' = p /\ stack' = Pushed
              /\ last' = Call("avb_write", p, IF o.ok THEN "OK" ELSE "IO",
                              Wanted(p, Offset(p, lo), Length(p, lo, len)), v, o.images)
        BY <2>3, <3>3 DEF avb_write
      <4>2. lo < Bytes(p)
        BY <3>3, Geometry, SectorAssumption DEF Ranges
      <4>3. o.disk \in [Disk -> Data] /\ o.images \subseteq Headers
        BY <4>2, Arguments, Writes DEF Disks, Names
      <4>4. part' \in Names /\ stack' \in Seq(Names) /\ Len(stack') <= MaxStack
        BY <3>1, <4>1, PushAndPop DEF Popped, Names
      <4>5. last'.op = "avb_write" /\ last'.part = p /\ last'.res \in {"OK", "IO"}
            /\ last'.value = v /\ last'.images = o.images
        BY <4>1 DEF Call
      <4> QED
        BY <4>1, <4>3, <4>4, <4>5 DEF Names
    <3> QED
      BY <3>2, <3>3
  <2> QED
    BY <2>1, <2>2, <2>3 DEF AnyAvb
<1>4. CASE UNCHANGED vars
  BY <1>4 DEF vars
<1> QED
  BY <1>1, <1>2, <1>3, <1>4 DEF Next, AnyConfig, AnyRaw, AnyAvb

\* No sequence of calls and failures leaves the configuration or its stack
\* outside their ranges, nor a byte of the card with a value nobody wrote.
THEOREM TypeCorrect == Spec => []TypeOK
<1>1. Init => TypeOK
  BY InitTypeOK
<1>2. TypeOK /\ [Next]_vars => TypeOK'
  BY StepTypeOK
<1> QED
  BY <1>1, <1>2, PTL DEF Spec
-----------------------------------------------------------------------------
(***************************************************************************)
(* The properties of writes                                                *)
(***************************************************************************)
InRange ==
  \A b \in Disk : disk'[b] # disk[b] =>
    /\ last'.images = {} => b \in last'.wrote
    /\ (\A h \in last'.images : Honest(h)) =>
         b >= Base(last'.part) /\ b < Base(last'.part) + Bytes(last'.part)
OkIsWritten ==
  last'.op \in {"avb_write", "raw_write"} /\ last'.res = "OK" /\ last'.images = {} =>
    \E lost \in {{}, LastSector(last'.wrote)} : \A b \in last'.wrote :
      disk'[b] = IF b \in lost THEN disk[b] ELSE last'.value

\* One write: p, off and len are what reaches raw_write().
LEMMA OneWrite ==
  ASSUME TypeOK, NEW p \in Names, NEW off \in Nat, NEW len \in Nat, NEW v \in Data,
         NEW o \in Outcomes(p, off, len, v), disk' = o.disk,
         last'.part = p, last'.wrote = Wanted(p, off, len), last'.value = v,
         last'.images = o.images, last'.res = "OK" => o.ok
  PROVE  InRange /\ OkIsWritten
<1>0. disk \in Disks
  BY DEF TypeOK, Disks
<1>1. /\ \A b \in Disk : o.disk[b] # disk[b] =>
           /\ o.images = {} => b \in Wanted(p, off, len)
           /\ Sound(o.images) => b >= Base(p) /\ b < End(p)
      /\ o.ok => p \in Partitions /\ len > 0
      /\ o.ok /\ o.images = {} =>
           /\ Base(p) + off + len <= End(p)
           /\ Done(disk, o.disk, Base(p) + off, Base(p) + off + len, v)
  BY <1>0, Writes
<1>2. InRange
  BY <1>1 DEF InRange, Sound, End
<1>3. ASSUME last'.res = "OK", last'.images = {}
      PROVE  \E lost \in {{}, LastSector(last'.wrote)} : \A b \in last'.wrote :
               disk'[b] = IF b \in lost THEN disk[b] ELSE last'.value
  <2> DEFINE lo == Base(p) + off
             hi == lo + len
             cut == RoundDown(hi)
  <2>1. p \in Partitions /\ o.ok /\ Base(p) \in Nat /\ lo \in Nat /\ hi \in Nat /\ lo < hi
    BY <1>1, <1>3, Geometry
  <2>2. last'.wrote = lo..(hi - 1)
    BY <2>1, PartitionsAssumption DEF Wanted
  <2>3. hi <= End(p) /\ Done(disk, o.disk, lo, hi, v)
    BY <1>1, <1>3, <2>1
  <2>4. \A b \in lo..(hi - 1) : b \in Disk /\ b \in Int /\ lo <= b /\ b < hi
    BY <2>1, <2>3, Addresses, Geometry
  <2>5. CASE Holds(o.disk, lo, hi, v)
    <3>1. \A b \in last'.wrote : disk'[b] = v
      BY <2>2, <2>4, <2>5 DEF Holds
    <3> QED
      BY <3>1
  <2>6. CASE /\ lo <= cut /\ hi % SectorSize # 0
             /\ Holds(o.disk, lo, cut, v) /\ Same(disk, o.disk, cut, hi)
    <3>1. LastSector(last'.wrote) = cut..(hi - 1)
      BY <2>1, <2>2, <2>6, LastSectors
    <3>2. cut \in Int
      BY <2>1, Sectors
    <3>3. ASSUME NEW b \in lo..(hi - 1)
          PROVE  disk'[b] = IF b \in cut..(hi - 1) THEN disk[b] ELSE v
      <4>1. b \in Disk /\ b \in Int /\ lo <= b /\ b < hi
        BY <2>4, <3>3
      <4>2. CASE cut <= b
        <5>1. o.disk[b] = disk[b]
          BY <2>6, <4>1, <4>2 DEF Same
        <5> QED
          BY <2>1, <3>2, <4>1, <4>2, <5>1
      <4>3. CASE ~(cut <= b)
        <5>1. o.disk[b] = v
          BY <2>6, <3>2, <4>1, <4>3 DEF Holds
        <5> QED
          BY <3>2, <4>1, <4>3, <5>1
      <4> QED
        BY <4>2, <4>3
    <3> QED
      BY <2>2, <3>1, <3>3
  <2> QED
    BY <2>3, <2>5, <2>6 DEF Done
<1> QED
  BY <1>2, <1>3 DEF OkIsWritten

\* Every step that is not a write keeps the card.
LEMMA WriteSteps == TypeOK /\ [Next]_vars => [InRange /\ OkIsWritten]_vars
<1> SUFFICES ASSUME TypeOK, Next PROVE InRange /\ OkIsWritten
  OBVIOUS
<1>1. CASE AnyConfig
  BY <1>1 DEF AnyConfig, raw_io_config, Quiet, Call, InRange, OkIsWritten
<1>2. CASE AnyRaw
  <2>1. PICK off \in Ranges \cap Nat, len \in Lengths, v \in Data : raw_write(off, len, v)
    BY <1>2 DEF AnyRaw
  <2>2. PICK o \in Outcomes(part, off, len, v) :
          /\ disk' = o.disk
          /\ last' = Call("raw_write", part, IF o.ok THEN "OK" ELSE "IO",
                          Wanted(part, off, len), v, o.images)
    BY <2>1 DEF raw_write
  <2>3. len \in Nat /\ off \in Nat /\ part \in Names
    BY SectorAssumption DEF Lengths, TypeOK
  <2>4. last'.part = part /\ last'.wrote = Wanted(part, off, len) /\ last'.value = v
        /\ last'.images = o.images /\ (last'.res = "OK" => o.ok)
    BY <2>2 DEF Call
  <2> QED
    BY <2>2, <2>3, <2>4, OneWrite
<1>3. CASE \E p \in Partitions, lo \in Ranges, len \in Lengths : AnyAvb(p, lo, len)
  <2>1. PICK p \in Partitions, lo \in Ranges, len \in Lengths : AnyAvb(p, lo, len)
    BY <1>3
  <2>2. CASE avb_read(p, lo, len)
    BY <2>2 DEF avb_read, Quiet, Call, InRange, OkIsWritten
  <2>3. ASSUME NEW v \in Data, avb_write(p, lo, len, v) PROVE InRange /\ OkIsWritten
    <3>1. CASE lo >= Bytes(p)
      BY <2>3, <3>1 DEF avb_write, Call, InRange, OkIsWritten
    <3>2. CASE ~(lo >= Bytes(p))
      <4>1. PICK o \in Outcomes(p, Offset(p, lo), Length(p, lo, len), v) :
              /\ disk' = o.disk
              /\ last' = Call("avb_write", p, IF o.ok THEN "OK" ELSE "IO",
                              Wanted(p, Offset(p, lo), Length(p, lo, len)), v, o.images)
        BY <2>3, <3>2 DEF avb_write
      <4>2. Offset(p, lo) \in Nat /\ Length(p, lo, len) \in Nat /\ p \in Names
        BY <3>2, Arguments, Geometry, SectorAssumption DEF Ranges, Names
      <4>3. /\ last'.part = p /\ last'.value = v /\ last'.images = o.images
            /\ last'.wrote = Wanted(p, Offset(p, lo), Length(p, lo, len))
            /\ last'.res = "OK" => o.ok
        BY <4>1 DEF Call
      <4> QED
        BY <4>1, <4>2, <4>3, OneWrite
    <3> QED
      BY <3>1, <3>2
  <2> QED
    BY <2>1, <2>2, <2>3 DEF AnyAvb
<1> QED
  BY <1>1, <1>2, <1>3 DEF Next, AnyConfig, AnyRaw, AnyAvb

\* The split of a write in head, whole sectors and tail never reaches a byte
\* beside its range, wherever the range begins and ends and whatever fails; what
\* is taken for an image stays in its partition if its chunks are no more than its
\* header says.
THEOREM WritesStayInRange == Spec => WritesOnlyItsRange
<1>1. TypeOK /\ [Next]_vars => [InRange]_vars
  BY WriteSteps
<1>2. [InRange]_vars =>
      [\A b \in Disk : disk'[b] # disk[b] =>
         /\ last'.images = {} => b \in last'.wrote
         /\ (\A h \in last'.images : Honest(h)) =>
              b >= Base(last'.part) /\ b < Base(last'.part) + Bytes(last'.part)]_vars
  BY DEF InRange
<1> QED
  BY <1>1, <1>2, TypeCorrect, PTL DEF Spec, WritesOnlyItsRange

\* A write that reports success and took no image has written all of its range, or
\* all but its partial last sector, none of which it has changed.
THEOREM SuccessMeansWritten == Spec => SuccessIsWritten
<1>1. TypeOK /\ [Next]_vars => [OkIsWritten]_vars
  BY WriteSteps
<1>2. [OkIsWritten]_vars =>
      [last'.op \in {"avb_write", "raw_write"} /\ last'.res = "OK" /\ last'.images = {} =>
         \E lost \in {{}, LastSector(last'.wrote)} : \A b \in last'.wrote :
           disk'[b] = IF b \in lost THEN disk[b] ELSE last'.value]_vars
  BY DEF OkIsWritten
<1> QED
  BY <1>1, <1>2, TypeCorrect, PTL DEF Spec, SuccessIsWritten

\* A successful AVB operation gives its caller the configuration back, whatever
\* entries earlier failures have left on the stack.
THEOREM CallerKeeps == Spec => CallerKeepsItsPartition
<1> DEFINE Kept == last'.op \in {"avb_read", "avb_write"} /\ last'.res = "OK"
                   => part' = part /\ stack' = stack
<1>1. TypeOK /\ [Next]_vars => [Kept]_vars
  <2> SUFFICES ASSUME TypeOK, Next PROVE Kept
    OBVIOUS
  <2>1. CASE AnyConfig
    BY <2>1 DEF AnyConfig, raw_io_config, Quiet, Call
  <2>2. CASE AnyRaw
    BY <2>2 DEF AnyRaw, raw_write, Call
  <2>3. CASE \E p \in Partitions, lo \in Ranges, len \in Lengths : AnyAvb(p, lo, len)
    <3>1. PICK p \in Partitions, lo \in Ranges, len \in Lengths : AnyAvb(p, lo, len)
      BY <2>3
    <3>2. CASE avb_read(p, lo, len)
      BY <3>2, PushAndPop DEF avb_read, Quiet, Call, Popped, TypeOK
    <3>3. ASSUME NEW v \in Data, avb_write(p, lo, len, v) PROVE Kept
      <4>1. Popped(Pushed) => part' = part /\ stack' = stack
        BY PushAndPop DEF Popped, TypeOK
      <4>2. CASE lo >= Bytes(p)
        BY <3>3, <4>1, <4>2 DEF avb_write
      <4>3. CASE ~(lo >= Bytes(p))
        <5>1. PICK o \in Outcomes(p, Offset(p, lo), Length(p, lo, len), v) :
                /\ IF o.ok THEN Popped(Pushed) ELSE part' = p /\ stack' = Pushed
                /\ last' = Call("avb_write", p, IF o.ok THEN "OK" ELSE "IO",
                                Wanted(p, Offset(p, lo), Length(p, lo, len)), v, o.images)
          BY <3>3, <4>3 DEF avb_write
        <5>2. last'.res = "OK" => o.ok
          BY <5>1 DEF Call
        <5> QED
          BY <4>1, <5>1, <5>2
      <4> QED
        BY <4>2, <4>3
    <3> QED
      BY <3>1, <3>2, <3>3 DEF AnyAvb
  <2> QED
    BY <2>1, <2>2, <2>3 DEF Next, AnyConfig, AnyRaw, AnyAvb
<1> QED
  BY <1>1, TypeCorrect, PTL DEF Spec, CallerKeepsItsPartition
=============================================================================
