------------------------------ MODULE NetProofs ------------------------------
(***************************************************************************)
(* Proofs about the two protocols that fetch an image over the network:    *)
(* the UDP transport of fastboot, for every number of packets, every       *)
(* barrier and any number of sessions, and the TFTP client, for every      *)
(* length of file, every size of block and every number of packets lost,   *)
(* repeated or late.  The sequence numbers of fastboot have 16 bits and    *)
(* come round: what depends on them is proved for as long as they have     *)
(* not.  The block numbers of TFTP come round as well, and there the wraps *)
(* are part of what is proved.                                             *)
(***************************************************************************)
EXTENDS FbUdp, Tftp, FiniteSetTheorems, WellFoundedInduction, TLAPS
-----------------------------------------------------------------------------
(***************************************************************************)
(* The inductive invariants                                                *)
(***************************************************************************)

Seqs == 0..(SeqMod - 1)
Packets == [id : {"query", "init", "fastboot"}, seq : Seqs, sess : Sessions,
            what : {"empty", "data"} \cup Commands, num : Numbers, flag : BOOLEAN]
Codes == {"", "OKAY", "DATA", "FAIL"}
Answers == [id : {"none", "query", "init", "fastboot"}, seq : Seqs, val : Int,
            code : Codes]

\* An answer carries a packet number or none, the answer to a query a sequence number.
Sound(a) ==
  /\ a \in Answers
  /\ a.id = "none" => a = NoAnswer
  /\ a.id = "query" => a.val \in Seqs
  /\ a.id = "fastboot" => a.val \in Numbers \cup {INVALID_NUM}

\* The bytes of the packets in bits.
Bytes(bits) == 2 * Cardinality(bits) - (IF MaxNum - 1 \in bits THEN 1 ELSE 0)

\* What the host sends in a step.
IdOf(step) == IF step \in {"query", "init"} THEN step ELSE "fastboot"
WhatOf(step) ==
  IF step \in Commands THEN step ELSE IF step = "data" THEN "data" ELSE "empty"
HostTypes == [sess : Sessions, step : Steps, seq : Seqs, next : 0..MaxNum,
              out : SUBSET Packets]
Outstanding(h) ==
  \A p \in h.out : /\ p.id = IdOf(h.step) /\ p.sess = h.sess /\ p.what = WhatOf(h.step)
                   /\ p.id # "query" => p.seq = h.seq
                   /\ h.step = "data" /\ h.next < MaxNum => p.flag

\* A count of the bytes that came that does not miss nor repeat a packet, answers and
\* packets of the right form.
TypeInv ==
  /\ TypeOK
  /\ toDevice \subseteq Packets
  /\ \A m \in toHost : /\ m \in [to : Sessions, answer : Answers]
                       /\ Sound(m.answer) /\ m.answer.id # "none"
  /\ Sound(fb_packet)
  /\ log \in Seq(Sessions \X Commands)
  /\ host \in HostTypes /\ Outstanding(host)
  /\ downloading => received = Bytes(receive_bitmap)

\* The sequence numbers have not come round.
Unwrapped == fb_expected_seq < SeqMod - 1

Sent == {p \in toDevice : p.id # "query"}
Asking == host.step = "query"
Started == host.step \notin {"query", "init"}

\* Answers the host reads now: to its session.
Mine == {m \in toHost : m.to = host.sess}

\* The device is never behind what was sent, and never more than one step ahead of the
\* host; a session that asks where the device is has nothing else under way.
SeqInv ==
  /\ \A p \in toDevice : p.sess <= host.sess
  /\ \A p \in Sent : p.seq <= fb_expected_seq
  /\ \A m \in toHost : /\ m.to <= host.sess
                       /\ m.answer.id # "query" => m.answer.seq < fb_expected_seq
  /\ fb_packet.id \in {"init", "fastboot"} => fb_packet.seq + 1 = fb_expected_seq
  /\ Asking =>
       /\ \A p \in Sent : p.sess < host.sess
       /\ \A m \in Mine :
            /\ m.answer.id = "query"
            /\ m.answer.val <= fb_expected_seq /\ fb_expected_seq <= m.answer.val + 1
            /\ \A p \in Sent : p.seq <= m.answer.val
  /\ ~Asking =>
       /\ host.seq <= fb_expected_seq /\ fb_expected_seq <= host.seq + 1
       /\ \A p \in Sent : p.seq <= host.seq
  /\ Started => \A p \in Sent : p.seq = fb_expected_seq => p \in host.out

Whole(s) == \A n \in Numbers : mem[n] = s
Stored(s) == \A n \in receive_bitmap : mem[n] = s
Current == {p \in toDevice : p.id = "fastboot" /\ p.seq = fb_expected_seq}
Accepted == fb_expected_seq = host.seq + 1

\* The answer tells whether the download is over.
Tells(a) == a.id = "fastboot" /\ a.seq = host.seq => (a.val = INVALID_NUM <=> ~downloading)

\* What the device makes of the packets it would take next, and where the download is
\* when the host has its answer.
PhaseInv ==
  /\ \A p \in Current :
       /\ p.what \in Commands => ~downloading
       /\ p.what = "data" => downloading /\ Stored(p.sess)
       /\ p.what = "flash" => Whole(p.sess)
       /\ \A q \in Current : q.sess = p.sess
  /\ fb_packet.id = "init" => ~downloading
  /\ host.step = "init" =>
       \A m \in Mine : m.answer.id = "init" /\ m.answer.seq = host.seq => ~downloading
  /\ host.step = "download" /\ Accepted => downloading /\ receive_bitmap = {}
  /\ host.step = "download status" => downloading /\ receive_bitmap = {}
  /\ host.step = "data" =>
       \/ downloading /\ Stored(host.sess)
       \/ host.next = MaxNum /\ Accepted /\ ~downloading /\ Whole(host.sess)
  /\ host.step = "data" /\ host.next = MaxNum =>
       Tells(fb_packet) /\ \A m \in Mine : Tells(m.answer)
  /\ host.step \in {"data status", "flash"} => ~downloading /\ Whole(host.sess)

Orders == {p \in toDevice : p.id = "fastboot" /\ p.what \in Commands}

\* A command has one packet, the sequence number of a download is before that of the
\* flash, and the device is past the packets of the commands it ran.
LogInv ==
  /\ CommandsOnce
  /\ \A i \in 1..Len(log) :
       \E p \in Orders : log[i] = <<p.sess, p.what>> /\ p.seq < fb_expected_seq
  /\ \A p, q \in Orders : p.sess = q.sess =>
       /\ p.what = q.what => p.seq = q.seq
       /\ p.what = "download" /\ q.what = "flash" => p.seq < q.seq
  /\ \A p \in Orders : p.sess = host.sess =>
       /\ Started
       /\ p.what = "flash" => host.step \in {"flash", "flash status", "done"}

ProtocolInv == SeqInv /\ PhaseInv /\ LogInv

\* The sequence numbers of a session: one for each of six steps, at most as many windows
\* as packets, and as many packets asked for again.
SessionNumbers == 2 * MaxNum + 5

\* Session s starts no later than here.
Begin(s) == (s - 1) * SessionNumbers

Missing == MaxNum - Cardinality(receive_bitmap)

\* The numbers the host may still use, with the one it waits on.
Left ==
  CASE host.step = "init" -> 2 * MaxNum + 5
    [] host.step = "download" -> 2 * MaxNum + 4
    [] host.step = "download status" -> 2 * MaxNum + 3
    [] host.step = "data" -> IF host.next < MaxNum THEN 2 * MaxNum - host.next + 3
                             ELSE Missing + 3 + (IF Accepted THEN 1 ELSE 0)
    [] host.step = "data status" -> 3
    [] host.step = "flash" -> 2
    [] OTHER -> 1

BudgetInv ==
  /\ Asking => /\ fb_expected_seq <= Begin(host.sess)
               /\ \A p \in Sent : p.seq < Begin(host.sess)
  /\ ~Asking => host.seq + Left <= Begin(host.sess + 1)

\* A packet without the flag is one that is missing: the last one the first time, and
\* then what the device asks for.
WindowInv ==
  host.step = "data" =>
    /\ host.next < MaxNum => /\ \A n \in receive_bitmap : n < host.next
                             /\ \A p \in host.out : p.num < host.next
    /\ \A p \in host.out : /\ ~Accepted /\ ~p.flag => p.num \notin receive_bitmap
                           /\ p.flag /\ host.next = MaxNum => p.num % kBarrierNum # 0
    /\ \A p, q \in host.out : p.flag /\ ~q.flag => p.num # q.num
    /\ host.next = MaxNum =>
         \A a \in {fb_packet} \cup {m.answer : m \in Mine} :
           a.id = "fastboot" /\ a.seq = host.seq => a.val \notin receive_bitmap
-----------------------------------------------------------------------------
(***************************************************************************)
(* Numbers: the end of a window, the first missing packet, the bytes       *)
(***************************************************************************)

\* A set of numbers has a least one: of the finite sets 0..n for n in the set, one has
\* none of the others strictly within it.
LEMMA LeastElement ==
  ASSUME NEW S \in SUBSET Nat, S # {}
  PROVE  \E n \in S : \A m \in S : n <= m
<1> DEFINE R == StrictSubsetOrdering(Nat)
           F == {0..m : m \in S}
<1>1. F \subseteq FiniteSubsetsOf(Nat) /\ F # {}
  <2>1. \A m \in S : IsFiniteSet(0..m) /\ 0..m \subseteq Nat
    BY FS_Interval
  <2> QED
    BY <2>1 DEF FiniteSubsetsOf
<1>2. IsWellFoundedOn(R, FiniteSubsetsOf(Nat))
  BY FS_StrictSubsetOrderingWellFounded
<1> HIDE DEF R, F
<1>3. PICK x \in F : \A y \in F : ~(<<y, x>> \in R)
  BY <1>1, <1>2, WFMin
<1>4. PICK n \in S : x = 0..n
  BY DEF F
<1>5. ASSUME NEW m \in S, m < n PROVE FALSE
  <2>1. 0..m \in F /\ 0..m \subseteq 0..n /\ 0..m # 0..n
    BY <1>5 DEF F
  <2>2. <<0..m, x>> \in R
    BY <1>4, <2>1, SMT DEF R, StrictSubsetOrdering
  <2> QED
    BY <1>3, <2>1, <2>2
<1> QED
  BY <1>5

LEMMA WindowEndType ==
  ASSUME NEW from \in Numbers
  PROVE  /\ WindowEnd(from) \in from..(MaxNum - 1)
         /\ \A m \in from..(WindowEnd(from) - 1) : m % kBarrierNum # 0
<1> DEFINE Q(n) == n % kBarrierNum = 0 \/ n = MaxNum - 1
           Ends == {n \in from..(MaxNum - 1) : Q(n)}
<1>0. MaxNum \in Nat \ {0} /\ from \in 0..(MaxNum - 1)
  BY PacketsAssumption DEF Numbers
<1>1. Ends \in SUBSET Nat /\ MaxNum - 1 \in Ends
  BY <1>0
<1> HIDE DEF Q
<1>2. PICK e \in Ends : \A m \in Ends : e <= m
  BY <1>1, LeastElement
<1>3. e \in from..(MaxNum - 1) /\ Q(e) /\ \A m \in from..(e - 1) : ~Q(m)
  BY <1>0, <1>2
<1>4. \A m \in from..(e - 1) : m % kBarrierNum # 0
  BY <1>3 DEF Q
<1> QED
  BY <1>3, <1>4 DEF WindowEnd, Q

\* first_unset_bit() names a packet as long as one is missing.
LEMMA FirstMissingType ==
  ASSUME NEW bits \in SUBSET Numbers
  PROVE  /\ FirstMissing(bits) \in 0..MaxNum /\ FirstMissing(bits) \notin bits
         /\ bits # Numbers => FirstMissing(bits) \in Numbers
<1> DEFINE Absent == {n \in 0..MaxNum : n \notin bits}
           f == FirstMissing(bits)
<1>0. MaxNum \in Nat \ {0} /\ MaxNum \notin bits
  BY PacketsAssumption DEF Numbers
<1>1. Absent \in SUBSET Nat /\ MaxNum \in Absent
  BY <1>0
<1>2. PICK e \in Absent : \A m \in Absent : e <= m
  BY <1>1, LeastElement
<1>3. e \in 0..MaxNum /\ e \notin bits /\ \A m \in 0..(e - 1) : m \in bits
  BY <1>0, <1>2
<1>4. f \in 0..MaxNum /\ f \notin bits /\ \A m \in 0..(f - 1) : m \in bits
  BY <1>3 DEF FirstMissing
<1>5. ASSUME f = MaxNum PROVE bits = Numbers
  BY <1>4, <1>5 DEF Numbers
<1> QED
  BY <1>0, <1>4, <1>5 DEF Numbers

LEMMA NumbersAreFinite ==
  /\ MaxNum \in Nat \ {0} /\ MaxNum - 1 \in Numbers
  /\ IsFiniteSet(Numbers) /\ Cardinality(Numbers) = MaxNum
<1>1. MaxNum \in Nat \ {0}
  BY PacketsAssumption
<1> QED
  BY <1>1, FS_Interval DEF Numbers

LEMMA TotalType == Total \in Nat /\ 0 \in 0..Total
  BY NumbersAreFinite DEF Total

\* The count is the total exactly when every packet is there.
LEMMA BytesType ==
  ASSUME NEW bits \in SUBSET Numbers
  PROVE  /\ Bytes(bits) \in 0..Total
         /\ Bytes(bits) = Total <=> bits = Numbers
<1> DEFINE c == Cardinality(bits)
<1>1. c \in Nat /\ c <= MaxNum /\ (c = MaxNum => bits = Numbers) /\ IsFiniteSet(bits)
  BY NumbersAreFinite, FS_Subset, FS_CardinalityType
<1>2. bits = Numbers => c = MaxNum
  BY NumbersAreFinite
<1>3. MaxNum - 1 \in bits => c > 0
  BY <1>1, FS_EmptySet
<1>4. MaxNum - 1 \notin bits => c < MaxNum
  BY <1>1, NumbersAreFinite
<1> QED
  BY <1>1, <1>2, <1>3, <1>4, NumbersAreFinite DEF Bytes, Total

LEMMA BytesAdd ==
  ASSUME NEW bits \in SUBSET Numbers, NEW n \in Numbers, n \notin bits
  PROVE  Bytes(bits \cup {n}) = Bytes(bits) + Size(n)
<1>1. IsFiniteSet(bits) /\ Cardinality(bits) \in Nat
  BY NumbersAreFinite, FS_Subset, FS_CardinalityType
<1>2. Cardinality(bits \cup {n}) = Cardinality(bits) + 1
  BY <1>1, FS_AddElement
<1>3. CASE n = MaxNum - 1
  BY <1>1, <1>2, <1>3, NumbersAreFinite DEF Bytes, Size
<1>4. CASE n # MaxNum - 1
  BY <1>1, <1>2, <1>4, NumbersAreFinite DEF Bytes, Size
<1> QED
  BY <1>3, <1>4

LEMMA BytesNone == Bytes({}) = 0
  BY FS_EmptySet, NumbersAreFinite DEF Bytes
-----------------------------------------------------------------------------
(***************************************************************************)
(* Types: the device                                                       *)
(***************************************************************************)

LEMMA SeqModType == SeqMod \in Nat \ {0}
  BY DEF SeqMod

\* The next sequence number, which is 0 only after the last one.
LEMMA AfterType ==
  ASSUME NEW seq \in Seqs
  PROVE  After(seq) \in Seqs /\ (seq < SeqMod - 1 => After(seq) = seq + 1)
<1>1. seq + 1 \in Nat
  BY SeqModType DEF Seqs
<1>2. \A a \in Nat, b \in Nat \ {0} : a % b \in 0..(b - 1)
  OBVIOUS
<1>3. \A a \in Nat, b \in Nat \ {0} : a < b => a % b = a
  OBVIOUS
<1>4. After(seq) \in Seqs
  BY <1>1, <1>2, SeqModType DEF After, Seqs
<1>5. seq < SeqMod - 1 => After(seq) = seq + 1
  BY <1>1, <1>3, SeqModType DEF After, Seqs
<1> QED
  BY <1>4, <1>5

\* The answers the device gives have the right form.
LEMMA SoundQuery ==
  ASSUME NEW seq \in Seqs, NEW val \in Seqs
  PROVE  Sound(Answer("query", seq, val, "")) /\ Answer("query", seq, val, "").id # "none"
<1>1. val \in Int
  BY SeqModType DEF Seqs
<1> QED
  BY <1>1 DEF Answer, Sound, Answers, Codes

LEMMA SoundInit ==
  ASSUME NEW seq \in Seqs
  PROVE  Sound(Answer("init", seq, 0, "")) /\ Answer("init", seq, 0, "").id # "none"
  BY DEF Answer, Sound, Answers, Codes

LEMMA SoundFastboot ==
  ASSUME NEW seq \in Seqs, NEW val \in Numbers \cup {INVALID_NUM},
         NEW code \in Codes
  PROVE  /\ Sound(Answer("fastboot", seq, val, code))
         /\ Answer("fastboot", seq, val, code).id # "none"
<1>1. CASE val \in Numbers
  <2>1. val \in Int
    BY <1>1, NumbersAreFinite DEF Numbers
  <2> QED
    BY <1>1, <2>1 DEF Answer, Sound, Answers
<1>2. CASE val = INVALID_NUM
  <2>1. val \in Int
    BY <1>2 DEF INVALID_NUM
  <2> QED
    BY <1>2, <2>1 DEF Answer, Sound, Answers
<1> QED
  BY <1>1, <1>2

\* The answers the host may read are those sent before and, perhaps, the new one.
LEMMA SendEffect ==
  ASSUME NEW p, NEW a, Send(p, a)
  PROVE  \/ toHost' = toHost
         \/ toHost' = toHost \cup {[to |-> p.sess, answer |-> a]}
  BY DEF Send

LEMMA SendType ==
  ASSUME TypeInv, NEW p \in Packets, NEW a, Sound(a), a.id # "none", Send(p, a)
  PROVE  \A m \in toHost' : /\ m \in [to : Sessions, answer : Answers]
                            /\ Sound(m.answer) /\ m.answer.id # "none"
<1> DEFINE new == [to |-> p.sess, answer |-> a]
<1>1. new \in [to : Sessions, answer : Answers] /\ new.answer = a
  BY DEF Packets, Sound
<1>2. toHost' = toHost \/ toHost' = toHost \cup {new}
  BY SendEffect
<1> QED
  BY <1>1, <1>2 DEF TypeInv

\* A packet of the download is kept and counted unless it has come before.
LEMMA StoreType ==
  ASSUME TypeInv, downloading, NEW p \in Packets, Store(p)
  PROVE  /\ receive_bitmap' = receive_bitmap \cup {p.num}
         /\ receive_bitmap' \subseteq Numbers
         /\ received' = Bytes(receive_bitmap') /\ received' \in 0..Total
         /\ mem' \in [Numbers -> Sessions \cup {0}]
         /\ \A n \in Numbers :
              mem'[n] = IF n = p.num /\ p.num \notin receive_bitmap THEN p.sess ELSE mem[n]
<1>1. p.num \in Numbers /\ p.sess \in Sessions
  BY DEF Packets
<1>2. /\ receive_bitmap \in SUBSET Numbers /\ received = Bytes(receive_bitmap)
      /\ mem \in [Numbers -> Sessions \cup {0}]
  BY DEF TypeInv, TypeOK
<1>3. CASE p.num \in receive_bitmap
  <2>1. UNCHANGED <<receive_bitmap, mem, received>>
    BY <1>3 DEF Store
  <2>2. receive_bitmap' = receive_bitmap \cup {p.num}
    BY <1>3, <2>1
  <2> QED
    BY <1>2, <1>3, <2>1, <2>2, BytesType
<1>4. CASE p.num \notin receive_bitmap
  <2>1. /\ receive_bitmap' = receive_bitmap \cup {p.num}
        /\ mem' = [mem EXCEPT ![p.num] = p.sess]
        /\ received' = received + Size(p.num)
    BY <1>4 DEF Store
  <2>2. received' = Bytes(receive_bitmap') /\ receive_bitmap' \in SUBSET Numbers
    BY <1>1, <1>2, <1>4, <2>1, BytesAdd
  <2> QED
    BY <1>1, <1>2, <1>4, <2>1, <2>2, BytesType
<1> QED
  BY <1>3, <1>4

LEMMA DeviceType ==
  ASSUME TypeInv, UNCHANGED <<host, toDevice>>, late' \in 0..Disturbances,
         fb_expected_seq' \in Seqs, Sound(fb_packet'),
         status' \in {"OKAY", "DATA", "FAIL"}, downloading' \in BOOLEAN,
         receive_bitmap' \subseteq Numbers, received' \in 0..Total,
         downloading' => received' = Bytes(receive_bitmap'),
         mem' \in [Numbers -> Sessions \cup {0}],
         log' \in Seq(Sessions \X Commands),
         \A m \in toHost' : /\ m \in [to : Sessions, answer : Answers]
                            /\ Sound(m.answer) /\ m.answer.id # "none"
  PROVE  TypeInv'
<1>1. fb_packet'.seq \in Seqs
  BY DEF Sound, Answers
<1>2. TypeOK'
  BY <1>1 DEF TypeInv, TypeOK, Seqs
<1>3. (host \in HostTypes)' /\ Outstanding(host)'
  BY DEF TypeInv, Outstanding
<1> QED
  BY <1>2, <1>3 DEF TypeInv

\* What a step of the device does not touch has the types it had.
LEMMA Unpacked ==
  ASSUME TypeInv
  PROVE  /\ fb_expected_seq \in Seqs /\ After(fb_expected_seq) \in Seqs
         /\ Sound(fb_packet) /\ status \in {"OKAY", "DATA", "FAIL"}
         /\ downloading \in BOOLEAN /\ receive_bitmap \subseteq Numbers
         /\ received \in 0..Total /\ (downloading => received = Bytes(receive_bitmap))
         /\ mem \in [Numbers -> Sessions \cup {0}] /\ log \in Seq(Sessions \X Commands)
         /\ late \in 0..Disturbances /\ toDevice \subseteq Packets
         /\ \A m \in toHost : /\ m \in [to : Sessions, answer : Answers]
                              /\ Sound(m.answer) /\ m.answer.id # "none"
<1>1. downloading \in BOOLEAN
  BY Zenon DEF TypeInv, TypeOK
<1>2. fb_expected_seq \in Seqs
  BY DEF TypeInv, TypeOK, Seqs
<1>3. After(fb_expected_seq) \in Seqs
  BY <1>2, AfterType
<1> QED
  BY <1>1, <1>2, <1>3 DEF TypeInv, TypeOK

\* A new response is kept and sent.
LEMMA RespondType ==
  ASSUME TypeInv, NEW p \in Packets, NEW a, Sound(a), a.id # "none", Respond(p, a)
  PROVE  /\ Sound(fb_packet') /\ fb_packet' = a
         /\ \A m \in toHost' : /\ m \in [to : Sessions, answer : Answers]
                               /\ Sound(m.answer) /\ m.answer.id # "none"
<1>1. fb_packet' = a /\ Send(p, a)
  BY DEF Respond
<1> QED
  BY <1>1, SendType

\* The queries, of which only so many come late.
LEMMA QueryType ==
  ASSUME TypeInv, NEW p \in toDevice, DeviceQuery(p), UNCHANGED <<host, toDevice>>
  PROVE  TypeInv'
<1>0. /\ p \in Packets /\ p.seq \in Seqs
      /\ late \in 0..Disturbances /\ host.sess \in Sessions
  BY DEF TypeInv, TypeOK, Packets
<1>1. late' \in 0..Disturbances
  <2>1. late' = late \/ (host.sess + late <= Disturbances /\ late' = late + 1)
    BY DEF DeviceQuery
  <2>2. host.sess \in 1..(Disturbances + 1) /\ Disturbances \in Nat
    BY <1>0, BoundAssumption DEF Sessions
  <2> QED
    BY <1>0, <2>1, <2>2
<1>2. /\ Respond(p, Answer("query", p.seq, fb_expected_seq, ""))
      /\ UNCHANGED <<fb_expected_seq, status, downloading, receive_bitmap, received,
                     mem, log>>
  BY DEF DeviceQuery
<1>3. /\ Sound(fb_packet')
      /\ \A m \in toHost' : /\ m \in [to : Sessions, answer : Answers]
                            /\ Sound(m.answer) /\ m.answer.id # "none"
  <2> DEFINE a == Answer("query", p.seq, fb_expected_seq, "")
  <2>1. Sound(a) /\ a.id # "none" /\ Respond(p, a)
    BY <1>0, <1>2, Unpacked, SoundQuery
  <2> HIDE DEF a
  <2> QED
    BY <1>0, <2>1, RespondType
<1> QED
  BY <1>1, <1>2, <1>3, Unpacked, DeviceType

LEMMA InitializationType ==
  ASSUME TypeInv, NEW p \in toDevice, Initialization(p),
         UNCHANGED <<host, toDevice, late>>
  PROVE  TypeInv'
<1>0. p \in Packets /\ p.seq \in Seqs
  BY DEF TypeInv, Packets
<1>1. /\ Respond(p, Answer("init", p.seq, 0, ""))
      /\ fb_expected_seq' = After(fb_expected_seq)
      /\ status' = "OKAY" /\ downloading' = FALSE /\ received' = 0
      /\ UNCHANGED <<receive_bitmap, mem, log>>
  BY <1>0 DEF Initialization, Packets, Forget
<1>2. /\ Sound(fb_packet')
      /\ \A m \in toHost' : /\ m \in [to : Sessions, answer : Answers]
                            /\ Sound(m.answer) /\ m.answer.id # "none"
  <2> DEFINE a == Answer("init", p.seq, 0, "")
  <2>1. Sound(a) /\ a.id # "none" /\ Respond(p, a)
    BY <1>0, <1>1, SoundInit
  <2> HIDE DEF a
  <2> QED
    BY <1>0, <2>1, RespondType
<1>3. received' \in 0..Total
  BY <1>1, TotalType
<1>4. ~downloading' /\ downloading' \in BOOLEAN
  BY <1>1
<1> QED
  BY <1>1, <1>2, <1>3, <1>4, Unpacked, DeviceType

LEMMA RepeatedType ==
  ASSUME TypeInv, NEW p \in toDevice, Repeated(p), UNCHANGED <<host, toDevice, late>>
  PROVE  TypeInv'
<1>0. p \in Packets /\ Sound(fb_packet)
  BY DEF TypeInv
<1>1. UNCHANGED <<fb_expected_seq, fb_packet, status, downloading, receive_bitmap,
                  received, mem, log>>
  BY DEF Repeated, Resend, dvars
<1>2. toHost' = toHost \/ (fb_packet # NoAnswer /\ Send(p, fb_packet))
  BY DEF Repeated, Resend
<1>3. \A m \in toHost' : /\ m \in [to : Sessions, answer : Answers]
                         /\ Sound(m.answer) /\ m.answer.id # "none"
  <2>1. CASE toHost' = toHost
    BY <2>1, Unpacked
  <2>2. CASE fb_packet # NoAnswer /\ Send(p, fb_packet)
    <3>1. fb_packet.id # "none"
      BY <1>0, <2>2 DEF Sound
    <3> QED
      BY <1>0, <2>2, <3>1, SendType
  <2> QED
    BY <1>2, <2>1, <2>2
<1> QED
  BY <1>1, <1>3, Unpacked, DeviceType

LEMMA StatusType ==
  ASSUME TypeInv, NEW p \in toDevice, Status(p), UNCHANGED <<host, toDevice, late>>
  PROVE  TypeInv'
<1>0. p \in Packets /\ p.seq \in Seqs
  BY DEF TypeInv, Packets
<1>1. /\ Respond(p, Answer("fastboot", p.seq, INVALID_NUM, status))
      /\ fb_expected_seq' = After(fb_expected_seq)
      /\ UNCHANGED <<status, downloading, receive_bitmap, received, mem, log>>
  BY DEF Status
<1>2. /\ Sound(fb_packet')
      /\ \A m \in toHost' : /\ m \in [to : Sessions, answer : Answers]
                            /\ Sound(m.answer) /\ m.answer.id # "none"
  <2> DEFINE a == Answer("fastboot", p.seq, INVALID_NUM, status)
  <2>1. Sound(a) /\ a.id # "none" /\ Respond(p, a)
    BY <1>0, <1>1, Unpacked, SoundFastboot DEF Codes
  <2> HIDE DEF a
  <2> QED
    BY <1>0, <2>1, RespondType
<1> QED
  BY <1>1, <1>2, Unpacked, DeviceType

LEMMA CommandType ==
  ASSUME TypeInv, NEW p \in toDevice, Command(p), UNCHANGED <<host, toDevice, late>>
  PROVE  TypeInv'
<1>0. p \in Packets /\ p.seq \in Seqs
  BY DEF TypeInv, Packets
<1>1. /\ Respond(p, Answer("fastboot", p.seq, INVALID_NUM, ""))
      /\ fb_expected_seq' = After(fb_expected_seq)
      /\ log' = Append(log, <<p.sess, p.what>>) /\ p.what \in Commands
      /\ \/ /\ status' = "DATA" /\ downloading' = TRUE
            /\ received' = 0 /\ receive_bitmap' = {}
         \/ status' = "OKAY" /\ UNCHANGED <<downloading, received, receive_bitmap>>
      /\ UNCHANGED mem
  BY <1>0 DEF Command, Ack
<1>2. /\ Sound(fb_packet')
      /\ \A m \in toHost' : /\ m \in [to : Sessions, answer : Answers]
                            /\ Sound(m.answer) /\ m.answer.id # "none"
  <2> DEFINE a == Answer("fastboot", p.seq, INVALID_NUM, "")
  <2>1. Sound(a) /\ a.id # "none" /\ Respond(p, a)
    BY <1>0, <1>1, SoundFastboot DEF Codes
  <2> HIDE DEF a
  <2> QED
    BY <1>0, <2>1, RespondType
<1>3. log' \in Seq(Sessions \X Commands)
  <2> DEFINE S == Sessions \X Commands
             e == <<p.sess, p.what>>
  <2>1. e \in S /\ log \in Seq(S) /\ log' = Append(log, e)
    BY <1>0, <1>1, Unpacked DEF Packets
  <2> HIDE DEF S, e
  <2>2. log' \in Seq(S)
    BY <2>1
  <2> QED
    BY <2>2 DEF S
<1>4. /\ downloading' \in BOOLEAN /\ receive_bitmap' \subseteq Numbers
      /\ received' \in 0..Total /\ (downloading' => received' = Bytes(receive_bitmap'))
      /\ status' \in {"OKAY", "DATA", "FAIL"}
  <2>1. CASE status' = "DATA" /\ downloading' = TRUE /\ received' = 0
             /\ receive_bitmap' = {}
    BY <2>1, BytesNone, TotalType
  <2>2. CASE status' = "OKAY" /\ UNCHANGED <<downloading, received, receive_bitmap>>
    BY <2>2, Unpacked
  <2> QED
    BY <1>1, <2>1, <2>2
<1> QED
  BY <1>1, <1>2, <1>3, <1>4, Unpacked, DeviceType

LEMMA DownloadContType ==
  ASSUME TypeInv, NEW p \in toDevice, DownloadCont(p), UNCHANGED <<host, toDevice, late>>
  PROVE  TypeInv'
<1>0. /\ p \in Packets /\ p.seq \in Seqs /\ p.num \in Numbers
      /\ p.id = "fastboot" /\ downloading
  BY DEF TypeInv, Packets, DownloadCont
<1>1. /\ status' \in {"FAIL", status} /\ UNCHANGED <<downloading, log>> /\ Store(p)
      /\ \/ /\ fb_expected_seq' = After(fb_expected_seq)
            /\ Respond(p, Answer("fastboot", p.seq, p.num, ""))
         \/ UNCHANGED <<fb_expected_seq, fb_packet, toHost>>
  BY <1>0 DEF DownloadCont, Ack
<1>2. /\ fb_expected_seq' \in Seqs /\ Sound(fb_packet')
      /\ \A m \in toHost' : /\ m \in [to : Sessions, answer : Answers]
                            /\ Sound(m.answer) /\ m.answer.id # "none"
  <2>1. CASE /\ fb_expected_seq' = After(fb_expected_seq)
             /\ Respond(p, Answer("fastboot", p.seq, p.num, ""))
    <3> DEFINE a == Answer("fastboot", p.seq, p.num, "")
    <3>1. Sound(a) /\ a.id # "none" /\ Respond(p, a)
      BY <1>0, <2>1, SoundFastboot DEF Codes
    <3> HIDE DEF a
    <3>2. Sound(fb_packet')
      BY <1>0, <3>1, RespondType
    <3> QED
      BY <1>0, <2>1, <3>1, <3>2, Unpacked, RespondType
  <2>2. CASE UNCHANGED <<fb_expected_seq, fb_packet, toHost>>
    BY <2>2, Unpacked
  <2> QED
    BY <1>1, <2>1, <2>2
<1>3. /\ receive_bitmap' \subseteq Numbers /\ received' = Bytes(receive_bitmap')
      /\ received' \in 0..Total /\ mem' \in [Numbers -> Sessions \cup {0}]
  BY <1>0, <1>1, StoreType
<1>4. status' \in {"OKAY", "DATA", "FAIL"} /\ downloading' \in BOOLEAN
  BY <1>1, Unpacked
<1> QED
  BY <1>1, <1>2, <1>3, <1>4, Unpacked, DeviceType

LEMMA DownloadEndType ==
  ASSUME TypeInv, NEW p \in toDevice, DownloadEnd(p), UNCHANGED <<host, toDevice, late>>
  PROVE  TypeInv'
<1>0. p \in Packets /\ p.seq \in Seqs /\ p.id = "fastboot" /\ downloading
  BY DEF TypeInv, Packets, DownloadEnd
<1>1. /\ Store(p) /\ log' = log /\ fb_expected_seq' = After(fb_expected_seq)
      /\ \/ /\ received' = Total /\ status' = "OKAY" /\ downloading' = FALSE
            /\ Respond(p, Answer("fastboot", p.seq, INVALID_NUM, ""))
         \/ /\ received' # Total /\ UNCHANGED <<status, downloading>>
            /\ Respond(p, Answer("fastboot", p.seq, FirstMissing(receive_bitmap'), ""))
  BY <1>0 DEF DownloadEnd, Complete, Ack
<1>2. /\ receive_bitmap' \in SUBSET Numbers /\ received' = Bytes(receive_bitmap')
      /\ received' \in 0..Total /\ mem' \in [Numbers -> Sessions \cup {0}]
  BY <1>0, <1>1, StoreType
<1>3. received' # Total => FirstMissing(receive_bitmap') \in Numbers
  BY <1>2, BytesType, FirstMissingType
<1>4. /\ Sound(fb_packet')
      /\ \A m \in toHost' : /\ m \in [to : Sessions, answer : Answers]
                            /\ Sound(m.answer) /\ m.answer.id # "none"
  <2> DEFINE val == IF received' = Total THEN INVALID_NUM ELSE FirstMissing(receive_bitmap')
             a == Answer("fastboot", p.seq, val, "")
  <2>1. val \in Numbers \cup {INVALID_NUM} /\ Respond(p, a)
    BY <1>1, <1>3
  <2> HIDE DEF val
  <2>2. Sound(a) /\ a.id # "none"
    BY <1>0, <2>1, SoundFastboot DEF Codes
  <2> HIDE DEF a
  <2> QED
    BY <1>0, <2>1, <2>2, RespondType
<1>5. status' \in {"OKAY", "DATA", "FAIL"} /\ downloading' \in BOOLEAN
  BY <1>1, Unpacked
<1> QED
  BY <1>1, <1>2, <1>4, <1>5, Unpacked, DeviceType
-----------------------------------------------------------------------------
(***************************************************************************)
(* Types: the host                                                         *)
(***************************************************************************)

LEMMA HostType ==
  ASSUME TypeInv, UNCHANGED <<dvars, toHost, late>>,
         NEW h \in HostTypes, host' = h, Outstanding(h),
         toDevice' = toDevice \cup h.out
  PROVE  TypeInv'
<1>1. toDevice' \subseteq Packets /\ host'.out \subseteq toDevice'
  BY DEF TypeInv, HostTypes
<1>2. TypeOK'
  BY <1>1 DEF TypeInv, TypeOK, HostTypes, Seqs, dvars
<1>3. (host \in HostTypes)' /\ Outstanding(host)'
  BY DEF Outstanding
<1>4. (downloading => received = Bytes(receive_bitmap))'
  BY DEF TypeInv, dvars, Bytes
<1> QED
  BY <1>1, <1>2, <1>3, <1>4 DEF TypeInv, dvars

\* What a host's step knows of the host.
LEMMA HostUnpacked ==
  ASSUME TypeInv
  PROVE  /\ host \in HostTypes /\ host.sess \in Sessions /\ host.step \in Steps
         /\ host.seq \in Seqs /\ host.next \in 0..MaxNum /\ host.out \subseteq Packets
         /\ host.out \subseteq toDevice /\ After(host.seq) \in Seqs
         /\ Outstanding(host)
<1>1. host \in HostTypes /\ host.seq \in Seqs
  BY DEF TypeInv, HostTypes
<1> QED
  BY <1>1, AfterType DEF TypeInv, TypeOK, HostTypes

\* The packets of a host's next step.
Fresh(packets, what) ==
  \A p \in packets : /\ p \in Packets /\ p.id = "fastboot" /\ p.seq = After(host.seq)
                     /\ p.sess = host.sess /\ p.what = what

LEMMA FastbootType ==
  ASSUME TypeInv, NEW what \in {"empty", "data"} \cup Commands, NEW num \in Numbers,
         NEW flag \in BOOLEAN
  PROVE  Fresh({Fastboot(what, num, flag)}, what)
  BY HostUnpacked DEF Fastboot, Packet, Packets, Fresh

LEMMA AskType ==
  ASSUME TypeInv, NEW what \in {"empty"} \cup Commands PROVE Fresh(Ask(what), what)
<1>1. 0 \in Numbers
  BY NumbersAreFinite DEF Numbers
<1> QED
  BY <1>1, FastbootType DEF Ask

LEMMA WindowType ==
  ASSUME TypeInv, NEW from \in Numbers
  PROVE  /\ Fresh(Window(from), "data") /\ WindowEnd(from) + 1 \in 0..MaxNum
         /\ WindowEnd(from) + 1 < MaxNum => \A p \in Window(from) : p.flag
<1>1. WindowEnd(from) \in from..(MaxNum - 1) /\ from \in Int
  BY WindowEndType, NumbersAreFinite DEF Numbers
<1>2. \A n \in from..WindowEnd(from) :
        n \in Numbers /\ (WindowEnd(from) + 1 < MaxNum => n # MaxNum - 1)
  BY <1>1, NumbersAreFinite DEF Numbers
<1>3. ASSUME NEW p \in Window(from)
      PROVE  /\ Fresh({p}, "data")
             /\ WindowEnd(from) + 1 < MaxNum => p.flag
  <2>1. PICK n \in from..WindowEnd(from) : p = Fastboot("data", n, n # MaxNum - 1)
    BY DEF Window
  <2>2. (n # MaxNum - 1) \in BOOLEAN
    OBVIOUS
  <2>3. Fresh({p}, "data")
    BY <1>2, <2>1, <2>2, FastbootType
  <2>4. p.flag = (n # MaxNum - 1)
    BY <2>1 DEF Fastboot, Packet
  <2> QED
    BY <1>2, <2>3, <2>4
<1>4. WindowEnd(from) + 1 \in 0..MaxNum
  BY <1>1, NumbersAreFinite DEF Numbers
<1> QED
  BY <1>3, <1>4 DEF Fresh

LEMMA GoType ==
  ASSUME TypeInv, UNCHANGED <<dvars, toHost, late>>,
         NEW step \in Steps \ {"query", "init"}, NEW next \in 0..MaxNum, NEW packets,
         Go(step, next, packets), Fresh(packets, WhatOf(step)),
         step = "data" /\ next < MaxNum => \A p \in packets : p.flag
  PROVE  TypeInv'
<1> DEFINE h == [host EXCEPT !.step = step, !.seq = After(host.seq), !.next = next,
                             !.out = packets]
<1>1. host' = h /\ toDevice' = toDevice \cup packets
  BY DEF Go
<1>2. /\ h \in HostTypes /\ h.out = packets /\ h.step = step /\ h.next = next
      /\ h.seq = After(host.seq) /\ h.sess = host.sess
  BY HostUnpacked DEF HostTypes, Fresh
<1>3. IdOf(step) = "fastboot"
  BY DEF IdOf
<1>4. Outstanding(h)
  BY <1>2, <1>3 DEF Outstanding, Fresh
<1> HIDE DEF h
<1> QED
  BY <1>1, <1>2, <1>4, HostType

LEMMA AskStep ==
  ASSUME TypeInv, UNCHANGED <<dvars, toHost, late>>,
         NEW step \in Steps \ {"query", "init", "data"}, NEW next \in 0..MaxNum,
         Go(step, next, Ask(WhatOf(step)))
  PROVE  TypeInv'
<1>1. WhatOf(step) \in {"empty"} \cup Commands /\ step # "data"
  BY DEF WhatOf
<1>2. Fresh(Ask(WhatOf(step)), WhatOf(step))
  BY <1>1, AskType
<1> QED
  BY <1>1, <1>2, GoType

LEMMA ContinueType ==
  ASSUME TypeInv, NEW a, Sound(a), Waited(a), Continue(a), UNCHANGED <<dvars, toHost, late>>
  PROVE  TypeInv'
<1>1. CASE /\ host.step = "query"
           /\ host' = [host EXCEPT !.step = "init", !.seq = a.val,
                          !.out = {InitPacket(a.val)}]
           /\ toDevice' = toDevice \cup {InitPacket(a.val)}
  <2> DEFINE h == [host EXCEPT !.step = "init", !.seq = a.val, !.out = {InitPacket(a.val)}]
  <2>1. a.id = "query" /\ a.val \in Seqs
    BY <1>1, HostUnpacked DEF Sound, Waited, Outstanding, IdOf
  <2>2. InitPacket(a.val) \in Packets
    BY <2>1, HostUnpacked, NumbersAreFinite DEF InitPacket, Packet, Packets, Numbers
  <2>3. /\ h \in HostTypes /\ h.out = {InitPacket(a.val)} /\ h.step = "init"
        /\ h.seq = a.val /\ h.sess = host.sess
    BY <2>1, <2>2, HostUnpacked DEF HostTypes, Steps
  <2>4. Outstanding(h)
    BY <2>3 DEF Outstanding, IdOf, WhatOf, InitPacket, Packet, Commands
  <2> HIDE DEF h
  <2>5. host' = h /\ toDevice' = toDevice \cup h.out
    BY <1>1, <2>3 DEF h
  <2> QED
    BY <2>3, <2>4, <2>5, HostType
<1>2. CASE host.step = "init" /\ Go("download", 0, Ask("download"))
  <2>1. /\ "download" \in Steps \ {"query", "init", "data"} /\ WhatOf("download") = "download"
        /\ 0 \in 0..MaxNum
    BY NumbersAreFinite DEF Steps, WhatOf, Commands
  <2> QED
    BY <1>2, <2>1, AskStep
<1>3. CASE host.step = "download" /\ Go("download status", 0, Ask("empty"))
  <2>1. /\ "download status" \in Steps \ {"query", "init", "data"}
        /\ WhatOf("download status") = "empty"
        /\ 0 \in 0..MaxNum
    BY NumbersAreFinite DEF Steps, WhatOf, Commands
  <2> QED
    BY <1>3, <2>1, AskStep
<1>4. CASE host.step \in {"download status", "data"}
           /\ \E from \in Numbers : SendWindow(from)
  <2>1. PICK from \in Numbers : Go("data", WindowEnd(from) + 1, Window(from))
    BY <1>4 DEF SendWindow
  <2>2. "data" \in Steps \ {"query", "init"} /\ WhatOf("data") = "data"
    BY DEF Steps, WhatOf, Commands
  <2> QED
    BY <2>1, <2>2, WindowType, GoType
<1>5. CASE /\ host.step = "data" /\ host.next = MaxNum /\ a.val # INVALID_NUM
           /\ Go("data", MaxNum, {Fastboot("data", a.val, FALSE)})
  <2>1. a.id = "fastboot" /\ a.val \in Numbers
    BY <1>5, HostUnpacked DEF Sound, Waited, Outstanding, IdOf
  <2>2. /\ "data" \in Steps \ {"query", "init"} /\ WhatOf("data") = "data"
        /\ MaxNum \in 0..MaxNum /\ ~(MaxNum < MaxNum)
    BY NumbersAreFinite DEF Steps, WhatOf, Commands
  <2>3. Fresh({Fastboot("data", a.val, FALSE)}, "data")
    BY <2>1, FastbootType
  <2> QED
    BY <1>5, <2>2, <2>3, GoType
<1>6. CASE Go("data status", MaxNum, Ask("empty"))
  <2>1. /\ "data status" \in Steps \ {"query", "init", "data"}
        /\ WhatOf("data status") = "empty"
        /\ MaxNum \in 0..MaxNum
    BY NumbersAreFinite DEF Steps, WhatOf, Commands
  <2> QED
    BY <1>6, <2>1, AskStep
<1>7. CASE Go("flash", MaxNum, Ask("flash"))
  <2>1. /\ "flash" \in Steps \ {"query", "init", "data"} /\ WhatOf("flash") = "flash"
        /\ MaxNum \in 0..MaxNum
    BY NumbersAreFinite DEF Steps, WhatOf, Commands
  <2> QED
    BY <1>7, <2>1, AskStep
<1>8. CASE Go("flash status", MaxNum, Ask("empty"))
  <2>1. /\ "flash status" \in Steps \ {"query", "init", "data"}
        /\ WhatOf("flash status") = "empty"
        /\ MaxNum \in 0..MaxNum
    BY NumbersAreFinite DEF Steps, WhatOf, Commands
  <2> QED
    BY <1>8, <2>1, AskStep
<1>9. CASE host.step = "flash status" /\ Stop
  <2> DEFINE h == [host EXCEPT !.step = "done", !.out = {}]
  <2>1. h \in HostTypes /\ h.out = {} /\ h.step = "done"
    BY HostUnpacked DEF HostTypes, Steps
  <2>2. Outstanding(h)
    BY <2>1 DEF Outstanding
  <2>3. host' = h /\ toDevice' = toDevice \cup h.out
    BY <1>9, <2>1 DEF Stop
  <2> HIDE DEF h
  <2> QED
    BY <2>1, <2>2, <2>3, HostType
<1>10. 0 \in Numbers /\ (host.next < MaxNum => host.next \in Numbers)
  BY HostUnpacked, NumbersAreFinite DEF Numbers
<1> QED
  BY <1>1, <1>2, <1>3, <1>4, <1>5, <1>6, <1>7, <1>8, <1>9, <1>10 DEF Continue

LEMMA RestartType == ASSUME TypeInv, HostRestarts PROVE TypeInv'
<1> DEFINE s == host.sess + 1
           h == [sess |-> s, step |-> "query", seq |-> 0, next |-> 0, out |-> {Query(s)}]
<1>1. s \in Sessions
  BY HostUnpacked, Unpacked, BoundAssumption DEF HostRestarts, Sessions
<1>2. Query(s) \in Packets /\ 0 \in Seqs /\ 0 \in 0..MaxNum
  BY <1>1, NumbersAreFinite, SeqModType DEF Query, Packet, Packets, Numbers, Seqs
<1>3. h \in HostTypes /\ h.out = {Query(s)}
  BY <1>1, <1>2 DEF HostTypes, Steps
<1>4. Outstanding(h)
  BY DEF Outstanding, IdOf, WhatOf, Query, Packet, Commands
<1>5. host' = h /\ toDevice' = toDevice \cup h.out /\ UNCHANGED <<dvars, toHost, late>>
  BY <1>3 DEF HostRestarts
<1> HIDE DEF h
<1> QED
  BY <1>3, <1>4, <1>5, HostType

LEMMA TypeStep == ASSUME TypeInv, [Next]_vars PROVE TypeInv'
<1>1. ASSUME NEW p \in toDevice, fb_udp_handler(p) PROVE TypeInv'
  <2>1. UNCHANGED <<host, toDevice>>
    BY <1>1 DEF fb_udp_handler
  <2> QED
    BY <1>1, <2>1, QueryType, InitializationType, RepeatedType, StatusType, CommandType,
       DownloadContType, DownloadEndType DEF fb_udp_handler
<1>2. CASE HostReads
  BY <1>2, Unpacked, ContinueType DEF HostReads
<1>3. CASE HostRestarts
  BY <1>3, RestartType
<1>4. CASE UNCHANGED vars
  BY <1>4, Unpacked, DeviceType DEF vars, dvars
<1> QED
  BY <1>1, <1>2, <1>3, <1>4 DEF Next

LEMMA InitType == ASSUME Init PROVE TypeInv
<1>1. 1 \in Sessions /\ 0 \in 0..Disturbances
  BY BoundAssumption DEF Sessions
<1>2. 0 \in Seqs /\ 0 \in 0..MaxNum /\ 0 \in Numbers
  BY NumbersAreFinite, SeqModType DEF Numbers, Seqs
<1>3. Query(1) \in Packets
  BY <1>1, <1>2 DEF Query, Packet, Packets
<1>4. NoAnswer \in Answers /\ Sound(NoAnswer) /\ NoAnswer.seq = 0
  BY <1>2 DEF NoAnswer, Answer, Answers, Sound, Codes
<1>5. host \in HostTypes /\ host.out = {Query(1)}
  BY <1>1, <1>2, <1>3 DEF Init, HostTypes, Steps
<1>6. Outstanding(host)
  BY DEF Init, Outstanding, IdOf, WhatOf, Query, Packet, Commands
<1>7. log \in Seq(Sessions \X Commands)
  BY DEF Init
<1>8. downloading \in BOOLEAN /\ ~downloading
  BY DEF Init
<1>9. TypeOK
  BY <1>1, <1>2, <1>4, <1>5, <1>8, TotalType DEF Init, TypeOK, HostTypes, Seqs
<1> QED
  BY <1>3, <1>4, <1>5, <1>6, <1>7, <1>8, <1>9 DEF Init, TypeInv

\* Every variable of the transport keeps its type: the sequence numbers their 16 bits,
\* the bytes counted the size of the download, whatever is repeated, lost or late.
THEOREM TypeCorrect == Spec => []TypeOK
<1>1. Init => TypeInv
  BY InitType
<1>2. TypeInv /\ [Next]_vars => TypeInv'
  BY TypeStep
<1>3. TypeInv => TypeOK
  BY DEF TypeInv
<1> QED
  BY <1>1, <1>2, <1>3, PTL DEF Spec
-----------------------------------------------------------------------------
(***************************************************************************)
(* The protocol: steps of the device                                       *)
(***************************************************************************)

\* What was sent, and read, has numbers that can be compared.
LEMMA Comparable ==
  ASSUME TypeInv
  PROVE  /\ fb_expected_seq \in Int /\ host.seq \in Int /\ host.sess \in Int
         /\ \A p \in toDevice : p.seq \in Int /\ p.sess \in Int /\ p \in Packets
         /\ \A m \in toHost : /\ m.to \in Int /\ m.answer.seq \in Int
                              /\ m.answer.id = "query" => m.answer.val \in Int
         /\ fb_packet.seq \in Int
         /\ host.out \subseteq toDevice
<1>1. Seqs \subseteq Int /\ Sessions \subseteq Int
  BY SeqModType, BoundAssumption DEF Seqs, Sessions
<1> QED
  BY <1>1, Unpacked, HostUnpacked DEF Packets, Answers, Sound

\* The packets outstanding say in which step the host is.
LEMMA OutWhat ==
  ASSUME TypeInv, Started, NEW p \in host.out
  PROVE  /\ p.id = "fastboot" /\ p.sess = host.sess /\ p.seq = host.seq
         /\ host.step = "download" => p.what = "download"
         /\ host.step = "flash" => p.what = "flash"
         /\ host.step = "data" => p.what = "data" /\ (host.next < MaxNum => p.flag)
         /\ host.step \in {"download status", "data status"} => p.what = "empty"
<1>1. /\ p.id = IdOf(host.step) /\ p.sess = host.sess /\ p.what = WhatOf(host.step)
      /\ p.id # "query" => p.seq = host.seq
      /\ host.step = "data" /\ host.next < MaxNum => p.flag
  BY HostUnpacked DEF Outstanding
<1> QED
  BY <1>1 DEF Started, IdOf, WhatOf, Commands

\* The device takes the packet p, moves on and answers a.
Took(p, a) ==
  /\ p \in Sent /\ p.seq = fb_expected_seq
  /\ fb_expected_seq' = After(fb_expected_seq)
  /\ Respond(p, a) /\ a.id = p.id /\ a.seq = p.seq
  /\ UNCHANGED <<host, toDevice>>

LEMMA TookEffect ==
  ASSUME TypeInv, SeqInv, Unwrapped, NEW p, NEW a, Took(p, a)
  PROVE  /\ fb_expected_seq' = fb_expected_seq + 1 /\ fb_packet' = a
         /\ \A m \in toHost' : m \in toHost \/ (m.to = p.sess /\ m.answer = a)
         /\ ~Asking => fb_expected_seq = host.seq
         /\ Asking => p.sess < host.sess
         /\ Started => p \in host.out
         /\ Current' = {}
<1>1. fb_expected_seq' = fb_expected_seq + 1
  BY Unpacked, AfterType DEF Took, Unwrapped
<1>2. toHost' = toHost \/ toHost' = toHost \cup {[to |-> p.sess, answer |-> a]}
  BY SendEffect DEF Took, Respond
<1>3. /\ \A q \in Sent : q.seq <= fb_expected_seq
      /\ ~Asking => /\ host.seq <= fb_expected_seq
                    /\ \A q \in Sent : q.seq <= host.seq
      /\ Asking => \A q \in Sent : q.sess < host.sess
      /\ Started => \A q \in Sent : q.seq = fb_expected_seq => q \in host.out
  BY DEF SeqInv
<1>4. \A q \in Current' : q \in Sent /\ q.seq = fb_expected_seq + 1
  BY <1>1 DEF Current, Sent, Took
<1>5. Current' = {}
  BY <1>3, <1>4, Comparable
<1> QED
  BY <1>1, <1>2, <1>3, <1>5, Comparable DEF Took, Respond, Sent

LEMMA TookSeq ==
  ASSUME TypeInv, SeqInv, Unwrapped, NEW p, NEW a, Took(p, a)
  PROVE  SeqInv'
<1>0. /\ p \in toDevice /\ p.id \in {"init", "fastboot"} /\ p.seq = fb_expected_seq
      /\ a.id = p.id /\ a.seq = p.seq /\ host' = host /\ toDevice' = toDevice
  BY Comparable DEF Took, Sent, Packets
<1>1. /\ \A q \in toDevice : q.sess <= host.sess
      /\ \A q \in Sent : q.seq <= fb_expected_seq
      /\ \A m \in toHost : /\ m.to <= host.sess
                           /\ m.answer.id # "query" => m.answer.seq < fb_expected_seq
      /\ Asking =>
           /\ \A q \in Sent : q.sess < host.sess
           /\ \A m \in Mine : m.answer.id = "query" /\ m.answer.val <= fb_expected_seq
                             /\ \A q \in Sent : q.seq <= m.answer.val
      /\ ~Asking => \A q \in Sent : q.seq <= host.seq
  BY DEF SeqInv
<1>2. Sent' = Sent /\ Asking' = Asking /\ Started' = Started
  BY <1>0 DEF Sent, Asking, Started
<1>3. Asking => Mine' \subseteq Mine
  BY <1>0, TookEffect, Comparable DEF Mine
<1>4. \A m \in toHost' : /\ m.to <= host.sess
                         /\ m.answer.id # "query" => m.answer.seq < fb_expected_seq + 1
  BY <1>0, <1>1, TookEffect, Comparable
<1>5. ASSUME Asking, NEW m \in Mine
      PROVE  m.answer.val <= fb_expected_seq + 1 /\ fb_expected_seq + 1 <= m.answer.val + 1
  <2>1. m.answer.id = "query" /\ m.answer.val <= fb_expected_seq /\ p.seq <= m.answer.val
    BY <1>1, <1>5 DEF Took
  <2>2. m.answer.val \in Int
    BY <2>1, Comparable DEF Mine
  <2> QED
    BY <1>0, <2>1, <2>2, Comparable
<1>6. Started => ~\E q \in Sent : q.seq = fb_expected_seq + 1
  BY <1>1, Comparable DEF Sent
<1> QED
  BY <1>0, <1>1, <1>2, <1>3, <1>4, <1>5, <1>6, TookEffect, Comparable DEF SeqInv, Sent

LEMMA LessDiffers == \A i, j \in Int : i < j => i # j
  OBVIOUS

\* Where a step of the device that answers leaves the download, by the host's step.
LEMMA TookPhase ==
  ASSUME TypeInv, SeqInv, PhaseInv, Unwrapped, NEW p, NEW a, Took(p, a),
         a.id = "init" => ~downloading',
         host.step \in {"download", "download status"} =>
           downloading' /\ receive_bitmap' = {},
         host.step = "data" =>
           \/ downloading' /\ Stored(host.sess)'
           \/ host.next = MaxNum /\ ~downloading' /\ Whole(host.sess)',
         host.step = "data" => (a.val = INVALID_NUM <=> ~downloading'),
         host.step \in {"data status", "flash"} => ~downloading' /\ Whole(host.sess)'
  PROVE  PhaseInv'
<1>0. /\ a.id = p.id /\ a.seq = p.seq /\ p.seq = fb_expected_seq /\ host' = host
      /\ fb_packet' = a /\ Current' = {} /\ p \in toDevice
  BY TookEffect DEF Took, Sent
<1>1. ASSUME NEW m \in toHost, ~Asking, m.answer.id # "query"
      PROVE  m.answer.seq # host.seq
  <2>1. m.answer.seq < fb_expected_seq
    BY <1>1 DEF SeqInv
  <2>2. host.seq = fb_expected_seq /\ host.seq \in Int /\ m.answer.seq \in Int
    BY <1>1, TookEffect, Comparable
  <2> QED
    BY <2>1, <2>2, LessDiffers, Zenon
<1>2. ASSUME NEW m \in Mine', ~Asking, m.answer.id # "query", m.answer.seq = host.seq
      PROVE  m.answer = a
  BY <1>1, <1>2, TookEffect DEF Mine
<1>3. host.step = "init" =>
        \A m \in Mine' : m.answer.id = "init" /\ m.answer.seq = host.seq => ~downloading'
  BY <1>2 DEF Asking
<1>4. host.step = "data" => \A m \in Mine' : Tells(m.answer)'
  BY <1>0, <1>2 DEF Asking, Tells
<1>5. host.step = "data" => Tells(fb_packet)'
  BY <1>0 DEF Tells
<1>6. ~Asking => Accepted'
  BY <1>0, TookEffect DEF Accepted
<1> QED
  BY <1>0, <1>3, <1>4, <1>5, <1>6 DEF PhaseInv, Asking

\* What a session stored stays whole or in part as long as its packets are stored.
LEMMA StoredKept ==
  ASSUME TypeInv, downloading, NEW p \in toDevice, Store(p), Stored(p.sess)
  PROVE  /\ Stored(p.sess)'
         /\ receive_bitmap' = Numbers => Whole(p.sess)'
<1>1. p \in Packets
  BY DEF TypeInv
<1>2. \A n \in receive_bitmap' : n \in Numbers /\ mem'[n] = p.sess
  BY <1>1, StoreType DEF Stored
<1> QED
  BY <1>2 DEF Stored, Whole

LEMMA TookLog ==
  ASSUME TypeInv, SeqInv, LogInv, Unwrapped, NEW p, NEW a, Took(p, a), log' = log
  PROVE  LogInv'
<1>1. fb_expected_seq' = fb_expected_seq + 1 /\ toDevice' = toDevice /\ host' = host
  BY TookEffect DEF Took
<1>2. Orders' = Orders /\ Started' = Started /\ CommandsOnce'
  BY <1>1 DEF Orders, Started, LogInv, CommandsOnce
<1>3. \A i \in 1..Len(log) :
        \E q \in Orders : log[i] = <<q.sess, q.what>> /\ q.seq < fb_expected_seq + 1
  <2>1. \A q \in Orders : q.seq \in Int
    BY Comparable DEF Orders
  <2>2. ASSUME NEW q \in Orders, q.seq < fb_expected_seq PROVE q.seq < fb_expected_seq + 1
    BY <2>1, <2>2, Comparable
  <2> QED
    BY <2>2 DEF LogInv
<1> QED
  BY <1>1, <1>2, <1>3 DEF LogInv

LEMMA InitializationStep ==
  ASSUME TypeInv, ProtocolInv, Unwrapped, NEW p \in toDevice, Initialization(p),
         UNCHANGED <<host, toDevice, late>>
  PROVE  ProtocolInv'
<1> DEFINE a == Answer("init", p.seq, 0, "")
<1>1. Took(p, a) /\ a.id = "init" /\ p.id = "init" /\ log' = log
  BY DEF Initialization, Took, Sent, Answer
<1>2. ~downloading'
  BY DEF Initialization, Forget
<1> HIDE DEF a
<1>3. ~Started
  BY <1>1, TookEffect, OutWhat DEF ProtocolInv
<1>4. PhaseInv'
  BY <1>1, <1>2, <1>3, TookPhase DEF ProtocolInv, Started
<1> QED
  BY <1>1, <1>4, TookSeq, TookLog DEF ProtocolInv

LEMMA StatusStep ==
  ASSUME TypeInv, ProtocolInv, Unwrapped, NEW p \in toDevice, Status(p),
         UNCHANGED <<host, toDevice, late>>
  PROVE  ProtocolInv'
<1> DEFINE a == Answer("fastboot", p.seq, INVALID_NUM, status)
<1>1. Took(p, a) /\ a.id = "fastboot" /\ p.what = "empty" /\ log' = log
  BY DEF Status, InSequence, Took, Sent, Answer
<1>2. UNCHANGED <<downloading, receive_bitmap, mem, host>>
  BY DEF Status
<1> HIDE DEF a
<1>3. host.step \notin {"download", "data", "flash"}
  BY <1>1, TookEffect, OutWhat DEF ProtocolInv, Started
<1>4. host.step = "download status" => downloading' /\ receive_bitmap' = {}
  BY <1>2 DEF ProtocolInv, PhaseInv
<1>5. host.step = "data status" => ~downloading' /\ Whole(host.sess)'
  BY <1>2 DEF ProtocolInv, PhaseInv, Whole
<1>6. PhaseInv'
  BY <1>1, <1>3, <1>4, <1>5, TookPhase DEF ProtocolInv
<1> QED
  BY <1>1, <1>6, TookSeq, TookLog DEF ProtocolInv

LEMMA CommandStep ==
  ASSUME TypeInv, ProtocolInv, Unwrapped, NEW p \in toDevice, Command(p),
         UNCHANGED <<host, toDevice, late>>
  PROVE  ProtocolInv'
<1> DEFINE a == Answer("fastboot", p.seq, INVALID_NUM, "")
           e == <<p.sess, p.what>>
<1>1. /\ Took(p, a) /\ a.id = "fastboot" /\ p.what \in Commands /\ p \in Orders
      /\ p.id = "fastboot" /\ p.seq = fb_expected_seq /\ log' = Append(log, e)
  BY DEF Command, InSequence, Took, Sent, Answer, Ack, Orders
<1>2. /\ p.what = "download" => downloading' /\ receive_bitmap' = {}
      /\ p.what = "flash" => downloading' = downloading
      /\ mem' = mem /\ host' = host /\ toDevice' = toDevice /\ ~downloading
  BY <1>1 DEF Command, Commands
<1> HIDE DEF a
<1>3. /\ host.step \notin {"download status", "data", "data status"}
      /\ host.step = "download" => p.what = "download"
      /\ host.step = "flash" => p.what = "flash"
  BY <1>1, TookEffect, OutWhat DEF ProtocolInv, Started, Commands
<1>4. host.step = "flash" => ~downloading' /\ Whole(host.sess)'
  BY <1>2, <1>3 DEF ProtocolInv, PhaseInv, Whole
<1>5. PhaseInv'
  BY <1>1, <1>2, <1>3, <1>4, TookPhase DEF ProtocolInv
<1>6. ASSUME NEW i \in 1..Len(log)
      PROVE  log[i] # e /\ (log[i][1] = p.sess => log[i][2] = "download")
  <2>1. PICK q \in Orders : log[i] = <<q.sess, q.what>> /\ q.seq < fb_expected_seq
    BY DEF ProtocolInv, LogInv
  <2>2. q.seq \in Int /\ p.seq \in Int /\ q.what \in Commands
    BY Comparable DEF Orders
  <2>3. q.sess = p.sess => /\ q.what = p.what => q.seq = p.seq
                           /\ p.what = "download" /\ q.what = "flash" => p.seq < q.seq
    BY <1>1 DEF ProtocolInv, LogInv
  <2>4. ~(q.sess = p.sess /\ q.what = p.what)
    BY <1>1, <2>1, <2>2, <2>3
  <2>5. ~(q.sess = p.sess /\ p.what = "download" /\ q.what = "flash")
    BY <1>1, <2>1, <2>2, <2>3
  <2> QED
    BY <1>1, <2>1, <2>2, <2>4, <2>5 DEF Commands
<1>7. /\ Len(log') = Len(log) + 1 /\ Len(log) \in Nat /\ log'[Len(log) + 1] = e
      /\ \A i \in 1..Len(log) : log'[i] = log[i]
  <2> DEFINE S == Sessions \X Commands
  <2>1. log \in Seq(S) /\ e \in S
    BY <1>1, Comparable, Unpacked DEF Packets
  <2> HIDE DEF S, e
  <2> QED
    BY <1>1, <2>1
<1>8. CommandsOnce'
  <2>1. \A i \in 1..Len(log') : i \in 1..Len(log) \/ i = Len(log) + 1
    BY <1>7
  <2>2. \A i, j \in 1..Len(log) :
          i < j => log[i] # log[j] /\ (log[i][1] = log[j][1] => log[i][2] = "download")
    BY DEF ProtocolInv, LogInv, CommandsOnce
  <2>3. e[1] = p.sess
    OBVIOUS
  <2> HIDE DEF e
  <2> QED
    BY <1>6, <1>7, <2>1, <2>2, <2>3 DEF CommandsOnce
<1>9. \A i \in 1..Len(log') :
        \E q \in Orders : log'[i] = <<q.sess, q.what>> /\ q.seq < fb_expected_seq + 1
  <2>1. \A q \in Orders : q.seq \in Int
    BY Comparable DEF Orders
  <2>2. ASSUME NEW i \in 1..Len(log')
        PROVE  \E q \in Orders : log'[i] = <<q.sess, q.what>> /\ q.seq < fb_expected_seq + 1
    <3>1. CASE i \in 1..Len(log)
      <4>1. PICK q \in Orders : log[i] = <<q.sess, q.what>> /\ q.seq < fb_expected_seq
        BY <3>1 DEF ProtocolInv, LogInv
      <4>2. q.seq < fb_expected_seq + 1
        BY <2>1, <4>1, Comparable
      <4> QED
        BY <1>7, <3>1, <4>1, <4>2
    <3>2. CASE i = Len(log) + 1
      BY <1>1, <1>7, <2>1, <3>2, Comparable
    <3> QED
      BY <1>7, <3>1, <3>2
  <2> QED
    BY <2>2
<1>10. fb_expected_seq' = fb_expected_seq + 1 /\ Orders' = Orders /\ Started' = Started
  BY <1>1, <1>2, TookEffect DEF ProtocolInv, Orders, Started
<1>11. LogInv'
  BY <1>2, <1>8, <1>9, <1>10 DEF ProtocolInv, LogInv
<1> QED
  BY <1>1, <1>5, <1>11, TookSeq DEF ProtocolInv

LEMMA DownloadEndStep ==
  ASSUME TypeInv, ProtocolInv, Unwrapped, NEW p \in toDevice, DownloadEnd(p),
         UNCHANGED <<host, toDevice, late>>
  PROVE  ProtocolInv'
<1> DEFINE over == received' = Total
           val == IF over THEN INVALID_NUM ELSE FirstMissing(receive_bitmap')
           a == Answer("fastboot", p.seq, val, "")
<1>0. p \in Packets /\ p \in Current /\ p.what = "data" /\ ~p.flag /\ downloading /\ Store(p)
  BY Comparable DEF DownloadEnd, InSequence, Current
<1>1. Took(p, a) /\ a.id = "fastboot" /\ a.val = val /\ log' = log
  BY DEF DownloadEnd, InSequence, Complete, Took, Sent, Answer, Ack
<1>2. /\ over => ~downloading'
      /\ ~over => downloading'
  BY <1>0 DEF DownloadEnd, Complete
<1>3. /\ receive_bitmap' \in SUBSET Numbers /\ received' = Bytes(receive_bitmap')
      /\ over <=> receive_bitmap' = Numbers
  BY <1>0, StoreType, BytesType
<1>4. val = INVALID_NUM <=> over
  <2>1. ~over => FirstMissing(receive_bitmap') \in Numbers
    BY <1>3, FirstMissingType
  <2>2. INVALID_NUM \notin Numbers
    BY NumbersAreFinite DEF Numbers, INVALID_NUM
  <2> QED
    BY <2>1, <2>2
<1>5. Stored(p.sess)' /\ (over => Whole(p.sess)')
  BY <1>0, <1>3, StoredKept DEF ProtocolInv, PhaseInv
<1> HIDE DEF a, val, over
<1>6. /\ host.step \notin {"download", "download status", "data status", "flash"}
      /\ Started => p.sess = host.sess
      /\ host.step = "data" => ~(host.next < MaxNum)
  BY <1>0, <1>1, TookEffect, OutWhat DEF ProtocolInv, Started
<1>7. host.step = "data" =>
        \/ downloading' /\ Stored(host.sess)'
        \/ host.next = MaxNum /\ ~downloading' /\ Whole(host.sess)'
  <2>1. host.step = "data" => host.next = MaxNum /\ p.sess = host.sess /\ Started
    BY <1>6, HostUnpacked, NumbersAreFinite DEF Started
  <2>2. host' = host
    OBVIOUS
  <2> QED
    BY <1>2, <1>5, <2>1, <2>2 DEF Stored, Whole
<1>8. PhaseInv'
  BY <1>1, <1>2, <1>4, <1>6, <1>7, TookPhase DEF ProtocolInv
<1> QED
  BY <1>1, <1>8, TookSeq, TookLog DEF ProtocolInv

\* A packet that is no barrier leaves the device waiting for more of the same window.
LEMMA StoredStep ==
  ASSUME TypeInv, ProtocolInv, NEW p \in Current, p.what = "data", Store(p),
         UNCHANGED <<fb_expected_seq, fb_packet, toHost, host, toDevice, downloading, log>>
  PROVE  ProtocolInv'
<1>0. /\ p \in Sent /\ p \in toDevice /\ p.seq = fb_expected_seq
      /\ downloading /\ Stored(p.sess) /\ \A q \in Current : q.sess = p.sess
  BY DEF ProtocolInv, PhaseInv, Current, Sent
<1>1. Stored(p.sess)'
  BY <1>0, StoredKept
<1>2. Current' = Current /\ Mine' = Mine /\ Accepted' = Accepted /\ Started' = Started
      /\ \A b : Tells(b)' = Tells(b)
  BY DEF Current, Mine, Accepted, Started, Tells
<1>3. ~Asking => ~Accepted
  <2>1. ~Asking => p.seq <= host.seq
    BY <1>0 DEF ProtocolInv, SeqInv
  <2> QED
    BY <1>0, <2>1, Comparable DEF Accepted
<1>4. Started => p \in host.out
  BY <1>0 DEF ProtocolInv, SeqInv
<1>5. /\ host.step \notin {"download status", "data status", "flash"}
      /\ host.step = "data" => p.sess = host.sess
  BY <1>0, <1>4, OutWhat DEF Started
<1>6. \A q \in Current : q.what \notin Commands
  BY <1>0 DEF ProtocolInv, PhaseInv
<1>7. PhaseInv'
  <2>1. \A q \in Current : Stored(q.sess)' /\ q.what # "flash" /\ downloading'
    BY <1>0, <1>1, <1>6 DEF Commands, Stored
  <2>2. host.step = "data" => downloading' /\ Stored(host.sess)'
    BY <1>0, <1>1, <1>5 DEF Stored
  <2>3. host' = host /\ downloading' = downloading /\ fb_packet' = fb_packet
    OBVIOUS
  <2> QED
    BY <1>2, <1>3, <1>5, <1>6, <2>1, <2>2, <2>3 DEF ProtocolInv, PhaseInv, Asking
<1>8. SeqInv'
  BY DEF ProtocolInv, SeqInv, Sent, Mine, Asking, Started
<1>9. LogInv'
  BY DEF ProtocolInv, LogInv, CommandsOnce, Orders, Started
<1> QED
  BY <1>7, <1>8, <1>9 DEF ProtocolInv

LEMMA DownloadContStep ==
  ASSUME TypeInv, ProtocolInv, Unwrapped, NEW p \in toDevice, DownloadCont(p),
         UNCHANGED <<host, toDevice, late>>
  PROVE  ProtocolInv'
<1> DEFINE a == Answer("fastboot", p.seq, p.num, "")
<1>0. /\ p \in Packets /\ p \in Current /\ p.what = "data" /\ downloading /\ Store(p)
      /\ UNCHANGED <<downloading, log>>
  BY Comparable DEF DownloadCont, InSequence, Current
<1>1. CASE Took(p, a)
  <2>1. a.id = "fastboot" /\ a.val = p.num /\ p.num # INVALID_NUM
    BY <1>0, NumbersAreFinite DEF Answer, Packets, Numbers, INVALID_NUM
  <2> HIDE DEF a
  <2>2. Stored(p.sess)' /\ host' = host
    BY <1>0, StoredKept DEF ProtocolInv, PhaseInv
  <2>3. /\ host.step \notin {"download", "download status", "data status", "flash"}
        /\ Started => p.sess = host.sess
    BY <1>0, <1>1, TookEffect, OutWhat DEF ProtocolInv, Started
  <2>4. host.step = "data" => downloading' /\ Stored(host.sess)'
    BY <1>0, <2>2, <2>3 DEF Stored, Started
  <2>5. PhaseInv'
    BY <1>0, <1>1, <2>1, <2>3, <2>4, TookPhase DEF ProtocolInv
  <2> QED
    BY <1>0, <1>1, <2>5, TookSeq, TookLog DEF ProtocolInv
<1>2. CASE UNCHANGED <<fb_expected_seq, fb_packet, toHost>>
  BY <1>0, <1>2, StoredStep
<1>3. Took(p, a) \/ UNCHANGED <<fb_expected_seq, fb_packet, toHost>>
  BY DEF DownloadCont, InSequence, Took, Sent, Answer, Ack
<1> QED
  BY <1>1, <1>2, <1>3

\* An answer to a query, and one that is given again, change only what the host may read.
LEMMA QueryStep ==
  ASSUME TypeInv, ProtocolInv, NEW p \in toDevice, DeviceQuery(p),
         UNCHANGED <<host, toDevice>>
  PROVE  ProtocolInv'
<1> DEFINE a == Answer("query", p.seq, fb_expected_seq, "")
<1>1. /\ a.id = "query" /\ a.val = fb_expected_seq /\ fb_packet' = a
      /\ UNCHANGED <<fb_expected_seq, downloading, receive_bitmap, mem, log, host, toDevice>>
      /\ toHost' = toHost \/ toHost' = toHost \cup {[to |-> p.sess, answer |-> a]}
  BY SendEffect DEF DeviceQuery, Respond, Answer
<1> HIDE DEF a
<1>2. /\ Current' = Current /\ Accepted' = Accepted /\ Started' = Started
      /\ Sent' = Sent /\ Asking' = Asking
  BY <1>1 DEF Current, Accepted, Started, Sent, Asking
<1>3. \A m \in toHost' : m \in toHost \/ (m.to = p.sess /\ m.answer = a)
  BY <1>1
<1>4. p.sess <= host.sess /\ \A q \in Sent : q.seq <= fb_expected_seq
  BY DEF ProtocolInv, SeqInv
<1>5. fb_expected_seq <= fb_expected_seq /\ fb_expected_seq <= fb_expected_seq + 1
  BY Comparable
<1>6. SeqInv'
  BY <1>1, <1>2, <1>3, <1>4, <1>5 DEF ProtocolInv, SeqInv, Mine
<1>7. PhaseInv'
  BY <1>1, <1>2, <1>3 DEF ProtocolInv, PhaseInv, Mine, Tells, Stored, Whole
<1>8. LogInv'
  BY <1>1 DEF ProtocolInv, LogInv, CommandsOnce, Orders, Started
<1> QED
  BY <1>6, <1>7, <1>8 DEF ProtocolInv

LEMMA RepeatedStep ==
  ASSUME TypeInv, ProtocolInv, NEW p \in toDevice, Repeated(p),
         UNCHANGED <<host, toDevice, late>>
  PROVE  ProtocolInv'
<1>1. /\ p \in Sent /\ UNCHANGED <<fb_packet, host, toDevice>>
      /\ UNCHANGED <<fb_expected_seq, downloading, receive_bitmap, mem, log>>
  BY DEF Repeated, Resend, Sent, dvars
<1>2. \/ toHost' = toHost
      \/ toHost' = toHost \cup {[to |-> p.sess, answer |-> fb_packet]}
  BY SendEffect DEF Repeated, Resend
<1>3. fb_packet # NoAnswer => fb_packet.id \in {"query", "init", "fastboot"}
  BY Unpacked DEF Sound, Answers
<1>4. \A m \in toHost' :
        \/ m \in toHost
        \/ m.to = p.sess /\ m.answer = fb_packet
           /\ fb_packet.id \in {"query", "init", "fastboot"}
  <2>1. toHost' = toHost \/ fb_packet # NoAnswer
    BY DEF Repeated, Resend
  <2> QED
    BY <1>2, <1>3, <2>1
<1>5. /\ Current' = Current /\ Accepted' = Accepted /\ Started' = Started
      /\ Sent' = Sent /\ Asking' = Asking
  BY <1>1 DEF Current, Accepted, Started, Sent, Asking
<1>6. p.sess <= host.sess /\ (Asking => p.sess < host.sess /\ Mine' \subseteq Mine)
  <2>1. p.sess <= host.sess /\ (Asking => p.sess < host.sess)
    BY <1>1 DEF ProtocolInv, SeqInv, Sent
  <2> QED
    BY <1>1, <1>4, <2>1, Comparable DEF Mine, Sent
<1>7. fb_packet.id \in {"init", "fastboot"} => fb_packet.seq < fb_expected_seq
  BY Comparable DEF ProtocolInv, SeqInv
<1>8. SeqInv'
  BY <1>1, <1>3, <1>4, <1>5, <1>6, <1>7 DEF ProtocolInv, SeqInv
<1>9. PhaseInv'
  BY <1>1, <1>4, <1>5 DEF ProtocolInv, PhaseInv, Mine, Tells, Stored, Whole
<1>10. LogInv'
  BY <1>1 DEF ProtocolInv, LogInv, CommandsOnce, Orders, Started
<1> QED
  BY <1>8, <1>9, <1>10 DEF ProtocolInv

-----------------------------------------------------------------------------
(***************************************************************************)
(* The protocol: steps of the host                                         *)
(***************************************************************************)

\* The answer to a step's packets was given when the device took one of them, and
\* nothing is under way but what the host sends next.
LEMMA AnsweredEffect ==
  ASSUME TypeInv, SeqInv, Unwrapped, NEW m \in Mine, Waited(m.answer), ~Asking
  PROVE  /\ m.answer.id = IdOf(host.step) /\ m.answer.id # "query"
         /\ m.answer.seq = host.seq
         /\ Accepted /\ After(host.seq) = fb_expected_seq
         /\ \A p \in Sent : p.seq < fb_expected_seq
         /\ Current = {}
<1>1. PICK q \in host.out : q.id = m.answer.id /\ (q.id = "query" \/ host.seq = m.answer.seq)
  BY DEF Waited
<1>2. q.id = IdOf(host.step) /\ q.id # "query"
  BY HostUnpacked DEF Outstanding, IdOf, Asking
<1>3. /\ m.answer.seq < fb_expected_seq
      /\ host.seq <= fb_expected_seq /\ fb_expected_seq <= host.seq + 1
      /\ \A p \in Sent : p.seq <= host.seq
  BY <1>1, <1>2 DEF SeqInv, Mine
<1>4. host.seq + 1 = fb_expected_seq
  BY <1>1, <1>2, <1>3, Comparable
<1>5. After(host.seq) = fb_expected_seq
  BY <1>4, HostUnpacked, Comparable, AfterType, SeqModType DEF Unwrapped, Seqs
<1>6. \A p \in Sent : p.seq < fb_expected_seq
  BY <1>3, <1>4, Comparable DEF Sent
<1>7. Current = {}
  BY <1>6, Comparable DEF Current, Sent
<1> QED
  BY <1>1, <1>2, <1>4, <1>5, <1>6, <1>7 DEF Accepted

\* The next packets are alone at the device's number.
LEMMA GoEffect ==
  ASSUME TypeInv, ProtocolInv, Unwrapped, NEW m \in Mine, Waited(m.answer), ~Asking,
         NEW step \in Steps \ {"query", "init"}, NEW next \in 0..MaxNum, NEW packets,
         Go(step, next, packets), Fresh(packets, WhatOf(step)),
         UNCHANGED <<dvars, toHost, late>>
  PROVE  /\ host'.step = step /\ host'.seq = fb_expected_seq /\ host'.next = next
         /\ host'.sess = host.sess /\ host'.out = packets
         /\ \A p \in packets : /\ p \in Packets /\ p.id = "fastboot" /\ p.sess = host.sess
                               /\ p.seq = fb_expected_seq /\ p.what = WhatOf(step)
         /\ toDevice' = toDevice \cup packets /\ Sent' = Sent \cup packets
         /\ Current' = packets /\ ~Accepted' /\ Mine' = Mine
         /\ SeqInv'
<1>1. /\ After(host.seq) = fb_expected_seq /\ Current = {}
      /\ \A p \in Sent : p.seq < fb_expected_seq
  BY AnsweredEffect DEF ProtocolInv
<1>2. /\ host'.step = step /\ host'.seq = fb_expected_seq /\ host'.next = next
      /\ host'.sess = host.sess /\ host'.out = packets
      /\ toDevice' = toDevice \cup packets
  BY <1>1, HostUnpacked DEF Go, HostTypes
<1>3. \A p \in packets : /\ p \in Packets /\ p.id = "fastboot" /\ p.sess = host.sess
                         /\ p.seq = fb_expected_seq /\ p.what = WhatOf(step)
  BY <1>1 DEF Fresh
<1>4. UNCHANGED <<fb_expected_seq, fb_packet, toHost>>
  BY DEF dvars
<1>5. Sent' = Sent \cup packets /\ Current' = packets /\ Mine' = Mine
  BY <1>1, <1>2, <1>3, <1>4 DEF Sent, Current, Mine
<1>6. ~Accepted'
  BY <1>2, <1>4, Comparable DEF Accepted
<1>7. ~Asking' /\ fb_expected_seq <= fb_expected_seq /\ fb_expected_seq <= fb_expected_seq + 1
      /\ host.sess <= host.sess
  BY <1>2, Comparable DEF Asking
<1>8. \A p \in Sent : p.seq <= fb_expected_seq /\ p.seq # fb_expected_seq
  BY <1>1, Comparable DEF Sent
<1>9. SeqInv'
  BY <1>2, <1>3, <1>4, <1>5, <1>7, <1>8 DEF ProtocolInv, SeqInv
<1> QED
  BY <1>2, <1>3, <1>5, <1>6, <1>9

LEMMA NothingAhead ==
  ASSUME TypeInv, SeqInv
  PROVE  /\ fb_packet.id = "fastboot" => fb_packet.seq # fb_expected_seq
         /\ \A m \in toHost : m.answer.id = "fastboot" => m.answer.seq # fb_expected_seq
<1>1. \A i \in Int : i + 1 = fb_expected_seq => i # fb_expected_seq
  OBVIOUS
<1>2. fb_packet.id = "fastboot" => fb_packet.seq + 1 = fb_expected_seq
  BY DEF SeqInv
<1>3. \A m \in toHost : m.answer.id = "fastboot" => m.answer.seq < fb_expected_seq
  BY DEF SeqInv
<1> QED
  BY <1>1, <1>2, <1>3, Comparable, LessDiffers

\* What has to be true of the download for the host to send its next packets.
LEMMA GoPhase ==
  ASSUME TypeInv, ProtocolInv, Unwrapped, NEW m \in Mine, Waited(m.answer), ~Asking,
         NEW step \in Steps \ {"query", "init"}, NEW next \in 0..MaxNum, NEW packets,
         Go(step, next, packets), Fresh(packets, WhatOf(step)),
         UNCHANGED <<dvars, toHost, late>>,
         step \in Commands => ~downloading,
         step = "data" => downloading /\ Stored(host.sess),
         step = "download status" => downloading /\ receive_bitmap = {},
         step \in {"data status", "flash"} => ~downloading /\ Whole(host.sess)
  PROVE  PhaseInv'
<1>1. UNCHANGED <<fb_expected_seq, fb_packet, downloading, receive_bitmap, mem>>
  BY DEF dvars
<1>2. /\ WhatOf(step) \in Commands => step = WhatOf(step)
      /\ WhatOf(step) = "data" => step = "data"
  BY DEF WhatOf, Commands
<1>3. \A p \in packets : /\ p.sess = host.sess /\ p.what = WhatOf(step)
  BY GoEffect
<1>4. /\ \A p \in Current' :
           /\ p.what \in Commands => ~downloading
           /\ p.what = "data" => downloading /\ Stored(p.sess)
           /\ p.what = "flash" => Whole(p.sess)
           /\ \A q \in Current' : q.sess = p.sess
  BY <1>2, <1>3, GoEffect DEF Commands
<1>5. /\ Tells(fb_packet)' /\ \A b \in Mine' : Tells(b.answer)'
  <2>1. fb_packet.id = "fastboot" => fb_packet.seq # fb_expected_seq
    BY NothingAhead DEF ProtocolInv
  <2>2. \A b \in Mine : b.answer.id = "fastboot" => b.answer.seq # fb_expected_seq
    BY NothingAhead DEF ProtocolInv, Mine
  <2>3. Mine' = Mine /\ host'.seq = fb_expected_seq
    BY GoEffect
  <2> QED
    BY <1>1, <2>1, <2>2, <2>3 DEF Tells
<1>6. /\ host'.step = step /\ host'.sess = host.sess /\ ~Accepted'
  BY GoEffect
<1>7. fb_packet.id = "init" => ~downloading
  BY DEF ProtocolInv, PhaseInv
<1>8. (\A s : Stored(s)' = Stored(s)) /\ (\A s : Whole(s)' = Whole(s))
  BY <1>1 DEF Stored, Whole
<1> QED
  BY <1>1, <1>4, <1>5, <1>6, <1>7, <1>8 DEF PhaseInv, Commands

\* A command has one packet, sent after those of the commands before it.
LEMMA GoLog ==
  ASSUME TypeInv, ProtocolInv, Unwrapped, NEW m \in Mine, Waited(m.answer), ~Asking,
         NEW step \in Steps \ {"query", "init"}, NEW next \in 0..MaxNum, NEW packets,
         Go(step, next, packets), Fresh(packets, WhatOf(step)),
         UNCHANGED <<dvars, toHost, late>>,
         step = "download" => host.step = "init",
         step = "flash" => host.step = "data status",
         host.step \in {"flash", "flash status", "done"} => step \in {"flash status", "done"}
  PROVE  LogInv'
<1>0. UNCHANGED <<fb_expected_seq, log>>
  BY DEF dvars
<1>1. /\ host'.step = step /\ host'.sess = host.sess
      /\ toDevice' = toDevice \cup packets /\ Started'
  BY GoEffect DEF Started
<1>2. \A p \in packets : /\ p.id = "fastboot" /\ p.sess = host.sess
                         /\ p.seq = fb_expected_seq /\ p.what = WhatOf(step)
  BY GoEffect
<1>3. WhatOf(step) \in Commands => step = WhatOf(step)
  BY DEF WhatOf, Commands
<1>4. Orders' = Orders \cup {p \in packets : WhatOf(step) \in Commands}
  BY <1>1, <1>2 DEF Orders
<1>5. \A q \in Orders : q.seq < fb_expected_seq
  BY AnsweredEffect DEF ProtocolInv, Orders, Sent
<1>6. \A q \in Orders : q.sess = host.sess =>
        /\ Started
        /\ q.what = "flash" => host.step \in {"flash", "flash status", "done"}
  BY DEF ProtocolInv, LogInv
<1>7. ASSUME NEW p \in packets, WhatOf(step) \in Commands, NEW q \in Orders,
             q.sess = p.sess
      PROVE  p.what = "flash" /\ q.what = "download" /\ q.seq < p.seq
  BY <1>2, <1>3, <1>5, <1>6, <1>7 DEF Started, Commands, Orders
<1>8. \A p, q \in Orders' : p.sess = q.sess =>
        /\ p.what = q.what => p.seq = q.seq
        /\ p.what = "download" /\ q.what = "flash" => p.seq < q.seq
  <2>1. \A p, q \in Orders : p.sess = q.sess =>
          /\ p.what = q.what => p.seq = q.seq
          /\ p.what = "download" /\ q.what = "flash" => p.seq < q.seq
    BY DEF ProtocolInv, LogInv
  <2>2. ASSUME NEW p \in packets, NEW q \in packets
        PROVE  p.seq = q.seq /\ p.what = q.what
    BY <1>2
  <2>3. ASSUME NEW p \in Orders', NEW q \in Orders', p.sess = q.sess
        PROVE  /\ p.what = q.what => p.seq = q.seq
               /\ p.what = "download" /\ q.what = "flash" => p.seq < q.seq
    <3>1. CASE p \in Orders /\ q \in Orders
      BY <2>1, <2>3, <3>1
    <3>2. CASE p \in packets /\ q \in packets
      BY <2>2, <3>2
    <3>3. CASE p \in packets /\ WhatOf(step) \in Commands /\ q \in Orders
      BY <1>7, <2>3, <3>3
    <3>4. CASE p \in Orders /\ q \in packets /\ WhatOf(step) \in Commands
      BY <1>7, <2>3, <3>4
    <3> QED
      BY <1>4, <2>3, <3>1, <3>2, <3>3, <3>4
  <2> QED
    BY <2>3
<1>9. \A p \in Orders' : p.sess = host.sess /\ p.what = "flash" =>
        step \in {"flash", "flash status", "done"}
  BY <1>2, <1>3, <1>4, <1>6
<1>10. \A i \in 1..Len(log) :
         \E q \in Orders : log[i] = <<q.sess, q.what>> /\ q.seq < fb_expected_seq
  BY DEF ProtocolInv, LogInv
<1>11. CommandsOnce'
  BY <1>0 DEF ProtocolInv, LogInv, CommandsOnce
<1> QED
  BY <1>0, <1>1, <1>4, <1>8, <1>9, <1>10, <1>11 DEF LogInv

\* A host that asks takes the number the device has told, or the one before.
LEMMA AskedStep ==
  ASSUME TypeInv, ProtocolInv, NEW m \in Mine, Waited(m.answer), Asking,
         host' = [host EXCEPT !.step = "init", !.seq = m.answer.val,
                    !.out = {InitPacket(m.answer.val)}],
         toDevice' = toDevice \cup {InitPacket(m.answer.val)},
         UNCHANGED <<dvars, toHost, late>>
  PROVE  ProtocolInv'
<1> DEFINE v == m.answer.val
           p == InitPacket(v)
<1>1. p.id = "init" /\ p.seq = v /\ p.sess = host.sess
  BY DEF InitPacket, Packet
<1>2. /\ host'.step = "init" /\ host'.seq = v /\ host'.sess = host.sess
      /\ toDevice' = toDevice \cup {p}
  BY HostUnpacked DEF HostTypes
<1>3. /\ v <= fb_expected_seq /\ fb_expected_seq <= v + 1
      /\ \A q \in Sent : q.seq <= v
      /\ \A b \in Mine : b.answer.id = "query"
      /\ v \in Int
  BY Comparable DEF ProtocolInv, SeqInv, Mine
<1> HIDE DEF v, p
<1>4. /\ UNCHANGED <<fb_expected_seq, fb_packet, toHost, downloading, receive_bitmap>>
      /\ UNCHANGED <<mem, log>>
  BY DEF dvars
<1>5. /\ ~Asking' /\ ~Started' /\ Sent' = Sent \cup {p} /\ Mine' = Mine
      /\ Current' = Current /\ Orders' = Orders
  BY <1>1, <1>2, <1>4 DEF Asking, Started, Sent, Mine, Current, Orders
<1>6. v <= v /\ host.sess <= host.sess
  BY <1>3, Comparable
<1>7. SeqInv'
  BY <1>1, <1>2, <1>3, <1>4, <1>5, <1>6 DEF ProtocolInv, SeqInv
<1>8. PhaseInv'
  BY <1>2, <1>3, <1>4, <1>5 DEF ProtocolInv, PhaseInv, Stored, Whole
<1>9. \A q \in Orders : q.sess # host.sess
  BY DEF ProtocolInv, LogInv, Started, Asking
<1>10. LogInv'
  BY <1>2, <1>4, <1>5, <1>9 DEF ProtocolInv, LogInv, CommandsOnce
<1> QED
  BY <1>7, <1>8, <1>10 DEF ProtocolInv

LEMMA StopStep ==
  ASSUME TypeInv, ProtocolInv, Unwrapped, NEW m \in Mine, Waited(m.answer),
         host.step = "flash status", Stop, UNCHANGED <<dvars, toHost, late>>
  PROVE  ProtocolInv'
<1>1. /\ host'.step = "done" /\ host'.seq = host.seq /\ host'.sess = host.sess
      /\ host'.next = host.next /\ toDevice' = toDevice
  BY HostUnpacked DEF Stop, HostTypes
<1>2. \A p \in Sent : p.seq < fb_expected_seq
  BY AnsweredEffect DEF ProtocolInv, Asking
<1>3. \A p \in Sent : p.seq # fb_expected_seq
  BY <1>2, Comparable, LessDiffers DEF Sent
<1>4. /\ UNCHANGED <<fb_expected_seq, fb_packet, toHost, downloading, receive_bitmap>>
      /\ UNCHANGED <<mem, log>>
  BY DEF dvars
<1>5. /\ ~Asking' /\ ~Asking /\ Started' /\ Started /\ Sent' = Sent /\ Mine' = Mine
      /\ Current' = Current /\ Orders' = Orders
  BY <1>1, <1>4 DEF Asking, Started, Sent, Mine, Current, Orders
<1>6. SeqInv'
  BY <1>1, <1>3, <1>4, <1>5 DEF ProtocolInv, SeqInv
<1>7. PhaseInv'
  BY <1>1, <1>4, <1>5 DEF ProtocolInv, PhaseInv, Stored, Whole
<1>8. LogInv'
  BY <1>1, <1>4, <1>5 DEF ProtocolInv, LogInv, CommandsOnce
<1> QED
  BY <1>6, <1>7, <1>8 DEF ProtocolInv

LEMMA ContinueStep ==
  ASSUME TypeInv, ProtocolInv, Unwrapped, NEW m \in Mine, Waited(m.answer),
         Continue(m.answer), UNCHANGED <<dvars, toHost, late>>
  PROVE  ProtocolInv'
<1> DEFINE a == m.answer
<1>0. MaxNum \in 0..MaxNum /\ 0 \in 0..MaxNum /\ 0 \in Numbers /\ ~(MaxNum < MaxNum)
  BY NumbersAreFinite DEF Numbers
<1>1. CASE host.step = "query"
  <2>1. Asking
    BY <1>1 DEF Asking
  <2>2. /\ host' = [host EXCEPT !.step = "init", !.seq = a.val, !.out = {InitPacket(a.val)}]
        /\ toDevice' = toDevice \cup {InitPacket(a.val)}
    BY <1>1 DEF Continue
  <2> QED
    BY <2>1, <2>2, AskedStep
<1>2. CASE host.step = "init"
  <2>1. Go("download", 0, Ask("download")) /\ ~Asking
    BY <1>2 DEF Continue, Asking
  <2>2. "download" \in Steps \ {"query", "init"} /\ WhatOf("download") = "download"
    BY DEF Steps, WhatOf, Commands
  <2>3. Fresh(Ask("download"), "download")
    BY AskType DEF Commands
  <2>4. ~downloading
    BY <1>2, <2>1, AnsweredEffect DEF ProtocolInv, PhaseInv, IdOf
  <2>5. PhaseInv'
    BY <1>0, <2>1, <2>2, <2>3, <2>4, GoPhase
  <2>6. LogInv'
    BY <1>0, <1>2, <2>1, <2>2, <2>3, GoLog
  <2>7. SeqInv'
    BY <1>0, <1>2, <2>1, <2>2, <2>3, GoEffect
  <2> QED
    BY <2>5, <2>6, <2>7 DEF ProtocolInv
<1>3. CASE host.step = "download"
  <2>1. Go("download status", 0, Ask("empty")) /\ ~Asking
    BY <1>3 DEF Continue, Asking
  <2>2. /\ "download status" \in Steps \ {"query", "init"}
        /\ WhatOf("download status") = "empty" /\ "download status" \notin Commands
    BY DEF Steps, WhatOf, Commands
  <2>3. Fresh(Ask("empty"), "empty")
    BY AskType
  <2>4. downloading /\ receive_bitmap = {}
    BY <1>3, <2>1, AnsweredEffect DEF ProtocolInv, PhaseInv
  <2>5. PhaseInv'
    BY <1>0, <2>1, <2>2, <2>3, <2>4, GoPhase
  <2>6. LogInv'
    BY <1>0, <1>3, <2>1, <2>2, <2>3, GoLog
  <2>7. SeqInv'
    BY <1>0, <1>3, <2>1, <2>2, <2>3, GoEffect
  <2> QED
    BY <2>5, <2>6, <2>7 DEF ProtocolInv
<1>4. ASSUME host.step \in {"download status", "data"}, NEW from \in Numbers,
             SendWindow(from), downloading, Stored(host.sess)
      PROVE  ProtocolInv'
  <2>1. Go("data", WindowEnd(from) + 1, Window(from)) /\ ~Asking
    BY <1>4 DEF SendWindow, Asking
  <2>2. /\ "data" \in Steps \ {"query", "init"} /\ WhatOf("data") = "data"
        /\ "data" \notin Commands
    BY DEF Steps, WhatOf, Commands
  <2>3. Fresh(Window(from), "data") /\ WindowEnd(from) + 1 \in 0..MaxNum
    BY WindowType
  <2>4. PhaseInv'
    BY <1>4, <2>1, <2>2, <2>3, GoPhase
  <2>5. LogInv'
    BY <1>4, <2>1, <2>2, <2>3, GoLog
  <2>6. SeqInv'
    BY <1>4, <2>1, <2>2, <2>3, GoEffect
  <2> QED
    BY <2>4, <2>5, <2>6 DEF ProtocolInv
<1>5. CASE host.step = "download status"
  <2>1. SendWindow(0)
    BY <1>5 DEF Continue
  <2>2. downloading /\ Stored(host.sess)
    BY <1>5 DEF ProtocolInv, PhaseInv, Stored
  <2> QED
    BY <1>0, <1>4, <1>5, <2>1, <2>2
<1>6. CASE host.step = "data" /\ host.next < MaxNum
  <2>1. host.next # MaxNum /\ host.next \in Numbers
    BY <1>6, HostUnpacked, NumbersAreFinite DEF Numbers
  <2>2. SendWindow(host.next)
    BY <1>6, <2>1 DEF Continue
  <2>3. downloading /\ Stored(host.sess)
    BY <1>6, <2>1 DEF ProtocolInv, PhaseInv
  <2> QED
    BY <1>4, <1>6, <2>1, <2>2, <2>3
<1>7. CASE host.step = "data" /\ host.next = MaxNum
  <2>1. ~Asking /\ (a.val = INVALID_NUM <=> ~downloading)
    <3>1. ~Asking
      BY <1>7 DEF Asking
    <3>2. a.id = "fastboot" /\ a.seq = host.seq
      BY <1>7, <3>1, AnsweredEffect DEF ProtocolInv, IdOf
    <3>3. Tells(a)
      BY <1>7 DEF ProtocolInv, PhaseInv
    <3> QED
      BY <3>1, <3>2, <3>3 DEF Tells
  <2>2. CASE a.val # INVALID_NUM
    <3> DEFINE packets == {Fastboot("data", a.val, FALSE)}
    <3>1. Go("data", MaxNum, packets)
      BY <1>0, <1>7, <2>2 DEF Continue
    <3>2. /\ "data" \in Steps \ {"query", "init"} /\ WhatOf("data") = "data"
          /\ "data" \notin Commands
      BY DEF Steps, WhatOf, Commands
    <3>3. a.val \in Numbers
      BY <1>7, <2>1, <2>2, AnsweredEffect, Unpacked DEF ProtocolInv, IdOf, Mine, Sound
    <3>4. Fresh(packets, "data")
      BY <3>3, FastbootType
    <3>5. downloading /\ Stored(host.sess)
      BY <1>7, <2>1, <2>2 DEF ProtocolInv, PhaseInv
    <3> HIDE DEF packets
    <3>6. PhaseInv'
      BY <1>0, <2>1, <3>1, <3>2, <3>4, <3>5, GoPhase
    <3>7. LogInv'
      BY <1>0, <1>7, <2>1, <3>1, <3>2, <3>4, GoLog
    <3>8. SeqInv'
      BY <1>0, <1>7, <2>1, <3>1, <3>2, <3>4, GoEffect
    <3> QED
      BY <3>6, <3>7, <3>8 DEF ProtocolInv
  <2>3. CASE a.val = INVALID_NUM
    <3>1. Go("data status", MaxNum, Ask("empty"))
      BY <1>0, <1>7, <2>3 DEF Continue
    <3>2. /\ "data status" \in Steps \ {"query", "init"}
          /\ WhatOf("data status") = "empty" /\ "data status" \notin Commands
      BY DEF Steps, WhatOf, Commands
    <3>3. Fresh(Ask("empty"), "empty")
      BY AskType
    <3>4. ~downloading /\ Whole(host.sess)
      BY <1>7, <2>1, <2>3 DEF ProtocolInv, PhaseInv
    <3>5. PhaseInv'
      BY <1>0, <2>1, <3>1, <3>2, <3>3, <3>4, GoPhase
    <3>6. LogInv'
      BY <1>0, <1>7, <2>1, <3>1, <3>2, <3>3, GoLog
    <3>7. SeqInv'
      BY <1>0, <1>7, <2>1, <3>1, <3>2, <3>3, GoEffect
    <3> QED
      BY <3>5, <3>6, <3>7 DEF ProtocolInv
  <2> QED
    BY <2>2, <2>3
<1>8. CASE host.step = "data status"
  <2>1. Go("flash", MaxNum, Ask("flash")) /\ ~Asking
    BY <1>8 DEF Continue, Asking
  <2>2. "flash" \in Steps \ {"query", "init"} /\ WhatOf("flash") = "flash"
    BY DEF Steps, WhatOf, Commands
  <2>3. Fresh(Ask("flash"), "flash")
    BY AskType DEF Commands
  <2>4. ~downloading /\ Whole(host.sess)
    BY <1>8 DEF ProtocolInv, PhaseInv
  <2>5. PhaseInv'
    BY <1>0, <2>1, <2>2, <2>3, <2>4, GoPhase
  <2>6. LogInv'
    BY <1>0, <1>8, <2>1, <2>2, <2>3, GoLog
  <2>7. SeqInv'
    BY <1>0, <1>8, <2>1, <2>2, <2>3, GoEffect
  <2> QED
    BY <2>5, <2>6, <2>7 DEF ProtocolInv
<1>9. CASE host.step = "flash"
  <2>1. Go("flash status", MaxNum, Ask("empty")) /\ ~Asking
    BY <1>9 DEF Continue, Asking
  <2>2. /\ "flash status" \in Steps \ {"query", "init"}
        /\ WhatOf("flash status") = "empty" /\ "flash status" \notin Commands
    BY DEF Steps, WhatOf, Commands
  <2>3. Fresh(Ask("empty"), "empty")
    BY AskType
  <2>4. PhaseInv'
    BY <1>0, <2>1, <2>2, <2>3, GoPhase
  <2>5. LogInv'
    BY <1>0, <1>9, <2>1, <2>2, <2>3, GoLog
  <2>6. SeqInv'
    BY <1>0, <1>9, <2>1, <2>2, <2>3, GoEffect
  <2> QED
    BY <2>4, <2>5, <2>6 DEF ProtocolInv
<1>10. CASE host.step = "flash status"
  <2>1. Stop
    BY <1>10 DEF Continue
  <2> QED
    BY <1>10, <2>1, StopStep
<1> QED
  BY <1>1, <1>2, <1>3, <1>5, <1>6, <1>7, <1>8, <1>9, <1>10 DEF Continue

LEMMA RestartStep ==
  ASSUME TypeInv, ProtocolInv, HostRestarts
  PROVE  ProtocolInv'
<1>1. /\ host'.step = "query" /\ host'.sess = host.sess + 1
      /\ toDevice' = toDevice \cup {Query(host.sess + 1)}
      /\ UNCHANGED <<fb_expected_seq, fb_packet, toHost, downloading, receive_bitmap>>
      /\ UNCHANGED <<mem, log>>
  BY DEF HostRestarts, dvars
<1>2. Query(host.sess + 1).id = "query" /\ Query(host.sess + 1).sess = host.sess + 1
  BY DEF Query, Packet
<1>3. /\ Asking' /\ ~Started' /\ Sent' = Sent /\ Current' = Current /\ Orders' = Orders
  BY <1>1, <1>2 DEF Asking, Started, Sent, Current, Orders
<1>4. /\ \A p \in toDevice : p.sess <= host.sess + 1 /\ p.sess < host.sess + 1
      /\ \A m \in toHost : m.to <= host.sess + 1 /\ m.to # host.sess + 1
      /\ host.sess + 1 <= host.sess + 1
  <2>1. \A p \in toDevice : p.sess <= host.sess
    BY DEF ProtocolInv, SeqInv
  <2>2. \A m \in toHost : m.to <= host.sess
    BY DEF ProtocolInv, SeqInv
  <2>3. \A i, j \in Int : i <= j => i <= j + 1 /\ i < j + 1 /\ i # j + 1
    OBVIOUS
  <2> QED
    BY <2>1, <2>2, <2>3, Comparable
<1>5. Mine' = {} /\ \A p \in Sent : p \in toDevice
  BY <1>1, <1>4 DEF Mine, Sent
<1>6. SeqInv'
  BY <1>1, <1>2, <1>3, <1>4, <1>5 DEF ProtocolInv, SeqInv
<1>7. PhaseInv'
  BY <1>1, <1>3 DEF ProtocolInv, PhaseInv, Stored, Whole
<1>8. \A p \in Orders : p.sess # host.sess + 1
  BY <1>4, Comparable, LessDiffers, HostUnpacked DEF Orders
<1>9. LogInv'
  BY <1>1, <1>3, <1>8 DEF ProtocolInv, LogInv, CommandsOnce
<1> QED
  BY <1>6, <1>7, <1>9 DEF ProtocolInv

LEMMA ProtocolStep ==
  ASSUME TypeInv, ProtocolInv, Unwrapped, [Next]_vars PROVE ProtocolInv'
<1>1. ASSUME NEW p \in toDevice, fb_udp_handler(p) PROVE ProtocolInv'
  <2>1. UNCHANGED <<host, toDevice>> /\ (DeviceQuery(p) \/ late' = late)
    BY <1>1 DEF fb_udp_handler
  <2> QED
    BY <1>1, <2>1, QueryStep, InitializationStep, RepeatedStep, StatusStep, CommandStep,
       DownloadContStep, DownloadEndStep DEF fb_udp_handler
<1>2. CASE HostReads
  BY <1>2, ContinueStep DEF HostReads, Mine
<1>3. CASE HostRestarts
  BY <1>3, RestartStep
<1>4. CASE UNCHANGED vars
  <2>1. /\ UNCHANGED <<fb_expected_seq, fb_packet, toHost, downloading, receive_bitmap>>
        /\ UNCHANGED <<mem, log, host, toDevice>>
    BY <1>4 DEF vars, dvars
  <2>2. SeqInv'
    BY <2>1 DEF ProtocolInv, SeqInv, Sent, Asking, Mine, Started
  <2>3. PhaseInv'
    <3>1. /\ Current' = Current /\ Mine' = Mine /\ Accepted' = Accepted
          /\ \A b : Tells(b)' = Tells(b)
          /\ \A s : Stored(s)' = Stored(s) /\ Whole(s)' = Whole(s)
      BY <2>1 DEF Current, Mine, Accepted, Tells, Stored, Whole
    <3> QED
      BY <2>1, <3>1 DEF ProtocolInv, PhaseInv
  <2>4. LogInv'
    BY <2>1 DEF ProtocolInv, LogInv, CommandsOnce, Orders, Started
  <2> QED
    BY <2>2, <2>3, <2>4 DEF ProtocolInv
<1> QED
  BY <1>1, <1>2, <1>3, <1>4 DEF Next

LEMMA InitProtocol == ASSUME Init PROVE ProtocolInv
<1>1. Query(1).id = "query" /\ Query(1).sess = 1 /\ NoAnswer.id = "none"
  BY DEF Query, Packet, NoAnswer, Answer
<1>2. Sent = {} /\ Current = {} /\ Orders = {} /\ Mine = {} /\ Asking /\ ~Started
  BY <1>1 DEF Init, Sent, Current, Orders, Mine, Asking, Started
<1>3. SeqInv
  BY <1>1, <1>2 DEF Init, SeqInv
<1>4. PhaseInv
  BY <1>1, <1>2 DEF Init, PhaseInv
<1>5. Len(log) = 0
  BY DEF Init
<1>6. LogInv
  BY <1>2, <1>5 DEF LogInv, CommandsOnce
<1> QED
  BY <1>3, <1>4, <1>6 DEF ProtocolInv

LEMMA ProtocolHolds == Spec /\ []Unwrapped => [](TypeInv /\ ProtocolInv)
<1>1. Init => TypeInv /\ ProtocolInv
  BY InitType, InitProtocol
<1>2. TypeInv /\ ProtocolInv /\ Unwrapped /\ [Next]_vars => (TypeInv /\ ProtocolInv)'
  BY TypeStep, ProtocolStep
<1> QED
  BY <1>1, <1>2, PTL DEF Spec
-----------------------------------------------------------------------------
(***************************************************************************)
(* What the transport promises as long as its numbers have not come round  *)
(***************************************************************************)

\* However packets are repeated, delayed and reordered, and however often the host's
\* program is started again, a command is run once and a session's commands in order.
THEOREM EachCommandOnce == Spec /\ []Unwrapped => []CommandsOnce
<1>1. TypeInv /\ ProtocolInv => CommandsOnce
  BY DEF ProtocolInv, LogInv
<1> QED
  BY <1>1, ProtocolHolds, PTL

\* What the device would take next fits what it waits for: fb_udp_handler() tells data
\* from a command by its own state alone.
THEOREM NothingIsMistaken == Spec /\ []Unwrapped => []NothingMistaken
<1>1. TypeInv /\ ProtocolInv => NothingMistaken
  BY DEF ProtocolInv, PhaseInv, NothingMistaken, Current
<1> QED
  BY <1>1, ProtocolHolds, PTL

\* When flash is run, every packet of the download in memory is from the session that
\* asks for it.
THEOREM FlashIsWhole == Spec /\ []Unwrapped => FlashedWhole
<1> DEFINE FlashIsOfItsSession ==
             \A i \in 1..Len(log') :
               i > Len(log) /\ log'[i][2] = "flash" =>
                 \A n \in Numbers : mem[n] = log'[i][1]
<1>1. ASSUME TypeInv, ProtocolInv, [Next]_vars, ~UNCHANGED log PROVE FlashIsOfItsSession
  <2>1. PICK p \in toDevice : Command(p)
    BY <1>1 DEF Next, vars, dvars, fb_udp_handler, DeviceQuery, Initialization, Repeated,
       Resend, Status, DownloadCont, DownloadEnd, HostReads, HostRestarts
  <2>2. p \in Current /\ log' = Append(log, <<p.sess, p.what>>) /\ p.what \in Commands
    BY <2>1 DEF Command, InSequence, Current
  <2>3. p.what = "flash" => \A n \in Numbers : mem[n] = p.sess
    BY <1>1, <2>2 DEF ProtocolInv, PhaseInv, Whole
  <2>4. /\ Len(log') = Len(log) + 1 /\ log'[Len(log) + 1] = <<p.sess, p.what>>
        /\ Len(log) \in Nat
    <3> DEFINE S == Sessions \X Commands
               e == <<p.sess, p.what>>
    <3>1. log \in Seq(S) /\ e \in S /\ log' = Append(log, e)
      BY <1>1, <2>2, Comparable, Unpacked DEF Packets
    <3> HIDE DEF S, e
    <3>2. Len(log') = Len(log) + 1 /\ log'[Len(log) + 1] = e /\ Len(log) \in Nat
      BY <3>1
    <3> QED
      BY <3>2 DEF e
  <2>5. \A i \in 1..Len(log') : i > Len(log) => i = Len(log) + 1
    BY <2>4
  <2> QED
    BY <2>3, <2>4, <2>5
<1>2. ASSUME TypeInv, log' = log PROVE FlashIsOfItsSession
  <2>1. Len(log) \in Nat
    BY <1>2, Unpacked
  <2>2. \A i \in 1..Len(log') : ~(i > Len(log))
    BY <1>2, <2>1
  <2> QED
    BY <2>2
<1>3. TypeInv /\ ProtocolInv /\ [Next]_vars => FlashIsOfItsSession
  BY <1>1, <1>2
<1>4. TypeInv /\ ProtocolInv /\ [Next]_vars => [FlashIsOfItsSession]_vars
  BY <1>3
<1> QED
  BY <1>4, ProtocolHolds, PTL DEF Spec, FlashedWhole

-----------------------------------------------------------------------------
(***************************************************************************)
(* How many sequence numbers a session takes                               *)
(***************************************************************************)

LEMMA BeginType ==
  ASSUME NEW s \in Int
  PROVE  /\ SessionNumbers \in Nat /\ SessionNumbers = 2 * MaxNum + 5
         /\ Begin(s) \in Int /\ Begin(s + 1) \in Int
         /\ Begin(s + 1) = Begin(s) + SessionNumbers
<1>1. SessionNumbers \in Nat
  BY NumbersAreFinite DEF SessionNumbers
<1>2. \A k \in Nat : (s - 1) * k \in Int /\ ((s + 1) - 1) * k = (s - 1) * k + k
  OBVIOUS
<1> QED
  BY <1>1, <1>2 DEF Begin, SessionNumbers

LEMMA MissingType ==
  ASSUME TypeInv PROVE Missing \in 0..MaxNum /\ IsFiniteSet(receive_bitmap)
<1>1. receive_bitmap \in SUBSET Numbers
  BY Unpacked
<1>2. /\ Cardinality(receive_bitmap) \in Nat /\ Cardinality(receive_bitmap) <= MaxNum
      /\ IsFiniteSet(receive_bitmap)
  BY <1>1, NumbersAreFinite, FS_Subset, FS_CardinalityType
<1> QED
  BY <1>2, NumbersAreFinite DEF Missing

\* A packet that comes for the first time is one less to miss.
LEMMA MissingStored ==
  ASSUME TypeInv, downloading, NEW p \in Packets, Store(p)
  PROVE  /\ Missing' \in Int /\ Missing' <= Missing
         /\ p.num \notin receive_bitmap => Missing' + 1 = Missing
<1>1. receive_bitmap' = receive_bitmap \cup {p.num}
  BY StoreType
<1>2. IsFiniteSet(receive_bitmap) /\ Cardinality(receive_bitmap) \in Nat
  BY MissingType, FS_CardinalityType
<1>3. Cardinality(receive_bitmap') = IF p.num \in receive_bitmap
                                     THEN Cardinality(receive_bitmap)
                                     ELSE Cardinality(receive_bitmap) + 1
  <2>1. CASE p.num \in receive_bitmap
    <3>1. receive_bitmap' = receive_bitmap
      BY <1>1, <2>1
    <3> QED
      BY <2>1, <3>1
  <2>2. CASE p.num \notin receive_bitmap
    BY <1>1, <1>2, <2>2, FS_AddElement
  <2> QED
    BY <2>1, <2>2
<1> QED
  BY <1>2, <1>3, NumbersAreFinite DEF Missing

LEMMA LeftValue ==
  /\ host.step = "init" => Left = 2 * MaxNum + 5
  /\ host.step = "download" => Left = 2 * MaxNum + 4
  /\ host.step = "download status" => Left = 2 * MaxNum + 3
  /\ host.step = "data" /\ host.next < MaxNum => Left = 2 * MaxNum - host.next + 3
  /\ host.step = "data" /\ ~(host.next < MaxNum) /\ Accepted => Left = Missing + 3 + 1
  /\ host.step = "data" /\ ~(host.next < MaxNum) /\ ~Accepted => Left = Missing + 3 + 0
  /\ host.step = "data status" => Left = 3
  /\ host.step = "flash" => Left = 2
  /\ host.step \in {"query", "flash status", "done"} => Left = 1
  BY DEF Left

Positive == Left \in Int /\ Left >= 1

LEMMA LeftType == TypeInv => Positive
<1> SUFFICES ASSUME TypeInv PROVE Left \in Int /\ Left >= 1
  BY DEF Positive
<1>1. MaxNum \in Nat /\ Missing \in 0..MaxNum /\ host.next \in 0..MaxNum
  BY MissingType, HostUnpacked, NumbersAreFinite
<1>2. host.step \in {"query", "init", "download", "download status", "data", "data status",
                    "flash", "flash status", "done"}
  BY HostUnpacked DEF Steps, Commands
<1>3. CASE host.step = "data" /\ host.next < MaxNum
  BY <1>1, <1>3, LeftValue
<1>4. CASE host.step = "data" /\ ~(host.next < MaxNum)
  BY <1>1, <1>4, LeftValue
<1>5. CASE host.step # "data"
  <2>1. Left \in {2 * MaxNum + 5, 2 * MaxNum + 4, 2 * MaxNum + 3, 3, 2, 1}
    BY <1>2, <1>5, LeftValue, Zenon
  <2> QED
    BY <1>1, <2>1
<1> QED
  BY <1>3, <1>4, <1>5

LEMMA LeftTypeNext == TypeInv' => Positive'
  BY LeftType, PTL

LEMMA TookBudget ==
  ASSUME TypeInv, TypeInv', SeqInv, Unwrapped, BudgetInv, NEW p, NEW a, Took(p, a),
         host.step = "data" => Left' <= Left
  PROVE  BudgetInv'
<1>1. /\ fb_expected_seq' = fb_expected_seq + 1 /\ host' = host /\ Sent' = Sent
      /\ p \in Sent /\ p.seq = fb_expected_seq
  BY TookEffect DEF Took, Sent
<1>2. host.step # "data" => Left' = Left
  BY <1>1 DEF Left
<1>3. Left \in Int /\ Left' \in Int /\ Begin(host.sess) \in Int /\ Begin(host.sess + 1) \in Int
  BY LeftType, LeftTypeNext, BeginType, Comparable DEF Positive
<1>4. Asking => fb_expected_seq + 1 <= Begin(host.sess)
  <2>1. Asking => p.seq < Begin(host.sess)
    BY <1>1 DEF BudgetInv
  <2> QED
    BY <1>1, <1>3, <2>1, Comparable
<1>5. ~Asking => host.seq + Left' <= Begin(host.sess + 1)
  <2>1. ~Asking => host.seq + Left <= Begin(host.sess + 1)
    BY DEF BudgetInv
  <2> QED
    BY <1>2, <1>3, <2>1, Comparable
<1> QED
  BY <1>1, <1>4, <1>5 DEF BudgetInv, Asking

\* A packet of the download that the device takes or keeps is one the host waits for.
LEMMA DataPacket ==
  ASSUME TypeInv, ProtocolInv, host.step = "data", NEW p \in Current
  PROVE  /\ p \in host.out /\ fb_expected_seq = host.seq /\ ~Accepted
         /\ host.next < MaxNum => p.flag
<1>1. p \in Sent /\ p.seq = fb_expected_seq /\ Started /\ ~Asking
  BY DEF Current, Sent, Started, Asking
<1>2. p.seq <= host.seq /\ host.seq <= fb_expected_seq /\ p \in host.out
  BY <1>1 DEF ProtocolInv, SeqInv
<1>3. fb_expected_seq = host.seq
  BY <1>1, <1>2, Comparable
<1> QED
  BY <1>1, <1>2, <1>3, OutWhat, Comparable DEF Accepted

\* Init, status and command packets are not taken while the host sends data.
LEMMA TookOther ==
  ASSUME TypeInv, TypeInv', ProtocolInv, Unwrapped, BudgetInv, NEW p, NEW a, Took(p, a),
         p.id = "init" \/ p.what # "data"
  PROVE  WindowInv' /\ BudgetInv'
<1>1. host.step # "data" /\ host' = host
  BY TookEffect, OutWhat DEF ProtocolInv, Started, Took
<1> QED
  BY <1>1, TookBudget DEF ProtocolInv, WindowInv

LEMMA QueryBudget ==
  ASSUME TypeInv, WindowInv, BudgetInv, NEW p \in toDevice, DeviceQuery(p),
         UNCHANGED <<host, toDevice>>
  PROVE  WindowInv' /\ BudgetInv'
<1> DEFINE a == Answer("query", p.seq, fb_expected_seq, "")
<1>1. /\ a.id = "query" /\ fb_packet' = a
      /\ UNCHANGED <<fb_expected_seq, receive_bitmap, host, toDevice>>
      /\ toHost' = toHost \/ toHost' = toHost \cup {[to |-> p.sess, answer |-> a]}
  BY SendEffect DEF DeviceQuery, Respond, Answer
<1> HIDE DEF a
<1>2. /\ Accepted' = Accepted /\ Sent' = Sent /\ Asking' = Asking /\ Left' = Left
  BY <1>1 DEF Accepted, Sent, Asking, Left, Missing
<1>3. \A m \in Mine' : m \in Mine \/ m.answer.id = "query"
  BY <1>1 DEF Mine
<1>4. WindowInv'
  BY <1>1, <1>2, <1>3 DEF WindowInv
<1> QED
  BY <1>1, <1>2, <1>4 DEF BudgetInv

LEMMA RepeatedBudget ==
  ASSUME TypeInv, WindowInv, BudgetInv, NEW p \in toDevice, Repeated(p),
         UNCHANGED <<host, toDevice, late>>
  PROVE  WindowInv' /\ BudgetInv'
<1>1. UNCHANGED <<fb_packet, fb_expected_seq, receive_bitmap, host, toDevice>>
  BY DEF Repeated, Resend, dvars
<1>2. \/ toHost' = toHost
      \/ toHost' = toHost \cup {[to |-> p.sess, answer |-> fb_packet]}
  BY SendEffect DEF Repeated, Resend
<1>3. /\ Accepted' = Accepted /\ Sent' = Sent /\ Asking' = Asking /\ Left' = Left
  BY <1>1 DEF Accepted, Sent, Asking, Left, Missing
<1>4. \A m \in Mine' : m \in Mine \/ m.answer = fb_packet
  BY <1>1, <1>2 DEF Mine
<1>5. WindowInv'
  BY <1>1, <1>3, <1>4 DEF WindowInv
<1> QED
  BY <1>1, <1>3, <1>5 DEF BudgetInv

LEMMA DownloadContBudget ==
  ASSUME TypeInv, TypeInv', ProtocolInv, Unwrapped, WindowInv, BudgetInv,
         NEW p \in toDevice, DownloadCont(p), UNCHANGED <<host, toDevice, late>>
  PROVE  WindowInv' /\ BudgetInv'
<1> DEFINE a == Answer("fastboot", p.seq, p.num, "")
<1>0. /\ p \in Packets /\ p \in Current /\ p.flag /\ downloading /\ Store(p)
      /\ receive_bitmap' = receive_bitmap \cup {p.num} /\ host' = host /\ toDevice' = toDevice
  BY Comparable, StoreType DEF DownloadCont, InSequence, Current
<1>1. CASE Took(p, a) /\ p.num % kBarrierNum = 0
  <2> HIDE DEF a
  <2>1. host.step = "data" => p \in host.out /\ host.next < MaxNum
    <3>1. host.step = "data" => p \in host.out /\ host.next # MaxNum
      BY <1>0, <1>1, DataPacket DEF WindowInv
    <3> QED
      BY <3>1, HostUnpacked, NumbersAreFinite
  <2>2. host.step = "data" => Left' = Left
    BY <1>0, <2>1 DEF Left
  <2>3. ~Asking => Accepted'
    BY <1>1, TookEffect DEF ProtocolInv, Accepted, Took
  <2>4. WindowInv'
    <3>1. host.step = "data" =>
            /\ ~(host.next = MaxNum) /\ Accepted'
            /\ \A n \in receive_bitmap' : n < host.next
            /\ \A q \in host.out : q.num < host.next
      BY <1>0, <2>1, <2>3, HostUnpacked, NumbersAreFinite DEF WindowInv, Asking
    <3> QED
      BY <1>0, <3>1 DEF WindowInv
  <2>5. host.step = "data" => Left' <= Left
    BY <2>2, LeftType DEF Positive
  <2> QED
    BY <1>1, <2>4, <2>5, TookBudget DEF ProtocolInv
<1>2. CASE UNCHANGED <<fb_expected_seq, fb_packet, toHost>>
  <2>1. /\ Accepted' = Accepted /\ Sent' = Sent /\ Asking' = Asking /\ Mine' = Mine
    BY <1>0, <1>2 DEF Accepted, Sent, Asking, Mine
  <2>2. host.step = "data" => p \in host.out /\ fb_expected_seq = host.seq /\ ~Accepted
    BY <1>0, DataPacket
  <2>3. host.step = "data" =>
          \A b \in {fb_packet} \cup {m.answer : m \in Mine} :
            ~(b.id = "fastboot" /\ b.seq = host.seq)
    BY <2>2, NothingAhead DEF ProtocolInv, Mine
  <2>4. host.step = "data" =>
          /\ \A q \in host.out : ~q.flag => q.num \notin receive_bitmap'
          /\ host.next < MaxNum => \A n \in receive_bitmap' : n < host.next
    BY <1>0, <2>2 DEF WindowInv
  <2>5. WindowInv'
    BY <1>0, <1>2, <2>1, <2>3, <2>4 DEF WindowInv
  <2>6. Left' \in Int /\ Left \in Int /\ Left' <= Left
    <3>1. Missing' \in Int /\ Missing' <= Missing /\ Missing \in Int
      BY <1>0, MissingStored, MissingType, NumbersAreFinite
    <3>2. Left' \in Int /\ Left \in Int
      BY LeftType, LeftTypeNext DEF Positive
    <3>3. CASE host.step = "data" /\ ~(host.next < MaxNum)
      <4>1. Left = Missing + 3 + 0 /\ Left' = Missing' + 3 + 0
        BY <1>0, <2>1, <2>2, <3>3 DEF Left
      <4>2. \A i, j \in Int : i <= j => i + 3 + 0 <= j + 3 + 0
        OBVIOUS
      <4>3. Left' <= Left
        BY <3>1, <4>1, <4>2, Zenon
      <4> QED
        BY <3>2, <4>3
    <3>4. CASE ~(host.step = "data" /\ ~(host.next < MaxNum))
      <4>1. Left' = Left
        BY <1>0, <3>4 DEF Left
      <4> QED
        BY <3>2, <4>1
    <3> QED
      BY <3>2, <3>3, <3>4
  <2>7. ~Asking => host.seq + Left' <= Begin(host.sess + 1)
    <3>1. ~Asking => host.seq + Left <= Begin(host.sess + 1)
      BY DEF BudgetInv
    <3> QED
      BY <2>6, <3>1, Comparable, BeginType
  <2> QED
    BY <1>0, <1>2, <2>1, <2>5, <2>7 DEF BudgetInv
<1>3. \/ Took(p, a) /\ p.num % kBarrierNum = 0
      \/ UNCHANGED <<fb_expected_seq, fb_packet, toHost>>
  BY DEF DownloadCont, InSequence, Took, Sent, Answer, Ack
<1> QED
  BY <1>1, <1>2, <1>3

LEMMA DownloadEndBudget ==
  ASSUME TypeInv, TypeInv', ProtocolInv, Unwrapped, WindowInv, BudgetInv,
         NEW p \in toDevice, DownloadEnd(p), UNCHANGED <<host, toDevice, late>>
  PROVE  WindowInv' /\ BudgetInv'
<1> DEFINE over == received' = Total
           val == IF over THEN INVALID_NUM ELSE FirstMissing(receive_bitmap')
           a == Answer("fastboot", p.seq, val, "")
<1>0. /\ p \in Packets /\ p \in Current /\ ~p.flag /\ downloading /\ Store(p)
      /\ host' = host /\ toDevice' = toDevice
  BY Comparable DEF DownloadEnd, InSequence, Current
<1>1. Took(p, a) /\ a.id = "fastboot" /\ a.val = val
  BY DEF DownloadEnd, InSequence, Complete, Took, Sent, Answer, Ack
<1>2. val \notin receive_bitmap'
  <2>1. receive_bitmap' \in SUBSET Numbers
    BY <1>0, StoreType
  <2>2. INVALID_NUM \notin Numbers
    BY NumbersAreFinite DEF Numbers, INVALID_NUM
  <2> QED
    BY <2>1, <2>2, FirstMissingType
<1> HIDE DEF a, val, over
<1>3. host.step = "data" =>
        /\ host.next = MaxNum /\ ~(host.next < MaxNum) /\ ~Accepted /\ Accepted'
        /\ fb_expected_seq = host.seq /\ p.num \notin receive_bitmap
  <2>1. host.step = "data" => /\ ~(host.next < MaxNum) /\ ~Accepted /\ p \in host.out
                              /\ fb_expected_seq = host.seq
    BY <1>0, DataPacket
  <2>2. ~(host.next < MaxNum) => host.next = MaxNum
    BY HostUnpacked, NumbersAreFinite
  <2>3. ~Asking => Accepted'
    BY <1>1, TookEffect DEF ProtocolInv, Accepted, Took
  <2> QED
    BY <1>0, <2>1, <2>2, <2>3 DEF WindowInv, Asking
<1>4. ASSUME host.step = "data", NEW b \in {fb_packet'} \cup {m.answer : m \in Mine'},
             b.id = "fastboot", b.seq = host.seq
      PROVE  b = a
  <2>1. fb_packet' = a /\ \A m \in Mine' : m \in toHost \/ m.answer = a
    BY <1>1, TookEffect DEF ProtocolInv, Mine
  <2>2. \A m \in toHost : m.answer.id = "fastboot" => m.answer.seq # host.seq
    BY <1>3, <1>4, NothingAhead DEF ProtocolInv
  <2> QED
    BY <1>4, <2>1, <2>2
<1>5. WindowInv'
  <2>1. host.step = "data" =>
          \A b \in {fb_packet'} \cup {m.answer : m \in Mine'} :
            b.id = "fastboot" /\ b.seq = host.seq => b.val \notin receive_bitmap'
    BY <1>1, <1>2, <1>4
  <2>2. host.step = "data" =>
          /\ ~(host.next < MaxNum) /\ Accepted'
          /\ \A q \in host.out : q.flag /\ host.next = MaxNum => q.num % kBarrierNum # 0
          /\ \A q, r \in host.out : q.flag /\ ~r.flag => q.num # r.num
    BY <1>3 DEF WindowInv
  <2> QED
    BY <1>0, <2>1, <2>2 DEF WindowInv
<1>6. host.step = "data" => Left' <= Left
  <2>1. Missing' \in Int /\ Missing \in Int
        /\ (p.num \notin receive_bitmap => Missing' + 1 = Missing)
    BY <1>0, MissingStored, MissingType, NumbersAreFinite
  <2>2. host.step = "data" => Left = Missing + 3 + 0 /\ Left' = Missing' + 3 + 1
    BY <1>0, <1>3 DEF Left
  <2>3. \A i, j \in Int : i + 1 = j => i + 3 + 1 <= j + 3 + 0
    OBVIOUS
  <2> QED
    BY <1>3, <2>1, <2>2, <2>3, Zenon
<1> QED
  BY <1>1, <1>5, <1>6, TookBudget DEF ProtocolInv

LEMMA SpendOne ==
  \A i, e, l, k, b \in Int : i + 1 = e /\ i + l <= b /\ k + 1 <= l => e + k <= b
  OBVIOUS

\* The host's next packets take one number of those it has left.
LEMMA GoBudget ==
  ASSUME TypeInv, TypeInv', ProtocolInv, Unwrapped, BudgetInv,
         NEW m \in Mine, Waited(m.answer), ~Asking,
         NEW step \in Steps \ {"query", "init"}, NEW next \in 0..MaxNum, NEW packets,
         Go(step, next, packets), Fresh(packets, WhatOf(step)),
         UNCHANGED <<dvars, toHost, late>>, Left' + 1 <= Left
  PROVE  BudgetInv'
<1>1. host'.step = step /\ host'.seq = fb_expected_seq /\ host'.sess = host.sess
  BY GoEffect
<1>2. host.seq + 1 = fb_expected_seq
  BY AnsweredEffect DEF ProtocolInv, Accepted
<1>3. host.seq + Left <= Begin(host.sess + 1)
  BY DEF BudgetInv
<1>4. Left' \in Int /\ Left \in Int /\ Begin(host.sess + 1) \in Int
  BY LeftType, LeftTypeNext, BeginType, Comparable DEF Positive
<1>5. fb_expected_seq + Left' <= Begin(host.sess + 1)
  <2>1. host.seq \in Int /\ fb_expected_seq \in Int
    BY Comparable
  <2>2. /\ host.seq + 1 = fb_expected_seq
        /\ host.seq + Left <= Begin(host.sess + 1)
        /\ Left' + 1 <= Left
    BY <1>2, <1>3
  <2>3. \A l, k, b \in Int :
          host.seq + 1 = fb_expected_seq /\ host.seq + l <= b /\ k + 1 <= l =>
            fb_expected_seq + k <= b
    BY <2>1, SpendOne, Zenon
  <2> QED
    BY <1>4, <2>2, <2>3, Zenon
<1> QED
  BY <1>1, <1>5 DEF BudgetInv, Asking

\* The next window ends further on, and its last packet is the only one without the flag.
LEMMA WindowBudget ==
  ASSUME TypeInv, TypeInv', ProtocolInv, Unwrapped, BudgetInv,
         NEW m \in Mine, Waited(m.answer), ~Asking, NEW from \in Numbers, SendWindow(from),
         UNCHANGED <<dvars, toHost, late>>,
         Left = 2 * MaxNum - from + 3, \A n \in receive_bitmap : n < from
  PROVE  WindowInv' /\ BudgetInv'
<1> DEFINE e == WindowEnd(from)
<1>0. /\ e \in from..(MaxNum - 1) /\ from \in Nat /\ MaxNum \in Nat
      /\ \A n \in from..(e - 1) : n % kBarrierNum # 0
  BY WindowEndType, NumbersAreFinite DEF Numbers
<1>1. /\ Go("data", e + 1, Window(from)) /\ Fresh(Window(from), "data")
      /\ e + 1 \in 0..MaxNum
  BY WindowType DEF SendWindow
<1>2. "data" \in Steps \ {"query", "init"} /\ WhatOf("data") = "data"
  BY DEF Steps, WhatOf, Commands
<1>3. /\ host'.step = "data" /\ host'.next = e + 1 /\ host'.out = Window(from)
      /\ host'.seq = fb_expected_seq /\ ~Accepted' /\ Mine' = Mine
  BY <1>1, <1>2, GoEffect
<1>4. receive_bitmap' = receive_bitmap /\ fb_packet' = fb_packet
  BY DEF dvars
<1>5. ASSUME NEW p \in Window(from)
      PROVE  /\ p.num \in from..e /\ (p.flag <=> p.num # MaxNum - 1)
             /\ p.num \notin receive_bitmap
  <2>1. PICK n \in from..e : p = Fastboot("data", n, n # MaxNum - 1)
    BY DEF Window
  <2>2. p.num = n /\ (p.flag <=> n # MaxNum - 1)
    BY <2>1 DEF Fastboot, Packet
  <2>3. \A k \in receive_bitmap : k \in Int
    BY Unpacked, NumbersAreFinite DEF Numbers
  <2>4. n \notin receive_bitmap
    BY <1>0, <2>3
  <2> QED
    BY <2>2, <2>4
<1>6. \A n \in receive_bitmap : n < e + 1
  <2>1. \A n \in receive_bitmap : n \in Int
    BY Unpacked, NumbersAreFinite DEF Numbers
  <2> QED
    BY <1>0, <2>1
<1>7. \A p \in Window(from) : /\ p.num < e + 1
                              /\ p.flag /\ e + 1 = MaxNum => p.num % kBarrierNum # 0
  BY <1>0, <1>5
<1>8. \A b \in {fb_packet} \cup {q.answer : q \in Mine} :
        ~(b.id = "fastboot" /\ b.seq = fb_expected_seq)
  BY NothingAhead DEF ProtocolInv, Mine
<1>9. WindowInv'
  BY <1>3, <1>4, <1>5, <1>6, <1>7, <1>8 DEF WindowInv
<1>10. Left' + 1 <= Left
  <2>1. CASE e + 1 < MaxNum
    <3>1. Left' = 2 * MaxNum - (e + 1) + 3
      BY <1>3, <2>1 DEF Left
    <3>2. \A i \in from..(MaxNum - 1) : 2 * MaxNum - (i + 1) + 3 + 1 <= 2 * MaxNum - from + 3
      BY <1>0
    <3> QED
      BY <1>0, <3>1, <3>2, Zenon
  <2>2. CASE ~(e + 1 < MaxNum)
    <3>1. Left' = Missing' + 3 + 0
      BY <1>3, <2>2 DEF Left
    <3>2. Missing' = Missing /\ Missing \in 0..MaxNum
      BY <1>4, MissingType DEF Missing
    <3>3. \A i \in 0..MaxNum : i + 3 + 0 + 1 <= 2 * MaxNum - from + 3
      BY <1>0
    <3> QED
      BY <3>1, <3>2, <3>3, Zenon
  <2> QED
    BY <2>1, <2>2
<1>11. BudgetInv'
  BY <1>1, <1>2, <1>10, GoBudget
<1> QED
  BY <1>9, <1>11

LEMMA AskBudget ==
  ASSUME TypeInv, TypeInv', ProtocolInv, Unwrapped, BudgetInv,
         NEW m \in Mine, Waited(m.answer), ~Asking,
         NEW step \in Steps \ {"query", "init", "data"}, NEW next \in 0..MaxNum,
         Go(step, next, Ask(WhatOf(step))), UNCHANGED <<dvars, toHost, late>>,
         host'.step = step => Left' + 1 <= Left
  PROVE  WindowInv' /\ BudgetInv'
<1>1. Fresh(Ask(WhatOf(step)), WhatOf(step))
  <2>1. WhatOf(step) \in {"empty"} \cup Commands
    BY DEF WhatOf
  <2> QED
    BY <2>1, AskType
<1>2. host'.step = step
  BY <1>1, GoEffect
<1>3. WindowInv'
  BY <1>2 DEF WindowInv
<1>4. BudgetInv'
  BY <1>1, <1>2, GoBudget
<1> QED
  BY <1>3, <1>4

LEMMA ContinueBudget ==
  ASSUME TypeInv, TypeInv', ProtocolInv, Unwrapped, WindowInv, BudgetInv,
         NEW m \in Mine, Waited(m.answer), Continue(m.answer),
         UNCHANGED <<dvars, toHost, late>>
  PROVE  WindowInv' /\ BudgetInv'
<1> DEFINE a == m.answer
<1>0. /\ MaxNum \in 0..MaxNum /\ 0 \in 0..MaxNum /\ 0 \in Numbers /\ ~(MaxNum < MaxNum)
      /\ MaxNum \in Nat \ {0}
  BY NumbersAreFinite DEF Numbers
<1>1. CASE host.step = "query"
  <2>1. Asking /\ a.val \in Int /\ a.val <= fb_expected_seq
    BY <1>1, Comparable DEF Asking, ProtocolInv, SeqInv, Mine
  <2>2. /\ host'.step = "init" /\ host'.seq = a.val /\ host'.sess = host.sess
    BY <1>1, HostUnpacked DEF Continue, HostTypes
  <2>3. fb_expected_seq <= Begin(host.sess)
    BY <2>1 DEF BudgetInv
  <2>4. Left' = SessionNumbers /\ host.sess \in Int
    BY <2>2, BeginType, Comparable DEF Left
  <2>5. a.val + Left' <= Begin(host.sess + 1)
    BY <2>1, <2>3, <2>4, BeginType, Comparable
  <2> QED
    BY <2>2, <2>5 DEF BudgetInv, WindowInv, Asking
<1>2. CASE host.step = "init"
  <2>1. Go("download", 0, Ask("download")) /\ ~Asking
    BY <1>2 DEF Continue, Asking
  <2>2. "download" \in Steps \ {"query", "init", "data"} /\ WhatOf("download") = "download"
    BY DEF Steps, WhatOf, Commands
  <2>3. host'.step = "download" => Left' + 1 <= Left
    <3>1. Left = 2 * MaxNum + 5
      BY <1>2, LeftValue
    <3>2. host'.step = "download" => Left' = 2 * MaxNum + 4
      BY DEF Left
    <3>3. 2 * MaxNum + 4 + 1 <= 2 * MaxNum + 5
      BY <1>0
    <3> QED
      BY <3>1, <3>2, <3>3, Zenon
  <2> QED
    BY <1>0, <2>1, <2>2, <2>3, AskBudget
<1>3. CASE host.step = "download"
  <2>1. Go("download status", 0, Ask("empty")) /\ ~Asking
    BY <1>3 DEF Continue, Asking
  <2>2. /\ "download status" \in Steps \ {"query", "init", "data"}
        /\ WhatOf("download status") = "empty"
    BY DEF Steps, WhatOf, Commands
  <2>3. host'.step = "download status" => Left' + 1 <= Left
    <3>1. Left = 2 * MaxNum + 4
      BY <1>3, LeftValue
    <3>2. host'.step = "download status" => Left' = 2 * MaxNum + 3
      BY DEF Left
    <3>3. 2 * MaxNum + 3 + 1 <= 2 * MaxNum + 4
      BY <1>0
    <3> QED
      BY <3>1, <3>2, <3>3, Zenon
  <2> QED
    BY <1>0, <2>1, <2>2, <2>3, AskBudget
<1>4. CASE host.step = "download status"
  <2>1. SendWindow(0) /\ ~Asking
    BY <1>4 DEF Continue, Asking
  <2>2. Left = 2 * MaxNum - 0 + 3
    <3>1. Left = 2 * MaxNum + 3
      BY <1>4, LeftValue
    <3>2. 2 * MaxNum + 3 = 2 * MaxNum - 0 + 3
      BY <1>0
    <3> QED
      BY <3>1, <3>2
  <2>3. \A n \in receive_bitmap : n < 0
    BY <1>4 DEF ProtocolInv, PhaseInv
  <2> QED
    BY <1>0, <2>1, <2>2, <2>3, WindowBudget
<1>5. CASE host.step = "data" /\ host.next < MaxNum
  <2>1. host.next # MaxNum /\ host.next \in Numbers
    BY <1>5, HostUnpacked, NumbersAreFinite DEF Numbers
  <2>2. SendWindow(host.next) /\ ~Asking
    BY <1>5, <2>1 DEF Continue, Asking
  <2>3. Left = 2 * MaxNum - host.next + 3
    BY <1>5 DEF Left
  <2>4. \A n \in receive_bitmap : n < host.next
    BY <1>5 DEF WindowInv
  <2> QED
    BY <2>1, <2>2, <2>3, <2>4, WindowBudget
<1>6. CASE host.step = "data" /\ host.next = MaxNum
  <2>1. ~Asking /\ Accepted /\ a.id = "fastboot" /\ a.seq = host.seq
    <3>1. ~Asking
      BY <1>6 DEF Asking
    <3> QED
      BY <1>6, <3>1, AnsweredEffect DEF ProtocolInv, IdOf
  <2>2. Left = Missing + 3 + 1 /\ Missing \in 0..MaxNum
    BY <1>0, <1>6, <2>1, MissingType DEF Left
  <2>3. a.val \notin receive_bitmap
    BY <1>6, <2>1 DEF WindowInv
  <2>4. CASE a.val # INVALID_NUM
    <3> DEFINE q == Fastboot("data", a.val, FALSE)
    <3>1. Go("data", MaxNum, {q})
      BY <1>0, <1>6, <2>4 DEF Continue
    <3>2. "data" \in Steps \ {"query", "init"} /\ WhatOf("data") = "data"
      BY DEF Steps, WhatOf, Commands
    <3>3. a.val \in Numbers
      BY <2>1, <2>4, Unpacked DEF Mine, Sound
    <3>4. Fresh({q}, "data") /\ ~q.flag /\ q.num = a.val
      BY <3>3, FastbootType DEF Fastboot, Packet
    <3> HIDE DEF q
    <3>5. /\ host'.step = "data" /\ host'.next = MaxNum /\ host'.out = {q}
          /\ host'.seq = fb_expected_seq /\ ~Accepted' /\ Mine' = Mine
      BY <1>0, <2>1, <3>1, <3>2, <3>4, GoEffect
    <3>6. receive_bitmap' = receive_bitmap /\ fb_packet' = fb_packet
      BY DEF dvars
    <3>7. \A b \in {fb_packet} \cup {r.answer : r \in Mine} :
            ~(b.id = "fastboot" /\ b.seq = fb_expected_seq)
      BY NothingAhead DEF ProtocolInv, Mine
    <3>8. WindowInv'
      BY <1>0, <2>3, <3>4, <3>5, <3>6, <3>7 DEF WindowInv
    <3>9. Left' + 1 <= Left
      <4>1. Left' = Missing' + 3 + 0 /\ Missing' = Missing
        BY <1>0, <3>5, <3>6 DEF Left, Missing
      <4>2. \A i \in 0..MaxNum : i + 3 + 0 + 1 <= i + 3 + 1
        BY <1>0
      <4> QED
        BY <2>2, <4>1, <4>2, Zenon
    <3>10. BudgetInv'
      BY <1>0, <2>1, <3>1, <3>2, <3>4, <3>9, GoBudget
    <3> QED
      BY <3>8, <3>10
  <2>5. CASE a.val = INVALID_NUM
    <3>1. Go("data status", MaxNum, Ask("empty"))
      BY <1>0, <1>6, <2>5 DEF Continue
    <3>2. /\ "data status" \in Steps \ {"query", "init", "data"}
          /\ WhatOf("data status") = "empty"
      BY DEF Steps, WhatOf, Commands
    <3>3. host'.step = "data status" => Left' + 1 <= Left
      <4>1. host'.step = "data status" => Left' = 3
        BY DEF Left
      <4>2. \A i \in 0..MaxNum : 3 + 1 <= i + 3 + 1
        BY <1>0
      <4> QED
        BY <2>2, <4>1, <4>2, Zenon
    <3> QED
      BY <1>0, <2>1, <3>1, <3>2, <3>3, AskBudget
  <2> QED
    BY <2>4, <2>5
<1>7. CASE host.step = "data status"
  <2>1. Go("flash", MaxNum, Ask("flash")) /\ ~Asking
    BY <1>7 DEF Continue, Asking
  <2>2. "flash" \in Steps \ {"query", "init", "data"} /\ WhatOf("flash") = "flash"
    BY DEF Steps, WhatOf, Commands
  <2>3. host'.step = "flash" => Left' + 1 <= Left
    <3>1. Left = 3
      BY <1>7, LeftValue
    <3>2. host'.step = "flash" => Left' = 2
      BY DEF Left
    <3>3. 2 + 1 <= 3
      BY <1>0
    <3> QED
      BY <3>1, <3>2, <3>3, Zenon
  <2> QED
    BY <1>0, <2>1, <2>2, <2>3, AskBudget
<1>8. CASE host.step = "flash"
  <2>1. Go("flash status", MaxNum, Ask("empty")) /\ ~Asking
    BY <1>8 DEF Continue, Asking
  <2>2. /\ "flash status" \in Steps \ {"query", "init", "data"}
        /\ WhatOf("flash status") = "empty"
    BY DEF Steps, WhatOf, Commands
  <2>3. host'.step = "flash status" => Left' + 1 <= Left
    <3>1. Left = 2
      BY <1>8, LeftValue
    <3>2. host'.step = "flash status" => Left' = 1
      BY DEF Left
    <3>3. 1 + 1 <= 2
      BY <1>0
    <3> QED
      BY <3>1, <3>2, <3>3, Zenon
  <2> QED
    BY <1>0, <2>1, <2>2, <2>3, AskBudget
<1>9. CASE host.step = "flash status"
  <2>1. host'.step = "done" /\ host'.seq = host.seq /\ host'.sess = host.sess
    BY <1>9, HostUnpacked DEF Continue, Stop, HostTypes
  <2>2. Left' = Left
    BY <1>9, <2>1 DEF Left
  <2>3. host.seq + Left <= Begin(host.sess + 1)
    BY <1>9 DEF BudgetInv, Asking
  <2> QED
    BY <2>1, <2>2, <2>3 DEF BudgetInv, WindowInv, Asking
<1> QED
  BY <1>1, <1>2, <1>3, <1>4, <1>5, <1>6, <1>7, <1>8, <1>9 DEF Continue

LEMMA RestartBudget ==
  ASSUME TypeInv, ProtocolInv, BudgetInv, HostRestarts
  PROVE  WindowInv' /\ BudgetInv'
<1>1. /\ host'.step = "query" /\ host'.sess = host.sess + 1
      /\ toDevice' = toDevice \cup {Query(host.sess + 1)}
      /\ UNCHANGED fb_expected_seq
  BY DEF HostRestarts, dvars
<1>2. Sent' = Sent
  BY <1>1 DEF Sent, Query, Packet
<1>3. /\ host.sess \in Int /\ host.seq \in Int /\ fb_expected_seq \in Int
      /\ Begin(host.sess) \in Int /\ Begin(host.sess + 1) \in Int
      /\ Begin(host.sess) <= Begin(host.sess + 1) /\ Left \in Int /\ Left >= 1
      /\ \A p \in Sent : p.seq \in Int
  BY BeginType, LeftType, Comparable DEF Positive, Sent
<1>4. CASE Asking
  BY <1>1, <1>2, <1>3, <1>4 DEF BudgetInv, WindowInv, Asking
<1>5. CASE ~Asking
  <2>1. /\ host.seq + Left <= Begin(host.sess + 1) /\ fb_expected_seq <= host.seq + 1
        /\ \A p \in Sent : p.seq <= host.seq
    BY <1>5 DEF BudgetInv, ProtocolInv, SeqInv
  <2>2. fb_expected_seq <= Begin(host.sess + 1)
    BY <1>3, <2>1
  <2>3. \A p \in Sent : p.seq < Begin(host.sess + 1)
    BY <1>3, <2>1
  <2> QED
    BY <1>1, <1>2, <2>2, <2>3 DEF BudgetInv, WindowInv, Asking
<1> QED
  BY <1>4, <1>5

LEMMA BudgetStep ==
  ASSUME TypeInv, TypeInv', ProtocolInv, Unwrapped, WindowInv, BudgetInv, [Next]_vars
  PROVE  WindowInv' /\ BudgetInv'
<1>1. ASSUME NEW p \in toDevice, fb_udp_handler(p) PROVE WindowInv' /\ BudgetInv'
  <2>1. UNCHANGED <<host, toDevice>> /\ (DeviceQuery(p) \/ late' = late)
    BY <1>1 DEF fb_udp_handler
  <2>2. CASE Initialization(p)
    <3> DEFINE a == Answer("init", p.seq, 0, "")
    <3>1. Took(p, a) /\ p.id = "init"
      BY <2>1, <2>2 DEF Initialization, Took, Sent, Answer
    <3> QED
      BY <3>1, TookOther
  <2>3. CASE Status(p)
    <3> DEFINE a == Answer("fastboot", p.seq, INVALID_NUM, status)
    <3>1. Took(p, a) /\ p.what # "data"
      BY <2>1, <2>3 DEF Status, InSequence, Took, Sent, Answer
    <3> QED
      BY <3>1, TookOther
  <2>4. CASE Command(p)
    <3> DEFINE a == Answer("fastboot", p.seq, INVALID_NUM, "")
    <3>1. Took(p, a) /\ p.what # "data"
      BY <2>1, <2>4 DEF Command, InSequence, Took, Sent, Answer, Ack, Commands
    <3> QED
      BY <3>1, TookOther
  <2> QED
    BY <1>1, <2>1, <2>2, <2>3, <2>4, QueryBudget, RepeatedBudget, DownloadContBudget,
       DownloadEndBudget DEF fb_udp_handler
<1>2. CASE HostReads
  BY <1>2, ContinueBudget DEF HostReads, Mine
<1>3. CASE HostRestarts
  BY <1>3, RestartBudget
<1>4. CASE UNCHANGED vars
  <2>1. UNCHANGED <<fb_expected_seq, fb_packet, toHost, receive_bitmap, host, toDevice>>
    BY <1>4 DEF vars, dvars
  <2>2. Sent' = Sent /\ Asking' = Asking /\ Mine' = Mine /\ Accepted' = Accepted
    BY <2>1 DEF Sent, Asking, Mine, Accepted
  <2>3. Left' = Left
    BY <2>1, <2>2 DEF Left, Missing
  <2> QED
    BY <2>1, <2>2, <2>3 DEF BudgetInv, WindowInv
<1> QED
  BY <1>1, <1>2, <1>3, <1>4 DEF Next

\* The numbers of all sessions together.
Short == (Disturbances + 1) * SessionNumbers < SeqMod - 1

LEMMA BudgetUnwraps ==
  ASSUME Short, TypeInv, ProtocolInv, BudgetInv PROVE Unwrapped
<1>1. /\ host.sess \in Int /\ host.sess >= 1 /\ host.sess <= Disturbances + 1
      /\ Disturbances \in Nat
  BY HostUnpacked, BoundAssumption DEF Sessions
<1>2. Begin(host.sess + 1) <= (Disturbances + 1) * SessionNumbers
  <2>1. \A i, j, k \in Nat : i <= j => i * k <= j * k
    OBVIOUS
  <2>2. Begin(host.sess + 1) = host.sess * SessionNumbers
    <3>1. \A i \in Int : (i + 1) - 1 = i
      OBVIOUS
    <3>2. (host.sess + 1) - 1 = host.sess
      BY <1>1, <3>1
    <3> QED
      BY <3>2 DEF Begin
  <2> QED
    BY <1>1, <2>1, <2>2, BeginType
<1>3. fb_expected_seq <= Begin(host.sess + 1)
  <2>1. CASE Asking
    <3>1. fb_expected_seq <= Begin(host.sess)
      BY <2>1 DEF BudgetInv
    <3> QED
      BY <1>1, <3>1, BeginType, Comparable
  <2>2. CASE ~Asking
    <3>1. host.seq + Left <= Begin(host.sess + 1) /\ fb_expected_seq <= host.seq + 1
      BY <2>2 DEF BudgetInv, ProtocolInv, SeqInv
    <3> QED
      BY <1>1, <3>1, BeginType, LeftType, Comparable DEF Positive
  <2> QED
    BY <2>1, <2>2
<1>4. (Disturbances + 1) * SessionNumbers \in Int
  BY <1>1, BeginType
<1> QED
  BY <1>1, <1>2, <1>3, <1>4, BeginType, SeqModType, Comparable DEF Short, Unwrapped

\* A session takes no more than two numbers for a packet and five for its other steps, with
\* all it has to ask for again: as many sessions as fit in 16 bits never make the numbers
\* come round.
THEOREM NumbersSuffice == ASSUME Short PROVE Spec => []Unwrapped
<1>1. Init => WindowInv /\ BudgetInv
  <2>1. ASSUME Init PROVE BudgetInv
    <3>1. Sent = {} /\ Asking /\ fb_expected_seq = 0 /\ host.sess = 1
      BY <2>1 DEF Init, Sent, Asking, Query, Packet
    <3>2. Begin(1) = 0
      BY BeginType DEF Begin
    <3> QED
      BY <3>1, <3>2 DEF BudgetInv
  <2>2. ASSUME Init PROVE WindowInv
    <3>1. host.step = "query"
      BY <2>2 DEF Init
    <3> QED
      BY <3>1 DEF WindowInv
  <2> QED
    BY <2>1, <2>2
<1> DEFINE All == TypeInv /\ ProtocolInv /\ WindowInv /\ BudgetInv
<1>2. Init => All
  BY <1>1, InitType, InitProtocol
<1>3. All /\ [Next]_vars => All'
  BY TypeStep, BudgetUnwraps, ProtocolStep, BudgetStep
<1>4. All => Unwrapped
  BY BudgetUnwraps
<1> QED
  BY <1>2, <1>3, <1>4, PTL DEF Spec
-----------------------------------------------------------------------------
(***************************************************************************)
(* The TFTP client: the inductive invariants                               *)
(***************************************************************************)

\* The bytes of the first k blocks have come.
Prefix(k) == \A i \in 0..(FileLength - 1) : i < k * BlockSize => ram[i] = i

FromServer == {p \in toClient : p.op \in {"OACK", "DATA"}}
Acks == {q \in toServer : q.op = "ACK"}

\* A packet to the client is an error or comes from the transfer that serves it, which has
\* sent that block.
FromTransfer(p) ==
  /\ p.src \in Transfers /\ p.dest \in used
  /\ \/ p.op \in {"FILE_NOT_FOUND", "DISK_FULL"}
     \/ /\ servers[p.src].port = p.dest
        /\ \/ p = Oack(p.src, p.dest) /\ Options
           \/ \E n \in 1..servers[p.src].block : p = Data(p.src, p.dest, n)

\* A packet to the server is a request, or an acknowledgement for the transfer that
\* serves the client.
FromClient(q) ==
  /\ q.src \in used
  /\ \/ q = Rrq(q.src, q.block)
     \/ /\ q.dest \in Transfers /\ servers[q.dest].port = q.src
        /\ q.block \in 0..(TFTP_SEQUENCE_SIZE - 1)
        /\ q = AckPacket(q.src, q.dest, q.block)

PacketsInv ==
  /\ TftpOurPort \in used
  /\ servers \in [Transfers -> [port : used \cup {0}, block : 0..LastBlock]]
  /\ \A s \in Transfers :
       IF servers[s].port = 0 THEN servers[s] = Idle ELSE Options \/ servers[s].block # 0
  /\ \A p \in toClient : FromTransfer(p)
  /\ \A q \in toServer : FromClient(q)

\* Whoever gets data of this attempt knows the size of its blocks, on a port of its own.
SizeKnown ==
  TftpBlkSize = BlockSize \/
    /\ Options
    /\ \A q \in Acks : q.src # TftpOurPort
    /\ \A s \in Transfers : servers[s].port = TftpOurPort => servers[s].block = 0

\* On a port of several attempts, whoever was not blind knows it from the options.
BlockSizeInv ==
  /\ ~repeated => SizeKnown /\ ~blind
  /\ NetState = "CONTINUE" /\ ~blind /\ TftpState # "SEND_RRQ" => TftpBlkSize = BlockSize

TftpTypeInv == TftpTypeOK /\ copies \in Nat /\ PacketsInv /\ BlockSizeInv

Fetching == NetState = "CONTINUE"
Numbered == LastBlock < TFTP_SEQUENCE_SIZE /\ (~repeated \/ ~blind)
Alone == ~repeated /\ copies = 0
Unambiguous == Numbered \/ Alone

\* A transfer sends a block when the client has those before it.
PrefixInv ==
  Fetching /\ Unambiguous =>
    /\ NetBootFileXferSize <= FileLength
    /\ \A s \in Transfers : Prefix(servers[s].block - 1)

\* Without a wrap a number tells the block.
NumberInv ==
  Fetching /\ Numbered =>
    /\ \A q \in Acks : Prefix(q.block)
    /\ Prefix(TftpBlock)
    /\ TftpState = "DATA" => TftpBlockWrapOffset = 0 /\ Prefix(TftpLastBlock)

\* The client has the first c blocks of transfer s, and the options if there are any.
Got(s, c) ==
  IF c >= 1
  THEN /\ TftpState = "DATA" /\ TftpRemotePort = s
       /\ TftpLastBlock = c % TFTP_SEQUENCE_SIZE
       /\ TftpBlockWrapOffset = (c - (c % TFTP_SEQUENCE_SIZE)) * BlockSize
  ELSE /\ TftpBlock = 0
       /\ IF Options /\ c = 0 THEN TftpState = "OACK" /\ TftpRemotePort = s
          ELSE TftpState = "SEND_RRQ"

\* As long as neither packets nor ports are repeated an attempt has one transfer, the two
\* take turns, and wraps are counted right.
TurnInv ==
  Fetching /\ Alone =>
    /\ \A q \in toServer : q.op = "RRQ" =>
         /\ \A s \in Transfers : servers[s].port # q.src
         /\ \A x \in toServer : x.op = "RRQ" /\ x.src = q.src => x = q
         /\ q.src = TftpOurPort => TftpBlock = 0 /\ TftpState = "SEND_RRQ"
    /\ \A r, s \in Transfers : servers[r].port = servers[s].port => r = s \/ servers[s] = Idle
    /\ \A p \in FromServer :
         p = LastSent(p.src, servers[p.src]) /\ \A q \in Acks : q.dest # p.src
    /\ \A q \in Acks :
         /\ q.block = servers[q.dest].block % TFTP_SEQUENCE_SIZE
         /\ Prefix(servers[q.dest].block)
    /\ \A s \in Transfers : servers[s].port = TftpOurPort =>
         /\ Got(s, servers[s].block - 1) \/ Got(s, servers[s].block)
         /\ LastSent(s, servers[s]) \in toClient => Got(s, servers[s].block - 1)
         /\ \A q \in Acks : q.dest = s => Got(s, servers[s].block)

FileInv == PrefixInv /\ NumberInv /\ TurnInv /\ Intact

TftpInv == TftpTypeInv /\ FileInv
-----------------------------------------------------------------------------
(***************************************************************************)
(* Blocks and their numbers                                                *)
(***************************************************************************)

LEMMA BlockFacts ==
  ASSUME FileLength \in Nat
  PROVE  /\ BlockSize \in Nat \ {0}
         /\ LastBlock \in Nat \ {0}
         /\ (LastBlock - 1) * BlockSize <= FileLength
         /\ FileLength < LastBlock * BlockSize
<1>1. BlockSize \in Nat \ {0}
  BY SizesAssumption, SwitchesAssumption DEF BlockSize
<1> HIDE DEF BlockSize
<1>2. \A x \in Nat, b \in Nat \ {0} :
        x \div b \in Nat /\ (x \div b) * b <= x /\ x < (x \div b + 1) * b
  OBVIOUS
<1>3. FileLength \div BlockSize \in Nat
      /\ (FileLength \div BlockSize) * BlockSize <= FileLength
      /\ FileLength < (FileLength \div BlockSize + 1) * BlockSize
  BY <1>1, <1>2
<1> DEFINE d == FileLength \div BlockSize
<1>4. LastBlock = d + 1
  BY DEF LastBlock
<1> HIDE DEF d
<1>5. d \in Nat /\ d * BlockSize <= FileLength /\ FileLength < (d + 1) * BlockSize
  BY <1>3 DEF d
<1>6. (d + 1) - 1 = d
  BY <1>5
<1> QED
  BY <1>1, <1>4, <1>5, <1>6

\* Blocks are ordered as their ends.
LEMMA BlocksOrdered ==
  ASSUME NEW b \in Nat, NEW j \in Int, NEW k \in Int, j <= k
  PROVE  j * b \in Int /\ k * b \in Int /\ j * b <= k * b
  OBVIOUS

LEMMA NextBlock ==
  ASSUME NEW b \in Nat, NEW n \in Int
  PROVE  n * b = (n - 1) * b + b /\ (n - 1) * b \in Int
  OBVIOUS

\* The n-th block of the file.
LEMMA DataFacts ==
  ASSUME FileLength \in Nat, NEW n \in 1..LastBlock, NEW s, NEW u, NEW p,
         p = Data(s, u, n)
  PROVE  /\ p.op = "DATA" /\ p.src = s /\ p.dest = u
         /\ p.block = n % TFTP_SEQUENCE_SIZE /\ p.block \in 0..(TFTP_SEQUENCE_SIZE - 1)
         /\ p.from = (n - 1) * BlockSize /\ p.from \in Nat
         /\ p.len \in 0..BlockSize /\ p.from + p.len <= FileLength
         /\ \A i \in 0..(FileLength - 1) : i < n * BlockSize => i < p.from + p.len
         /\ p.len < BlockSize => n = LastBlock
         /\ n = LastBlock => p.from + p.len = FileLength
<1> DEFINE b == BlockSize
           f == (n - 1) * b
<1>1. /\ p.op = "DATA" /\ p.src = s /\ p.dest = u
      /\ p.block = n % TFTP_SEQUENCE_SIZE
      /\ p.from = f /\ p.len = Least(b, FileLength - f)
  BY DEF Data, Reply
<1>2. /\ b \in Nat \ {0} /\ LastBlock \in Nat \ {0}
      /\ (LastBlock - 1) * b <= FileLength /\ FileLength < LastBlock * b
  BY BlockFacts
<1>3. p.block \in 0..(TFTP_SEQUENCE_SIZE - 1)
  BY <1>1, SizesAssumption
<1> HIDE DEF b
<1>4. n \in Int /\ 0 <= n - 1 /\ n - 1 <= LastBlock - 1 /\ n - 1 \in Int /\ LastBlock - 1 \in Int
  BY <1>2
<1>5. f \in Int /\ 0 <= f /\ f <= FileLength
  <2>1. 0 * b = 0
    BY <1>2
  <2> QED
    BY <1>2, <1>4, <2>1, BlocksOrdered
<1>6. n * b = f + b
  BY <1>2, <1>4, NextBlock
<1>7. n = LastBlock => FileLength < f + b
  BY <1>2, <1>6
<1>8. n # LastBlock => f + b <= FileLength
  <2> SUFFICES ASSUME n # LastBlock PROVE f + b <= FileLength
    OBVIOUS
  <2>1. n <= LastBlock - 1
    BY <1>2
  <2>2. n * b <= (LastBlock - 1) * b /\ n * b \in Int /\ (LastBlock - 1) * b \in Int
    BY <1>2, <1>4, <2>1, BlocksOrdered
  <2> QED
    BY <1>2, <1>5, <1>6, <2>2
<1> HIDE DEF f
<1>9. /\ p.len \in 0..b /\ f + p.len <= FileLength
      /\ \A i \in 0..(FileLength - 1) : i < f + b => i < f + p.len
      /\ p.len < b => n = LastBlock
      /\ n = LastBlock => f + p.len = FileLength
  BY <1>1, <1>2, <1>5, <1>7, <1>8 DEF Least
<1>10. f \in Nat
  BY <1>5
<1> QED
  BY <1>1, <1>3, <1>6, <1>9, <1>10 DEF b, f

LEMMA OackFacts ==
  ASSUME NEW s, NEW u, NEW p, p = Oack(s, u)
  PROVE  /\ p.op = "OACK" /\ p.src = s /\ p.dest = u /\ p.block = 0 /\ p.len = BlockSize
  BY DEF Oack, Reply

LEMMA AckFacts ==
  ASSUME NEW s, NEW u, NEW k, NEW q, q = AckPacket(u, s, k)
  PROVE  q.op = "ACK" /\ q.src = u /\ q.dest = s /\ q.block = k
  BY DEF AckPacket

LEMMA RrqFacts ==
  ASSUME NEW u, NEW n, NEW q, q = Rrq(u, n)
  PROVE  q.op = "RRQ" /\ q.src = u /\ q.dest = WELL_KNOWN_PORT /\ q.block = n
  BY DEF Rrq

LEMMA PrefixDown ==
  ASSUME FileLength \in Nat, NEW j \in Int, NEW k \in Int, j <= k, Prefix(k)
  PROVE  Prefix(j)
<1> SUFFICES ASSUME NEW i \in 0..(FileLength - 1), i < j * BlockSize PROVE ram[i] = i
  BY DEF Prefix
<1>1. j * BlockSize \in Int /\ k * BlockSize \in Int /\ j * BlockSize <= k * BlockSize
  BY BlockFacts, BlocksOrdered
<1>2. i < k * BlockSize
  BY <1>1
<1> QED
  BY <1>2 DEF Prefix

LEMMA NoPrefix ==
  ASSUME FileLength \in Nat, NEW k \in Int, k <= 0 PROVE Prefix(k)
<1>1. k * BlockSize <= 0 * BlockSize /\ k * BlockSize \in Int
  BY BlockFacts, BlocksOrdered
<1>2. 0 * BlockSize = 0
  BY BlockFacts
<1> QED
  BY <1>1, <1>2 DEF Prefix

LEMMA Offset ==
  ASSUME NEW b \in Nat, NEW m \in Int, NEW n \in Int
  PROVE  (m - 1) * b + (n - m) * b = (n - 1) * b
  OBVIOUS

\* A block goes where it belongs when the wraps are counted right.
LEMMA StoreRight ==
  ASSUME TftpTypeOK, NEW n \in 1..LastBlock, NEW s, NEW u, NEW p, p = Data(s, u, n),
         NEW w, w = (n - (n % TFTP_SEQUENCE_SIZE)) * BlockSize,
         TftpBlkSize = BlockSize, StoreBlock(p, w), FileLength' = FileLength,
         NetBootFileXferSize <= FileLength
  PROVE  /\ \A k \in Int : Prefix(k) => Prefix(k)'
         /\ Prefix(n - 1) => Prefix(n)'
         /\ NetBootFileXferSize' \in Nat /\ NetBootFileXferSize' <= FileLength
         /\ n = LastBlock => NetBootFileXferSize' = FileLength
<1> DEFINE offset == (p.block - 1) * TftpBlkSize + w
<1>1. FileLength \in Nat /\ NetBootFileXferSize \in Nat
  BY SizesAssumption DEF TftpTypeOK
<1>2. /\ p.block = n % TFTP_SEQUENCE_SIZE /\ p.block \in 0..(TFTP_SEQUENCE_SIZE - 1)
      /\ p.from = (n - 1) * BlockSize /\ p.from \in Nat
      /\ p.len \in 0..BlockSize /\ p.from + p.len <= FileLength
      /\ \A i \in 0..(FileLength - 1) : i < n * BlockSize => i < p.from + p.len
      /\ n = LastBlock => p.from + p.len = FileLength
  BY <1>1, DataFacts
<1>3. BlockSize \in Nat \ {0} /\ LastBlock \in Nat
  BY <1>1, BlockFacts
<1>4. n \in Int /\ n % TFTP_SEQUENCE_SIZE \in Int
  BY <1>2, <1>3
<1>5. offset = p.from
  BY <1>2, <1>3, <1>4, Offset
<1>6. /\ ram' = [i \in Places |->
                  IF i \in offset..(offset + p.len - 1) THEN p.from + i - offset ELSE ram[i]]
      /\ NetBootFileXferSize' = SizeWith(offset, p.len)
  BY DEF StoreBlock
<1> HIDE DEF offset
<1>7. p.len \in Nat
  BY <1>2, <1>3
<1>8. \A i \in 0..(FileLength - 1) :
        ram'[i] = IF i \in p.from..(p.from + p.len - 1) THEN i ELSE ram[i]
  <2> SUFFICES ASSUME NEW i \in 0..(FileLength - 1)
               PROVE  ram'[i] = IF i \in p.from..(p.from + p.len - 1) THEN i ELSE ram[i]
    OBVIOUS
  <2>1. i \in Places
    BY <1>1 DEF Places
  <2> QED
    BY <1>2, <1>5, <1>6, <1>7, <2>1
<1>9. \A k \in Int : Prefix(k) => Prefix(k)'
  BY <1>8 DEF Prefix, BlockSize
<1>10. ASSUME Prefix(n - 1) PROVE Prefix(n)'
  <2> SUFFICES ASSUME NEW i \in 0..(FileLength - 1), i < n * BlockSize PROVE ram'[i] = i
    BY DEF Prefix, BlockSize
  <2>1. CASE i < (n - 1) * BlockSize
    BY <1>8, <1>10, <2>1 DEF Prefix
  <2>2. CASE ~(i < (n - 1) * BlockSize)
    <3>1. p.from <= i /\ i < p.from + p.len
      BY <1>1, <1>2, <2>2
    <3> QED
      BY <1>1, <1>2, <1>7, <1>8, <3>1
  <2> QED
    BY <2>1, <2>2
<1>11. /\ NetBootFileXferSize' \in Nat /\ NetBootFileXferSize' <= FileLength
       /\ n = LastBlock => NetBootFileXferSize' = FileLength
  BY <1>1, <1>2, <1>5, <1>6, <1>7 DEF SizeWith
<1> QED
  BY <1>9, <1>10, <1>11

\* Wherever it goes, it is bytes of the file.
LEMMA BytesStored ==
  ASSUME TftpTypeOK, NEW n \in 1..LastBlock, NEW s, NEW u, NEW p, p = Data(s, u, n),
         NEW w \in Nat, p.block = 0 => TftpBlkSize <= w,
         StoreBlock(p, w), FileLength' = FileLength
  PROVE  NetBootFileXferSize' \in Nat /\ ram' \in [Places' -> -1..(FileLength' - 1)]
<1> DEFINE offset == (p.block - 1) * TftpBlkSize + w
<1>1. /\ FileLength \in Nat /\ NetBootFileXferSize \in Nat /\ TftpBlkSize \in Nat \ {0}
      /\ ram \in [Places -> -1..(FileLength - 1)]
  BY SizesAssumption DEF TftpTypeOK
<1>2. /\ p.block \in 0..(TFTP_SEQUENCE_SIZE - 1) /\ p.from \in Nat
      /\ p.len \in 0..BlockSize /\ p.from + p.len <= FileLength
  BY <1>1, DataFacts
<1>3. BlockSize \in Nat
  BY <1>1, BlockFacts
<1>4. offset \in Nat
  <2>1. CASE p.block = 0
    <3>1. offset = w - TftpBlkSize
      BY <1>1, <2>1
    <3> QED
      BY <1>1, <2>1, <3>1
  <2>2. CASE p.block # 0
    <3>1. p.block - 1 \in Nat
      BY <1>2, <2>2, SizesAssumption
    <3>2. (p.block - 1) * TftpBlkSize \in Nat
      BY <1>1, <3>1
    <3> QED
      BY <3>2
  <2> QED
    BY <2>1, <2>2
<1>5. /\ ram' = [i \in Places |->
                  IF i \in offset..(offset + p.len - 1) THEN p.from + i - offset ELSE ram[i]]
      /\ NetBootFileXferSize' = SizeWith(offset, p.len)
  BY DEF StoreBlock
<1> HIDE DEF offset
<1>6. p.len \in Nat
  BY <1>2, <1>3
<1>7. NetBootFileXferSize' \in Nat
  BY <1>1, <1>4, <1>5, <1>6 DEF SizeWith
<1>8. Places' = Places
  BY DEF Places
<1>9. \A i \in Places :
        (IF i \in offset..(offset + p.len - 1) THEN p.from + i - offset ELSE ram[i])
          \in -1..(FileLength - 1)
  <2>1. \A i \in Places : i \in Int /\ ram[i] \in -1..(FileLength - 1)
    BY <1>1 DEF Places
  <2>2. \A i \in Int : i \in offset..(offset + p.len - 1) =>
          p.from + i - offset \in -1..(FileLength - 1)
    BY <1>1, <1>2, <1>4, <1>6
  <2> QED
    BY <2>1, <2>2
<1> QED
  BY <1>5, <1>7, <1>8, <1>9

-----------------------------------------------------------------------------
(***************************************************************************)
(* What is on its way stays true                                           *)
(***************************************************************************)

\* Ports stay used, transfers keep their client and go forward.
Grows ==
  /\ FileLength' = FileLength /\ used \subseteq used'
  /\ \A s \in Transfers :
       \/ servers[s].port = 0
       \/ servers'[s].port = servers[s].port /\ servers[s].block <= servers'[s].block

LEMMA SameFile ==
  ASSUME FileLength' = FileLength
  PROVE  /\ LastBlock' = LastBlock
         /\ \A s, u, n : Data(s, u, n)' = Data(s, u, n)
         /\ \A s, t : LastSent(s, t)' = LastSent(s, t)
<1>1. LastBlock' = LastBlock
  BY DEF LastBlock, BlockSize
<1>2. \A s, u, n : Data(s, u, n)' = Data(s, u, n)
  BY DEF Data, BlockSize
<1>3. \A s, t : LastSent(s, t)' = LastSent(s, t)
  BY <1>2 DEF LastSent, Oack, BlockSize
<1> QED
  BY <1>1, <1>2, <1>3

LEMMA FromTransferKept ==
  ASSUME TftpTypeInv, Grows, servers' \in [Transfers -> [port : Nat, block : Nat]],
         NEW p, FromTransfer(p)
  PROVE  FromTransfer(p)'
<1>1. p.src \in Transfers /\ p.dest \in used /\ p.dest # 0
  BY PortsAssumption DEF FromTransfer, TftpTypeInv, TftpTypeOK
<1>2. p.dest \in used'
  BY <1>1 DEF Grows
<1>3. CASE p.op \in {"FILE_NOT_FOUND", "DISK_FULL"}
  BY <1>1, <1>2, <1>3 DEF FromTransfer
<1>4. CASE p.op \notin {"FILE_NOT_FOUND", "DISK_FULL"}
  <2>1. servers[p.src].port = p.dest
    BY <1>4 DEF FromTransfer
  <2>2. /\ servers'[p.src].port = p.dest /\ servers[p.src].block <= servers'[p.src].block
        /\ servers[p.src].block \in Nat /\ servers'[p.src].block \in Nat
    <3>1. servers[p.src] \in [port : used \cup {0}, block : 0..LastBlock] /\ LastBlock \in Nat
      BY <1>1, BlockFacts, SizesAssumption DEF TftpTypeInv, TftpTypeOK, PacketsInv
    <3> QED
      BY <1>1, <2>1, <3>1 DEF Grows
  <2>3. CASE p = Oack(p.src, p.dest) /\ Options
    BY <1>1, <1>2, <2>2, <2>3 DEF FromTransfer, Oack, BlockSize
  <2>4. CASE \E n \in 1..servers[p.src].block : p = Data(p.src, p.dest, n)
    <3>1. PICK n \in 1..servers[p.src].block : p = Data(p.src, p.dest, n)
      BY <2>4
    <3>2. n \in 1..servers'[p.src].block /\ p = Data(p.src, p.dest, n)'
      BY <2>2, <3>1, SameFile DEF Grows
    <3> QED
      BY <1>1, <1>2, <2>2, <3>2 DEF FromTransfer
  <2> QED
    BY <1>4, <2>3, <2>4 DEF FromTransfer
<1> QED
  BY <1>3, <1>4

LEMMA FromClientKept ==
  ASSUME TftpTypeInv, Grows, NEW q, FromClient(q)
  PROVE  FromClient(q)'
<1>1. q.src \in used /\ q.src # 0
  BY PortsAssumption DEF FromClient, TftpTypeInv, TftpTypeOK
<1>2. q.src \in used'
  BY <1>1 DEF Grows
<1>3. q.dest \in Transfers /\ servers[q.dest].port = q.src => servers'[q.dest].port = q.src
  BY <1>1 DEF Grows
<1> QED
  BY <1>2, <1>3 DEF FromClient

\* What a packet of this attempt is, and what it says of the size of its blocks.
LEMMA DataSize ==
  ASSUME TftpTypeInv, NEW p, FromTransfer(p), p.dest = TftpOurPort, p.op = "DATA"
  PROVE  /\ ~repeated => TftpBlkSize = BlockSize
         /\ servers[p.src].port = TftpOurPort /\ p.src \in Transfers
         /\ \E n \in 1..servers[p.src].block :
              /\ n \in 1..LastBlock /\ p = Data(p.src, p.dest, n)
<1>1. p.src \in Transfers /\ servers[p.src].port = TftpOurPort
      /\ \E n \in 1..servers[p.src].block : p = Data(p.src, p.dest, n)
  BY DEF FromTransfer, Oack, Reply
<1>2. servers[p.src].block \in 0..LastBlock /\ LastBlock \in Nat
  BY <1>1, BlockFacts, SizesAssumption DEF TftpTypeInv, TftpTypeOK, PacketsInv
<1>3. PICK n \in 1..servers[p.src].block : p = Data(p.src, p.dest, n)
  BY <1>1
<1>4. n \in 1..LastBlock /\ servers[p.src].block # 0
  BY <1>2, <1>3
<1>5. ~repeated => TftpBlkSize = BlockSize
  BY <1>1, <1>4 DEF TftpTypeInv, BlockSizeInv, SizeKnown
<1> QED
  BY <1>1, <1>3, <1>4, <1>5

\* A block is stored with the right size unless its attempt was blind to it.
LEMMA BlockSizeKnown ==
  ASSUME TftpTypeInv, NetState = "CONTINUE", NEW p, FromTransfer(p), p.dest = TftpOurPort,
         p.op = "DATA", NewBlock(p), ~repeated \/ ~blind'
  PROVE  TftpBlkSize = BlockSize
<1>1. CASE ~repeated
  BY <1>1, DataSize
<1>2. CASE ~blind'
  <2>1. blind' = (blind \/ (TftpState = "SEND_RRQ" /\ TftpBlkSize # BlockSize))
    BY DEF NewBlock
  <2>2. ~blind /\ (TftpState = "SEND_RRQ" => TftpBlkSize = BlockSize)
    BY <1>2, <2>1, Zenon
  <2> QED
    BY <2>2 DEF TftpTypeInv, BlockSizeInv
<1> QED
  BY <1>1, <1>2

LEMMA OackSize ==
  ASSUME TftpTypeInv, NEW p, FromTransfer(p), p.op = "OACK"
  PROVE  /\ p = Oack(p.src, p.dest) /\ Options /\ p.len = BlockSize
         /\ servers[p.src].port = p.dest /\ p.src \in Transfers
<1>1. p.src \in Transfers /\ servers[p.src].port = p.dest
  BY DEF FromTransfer
<1>2. servers[p.src].block \in 0..LastBlock /\ LastBlock \in Nat /\ FileLength \in Nat
  BY <1>1, BlockFacts, SizesAssumption DEF TftpTypeInv, TftpTypeOK, PacketsInv
<1>3. \A n \in 1..servers[p.src].block : p # Data(p.src, p.dest, n)
  BY DEF Data, Reply
<1> QED
  BY <1>1, <1>3, OackFacts DEF FromTransfer

-----------------------------------------------------------------------------
(***************************************************************************)
(* The packets, and who knows the size of the blocks                       *)
(***************************************************************************)

LEMMA TransferTypes ==
  ASSUME TftpTypeInv
  PROVE  /\ FileLength \in Nat /\ BlockSize \in Nat \ {0} /\ LastBlock \in Nat \ {0}
         /\ used \subseteq Nat \ {0} /\ TftpOurPort \in used
         /\ servers \in [Transfers -> [port : Nat, block : Nat]]
         /\ \A s \in Transfers :
              /\ servers[s].port \in used \cup {0} /\ servers[s].block \in 0..LastBlock
              /\ servers[s].port = 0 => servers[s] = Idle
              /\ servers[s] # Idle /\ servers[s].block = 0 => Options
<1>1. /\ FileLength \in Nat /\ used \subseteq Nat \ {0} /\ TftpOurPort \in used
      /\ servers \in [Transfers -> [port : used \cup {0}, block : 0..LastBlock]]
      /\ \A s \in Transfers :
           IF servers[s].port = 0 THEN servers[s] = Idle ELSE Options \/ servers[s].block # 0
  BY SizesAssumption, PortsAssumption DEF TftpTypeInv, TftpTypeOK, PacketsInv
<1>2. BlockSize \in Nat \ {0} /\ LastBlock \in Nat \ {0}
  BY <1>1, BlockFacts
<1>3. \A s \in Transfers :
        servers[s].port \in used \cup {0} /\ servers[s].block \in 0..LastBlock
  BY <1>1
<1>4. servers \in [Transfers -> [port : Nat, block : Nat]]
  <2>1. used \cup {0} \subseteq Nat /\ 0..LastBlock \subseteq Nat
    BY <1>1, <1>2
  <2> QED
    BY <1>1, <2>1
<1> QED
  BY <1>1, <1>2, <1>3, <1>4

\* The client goes on with its attempt: it answers nothing, or it has found out about the
\* size of the blocks.
StaysSilent ==
  /\ UNCHANGED <<toServer, TftpBlkSize, blind>>
  /\ NetState' = "FAIL" \/ UNCHANGED <<TftpState, NetState>>

Replies ==
  /\ TftpBlkSize' \in {TftpBlkSize, BlockSize} /\ blind' \in BOOLEAN
  /\ ~repeated \/ ~blind' => TftpBlkSize' = BlockSize
  /\ ~repeated => ~blind'
  /\ \E s \in Transfers, k \in 0..(TFTP_SEQUENCE_SIZE - 1) :
       /\ servers[s].port = TftpOurPort
       /\ toServer' = toServer \cup {AckPacket(TftpOurPort, s, k)}

LEMMA GoesOn ==
  ASSUME TftpTypeInv, toClient' \subseteq toClient, StaysSilent \/ Replies,
         UNCHANGED <<servers, FileLength, used, repeated, TftpOurPort>>
  PROVE  PacketsInv' /\ BlockSizeInv'
<1>1. Grows /\ servers' \in [Transfers -> [port : Nat, block : Nat]]
  BY TransferTypes DEF Grows
<1>2. LastBlock' = LastBlock
  BY SameFile
<1>3. \A p \in toClient' : FromTransfer(p)'
  BY <1>1, FromTransferKept DEF TftpTypeInv, PacketsInv
<1>4. \A q \in toServer : FromClient(q)'
  BY <1>1, FromClientKept DEF TftpTypeInv, PacketsInv
<1>5. \A s \in Transfers, k \in 0..(TFTP_SEQUENCE_SIZE - 1) :
        servers[s].port = TftpOurPort => FromClient(AckPacket(TftpOurPort, s, k))'
  BY TransferTypes DEF FromClient, AckPacket
<1>6. PacketsInv'
  <2>1. \A q \in toServer' : FromClient(q)'
    BY <1>4, <1>5 DEF StaysSilent, Replies
  <2> QED
    BY <1>2, <1>3, <2>1 DEF TftpTypeInv, PacketsInv
<1>7. BlockSizeInv'
  <2>1. BlockSize' = BlockSize
    BY DEF BlockSize
  <2>2. CASE StaysSilent
    <3>1. ~repeated' => SizeKnown' /\ ~blind'
      BY <2>1, <2>2 DEF StaysSilent, TftpTypeInv, BlockSizeInv, SizeKnown, Acks
    <3> QED
      BY <2>1, <2>2, <3>1 DEF StaysSilent, TftpTypeInv, BlockSizeInv
  <2>3. CASE Replies
    BY <2>1, <2>3 DEF Replies, BlockSizeInv, SizeKnown
  <2> QED
    BY <2>2, <2>3
<1> QED
  BY <1>6, <1>7

\* The client starts again, and knows whether somebody knows its port.
LEMMA Restarted ==
  ASSUME TftpStart, ~repeated'
  PROVE  ~repeated /\ TftpOurPort' \notin used
<1>1. repeated' = (repeated \/ TftpOurPort' \in used)
  BY DEF TftpStart
<1> QED
  BY <1>1, Zenon

LEMMA StartsAgain ==
  ASSUME TftpTypeInv, TftpStart, toClient' \subseteq toClient,
         UNCHANGED <<servers, FileLength, blind>>
  PROVE  PacketsInv' /\ BlockSizeInv'
<1>1. /\ TftpOurPort' \in used' /\ used' = used \cup {TftpOurPort'} /\ TftpState' = "SEND_RRQ"
      /\ TftpBlkSize' = TFTP_BLOCK_SIZE
      /\ toServer' = toServer \cup {Rrq(TftpOurPort', attempts + 1)}
  BY DEF TftpStart, FirstState
<1>2. Grows /\ servers' \in [Transfers -> [port : Nat, block : Nat]]
  BY <1>1, TransferTypes DEF Grows
<1>3. LastBlock' = LastBlock
  BY SameFile
<1>4. PacketsInv'
  <2>1. \A p \in toClient' : FromTransfer(p)'
    BY <1>2, FromTransferKept DEF TftpTypeInv, PacketsInv
  <2>2. ASSUME NEW q, q = Rrq(TftpOurPort', attempts + 1) PROVE FromClient(q)'
    <3>1. q.src = TftpOurPort' /\ q.block = attempts + 1
      BY <2>2, RrqFacts
    <3>2. q = Rrq(q.src, q.block)
      BY <2>2, <3>1
    <3>3. Rrq(q.src, q.block)' = Rrq(q.src, q.block)
      BY DEF Rrq, WELL_KNOWN_PORT
    <3> QED
      BY <1>1, <3>1, <3>2, <3>3 DEF FromClient
  <2>3. \A q \in toServer' : FromClient(q)'
    <3>1. \A q \in toServer : FromClient(q)'
      BY <1>2, FromClientKept DEF TftpTypeInv, PacketsInv
    <3> QED
      BY <1>1, <2>2, <3>1
  <2>4. servers' \in [Transfers -> [port : used' \cup {0}, block : 0..LastBlock']]
    <3>1. used \cup {0} \subseteq used' \cup {0}
      BY <1>1
    <3> QED
      BY <1>3, <3>1 DEF TftpTypeInv, PacketsInv
  <2> QED
    BY <1>1, <2>1, <2>3, <2>4 DEF TftpTypeInv, PacketsInv
<1>5. BlockSizeInv'
  <2>1. ASSUME ~repeated' PROVE SizeKnown'
    <3>1. CASE ~Options
      BY <1>1, <3>1 DEF SizeKnown, BlockSize
    <3>2. CASE Options
      <4>1. TftpOurPort' \notin used /\ TftpOurPort' # 0
        BY <1>1, <2>1, Restarted, PortsAssumption DEF TftpStart
      <4>2. \A q \in Acks' : q.src # TftpOurPort'
        <5>1. Acks' \subseteq Acks
          BY <1>1, RrqFacts DEF Acks
        <5> QED
          BY <4>1, <5>1 DEF Acks, TftpTypeInv, PacketsInv, FromClient
      <4>3. \A s \in Transfers : servers[s].port # TftpOurPort'
        BY <4>1, TransferTypes
      <4> QED
        BY <3>2, <4>2, <4>3 DEF SizeKnown
    <3> QED
      BY <3>1, <3>2
  <2>2. ~repeated' => ~blind'
    BY Restarted DEF TftpTypeInv, BlockSizeInv
  <2> QED
    BY <1>1, <2>1, <2>2 DEF BlockSizeInv
<1> QED
  BY <1>4, <1>5

\* Packets are lost, or sent again, or a transfer is refused.
LEMMA NothingNew ==
  ASSUME TftpTypeInv, toServer' \subseteq toServer,
         \A p \in toClient' :
           \/ p \in toClient
           \/ \E s \in Transfers : servers[s] # Idle /\ p = LastSent(s, servers[s])
           \/ \E e \in Errors, s \in Transfers, u \in used : p = Error(e, s, u),
         UNCHANGED <<TftpState, TftpBlkSize, TftpOurPort, NetState, servers, FileLength,
                     used, repeated, blind>>
  PROVE  PacketsInv' /\ BlockSizeInv'
<1>1. Grows /\ servers' \in [Transfers -> [port : Nat, block : Nat]]
  BY TransferTypes DEF Grows
<1>2. LastBlock' = LastBlock
  BY SameFile
<1>3. \A p \in toClient' : FromTransfer(p)'
  <2>1. \A s \in Transfers : servers[s] # Idle => FromTransfer(LastSent(s, servers[s]))
    <3> SUFFICES ASSUME NEW s \in Transfers, servers[s] # Idle
                 PROVE  FromTransfer(LastSent(s, servers[s]))
      OBVIOUS
    <3>1. /\ servers[s].port \in used /\ servers[s].block \in 0..LastBlock
          /\ LastBlock \in Nat
          /\ servers[s].block = 0 => Options
      BY TransferTypes
    <3>2. CASE servers[s].block = 0
      <4> DEFINE p == Oack(s, servers[s].port)
      <4>1. p.src = s /\ p.dest = servers[s].port
        BY OackFacts
      <4>2. p = Oack(p.src, p.dest)
        BY <4>1
      <4>3. p = LastSent(s, servers[s])
        BY <3>2 DEF LastSent
      <4> HIDE DEF p
      <4>4. FromTransfer(p)
        BY <3>1, <3>2, <4>1, <4>2 DEF FromTransfer
      <4> QED
        BY <4>3, <4>4
    <3>3. CASE servers[s].block # 0
      <4> DEFINE n == servers[s].block
                 p == Data(s, servers[s].port, n)
      <4>1. p.src = s /\ p.dest = servers[s].port
        BY DEF Data, Reply
      <4>2. n \in 1..servers[s].block
        BY <3>1, <3>3
      <4> QED
        BY <3>1, <3>3, <4>1, <4>2 DEF FromTransfer, LastSent
    <3> QED
      BY <3>2, <3>3
  <2>2. \A e \in Errors, s \in Transfers, u \in used : FromTransfer(Error(e, s, u))
    BY SwitchesAssumption DEF FromTransfer, Error, Reply
  <2>3. \A p \in toClient' : FromTransfer(p)
    BY <2>1, <2>2 DEF TftpTypeInv, PacketsInv
  <2> QED
    BY <1>1, <2>3, FromTransferKept
<1>4. \A q \in toServer' : FromClient(q)'
  BY <1>1, FromClientKept DEF TftpTypeInv, PacketsInv
<1>5. PacketsInv'
  BY <1>2, <1>3, <1>4 DEF TftpTypeInv, PacketsInv
<1>6. BlockSizeInv'
  <2>1. BlockSize' = BlockSize /\ Acks' \subseteq Acks
    BY DEF BlockSize, Acks
  <2>2. ~repeated => SizeKnown'
    BY <2>1 DEF TftpTypeInv, BlockSizeInv, SizeKnown
  <2> QED
    BY <2>1, <2>2 DEF TftpTypeInv, BlockSizeInv
<1> QED
  BY <1>5, <1>6

\* A transfer starts or goes forward, and sends its next packet.
LEMMA GoesForward ==
  ASSUME TftpTypeInv, NEW r \in Transfers, NEW t \in [port : used, block : 0..LastBlock],
         servers' = [servers EXCEPT ![r] = t],
         servers[r] = Idle \/ (servers[r].port = t.port /\ t.block = servers[r].block + 1),
         t.block = 0 => Options, toClient' = toClient \cup {LastSent(r, t)},
         toServer' \subseteq toServer,
         UNCHANGED <<TftpState, TftpBlkSize, TftpOurPort, NetState, FileLength,
                     used, repeated, blind>>,
         ~repeated /\ t.port = TftpOurPort /\ t.block # 0 => TftpBlkSize = BlockSize
  PROVE  PacketsInv' /\ BlockSizeInv'
<1>1. /\ \A s \in Transfers : servers'[s] = IF s = r THEN t ELSE servers[s]
      /\ t.port \in used /\ t.block \in 0..LastBlock /\ t.port \in Nat /\ t.block \in Nat
      /\ t \in [port : used \cup {0}, block : 0..LastBlock]
  BY TransferTypes
<1>2. servers' \in [Transfers -> [port : used \cup {0}, block : 0..LastBlock]]
  BY <1>1 DEF TftpTypeInv, PacketsInv
<1>3. Grows /\ servers' \in [Transfers -> [port : Nat, block : Nat]]
  <2>1. servers[r] = Idle => servers[r].port = 0
    BY DEF Idle
  <2>2. \A s \in Transfers :
       \/ servers[s].port = 0
       \/ servers'[s].port = servers[s].port /\ servers[s].block <= servers'[s].block
    BY <1>1, <2>1, TransferTypes
  <2>3. servers' \in [Transfers -> [port : Nat, block : Nat]]
    BY <1>1, TransferTypes
  <2> QED
    BY <2>2, <2>3, TransferTypes DEF Grows
<1>4. LastBlock' = LastBlock
  BY SameFile
<1>5. FromTransfer(LastSent(r, t))'
  <2>1. /\ servers'[r].port = t.port /\ servers'[r].block = t.block
        /\ t.port \in used'
    BY <1>1
  <2>2. CASE t.block = 0
    <3>1. LastSent(r, t) = Oack(r, t.port) /\ Oack(r, t.port)' = Oack(r, t.port)
      BY <2>2 DEF LastSent, Oack, BlockSize
    <3>2. LastSent(r, t).src = r /\ LastSent(r, t).dest = t.port
      BY <3>1, OackFacts
    <3> QED
      BY <2>1, <2>2, <3>1, <3>2 DEF FromTransfer, Oack, BlockSize, LastSent
  <2>3. CASE t.block # 0
    <3> DEFINE p == Data(r, t.port, t.block)
    <3>1. p.src = r /\ p.dest = t.port /\ p = LastSent(r, t) /\ p' = p
      BY <2>3, SameFile DEF Data, Reply, LastSent
    <3>2. t.block \in 1..servers'[r].block
      BY <1>1, <2>1, <2>3, TransferTypes
    <3> HIDE DEF p
    <3>3. p = Data(r, t.port, t.block)'
      BY <3>1 DEF p
    <3>4. LastSent(r, t)' = p
      BY <3>1, SameFile
    <3> QED
      BY <2>1, <3>1, <3>2, <3>3, <3>4 DEF FromTransfer
  <2> QED
    BY <2>2, <2>3
<1>6. PacketsInv'
  <2>1. \A p \in toClient : FromTransfer(p)'
    BY <1>3, FromTransferKept DEF TftpTypeInv, PacketsInv
  <2>2. \A p \in toClient' : FromTransfer(p)'
    BY <1>5, <2>1, SameFile
  <2>3. \A q \in toServer' : FromClient(q)'
    BY <1>3, FromClientKept DEF TftpTypeInv, PacketsInv
  <2>4. \A s \in Transfers :
          IF servers'[s].port = 0 THEN servers'[s] = Idle ELSE Options \/ servers'[s].block # 0
    BY <1>1, TransferTypes DEF Idle
  <2> QED
    BY <1>2, <1>4, <2>2, <2>3, <2>4, TransferTypes DEF PacketsInv
<1>7. BlockSizeInv'
  <2>1. BlockSize' = BlockSize /\ Acks' \subseteq Acks
    BY DEF BlockSize, Acks
  <2>2. ~repeated => SizeKnown'
    BY <1>1, <2>1 DEF TftpTypeInv, BlockSizeInv, SizeKnown
  <2> QED
    BY <2>1, <2>2 DEF TftpTypeInv, BlockSizeInv
<1> QED
  BY <1>6, <1>7

-----------------------------------------------------------------------------
(***************************************************************************)
(* The types                                                               *)
(***************************************************************************)

LEMMA TakenCopies ==
  ASSUME copies \in Nat, NEW packets, NEW p, NEW left, Taken(packets, p, left)
  PROVE  copies' \in Nat /\ left \subseteq packets
  BY DEF Taken

LEMMA TftpInitType == TftpInit => TftpTypeInv
<1> SUFFICES ASSUME TftpInit PROVE TftpTypeInv
  OBVIOUS
<1> USE DEF TftpInit
<1>1. FileLength \in Nat
  BY SizesAssumption
<1>2. LastBlock \in Nat \ {0}
  BY <1>1, BlockFacts
<1>3. TftpTypeOK
  <2>1. ram \in [Places -> -1..(FileLength - 1)]
    BY <1>1 DEF Places
  <2>2. /\ TftpBlock \in 0..(TFTP_SEQUENCE_SIZE - 1)
        /\ TftpLastBlock \in 0..(TFTP_SEQUENCE_SIZE - 1)
        /\ TftpTimeoutCount \in 0..TftpTimeoutCountMax
    BY SizesAssumption
  <2>3. TftpOurPort \in Ports /\ used \subseteq Ports /\ attempts \in 1..MaxAttempts
    BY BoundsAssumption
  <2> QED
    BY <2>1, <2>2, <2>3 DEF TftpTypeOK
<1>4. FromClient(Rrq(TftpOurPort, 1))
  BY DEF FromClient, Rrq
<1>5. PacketsInv
  BY <1>2, <1>4 DEF PacketsInv, Idle
<1>6. BlockSizeInv
  <2>1. TftpOurPort # 0
    BY PortsAssumption
  <2>2. SizeKnown
    BY <2>1 DEF SizeKnown, BlockSize, Acks, Rrq, Idle
  <2> QED
    BY <2>2 DEF BlockSizeInv
<1> QED
  BY <1>3, <1>5, <1>6 DEF TftpTypeInv

LEMMA LoseType == TftpTypeInv /\ Lose => TftpTypeInv'
<1> SUFFICES ASSUME TftpTypeInv, Lose PROVE TftpTypeInv'
  OBVIOUS
<1>1. toClient' \subseteq toClient /\ toServer' \subseteq toServer
      /\ UNCHANGED <<cvars, NetState, NetBootFileXferSize, ram, netretry, FileLength,
                     attemptVars, hurried, refused, blind, servers, copies>>
  BY DEF Lose
<1>2. PacketsInv' /\ BlockSizeInv'
  BY <1>1, NothingNew DEF cvars, attemptVars
<1>3. TftpTypeOK'
  BY <1>1 DEF TftpTypeInv, TftpTypeOK, cvars, attemptVars, Places
<1> QED
  BY <1>1, <1>2, <1>3 DEF TftpTypeInv

LEMMA ServerReceivesType == TftpTypeInv /\ ServerReceives => TftpTypeInv'
<1> SUFFICES ASSUME TftpTypeInv, ServerReceives PROVE TftpTypeInv'
  OBVIOUS
<1>1. PICK p \in toServer :
        /\ \/ (Starts(p) \/ Advances(p)) /\ UNCHANGED refused
           \/ Refuses(p) /\ refused' = TRUE
        /\ Taken(toServer, p, toServer')
        /\ UNCHANGED <<cvars, NetState, NetBootFileXferSize, ram, netretry, FileLength,
                       attemptVars, hurried, blind, lost>>
  BY DEF ServerReceives
<1>2. copies' \in Nat /\ toServer' \subseteq toServer
  BY <1>1, TakenCopies DEF TftpTypeInv
<1>3. FromClient(p) /\ p.src \in used
  BY DEF TftpTypeInv, PacketsInv, FromClient
<1>4. TftpTypeOK'
  BY <1>1 DEF TftpTypeInv, TftpTypeOK, cvars, attemptVars, Places
<1>5. UNCHANGED <<TftpState, TftpBlkSize, TftpOurPort, NetState, FileLength,
                  used, repeated, blind>>
  BY <1>1 DEF cvars, attemptVars
<1>6. CASE Starts(p)
  <2>1. PICK s \in Transfers, t \in [port : {p.src}, block : {IF Options THEN 0 ELSE 1}] :
          /\ servers[s] = Idle /\ servers' = [servers EXCEPT ![s] = t]
          /\ toClient' = toClient \cup {LastSent(s, t)}
    BY <1>6 DEF Starts
  <2>2. t \in [port : used, block : 0..LastBlock] /\ (t.block = 0 => Options)
        /\ (t.block # 0 => ~Options)
    BY <1>3, TransferTypes
  <2>3. ~repeated /\ t.block # 0 => TftpBlkSize = BlockSize
    BY <2>2 DEF TftpTypeInv, BlockSizeInv, SizeKnown
  <2>4. PacketsInv' /\ BlockSizeInv'
    BY <1>2, <1>5, <2>1, <2>2, <2>3, GoesForward
  <2> QED
    BY <1>2, <1>4, <2>4 DEF TftpTypeInv
<1>7. CASE Advances(p)
  <2> DEFINE t == servers[p.dest]
             next == [t EXCEPT !.block = @ + 1]
  <2>1. p.op = "ACK" /\ p.dest \in Transfers /\ t.port = p.src
    BY <1>3, <1>7 DEF Advances, FromClient, Rrq
  <2>2. CASE UNCHANGED <<servers, toClient>>
    <3>1. PacketsInv' /\ BlockSizeInv'
      BY <1>2, <1>5, <2>2, NothingNew
    <3> QED
      BY <1>2, <1>4, <3>1 DEF TftpTypeInv
  <2>3. CASE ~(UNCHANGED <<servers, toClient>>)
    <3>1. /\ t.block < LastBlock /\ servers' = [servers EXCEPT ![p.dest] = next]
          /\ toClient' = toClient \cup {LastSent(p.dest, next)}
      BY <1>7, <2>3 DEF Advances
    <3>2. /\ next \in [port : used, block : 0..LastBlock]
          /\ next.port = t.port /\ next.block = t.block + 1 /\ next.block # 0
      BY <1>3, <2>1, <3>1, TransferTypes
    <3>3. ~repeated /\ next.port = TftpOurPort => TftpBlkSize = BlockSize
      BY <2>1, <3>2 DEF TftpTypeInv, BlockSizeInv, SizeKnown, Acks
    <3> HIDE DEF next
    <3>4. PacketsInv' /\ BlockSizeInv'
      BY <1>2, <1>5, <2>1, <3>1, <3>2, <3>3, GoesForward
    <3> QED
      BY <1>2, <1>4, <3>4 DEF TftpTypeInv
  <2> QED
    BY <2>2, <2>3
<1>8. CASE Refuses(p)
  <2>1. /\ servers' = servers
        /\ \E e \in Errors, s \in Transfers : toClient' = toClient \cup {Error(e, s, p.src)}
    BY <1>8 DEF Refuses
  <2>2. PacketsInv' /\ BlockSizeInv'
    BY <1>2, <1>3, <1>5, <2>1, NothingNew
  <2> QED
    BY <1>2, <1>4, <2>2 DEF TftpTypeInv
<1> QED
  BY <1>1, <1>6, <1>7, <1>8

LEMMA ServerResendsType == TftpTypeInv /\ ServerResends => TftpTypeInv'
<1> SUFFICES ASSUME TftpTypeInv, ServerResends PROVE TftpTypeInv'
  OBVIOUS
<1>1. PICK s \in Transfers :
        /\ servers[s] # Idle /\ copies' = copies + 1
        /\ toClient' = toClient \cup {LastSent(s, servers[s])}
        /\ UNCHANGED <<cvars, NetState, NetBootFileXferSize, ram, netretry, FileLength,
                       attemptVars, hurried, refused, blind, servers, toServer, lost>>
  BY DEF ServerResends
<1>2. PacketsInv' /\ BlockSizeInv'
  BY <1>1, NothingNew DEF cvars, attemptVars
<1>3. TftpTypeOK'
  BY <1>1 DEF TftpTypeInv, TftpTypeOK, cvars, attemptVars, Places
<1>4. copies' \in Nat
  BY <1>1 DEF TftpTypeInv
<1> QED
  BY <1>2, <1>3, <1>4 DEF TftpTypeInv

\* TftpStart() and NetStartAgain(), and what they are called with.
LEMMA StartsAgainType ==
  ASSUME TftpTypeInv, TftpStart, toClient' \subseteq toClient,
         UNCHANGED <<servers, FileLength, ram, netretry, refused, blind>>,
         TftpLastBlock' \in 0..(TFTP_SEQUENCE_SIZE - 1), TftpBlockWrapOffset' \in Nat,
         NetState' = NetState, NetBootFileXferSize' \in Nat, hurried' \in BOOLEAN, copies' \in Nat
  PROVE  TftpTypeInv'
<1>1. PacketsInv' /\ BlockSizeInv'
  BY StartsAgain
<1>2. attempts' \in 1..MaxAttempts
  BY BoundsAssumption DEF TftpStart, TftpTypeInv, TftpTypeOK
<1>3. repeated' \in BOOLEAN
  BY Zenon DEF TftpStart
<1>4. used' \subseteq Ports /\ TftpOurPort' \in Ports
  BY DEF TftpStart, TftpTypeInv, TftpTypeOK
<1>5. TftpTypeOK'
  BY <1>2, <1>3, <1>4, SizesAssumption
  DEF TftpTypeInv, TftpTypeOK, TftpStart, FirstState, Places
<1> QED
  BY <1>1, <1>5 DEF TftpTypeInv

\* The attempt goes on, or has failed.
LEMMA GoesOnType ==
  ASSUME TftpTypeInv, toClient' \subseteq toClient, StaysSilent \/ Replies,
         UNCHANGED <<servers, FileLength, attempts, used, repeated, TftpOurPort,
                     TftpTimeoutCount, netretry, refused>>,
         TftpState' \in {"SEND_RRQ", "OACK", "DATA"},
         TftpBlock' \in 0..(TFTP_SEQUENCE_SIZE - 1),
         TftpLastBlock' \in 0..(TFTP_SEQUENCE_SIZE - 1), TftpBlockWrapOffset' \in Nat,
         TftpRemotePort' \in Transfers \cup {WELL_KNOWN_PORT},
         NetState' \in {"CONTINUE", "SUCCESS", "FAIL"},
         NetBootFileXferSize' \in Nat, ram' \in [Places' -> -1..(FileLength' - 1)],
         hurried' \in BOOLEAN, copies' \in Nat
  PROVE  TftpTypeInv'
<1>1. PacketsInv' /\ BlockSizeInv'
  BY GoesOn
<1>2. TftpBlkSize' \in {TFTP_BLOCK_SIZE, TftpBlkSizeOption} /\ blind' \in BOOLEAN
  BY DEF TftpTypeInv, TftpTypeOK, BlockSize, StaysSilent, Replies
<1>3. TftpTypeOK'
  BY <1>2 DEF TftpTypeInv, TftpTypeOK, Places
<1> QED
  BY <1>1, <1>3 DEF TftpTypeInv

LEMMA PacketBlock ==
  ASSUME TftpTypeInv, NEW p, FromTransfer(p), p.op = "DATA"
  PROVE  p.block \in 0..(TFTP_SEQUENCE_SIZE - 1) /\ p.src \in Transfers
<1>1. /\ p.src \in Transfers
      /\ \E n \in 1..servers[p.src].block : p = Data(p.src, p.dest, n)
  BY DEF FromTransfer, Oack, Reply
<1>2. PICK n \in 1..servers[p.src].block : p = Data(p.src, p.dest, n)
  BY <1>1
<1>3. n \in 1..LastBlock
  BY <1>1, TransferTypes
<1> QED
  BY <1>1, <1>2, <1>3, DataFacts, TransferTypes

\* A step of TftpHandler(), with what its guard and the network leave.
Handles(p) ==
  /\ p \in toClient /\ FromTransfer(p) /\ toClient' \subseteq toClient /\ copies' \in Nat
  /\ UNCHANGED <<netretry, FileLength, hurried, refused, servers, lost>>

LEMMA HandleOtherType ==
  ASSUME TftpTypeInv, NEW p, Handles(p), HandleOther(p) PROVE TftpTypeInv'
<1> QED
  BY GoesOnType
  DEF Handles, HandleOther, StaysSilent, cvars, attemptVars, TftpTypeInv, TftpTypeOK, Places

LEMMA HandleOackType ==
  ASSUME TftpTypeInv, NEW p, Handles(p), HandleOack(p) PROVE TftpTypeInv'
<1>1. p.len = BlockSize /\ servers[p.src].port = TftpOurPort /\ p.src \in Transfers
  BY OackSize DEF Handles, HandleOack, Admitted
<1>2. TftpBlock \in 0..(TFTP_SEQUENCE_SIZE - 1)
  BY DEF TftpTypeInv, TftpTypeOK
<1>3. Replies
  <2>1. /\ TftpBlkSize' = BlockSize /\ blind' = blind
        /\ toServer' = toServer \cup {AckPacket(TftpOurPort, p.src, TftpBlock)}
    BY <1>1 DEF HandleOack, Granted, SendAck
  <2>2. ~repeated => ~blind
    BY DEF TftpTypeInv, BlockSizeInv
  <2>3. blind \in BOOLEAN
    BY DEF TftpTypeInv, TftpTypeOK
  <2> QED
    BY <1>1, <1>2, <2>1, <2>2, <2>3 DEF Replies
<1> QED
  BY <1>1, <1>2, <1>3, GoesOnType
  DEF Handles, HandleOack, attemptVars, TftpTypeInv, TftpTypeOK, Places

LEMMA HandleErrorType ==
  ASSUME TftpTypeInv, NEW p, Handles(p), HandleError(p) PROVE TftpTypeInv'
<1> USE DEF Handles, HandleError
<1>1. CASE TftpStart /\ NetBootFileXferSize' = 0 /\ NetState' = NetState
  BY <1>1, StartsAgainType DEF TftpTypeInv, TftpTypeOK
<1>2. CASE ~(TftpStart /\ NetBootFileXferSize' = 0 /\ NetState' = NetState)
  <2>1. NetState' = "FAIL"
        /\ UNCHANGED <<TftpState, TftpBlkSize, TftpBlock, TftpOurPort, TftpRemotePort,
                       TftpTimeoutCount, NetBootFileXferSize, toServer, attemptVars,
                       TftpLastBlock, TftpBlockWrapOffset, ram, blind>>
    BY <1>2 DEF NetStartAgain
  <2> QED
    BY <2>1, GoesOnType DEF StaysSilent, attemptVars, TftpTypeInv, TftpTypeOK, Places
<1> QED
  BY <1>1, <1>2

LEMMA FirstIsNotOneType ==
  ASSUME TftpTypeInv, NEW p, Handles(p), p.op = "DATA", FirstIsNotOne(p) PROVE TftpTypeInv'
<1> USE DEF Handles, FirstIsNotOne
<1>1. 0 \in 0..(TFTP_SEQUENCE_SIZE - 1)
  BY SizesAssumption
<1>2. CASE netretry = "no"
  BY <1>1, <1>2, PacketBlock, GoesOnType
  DEF StaysSilent, attemptVars, TftpTypeInv, TftpTypeOK, Places
<1>3. CASE netretry # "no"
  BY <1>1, <1>3, StartsAgainType DEF TftpTypeInv, TftpTypeOK, NetStartAgain
<1> QED
  BY <1>2, <1>3

LEMMA WrapType ==
  ASSUME TftpTypeInv, NEW p
  PROVE  WrapOffset(p) \in Nat /\ (p.block = 0 => TftpBlkSize <= WrapOffset(p))
<1>1. TftpBlkSize \in Nat \ {0} /\ TftpBlockWrapOffset \in Nat
  BY SizesAssumption DEF TftpTypeInv, TftpTypeOK
<1>2. \A b \in Nat, n \in Nat \ {0} : b * n \in Nat /\ b <= b * n
  OBVIOUS
<1>3. /\ TftpBlkSize * TFTP_SEQUENCE_SIZE \in Nat
      /\ TftpBlkSize <= TftpBlkSize * TFTP_SEQUENCE_SIZE
  BY <1>1, <1>2, SizesAssumption
<1> QED
  BY <1>1, <1>3 DEF WrapOffset

LEMMA SameBlockAgainType ==
  ASSUME TftpTypeInv, NEW p, Handles(p), p.op = "DATA", SameBlockAgain(p) PROVE TftpTypeInv'
<1>1. p.block \in 0..(TFTP_SEQUENCE_SIZE - 1) /\ WrapOffset(p) \in Nat
  BY PacketBlock, WrapType DEF Handles
<1> QED
  BY <1>1, GoesOnType
  DEF Handles, SameBlockAgain, StaysSilent, attemptVars, TftpTypeInv, TftpTypeOK, Places

LEMMA NewBlockType ==
  ASSUME TftpTypeInv, NetState = "CONTINUE", NEW p, Handles(p), p.op = "DATA",
         p.dest = TftpOurPort, NewBlock(p)
  PROVE  TftpTypeInv'
<1> USE DEF Handles
<1>1. /\ servers[p.src].port = TftpOurPort /\ p.src \in Transfers
      /\ p.block \in 0..(TFTP_SEQUENCE_SIZE - 1)
  BY DataSize, PacketBlock
<1>2. PICK n \in 1..LastBlock : p = Data(p.src, p.dest, n)
  BY DataSize
<1>3. Wraps(p) \in Nat /\ (p.block = 0 => TftpBlkSize <= Wraps(p))
  BY WrapType, SizesAssumption DEF Wraps, NewBlock
<1>4. StoreBlock(p, Wraps(p)) /\ TftpTypeOK
  BY DEF NewBlock, TftpTypeInv
<1>5. NetBootFileXferSize' \in Nat /\ ram' \in [Places' -> -1..(FileLength' - 1)]
  BY <1>2, <1>3, <1>4, BytesStored
<1>6. Replies
  <2>1. /\ TftpBlkSize' = TftpBlkSize
        /\ toServer' = toServer \cup {AckPacket(TftpOurPort, p.src, p.block)}
        /\ blind' = (blind \/ (TftpState = "SEND_RRQ" /\ TftpBlkSize # BlockSize))
    BY DEF NewBlock, SendAck
  <2>2. blind' \in BOOLEAN
    BY <2>1, Zenon
  <2>3. ~repeated => TftpBlkSize = BlockSize /\ ~blind
    BY DataSize DEF TftpTypeInv, BlockSizeInv
  <2>4. ~repeated => ~blind'
    BY <2>1, <2>3, Zenon
  <2>5. ~repeated \/ ~blind' => TftpBlkSize' = BlockSize
    BY <2>1, BlockSizeKnown
  <2> QED
    BY <1>1, <2>1, <2>2, <2>4, <2>5 DEF Replies
<1> QED
  BY <1>1, <1>3, <1>5, <1>6, GoesOnType DEF NewBlock, attemptVars, TftpTypeInv, TftpTypeOK

LEMMA TftpHandlerType == TftpTypeInv /\ TftpHandler => TftpTypeInv'
<1> SUFFICES ASSUME TftpTypeInv, TftpHandler PROVE TftpTypeInv'
  OBVIOUS
<1>1. PICK p \in toClient :
        /\ HandleOther(p) \/ HandleOack(p) \/ HandleError(p) \/ HandleData(p)
        /\ Taken(toClient, p, toClient')
  BY DEF TftpHandler
<1>2. Handles(p) /\ NetState = "CONTINUE"
  BY <1>1, TakenCopies DEF Handles, TftpHandler, TftpTypeInv, PacketsInv
<1> QED
  BY <1>1, <1>2, HandleOtherType, HandleOackType, HandleErrorType, FirstIsNotOneType,
     SameBlockAgainType, NewBlockType
  DEF HandleData, Admitted

LEMMA TftpTimeoutType == TftpTypeInv /\ TftpTimeout => TftpTypeInv'
<1> SUFFICES ASSUME TftpTypeInv, TftpTimeout PROVE TftpTypeInv'
  OBVIOUS
<1>1. /\ hurried' \in BOOLEAN /\ copies' \in Nat /\ toClient' = toClient
      /\ UNCHANGED <<TftpLastBlock, TftpBlockWrapOffset, ram, netretry, FileLength, refused,
                     blind, servers>>
  BY DEF TftpTimeout, TftpTypeInv, TftpTypeOK
<1>2. CASE TftpStart /\ NetBootFileXferSize' \in {0, NetBootFileXferSize} /\ NetState' = NetState
  BY <1>1, <1>2, StartsAgainType DEF TftpTypeInv, TftpTypeOK
<1>3. CASE ~(TftpStart /\ NetBootFileXferSize' \in {0, NetBootFileXferSize} /\ NetState' = NetState)
  <2>1. NetState' = "FAIL"
        /\ UNCHANGED <<TftpState, TftpBlkSize, TftpBlock, TftpOurPort, TftpRemotePort,
                       TftpTimeoutCount, NetBootFileXferSize, toServer, attemptVars>>
    BY <1>3 DEF TftpTimeout, NetStartAgain
  <2> QED
    BY <1>1, <2>1, GoesOnType DEF StaysSilent, attemptVars, TftpTypeInv, TftpTypeOK, Places
<1> QED
  BY <1>2, <1>3

LEMMA TftpTypeStep == TftpTypeInv /\ [TftpNext]_tftpVars => TftpTypeInv'
<1> SUFFICES ASSUME TftpTypeInv, [TftpNext]_tftpVars PROVE TftpTypeInv'
  OBVIOUS
<1>1. CASE TftpNext
  BY <1>1, LoseType, ServerReceivesType, ServerResendsType, TftpHandlerType, TftpTimeoutType
  DEF TftpNext
<1>2. CASE UNCHANGED tftpVars
  <2>1. PacketsInv'
    BY <1>2 DEF tftpVars, cvars, TftpTypeInv, PacketsInv, FromTransfer, FromClient, LastBlock, Data
  <2> QED
    BY <1>2, <2>1 DEF tftpVars, cvars, TftpTypeInv, TftpTypeOK, BlockSizeInv, SizeKnown, BlockSize,
                       Places, Acks
<1> QED
  BY <1>1, <1>2

\* The types, and that a packet to the client comes from the transfer that serves it
\* and an acknowledgement from the client of that transfer.
THEOREM TftpTypeCorrect == TftpSpec => []TftpTypeOK
<1>1. TftpSpec => []TftpTypeInv
  BY TftpInitType, TftpTypeStep, PTL DEF TftpSpec
<1>2. TftpTypeInv => TftpTypeOK
  BY DEF TftpTypeInv
<1> QED
  BY <1>1, <1>2, PTL

-----------------------------------------------------------------------------
(***************************************************************************)
(* Numbers                                                                 *)
(***************************************************************************)

LEMMA NumberUnique ==
  ASSUME NEW S \in Nat \ {0}, NEW a \in Int, NEW q \in Int, NEW r \in 0..(S - 1), a = q * S + r
  PROVE  a % S = r
  OBVIOUS

LEMMA NumberSplit ==
  ASSUME NEW S \in Nat \ {0}, NEW a \in Int
  PROVE  a % S \in 0..(S - 1) /\ a \div S \in Int /\ a = (a \div S) * S + (a % S)
  OBVIOUS

LEMMA SmallNumber ==
  ASSUME NEW S \in Nat \ {0}, NEW a \in 0..(S - 1)
  PROVE  a % S = a
  OBVIOUS

LEMMA NextNumber ==
  ASSUME NEW S \in Nat \ {0, 1}, NEW n \in Nat \ {0}
  PROVE  \/ n % S = 0 /\ (n - 1) % S = S - 1
         \/ n % S = ((n - 1) % S) + 1 /\ n % S # 0
<1> DEFINE q == (n - 1) \div S
           r == (n - 1) % S
<1>1. r \in 0..(S - 1) /\ q \in Int /\ n - 1 = q * S + r
  BY NumberSplit
<1> HIDE DEF q, r
<1>2. CASE r = S - 1
  <2>1. n = (q + 1) * S + 0
    BY <1>1, <1>2
  <2>2. n % S = 0
    BY <1>1, <2>1, NumberUnique
  <2> QED
    BY <1>2, <2>2 DEF r
<1>3. CASE r < S - 1
  <2>1. n = q * S + (r + 1)
    BY <1>1, <1>3
  <2>2. n % S = r + 1
    BY <1>1, <1>3, <2>1, NumberUnique
  <2> QED
    BY <1>1, <2>2 DEF r
<1> QED
  BY <1>1, <1>2, <1>3

LEMMA WrapBytes ==
  ASSUME NEW b \in Nat, NEW S \in Int, NEW n \in Int
  PROVE  ((n - 1) - (S - 1)) * b + b * S = (n - 0) * b
  OBVIOUS

\* The wraps and the number of the next block.
LEMMA NextWrap ==
  ASSUME FileLength \in Nat, NEW n \in Nat \ {0},
         NEW S \in Nat \ {0, 1}, S = TFTP_SEQUENCE_SIZE
  PROVE  ((n - 1) - ((n - 1) % S)) * BlockSize + (IF n % S = 0 THEN BlockSize * S ELSE 0)
           = (n - (n % S)) * BlockSize
<1> DEFINE b == BlockSize
<1>1. b \in Nat
  BY BlockFacts
<1> HIDE DEF b
<1>2. (n - 1) % S \in Int /\ n \in Int
  OBVIOUS
<1>3. CASE n % S = 0 /\ (n - 1) % S = S - 1
  <2>1. ((n - 1) - (S - 1)) * b + b * S = (n - 0) * b
    BY <1>1, WrapBytes
  <2> QED
    BY <1>3, <2>1 DEF b
<1>4. CASE n % S = ((n - 1) % S) + 1 /\ n % S # 0
  <2>1. (n - 1) - ((n - 1) % S) = n - (n % S)
    BY <1>2, <1>4
  <2>2. (n - (n % S)) * b \in Int
    BY <1>1, <1>2, <1>4
  <2> QED
    BY <1>4, <2>1, <2>2 DEF b
<1> QED
  BY <1>3, <1>4, NextNumber
-----------------------------------------------------------------------------
(***************************************************************************)
(* What is ambiguous stays so                                              *)
(***************************************************************************)

Worsens ==
  /\ copies' = 0 => copies = 0
  /\ ~repeated' => ~repeated
  /\ ~blind' => ~blind

LEMMA StillAmbiguous ==
  ASSUME Worsens, FileLength' = FileLength
  PROVE  (Numbered' => Numbered) /\ (Alone' => Alone) /\ (Unambiguous' => Unambiguous)
<1>1. LastBlock' = LastBlock
  BY SameFile
<1>2. (Numbered' => Numbered) /\ (Alone' => Alone)
  BY <1>1 DEF Worsens, Numbered, Alone
<1> QED
  BY <1>2 DEF Unambiguous

-----------------------------------------------------------------------------
(***************************************************************************)
(* A block that is new goes where it belongs                               *)
(***************************************************************************)

\* What the client finds in the packet, as long as nothing is ambiguous.
LEMMA NewBlockRight ==
  ASSUME TftpInv, Fetching, Unambiguous, ~repeated \/ ~blind', NEW p, Handles(p), p.op = "DATA", 
         p.dest = TftpOurPort, NewBlock(p)
  PROVE  /\ TftpBlkSize = BlockSize /\ servers[p.src].port = TftpOurPort /\ p.src \in Transfers
         /\ \E n \in 1..LastBlock :
              /\ p = Data(p.src, p.dest, n) /\ Prefix(n - 1)
              /\ p.block = n % TFTP_SEQUENCE_SIZE
              /\ Wraps(p) = (n - (n % TFTP_SEQUENCE_SIZE)) * BlockSize
              /\ Alone => n = servers[p.src].block
<1> USE DEF TftpInv, Handles
<1>1. /\ TftpBlkSize = BlockSize /\ servers[p.src].port = TftpOurPort /\ p.src \in Transfers
      /\ \E n \in 1..servers[p.src].block : n \in 1..LastBlock /\ p = Data(p.src, p.dest, n)
  BY DataSize, BlockSizeKnown DEF Fetching
<1> DEFINE b == servers[p.src].block
<1>2. b \in 0..LastBlock /\ LastBlock \in Nat /\ BlockSize \in Nat \ {0} /\ FileLength \in Nat
  BY <1>1, TransferTypes
<1>3. /\ TFTP_SEQUENCE_SIZE \in Nat \ {0, 1}
      /\ 1 % TFTP_SEQUENCE_SIZE = 1 /\ 0 % TFTP_SEQUENCE_SIZE = 0
  BY SizesAssumption, SmallNumber
<1>4. \A n \in 1..b : Prefix(n - 1)
  <2> SUFFICES ASSUME NEW n \in 1..b PROVE Prefix(n - 1)
    OBVIOUS
  <2>1. Prefix(b - 1)
    BY <1>1 DEF FileInv, PrefixInv
  <2> QED
    BY <1>2, <2>1, PrefixDown
<1>5. CASE Numbered /\ ~Alone
  <2>1. PICK n \in 1..b : n \in 1..LastBlock /\ p = Data(p.src, p.dest, n)
    BY <1>1
  <2>2. n % TFTP_SEQUENCE_SIZE = n /\ p.block = n /\ n # 0
    <3>1. n \in 0..(TFTP_SEQUENCE_SIZE - 1) /\ n # 0
      BY <1>2, <1>3, <1>5, <2>1 DEF Numbered
    <3>2. n % TFTP_SEQUENCE_SIZE = n
      BY <1>3, <3>1, SmallNumber
    <3>3. p.block = n % TFTP_SEQUENCE_SIZE
      BY <1>2, <2>1, DataFacts
    <3> QED
      BY <3>1, <3>2, <3>3
  <2>3. Wraps(p) = 0
    BY <1>5, <2>2 DEF Wraps, WrapOffset, FileInv, NumberInv
  <2>4. (n - n) * BlockSize = 0
    BY <1>2
  <2> QED
    BY <1>1, <1>4, <1>5, <2>1, <2>2, <2>3, <2>4
<1>6. CASE Alone
  <2> DEFINE n == b
  <2>1. p \in FromServer /\ TurnInv
    BY DEF FromServer, FileInv
  <2>2. p = LastSent(p.src, servers[p.src])
    BY <1>6, <2>1 DEF TurnInv
  <2>3. n \in 1..LastBlock /\ p = Data(p.src, p.dest, n)
    BY <1>1, <1>2, <2>2, OackFacts DEF LastSent
  <2>4. Got(p.src, n - 1)
    BY <1>1, <1>6, <2>1, <2>2 DEF TurnInv
  <2>5. p.block = n % TFTP_SEQUENCE_SIZE
    BY <1>2, <2>3, DataFacts
  <2>6. Wraps(p) = (n - (n % TFTP_SEQUENCE_SIZE)) * BlockSize
    <3>1. CASE n = 1
      <4>1. TftpState # "DATA"
        BY <2>4, <3>1 DEF Got
      <4>2. (1 - 1) * BlockSize = 0
        BY <1>2
      <4> QED
        BY <1>3, <3>1, <4>1, <4>2 DEF Wraps
    <3>2. CASE n # 1
      <4>1. n - 1 >= 1 /\ n \in Nat \ {0}
        BY <1>2, <2>3, <3>2
      <4>2. /\ TftpState = "DATA"
            /\ TftpBlockWrapOffset = ((n - 1) - ((n - 1) % TFTP_SEQUENCE_SIZE)) * BlockSize
        BY <2>4, <4>1 DEF Got
      <4>3. Wraps(p) = ((n - 1) - ((n - 1) % TFTP_SEQUENCE_SIZE)) * BlockSize
              + (IF n % TFTP_SEQUENCE_SIZE = 0 THEN BlockSize * TFTP_SEQUENCE_SIZE ELSE 0)
        BY <1>1, <2>5, <4>2 DEF Wraps, WrapOffset
      <4> QED
        BY <1>2, <1>3, <4>1, <4>3, NextWrap
    <3> QED
      BY <3>1, <3>2
  <2>7. Prefix(n - 1)
    BY <1>4, <2>3, <1>2
  <2> QED
    BY <1>1, <2>3, <2>5, <2>6, <2>7
<1> QED
  BY <1>5, <1>6 DEF Unambiguous

\* What is in the memory after it.
LEMMA NewBlockStored ==
  ASSUME TftpInv, Fetching, Unambiguous, NEW p, Handles(p), p.op = "DATA", p.dest = TftpOurPort,
         NewBlock(p), NEW n \in 1..LastBlock, p = Data(p.src, p.dest, n), Prefix(n - 1),
         Wraps(p) = (n - (n % TFTP_SEQUENCE_SIZE)) * BlockSize, TftpBlkSize = BlockSize
  PROVE  /\ \A k \in Int : Prefix(k) => Prefix(k)'
         /\ Prefix(n)'
         /\ NetBootFileXferSize' <= FileLength
         /\ p.len < BlockSize => n = LastBlock
         /\ n = LastBlock => NetBootFileXferSize' = FileLength
<1>1. NetBootFileXferSize <= FileLength /\ TftpTypeOK
  BY DEF TftpInv, FileInv, PrefixInv, TftpTypeInv
<1>2. StoreBlock(p, Wraps(p)) /\ FileLength' = FileLength
  BY DEF NewBlock, Handles
<1>3. p.len < BlockSize => n = LastBlock
  BY DataFacts, TransferTypes DEF TftpInv
<1> QED
  BY <1>1, <1>2, <1>3, StoreRight

-----------------------------------------------------------------------------
(***************************************************************************)
(* Turns, as long as nothing is repeated                                   *)
(***************************************************************************)

LEMMA TakenOnce ==
  ASSUME copies \in Nat, NEW packets, NEW p, NEW left, Taken(packets, p, left), copies' = 0
  PROVE  copies = 0 /\ left = packets \ {p}
  BY DEF Taken

LEMMA TurnFacts ==
  ASSUME TftpInv, Fetching, Alone
  PROVE  /\ \A q \in toServer : q.op = "RRQ" =>
              /\ \A s \in Transfers : servers[s].port # q.src
              /\ \A x \in toServer : x.op = "RRQ" /\ x.src = q.src => x = q
              /\ q.src = TftpOurPort => TftpBlock = 0 /\ TftpState = "SEND_RRQ"
         /\ \A r, s \in Transfers :
              servers[r].port = servers[s].port => r = s \/ servers[s] = Idle
         /\ \A p \in FromServer :
              p = LastSent(p.src, servers[p.src]) /\ \A q \in Acks : q.dest # p.src
         /\ \A q \in Acks :
              /\ q.block = servers[q.dest].block % TFTP_SEQUENCE_SIZE
              /\ Prefix(servers[q.dest].block)
         /\ \A s \in Transfers : servers[s].port = TftpOurPort =>
              /\ Got(s, servers[s].block - 1) \/ Got(s, servers[s].block)
              /\ LastSent(s, servers[s]) \in toClient => Got(s, servers[s].block - 1)
              /\ \A q \in Acks : q.dest = s => Got(s, servers[s].block)
  BY DEF TftpInv, FileInv, TurnInv

LEMMA AckFromClient ==
  ASSUME TftpTypeInv, NEW q \in Acks
  PROVE  /\ q.dest \in Transfers /\ servers[q.dest].port = q.src /\ q.src \in used
         /\ q = AckPacket(q.src, q.dest, q.block)
  BY DEF TftpTypeInv, PacketsInv, FromClient, Acks, Rrq

LEMMA RrqFromClient ==
  ASSUME TftpTypeInv, NEW q \in toServer, q.op = "RRQ"
  PROVE  q.src \in used /\ q = Rrq(q.src, q.block)
  BY DEF TftpTypeInv, PacketsInv, FromClient, AckPacket

LEMMA FromServerFacts ==
  ASSUME TftpTypeInv, NEW p \in FromServer
  PROVE  p.src \in Transfers /\ servers[p.src].port = p.dest /\ p.dest \in used
  BY DEF TftpTypeInv, PacketsInv, FromTransfer, FromServer

LEMMA LastSentFacts ==
  ASSUME NEW s, NEW t
  PROVE  /\ LastSent(s, t).src = s /\ LastSent(s, t).op \in {"OACK", "DATA"}
         /\ LastSent(s, t).dest = t.port
         /\ t.block = 0 => LastSent(s, t).op = "OACK"
         /\ t.block # 0 => LastSent(s, t).op = "DATA"
  BY DEF LastSent, Oack, Data, Reply

\* Packets go, and that is all.
LEMMA TurnShrinks ==
  ASSUME TftpInv, Fetching, Worsens,
         toServer' \subseteq toServer,
         \A p \in toClient' : p \in toClient \/ p.op \in {"FILE_NOT_FOUND", "DISK_FULL"},
         UNCHANGED <<TftpState, TftpBlock, TftpLastBlock, TftpBlockWrapOffset, TftpOurPort,
                     TftpRemotePort, NetState, ram, FileLength, servers>>
  PROVE  TurnInv'
<1> SUFFICES ASSUME Alone
             PROVE  TurnInv'
  BY StillAmbiguous DEF TurnInv
<1>1. \A s, t : LastSent(s, t)' = LastSent(s, t)
  BY SameFile
<1>2. \A k : Prefix(k)' = Prefix(k)
  BY DEF Prefix, BlockSize
<1>3. \A s, c : Got(s, c)' = Got(s, c)
  BY DEF Got, BlockSize
<1>4. FromServer' \subseteq FromServer /\ Acks' \subseteq Acks
  BY DEF FromServer, Acks
<1>5. \A s \in Transfers :
        LastSent(s, servers[s]) \in toClient' => LastSent(s, servers[s]) \in toClient
  BY LastSentFacts
<1>6. \A q \in toServer' : q.op = "RRQ" =>
         /\ \A s \in Transfers : servers'[s].port # q.src
         /\ \A x \in toServer' : x.op = "RRQ" /\ x.src = q.src => x = q
         /\ q.src = TftpOurPort' => TftpBlock' = 0 /\ TftpState' = "SEND_RRQ"
  BY TurnFacts
<1>7. \A p \in FromServer' :
         p = LastSent(p.src, servers[p.src])' /\ \A q \in Acks' : q.dest # p.src
  BY <1>1, <1>4, TurnFacts
<1>8. \A q \in Acks' :
         /\ q.block = servers'[q.dest].block % TFTP_SEQUENCE_SIZE
         /\ Prefix(servers[q.dest].block)'
  BY <1>2, <1>4, TurnFacts
<1>9. \A s \in Transfers : servers'[s].port = TftpOurPort' =>
         /\ Got(s, servers[s].block - 1)' \/ Got(s, servers[s].block)'
         /\ LastSent(s, servers[s])' \in toClient' => Got(s, servers[s].block - 1)'
         /\ \A q \in Acks' : q.dest = s => Got(s, servers[s].block)'
  BY <1>1, <1>3, <1>4, <1>5, TurnFacts
<1>10. \A r, s \in Transfers :
         servers'[r].port = servers'[s].port => r = s \/ servers'[s] = Idle
  BY TurnFacts
<1> QED
  BY <1>6, <1>7, <1>8, <1>9, <1>10 DEF TurnInv

\* The client starts again: nobody has answered it yet.
LEMMA TurnRestarts ==
  ASSUME TftpInv, Fetching, Worsens, TftpStart,
         toClient' \subseteq toClient, UNCHANGED <<servers, FileLength, ram>>
  PROVE  TurnInv'
<1> SUFFICES ASSUME Alone, ~repeated'
             PROVE  TurnInv'
  BY StillAmbiguous DEF TurnInv, Alone
<1>1. \A s, t : LastSent(s, t)' = LastSent(s, t)
  BY SameFile
<1>2. \A k : Prefix(k)' = Prefix(k)
  BY DEF Prefix, BlockSize
<1>3. /\ TftpOurPort' \in Ports /\ TftpBlock' = 0 /\ TftpState' = "SEND_RRQ"
      /\ toServer' = toServer \cup {Rrq(TftpOurPort', attempts + 1)}
  BY DEF TftpStart, FirstState
<1>4. FromServer' \subseteq FromServer /\ Acks' = Acks
  BY <1>3, RrqFacts DEF FromServer, Acks
<1>5. \A s \in Transfers : servers'[s].port # TftpOurPort'
  BY <1>3, Restarted, PortsAssumption, TransferTypes DEF TftpInv
<1>6. \A q \in toServer' : q.op = "RRQ" =>
         /\ \A s \in Transfers : servers'[s].port # q.src
         /\ \A x \in toServer' : x.op = "RRQ" /\ x.src = q.src => x = q
         /\ q.src = TftpOurPort' => TftpBlock' = 0 /\ TftpState' = "SEND_RRQ"
  <2>1. \A q \in toServer : q.op = "RRQ" =>
          /\ \A s \in Transfers : servers'[s].port # q.src
          /\ \A x \in toServer : x.op = "RRQ" /\ x.src = q.src => x = q
    BY TurnFacts
  <2>2. \A q : q = Rrq(TftpOurPort', attempts + 1) => q.src = TftpOurPort'
    BY RrqFacts
  <2>3. \A q \in toServer : q.op = "RRQ" => q.src # TftpOurPort'
    BY Restarted, RrqFromClient DEF TftpInv
  <2> QED
    BY <1>3, <1>5, <2>1, <2>2, <2>3
<1>7. \A p \in FromServer' :
         p = LastSent(p.src, servers[p.src])' /\ \A q \in Acks' : q.dest # p.src
  BY <1>1, <1>4, TurnFacts
<1>8. \A q \in Acks' :
         /\ q.block = servers'[q.dest].block % TFTP_SEQUENCE_SIZE
         /\ Prefix(servers[q.dest].block)'
  BY <1>2, <1>4, TurnFacts
<1>9. \A r, s \in Transfers :
         servers'[r].port = servers'[s].port => r = s \/ servers'[s] = Idle
  BY TurnFacts
<1> QED
  BY <1>3, <1>5, <1>6, <1>7, <1>8, <1>9 DEF TurnInv

\* The client answers the transfer that serves it.
LEMMA TurnAnswers ==
  ASSUME TftpInv, Fetching, Alone, NEW p \in FromServer, p.dest = TftpOurPort,
         TftpOurPort' = TftpOurPort, toClient' = toClient \ {p},
         toServer' = toServer \cup
           {AckPacket(TftpOurPort, p.src, servers[p.src].block % TFTP_SEQUENCE_SIZE)},
         UNCHANGED <<servers, FileLength>>,
         \A k \in Int : Prefix(k) => Prefix(k)',
         Prefix(servers[p.src].block)', Got(p.src, servers[p.src].block)'
  PROVE  TurnInv'
<1> DEFINE r == p.src
           a == AckPacket(TftpOurPort, r, servers[r].block % TFTP_SEQUENCE_SIZE)
<1>1. \A s, t : LastSent(s, t)' = LastSent(s, t)
  BY SameFile
<1>2. r \in Transfers /\ servers[r].port = TftpOurPort /\ servers[r] # Idle
  <2>1. r \in Transfers /\ servers[r].port = TftpOurPort /\ TftpOurPort # 0
    BY FromServerFacts, TransferTypes DEF TftpInv
  <2> QED
    BY <2>1, TransferTypes DEF TftpInv, Idle
<1>3. a.op = "ACK" /\ a.dest = r /\ a.block = servers[r].block % TFTP_SEQUENCE_SIZE
  BY AckFacts
<1> HIDE DEF a
<1>4. toServer' = toServer \cup {a} /\ Acks' = Acks \cup {a}
  BY <1>3 DEF Acks, a
<1>5. FromServer' = FromServer \ {p} /\ p = LastSent(r, servers[r])
  BY TurnFacts DEF FromServer
<1>6. \A q \in toServer' : q.op = "RRQ" =>
         /\ \A s \in Transfers : servers'[s].port # q.src
         /\ \A x \in toServer' : x.op = "RRQ" /\ x.src = q.src => x = q
         /\ q.src = TftpOurPort' => TftpBlock' = 0 /\ TftpState' = "SEND_RRQ"
  <2>1. \A q \in toServer' : q.op = "RRQ" => q \in toServer
    BY <1>3, <1>4
  <2> QED
    BY <1>2, <2>1, TurnFacts
<1>7. \A x \in FromServer' :
         x = LastSent(x.src, servers[x.src])' /\ \A q \in Acks' : q.dest # x.src
  <2>1. \A x \in FromServer' : x \in FromServer /\ x = LastSent(x.src, servers[x.src])
    BY <1>5, TurnFacts
  <2>2. \A x \in FromServer' : x.src # r
    BY <1>5, <2>1
  <2> QED
    BY <1>1, <1>3, <1>4, <2>1, <2>2, TurnFacts
<1>8. \A q \in Acks' :
         /\ q.block = servers'[q.dest].block % TFTP_SEQUENCE_SIZE
         /\ Prefix(servers[q.dest].block)'
  <2>1. \A q \in Acks : servers[q.dest].block \in Int
    BY AckFromClient, TransferTypes DEF TftpInv
  <2>2. \A q \in Acks :
          q.block = servers[q.dest].block % TFTP_SEQUENCE_SIZE /\ Prefix(servers[q.dest].block)'
    BY <2>1, TurnFacts
  <2> QED
    BY <1>3, <1>4, <2>2
<1>9. \A s \in Transfers : servers'[s].port = TftpOurPort' =>
         /\ Got(s, servers[s].block - 1)' \/ Got(s, servers[s].block)'
         /\ LastSent(s, servers[s])' \in toClient' => Got(s, servers[s].block - 1)'
         /\ \A q \in Acks' : q.dest = s => Got(s, servers[s].block)'
  <2>1. \A s \in Transfers : servers'[s].port = TftpOurPort' => s = r
    BY <1>2, TurnFacts
  <2>2. LastSent(r, servers[r])' \notin toClient'
    BY <1>1, <1>5
  <2> QED
    BY <2>1, <2>2
<1>10. \A u, s \in Transfers :
         servers'[u].port = servers'[s].port => u = s \/ servers'[s] = Idle
  BY TurnFacts
<1> QED
  BY <1>6, <1>7, <1>8, <1>9, <1>10 DEF TurnInv

\* A request starts the only transfer of its attempt.
LEMMA TurnStarts ==
  ASSUME TftpInv, Fetching, Alone, NEW p \in toServer, p.op = "RRQ",
         NEW r \in Transfers, NEW t \in [port : {p.src}, block : {IF Options THEN 0 ELSE 1}],
         servers[r] = Idle, servers' = [servers EXCEPT ![r] = t],
         toClient' = toClient \cup {LastSent(r, t)}, toServer' = toServer \ {p},
         UNCHANGED <<TftpState, TftpBlock, TftpLastBlock, TftpBlockWrapOffset, TftpOurPort,
                     TftpRemotePort, ram, FileLength>>
  PROVE  TurnInv'
<1>1. \A s, u : LastSent(s, u)' = LastSent(s, u)
  BY SameFile
<1>2. \A k : Prefix(k)' = Prefix(k)
  BY DEF Prefix, BlockSize
<1>3. \A s, c : Got(s, c)' = Got(s, c)
  BY DEF Got, BlockSize
<1>4. /\ p.src \in used /\ p.src # 0 /\ t.port = p.src
      /\ t.block = IF Options THEN 0 ELSE 1
      /\ \A s \in Transfers : servers'[s] = IF s = r THEN t ELSE servers[s]
      /\ servers[r].port = 0 /\ t # Idle
  BY RrqFromClient, TransferTypes DEF TftpInv, Idle
<1>5. \A s \in Transfers : servers[s].port # p.src
  BY TurnFacts
<1>6. Acks' = Acks /\ \A q \in Acks : q.dest \in Transfers /\ q.dest # r
  <2>1. \A q \in Acks : q.dest \in Transfers /\ q.dest # r
    BY <1>4, AckFromClient, TransferTypes DEF TftpInv
  <2> QED
    BY <2>1 DEF Acks
<1>7. FromServer' = FromServer \cup {LastSent(r, t)} /\ LastSent(r, t).src = r
      /\ \A x \in FromServer : x.src \in Transfers /\ x.src # r
  <2>1. \A x \in FromServer : x.src \in Transfers /\ x.src # r
    BY <1>4, FromServerFacts, TransferTypes DEF TftpInv
  <2> QED
    BY <2>1, LastSentFacts DEF FromServer
<1>8. \A q \in toServer' : q.op = "RRQ" =>
         /\ \A s \in Transfers : servers'[s].port # q.src
         /\ \A x \in toServer' : x.op = "RRQ" /\ x.src = q.src => x = q
         /\ q.src = TftpOurPort' => TftpBlock' = 0 /\ TftpState' = "SEND_RRQ"
  <2>1. \A q \in toServer' : q.op = "RRQ" => q.src # p.src
    BY TurnFacts
  <2> QED
    BY <1>4, <2>1, TurnFacts
<1>9. \A x \in FromServer' :
         x = LastSent(x.src, servers[x.src])' /\ \A q \in Acks' : q.dest # x.src
  <2>1. \A x \in FromServer :
          x = LastSent(x.src, servers[x.src])' /\ \A q \in Acks' : q.dest # x.src
    BY <1>1, <1>4, <1>6, <1>7, TurnFacts
  <2> QED
    BY <1>1, <1>4, <1>6, <1>7, <2>1
<1>10. \A q \in Acks' :
         /\ q.block = servers'[q.dest].block % TFTP_SEQUENCE_SIZE
         /\ Prefix(servers[q.dest].block)'
  <2>1. \A q \in Acks' : servers'[q.dest] = servers[q.dest]
    BY <1>4, <1>6
  <2> QED
    BY <1>2, <1>6, <2>1, TurnFacts
<1>11. \A u, s \in Transfers :
         servers'[u].port = servers'[s].port => u = s \/ servers'[s] = Idle
  BY <1>4, <1>5, TurnFacts
<1>12. \A s \in Transfers : servers'[s].port = TftpOurPort' =>
         /\ Got(s, servers[s].block - 1)' \/ Got(s, servers[s].block)'
         /\ LastSent(s, servers[s])' \in toClient' => Got(s, servers[s].block - 1)'
         /\ \A q \in Acks' : q.dest = s => Got(s, servers[s].block)'
  <2> SUFFICES ASSUME NEW s \in Transfers, servers'[s].port = TftpOurPort'
               PROVE  /\ Got(s, servers'[s].block - 1) \/ Got(s, servers'[s].block)
                      /\ LastSent(s, servers'[s]) \in toClient' => Got(s, servers'[s].block - 1)
                      /\ \A q \in Acks : q.dest = s => Got(s, servers'[s].block)
    BY <1>1, <1>3, <1>6
  <2>1. CASE s # r
    <3>1. servers'[s] = servers[s] /\ LastSent(s, servers[s]) # LastSent(r, t)
      BY <1>4, <2>1, LastSentFacts
    <3> QED
      BY <3>1, TurnFacts
  <2>2. CASE s = r
    <3>1. servers'[r] = t /\ TftpBlock = 0 /\ TftpState = "SEND_RRQ"
      BY <1>4, <2>2, TurnFacts
    <3>2. Got(r, t.block - 1)
      BY <1>4, <3>1 DEF Got
    <3> QED
      BY <1>6, <2>2, <3>1, <3>2
  <2> QED
    BY <2>1, <2>2
<1> QED
  BY <1>8, <1>9, <1>10, <1>11, <1>12 DEF TurnInv

\* An acknowledgement takes the transfer to the next block.
LEMMA TurnAdvances ==
  ASSUME TftpInv, Fetching, Alone, NEW p \in Acks, NEW r \in Transfers, r = p.dest,
         NEW t, t = [servers[r] EXCEPT !.block = @ + 1],
         servers' = [servers EXCEPT ![r] = t],
         toClient' = toClient \cup {LastSent(r, t)}, toServer' = toServer \ {p},
         UNCHANGED <<TftpState, TftpBlock, TftpLastBlock, TftpBlockWrapOffset, TftpOurPort,
                     TftpRemotePort, ram, FileLength>>
  PROVE  TurnInv'
<1>1. \A s, u : LastSent(s, u)' = LastSent(s, u)
  BY SameFile
<1>2. \A k : Prefix(k)' = Prefix(k)
  BY DEF Prefix, BlockSize
<1>3. \A s, c : Got(s, c)' = Got(s, c)
  BY DEF Got, BlockSize
<1>4. /\ servers[r].port = p.src /\ p.src \in used /\ p.src # 0
      /\ t.port = servers[r].port /\ t.block = servers[r].block + 1 /\ servers[r].block \in Nat
      /\ \A s \in Transfers : servers'[s] = IF s = r THEN t ELSE servers[s]
      /\ servers[r] # Idle
  <2>1. servers[r].port = p.src /\ p.src \in used /\ p.src # 0
    BY AckFromClient, TransferTypes DEF TftpInv
  <2> QED
    BY <2>1, TransferTypes DEF TftpInv, Idle
<1>5. Acks' = Acks \ {p} /\ \A q \in Acks' : q.dest \in Transfers /\ q.dest # r
  <2>1. \A q \in Acks : q.dest = r => q = p
    BY AckFromClient, TurnFacts DEF TftpInv
  <2>2. \A q \in Acks : q.dest \in Transfers
    BY AckFromClient DEF TftpInv
  <2> QED
    BY <2>1, <2>2 DEF Acks
<1>6. FromServer' = FromServer \cup {LastSent(r, t)} /\ LastSent(r, t).src = r
      /\ \A x \in FromServer : x.src \in Transfers /\ x.src # r
  <2>1. \A x \in FromServer : x.src \in Transfers /\ x.src # r
    BY FromServerFacts, TurnFacts DEF TftpInv
  <2> QED
    BY <2>1, LastSentFacts DEF FromServer
<1>7. \A s \in Transfers : servers'[s].port = servers[s].port
  BY <1>4
<1>8. \A q \in toServer' : q.op = "RRQ" =>
         /\ \A s \in Transfers : servers'[s].port # q.src
         /\ \A x \in toServer' : x.op = "RRQ" /\ x.src = q.src => x = q
         /\ q.src = TftpOurPort' => TftpBlock' = 0 /\ TftpState' = "SEND_RRQ"
  BY <1>7, TurnFacts
<1>9. \A x \in FromServer' :
         x = LastSent(x.src, servers[x.src])' /\ \A q \in Acks' : q.dest # x.src
  <2>1. \A x \in FromServer :
          x = LastSent(x.src, servers[x.src])' /\ \A q \in Acks' : q.dest # x.src
    BY <1>1, <1>4, <1>5, <1>6, TurnFacts
  <2> QED
    BY <1>1, <1>4, <1>5, <1>6, <2>1
<1>10. \A q \in Acks' :
         /\ q.block = servers'[q.dest].block % TFTP_SEQUENCE_SIZE
         /\ Prefix(servers[q.dest].block)'
  <2>1. \A q \in Acks' : servers'[q.dest] = servers[q.dest]
    BY <1>4, <1>5
  <2> QED
    BY <1>2, <1>5, <2>1, TurnFacts
<1>11. \A u, s \in Transfers :
         servers'[u].port = servers'[s].port => u = s \/ servers'[s] = Idle
  <2> SUFFICES ASSUME NEW u \in Transfers, NEW s \in Transfers,
                      servers'[u].port = servers'[s].port, u # s
               PROVE  servers'[s] = Idle
    OBVIOUS
  <2>1. servers[s] = Idle /\ servers[u] = Idle
    BY <1>7, TurnFacts
  <2> QED
    BY <1>4, <2>1
<1>12. \A s \in Transfers : servers'[s].port = TftpOurPort' =>
         /\ Got(s, servers[s].block - 1)' \/ Got(s, servers[s].block)'
         /\ LastSent(s, servers[s])' \in toClient' => Got(s, servers[s].block - 1)'
         /\ \A q \in Acks' : q.dest = s => Got(s, servers[s].block)'
  <2> SUFFICES ASSUME NEW s \in Transfers, servers'[s].port = TftpOurPort'
               PROVE  /\ Got(s, servers'[s].block - 1) \/ Got(s, servers'[s].block)
                      /\ LastSent(s, servers'[s]) \in toClient' => Got(s, servers'[s].block - 1)
                      /\ \A q \in Acks' : q.dest = s => Got(s, servers'[s].block)
    BY <1>1, <1>3
  <2>1. CASE s # r
    <3>1. servers'[s] = servers[s] /\ LastSent(s, servers[s]) # LastSent(r, t)
      BY <1>4, <2>1, LastSentFacts
    <3> QED
      BY <1>5, <3>1, TurnFacts
  <2>2. CASE s = r
    <3>1. servers'[r] = t /\ t.block - 1 = servers[r].block
      BY <1>4
    <3>2. Got(r, servers[r].block)
      BY <1>4, <1>7, <2>2, TurnFacts
    <3> QED
      BY <1>5, <2>2, <3>1, <3>2
  <2> QED
    BY <2>1, <2>2
<1> QED
  BY <1>8, <1>9, <1>10, <1>11, <1>12 DEF TurnInv

-----------------------------------------------------------------------------
(***************************************************************************)
(* The file, one step at a time                                            *)
(***************************************************************************)

LEMMA StillFetching ==
  ASSUME NetState' = "CONTINUE" PROVE Intact'
  BY DEF Intact

\* The transfers and the client's memory stay as they are.
LEMMA PrefixStays ==
  ASSUME TftpInv, Fetching, Worsens,
         NetBootFileXferSize' \in {0, NetBootFileXferSize},
         UNCHANGED <<servers, FileLength, ram>>
  PROVE  PrefixInv'
<1>1. /\ \A k : Prefix(k)' = Prefix(k)
      /\ LastBlock' = LastBlock /\ FileLength \in Nat
  BY SameFile, TransferTypes DEF Prefix, BlockSize, TftpInv
<1> QED
  BY <1>1, StillAmbiguous DEF PrefixInv, TftpInv, FileInv

\* The client's numbers stay as they are.
LEMMA NumberStays ==
  ASSUME TftpInv, Fetching, Worsens, toServer' \subseteq toServer,
         UNCHANGED <<TftpState, TftpBlock, TftpLastBlock, TftpBlockWrapOffset, FileLength, ram>>
  PROVE  NumberInv'
<1>1. \A k : Prefix(k)' = Prefix(k)
  BY DEF Prefix, BlockSize
<1>2. LastBlock' = LastBlock /\ Acks' \subseteq Acks
  BY SameFile DEF Acks
<1> QED
  BY <1>1, <1>2, StillAmbiguous DEF NumberInv, TftpInv, FileInv

LEMMA NumberRestarts ==
  ASSUME TftpInv, Fetching, Worsens, TftpStart, UNCHANGED <<FileLength, ram>>
  PROVE  NumberInv'
<1>1. \A k : Prefix(k)' = Prefix(k)
  BY DEF Prefix, BlockSize
<1>2. LastBlock' = LastBlock /\ Acks' = Acks
  BY SameFile DEF Acks, TftpStart, Rrq
<1>3. Prefix(0)
  BY NoPrefix, TransferTypes DEF TftpInv
<1>4. TftpBlock' = 0 /\ TftpState' = "SEND_RRQ"
  BY DEF TftpStart, FirstState
<1> QED
  BY <1>1, <1>2, <1>3, <1>4, StillAmbiguous DEF NumberInv, TftpInv, FileInv

LEMMA LoseFile == TftpInv /\ Fetching /\ Lose => FileInv'
<1> SUFFICES ASSUME TftpInv, Fetching, Lose PROVE FileInv'
  OBVIOUS
<1>1. toClient' \subseteq toClient /\ toServer' \subseteq toServer
      /\ UNCHANGED <<cvars, NetState, NetBootFileXferSize, ram, netretry, FileLength,
                     attemptVars, hurried, refused, blind, servers, copies>>
  BY DEF Lose
<1>2. Worsens
      /\ UNCHANGED <<TftpState, TftpBlock, TftpLastBlock, TftpBlockWrapOffset, TftpOurPort,
                     TftpRemotePort>>
  BY <1>1 DEF cvars, attemptVars, Worsens
<1>3. PrefixInv'
  BY <1>1, <1>2, PrefixStays
<1>4. NumberInv'
  BY <1>1, <1>2, NumberStays
<1>5. TurnInv'
  BY <1>1, <1>2, TurnShrinks
<1>6. Intact'
  BY <1>1, StillFetching DEF Fetching
<1> QED
  BY <1>3, <1>4, <1>5, <1>6 DEF FileInv

LEMMA ServerResendsFile == TftpInv /\ Fetching /\ ServerResends => FileInv'
<1> SUFFICES ASSUME TftpInv, Fetching, ServerResends PROVE FileInv'
  OBVIOUS
<1>1. /\ copies' = copies + 1
      /\ UNCHANGED <<cvars, NetState, NetBootFileXferSize, ram, netretry, FileLength,
                     attemptVars, hurried, refused, blind, servers, toServer, lost>>
  BY DEF ServerResends
<1>2. copies' # 0 /\ Worsens
  BY <1>1 DEF TftpInv, TftpTypeInv, attemptVars, Worsens
<1>3. PrefixInv'
  BY <1>1, <1>2, PrefixStays
<1>4. NumberInv'
  BY <1>1, <1>2, NumberStays DEF cvars
<1>5. TurnInv'
  BY <1>2 DEF TurnInv, Alone
<1>6. Intact'
  BY <1>1, StillFetching DEF Fetching
<1> QED
  BY <1>3, <1>4, <1>5, <1>6 DEF FileInv

LEMMA ServerReceivesFile == TftpInv /\ Fetching /\ ServerReceives => FileInv'
<1> SUFFICES ASSUME TftpInv, Fetching, ServerReceives PROVE FileInv'
  OBVIOUS
<1>1. PICK p \in toServer :
        /\ \/ (Starts(p) \/ Advances(p)) /\ UNCHANGED refused
           \/ Refuses(p) /\ refused' = TRUE
        /\ Taken(toServer, p, toServer')
        /\ UNCHANGED <<cvars, NetState, NetBootFileXferSize, ram, netretry, FileLength,
                       attemptVars, hurried, blind, lost>>
  BY DEF ServerReceives
<1>2. /\ copies' = 0 => copies = 0 /\ toServer' = toServer \ {p}
      /\ toServer' \subseteq toServer
  BY <1>1, TakenOnce, TakenCopies DEF TftpInv, TftpTypeInv
<1>3. Worsens
      /\ UNCHANGED <<TftpState, TftpBlock, TftpLastBlock, TftpBlockWrapOffset, TftpOurPort,
                     TftpRemotePort, NetState, NetBootFileXferSize, ram, FileLength,
                     repeated>>
  BY <1>1, <1>2 DEF cvars, attemptVars, Worsens
<1>4. FromClient(p) /\ p.src \in used
  BY DEF TftpInv, TftpTypeInv, PacketsInv, FromClient
<1>5. NumberInv' /\ Intact'
  BY <1>2, <1>3, NumberStays, StillFetching DEF Fetching
<1>6. /\ \A k : Prefix(k)' = Prefix(k)
      /\ LastBlock' = LastBlock /\ FileLength \in Nat
  BY <1>3, SameFile, TransferTypes DEF Prefix, BlockSize, TftpInv
<1>7. CASE Starts(p)
  <2>1. PICK s \in Transfers, t \in [port : {p.src}, block : {IF Options THEN 0 ELSE 1}] :
          /\ servers[s] = Idle /\ servers' = [servers EXCEPT ![s] = t]
          /\ toClient' = toClient \cup {LastSent(s, t)}
    BY <1>7 DEF Starts
  <2>2. p.op = "RRQ" /\ Prefix(t.block - 1)
    <3>1. t.block - 1 \in Int /\ t.block - 1 <= 0
      OBVIOUS
    <3> QED
      BY <1>6, <1>7, <3>1, NoPrefix DEF Starts
  <2>3. PrefixInv'
    <3>1. \A u \in Transfers : servers'[u] = IF u = s THEN t ELSE servers[u]
      BY <2>1, TransferTypes DEF TftpInv
    <3> QED
      BY <1>2, <1>3, <1>6, <2>2, <3>1, StillAmbiguous DEF PrefixInv, TftpInv, FileInv
  <2>4. TurnInv'
    <3>1. CASE Alone'
      BY <1>2, <1>3, <2>1, <2>2, <3>1, TurnStarts DEF Alone
    <3> QED
      BY <3>1 DEF TurnInv
  <2> QED
    BY <1>5, <2>3, <2>4 DEF FileInv
<1>8. CASE Advances(p)
  <2> DEFINE t == servers[p.dest]
             next == [t EXCEPT !.block = @ + 1]
  <2>1. p.op = "ACK" /\ p.dest \in Transfers /\ t.port = p.src /\ p \in Acks
    BY <1>4, <1>8 DEF Advances, FromClient, Rrq, Acks
  <2>2. CASE UNCHANGED <<servers, toClient>>
    BY <1>2, <1>3, <1>5, <2>2, PrefixStays, TurnShrinks DEF FileInv
  <2>3. CASE ~(UNCHANGED <<servers, toClient>>)
    <3>1. /\ t.block < LastBlock /\ servers' = [servers EXCEPT ![p.dest] = next]
          /\ t.block % TFTP_SEQUENCE_SIZE = p.block
          /\ toClient' = toClient \cup {LastSent(p.dest, next)}
      BY <1>8, <2>3 DEF Advances
    <3>2. /\ t.block \in Nat /\ LastBlock \in Nat /\ next.block - 1 = t.block
          /\ \A u \in Transfers : servers'[u] = IF u = p.dest THEN next ELSE servers[u]
      BY <2>1, <3>1, TransferTypes DEF TftpInv
    <3> HIDE DEF next
    <3>3. Unambiguous => Prefix(t.block)
      <4>1. CASE Alone
        BY <2>1, <4>1, TurnFacts
      <4>2. CASE Numbered
        <5>1. t.block \in 0..(TFTP_SEQUENCE_SIZE - 1)
          BY <3>1, <3>2, <4>2, SizesAssumption DEF Numbered
        <5>2. p.block = t.block
          BY <3>1, <5>1, SmallNumber, SizesAssumption
        <5> QED
          BY <2>1, <4>2, <5>2 DEF TftpInv, FileInv, NumberInv
      <4> QED
        BY <4>1, <4>2 DEF Unambiguous
    <3>4. PrefixInv'
      BY <1>2, <1>3, <1>6, <3>2, <3>3, StillAmbiguous DEF PrefixInv, TftpInv, FileInv
    <3>5. TurnInv'
      <4>1. CASE Alone'
        BY <1>2, <1>3, <2>1, <3>1, <4>1, TurnAdvances DEF next, Alone
      <4> QED
        BY <4>1 DEF TurnInv
    <3> QED
      BY <1>5, <3>4, <3>5 DEF FileInv
  <2> QED
    BY <2>2, <2>3
<1>9. CASE Refuses(p)
  <2>1. /\ servers' = servers
        /\ \A x \in toClient' : x \in toClient \/ x.op \in {"FILE_NOT_FOUND", "DISK_FULL"}
    BY <1>9, SwitchesAssumption DEF Refuses, Error, Reply
  <2>2. TurnInv'
    BY <1>2, <1>3, <2>1, TurnShrinks
  <2> QED
    BY <1>2, <1>3, <1>5, <2>1, <2>2, PrefixStays DEF FileInv
<1> QED
  BY <1>1, <1>7, <1>8, <1>9

LEMMA RestartFile ==
  ASSUME TftpInv, Fetching, copies' = 0 => copies = 0, TftpStart, blind' = blind,
         toClient' \subseteq toClient, NetState' = NetState,
         NetBootFileXferSize' \in {0, NetBootFileXferSize},
         UNCHANGED <<servers, FileLength, ram>>
  PROVE  FileInv'
<1>1. Worsens
  BY Restarted DEF Worsens
<1>2. Intact'
  BY StillFetching DEF Fetching
<1> QED
  BY <1>1, <1>2, PrefixStays, NumberRestarts, TurnRestarts DEF FileInv

LEMMA FailedFile ==
  ASSUME NetState' = "FAIL"
  PROVE  FileInv'
  BY DEF FileInv, PrefixInv, NumberInv, TurnInv, Intact, Fetching

LEMMA HandleOackFile ==
  ASSUME TftpInv, Fetching, NEW p, Handles(p), HandleOack(p),
         copies' = 0 => copies = 0 /\ toClient' = toClient \ {p}
  PROVE  FileInv'
<1> USE DEF TftpInv
<1>1. p = Oack(p.src, TftpOurPort) /\ servers[p.src].port = TftpOurPort
      /\ p.src \in Transfers /\ Options /\ p.dest = TftpOurPort
  BY OackSize DEF Handles, HandleOack, Admitted
<1>2. /\ \A k : Prefix(k)' = Prefix(k)
      /\ LastBlock' = LastBlock /\ FileLength \in Nat /\ FileLength' = FileLength
  BY SameFile, TransferTypes DEF Prefix, BlockSize, HandleOack, Handles
<1>3. /\ toServer' = toServer \cup {AckPacket(TftpOurPort, p.src, TftpBlock)}
      /\ TftpState' = "OACK" /\ TftpRemotePort' = p.src /\ TftpBlock' = TftpBlock
      /\ UNCHANGED <<servers, ram, NetBootFileXferSize, TftpOurPort, NetState, repeated>>
      /\ Worsens
  BY DEF HandleOack, SendAck, Handles, attemptVars, Worsens
<1>4. PrefixInv'
  BY <1>2, <1>3, PrefixStays
<1>5. NumberInv'
  <2>1. Acks' = Acks \cup {AckPacket(TftpOurPort, p.src, TftpBlock)}
    BY <1>3, AckFacts DEF Acks
  <2>2. AckPacket(TftpOurPort, p.src, TftpBlock).block = TftpBlock
    BY AckFacts
  <2> QED
    BY <1>2, <1>3, <2>1, <2>2, StillAmbiguous DEF NumberInv, FileInv, Fetching
<1>6. TurnInv'
  <2>1. CASE Alone'
    <3>1. p \in FromServer /\ Alone /\ toClient' = toClient \ {p}
      BY OackFacts, <1>1, <1>2, <1>3, <2>1, StillAmbiguous DEF FromServer, Handles, Alone
    <3>2. p = LastSent(p.src, servers[p.src])
      BY <1>2, <2>1, <3>1, TurnFacts
    <3>3. servers[p.src].block = 0
      BY <1>1, <3>2, LastSentFacts, OackFacts
    <3>4. Got(p.src, 0 - 1)
      BY <1>1, <3>1, <3>2, <3>3, TurnFacts DEF Handles
    <3>5. TftpBlock = 0
      BY <3>4 DEF Got
    <3>6. Got(p.src, servers[p.src].block)'
      BY <1>1, <1>3, <3>3, <3>5 DEF Got
    <3>7. Prefix(servers[p.src].block)'
      BY <1>2, <1>3, <3>3, NoPrefix
    <3>8. 0 % TFTP_SEQUENCE_SIZE = 0
      BY SizesAssumption, SmallNumber
    <3> QED
      BY <1>1, <1>2, <1>3, <2>1, <3>1, <3>3, <3>5, <3>6, <3>7, <3>8, TurnAnswers
  <2> QED
    BY <2>1 DEF TurnInv
<1>7. Intact'
  BY <1>3, StillFetching DEF Fetching
<1> QED
  BY <1>4, <1>5, <1>6, <1>7 DEF FileInv

LEMMA SameBlockAgainFile ==
  ASSUME TftpInv, Fetching, NEW p, Handles(p), p.op = "DATA", p.dest = TftpOurPort,
         SameBlockAgain(p), copies' = 0 => copies = 0 /\ toClient' = toClient \ {p}
  PROVE  FileInv'
<1> USE DEF TftpInv
<1>1. /\ servers[p.src].port = TftpOurPort /\ p.src \in Transfers
      /\ \E n \in 1..servers[p.src].block : n \in 1..LastBlock /\ p = Data(p.src, p.dest, n)
  BY DataSize DEF Handles
<1>2. /\ \A k : Prefix(k)' = Prefix(k)
      /\ LastBlock' = LastBlock /\ FileLength \in Nat /\ FileLength' = FileLength
      /\ LastBlock \in Nat /\ servers[p.src].block \in Nat
  BY <1>1, SameFile, TransferTypes DEF Prefix, BlockSize, SameBlockAgain, Handles
<1>3. /\ toServer' = toServer /\ TftpState' = TftpState /\ TftpState = "DATA"
      /\ p.block = TftpLastBlock /\ TftpBlock' = p.block
      /\ TftpBlockWrapOffset' = WrapOffset(p)
      /\ UNCHANGED <<servers, ram, NetBootFileXferSize, TftpOurPort, NetState, TftpLastBlock>>
      /\ Worsens
  BY DEF SameBlockAgain, Handles, attemptVars, Worsens
<1>4. PrefixInv'
  BY <1>2, <1>3, PrefixStays
<1>5. NumberInv'
  <2>1. CASE Numbered
    <3>1. PICK n \in 1..LastBlock : p = Data(p.src, p.dest, n)
      BY <1>1
    <3>2. n \in 0..(TFTP_SEQUENCE_SIZE - 1) /\ n # 0
      BY <1>2, <2>1, SizesAssumption DEF Numbered
    <3>3. p.block = n
      <4>1. n % TFTP_SEQUENCE_SIZE = n
        BY <3>2, SmallNumber, SizesAssumption
      <4>2. p.block = n % TFTP_SEQUENCE_SIZE
        BY <1>2, <3>1, DataFacts
      <4> QED
        BY <4>1, <4>2
    <3>4. TftpBlockWrapOffset' = TftpBlockWrapOffset
      BY <1>3, <3>2, <3>3 DEF WrapOffset, TftpTypeInv, TftpTypeOK
    <3> QED
      BY <1>2, <1>3, <2>1, <3>4 DEF NumberInv, FileInv, Fetching, Acks
  <2> QED
    BY <1>2, <1>3, <2>1, StillAmbiguous DEF NumberInv
<1>6. TurnInv'
  <2> SUFFICES ASSUME Alone, toClient' = toClient \ {p} PROVE FALSE
    BY <1>2, <1>3, StillAmbiguous DEF TurnInv, Alone
  <2> DEFINE b == servers[p.src].block
  <2>1. p \in FromServer
    BY DEF FromServer, Handles
  <2>2. p = LastSent(p.src, servers[p.src])
    BY <2>1, TurnFacts
  <2>3. b # 0 /\ p = Data(p.src, p.dest, b) /\ b \in 1..LastBlock
    BY <1>1, <1>2, <2>2, LastSentFacts, TransferTypes DEF LastSent
  <2>4. Got(p.src, b - 1)
    BY <1>1, <2>2, TurnFacts DEF Handles
  <2>5. b - 1 >= 1 /\ TftpLastBlock = (b - 1) % TFTP_SEQUENCE_SIZE
    BY <1>2, <1>3, <2>3, <2>4 DEF Got
  <2>6. p.block = b % TFTP_SEQUENCE_SIZE
    BY <1>2, <2>3, DataFacts
  <2>7. /\ b \in Nat \ {0} /\ TFTP_SEQUENCE_SIZE \in Nat \ {0, 1}
        /\ (b - 1) % TFTP_SEQUENCE_SIZE \in Int
    BY <1>2, <2>3, SizesAssumption
  <2> DEFINE x == (b - 1) % TFTP_SEQUENCE_SIZE
             y == b % TFTP_SEQUENCE_SIZE
  <2>8. \/ y = 0 /\ x = TFTP_SEQUENCE_SIZE - 1
        \/ y = x + 1 /\ y # 0
    BY <2>7, NextNumber
  <2>9. x = y /\ x \in Int
    BY <1>3, <2>5, <2>6, <2>7
  <2> HIDE DEF x, y
  <2> QED
    BY <2>7, <2>8, <2>9
<1>7. Intact'
  BY <1>3, StillFetching DEF Fetching
<1> QED
  BY <1>4, <1>5, <1>6, <1>7 DEF FileInv

LEMMA NewBlockFile ==
  ASSUME TftpInv, Fetching, NEW p, Handles(p), p.op = "DATA", p.dest = TftpOurPort,
         NewBlock(p), copies' = 0 => copies = 0 /\ toClient' = toClient \ {p}
  PROVE  FileInv'
<1> USE DEF TftpInv
<1>1. /\ LastBlock' = LastBlock /\ FileLength \in Nat /\ FileLength' = FileLength
      /\ LastBlock \in Nat \ {0} /\ BlockSize \in Nat
  BY SameFile, TransferTypes DEF Handles
<1>2. /\ toServer' = toServer \cup {AckPacket(TftpOurPort, p.src, p.block)}
      /\ TftpState' = "DATA" /\ TftpRemotePort' = p.src /\ TftpBlock' = p.block
      /\ TftpLastBlock' = p.block /\ TftpBlockWrapOffset' = Wraps(p)
      /\ NetState' = IF p.len < TftpBlkSize THEN "SUCCESS" ELSE NetState
      /\ UNCHANGED <<servers, TftpOurPort, repeated>>
  BY DEF NewBlock, SendAck, Handles, attemptVars
<1>3. Worsens
  <2>1. blind' = (blind \/ (TftpState = "SEND_RRQ" /\ TftpBlkSize # BlockSize))
    BY DEF NewBlock
  <2>2. ~blind' => ~blind
    BY <2>1, Zenon
  <2> QED
    BY <1>2, <2>2 DEF Worsens
<1>4. (Numbered' => Numbered) /\ (Alone' => Alone) /\ (Unambiguous' => Unambiguous)
  BY <1>1, <1>3, StillAmbiguous
<1>5. CASE ~Unambiguous'
  BY <1>5 DEF FileInv, PrefixInv, NumberInv, TurnInv, Intact, Unambiguous, Numbered, Alone
<1>6. CASE Unambiguous'
  <2>0. Unambiguous /\ (~repeated \/ ~blind')
    BY <1>2, <1>6, <1>4 DEF Unambiguous, Numbered, Alone
  <2>1. /\ TftpBlkSize = BlockSize /\ servers[p.src].port = TftpOurPort /\ p.src \in Transfers
        /\ \E n \in 1..LastBlock :
              /\ p = Data(p.src, p.dest, n) /\ Prefix(n - 1)
              /\ p.block = n % TFTP_SEQUENCE_SIZE
              /\ Wraps(p) = (n - (n % TFTP_SEQUENCE_SIZE)) * BlockSize
              /\ Alone => n = servers[p.src].block
    BY <2>0, NewBlockRight
  <2>2. PICK n \in 1..LastBlock :
              /\ p = Data(p.src, p.dest, n) /\ Prefix(n - 1)
              /\ p.block = n % TFTP_SEQUENCE_SIZE
              /\ Wraps(p) = (n - (n % TFTP_SEQUENCE_SIZE)) * BlockSize
              /\ Alone => n = servers[p.src].block
    BY <2>1
  <2>3. /\ \A k \in Int : Prefix(k) => Prefix(k)'
        /\ Prefix(n)'
        /\ NetBootFileXferSize' <= FileLength
        /\ p.len < BlockSize => n = LastBlock
        /\ n = LastBlock => NetBootFileXferSize' = FileLength
    BY <2>0, <2>1, <2>2, NewBlockStored
  <2>4. PrefixInv'
    <3>1. \A s \in Transfers : servers[s].block - 1 \in Int
      BY TransferTypes
    <3>2. \A s \in Transfers : Prefix(servers[s].block - 1)
      BY <2>0 DEF FileInv, PrefixInv
    <3>3. \A s \in Transfers : Prefix(servers[s].block - 1)'
      BY <1>2, <2>3, <3>1, <3>2
    <3> QED
      BY <1>1, <1>2, <2>3, <3>3 DEF PrefixInv
  <2>5. NumberInv'
    <3>1. CASE Numbered
      <4>1. n % TFTP_SEQUENCE_SIZE = n
        <5>1. n \in 0..(TFTP_SEQUENCE_SIZE - 1)
          BY <1>1, <3>1, SizesAssumption DEF Numbered
        <5> QED
          BY <5>1, SmallNumber, SizesAssumption
      <4>2. p.block = n /\ Wraps(p) = 0
        <5>1. (n - n) * BlockSize = 0
          BY <1>1
        <5> QED
          BY <2>2, <4>1, <5>1
      <4>3. \A q \in Acks : Prefix(q.block)'
        <5>1. \A q \in Acks : q.block \in Int /\ Prefix(q.block)
          BY <3>1, SizesAssumption, AckFacts
          DEF TftpTypeInv, PacketsInv, FromClient, Acks, Rrq, FileInv, NumberInv
        <5> QED
          BY <2>3, <5>1
      <4>4. \A q \in Acks' : Prefix(q.block)'
        <5>1. Acks' \subseteq Acks \cup {AckPacket(TftpOurPort, p.src, p.block)}
          BY <1>2 DEF Acks
        <5>2. AckPacket(TftpOurPort, p.src, p.block).block = n
          BY <4>2, AckFacts
        <5> QED
          BY <2>3, <4>3, <5>1, <5>2
      <4> QED
        BY <1>2, <2>3, <4>2, <4>4 DEF NumberInv
    <3> QED
      BY <1>4, <3>1 DEF NumberInv
  <2>6. TurnInv'
    <3>1. CASE Alone'
      <4>1. n = servers[p.src].block /\ Alone /\ toClient' = toClient \ {p}
        BY <1>4, <2>2, <3>1 DEF Alone
      <4>2. Got(p.src, servers[p.src].block)'
        BY <1>1, <1>2, <2>2, <4>1 DEF Got, BlockSize
      <4>3. p \in FromServer
        BY DEF FromServer, Handles
      <4> QED
        BY <1>1, <1>2, <2>2, <2>3, <4>1, <4>2, <4>3, TurnAnswers
    <3> QED
      BY <3>1 DEF TurnInv
  <2>7. Intact'
    <3>1. CASE p.len < BlockSize
      <4>1. n = LastBlock /\ FileLength < LastBlock * BlockSize /\ LastBlock * BlockSize \in Int
        BY <1>1, <2>3, <3>1, BlockFacts
      <4>2. \A i \in 0..(FileLength - 1) : ram'[i] = i
        BY <1>1, <2>3, <4>1 DEF Prefix, BlockSize
      <4> QED
        BY <1>1, <2>3, <4>1, <4>2 DEF Intact
    <3>2. CASE ~(p.len < BlockSize)
      BY <1>2, <2>1, <3>2, StillFetching DEF Fetching
    <3> QED
      BY <3>1, <3>2
  <2> QED
    BY <2>4, <2>5, <2>6, <2>7 DEF FileInv
<1> QED
  BY <1>5, <1>6

LEMMA FailsOrStarts ==
  ASSUME NetStartAgain
  PROVE  NetState' = "FAIL" \/ (TftpStart /\ NetBootFileXferSize' = 0 /\ NetState' = NetState)
<1>1. CASE netretry = "no"
  BY <1>1 DEF NetStartAgain
<1>2. CASE netretry # "no"
  BY <1>2 DEF NetStartAgain
<1> QED
  BY <1>1, <1>2

LEMMA TftpHandlerFile == TftpInv /\ TftpHandler => FileInv'
<1> SUFFICES ASSUME TftpInv, TftpHandler PROVE FileInv'
  OBVIOUS
<1>1. PICK p \in toClient :
        /\ HandleOther(p) \/ HandleOack(p) \/ HandleError(p) \/ HandleData(p)
        /\ Taken(toClient, p, toClient')
  BY DEF TftpHandler
<1>2. Handles(p) /\ Fetching
  BY <1>1, TakenCopies DEF Handles, TftpHandler, TftpInv, TftpTypeInv, PacketsInv, Fetching
<1>3. copies' = 0 => copies = 0 /\ toClient' = toClient \ {p}
  BY <1>1, TakenOnce DEF TftpInv, TftpTypeInv
<1>4. toClient' \subseteq toClient /\ UNCHANGED <<servers, FileLength>>
  BY <1>2 DEF Handles
<1>5. CASE HandleOther(p)
  <2>1. UNCHANGED <<TftpState, TftpBlock, TftpLastBlock, TftpBlockWrapOffset, TftpOurPort,
                    TftpRemotePort, NetState, NetBootFileXferSize, ram, toServer>>
        /\ Worsens
    BY <1>3, <1>5 DEF HandleOther, cvars, attemptVars, Worsens
  <2>2. Intact'
    BY <1>2, <2>1, StillFetching DEF Fetching
  <2> QED
    BY <1>2, <1>3, <1>4, <2>1, <2>2, PrefixStays, NumberStays, TurnShrinks DEF FileInv
<1>6. CASE HandleOack(p)
  BY <1>2, <1>3, <1>6, HandleOackFile
<1>7. CASE HandleError(p)
  <2>1. UNCHANGED <<ram, blind>>
        /\ (NetState' = "FAIL" \/ (TftpStart /\ NetBootFileXferSize' = 0 /\ NetState' = NetState))
    <3>1. UNCHANGED <<ram, blind>> /\ (NetState' = "FAIL" \/ NetStartAgain)
      BY <1>7 DEF HandleError
    <3> QED
      BY <3>1, FailsOrStarts
  <2> QED
    BY <1>2, <1>3, <1>4, <2>1, RestartFile, FailedFile
<1>8. CASE HandleData(p)
  <2>1. p.op = "DATA" /\ p.dest = TftpOurPort
    BY <1>8 DEF HandleData, Admitted
  <2>2. CASE FirstIsNotOne(p)
    <3>1. UNCHANGED <<ram, blind>>
          /\ (NetState' = "FAIL" \/ (TftpStart /\ NetBootFileXferSize' = 0 /\ NetState' = NetState))
      <4>1. UNCHANGED <<ram, blind>> /\ (NetState' = "FAIL" \/ NetStartAgain)
        BY <2>2 DEF FirstIsNotOne
      <4> QED
        BY <4>1, FailsOrStarts
    <3> QED
      BY <1>2, <1>3, <1>4, <3>1, RestartFile, FailedFile
  <2>3. CASE SameBlockAgain(p)
    BY <1>2, <1>3, <2>1, <2>3, SameBlockAgainFile
  <2>4. CASE NewBlock(p)
    BY <1>2, <1>3, <2>1, <2>4, NewBlockFile
  <2> QED
    BY <1>8, <2>2, <2>3, <2>4 DEF HandleData
<1> QED
  BY <1>1, <1>5, <1>6, <1>7, <1>8

LEMMA TftpTimeoutFile == TftpInv /\ TftpTimeout => FileInv'
<1> SUFFICES ASSUME TftpInv, TftpTimeout PROVE FileInv'
  OBVIOUS
<1>1. /\ Fetching /\ toClient' = toClient /\ copies' = copies
      /\ UNCHANGED <<ram, FileLength, servers, blind>>
  BY DEF TftpTimeout, Fetching
<1>2. \/ NetState' = "FAIL"
      \/ /\ TftpStart /\ NetState' = NetState
         /\ NetBootFileXferSize' \in {0, NetBootFileXferSize}
  BY DEF TftpTimeout, NetStartAgain
<1> QED
  BY <1>1, <1>2, RestartFile, FailedFile

LEMMA TftpInitFile == TftpInit => FileInv
<1> SUFFICES ASSUME TftpInit PROVE FileInv
  OBVIOUS
<1>1. FileLength \in Nat
  BY SizesAssumption DEF TftpInit
<1>2. Prefix(0) /\ Prefix(0 - 1)
  BY <1>1, NoPrefix
<1>3. FromServer = {} /\ Acks = {} /\ \A s \in Transfers : servers[s] = Idle
  BY RrqFacts DEF TftpInit, FromServer, Acks
<1>4. PrefixInv
  BY <1>1, <1>2, <1>3 DEF TftpInit, PrefixInv, Idle
<1>5. NumberInv
  BY <1>2, <1>3 DEF TftpInit, NumberInv
<1>6. TurnInv
  <2>1. toServer = {Rrq(TftpOurPort, 1)} /\ \A q \in toServer : q.src = TftpOurPort
    BY RrqFacts DEF TftpInit
  <2>2. \A s \in Transfers : servers[s].port = 0 /\ servers[s] = Idle
    BY <1>3 DEF Idle
  <2>3. TftpBlock = 0 /\ TftpState = "SEND_RRQ" /\ TftpOurPort # 0
    BY PortsAssumption DEF TftpInit
  <2> QED
    BY <1>3, <2>1, <2>2, <2>3 DEF TurnInv
<1>7. Intact
  BY DEF TftpInit, Intact
<1> QED
  BY <1>4, <1>5, <1>6, <1>7 DEF FileInv

LEMMA TftpInitHolds == TftpInit => TftpInv
  BY TftpInitType, TftpInitFile DEF TftpInv

LEMMA TftpStep == TftpInv /\ [TftpNext]_tftpVars => TftpInv'
<1> SUFFICES ASSUME TftpInv, [TftpNext]_tftpVars PROVE TftpInv'
  OBVIOUS
<1>1. TftpTypeInv'
  BY TftpTypeStep DEF TftpInv
<1>2. CASE TftpNext
  <2>1. Fetching
    BY <1>2 DEF TftpNext, Fetching
  <2>2. FileInv'
    BY <1>2, <2>1, LoseFile, ServerReceivesFile, ServerResendsFile, TftpHandlerFile,
       TftpTimeoutFile
    DEF TftpNext
  <2> QED
    BY <1>1, <2>2 DEF TftpInv
<1>3. CASE UNCHANGED tftpVars
  <2>1. PrefixInv'
    BY <1>3 DEF tftpVars, cvars, TftpInv, FileInv, PrefixInv, Fetching, Unambiguous,
                Numbered, Alone, Prefix,
                LastBlock, BlockSize
  <2>2. NumberInv'
    BY <1>3 DEF tftpVars, cvars, TftpInv, FileInv, NumberInv, Numbered, Fetching, Prefix, Acks,
                LastBlock, BlockSize
  <2>3. TurnInv'
    <3>1. CASE Fetching
      BY <1>3, <3>1, TurnShrinks DEF tftpVars, cvars, Worsens
    <3>2. CASE ~Fetching
      BY <1>3, <3>2 DEF tftpVars, Fetching, TurnInv
    <3> QED
      BY <3>1, <3>2
  <2>4. Intact'
    BY <1>3 DEF tftpVars, cvars, TftpInv, FileInv, Intact, LastBlock, BlockSize
  <2> QED
    BY <1>1, <2>1, <2>2, <2>3, <2>4 DEF TftpInv, FileInv
<1> QED
  BY <1>2, <1>3

\* NetLoop() returns the size of a file only with the file in the memory, for every file,
\* every sequence of losses, delays and restarts, on ports of its own or repeated ones
\* (TftpHandler(), store_block()): unless an attempt on a repeated port took a block 1
\* before it knew the size of blocks, and without repetitions if the blocks are more than
\* their numbers.
THEOREM FilesAreIntact == TftpSpec => []Intact
<1>1. TftpSpec => []TftpInv
  BY TftpInitHolds, TftpStep, PTL DEF TftpSpec
<1>2. TftpInv => Intact
  BY DEF TftpInv, FileInv
<1> QED
  BY <1>1, <1>2, PTL
=============================================================================
