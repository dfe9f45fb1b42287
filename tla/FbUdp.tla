-------------------------------- MODULE FbUdp --------------------------------
(***************************************************************************)
(* The UDP transport of fastboot as this board builds it (the Amazon       *)
(* variant of cmd_fastboot.c): sequence numbers, a stored last response,   *)
(* and downloads of numbered packets of which only every kBarrierNum-th    *)
(* is acknowledged.  The network loses, duplicates, delays and reorders:   *)
(* what was sent to the device may arrive any number of times, an answer   *)
(* may be lost, and one that is not lost may be read at any later time.    *)
(* The host is external: it waits for the answer to each packet and is     *)
(* modelled from what the device expects of it.                            *)
(***************************************************************************)
EXTENDS Integers, Sequences

CONSTANTS
  MaxNum,       \* max_num, the packets of a download
  kBarrierNum,
  Disturbances  \* bound: starts of the host's program again, and queries that
                \* arrive when it waits for no answer to one

ASSUME PacketsAssumption == MaxNum \in Nat \ {0} /\ kBarrierNum \in Nat \ {0}
ASSUME BoundAssumption == Disturbances \in Nat

VARIABLES
  fb_expected_seq, fb_packet, status, downloading, receive_bitmap, received,
  mem,      \* what download_addr holds: for each packet, which session's
  log,      \* history: the commands that were run
  host,     \* the host's session, step, sequence number and outstanding packets
  toDevice, \* every packet ever sent
  toHost,   \* every answer not lost
  late      \* queries that came late

dvars == <<fb_expected_seq, fb_packet, status, downloading, receive_bitmap,
           received, mem, log>>
vars == <<dvars, host, toDevice, toHost, late>>

SeqMod == 65536
After(seq) == (seq + 1) % SeqMod
Numbers == 0..(MaxNum - 1)
Sessions == 1..(Disturbances + 1)
INVALID_NUM == -1

\* Sizes: a full packet is 2, the last one is shorter.
Size(num) == IF num = MaxNum - 1 THEN 1 ELSE 2
Total == 2 * MaxNum - 1

\* what: a command, data, or nothing, which asks for the status.
Packet(id, seq, sess, what, num, flag) ==
  [id |-> id, seq |-> seq, sess |-> sess, what |-> what, num |-> num, flag |-> flag]
Query(sess) == Packet("query", 0, sess, "empty", 0, FALSE)
Commands == {"download", "flash"}

Answer(id, seq, val, code) == [id |-> id, seq |-> seq, val |-> val, code |-> code]
NoAnswer == Answer("none", 0, 0, "")

Steps == {"query", "init"} \cup Commands
           \cup {"download status", "data", "data status", "flash status", "done"}

TypeOK ==
  /\ fb_expected_seq \in 0..(SeqMod - 1)
  /\ fb_packet.seq \in 0..(SeqMod - 1)
  /\ status \in {"OKAY", "DATA", "FAIL"}
  /\ downloading \in BOOLEAN
  /\ receive_bitmap \subseteq Numbers
  /\ received \in 0..Total
  /\ mem \in [Numbers -> Sessions \cup {0}]
  /\ host.sess \in Sessions /\ host.step \in Steps
  /\ host.seq \in 0..(SeqMod - 1) /\ host.out \subseteq toDevice
  /\ late \in 0..Disturbances

Init ==
  /\ fb_expected_seq = 0 /\ fb_packet = NoAnswer /\ status = "OKAY"
  /\ downloading = FALSE /\ receive_bitmap = {} /\ received = 0
  /\ mem = [n \in Numbers |-> 0] /\ log = <<>>
  /\ host = [sess |-> 1, step |-> "query", seq |-> 0, next |-> 0, out |-> {Query(1)}]
  /\ toDevice = {Query(1)} /\ toHost = {} /\ late = 0
-----------------------------------------------------------------------------
(***************************************************************************)
(* The device: fb_udp_handler()                                            *)
(***************************************************************************)

\* fb_send(), to where the packet p came from.
Send(p, answer) ==
  \E lost \in BOOLEAN :
    toHost' = IF lost THEN toHost ELSE toHost \cup {[to |-> p.sess, answer |-> answer]}

\* A new response stays in fb_packet.
Respond(p, answer) == fb_packet' = answer /\ Send(p, answer)
Ack(p, num) == Respond(p, Answer(p.id, p.seq, num, ""))

\* Mutant: what is out of sequence is ignored.
Resend_Never(p) == UNCHANGED <<dvars, toHost>>

\* fb_resend_resp()
Resend(p) ==
  /\ IF p.seq = fb_packet.seq /\ fb_packet # NoAnswer
     THEN Send(p, fb_packet) ELSE UNCHANGED toHost
  /\ UNCHANGED dvars

\* A query never moves the sequence, and is answered at any time.
DeviceQuery(p) ==
  /\ p.id = "query"
  /\ IF p \in host.out THEN UNCHANGED late
     ELSE host.sess + late <= Disturbances /\ late' = late + 1
  /\ Respond(p, Answer("query", p.seq, fb_expected_seq, ""))
  /\ UNCHANGED <<fb_expected_seq, status, downloading, receive_bitmap, received,
                 mem, log>>

\* Mutant: the flag of the download stays.
Forget_Received == received' = 0 /\ UNCHANGED downloading

\* fb_init() forgets a download.
Forget == received' = 0 /\ downloading' = FALSE

Initialization(p) ==
  /\ p.id = "init" /\ p.seq = fb_expected_seq
  /\ fb_expected_seq' = After(fb_expected_seq)
  /\ Respond(p, Answer("init", p.seq, 0, ""))
  /\ Forget /\ status' = "OKAY"
  /\ UNCHANGED <<receive_bitmap, mem, log>>

\* Mutant: any packet of the session is handled.
InSequence_Any(p) == TRUE

InSequence(p) == p.seq = fb_expected_seq

\* Init and fastboot packets out of sequence.
Repeated(p) ==
  /\ \/ p.id = "init" /\ p.seq # fb_expected_seq
     \/ p.id = "fastboot" /\ ~InSequence(p)
  /\ Resend(p)

Status(p) ==
  /\ p.id = "fastboot" /\ InSequence(p) /\ p.what = "empty"
  /\ fb_expected_seq' = After(fb_expected_seq)
  /\ Respond(p, Answer("fastboot", p.seq, INVALID_NUM, status))
  /\ UNCHANGED <<status, downloading, receive_bitmap, received, mem, log>>

\* Acknowledged before it is run.
Command(p) ==
  /\ p.id = "fastboot" /\ InSequence(p) /\ p.what \in Commands /\ ~downloading
  /\ fb_expected_seq' = After(fb_expected_seq)
  /\ Ack(p, INVALID_NUM)
  /\ log' = Append(log, <<p.sess, p.what>>)
  /\ IF p.what = "download"
     THEN /\ status' = "DATA" /\ downloading' = TRUE
          /\ received' = 0 /\ receive_bitmap' = {}
     ELSE status' = "OKAY" /\ UNCHANGED <<downloading, received, receive_bitmap>>
  /\ UNCHANGED mem

\* Mutant: a packet that came before is stored and counted again.
Store_Again(p) ==
  /\ receive_bitmap' = receive_bitmap \cup {p.num}
  /\ mem' = [mem EXCEPT ![p.num] = p.sess]
  /\ received' = received + Size(p.num)

\* The data is kept unless the packet has come before.
Store(p) ==
  IF p.num \in receive_bitmap THEN UNCHANGED <<receive_bitmap, mem, received>>
  ELSE /\ receive_bitmap' = receive_bitmap \cup {p.num}
       /\ mem' = [mem EXCEPT ![p.num] = p.sess]
       /\ received' = received + Size(p.num)

\* cmd_download_cont(): only a barrier moves the sequence and is acknowledged.
DownloadCont(p) ==
  /\ p.id = "fastboot" /\ InSequence(p) /\ p.what = "data" /\ downloading
  /\ p.flag
  /\ status' = IF status = "DATA" THEN "FAIL" ELSE status
  /\ IF p.num % kBarrierNum = 0
     THEN fb_expected_seq' = After(fb_expected_seq) /\ Ack(p, p.num)
     ELSE UNCHANGED <<fb_expected_seq, fb_packet, toHost>>
  /\ Store(p)
  /\ UNCHANGED <<downloading, log>>

\* Mutant: the end of the download is the last packet.
Complete_Last(count, p) == p.num = MaxNum - 1

Complete(count, p) == count = Total

\* first_unset_bit()
FirstMissing(bits) == CHOOSE n \in 0..MaxNum : n \notin bits /\ \A m \in 0..(n - 1) : m \in bits

\* cmd_download_end(): the last packet, or one that was asked for again.
DownloadEnd(p) ==
  /\ p.id = "fastboot" /\ InSequence(p) /\ p.what = "data" /\ downloading
  /\ ~p.flag
  /\ Store(p)
  /\ fb_expected_seq' = After(fb_expected_seq)
  /\ IF Complete(received', p)
     THEN status' = "OKAY" /\ downloading' = FALSE /\ Ack(p, INVALID_NUM)
     ELSE Ack(p, FirstMissing(receive_bitmap')) /\ UNCHANGED <<status, downloading>>
  /\ UNCHANGED log

fb_udp_handler(p) ==
  /\ \/ DeviceQuery(p)
     \/ /\ \/ Initialization(p) \/ Repeated(p) \/ Status(p) \/ Command(p)
           \/ DownloadCont(p) \/ DownloadEnd(p)
        /\ UNCHANGED late
  /\ UNCHANGED <<host, toDevice>>
-----------------------------------------------------------------------------
(***************************************************************************)
(* The host                                                                *)
(***************************************************************************)

\* The packets up to the next barrier, which ends with an answer; all have one
\* sequence number.
WindowEnd(from) ==
  CHOOSE n \in from..(MaxNum - 1) :
    /\ n % kBarrierNum = 0 \/ n = MaxNum - 1
    /\ \A m \in from..(n - 1) : m % kBarrierNum # 0

Go(step, next, packets) ==
  /\ host' = [host EXCEPT !.step = step, !.seq = After(host.seq), !.next = next,
                          !.out = packets]
  /\ toDevice' = toDevice \cup packets

Fastboot(what, num, flag) ==
  Packet("fastboot", After(host.seq), host.sess, what, num, flag)
Ask(what) == {Fastboot(what, 0, FALSE)}
InitPacket(seq) == Packet("init", seq, host.sess, "empty", 0, FALSE)
Window(from) ==
  {Fastboot("data", n, n # MaxNum - 1) : n \in from..WindowEnd(from)}
SendWindow(from) == Go("data", WindowEnd(from) + 1, Window(from))

Stop == host' = [host EXCEPT !.step = "done", !.out = {}] /\ UNCHANGED toDevice

\* What the host does with the answer a to its packets.
Continue(a) ==
  \/ /\ host.step = "query"
     /\ host' = [host EXCEPT !.step = "init", !.seq = a.val,
                    !.out = {InitPacket(a.val)}]
     /\ toDevice' = toDevice \cup {InitPacket(a.val)}
  \/ host.step = "init" /\ Go("download", 0, Ask("download"))
  \/ host.step = "download" /\ Go("download status", 0, Ask("empty"))
  \/ host.step = "download status" /\ a.code = "DATA" /\ SendWindow(0)
  \/ host.step = "data" /\ host.next < MaxNum /\ SendWindow(host.next)
  \/ /\ host.step = "data" /\ host.next = MaxNum /\ a.val # INVALID_NUM
     /\ Go("data", MaxNum, {Fastboot("data", a.val, FALSE)})
  \/ /\ host.step = "data" /\ host.next = MaxNum /\ a.val = INVALID_NUM
     /\ Go("data status", MaxNum, Ask("empty"))
  \/ /\ host.step = "data status" /\ a.code = "OKAY"
     /\ Go("flash", MaxNum, Ask("flash"))
  \/ host.step = "flash" /\ Go("flash status", MaxNum, Ask("empty"))
  \/ host.step = "flash status" /\ Stop

Waited(a) ==
  \E p \in host.out : p.id = a.id /\ (a.id = "query" \/ host.seq = a.seq)

HostReads ==
  /\ \E m \in toHost : m.to = host.sess /\ Waited(m.answer) /\ Continue(m.answer)
  /\ UNCHANGED <<dvars, toHost, late>>

\* The host's program is started again, at any point of the last session.
HostRestarts ==
  /\ host.sess + late <= Disturbances
  /\ host' = [sess |-> host.sess + 1, step |-> "query", seq |-> 0, next |-> 0,
              out |-> {Query(host.sess + 1)}]
  /\ toDevice' = toDevice \cup {Query(host.sess + 1)}
  /\ UNCHANGED <<dvars, toHost, late>>

Next == (\E p \in toDevice : fb_udp_handler(p)) \/ HostReads \/ HostRestarts

Spec == Init /\ [][Next]_vars

\* A packet sent again and again arrives in the end, and so does an answer.
Answered == \E p \in host.out : fb_udp_handler(p) /\ toHost' # toHost
Fairness == WF_vars(Answered) /\ WF_vars(HostReads)
FairSpec == Spec /\ Fairness
-----------------------------------------------------------------------------
(***************************************************************************)
(* Properties                                                              *)
(***************************************************************************)

\* However packets are repeated, each command is run at most once, and a
\* session's commands in the order the host gave them.
CommandsOnce ==
  \A i, j \in 1..Len(log) :
    i < j => log[i] # log[j] /\ (log[i][1] = log[j][1] => log[i][2] = "download")

\* An image is flashed whole, from the session that asks for it.
FlashedWhole ==
  [][\A i \in 1..Len(log') :
       i > Len(log) /\ log'[i][2] = "flash" => \A n \in Numbers : mem[n] = log'[i][1]]_vars

\* No command is taken for data and no data for a command.
NothingMistaken ==
  \A p \in toDevice :
    p.id = "fastboot" /\ p.seq = fb_expected_seq =>
      (p.what \in Commands => ~downloading) /\ (p.what = "data" => downloading)

\* A session ends with the image flashed, packets of the download that got lost
\* included, unless a query that comes late has overwritten the answer it waits
\* for, or the packets of a program that was stopped cross its own.
SessionEnds == <>(host.step = "done" \/ late > 0 \/ host.sess > 1)
=============================================================================
