-------------------------------- MODULE Tftp ---------------------------------
(***************************************************************************)
(* The TFTP client of net/tftp.c with its restarts in net/net.c, fetching  *)
(* one file over a network that loses, duplicates, delays and reorders.    *)
(* The server is external: one transfer for each request it receives, one  *)
(* block at a time, as RFC 1350 has it.  Lengths are in units of which a   *)
(* block has a few; block numbers count modulo TFTP_SEQUENCE_SIZE.         *)
(***************************************************************************)
EXTENDS Integers, FiniteSets

CONSTANTS
  TFTP_SEQUENCE_SIZE,   \* 65536 in the code
  TFTP_BLOCK_SIZE,      \* without the blksize option
  TftpBlkSizeOption,    \* the block size the server grants
  FileLengths,          \* the lengths of file explored
  TftpTimeoutCountMax,
  Ports,                \* of the client, 1024 and 3071 above it in the code
  Options,              \* whether the server knows options
  Errors,               \* the errors with which the server may refuse a request
  NetRetries,           \* values of the variable netretry: no gives up, forever is the default
  MaxAttempts, MaxLost, MaxCopies   \* bounds

ASSUME SizesAssumption ==
  /\ TFTP_SEQUENCE_SIZE \in Nat \ {0, 1}
  /\ TFTP_BLOCK_SIZE \in Nat \ {0} /\ TftpBlkSizeOption \in Nat \ {0}
  /\ FileLengths \subseteq Nat /\ IsFiniteSet(FileLengths) /\ TftpTimeoutCountMax \in Nat
ASSUME PortsAssumption == Ports \subseteq Nat \ {0} /\ Ports # {}
ASSUME SwitchesAssumption ==
  /\ Options \in BOOLEAN
  /\ Errors \subseteq {"FILE_NOT_FOUND", "DISK_FULL"} /\ NetRetries \subseteq {"no", "forever"}
ASSUME BoundsAssumption ==
  MaxAttempts \in Nat \ {0} /\ MaxLost \in Nat /\ MaxCopies \in Nat

VARIABLES
  TftpState, TftpBlock, TftpLastBlock, TftpBlockWrapOffset, TftpBlkSize,
  TftpOurPort, TftpRemotePort, TftpTimeoutCount,
  NetState, NetBootFileXferSize,
  ram,       \* what lies from load_addr on; the byte i of the file is i
  netretry,
  FileLength,
  attempts,  \* calls of TftpStart
  hurried,   \* history: the timer expired with packets on their way; once, as a bound
  refused,   \* history: the server sent an error
  used, repeated,   \* history: the ports attempts had; one had that of another
  blind,     \* history: a first block taken in ignorance of the size of blocks
  servers,   \* the transfers the server runs
  toClient, toServer, lost, copies

cvars == <<TftpState, TftpBlock, TftpLastBlock, TftpBlockWrapOffset, TftpBlkSize,
           TftpOurPort, TftpRemotePort, TftpTimeoutCount>>
attemptVars == <<attempts, used, repeated>>
tftpVars == <<cvars, NetState, NetBootFileXferSize, ram, netretry, FileLength, attempts,
          hurried, refused, used, repeated, blind, servers, toClient, toServer, lost, copies>>

Least(a, b) == IF a < b THEN a ELSE b
Places == 0..(2 * FileLength)
WELL_KNOWN_PORT == 0
Transfers == 1..(MaxAttempts + MaxCopies)
BlockSize == IF Options THEN TftpBlkSizeOption ELSE TFTP_BLOCK_SIZE
LastBlock == FileLength \div BlockSize + 1   \* the short one, empty if need be

\* Packets to the client: the n-th block of the file, the granted options, an error.
Reply(op, s, port, block, from, len) ==
  [op |-> op, src |-> s, dest |-> port, block |-> block, from |-> from, len |-> len]
Data(s, port, n) ==
  Reply("DATA", s, port, n % TFTP_SEQUENCE_SIZE, (n - 1) * BlockSize,
         Least(BlockSize, FileLength - (n - 1) * BlockSize))
Oack(s, port) == Reply("OACK", s, port, 0, 0, BlockSize)
Error(e, s, port) == Reply(e, s, port, 0, 0, 0)
\* Packets to the server; the number of a request tells it from that of another
\* attempt with the same port.
Rrq(port, n) == [op |-> "RRQ", src |-> port, dest |-> WELL_KNOWN_PORT, block |-> n]
AckPacket(port, dest, block) == [op |-> "ACK", src |-> port, dest |-> dest, block |-> block]

TftpTypeOK ==
  /\ TftpState \in {"SEND_RRQ", "OACK", "DATA"}
  /\ TftpBlock \in 0..(TFTP_SEQUENCE_SIZE - 1)
  /\ TftpLastBlock \in 0..(TFTP_SEQUENCE_SIZE - 1)
  /\ TftpBlockWrapOffset \in Nat
  /\ TftpBlkSize \in {TFTP_BLOCK_SIZE, TftpBlkSizeOption}
  /\ TftpOurPort \in Ports /\ TftpRemotePort \in Transfers \cup {WELL_KNOWN_PORT}
  /\ TftpTimeoutCount \in 0..TftpTimeoutCountMax
  /\ NetState \in {"CONTINUE", "SUCCESS", "FAIL"}
  /\ NetBootFileXferSize \in Nat
  /\ ram \in [Places -> -1..(FileLength - 1)]
  /\ netretry \in NetRetries /\ FileLength \in FileLengths
  /\ attempts \in 1..MaxAttempts /\ hurried \in BOOLEAN /\ refused \in BOOLEAN
  /\ used \subseteq Ports /\ repeated \in BOOLEAN /\ blind \in BOOLEAN

\* servers[s]: the client's port and the block, not wrapped, that waits for its
\* ACK (0 is the OACK); no port before the request.
Idle == [port |-> 0, block |-> 0]

TftpInit ==
  /\ TftpState = "SEND_RRQ" /\ TftpBlock = 0 /\ TftpLastBlock = 0
  /\ TftpBlockWrapOffset = 0 /\ TftpBlkSize = TFTP_BLOCK_SIZE
  /\ TftpOurPort \in Ports /\ TftpRemotePort = WELL_KNOWN_PORT /\ TftpTimeoutCount = 0
  /\ NetState = "CONTINUE" /\ NetBootFileXferSize = 0 /\ FileLength \in FileLengths
  /\ ram = [i \in Places |-> -1]
  /\ netretry \in NetRetries /\ attempts = 1
  /\ hurried = FALSE /\ refused = FALSE
  /\ used = {TftpOurPort} /\ repeated = FALSE /\ blind = FALSE
  /\ servers = [s \in Transfers |-> Idle]
  /\ toClient = {} /\ toServer = {Rrq(TftpOurPort, 1)} /\ lost = 0 /\ copies = 0
-----------------------------------------------------------------------------
(***************************************************************************)
(* The network                                                             *)
(***************************************************************************)

\* A packet is taken, or it stays to arrive once more.
Taken(packets, p, left) ==
  \/ left = packets \ {p} /\ UNCHANGED copies
  \/ left = packets /\ copies < MaxCopies /\ copies' = copies + 1

Lose ==
  /\ lost < MaxLost /\ lost' = lost + 1
  /\ \/ \E p \in toClient : toClient' = toClient \ {p} /\ UNCHANGED toServer
     \/ \E p \in toServer : toServer' = toServer \ {p} /\ UNCHANGED toClient
  /\ UNCHANGED <<cvars, NetState, NetBootFileXferSize, ram, netretry, FileLength,
                 attemptVars, hurried, refused, blind, servers, copies>>
-----------------------------------------------------------------------------
(***************************************************************************)
(* The server                                                              *)
(***************************************************************************)

\* What transfer s has sent last.
LastSent(s, t) == IF t.block = 0 THEN Oack(s, t.port) ELSE Data(s, t.port, t.block)

Starts(p) ==
  /\ p.op = "RRQ"
  /\ \E s \in Transfers :
       /\ servers[s] = Idle /\ \A r \in 1..(s - 1) : servers[r] # Idle
       /\ \E t \in [port : {p.src}, block : {IF Options THEN 0 ELSE 1}] :
            /\ servers' = [servers EXCEPT ![s] = t]
            /\ toClient' = toClient \cup {LastSent(s, t)}

Refuses(p) ==
  /\ p.op = "RRQ"
  /\ \E e \in Errors, s \in Transfers :
       /\ servers[s] = Idle
       /\ toClient' = toClient \cup {Error(e, s, p.src)}
  /\ UNCHANGED servers

Advances(p) ==
  /\ p.op = "ACK"
  /\ LET t == servers[p.dest]
         next == [t EXCEPT !.block = @ + 1]
     IN IF t.port = p.src /\ t.block % TFTP_SEQUENCE_SIZE = p.block
           /\ t.block < LastBlock
        THEN /\ servers' = [servers EXCEPT ![p.dest] = next]
             /\ toClient' = toClient \cup {LastSent(p.dest, next)}
        ELSE UNCHANGED <<servers, toClient>>

ServerReceives == \E p \in toServer :
  /\ \/ (Starts(p) \/ Advances(p)) /\ UNCHANGED refused
     \/ Refuses(p) /\ refused' = TRUE
  /\ Taken(toServer, p, toServer')
  /\ UNCHANGED <<cvars, NetState, NetBootFileXferSize, ram, netretry, FileLength,
                 attemptVars, hurried, blind, lost>>

\* The server's timer: the outstanding packet once more.
ServerResends == \E s \in Transfers :
  /\ servers[s] # Idle /\ LastSent(s, servers[s]) \notin toClient
  /\ copies < MaxCopies /\ copies' = copies + 1
  /\ toClient' = toClient \cup {LastSent(s, servers[s])}
  /\ UNCHANGED <<cvars, NetState, NetBootFileXferSize, ram, netretry, FileLength,
                 attemptVars, hurried, refused, blind, servers, toServer, lost>>
-----------------------------------------------------------------------------
(***************************************************************************)
(* The client                                                              *)
(***************************************************************************)

\* TftpSend() of an ACK
SendAck(block, remote) == toServer' = toServer \cup {AckPacket(TftpOurPort, remote, block)}

\* Mutant: the new attempt stays in the state of the one before.
FirstState_Stays == TftpState
FirstState == "SEND_RRQ"

\* TftpStart(): the last block, the wraps and the file's size stay as they are.
\* The port comes from the clock and may have been that of an attempt before.
TftpStart ==
  /\ attempts < MaxAttempts /\ attempts' = attempts + 1
  /\ TftpState' = FirstState /\ TftpBlock' = 0 /\ TftpBlkSize' = TFTP_BLOCK_SIZE
  /\ TftpOurPort' \in Ports /\ TftpRemotePort' = WELL_KNOWN_PORT
  /\ used' = used \cup {TftpOurPort'} /\ repeated' = (repeated \/ TftpOurPort' \in used)
  /\ TftpTimeoutCount' = 0
  /\ toServer' = toServer \cup {Rrq(TftpOurPort', attempts + 1)}

\* NetStartAgain(), and NetLoop() after it
NetStartAgain ==
  IF netretry = "no"
  THEN /\ NetState' = "FAIL"
       /\ UNCHANGED <<TftpState, TftpBlkSize, TftpOurPort, TftpRemotePort,
                      TftpTimeoutCount, NetBootFileXferSize, toServer, attemptVars>>
  ELSE TftpStart /\ NetBootFileXferSize' = 0 /\ UNCHANGED NetState

Admitted(p) ==
  /\ p.dest = TftpOurPort
  /\ TftpState = "SEND_RRQ" \/ p.src = TftpRemotePort

HandleOther(p) ==
  /\ ~Admitted(p)
  /\ UNCHANGED <<cvars, NetState, NetBootFileXferSize, ram, attemptVars, toServer, blind>>

\* Mutant: the size is read from the wrong option.
Granted_Wrong(p) == p.block
Granted(p) == p.len

HandleOack(p) ==
  /\ Admitted(p) /\ p.op = "OACK"
  /\ TftpState' = "OACK" /\ TftpRemotePort' = p.src /\ TftpBlkSize' = Granted(p)
  /\ SendAck(TftpBlock, p.src)
  /\ UNCHANGED <<TftpBlock, TftpLastBlock, TftpBlockWrapOffset, TftpOurPort,
                 TftpTimeoutCount, NetState, NetBootFileXferSize, ram, attemptVars, blind>>

HandleError(p) ==
  /\ Admitted(p) /\ p.op \in {"FILE_NOT_FOUND", "DISK_FULL"}
  /\ IF p.op = "FILE_NOT_FOUND"
     THEN /\ NetState' = "FAIL"
          /\ UNCHANGED <<TftpState, TftpBlock, TftpBlkSize, TftpOurPort, TftpRemotePort,
                         TftpTimeoutCount, NetBootFileXferSize, toServer, attemptVars>>
     ELSE NetStartAgain /\ (netretry = "no" => TftpBlock' = TftpBlock)
  /\ UNCHANGED <<TftpLastBlock, TftpBlockWrapOffset, ram, blind>>

\* A block 0 counts as a wrap before anything is known of it.
WrapOffset(p) ==
  TftpBlockWrapOffset + IF p.block = 0 THEN TftpBlkSize * TFTP_SEQUENCE_SIZE ELSE 0

FirstIsNotOne(p) ==
  /\ TftpState # "DATA" /\ p.block # 1
  /\ TftpLastBlock' = 0 /\ TftpBlockWrapOffset' = 0
  /\ IF netretry = "no"
     THEN /\ TftpState' = "DATA" /\ TftpRemotePort' = p.src /\ TftpBlock' = p.block
          /\ NetState' = "FAIL"
          /\ UNCHANGED <<TftpBlkSize, TftpOurPort, TftpTimeoutCount,
                         NetBootFileXferSize, toServer, attemptVars>>
     ELSE NetStartAgain
  /\ UNCHANGED <<ram, blind>>

SameBlockAgain(p) ==
  /\ TftpState = "DATA" /\ p.block = TftpLastBlock
  /\ TftpBlock' = p.block /\ TftpBlockWrapOffset' = WrapOffset(p)
  /\ UNCHANGED <<TftpState, TftpLastBlock, TftpBlkSize, TftpOurPort, TftpRemotePort,
                 TftpTimeoutCount, NetState, NetBootFileXferSize, ram, attemptVars,
                 toServer, blind>>

\* Mutant: the size of the file is the sum of the blocks stored.
SizeWith_Sum(offset, len) == NetBootFileXferSize + len
SizeWith(offset, len) ==
  IF NetBootFileXferSize < offset + len THEN offset + len ELSE NetBootFileXferSize

\* store_block()
StoreBlock(p, wrap) ==
  LET offset == (p.block - 1) * TftpBlkSize + wrap IN
  /\ ram' = [i \in Places |->
               IF i \in offset..(offset + p.len - 1) THEN p.from + i - offset ELSE ram[i]]
  /\ NetBootFileXferSize' = SizeWith(offset, p.len)

Wraps(p) == IF TftpState = "DATA" THEN WrapOffset(p) ELSE 0

NewBlock(p) ==
  /\ IF TftpState = "DATA" THEN p.block # TftpLastBlock ELSE p.block = 1
  /\ TftpState' = "DATA" /\ TftpBlock' = p.block /\ TftpLastBlock' = p.block
  /\ TftpRemotePort' = p.src
  /\ TftpBlockWrapOffset' = Wraps(p)
  /\ StoreBlock(p, TftpBlockWrapOffset')
  /\ SendAck(p.block, p.src)
  /\ blind' = (blind \/ (TftpState = "SEND_RRQ" /\ TftpBlkSize # BlockSize))
  /\ NetState' = IF p.len < TftpBlkSize THEN "SUCCESS" ELSE NetState
  /\ UNCHANGED <<TftpBlkSize, TftpOurPort, TftpTimeoutCount, attemptVars>>

HandleData(p) ==
  /\ Admitted(p) /\ p.op = "DATA"
  /\ FirstIsNotOne(p) \/ SameBlockAgain(p) \/ NewBlock(p)

TftpHandler ==
  /\ NetState = "CONTINUE"
  /\ \E p \in toClient :
       /\ HandleOther(p) \/ HandleOack(p) \/ HandleError(p) \/ HandleData(p)
       /\ Taken(toClient, p, toClient')
  /\ UNCHANGED <<netretry, FileLength, hurried, refused, servers, lost>>

TftpTimeout ==
  /\ NetState = "CONTINUE"
  /\ IF toClient = {} /\ toServer = {} THEN UNCHANGED hurried
     ELSE ~hurried /\ hurried' = TRUE
  /\ IF TftpTimeoutCount + 1 > TftpTimeoutCountMax
     THEN NetStartAgain /\ (netretry = "no" => TftpBlock' = TftpBlock)
     ELSE TftpStart /\ UNCHANGED <<NetBootFileXferSize, NetState>>
  /\ UNCHANGED <<TftpLastBlock, TftpBlockWrapOffset, ram, netretry, FileLength, refused,
                 blind, servers, toClient, lost, copies>>

\* Nothing matters after NetLoop() has returned.
TftpNext ==
  /\ NetState = "CONTINUE"
  /\ Lose \/ ServerReceives \/ ServerResends \/ TftpHandler \/ TftpTimeout
TftpSpec == TftpInit /\ [][TftpNext]_tftpVars
\* The loop of NetLoop() polls the controller and the timer; a server answers.
TftpFairness ==
  WF_tftpVars(TftpHandler) /\ WF_tftpVars(TftpTimeout) /\ WF_tftpVars(ServerReceives)
TftpFairSpec == TftpSpec /\ TftpFairness
-----------------------------------------------------------------------------
\* When NetLoop() returns the size of a file, that many bytes from the load
\* address on are the file, whatever the network did to its packets and however
\* often the transfer was started again. Two things are beyond the code. A block 1
\* of an attempt before, when the new one has its port, is taken before the size
\* of blocks is known. And a file that has more blocks than numbers has to get
\* through without a repeated packet or port: the client takes every block 0 for
\* a new wrap.
Intact ==
  NetState = "SUCCESS"
  /\ \/ LastBlock < TFTP_SEQUENCE_SIZE /\ (~repeated \/ ~blind)
     \/ ~repeated /\ copies = 0
  => /\ NetBootFileXferSize = FileLength
     /\ \A i \in 0..(FileLength - 1) : ram[i] = i

\* While losses and repetitions are finite a transfer ends with the file, although
\* the client acknowledges no block twice and starts the whole file again after
\* each timeout: unless the timer is too fast for the network (the attempts are
\* bounded here) or the server does not want to.
FileArrives ==
  <>(NetState = "SUCCESS" \/ hurried \/ refused \/ netretry = "no")
=============================================================================
