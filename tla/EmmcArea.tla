------------------------------ MODULE EmmcArea ------------------------------
(***************************************************************************)
(* The eMMC driver's choice of the area a command works on: the user area, *)
(* a boot partition or the RPMB partition.  The card holds the choice in   *)
(* EXT_CSD[179] and forgets it in a reset; the driver records it in        *)
(* u8_partition_config (eMMC_prg.c, eMMC_RPMB.c, eMMC_hal_v5.c).  A        *)
(* command that fails is repeated after eMMC_FCIE_ErrHandler_ReInit(),     *)
(* which resets the card and applies the recorded choice again; when the   *)
(* repetitions are used up the driver hangs.  The card is external.        *)
(***************************************************************************)
EXTENDS Naturals, Sequences, FiniteSets

CONSTANTS
  BootAreas,   \* the boot partitions
  Sectors,     \* bound: the sectors of an area that calls name
  MaxRepeats   \* how often one command is repeated

ASSUME BootAreasAssumption == BootAreas \cap {"user", "rpmb"} = {}
ASSUME SectorsAssumption == Sectors \subseteq Nat /\ IsFiniteSet(Sectors)
ASSUME MaxRepeatsAssumption == MaxRepeats \in Nat

Areas == BootAreas \cup {"user", "rpmb"}

\* What each call does, in order.
Program ==
  [ReadData      |-> <<"read">>,
   WriteData     |-> <<"write">>,
   ReadBootPart  |-> <<"select", "read", "release">>,
   WriteBootPart |-> <<"select", "write", "verify", "bus", "release">>,
   EraseBootPart |-> <<"select", "erase", "release">>,
   RPMB_Read_Blk |-> <<"select", "ask", "read", "release">>,
   RPMB_Write_Blk |-> <<"select", "write", "ask", "read", "release">>]

UserOps == {"ReadData", "WriteData"}
BootOps == {"ReadBootPart", "WriteBootPart", "EraseBootPart"}
RpmbOps == {"RPMB_Read_Blk", "RPMB_Write_Blk"}
AreasOf(op) ==
  IF op \in UserOps THEN {"user"} ELSE IF op \in BootOps THEN BootAreas ELSE {"rpmb"}

\* A call: the operation, the area it names, the first sector and the number
\* of sectors.  RPMB frames carry their block address: the command names 0.
Calls ==
  {c \in [op : DOMAIN Program, area : Areas, from : Sectors, cnt : 1..Cardinality(Sectors)] :
     /\ c.area \in AreasOf(c.op)
     /\ c.from + c.cnt - 1 \in Sectors
     /\ c.op \in RpmbOps => c.from = 0 /\ c.cnt = 1}
RangeOf(c) == {s \in Sectors : c.from <= s /\ s < c.from + c.cnt}

VARIABLES
  card,      \* the area the card works on
  config,    \* u8_partition_config: the area the driver recorded
  refused,   \* the card reports SWITCH_ERROR
  pc,        \* "idle", "busy" or "dead", which is eMMC_die()
  call, step, \* the call and the step of its program
  status,    \* CMD13 is next: the step's own command is done
  tries,     \* repetitions of the current command
  err,       \* the RPMB call is on its way to LABEL_END
  written,   \* <<area, sector>> the call changed
  good,      \* those that now hold what the call was given
  source,    \* the area the call's data were read from
  result,    \* of the last call
  glitch,    \* history: CMD13 of a switch was repeated, or reported an error
  early      \* history: a call on a boot partition returned before "release"

card_vars == <<card, refused>>
data == <<written, good, source>>
history == <<glitch, early>>
vars == <<card_vars, config, pc, call, step, status, tries, err, data, result,
          history>>

TypeOK ==
  /\ card \in Areas /\ config \in Areas /\ refused \in BOOLEAN
  /\ pc \in {"idle", "busy", "dead"}
  /\ call \in Calls /\ step \in 1..Len(Program[call.op])
  /\ status \in BOOLEAN /\ tries \in 0..MaxRepeats /\ err \in BOOLEAN
  /\ written \subseteq Areas \X Sectors /\ good \subseteq written
  /\ source \in Areas /\ result \in {"none", "ok", "failed"}
  /\ glitch \in BOOLEAN /\ early \in BOOLEAN

\* Power on: the card works on the user area and eMMC_Init_Ex() records 8.
Init ==
  /\ card = "user" /\ config = "user" /\ refused = FALSE
  /\ pc = "idle" /\ call \in Calls /\ call.op = "ReadData" /\ step = 1
  /\ status = FALSE /\ tries = 0 /\ err = FALSE
  /\ written = {} /\ good = {} /\ source = "user" /\ result = "none"
  /\ glitch = FALSE /\ early = FALSE
-----------------------------------------------------------------------------
At(s) == pc = "busy" /\ Program[call.op][step] = s
Switching == Program[call.op][step] \in {"select", "release"}
\* The area the current step's eMMC_ModifyExtCSD() asks for.
Asked == IF Program[call.op][step] = "select" THEN call.area ELSE "user"

Return(res) == pc' = "idle" /\ result' = res /\ UNCHANGED <<call, step, err>>
Continue ==
  IF step = Len(Program[call.op])
    THEN Return(IF err THEN "failed" ELSE "ok")
    ELSE /\ step' = step + 1
         /\ UNCHANGED <<pc, call, err, result>>

\* An RPMB call goes on at LABEL_END, which releases the area and hangs if that
\* fails.
GoToEnd ==
  IF Program[call.op][step] = "release"
    THEN pc' = "dead" /\ UNCHANGED <<call, step, err, result>>
    ELSE /\ step' = Len(Program[call.op]) /\ err' = TRUE
         /\ UNCHANGED <<pc, call, result>>

\* An error that is returned: the calls on a boot partition return at once.
Fail ==
  /\ IF call.op \in RpmbOps THEN GoToEnd ELSE Return("failed")
  /\ early' = (early \/ call.op \in BootOps)

\* eMMC_ReadData(), eMMC_WriteData(), eMMC_ReadBootPart(), ...
Start(c) ==
  /\ pc = "idle"
  /\ pc' = "busy" /\ call' = c /\ step' = 1 /\ status' = FALSE /\ tries' = 0
  /\ err' = FALSE /\ written' = {} /\ good' = {} /\ source' = c.area
  /\ result' = "none"
  /\ UNCHANGED <<card_vars, config, history>>
-----------------------------------------------------------------------------
(***************************************************************************)
(* eMMC_ModifyExtCSD(): CMD6, then CMD13, then the record                  *)
(***************************************************************************)

\* CMD6 is answered.  The card may refuse the switch, which CMD13 tells.
Switch ==
  /\ pc = "busy" /\ Switching /\ ~status
  /\ \/ card' = Asked /\ UNCHANGED refused
     \/ refused' = TRUE /\ UNCHANGED card
  /\ status' = TRUE /\ tries' = 0
  /\ UNCHANGED <<config, pc, call, step, err, data, result, history>>

\* EXT_CSD[177] does not change the area.
SetBootBus ==
  /\ At("bus") /\ ~status
  /\ refused' \in BOOLEAN
  /\ status' = TRUE /\ tries' = 0
  /\ UNCHANGED <<card, config, pc, call, step, err, data, result, history>>

\* CMD13 reports no error.
StatusOk ==
  /\ pc = "busy" /\ status /\ ~refused
  /\ config' = IF Switching THEN Asked ELSE config
  /\ status' = FALSE /\ tries' = 0
  /\ Continue
  /\ UNCHANGED <<card_vars, data, history>>

\* CMD13 reports an error of the card: "should not retry".
StatusError ==
  /\ pc = "busy" /\ status
  /\ refused' = FALSE /\ status' = FALSE /\ tries' = 0
  /\ glitch' = (glitch \/ Switching)
  /\ Fail
  /\ UNCHANGED <<card, config, data>>
-----------------------------------------------------------------------------
(***************************************************************************)
(* The commands that move data                                             *)
(***************************************************************************)

\* The RPMB partition takes nothing but RPMB frames.
Rejected == card = "rpmb" /\ call.op \notin RpmbOps

\* The card has stored what it was sent, or something else; the RPMB partition
\* takes a frame or refuses it, and a refusal undoes nothing.
Store ==
  LET cells == {<<card, s>> : s \in RangeOf(call)}
  IN  /\ written' = written \cup cells
      /\ \E bad \in SUBSET cells :
           /\ card = "rpmb" => bad \cap good = {}
           /\ good' = (good \cup cells) \ bad
      /\ UNCHANGED source

\* The current step makes the card store something.
Changing ==
  \/ Program[call.op][step] \in {"write", "erase"} /\ ~Rejected
  \/ Program[call.op][step] = "ask" /\ card # "rpmb"

\* CMD24 or CMD25; CMD13 follows.
Write ==
  /\ At("write") /\ ~status /\ Changing
  /\ Store
  /\ status' = TRUE /\ tries' = 0
  /\ UNCHANGED <<card_vars, config, pc, call, step, err, result, history>>

\* The card stays busy before the data are sent: the one error of a write that
\* is neither repeated nor fatal.
WriteBusy ==
  /\ At("write") /\ ~status
  /\ Fail
  /\ tries' = 0 /\ UNCHANGED <<card_vars, config, status, data, glitch>>

\* The RPMB request for data or for the result of a write.  Outside the RPMB
\* partition it is data like any other.
Ask ==
  /\ At("ask") /\ ~status
  /\ IF Changing THEN Store ELSE UNCHANGED data
  /\ status' = TRUE /\ tries' = 0
  /\ UNCHANGED <<card_vars, config, pc, call, step, err, result, history>>

\* CMD17 or CMD18.
Read ==
  /\ At("read") /\ ~status /\ ~Rejected /\ call.op \notin RpmbOps
  /\ source' = card /\ tries' = 0
  /\ Continue
  /\ UNCHANGED <<card_vars, config, status, written, good, history>>

\* Mutant: the result is not looked at.
Believes_All == TRUE
\* eMMC_RPMB_CheckResultError(): the RPMB partition, whose key is programmed,
\* confirms a write it has made; in what another area holds, the request itself for
\* one, the result is often 0.
Believes ==
  card = "rpmb" /\ call.op = "RPMB_Write_Blk" => <<card, 0>> \in good

ReadAnswer ==
  /\ At("read") /\ ~status /\ call.op \in RpmbOps
  /\ source' = card /\ tries' = 0
  /\ Believes
  /\ status' = TRUE
  /\ UNCHANGED <<card_vars, config, pc, call, step, err, written, good, result,
                 history>>

\* The result field tells of an error.
ReadRefusal ==
  /\ At("read") /\ ~status /\ call.op \in RpmbOps
  /\ source' = card /\ tries' = 0
  /\ Fail
  /\ UNCHANGED <<card_vars, config, status, written, good, glitch>>

\* eMMC_EraseCMDSeq(): CMD35, CMD36, CMD38.
Erase ==
  /\ At("erase") /\ ~status /\ Changing
  /\ Store
  /\ tries' = 0 /\ Continue
  /\ UNCHANGED <<card_vars, config, status, history>>

\* Mutant: the contents are not compared.
Compared_None == {}
\* The loop of eMMC_WriteBootPart() runs from the block address to the number
\* of sectors.
Compared == {s \in RangeOf(call) : s < call.cnt}
Matches == \A s \in Compared : <<card, s>> \in good

Verify ==
  /\ At("verify") /\ ~status /\ ~Rejected
  /\ tries' = 0
  /\ \/ Matches /\ Continue /\ UNCHANGED early
     \/ ~Matches /\ Fail
  /\ UNCHANGED <<card_vars, config, status, data, glitch>>
-----------------------------------------------------------------------------
(***************************************************************************)
(* Failing commands                                                        *)
(***************************************************************************)

\* Mutant: the recorded area is not applied again.
Reset_User == card' = "user" /\ refused' = FALSE
\* eMMC_FCIE_ErrHandler_ReInit(), which hangs if it fails itself.
Reset == card' = config /\ refused' = FALSE

MayRepeat == tries < MaxRepeats

\* Mutant: the repetitions are not counted.
Counted_Not == tries
\* u8_retry_cmd, u8_retry_fcie and u8_retry_r1.
Counted == tries + 1

\* A command gets no proper answer and is sent again.  A write may have taken
\* effect.
Repeat ==
  /\ pc = "busy" /\ MayRepeat
  /\ tries' = Counted
  /\ \/ ~status /\ Changing /\ Store
     \/ UNCHANGED data
  /\ Reset
  /\ glitch' = (glitch \/ (status /\ Switching))
  /\ UNCHANGED <<config, pc, call, step, status, err, result, early>>

\* eMMC_FCIE_ErrHandler_Stop(), at once or after the last repetition.
Die ==
  /\ pc = "busy"
  /\ pc' = "dead"
  /\ UNCHANGED <<card_vars, config, call, step, status, tries, err, data,
                 result, history>>

PowerCycle ==
  /\ card' = "user" /\ config' = "user" /\ refused' = FALSE
  /\ pc' = "idle" /\ status' = FALSE /\ tries' = 0 /\ err' = FALSE
  /\ written' = {} /\ good' = {} /\ source' = call.area /\ result' = "none"
  /\ glitch' = FALSE /\ early' = FALSE
  /\ UNCHANGED <<call, step>>

Work ==
  \/ Switch \/ SetBootBus \/ StatusOk \/ StatusError
  \/ Write \/ WriteBusy \/ Ask \/ Read \/ ReadAnswer \/ ReadRefusal
  \/ Erase \/ Verify \/ Repeat \/ Die

Next == (\E c \in Calls : Start(c)) \/ Work \/ PowerCycle

Spec == Init /\ [][Next]_vars
\* The driver polls with time limits: a call that has begun goes on.
FairSpec == Spec /\ WF_vars(Work)
-----------------------------------------------------------------------------
(***************************************************************************)
(* Properties                                                              *)
(***************************************************************************)

\* A call reads and changes the area it names and no other.
InPlace == source = call.area /\ \A cell \in written : cell[1] = call.area

\* The resets between repetitions never move a call to another area, in any
\* number and wherever they fall, as long as CMD13 of a switch is answered the
\* first time and no call on a boot partition has ended early.
ResetsKeepArea == ~glitch /\ ~early => InPlace

\* A boot partition write that was verified from sector 0 and acknowledged is in
\* the partition it names, whatever earlier calls left behind.
AckedBootWrite ==
  /\ call.op = "WriteBootPart" /\ result = "ok" /\ call.from = 0 /\ ~glitch
  => {call.area} \X RangeOf(call) \subseteq good

\* An acknowledged RPMB write has been made by the RPMB partition.
AckedRpmbWrite ==
  call.op = "RPMB_Write_Blk" /\ result = "ok" /\ ~glitch => <<"rpmb", 0>> \in good

\* An RPMB call never returns with the RPMB partition recorded as the area, by
\* whichever of its error paths it ends.
RpmbReleased == pc = "idle" => config # "rpmb"

\* Every call returns or the driver stops: repetitions come to an end.
CallEnds == pc = "busy" ~> pc # "busy"
=============================================================================
