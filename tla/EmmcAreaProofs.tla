--------------------------- MODULE EmmcAreaProofs ---------------------------
(***************************************************************************)
(* Proofs about EmmcArea, for any boot partitions, sectors and number of   *)
(* repetitions.                                                            *)
(*                                                                         *)
(* What the card works on and what the driver recorded agree except        *)
(* between a switch and its CMD13; a reset brings them together again,     *)
(* which is harmless before the switch and after it.  Between the two it   *)
(* is not, and that is the case "glitch" leaves out.                       *)
(***************************************************************************)
EXTENDS EmmcArea, TLAPS

Step == Program[call.op][step]

\* The call has selected its area.
Selected == pc = "busy" /\ call.op \notin UserOps /\ step > 1

\* Card and record agree, on the area of the call once it is selected; at CMD13
\* of a switch the card has made the switch or reports that it has not.
Agree ==
  pc # "dead" /\ ~glitch =>
    /\ pc = "busy" /\ status /\ Switching => card = Asked \/ refused
    /\ ~(pc = "busy" /\ status /\ Switching) => card = config
    /\ Selected => config = call.area

\* Between calls the user area is selected, unless a call ended early.
UserBetween ==
  ~glitch /\ ~early /\ pc # "dead" /\ ~Selected => config = "user"

InPlaceInv == ~glitch /\ ~early => InPlace

\* The RPMB partition is recorded within RPMB calls only.
RpmbInv == config = "rpmb" => pc # "idle" /\ call.op \in RpmbOps

\* A write of a boot partition from sector 0 on that is past "verify".
BootWriteInv ==
  /\ pc = "busy" /\ call.op = "WriteBootPart" /\ step > 3 /\ call.from = 0 /\ ~glitch
  => {call.area} \X RangeOf(call) \subseteq good

\* A write of RPMB whose answer was read.
RpmbWriteInv ==
  /\ pc = "busy" /\ call.op = "RPMB_Write_Blk" /\ ~err /\ ~glitch
  /\ (step = 4 /\ status) \/ step = 5
  => <<"rpmb", 0>> \in good

\* A result is set when a call returns.
ResultInv == pc # "idle" => result = "none"

\* "verify" sends no CMD13.
StatusInv == pc = "busy" /\ status => Step # "verify"

IInv ==
  /\ TypeOK /\ ResultInv /\ StatusInv /\ Agree /\ UserBetween /\ InPlaceInv /\ RpmbInv
  /\ BootWriteInv /\ RpmbWriteInv /\ AckedBootWrite /\ AckedRpmbWrite
-----------------------------------------------------------------------------
(***************************************************************************)
(* Programs                                                                *)
(***************************************************************************)

\* The steps of each operation.
LEMMA Programs ==
  /\ DOMAIN Program = UserOps \cup BootOps \cup RpmbOps
  /\ Program["ReadData"] = <<"read">>
  /\ Program["WriteData"] = <<"write">>
  /\ Program["ReadBootPart"] = <<"select", "read", "release">>
  /\ Program["WriteBootPart"] = <<"select", "write", "verify", "bus", "release">>
  /\ Program["EraseBootPart"] = <<"select", "erase", "release">>
  /\ Program["RPMB_Read_Blk"] = <<"select", "ask", "read", "release">>
  /\ Program["RPMB_Write_Blk"] = <<"select", "write", "ask", "read", "release">>
  BY DEF Program, UserOps, BootOps, RpmbOps

\* Where an operation's steps are: selection first, release last, in every
\* operation but those on the user area, which have one step.
LEMMA Shape ==
  ASSUME NEW c \in Calls, NEW s \in 1..Len(Program[c.op])
  PROVE  /\ c.op \in UserOps => Len(Program[c.op]) = 1
                                 /\ Program[c.op][s] \in {"read", "write"}
         /\ c.op \notin UserOps =>
              /\ Len(Program[c.op]) > 1
              /\ Program[c.op][s] = "select" <=> s = 1
              /\ Program[c.op][s] = "release" <=> s = Len(Program[c.op])
<1>1. c.op \in DOMAIN Program
  BY DEF Calls
<1>2. CASE c.op = "ReadData"
  BY <1>2, Programs DEF UserOps
<1>3. CASE c.op = "WriteData"
  BY <1>3, Programs DEF UserOps
<1>4. CASE c.op = "ReadBootPart"
  BY <1>4, Programs DEF UserOps
<1>5. CASE c.op = "WriteBootPart"
  BY <1>5, Programs DEF UserOps
<1>6. CASE c.op = "EraseBootPart"
  BY <1>6, Programs DEF UserOps
<1>7. CASE c.op = "RPMB_Read_Blk"
  BY <1>7, Programs DEF UserOps
<1>8. CASE c.op = "RPMB_Write_Blk"
  BY <1>8, Programs DEF UserOps
<1> QED
  BY <1>1, <1>2, <1>3, <1>4, <1>5, <1>6, <1>7, <1>8, Programs
     DEF UserOps, BootOps, RpmbOps

LEMMA CallParts ==
  ASSUME NEW c \in Calls
  PROVE  /\ c.op \in UserOps \cup BootOps \cup RpmbOps
         /\ c.area \in Areas /\ c.area \in AreasOf(c.op)
         /\ c.op \in UserOps => c.area = "user"
         /\ c.op \in BootOps => c.area \in BootAreas
         /\ c.op \in RpmbOps => c.area = "rpmb" /\ c.from = 0 /\ c.cnt = 1
         /\ c.from \in Nat /\ RangeOf(c) \subseteq Sectors
         /\ c.op = "ReadBootPart" \/ c.op = "WriteBootPart" \/ c.op = "EraseBootPart"
              <=> c.op \in BootOps
  BY Programs, SectorsAssumption
     DEF Calls, AreasOf, UserOps, BootOps, RpmbOps, RangeOf

-----------------------------------------------------------------------------
(***************************************************************************)
(* How a call goes on                                                      *)
(***************************************************************************)

\* What the current step is, from where it stands.
LEMMA Here ==
  ASSUME TypeOK
  PROVE  /\ step \in Nat /\ step >= 1 /\ step <= Len(Program[call.op])
         /\ Len(Program[call.op]) \in Nat
         /\ Step = "select" => call.op \notin UserOps /\ step = 1
         /\ Step = "release" => call.op \notin UserOps /\ step > 1
                                 /\ step = Len(Program[call.op])
         /\ call.op \notin UserOps /\ step = 1 => Step = "select"
         /\ call.op \notin UserOps /\ step = Len(Program[call.op]) => Step = "release"
         /\ call.op \in UserOps => step = 1 /\ step = Len(Program[call.op])
         /\ call.op \notin UserOps => Len(Program[call.op]) > 1
<1>1. Len(Program[call.op]) \in Nat
  BY CallParts, Programs DEF TypeOK, UserOps, BootOps, RpmbOps
<1> QED
  BY <1>1, Shape DEF TypeOK, Step

\* Going on: the next step, or the return of the call.
LEMMA Continued ==
  ASSUME TypeOK, pc = "busy", Continue
  PROVE  /\ call' = call /\ err' = err
         /\ pc' \in {"idle", "busy"}
         /\ step' \in 1..Len(Program[call.op])
         /\ result' \in {"none", "ok", "failed"}
         /\ pc' = "busy" => step' = step + 1 /\ result' = result
         /\ pc' = "idle" => /\ step = Len(Program[call.op]) /\ step' = step
                            /\ result' = IF err THEN "failed" ELSE "ok"
  BY Here DEF Continue, Return, TypeOK

\* Failing: the return of the call, the hang of the driver, or for an RPMB call
\* that holds its area the release.
LEMMA Failed ==
  ASSUME TypeOK, pc = "busy", Fail
  PROVE  /\ call' = call /\ err' \in BOOLEAN /\ early' \in BOOLEAN
         /\ pc' \in {"idle", "busy", "dead"}
         /\ step' \in 1..Len(Program[call.op])
         /\ result' \in {"none", "failed", "ok"}
         /\ early => early'
         /\ call.op \in BootOps => early'
         /\ pc' = "idle" => result' = "failed" /\ call.op \notin RpmbOps
         /\ pc' = "busy" => /\ call.op \in RpmbOps /\ err'
                            /\ step' = Len(Program[call.op])
         /\ pc' = "dead" => result' = result
         /\ pc' = "busy" => result' = result
<1>1. early \in BOOLEAN /\ (call.op \in BootOps) \in BOOLEAN /\ err \in BOOLEAN
  BY DEF TypeOK
<1>2. call.op \in RpmbOps => call.op \notin BootOps
  BY DEF RpmbOps, BootOps
<1>3. early' \in BOOLEAN /\ (early => early') /\ (call.op \in BootOps => early')
  BY <1>1 DEF Fail
<1>4. CASE call.op \in RpmbOps
  <2>1. call' = call /\ err' \in BOOLEAN /\ pc' \in {"busy", "dead"} /\ result' = result
        /\ (pc' = "busy" => err' /\ step' = Len(Program[call.op]))
        /\ (pc' = "dead" => step' = step)
    BY <1>1, <1>4 DEF Fail, GoToEnd
  <2>2. step' \in 1..Len(Program[call.op])
    BY <2>1, Here
  <2>3. result' \in {"none", "ok", "failed"}
    BY <2>1 DEF TypeOK
  <2> QED
    BY <1>2, <1>3, <1>4, <2>1, <2>2, <2>3
<1>5. CASE call.op \notin RpmbOps
  BY <1>1, <1>3, <1>5, Here DEF Fail, Return, TypeOK
<1> QED
  BY <1>4, <1>5

\* The steps of the two calls whose writes are acknowledged.
LEMMA WriteSteps ==
  ASSUME TypeOK
  PROVE  /\ call.op = "WriteBootPart" =>
              /\ call.op \in BootOps /\ Len(Program[call.op]) = 5
              /\ Step = "verify" <=> step = 3
              /\ Step \in {"write", "erase", "ask", "read"} => step = 2
         /\ call.op = "RPMB_Write_Blk" =>
              /\ call.op \in RpmbOps /\ Len(Program[call.op]) = 5
              /\ Step = "read" <=> step = 4
              /\ Step \in {"write", "erase", "ask", "verify"} => step \in {2, 3}
<1>1. CASE call.op = "WriteBootPart"
  BY <1>1, Programs DEF TypeOK, Step, BootOps
<1>2. CASE call.op = "RPMB_Write_Blk"
  BY <1>2, Programs DEF TypeOK, Step, RpmbOps
<1> QED
  BY <1>1, <1>2

\* One operation verifies, one erases.
LEMMA OnlyThere ==
  ASSUME TypeOK
  PROVE  /\ Step = "verify" => call.op = "WriteBootPart"
         /\ Step = "erase" => call.op = "EraseBootPart"
<1>1. call.op \in UserOps \cup BootOps \cup RpmbOps
  BY CallParts DEF TypeOK
<1>2. CASE call.op \in UserOps
  BY <1>2, Shape DEF TypeOK, Step
<1>3. CASE call.op = "ReadBootPart"
  BY <1>3, Programs DEF TypeOK, Step
<1>4. CASE call.op \in RpmbOps
  BY <1>4, Programs DEF TypeOK, Step, RpmbOps
<1>5. CASE call.op = "WriteBootPart"
  BY <1>5, Programs DEF TypeOK, Step
<1>6. CASE call.op = "EraseBootPart"
  BY <1>6, Programs DEF TypeOK, Step
<1> QED
  BY <1>1, <1>2, <1>3, <1>4, <1>5, <1>6 DEF BootOps

\* Where the card works during a call.
LEMMA Located ==
  ASSUME IInv, pc = "busy", ~glitch
  PROVE  /\ ~status \/ ~Switching => card = config
         /\ call.op \notin UserOps /\ Step # "select" => config = call.area
         /\ ~early /\ ~Switching => card = call.area
<1>1. call.op \in UserOps => call.area = "user"
  BY CallParts DEF IInv, TypeOK
<1>2. Switching <=> Step \in {"select", "release"}
  BY DEF Switching, Step
<1> QED
  BY <1>1, <1>2, Here DEF IInv, Agree, UserBetween, Selected

\* The areas and the counters that steps assign.
LEMMA Assigned ==
  /\ {"user", "rpmb"} \subseteq Areas /\ 0 \in 0..MaxRepeats
  /\ TypeOK => call.area \in Areas /\ Asked \in Areas
<1>1. {"user", "rpmb"} \subseteq Areas /\ 0 \in 0..MaxRepeats
  BY MaxRepeatsAssumption DEF Areas
<1>2. TypeOK => call.area \in Areas
  BY CallParts DEF TypeOK
<1> QED
  BY <1>1, <1>2 DEF Asked
-----------------------------------------------------------------------------
LEMMA InitIInv == ASSUME Init PROVE IInv
<1>1. 1 \in 1..Len(Program[call.op])
  BY Programs DEF Init
<1>2. TypeOK
  BY <1>1, Assigned DEF Init, TypeOK
<1>3. call.area = "user"
  BY CallParts DEF Init, UserOps
<1> QED
  BY <1>2, <1>3 DEF Init, IInv, ResultInv, StatusInv, Agree, UserBetween,
       InPlaceInv, InPlace, RpmbInv, Selected,
     BootWriteInv, RpmbWriteInv, AckedBootWrite, AckedRpmbWrite

LEMMA StartIInv == ASSUME IInv, NEW c \in Calls, Start(c) PROVE IInv'
<1>1. 1 \in 1..Len(Program[c.op])
  BY CallParts, Programs DEF UserOps, BootOps, RpmbOps
<1>2. TypeOK'
  BY <1>1, CallParts, Assigned DEF Start, IInv, TypeOK, card_vars, history
<1>3. Agree' /\ UserBetween' /\ ResultInv' /\ StatusInv'
  BY <1>2 DEF Start, IInv, ResultInv, StatusInv, card_vars, history, Agree,
       UserBetween, Selected
<1>4. InPlaceInv' /\ RpmbInv' /\ BootWriteInv' /\ RpmbWriteInv' /\ AckedBootWrite' /\ AckedRpmbWrite'
  BY <1>2 DEF Start, IInv, TypeOK, card_vars, history, InPlaceInv, InPlace,
         RpmbInv, BootWriteInv, RpmbWriteInv, AckedBootWrite, AckedRpmbWrite
<1> QED
  BY <1>2, <1>3, <1>4 DEF IInv

LEMMA SwitchIInv == ASSUME IInv, Switch PROVE IInv'
<1>1. TypeOK'
  <2>1. card' \in Areas /\ refused' \in BOOLEAN
    BY Assigned DEF Switch, IInv, TypeOK
  <2> QED
    BY <2>1, Assigned DEF Switch, IInv, TypeOK, data, history
<1>2. Agree' /\ UserBetween' /\ ResultInv' /\ StatusInv'
  BY DEF Switch, IInv, ResultInv, StatusInv, Step, TypeOK, history, Agree,
       UserBetween, Selected, Switching, Asked
<1>3. InPlaceInv' /\ RpmbInv' /\ BootWriteInv' /\ AckedBootWrite' /\ AckedRpmbWrite'
  BY DEF Switch, IInv, TypeOK, data, history, InPlaceInv, InPlace, RpmbInv,
       BootWriteInv,
         AckedBootWrite, AckedRpmbWrite, RangeOf
<1>4. RpmbWriteInv'
  BY Programs DEF Switch, IInv, TypeOK, data, history, Switching, RpmbWriteInv
<1> QED
  BY <1>1, <1>2, <1>3, <1>4 DEF IInv

\* Steps that leave the areas alone and go on.
LEMMA ContinueAreas ==
  ASSUME IInv, pc = "busy", Continue, ~Switching, ~status \/ ~status', ~status',
         UNCHANGED <<card, config>>, glitch' = glitch, early' = early
  PROVE  Agree' /\ UserBetween' /\ RpmbInv'
<1>1. Step \notin {"select", "release"}
  BY DEF Switching, Step
<1>2. pc' \in {"idle", "busy"} /\ call' = call /\ step' \in Nat
  BY Continued DEF IInv
<1>3. ~glitch => card = config
  BY Located
<1>4. CASE pc' = "idle"
  <2>1. call.op \in UserOps
    BY <1>1, <1>4, Continued, Here DEF IInv
  <2>2. call.op \notin RpmbOps
    BY <2>1 DEF UserOps, RpmbOps
  <2> QED
    BY <1>2, <1>3, <1>4, <2>1, <2>2 DEF IInv, Agree, UserBetween, RpmbInv, Selected
<1>5. CASE pc' = "busy"
  <2>1. call.op \notin UserOps /\ step > 1 /\ step' > 1
    BY <1>1, <1>5, Continued, Here DEF IInv, TypeOK
  <2> QED
    BY <1>2, <1>3, <1>5, <2>1 DEF IInv, Agree, UserBetween, RpmbInv, Selected
<1> QED
  BY <1>2, <1>4, <1>5

\* Steps that leave the areas alone and fail; an error of a switch is a glitch.
LEMMA FailAreas ==
  ASSUME IInv, pc = "busy", Fail, ~status', UNCHANGED <<card, config>>,
         glitch => glitch', Switching => glitch'
  PROVE  Agree' /\ UserBetween' /\ RpmbInv'
<1>1. /\ pc' \in {"idle", "busy", "dead"} /\ call' = call
      /\ call.op \in RpmbOps => pc' # "idle"
      /\ call.op \in BootOps => early'
      /\ early => early'
      /\ pc' = "busy" => call.op \in RpmbOps /\ step' = Len(Program[call.op])
  BY Failed DEF IInv
<1>2. RpmbInv'
  BY <1>1 DEF IInv, RpmbInv
<1>3. CASE glitch'
  BY <1>2, <1>3 DEF Agree, UserBetween
<1>4. CASE ~glitch'
  <2>1. ~glitch /\ Step \notin {"select", "release"} /\ ~Switching
    BY <1>4 DEF Switching, Step
  <2>2. card = config
    BY <2>1, Located
  <2>3. CASE pc' = "busy"
    <3>1. call.op \notin UserOps /\ step' > 1
      BY <1>1, <2>3, Here DEF IInv, UserOps, RpmbOps
    <3>2. config = call.area
      BY <2>1, <3>1, Located
    <3> QED
      BY <1>1, <1>2, <2>2, <2>3, <3>1, <3>2 DEF Agree, UserBetween, Selected
  <2>4. CASE pc' = "idle"
    <3>1. call.op \in UserOps \/ early'
      BY <1>1, <2>4, CallParts DEF IInv, TypeOK
    <3>2. call.op \in UserOps /\ ~early => config = "user"
      BY <2>1 DEF IInv, UserBetween, Selected
    <3> QED
      BY <1>1, <1>2, <2>2, <2>4, <3>1, <3>2 DEF Agree, UserBetween, Selected
  <2>5. CASE pc' = "dead"
    BY <1>2, <2>5 DEF Agree, UserBetween
  <2> QED
    BY <1>1, <2>3, <2>4, <2>5
<1> QED
  BY <1>3, <1>4

\* Steps that store nothing.
LEMMA NothingStored ==
  ASSUME IInv, pc = "busy", call' = call, UNCHANGED <<written, good>>,
         source' = source \/ (source' = card /\ ~Switching),
         glitch => glitch', early => early'
  PROVE  InPlaceInv'
<1>1. CASE glitch' \/ early'
  BY <1>1 DEF InPlaceInv
<1>2. CASE ~glitch' /\ ~early'
  <2>1. ~glitch /\ ~early /\ InPlace
    BY <1>2 DEF IInv, InPlaceInv
  <2>2. source' = call.area
    BY <2>1, Located DEF InPlace
  <2> QED
    BY <2>1, <2>2 DEF InPlaceInv, InPlace
<1> QED
  BY <1>1, <1>2

\* Steps that store nothing and go on.
LEMMA ContinueAcks ==
  ASSUME IInv, pc = "busy", Continue, UNCHANGED good, glitch' = glitch, ~status',
         Step # "verify", call.op = "RPMB_Write_Blk" /\ Step = "read" => status
  PROVE  ResultInv' /\ BootWriteInv' /\ RpmbWriteInv' /\ AckedBootWrite' /\ AckedRpmbWrite'
<1>1. /\ call' = call /\ err' = err /\ pc' \in {"idle", "busy"} /\ step \in Nat
      /\ pc' = "busy" => step' = step + 1 /\ result' = result
      /\ pc' = "idle" => /\ step = Len(Program[call.op])
                         /\ result' = IF err THEN "failed" ELSE "ok"
  BY Continued, Here DEF IInv
<1>2. ResultInv'
  BY <1>1 DEF IInv, ResultInv
<1>3. call.op = "WriteBootPart" => step # 3 /\ Len(Program[call.op]) = 5
  BY WriteSteps DEF IInv
<1>4. BootWriteInv' /\ AckedBootWrite'
  <2> DEFINE Whole == {call.area} \X RangeOf(call) \subseteq good
  <2>1. Whole' <=> Whole
    BY <1>1 DEF RangeOf
  <2>2. call.op = "WriteBootPart" /\ step > 3 /\ call.from = 0 /\ ~glitch => Whole
    BY DEF IInv, BootWriteInv
  <2>3. BootWriteInv'
    BY <1>1, <1>3, <2>1, <2>2 DEF BootWriteInv
  <2>4. AckedBootWrite'
    <3>1. CASE pc' = "busy"
      BY <1>1, <3>1 DEF IInv, ResultInv, AckedBootWrite
    <3>2. CASE pc' = "idle"
      BY <1>1, <1>3, <2>1, <2>2, <3>2 DEF AckedBootWrite
    <3> QED
      BY <1>1, <3>1, <3>2
  <2> QED
    BY <2>3, <2>4
<1>5. call.op = "RPMB_Write_Blk" =>
        (step = 4 => Step = "read") /\ Len(Program[call.op]) = 5
  BY WriteSteps DEF IInv
<1>6. RpmbWriteInv' /\ AckedRpmbWrite'
  <2>1. call.op = "RPMB_Write_Blk" /\ step \in {4, 5} /\ ~err /\ ~glitch => <<"rpmb", 0>> \in good
    BY <1>5 DEF IInv, RpmbWriteInv
  <2>2. RpmbWriteInv'
    BY <1>1, <2>1 DEF RpmbWriteInv
  <2>3. CASE pc' = "busy"
    BY <1>1, <2>2, <2>3 DEF IInv, ResultInv, AckedRpmbWrite
  <2>4. CASE pc' = "idle"
    BY <1>1, <1>5, <2>1, <2>2, <2>4 DEF AckedRpmbWrite
  <2> QED
    BY <1>1, <2>3, <2>4
<1> QED
  BY <1>2, <1>4, <1>6

\* Steps that store nothing and fail.
LEMMA FailAcks ==
  ASSUME IInv, pc = "busy", Fail, UNCHANGED good, glitch => glitch'
  PROVE  ResultInv' /\ BootWriteInv' /\ RpmbWriteInv' /\ AckedBootWrite' /\ AckedRpmbWrite'
<1>1. /\ call' = call /\ pc' \in {"idle", "busy", "dead"}
      /\ pc' = "idle" => result' = "failed"
      /\ pc' # "idle" => result' = "none"
      /\ pc' = "busy" => call.op \in RpmbOps /\ err'
  BY Failed DEF IInv, ResultInv
<1>2. call.op \in RpmbOps => call.op # "WriteBootPart"
  BY DEF RpmbOps
<1> QED
  BY <1>1, <1>2 DEF ResultInv, BootWriteInv, RpmbWriteInv, AckedBootWrite,
       AckedRpmbWrite

\* Steps within a step of the call: what is stored, is stored before "verify" and
\* before the answer of RPMB is read.
LEMMA StayAcks ==
  ASSUME IInv, pc = "busy", UNCHANGED <<pc, call, step, err, result>>,
         glitch => glitch',
         good' = good \/ Step \in {"write", "erase", "ask"},
         call.op = "RPMB_Write_Blk" /\ Step = "read" /\ status' => status
  PROVE  ResultInv' /\ BootWriteInv' /\ RpmbWriteInv' /\ AckedBootWrite' /\ AckedRpmbWrite'
<1>1. ResultInv' /\ AckedBootWrite' /\ AckedRpmbWrite'
  BY DEF IInv, ResultInv, AckedBootWrite, AckedRpmbWrite
<1>2. call.op = "WriteBootPart" /\ step > 3 => Step \notin {"write", "erase", "ask"}
  BY WriteSteps DEF IInv
<1>3. BootWriteInv'
  BY <1>2 DEF IInv, BootWriteInv, RangeOf
<1>4. call.op = "RPMB_Write_Blk" =>
        /\ step \in {4, 5} => Step \notin {"write", "erase", "ask"}
        /\ step = 4 => Step = "read"
  BY Programs, WriteSteps DEF IInv, TypeOK, Step
<1>5. RpmbWriteInv'
  BY <1>4 DEF IInv, RpmbWriteInv
<1> QED
  BY <1>1, <1>3, <1>5

\* What the card stores lies in the area it works on.
LEMMA Stored ==
  ASSUME IInv, pc = "busy", ~Switching, Store, call' = call,
         glitch => glitch', early => early'
  PROVE  /\ written' \subseteq Areas \X Sectors /\ good' \subseteq written'
         /\ source' \in Areas /\ InPlaceInv'
<1> DEFINE cells == {<<card, s>> : s \in RangeOf(call)}
<1>1. cells \subseteq Areas \X Sectors
  BY CallParts DEF IInv, TypeOK
<1>2. written' = written \cup cells /\ good' \subseteq good \cup cells /\ source' = source
  BY DEF Store
<1>3. written' \subseteq Areas \X Sectors /\ good' \subseteq written' /\ source' \in Areas
  BY <1>1, <1>2 DEF IInv, TypeOK
<1>4. ~glitch' /\ ~early' => card = call.area /\ InPlace
  BY Located DEF IInv, InPlaceInv
<1>5. InPlaceInv'
  BY <1>2, <1>4 DEF InPlaceInv, InPlace
<1> QED
  BY <1>3, <1>5
-----------------------------------------------------------------------------
(***************************************************************************)
(* Every step keeps the invariant                                          *)
(***************************************************************************)

LEMMA StayAreas ==
  ASSUME IInv, pc = "busy", ~Switching, UNCHANGED <<card, config, pc, call, step>>,
         glitch' = glitch, early' = early
  PROVE  Agree' /\ UserBetween' /\ RpmbInv'
  BY DEF IInv, Agree, UserBetween, RpmbInv, Selected, Switching

LEMMA SetBootBusIInv == ASSUME IInv, SetBootBus PROVE IInv'
<1>1. TypeOK'
  BY Assigned DEF SetBootBus, At, IInv, TypeOK, data, history
<1>2. Step = "bus" /\ ~Switching /\ pc = "busy"
  BY DEF SetBootBus, At, Step, Switching
<1>3. Agree' /\ UserBetween' /\ RpmbInv'
  BY <1>2, StayAreas DEF SetBootBus, history
<1>4. InPlaceInv'
  BY <1>2, NothingStored DEF SetBootBus, data, history
<1>5. ResultInv' /\ BootWriteInv' /\ RpmbWriteInv' /\ AckedBootWrite' /\ AckedRpmbWrite'
  BY <1>2, StayAcks DEF SetBootBus, data, history
<1>6. StatusInv'
  BY <1>2 DEF SetBootBus, StatusInv, Step
<1> QED
  BY <1>1, <1>3, <1>4, <1>5, <1>6 DEF IInv

LEMMA StatusOkIInv == ASSUME IInv, StatusOk PROVE IInv'
<1>1. pc = "busy" /\ status /\ ~status' /\ glitch' = glitch /\ early' = early
      /\ UNCHANGED <<card, refused, written, good, source>> /\ ~refused
  BY DEF StatusOk, card_vars, data, history
<1>2. /\ call' = call /\ err' = err /\ pc' \in {"idle", "busy"} /\ Continue
      /\ step' \in 1..Len(Program[call.op]) /\ result' \in {"none", "ok", "failed"}
  BY <1>1, Continued DEF IInv, StatusOk
<1>3. TypeOK'
  BY <1>1, <1>2, Assigned DEF StatusOk, IInv, TypeOK
<1>4. InPlaceInv'
  BY <1>1, <1>2, NothingStored
<1>5. Step # "verify"
  BY <1>1 DEF IInv, StatusInv
<1>6. ResultInv' /\ BootWriteInv' /\ RpmbWriteInv' /\ AckedBootWrite' /\ AckedRpmbWrite'
  BY <1>1, <1>2, <1>5, ContinueAcks
<1>7. Agree' /\ UserBetween' /\ RpmbInv' /\ StatusInv'
  <2>1. CASE ~Switching
    <3>1. UNCHANGED config
      BY <2>1 DEF StatusOk
    <3> QED
      BY <1>1, <1>2, <2>1, <3>1, ContinueAreas DEF StatusInv
  <2>2. CASE Step = "select"
    <3>1. /\ config' = call.area /\ call.op \notin UserOps /\ Switching
          /\ pc' = "busy" /\ step' > 1
      BY <1>1, <1>2, <2>2, Here, Continued DEF StatusOk, Switching, Asked, Step, IInv
    <3>2. ~glitch => card = call.area
      BY <1>1, <2>2, <3>1 DEF IInv, Agree, Asked, Step
    <3>3. call.area = "rpmb" => call.op \in RpmbOps
      BY <3>1, CallParts, BootAreasAssumption DEF IInv, TypeOK
    <3> QED
      BY <1>1, <1>2, <3>1, <3>2, <3>3 DEF Agree, UserBetween, RpmbInv, Selected,
           StatusInv
  <2>3. CASE Step = "release"
    <3>1. config' = "user" /\ Switching /\ pc' = "idle"
      BY <1>1, <1>2, <2>3, Here, Continued DEF StatusOk, Switching, Asked, Step,
           IInv, TypeOK
    <3>2. ~glitch => card = "user"
      BY <1>1, <2>3, <3>1 DEF IInv, Agree, Asked, Step
    <3> QED
      BY <1>1, <1>2, <3>1, <3>2 DEF Agree, UserBetween, RpmbInv, Selected, StatusInv
  <2> QED
    BY <2>1, <2>2, <2>3 DEF Switching, Step
<1> QED
  BY <1>3, <1>4, <1>6, <1>7 DEF IInv

LEMMA StatusErrorIInv == ASSUME IInv, StatusError PROVE IInv'
<1>1. pc = "busy" /\ Fail /\ ~status' /\ UNCHANGED <<card, config, written, good, source>>
  BY DEF StatusError, data
<1>2. (glitch => glitch') /\ (Switching => glitch') /\ glitch' \in BOOLEAN
  BY DEF StatusError, IInv, TypeOK
<1>3. TypeOK'
  BY <1>1, <1>2, Failed, Assigned DEF StatusError, IInv, TypeOK
<1>4. Agree' /\ UserBetween' /\ RpmbInv' /\ StatusInv'
  BY <1>1, <1>2, FailAreas DEF StatusInv
<1>5. InPlaceInv'
  BY <1>1, <1>2, Failed, NothingStored DEF IInv
<1> QED
  BY <1>1, <1>2, <1>3, <1>4, <1>5, FailAcks DEF IInv

LEMMA WriteIInv == ASSUME IInv, Write PROVE IInv'
<1>1. pc = "busy" /\ Step = "write" /\ ~Switching
  BY DEF Write, At, Step, Switching
<1>2. Store /\ UNCHANGED <<card, refused, config, pc, call, step, err, result, glitch, early>>
      /\ status' = TRUE /\ tries' = 0
  BY DEF Write, card_vars, history
<1>3. written' \subseteq Areas \X Sectors /\ good' \subseteq written' /\ source' \in Areas
      /\ InPlaceInv'
  BY <1>1, <1>2, Stored
<1>4. TypeOK'
  BY <1>2, <1>3, Assigned DEF IInv, TypeOK
<1>5. Agree' /\ UserBetween' /\ RpmbInv' /\ StatusInv'
  BY <1>1, <1>2, StayAreas DEF StatusInv, Step
<1> QED
  BY <1>1, <1>2, <1>3, <1>4, <1>5, StayAcks DEF IInv

LEMMA WriteBusyIInv == ASSUME IInv, WriteBusy PROVE IInv'
<1>1. /\ pc = "busy" /\ Fail /\ ~status' /\ ~Switching /\ glitch' = glitch
      /\ UNCHANGED <<card, refused, config, status, written, good, source>> /\ tries' = 0
  BY DEF WriteBusy, At, Switching, card_vars, data
<1>2. TypeOK'
  BY <1>1, Failed, Assigned DEF IInv, TypeOK
<1>3. Agree' /\ UserBetween' /\ RpmbInv' /\ StatusInv'
  BY <1>1, FailAreas DEF StatusInv
<1>4. InPlaceInv'
  BY <1>1, Failed, NothingStored DEF IInv
<1> QED
  BY <1>1, <1>2, <1>3, <1>4, FailAcks DEF IInv

LEMMA AskIInv == ASSUME IInv, Ask PROVE IInv'
<1>1. pc = "busy" /\ Step = "ask" /\ ~Switching
  BY DEF Ask, At, Step, Switching
<1>2. UNCHANGED <<card, refused, config, pc, call, step, err, result, glitch, early>>
      /\ status' = TRUE /\ tries' = 0
  BY DEF Ask, card_vars, history
<1>3. written' \subseteq Areas \X Sectors /\ good' \subseteq written' /\ source' \in Areas
      /\ InPlaceInv'
  <2>1. CASE Store
    BY <1>1, <1>2, <2>1, Stored
  <2>2. CASE UNCHANGED <<written, good, source>>
    BY <1>1, <1>2, <2>2, NothingStored DEF IInv, TypeOK
  <2> QED
    BY <2>1, <2>2 DEF Ask, data
<1>4. TypeOK'
  BY <1>2, <1>3, Assigned DEF IInv, TypeOK
<1>5. Agree' /\ UserBetween' /\ RpmbInv' /\ StatusInv'
  BY <1>1, <1>2, StayAreas DEF StatusInv, Step
<1> QED
  BY <1>1, <1>2, <1>3, <1>4, <1>5, StayAcks DEF IInv

LEMMA ReadIInv == ASSUME IInv, Read PROVE IInv'
<1>1. /\ pc = "busy" /\ Step = "read" /\ ~Switching /\ ~status /\ ~status' /\ Continue
      /\ UNCHANGED <<card, refused, config, status, written, good, glitch, early>>
      /\ source' = card /\ tries' = 0 /\ call.op \notin RpmbOps
  BY DEF Read, At, Step, Switching, card_vars, history
<1>2. TypeOK'
  BY <1>1, Continued, Assigned DEF IInv, TypeOK
<1>3. Agree' /\ UserBetween' /\ RpmbInv' /\ StatusInv'
  BY <1>1, ContinueAreas DEF StatusInv
<1>4. InPlaceInv'
  BY <1>1, Continued, NothingStored DEF IInv
<1>5. call.op # "RPMB_Write_Blk"
  BY <1>1 DEF RpmbOps
<1> QED
  BY <1>1, <1>2, <1>3, <1>4, <1>5, ContinueAcks DEF IInv

LEMMA ReadAnswerIInv == ASSUME IInv, ReadAnswer PROVE IInv'
<1>1. /\ pc = "busy" /\ Step = "read" /\ ~Switching /\ Believes
      /\ UNCHANGED <<card, refused, config, pc, call, step, err, written, good, result,
                     glitch, early>>
      /\ source' = card /\ tries' = 0 /\ status' = TRUE /\ call.op \in RpmbOps
  BY DEF ReadAnswer, At, Step, Switching, card_vars, history
<1>2. TypeOK'
  BY <1>1, Assigned DEF IInv, TypeOK
<1>3. Agree' /\ UserBetween' /\ RpmbInv' /\ StatusInv'
  BY <1>1, StayAreas DEF StatusInv, Step
<1>4. InPlaceInv'
  BY <1>1, NothingStored
<1>5. ResultInv' /\ BootWriteInv' /\ AckedBootWrite' /\ AckedRpmbWrite'
  BY <1>1 DEF IInv, ResultInv, BootWriteInv, AckedBootWrite, AckedRpmbWrite, RangeOf
<1>6. RpmbWriteInv'
  <2>1. ~glitch => card = "rpmb"
    BY <1>1, Located, CallParts DEF IInv, TypeOK, UserOps, RpmbOps
  <2> QED
    BY <1>1, <2>1 DEF RpmbWriteInv, Believes
<1> QED
  BY <1>2, <1>3, <1>4, <1>5, <1>6 DEF IInv

LEMMA ReadRefusalIInv == ASSUME IInv, ReadRefusal PROVE IInv'
<1>1. /\ pc = "busy" /\ Fail /\ ~status' /\ ~Switching /\ glitch' = glitch
      /\ UNCHANGED <<card, refused, config, status, written, good>> /\ tries' = 0 /\ source' = card
  BY DEF ReadRefusal, At, Switching, card_vars
<1>2. TypeOK'
  BY <1>1, Failed, Assigned DEF IInv, TypeOK
<1>3. Agree' /\ UserBetween' /\ RpmbInv' /\ StatusInv'
  BY <1>1, FailAreas DEF StatusInv
<1>4. InPlaceInv'
  BY <1>1, Failed, NothingStored DEF IInv
<1> QED
  BY <1>1, <1>2, <1>3, <1>4, FailAcks DEF IInv

LEMMA EraseIInv == ASSUME IInv, Erase PROVE IInv'
<1>1. /\ pc = "busy" /\ Step = "erase" /\ ~Switching /\ ~status /\ Continue /\ Store
      /\ UNCHANGED <<card, refused, config, status, glitch, early>> /\ tries' = 0
  BY DEF Erase, At, Step, Switching, card_vars, history
<1>2. /\ call' = call /\ step' \in 1..Len(Program[call.op]) /\ step \in Nat
      /\ pc' \in {"idle", "busy"} /\ result' \in {"none", "ok", "failed"} /\ err' = err
      /\ pc' = "busy" => step' = step + 1 /\ result' = result
      /\ pc' = "idle" => step = Len(Program[call.op])
  BY <1>1, Continued, Here DEF IInv
<1>3. written' \subseteq Areas \X Sectors /\ good' \subseteq written' /\ source' \in Areas
      /\ InPlaceInv'
  BY <1>1, <1>2, Stored
<1>4. TypeOK'
  BY <1>1, <1>2, <1>3, Assigned DEF IInv, TypeOK
<1>5. Agree' /\ UserBetween' /\ RpmbInv' /\ StatusInv'
  BY <1>1, ContinueAreas DEF StatusInv
<1>6. call.op \notin {"WriteBootPart", "RPMB_Write_Blk"}
  BY <1>1, OnlyThere DEF IInv
<1> QED
  BY <1>1, <1>2, <1>3, <1>4, <1>5, <1>6
     DEF IInv, ResultInv, BootWriteInv, RpmbWriteInv, AckedBootWrite, AckedRpmbWrite

LEMMA VerifyIInv == ASSUME IInv, Verify PROVE IInv'
<1>1. /\ pc = "busy" /\ Step = "verify" /\ ~Switching /\ ~status
      /\ UNCHANGED <<card, refused, config, status, written, good, source, glitch>>
      /\ tries' = 0
  BY DEF Verify, At, Step, Switching, card_vars, data
<1>2. CASE ~Matches /\ Fail
  <2>1. TypeOK'
    BY <1>1, <1>2, Failed, Assigned DEF IInv, TypeOK
  <2>2. Agree' /\ UserBetween' /\ RpmbInv' /\ StatusInv'
    BY <1>1, <1>2, FailAreas DEF StatusInv
  <2>3. InPlaceInv'
    BY <1>1, <1>2, Failed, NothingStored DEF IInv
  <2> QED
    BY <1>1, <1>2, <2>1, <2>2, <2>3, FailAcks DEF IInv
<1>3. CASE Matches /\ Continue /\ UNCHANGED early
  <2>1. TypeOK'
    BY <1>1, <1>3, Continued, Assigned DEF IInv, TypeOK
  <2>2. Agree' /\ UserBetween' /\ RpmbInv' /\ StatusInv'
    BY <1>1, <1>3, ContinueAreas DEF StatusInv
  <2>3. InPlaceInv'
    BY <1>1, <1>3, Continued, NothingStored DEF IInv
  <2>4. call.op = "WriteBootPart" /\ step = 3 /\ call.op \notin UserOps
    BY <1>1, OnlyThere, WriteSteps DEF IInv, UserOps
  <2>5. call' = call /\ pc' = "busy" /\ step' = 4 /\ result' = "none"
    <3>1. Len(Program[call.op]) = 5 /\ TypeOK /\ result = "none"
      BY <1>1, <2>4, WriteSteps DEF IInv, ResultInv
    <3> QED
      BY <1>1, <1>3, <2>4, <3>1, Continued
  <2>6. call.from = 0 => Compared = RangeOf(call)
    <3>1. call.from = 0 => \A s \in RangeOf(call) : s < call.cnt
      BY CallParts, SectorsAssumption DEF IInv, TypeOK, RangeOf, Calls
    <3> QED
      BY <3>1 DEF Compared
  <2>7. ~glitch => card = call.area
    BY <1>1, <2>4, Located
  <2>8. BootWriteInv'
    BY <1>1, <1>3, <2>5, <2>6, <2>7 DEF BootWriteInv, Matches, RangeOf
  <2>9. ResultInv' /\ RpmbWriteInv' /\ AckedBootWrite' /\ AckedRpmbWrite'
    BY <2>4, <2>5 DEF ResultInv, RpmbWriteInv, AckedBootWrite, AckedRpmbWrite
  <2> QED
    BY <2>1, <2>2, <2>3, <2>8, <2>9 DEF IInv
<1> QED
  BY <1>2, <1>3 DEF Verify

LEMMA RepeatIInv == ASSUME IInv, Repeat PROVE IInv'
<1>1. /\ pc = "busy" /\ tries < MaxRepeats /\ tries' = tries + 1
      /\ card' = config /\ refused' = FALSE
      /\ glitch' = (glitch \/ (status /\ Switching))
      /\ UNCHANGED <<config, pc, call, step, status, err, result, early>>
  BY DEF Repeat, MayRepeat, Counted, Reset
<1>2. Changing => ~Switching /\ Step \in {"write", "erase", "ask"}
  BY DEF Changing, Switching, Step
<1>3. /\ written' \subseteq Areas \X Sectors /\ good' \subseteq written' /\ source' \in Areas
      /\ InPlaceInv'
      /\ good' = good \/ Step \in {"write", "erase", "ask"}
  <2>1. CASE Changing /\ Store
    BY <1>1, <1>2, <2>1, Stored
  <2>2. CASE UNCHANGED data
    BY <1>1, <2>2, NothingStored DEF data, IInv, TypeOK
  <2> QED
    BY <2>1, <2>2 DEF Repeat
<1>4. tries' \in 0..MaxRepeats /\ glitch' \in BOOLEAN
  BY <1>1, MaxRepeatsAssumption DEF IInv, TypeOK
<1>5. TypeOK'
  BY <1>1, <1>3, <1>4 DEF IInv, TypeOK
<1>6. Agree' /\ UserBetween' /\ RpmbInv' /\ StatusInv'
  BY <1>1 DEF IInv, Agree, UserBetween, RpmbInv, StatusInv, Selected, Switching, Step
<1>7. glitch => glitch'
  BY <1>1
<1> QED
  BY <1>1, <1>3, <1>5, <1>6, <1>7, StayAcks DEF IInv

LEMMA DieIInv == ASSUME IInv, Die PROVE IInv'
<1>1. pc = "busy" /\ pc' = "dead" /\ result = "none"
      /\ UNCHANGED <<card, refused, config, call, step, status, tries, err, written, good,
                     source, result, glitch, early>>
  BY DEF Die, card_vars, data, history, IInv, ResultInv
<1> QED
  BY <1>1 DEF IInv, TypeOK, ResultInv, StatusInv, Agree, UserBetween, InPlaceInv,
       InPlace,
     RpmbInv, Selected, BootWriteInv, RpmbWriteInv, AckedBootWrite, AckedRpmbWrite

LEMMA PowerCycleIInv == ASSUME IInv, PowerCycle PROVE IInv'
<1>1. TypeOK'
  BY Assigned DEF PowerCycle, IInv, TypeOK
<1> QED
  BY <1>1 DEF PowerCycle, IInv, ResultInv, StatusInv, Agree, UserBetween,
       InPlaceInv, InPlace,
     RpmbInv, Selected, BootWriteInv, RpmbWriteInv, AckedBootWrite, AckedRpmbWrite

LEMMA StutterIInv == ASSUME IInv, UNCHANGED vars PROVE IInv'
  BY DEF IInv, vars, card_vars, data, history, TypeOK, ResultInv, StatusInv, Agree,
     UserBetween, InPlaceInv, InPlace, RpmbInv, Selected, BootWriteInv, RpmbWriteInv,
     AckedBootWrite, AckedRpmbWrite, Switching, Asked, Step, RangeOf

LEMMA StepIInv == ASSUME IInv, [Next]_vars PROVE IInv'
<1>1. CASE \E c \in Calls : Start(c)
  BY <1>1, StartIInv
<1>2. CASE Work
  BY <1>2, SwitchIInv, SetBootBusIInv, StatusOkIInv, StatusErrorIInv, WriteIInv,
     WriteBusyIInv, AskIInv, ReadIInv, ReadAnswerIInv, ReadRefusalIInv, EraseIInv,
     VerifyIInv, RepeatIInv, DieIInv DEF Work
<1> QED
  BY <1>1, <1>2, PowerCycleIInv, StutterIInv DEF Next

LEMMA Invariance == Spec => []IInv
  BY InitIInv, StepIInv, PTL DEF Spec
-----------------------------------------------------------------------------
(***************************************************************************)
(* Theorems                                                                *)
(***************************************************************************)

\* Every variable stays in its range: in particular no command is repeated more
\* than MaxRepeats times and a call stays within its program.
THEOREM TypeCorrect == Spec => []TypeOK
<1>1. IInv => TypeOK
  BY DEF IInv
<1> QED
  BY <1>1, Invariance, PTL

\* The resets between repeated commands never move a call to another area.
THEOREM ResetsAreHarmless == Spec => []ResetsKeepArea
<1>1. IInv => ResetsKeepArea
  BY DEF IInv, InPlaceInv, ResetsKeepArea
<1> QED
  BY <1>1, Invariance, PTL

\* A verified write of a boot partition is in the partition it names, although
\* earlier calls may have left another one selected.
THEOREM BootWritesAreThere == Spec => []AckedBootWrite
<1>1. IInv => AckedBootWrite
  BY DEF IInv
<1> QED
  BY <1>1, Invariance, PTL

\* A write of RPMB that is reported done was made by the RPMB partition.
THEOREM RpmbWritesAreThere == Spec => []AckedRpmbWrite
<1>1. IInv => AckedRpmbWrite
  BY DEF IInv
<1> QED
  BY <1>1, Invariance, PTL

\* No error path of an RPMB call returns with the RPMB partition recorded.
THEOREM RpmbIsReleased == Spec => []RpmbReleased
<1>1. IInv => RpmbReleased
  BY DEF IInv, RpmbInv, RpmbReleased
<1> QED
  BY <1>1, Invariance, PTL
=============================================================================
