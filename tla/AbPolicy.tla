------------------------------ MODULE AbPolicy ------------------------------
(***************************************************************************)
(* What the A/B boot promises, without its I/O: the slots have a status,   *)
(* a boot first charges the slot it is going to hand over to, possibly     *)
(* after giving up the preferred one, and only a charged slot runs.  The   *)
(* metadata may be lost at any time, which starts both slots afresh, and   *)
(* the storage may drop the charge without a word: the one way in which a  *)
(* slot runs without a stored charge.                                      *)
(***************************************************************************)
EXTENDS AbData

CONSTANT None   \* no slot

VARIABLES
  meta,      \* the normalised metadata
  charged,   \* the slot a boot attempt was charged to, before it starts
  dropped,   \* the storage dropped that charge
  running    \* the slot the OS runs from

policyVars == <<meta, charged, dropped, running>>

Init ==
  /\ meta = avb_ab_data_init
  /\ charged = None /\ dropped = FALSE /\ running = None

\* Metadata lost; the device may have lost power with it.
Lose ==
  /\ meta' = avb_ab_data_init
  /\ charged' = None /\ dropped' = FALSE
  /\ running' \in {running, None}

\* The metadata once the slots a boot tried and rejected are given up: none,
\* the preferred one, or both.
AfterRejecting ==
  LET first == IF Bootables(meta) = {} THEN meta
               ELSE Disable(meta, ActiveSlot(meta))
      both == IF Bootables(first) = {} THEN first
              ELSE Disable(first, ActiveSlot(first))
  IN {meta, first, both}

\* A boot charges the best slot it did not reject.  It may fail to report
\* the charge, and then nothing runs.
Charge ==
  /\ running = None
  /\ \E d \in AfterRejecting :
       /\ Bootables(d) # {}
       /\ meta' = Normalize(SpendTry(d, ActiveSlot(d)))
       /\ charged' \in {ActiveSlot(d), None}
  /\ dropped' = FALSE
  /\ UNCHANGED running

\* The charge is believed stored and is not: what is stored stays as it was, or
\* is lost with it.
ChargeLost ==
  /\ running = None
  /\ \E d \in AfterRejecting :
       /\ Bootables(d) # {}
       /\ charged' = ActiveSlot(d)
  /\ dropped' = TRUE
  /\ meta' \in {meta, avb_ab_data_init}
  /\ UNCHANGED running

\* A boot ends without a slot to run.
GiveUp ==
  /\ running = None
  /\ meta' \in AfterRejecting
  /\ charged' = None /\ dropped' = FALSE
  /\ UNCHANGED running

HandOver ==
  /\ charged # None
  /\ running' = charged
  /\ charged' = None /\ dropped' = FALSE
  /\ UNCHANGED meta

PowerOff ==
  /\ charged' = None /\ dropped' = FALSE /\ running' = None
  /\ UNCHANGED meta

\* A change by the running OS, which may lose power right after it.
OsChange(d) ==
  /\ meta' = d
  /\ running' \in {running, None}
  /\ UNCHANGED <<charged, dropped>>

Activate(s) == charged = None /\ OsChange(MarkActive(meta, s))
Retire(s) == running = Other(s) /\ OsChange(Disable(meta, s))
Confirm == running # None /\ OsChange(MarkSuccessful(meta, running))

Next ==
  \/ Lose \/ Charge \/ ChargeLost \/ GiveUp \/ HandOver \/ PowerOff \/ Confirm
  \/ \E s \in Slots : Activate(s) \/ Retire(s)

Spec == Init /\ [][Next]_policyVars
=============================================================================
