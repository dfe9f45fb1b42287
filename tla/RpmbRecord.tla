----------------------------- MODULE RpmbRecord ------------------------------
(***************************************************************************)
(* What lib/libavb_ab_uboot/avb_ops_uboot.c relies on: one record, which   *)
(* ubootRpmbReadData() and ubootRpmbWriteData() of avb_rpmb.c read and     *)
(* replace.  A write takes effect at once or not at all; if it is reported *)
(* done, it has; if it fails, or power is cut, it may have.                *)
(***************************************************************************)
CONSTANTS Records, NoRecord

VARIABLES
  record,
  want,    \* the record being written, or NoRecord
  done,    \* whether that write has taken effect
  result,  \* of the last call: none while it runs and after a power loss
  value    \* what the last call read, NoRecord after any other

vars == <<record, want, done, result, value>>

Init ==
  /\ record \in Records /\ want = NoRecord /\ done = FALSE
  /\ result = "none" /\ value = NoRecord

Start ==
  /\ want = NoRecord /\ want' \in Records
  /\ done' = FALSE /\ result' = "none" /\ value' = NoRecord
  /\ UNCHANGED record

Effect ==
  /\ want # NoRecord /\ ~done
  /\ record' = want /\ done' = TRUE
  /\ UNCHANGED <<want, result, value>>

Ends(r) ==
  /\ want' = NoRecord /\ done' = FALSE /\ result' = r /\ value' = NoRecord
  /\ UNCHANGED record

Succeed == want # NoRecord /\ done /\ Ends("ok")
Fail == want # NoRecord /\ Ends("failed")
PowerLoss == Ends("none")

Read ==
  /\ want = NoRecord
  /\ \/ result' = "ok" /\ value' = record
     \/ result' = "failed" /\ value' = NoRecord
  /\ UNCHANGED <<record, want, done>>

Next == Start \/ Effect \/ Succeed \/ Fail \/ PowerLoss \/ Read
Spec == Init /\ [][Next]_vars
=============================================================================
