----------------------------- MODULE SlotVerify -----------------------------
(***************************************************************************)
(* avb_slot_verify() of lib/libavb as its callers see it: the verdict on   *)
(* the images of a slot (or of the whole device in the build without A/B), *)
(* given the RAM copy of the RPMB record.  Hashes, signatures and keys are *)
(* abstracted to whether they are right.                                   *)
(***************************************************************************)
EXTENDS Rpmb

(* The state of the images, as far as avb_slot_verify() can tell: they      *)
(* verify, they fail a hash, signature or key check, or the vbmeta header   *)
(* is not usable at all.                                                    *)
ImageStates == {"good", "unverified", "invalid"}
Images == [state : ImageStates, index : [Locations -> Indexes]]

\* Mutant: only the first location is compared.
Behind_First(im) == im.index[0] < CachedIndex(0)

\* Some stored index, as the RAM copy has it, is above the image's.
Behind(im) == \E k \in Locations : im.index[k] < CachedIndex(k)

\* The verdicts, the three recoverable errors as one; "IO" has its own place.
Verdicts == {"OK", "REJECTED", "INVALID"}

\* Mutant: an index that cannot be read is not an error.
CanReport_IgnoresUnreadIndex(im, allow_error, r) ==
  \/ r = "IO"
  \/ r = "INVALID" /\ im.state = "invalid"
  \/ /\ r = "REJECTED"
     /\ im.state = "unverified" \/ (im.state = "good" /\ support /\ Behind(im))
  \/ r = "OK" /\ im.state = "good" /\ ~(support /\ Behind(im))

\* The verdicts it may give, in its order of checks: header, signature and
\* key, stored index, hashes.  Any I/O may fail; with allow_error the checks
\* go on after the signature and so come to read the stored index.
CanReport(im, allow_error, r) ==
  \/ r = "IO"
  \/ r = "INVALID" /\ im.state = "invalid"
  \/ /\ r = "REJECTED"
     /\ \/ im.state = "unverified" /\ (support \/ ~allow_error)
        \/ im.state = "good" /\ support /\ Behind(im)
  \/ r = "OK" /\ im.state = "good" /\ support /\ ~Behind(im)

\* The verdicts with which the slot data is handed out.
HandsOut(r, allow_error) == r = "OK" \/ (r = "REJECTED" /\ allow_error)
=============================================================================
