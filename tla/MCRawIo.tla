------------------------------- MODULE MCRawIo -------------------------------
EXTENDS RawIo

\* Two neighbouring partitions of two sectors and one, two bytes a sector.
MCStart == [p \in Partitions |-> IF p = "misc" THEN 0 ELSE 2]
MCSize == [p \in Partitions |-> IF p = "misc" THEN 2 ELSE 1]

\* An image of one sector, two with a hole, one that is longer than it says.
MCHeaders ==
  {[total |-> 1, raw |-> {0}], [total |-> 2, raw |-> {1}], [total |-> 1, raw |-> {0, 2}]}

\* No step depends on the call that the history variable records.
MCView == <<disk, part, stack>>
=============================================================================
