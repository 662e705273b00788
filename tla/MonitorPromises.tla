--------------------------- MODULE MonitorPromises ---------------------------
(***************************************************************************)
(* What the documentation says of acknowledgements, held against Monitor.  *)
(* A history variable remembers which acked faults have stood without a    *)
(* break.                                                                  *)
(***************************************************************************)
EXTENDS Monitor

VARIABLE
    standing    \* acked pairs whose fault has been on the enrolled host in every
                \* state since the ack was written

pvars == <<vars, standing>>

Faulty(h, k) == h \in registry /\ k \in SubKeys /\ fault[h][k] # NoText

PInit == Init /\ standing = {}

PNext ==
    /\ Next
    /\ standing' = {pk \in standing \cup (acks' \ acks) : pk \in acks' /\ Faulty(pk[1], pk[2])'}

PSpec == PInit /\ [][PNext]_pvars

\* The acks without `until` that a monitor cycle removes.
PrunedForever == IF MonitorStep THEN {pk \in acks \ acks' : left[pk] = Forever} ELSE {}

\* monitoring.py: "An ack without `until` lasts until the condition clears".  A
\* cycle prunes no such ack of a fault that has been on the host ever since it was
\* acked, whether the snapshot is older than the fault or an outage or a pause
\* hides it.
AckLastsUntilClear == [][PrunedForever \cap standing = {}]_pvars
=============================================================================
