--------------------------- MODULE PacketDelivery ---------------------------
(***************************************************************************)
(* What the hook spool promises to those who put packets in it: a packet   *)
(* that was sent is delivered to the ledger at least once before it is     *)
(* settled, a malformed packet is never delivered, and a packet that was   *)
(* settled or rejected stays so.  (A packet that a retry could not read is *)
(* rejected with part of it delivered; the packets of its session may      *)
(* deliver the rest.)                                                      *)
(***************************************************************************)
CONSTANTS Packets,
          Malformed  \* the packets that do not parse

VARIABLES stage,     \* "unsent", "pending", "settled" or "rejected"
          delivered  \* the packets whose observation is in the ledger

Init ==
  /\ stage = [f \in Packets |-> "unsent"]
  /\ delivered = {}

Move(f, from, to) ==
  /\ stage[f] = from
  /\ stage' = [stage EXCEPT ![f] = to]
  /\ UNCHANGED delivered

Send(f) == Move(f, "unsent", "pending")

\* One write may complete what several packets say.
Deliver(batch) ==
  /\ batch # {}
  /\ \A f \in batch : stage[f] \in {"pending", "rejected"} /\ f \notin Malformed
  /\ delivered' = delivered \cup batch
  /\ UNCHANGED stage

Settle(f) == f \in delivered /\ Move(f, "pending", "settled")

Reject(f) == Move(f, "pending", "rejected")

Next ==
  \/ \E f \in Packets : Send(f) \/ Settle(f) \/ Reject(f)
  \/ \E batch \in SUBSET Packets : Deliver(batch)

Spec == Init /\ [][Next]_<<stage, delivered>>
=============================================================================
