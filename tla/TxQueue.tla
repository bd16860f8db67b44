------------------------------ MODULE TxQueue ------------------------------
(***************************************************************************)
(* What a transmit queue promises the stack, independent of rings,        *)
(* colours and doorbells: an skb handed to the driver is either dropped   *)
(* or queued for the device; queued skbs are released (sent and freed) in *)
(* the order they were queued, possibly several at once; and the driver   *)
(* never owns the same skb twice.                                          *)
(***************************************************************************)
EXTENDS Sequences, SequencesExt

CONSTANTS
  Pkts,   \* skb identities
  None    \* no skb in hand

VARIABLES
  queue,  \* skbs queued for the device, oldest first
  hand    \* the skb the transmit path is working on, or None

vars == <<queue, hand>>

TypeOK == queue \in Seq(Pkts) /\ hand \in Pkts \cup {None}

Init == queue = <<>> /\ hand = None

\* The stack hands over an skb the driver does not own.
Accept(p) ==
  /\ hand = None /\ p \notin ToSet(queue)
  /\ hand' = p /\ UNCHANGED queue

\* The skb in hand is posted for the device.
Enqueue ==
  /\ hand # None
  /\ queue' = Append(queue, hand) /\ hand' = None

\* The skb in hand is dropped and freed.
Drop ==
  /\ hand # None
  /\ hand' = None /\ UNCHANGED queue

\* The k oldest queued skbs are released together.
Release(k) ==
  /\ k \in 1 .. Len(queue)
  /\ queue' = SubSeq(queue, k + 1, Len(queue)) /\ UNCHANGED hand

Next ==
  \/ \E p \in Pkts : Accept(p)
  \/ Enqueue \/ Drop
  \/ \E k \in 1 .. Len(queue) : Release(k)

Spec == Init /\ [][Next]_vars

=============================================================================
