------------------------------ MODULE HtcTxAbs ------------------------------
(***************************************************************************)
(* What the HTC transmit path promises the layer above and the target:     *)
(* each endpoint is a FIFO; a packet reaches the HIF at most once, in the  *)
(* order accepted, and only when the data credits it costs fit into what   *)
(* the target can hold; every accepted packet is handed back exactly once, *)
(* after its transmission, or without it when the HIF refused a run of     *)
(* packets at the head or a flush emptied the tail.                        *)
(***************************************************************************)
EXTENDS Integers, Sequences

CONSTANTS
  Packets, Eps,
  CtrlEp,     \* the endpoint whose packets do not draw on the data credits
  PktEp,      \* packet -> endpoint
  Cost,       \* packet -> data credits it occupies at the target
  Capacity    \* data credits the target can hold

VARIABLES
  pend,       \* endpoint -> packets accepted and not yet with the HIF
  out,        \* packets with the HIF
  committed   \* data credits the target holds

vars == <<pend, out, committed>>

Init ==
  /\ pend = [e \in Eps |-> <<>>]
  /\ out = {}
  /\ committed = 0

Accept(p) ==
  /\ p \notin out
  /\ \A e \in Eps : \A i \in 1..Len(pend[e]) : pend[e][i] # p
  /\ pend' = [pend EXCEPT ![PktEp[p]] = Append(@, p)]
  /\ UNCHANGED <<out, committed>>

Submit(e) ==
  /\ pend[e] # <<>>
  /\ out' = out \cup {Head(pend[e])}
  /\ pend' = [pend EXCEPT ![e] = Tail(@)]
  /\ IF e = CtrlEp THEN UNCHANGED committed
     ELSE /\ committed' = committed + Cost[Head(pend[e])]
          /\ committed' <= Capacity

\* The HIF refuses the head; it and the packets taken with it are handed back.
Refuse(e, k) ==
  /\ k \in 1..Len(pend[e])
  /\ pend' = [pend EXCEPT ![e] = SubSeq(@, k + 1, Len(@))]
  /\ UNCHANGED <<out, committed>>

\* A flush hands back what follows the first k packets.
Flush(e, k) ==
  /\ k \in 0..Len(pend[e]) - 1
  /\ pend' = [pend EXCEPT ![e] = SubSeq(@, 1, k)]
  /\ UNCHANGED <<out, committed>>

Complete(p) ==
  /\ p \in out
  /\ out' = out \ {p}
  /\ UNCHANGED <<pend, committed>>

Report(n) ==
  /\ n \in 1..committed
  /\ committed' = committed - n
  /\ UNCHANGED <<pend, out>>

Next ==
  \/ \E p \in Packets : Accept(p) \/ Complete(p)
  \/ \E e \in Eps : Submit(e)
  \/ \E e \in Eps : \E k \in 0..Len(pend[e]) : Refuse(e, k) \/ Flush(e, k)
  \/ \E n \in 1..Capacity : Report(n)

Spec == Init /\ [][Next]_vars
=============================================================================
