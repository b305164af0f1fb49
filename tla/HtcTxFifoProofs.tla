-------------------------- MODULE HtcTxFifoProofs --------------------------
(***************************************************************************)
(* The HTC transmit path implements HtcTxAbs, per-endpoint FIFO queues     *)
(* with bounded credit, for every number of threads, packets, endpoints    *)
(* and credits.                                                            *)
(***************************************************************************)
EXTENDS HtcTxOwnProofs

\* What a packet costs at the target.
CostOf(p) == IF CreditFlow THEN CreditsRequired(p) ELSE 0

\* What a drainer took off a queue is paid for, and a caller brings at most one
\* packet to htc_try_send.
PaidOf(t) ==
  /\ pc[t] \in DrainPCs => \A q \in Range(send_queue[t]) : cred_used[q] = CostOf(q)
  /\ pc[t] = "submit" => cred_used[packet[t]] = CostOf(packet[t])
  /\ pc[t] \in {"read", "enter"} => send_queue[t] = <<>> \/ \E p \in Packets : send_queue[t] = <<p>>

Paid == \A t \in Threads : PaidOf(t)

FifoInv == TypeInv /\ SingleDrainer /\ NoOvercommit /\ OwnInv /\ Paid

LEMMA InitAbs == Init => Abs!Init
<1> SUFFICES ASSUME Init PROVE Abs!Init
  OBVIOUS
<1>1. \A e \in Eps : Pending(e) = <<>>
  BY DEF Init, Pending, Draining
<1> QED BY <1>1 DEF Init, Abs!Init

-----------------------------------------------------------------------------
(* Pending *)

LEMMA PendingIs ==
  ASSUME SingleDrainer, NEW e \in Eps
  PROVE  /\ \A t \in Threads : Draining(t, e) => Pending(e) = InHand(t) \o txq[e]
         /\ (\A t \in Threads : ~Draining(t, e)) => Pending(e) = txq[e]
BY DEF SingleDrainer, Pending

LEMMA PendingNext ==
  ASSUME SingleDrainer', NEW e \in Eps
  PROVE  /\ \A t \in Threads : Draining(t, e)' => Pending(e)' = InHand(t)' \o txq'[e]
         /\ (\A t \in Threads : ~Draining(t, e)') => Pending(e)' = txq'[e]
BY DEF SingleDrainer, Pending

\* A step of thread t that works on endpoint e.
Works(t, e) ==
  /\ \A u \in Threads \ {t} : /\ pc'[u] = pc[u] /\ ep'[u] = ep[u]
                              /\ packet'[u] = packet[u] /\ send_queue'[u] = send_queue[u]
  /\ \A d \in Eps \ {e} : txq'[d] = txq[d] /\ ~Draining(t, d) /\ ~Draining(t, d)'

LEMMA PendingOther ==
  ASSUME SingleDrainer, SingleDrainer', NEW t \in Threads, NEW e \in Eps, Works(t, e),
         NEW d \in Eps \ {e}
  PROVE  Pending(d)' = Pending(d)
<1>1. \A u \in Threads : Draining(u, d)' <=> Draining(u, d)
  BY DEF Works, Draining
<1>2. CASE \E u \in Threads : Draining(u, d)
  <2>1. PICK u \in Threads : Draining(u, d)
    BY <1>2
  <2>2. u # t /\ Draining(u, d)'
    BY <1>1, <2>1 DEF Works
  <2>3. InHand(u)' = InHand(u) /\ txq'[d] = txq[d]
    BY <2>2 DEF Works, InHand
  <2> QED BY <2>1, <2>2, <2>3, PendingIs, PendingNext
<1>3. CASE \A u \in Threads : ~Draining(u, d)
  BY <1>1, <1>3, PendingIs, PendingNext DEF Works
<1> QED BY <1>2, <1>3

Pend == [e \in Eps |-> Pending(e)]

\* The queue of e becomes s, the others stay.
LEMMA PendUpdate ==
  ASSUME SingleDrainer, SingleDrainer', NEW t \in Threads, NEW e \in Eps, Works(t, e),
         NEW s, Pending(e)' = s
  PROVE  Pend' = [Pend EXCEPT ![e] = s]
BY PendingOther DEF Pend

LEMMA PendSame ==
  ASSUME SingleDrainer, SingleDrainer', NEW t \in Threads, NEW e \in Eps, Works(t, e),
         Pending(e)' = Pending(e)
  PROVE  Pend' = Pend
BY PendingOther DEF Pend

-----------------------------------------------------------------------------
(* The steps of the abstract specification *)

LEMMA Stutters ==
  ASSUME Pend' = Pend, UNCHANGED <<bus, io_comp_queue, tgt_data>>
  PROVE  [Abs!Next]_(Abs!vars)
BY DEF Abs!vars, Pend

\* Completion of an URB: the HIF keeps the packet.
LEMMA StuttersHif ==
  ASSUME Pend' = Pend, bus' \cup io_comp_queue' = bus \cup io_comp_queue, UNCHANGED tgt_data
  PROVE  [Abs!Next]_(Abs!vars)
BY DEF Abs!vars, Pend

LEMMA Accepts ==
  ASSUME NEW p \in Packets, p \notin bus \cup io_comp_queue,
         \A e \in Eps : \A i \in 1..Len(Pend[e]) : Pend[e][i] # p,
         Pend' = [Pend EXCEPT ![PktEp[p]] = Append(@, p)],
         UNCHANGED <<bus, io_comp_queue, tgt_data>>
  PROVE  [Abs!Next]_(Abs!vars)
<1>1. Abs!Accept(p)
  BY DEF Abs!Accept, Pend
<1> QED BY <1>1 DEF Abs!Next

LEMMA Submits ==
  ASSUME NEW e \in Eps, Pend[e] # <<>>, Head(Pend[e]) \in Packets,
         bus' \cup io_comp_queue' = bus \cup io_comp_queue \cup {Head(Pend[e])},
         Pend' = [Pend EXCEPT ![e] = Tail(@)],
         IF e = CtrlEp THEN UNCHANGED tgt_data
         ELSE /\ tgt_data' = tgt_data + CostOf(Head(Pend[e]))
              /\ tgt_data' <= TgtCreds - 1
  PROVE  [Abs!Next]_(Abs!vars)
<1>1. Abs!Submit(e)
  BY DEF Abs!Submit, Pend, CostOf
<1> QED BY <1>1 DEF Abs!Next

LEMMA Refuses ==
  ASSUME NEW e \in Eps, NEW k \in 1..Len(Pend[e]),
         Pend' = [Pend EXCEPT ![e] = SubSeq(@, k + 1, Len(@))],
         UNCHANGED <<bus, io_comp_queue, tgt_data>>
  PROVE  [Abs!Next]_(Abs!vars)
<1>1. Abs!Refuse(e, k)
  BY DEF Abs!Refuse, Pend
<1>2. k \in 0..Len(Pend[e])
  OBVIOUS
<1> QED BY <1>1, <1>2 DEF Abs!Next, Pend

LEMMA Flushes ==
  ASSUME NEW e \in Eps, NEW k \in 0..Len(Pend[e]) - 1,
         Pend' = [Pend EXCEPT ![e] = SubSeq(@, 1, k)],
         UNCHANGED <<bus, io_comp_queue, tgt_data>>
  PROVE  [Abs!Next]_(Abs!vars)
<1>1. Abs!Flush(e, k)
  BY DEF Abs!Flush, Pend
<1>2. k \in 0..Len(Pend[e])
  OBVIOUS
<1> QED BY <1>1, <1>2 DEF Abs!Next, Pend

LEMMA Completes ==
  ASSUME NEW p \in Packets, p \in bus \cup io_comp_queue,
         bus' \cup io_comp_queue' = (bus \cup io_comp_queue) \ {p},
         Pend' = Pend, UNCHANGED tgt_data
  PROVE  [Abs!Next]_(Abs!vars)
<1>1. Abs!Complete(p)
  BY DEF Abs!Complete, Pend
<1> QED BY <1>1 DEF Abs!Next

LEMMA Reports ==
  ASSUME NEW n \in 1..tgt_data, n \in 1..(TgtCreds - 1), tgt_data' = tgt_data - n,
         Pend' = Pend, UNCHANGED <<bus, io_comp_queue>>
  PROVE  [Abs!Next]_(Abs!vars)
<1>1. Abs!Report(n)
  BY DEF Abs!Report, Pend
<1> QED BY <1>1 DEF Abs!Next

-----------------------------------------------------------------------------
(* Paid *)

\* Packets in hand of t are not in hand of u, nor on a queue.
LEMMA Apart ==
  ASSUME OwnInv, NEW t \in Threads, NEW u \in Threads, t # u
  PROVE  /\ Range(send_queue[t]) \cap Range(send_queue[u]) = {}
         /\ packet[t] \in Packets => packet[t] \notin Range(send_queue[u])
         /\ packet[t] \in Packets => packet[t] # packet[u]
         /\ \A e \in Eps : /\ Range(txq[e]) \cap Range(send_queue[t]) = {}
                           /\ packet[t] \in Packets => packet[t] \notin Range(txq[e])
<1>1. NoPkt \notin Packets
  BY ConstantsOK DEF ConstantsOK
<1>2. /\ {HandOf(t), HandOf(u), SendOf(t), SendOf(u)} \subseteq Spots
      /\ HandOf(t) # HandOf(u) /\ SendOf(t) # SendOf(u) /\ HandOf(t) # SendOf(u)
      /\ \A e \in Eps : TxqOf(e) \in Spots /\ TxqOf(e) # SendOf(t) /\ TxqOf(e) # HandOf(t)
  BY DEF Spots, HandOf, SendOf, TxqOf
<1>3. /\ Here(HandOf(t)) \cap Here(HandOf(u)) = {} /\ Here(SendOf(t)) \cap Here(SendOf(u)) = {}
      /\ Here(HandOf(t)) \cap Here(SendOf(u)) = {}
      /\ \A e \in Eps : /\ Here(TxqOf(e)) \cap Here(SendOf(t)) = {}
                        /\ Here(TxqOf(e)) \cap Here(HandOf(t)) = {}
  BY <1>2 DEF OwnInv, OneSpot
<1> QED BY <1>1, <1>3, HereIs

LEMMA ApartSelf ==
  ASSUME OwnInv, NEW t \in Threads
  PROVE  /\ packet[t] \in Packets => packet[t] \notin Range(send_queue[t])
         /\ \A e \in Eps : Range(txq[e]) \cap Range(send_queue[t]) = {}
<1>1. NoPkt \notin Packets
  BY ConstantsOK DEF ConstantsOK
<1>2. /\ {HandOf(t), SendOf(t)} \subseteq Spots /\ HandOf(t) # SendOf(t)
      /\ \A e \in Eps : TxqOf(e) \in Spots /\ TxqOf(e) # SendOf(t)
  BY DEF Spots, HandOf, SendOf, TxqOf
<1>3. /\ Here(HandOf(t)) \cap Here(SendOf(t)) = {}
      /\ \A e \in Eps : Here(TxqOf(e)) \cap Here(SendOf(t)) = {}
  BY <1>2 DEF OwnInv, OneSpot
<1> QED BY <1>1, <1>3, HereIs

LEMMA PaidFrame ==
  ASSUME Paid, NEW t \in Threads, PaidOf(t)',
         \A u \in Threads \ {t} :
           /\ pc'[u] = pc[u] /\ packet'[u] = packet[u] /\ send_queue'[u] = send_queue[u]
           /\ \A q \in Range(send_queue[u]) : cred_used'[q] = cred_used[q]
           /\ pc[u] = "submit" => cred_used'[packet[u]] = cred_used[packet[u]]
  PROVE  Paid'
BY DEF Paid, PaidOf, CostOf, CreditsRequired

\* A step that touches no credits and leaves t's packets where they are.
LEMMA PaidUntouched ==
  ASSUME Paid, TypeInv, NEW t \in Threads, NEW l, pc' = [pc EXCEPT ![t] = l],
         UNCHANGED <<packet, send_queue, cred_used>>,
         \/ l \in DrainPCs \ {"submit"} /\ pc[t] \in DrainPCs
         \/ l \in DrainPCs \ {"submit"} /\ send_queue[t] = <<>>
         \/ l \in {"read", "enter"} /\ (pc[t] \in {"read", "enter"} \/ send_queue[t] = <<>>)
         \/ l \notin DrainPCs \cup {"read", "enter"}
  PROVE  Paid'
<1>1. pc'[t] = l /\ \A u \in Threads \ {t} : pc'[u] = pc[u]
  BY DEF TypeInv, TypeOK, TypeControl
<1>2. PaidOf(t)
  BY DEF Paid
<1>3. PaidOf(t)'
  BY <1>1, <1>2, EmptyRange DEF PaidOf, CostOf, CreditsRequired, DrainPCs
<1> QED BY <1>1, <1>3, PaidFrame

LEMMA SendPaid ==
  ASSUME FifoInv, NEW t \in Threads, NEW p \in Packets, Send(t, p)
  PROVE  Paid'
<1>1. /\ pc'[t] \in {"schedq", "depth"} /\ UNCHANGED <<send_queue, cred_used>>
      /\ \A u \in Threads \ {t} : pc'[u] = pc[u] /\ packet'[u] = packet[u]
  BY DEF Send, lockVars, FifoInv, TypeInv, TypeOK, TypeControl, TypeLocals
<1>2. PaidOf(t)'
  BY <1>1 DEF PaidOf, DrainPCs
<1> QED BY <1>1, <1>2, PaidFrame DEF FifoInv

LEMMA LeavePaid ==
  ASSUME FifoInv, NEW t \in Threads, UNCHANGED cred_used, pc'[t] \in {"starve", "idle", "call"},
         \A u \in Threads \ {t} : /\ pc'[u] = pc[u] /\ packet'[u] = packet[u]
                                  /\ send_queue'[u] = send_queue[u]
  PROVE  Paid'
<1>1. PaidOf(t)'
  BY DEF PaidOf, DrainPCs
<1> QED BY <1>1, PaidFrame DEF FifoInv

LEMMA CheckDepthPaid ==
  ASSUME FifoInv, NEW t \in Threads, CheckDepth(t)
  PROVE  Paid'
<1> USE DEF FifoInv
<1>0. pc[t] = "depth" /\ UNCHANGED cred_used
      /\ packet' = [packet EXCEPT ![t] = NoPkt] /\ packet[t] \in Packets
  BY OwnTypes DEF CheckDepth, lockVars
<1>t. /\ pc \in [Threads -> PCs] /\ packet \in [Threads -> Packets \cup {NoPkt}]
      /\ send_queue \in [Threads -> Seq(Packets)]
  BY OwnTypes
<1>1. CASE Return(t, <<>>) /\ UNCHANGED send_queue
  <2>1. pc' = [pc EXCEPT ![t] = "idle"]
    BY <1>1 DEF Return
  <2> QED BY <1>0, <1>1, <1>t, <2>1, LeavePaid
<1>2. CASE /\ send_queue' = [send_queue EXCEPT ![t] = <<packet[t]>>]
           /\ pc' = [pc EXCEPT ![t] = ReadFirst("read", "enter")]
  <2>1. /\ pc'[t] \in {"read", "enter"} /\ send_queue'[t] = <<packet[t]>>
        /\ \A u \in Threads \ {t} : /\ pc'[u] = pc[u] /\ packet'[u] = packet[u]
                                    /\ send_queue'[u] = send_queue[u]
    BY <1>0, <1>2, <1>t DEF ReadFirst
  <2>2. PaidOf(t)'
    BY <1>0, <2>1 DEF PaidOf, DrainPCs
  <2> QED BY <1>0, <2>1, <2>2, PaidFrame
<1> QED BY <1>1, <1>2 DEF CheckDepth

LEMMA EnterPaid ==
  ASSUME FifoInv, NEW t \in Threads, Enter(t)
  PROVE  Paid'
<1> USE DEF FifoInv
<1>1. /\ pc' = [pc EXCEPT ![t] = pc'[t]] /\ pc'[t] \in {"get", "idle", "call"}
      /\ send_queue' = [send_queue EXCEPT ![t] = <<>>] /\ UNCHANGED <<packet, cred_used>>
  <2>1. pc \in [Threads -> PCs]
    BY OwnTypes
  <2>2. \E l \in {"get", "idle", "call"} : pc' = [pc EXCEPT ![t] = l]
    BY DEF Enter, Return
  <2> QED BY <2>1, <2>2 DEF Enter
<1>2. /\ send_queue'[t] = <<>>
      /\ \A u \in Threads \ {t} : pc'[u] = pc[u] /\ send_queue'[u] = send_queue[u]
  BY <1>1, OwnTypes
<1>3. PaidOf(t)'
  BY <1>1, <1>2, EmptyRange DEF PaidOf
<1> QED BY <1>1, <1>2, <1>3, PaidFrame

LEMMA GetPacketPaid ==
  ASSUME FifoInv, NEW t \in Threads, GetPacket(t)
  PROVE  Paid'
<1> USE DEF FifoInv
<1>a. PICK e \in Eps : e = ep[t]
  BY OwnTypes
<1>b. txq[e] # <<>> /\ txq[e] \in Seq(Packets) /\ Distinct(txq[e])
  BY <1>a, OwnTypes DEF GetPacket, CanTake
<1>c. PICK p \in Packets : p = Head(txq[e])
  BY <1>b
<1>d. p \in Range(txq[e])
  BY <1>b, <1>c, DistinctTail
<1>e. PICK r : r = Append(send_queue[t], p)
  OBVIOUS
<1>1. /\ pc[t] = "get" /\ UNCHANGED <<pc, packet>>
      /\ send_queue' = [send_queue EXCEPT ![t] = r]
      /\ cred_used' = [cred_used EXCEPT ![p] = CostOf(p)]
  BY <1>a, <1>c, <1>e DEF GetPacket, CostOf
<1>2. cred_used \in [Packets -> Nat] /\ send_queue \in [Threads -> Seq(Packets)]
  BY DEF TypeInv, TypeOK, TypeCredits, TypeLocals
<1>3. Range(r) = Range(send_queue[t]) \cup {p}
  BY <1>e, <1>2, RangeAppend
<1>4. cred_used'[p] = CostOf(p) /\ \A q \in Packets \ {p} : cred_used'[q] = cred_used[q]
  BY <1>1, <1>2
<1>5. PaidOf(t)'
  <2>1. \A q \in Range(send_queue[t]) : cred_used[q] = CostOf(q)
    BY <1>1 DEF Paid, PaidOf, DrainPCs
  <2>2. p \notin Range(send_queue[t]) /\ Range(send_queue[t]) \subseteq Packets
    BY <1>2, <1>d, ApartSelf, RangeType
  <2>3. send_queue'[t] = r
    BY <1>1, <1>2
  <2>4. \A q \in Range(r) : cred_used'[q] = CostOf(q)
    BY <1>3, <1>4, <2>1, <2>2
  <2> QED BY <1>1, <2>3, <2>4 DEF PaidOf, CostOf, CreditsRequired
<1>6. ASSUME NEW u \in Threads \ {t}
      PROVE  /\ \A q \in Range(send_queue[u]) : cred_used'[q] = cred_used[q]
             /\ pc[u] = "submit" => cred_used'[packet[u]] = cred_used[packet[u]]
  <2>1. p \notin Range(send_queue[u]) /\ Range(send_queue[u]) \subseteq Packets
    BY <1>2, <1>d, ApartSelf, RangeType
  <2>2. pc[u] = "submit" => packet[u] \in Packets
    BY OwnTypes
  <2>3. packet[u] \in Packets => packet[u] # p
    BY <1>d, Apart
  <2> QED BY <1>4, <2>1, <2>2, <2>3
<1>7. \A u \in Threads \ {t} : send_queue'[u] = send_queue[u]
  BY <1>1, <1>2
<1> QED BY <1>1, <1>5, <1>6, <1>7, PaidFrame

LEMMA FileLookupPaid ==
  ASSUME FifoInv, NEW t \in Threads, FileLookup(t)
  PROVE  Paid'
<1> USE DEF FifoInv
<1>a. /\ pc[t] = "issue" /\ send_queue[t] # <<>> /\ send_queue[t] \in Seq(Packets)
      /\ Distinct(send_queue[t])
  BY OwnTypes DEF FileLookup
<1>b. PICK p \in Packets : p = Head(send_queue[t])
  BY <1>a
<1>c. PICK q : q = Tail(send_queue[t])
  OBVIOUS
<1>1. /\ packet' = [packet EXCEPT ![t] = p]
      /\ send_queue' = [send_queue EXCEPT ![t] = q]
      /\ pc' = [pc EXCEPT ![t] = "submit"] /\ UNCHANGED cred_used
  BY <1>b, <1>c DEF FileLookup, lockVars
<1>2. p \in Range(send_queue[t]) /\ Range(q) = Range(send_queue[t]) \ {p}
  BY <1>a, <1>b, <1>c, DistinctTail
<1>3. /\ pc'[t] = "submit" /\ packet'[t] = p /\ send_queue'[t] = q
      /\ \A u \in Threads \ {t} : /\ pc'[u] = pc[u] /\ packet'[u] = packet[u]
                                  /\ send_queue'[u] = send_queue[u]
  BY <1>1, OwnTypes
<1>4. \A x \in Range(send_queue[t]) : cred_used[x] = CostOf(x)
  BY <1>a DEF Paid, PaidOf, DrainPCs
<1>5. PaidOf(t)'
  BY <1>1, <1>2, <1>3, <1>4 DEF PaidOf, CostOf, CreditsRequired
<1> QED BY <1>1, <1>3, <1>5, PaidFrame

LEMMA IssuePaid ==
  ASSUME FifoInv, NEW t \in Threads, IssueOk(t) \/ IssueFail(t)
  PROVE  Paid'
<1> USE DEF FifoInv
<1>a. pc[t] = "submit" /\ packet[t] \in Packets /\ send_queue[t] \in Seq(Packets)
  BY OwnTypes DEF IssueOk, IssueFail
<1>b. PICK p \in Packets : p = packet[t]
  BY <1>a
<1>c. PICK X : X = Range(send_queue[t])
  OBVIOUS
<1>1. ToSet(send_queue[t]) = X
  BY <1>a, <1>c, ToSetIsRange
<1>2. cred_used \in [Packets -> Nat]
  BY DEF TypeInv, TypeOK, TypeCredits
<1>3. /\ packet' = [packet EXCEPT ![t] = NoPkt]
      /\ \E l \in {"issue", "reread", "relock"} : pc' = [pc EXCEPT ![t] = l]
      /\ \/ /\ UNCHANGED send_queue
            /\ \A q \in Packets \ {p} : cred_used'[q] = cred_used[q]
         \/ /\ send_queue' = [send_queue EXCEPT ![t] = <<>>]
            /\ \A q \in Packets \ ({p} \cup X) : cred_used'[q] = cred_used[q]
  <2>1. CASE IssueOk(t)
    BY <1>a, <1>b, <1>2, <2>1 DEF IssueOk, IssueDone, ReadFirst
  <2>2. CASE IssueFail(t)
    BY <1>a, <1>b, <1>1, <1>2, <2>2 DEF IssueFail, IssueDone, ReadFirst, Failed
  <2> QED BY <2>1, <2>2
<1>4. /\ pc'[t] \in {"issue", "reread", "relock"}
      /\ \A u \in Threads \ {t} : /\ pc'[u] = pc[u] /\ packet'[u] = packet[u]
                                  /\ send_queue'[u] = send_queue[u]
  BY <1>3, OwnTypes
<1>5. PaidOf(t)'
  <2>1. \A q \in X : cred_used[q] = CostOf(q)
    BY <1>a, <1>c DEF Paid, PaidOf, DrainPCs
  <2>2. p \notin X /\ X \subseteq Packets
    BY <1>a, <1>b, <1>c, ApartSelf, RangeType
  <2>3. CASE send_queue' = [send_queue EXCEPT ![t] = <<>>]
    <3>1. send_queue'[t] = <<>>
      BY <2>3, OwnTypes
    <3> QED BY <1>4, <3>1, EmptyRange DEF PaidOf
  <2>4. CASE /\ UNCHANGED send_queue
             /\ \A q \in Packets \ {p} : cred_used'[q] = cred_used[q]
    <3>1. \A q \in X : cred_used'[q] = CostOf(q)
      BY <2>1, <2>2, <2>4
    <3> QED BY <1>c, <1>4, <2>4, <3>1 DEF PaidOf, CostOf, CreditsRequired
  <2> QED BY <1>3, <2>3, <2>4
<1>6. ASSUME NEW u \in Threads \ {t}
      PROVE  /\ \A q \in Range(send_queue[u]) : cred_used'[q] = cred_used[q]
             /\ pc[u] = "submit" => cred_used'[packet[u]] = cred_used[packet[u]]
  <2>1. Range(send_queue[u]) \subseteq Packets
    BY OwnTypes, RangeType
  <2>2. Range(send_queue[u]) \cap ({p} \cup X) = {}
    BY <1>b, <1>c, Apart
  <2>3. pc[u] = "submit" => packet[u] \in Packets
    BY OwnTypes
  <2>4. packet[u] \in Packets => packet[u] \notin {p} \cup X
    BY <1>b, <1>c, Apart
  <2> QED BY <1>3, <2>1, <2>2, <2>3, <2>4
<1> QED BY <1>4, <1>5, <1>6, PaidFrame

LEMMA InsidePaid ==
  ASSUME FifoInv, NEW t \in Threads, Inside(t)
  PROVE  Paid'
<1> USE DEF FifoInv
<1>t. /\ pc \in [Threads -> PCs] /\ packet \in [Threads -> Packets \cup {NoPkt}]
  BY OwnTypes
<1>1. CASE SchedQueue(t)
  <2>1. /\ UNCHANGED <<cred_used, send_queue>> /\ packet' = [packet EXCEPT ![t] = NoPkt]
        /\ \E l \in {"starve", "idle"} : pc' = [pc EXCEPT ![t] = l]
    BY <1>1 DEF SchedQueue, Return
  <2> QED BY <1>t, <2>1, LeavePaid
<1>2. CASE SetStarving(t)
  BY <1>2, <1>t, LeavePaid DEF SetStarving, Return
<1>3. CASE NextCall(t)
  <2>1. UNCHANGED <<cred_used, send_queue, packet>> /\ send_queue[t] = <<>>
    BY <1>3, OwnTypes DEF NextCall, lockVars
  <2>2. \E l \in {"read", "enter", "idle", "call"} : pc' = [pc EXCEPT ![t] = l]
    BY <1>3 DEF NextCall, Return, ReadFirst
  <2> QED BY <2>1, <2>2, PaidUntouched DEF DrainPCs
<1>4. CASE ReadResources(t)
  <2>1. UNCHANGED <<cred_used, send_queue, packet>>
    BY <1>4 DEF ReadResources, lockVars
  <2>2. \/ pc[t] = "read" /\ pc' = [pc EXCEPT ![t] = "enter"]
        \/ pc[t] = "reread" /\ pc' = [pc EXCEPT ![t] = "relock"]
    BY <1>4, <1>t DEF ReadResources
  <2> QED BY <2>1, <2>2, PaidUntouched DEF DrainPCs
<1>5. CASE GetDone(t)
  <2>1. UNCHANGED <<cred_used, send_queue, packet>> /\ pc[t] = "get"
    BY <1>5 DEF GetDone
  <2>2. \E l \in {"issue", "idle", "call"} : pc' = [pc EXCEPT ![t] = l]
    BY <1>5 DEF GetDone, Return
  <2> QED BY <2>1, <2>2, PaidUntouched DEF DrainPCs
<1>6. CASE Relock(t)
  <2>1. UNCHANGED <<cred_used, send_queue, packet>> /\ pc[t] = "relock"
    BY <1>6 DEF Relock
  <2>2. \E l \in {"get", "idle", "call"} : pc' = [pc EXCEPT ![t] = l]
    BY <1>6 DEF Relock, Return
  <2> QED BY <2>1, <2>2, PaidUntouched DEF DrainPCs
<1> QED
  BY <1>1, <1>2, <1>3, <1>4, <1>5, <1>6, CheckDepthPaid, EnterPaid, GetPacketPaid,
     FileLookupPaid, IssuePaid DEF Inside

LEMMA NextPaid == FifoInv /\ [Next]_vars => Paid'
<1> SUFFICES ASSUME FifoInv, [Next]_vars PROVE Paid'
  OBVIOUS
<1> USE DEF FifoInv
<1>1. ASSUME NEW t \in Threads, NEW p \in Packets, TxCompletion(t, p) PROVE Paid'
  BY <1>1, LeavePaid, ReturnEffect DEF TxCompletion, lockVars
<1>2. ASSUME NEW t \in Threads, NEW n \in 1..TgtCreds, DataCreditReport(t, n) PROVE Paid'
  BY <1>2, LeavePaid, ReturnEffect DEF DataCreditReport
<1>3. ASSUME NEW t \in Threads, NEW n \in 1..TgtCreds, CtrlCreditReport(t, n) PROVE Paid'
  BY <1>3, LeavePaid, ReturnEffect DEF CtrlCreditReport
<1>4. ASSUME NEW t \in Threads, CtlEpTimer(t) PROVE Paid'
  BY <1>4, LeavePaid, ReturnEffect DEF CtlEpTimer
<1>5. CASE UNCHANGED <<pc, packet, send_queue, cred_used>>
  BY <1>5 DEF Paid, PaidOf, CostOf, CreditsRequired
<1>6. CASE LoseCtrlCredit
  BY <1>5, <1>6 DEF LoseCtrlCredit, lockVars, localVars
<1>7. CASE UNCHANGED vars
  BY <1>5, <1>7 DEF vars, lockVars, localVars
<1>8. ASSUME NEW p \in Packets, UrbComplete(p) PROVE Paid'
  BY <1>5, <1>8 DEF UrbComplete, lockVars, localVars
<1>9. ASSUME NEW t \in Threads, NEW e \in Eps, FlushTxEndpoint(t, e) PROVE Paid'
  BY <1>5, <1>9 DEF FlushTxEndpoint, localVars
<1> QED
  BY <1>1, <1>2, <1>3, <1>4, <1>6, <1>7, <1>8, <1>9, InsidePaid, SendPaid
     DEF Next, Threads

LEMMA FifoInvHolds == Spec => []FifoInv
<1>1. Init => Paid
  BY DEF Init, Paid, PaidOf, DrainPCs
<1>2. FifoInv /\ [Next]_vars => Paid'
  BY NextPaid
<1> QED
  BY <1>1, <1>2, OwnInvHolds, SingleDrainerHolds, NoOvercommitHolds, PTL DEF Spec, FifoInv

-----------------------------------------------------------------------------
(* Sequences *)

LEMMA EmptyConcat ==
  ASSUME NEW S, NEW a \in Seq(S)
  PROVE  <<>> \o a = a /\ a \o <<>> = a
OBVIOUS

LEMMA ConsTail ==
  ASSUME NEW S, NEW a \in Seq(S), a # <<>>
  PROVE  <<Head(a)>> \o Tail(a) = a
OBVIOUS

LEMMA MoveHead ==
  ASSUME NEW S, NEW a \in Seq(S), NEW b \in Seq(S), b # <<>>
  PROVE  Append(a, Head(b)) \o Tail(b) = a \o b
OBVIOUS

LEMMA AppendRight ==
  ASSUME NEW S, NEW a \in Seq(S), NEW b \in Seq(S), NEW p \in S
  PROVE  /\ Append(a \o b, p) = a \o Append(b, p)
         /\ Append(b, p) = b \o <<p>>
<1>1. Append(b, p) = b \o <<p>>
  OBVIOUS
<1>2. Append(a \o b, p) = a \o Append(b, p)
  <2> DEFINE l == Append(a \o b, p)
             r == a \o Append(b, p)
  <2>1. /\ Len(a) \in Nat /\ Len(b) \in Nat /\ l \in Seq(S) /\ r \in Seq(S)
        /\ Len(l) = Len(a) + Len(b) + 1 /\ Len(r) = Len(a) + Len(b) + 1
    OBVIOUS
  <2>2. \A i \in 1..Len(a) + Len(b) + 1 :
          l[i] = IF i <= Len(a) THEN a[i] ELSE IF i <= Len(a) + Len(b) THEN b[i - Len(a)] ELSE p
    OBVIOUS
  <2>3. \A i \in 1..Len(a) + Len(b) + 1 :
          r[i] = IF i <= Len(a) THEN a[i] ELSE IF i <= Len(a) + Len(b) THEN b[i - Len(a)] ELSE p
    OBVIOUS
  <2> HIDE DEF l, r
  <2> QED BY <2>1, <2>2, <2>3
<1> QED BY <1>1, <1>2

LEMMA ConcatParts ==
  ASSUME NEW S, NEW a \in Seq(S), NEW b \in Seq(S)
  PROVE  /\ a \o b \in Seq(S) /\ Len(a \o b) = Len(a) + Len(b)
         /\ SubSeq(a \o b, Len(a) + 1, Len(a \o b)) = b
         /\ SubSeq(a \o b, 1, Len(a)) = a
OBVIOUS

LEMMA ConcatHead ==
  ASSUME NEW S, NEW p \in S, NEW a \in Seq(S), NEW b \in Seq(S)
  PROVE  /\ (<<p>> \o a) \o b # <<>>
         /\ Head((<<p>> \o a) \o b) = p
         /\ Tail((<<p>> \o a) \o b) = a \o b
OBVIOUS

-----------------------------------------------------------------------------
(* Every step is a step or a stutter of HtcTxAbs *)

\* Nothing pending moves.
LEMMA PendFrame ==
  ASSUME SingleDrainer, SingleDrainer', UNCHANGED txq,
         \A u \in Threads : \A e \in Eps : Draining(u, e)' <=> Draining(u, e),
         \A u \in Threads : pc[u] \in DrainPCs => InHand(u)' = InHand(u)
  PROVE  Pend' = Pend
<1> SUFFICES ASSUME NEW e \in Eps PROVE Pending(e)' = Pending(e)
  BY DEF Pend
<1>1. CASE \E u \in Threads : Draining(u, e)
  <2>1. PICK u \in Threads : Draining(u, e)
    BY <1>1
  <2>2. Draining(u, e)' /\ InHand(u)' = InHand(u)
    BY <2>1 DEF Draining, DrainPCs
  <2> QED BY <2>1, <2>2, PendingIs, PendingNext
<1>2. CASE \A u \in Threads : ~Draining(u, e)
  BY <1>2, PendingIs, PendingNext
<1> QED BY <1>1, <1>2

\* A thread that is no drainer before and after the step moves nothing pending
\* but what it puts on a queue.
LEMMA OutsidePend ==
  ASSUME SingleDrainer, SingleDrainer', UNCHANGED txq, NEW t \in Threads,
         pc[t] \notin DrainPCs, pc'[t] \notin DrainPCs,
         \A u \in Threads \ {t} : /\ pc'[u] = pc[u] /\ ep'[u] = ep[u]
                                  /\ packet'[u] = packet[u] /\ send_queue'[u] = send_queue[u]
  PROVE  Pend' = Pend
<1>1. \A u \in Threads : \A e \in Eps : Draining(u, e)' <=> Draining(u, e)
  BY DEF Draining, DrainPCs
<1>2. \A u \in Threads : pc[u] \in DrainPCs => InHand(u)' = InHand(u)
  BY DEF InHand
<1> QED BY <1>1, <1>2, PendFrame

\* A drainer that stays one with the same packets in hand, none being submitted.
LEMMA InsidePend ==
  ASSUME SingleDrainer, SingleDrainer', UNCHANGED <<txq, ep, packet, send_queue>>,
         NEW t \in Threads, pc[t] \in DrainPCs \ {"submit"}, pc'[t] \in DrainPCs \ {"submit"},
         \A u \in Threads \ {t} : pc'[u] = pc[u]
  PROVE  Pend' = Pend
<1>1. \A u \in Threads : \A e \in Eps : Draining(u, e)' <=> Draining(u, e)
  BY DEF Draining, DrainPCs
<1>2. \A u \in Threads : pc[u] \in DrainPCs => InHand(u)' = InHand(u)
  BY DEF InHand
<1> QED BY <1>1, <1>2, PendFrame

\* The state before a step of t.
LEMMA FifoTypes ==
  ASSUME FifoInv, NEW t \in Threads
  PROVE  /\ pc \in [Threads -> PCs] /\ packet \in [Threads -> Packets \cup {NoPkt}]
         /\ send_queue \in [Threads -> Seq(Packets)] /\ txq \in [Eps -> Seq(Packets)]
         /\ ep \in [Threads -> Eps] /\ ep[t] \in Eps /\ send_queue[t] \in Seq(Packets)
         /\ pc[t] \in {"schedq", "depth", "submit"}
              => packet[t] \in Packets /\ PktEp[packet[t]] = ep[t]
         /\ pc[t] \notin {"schedq", "depth", "submit"} => packet[t] = NoPkt
         /\ pc[t] \notin {"read", "enter", "get", "issue", "submit"} => send_queue[t] = <<>>
         /\ pc[t] = "issue" => send_queue[t] # <<>>
         /\ \A p \in Range(send_queue[t]) : PktEp[p] = ep[t]
<1>1. ep \in [Threads -> Eps]
  BY DEF FifoInv, TypeInv, TypeOK, TypeControl
<1>2. send_queue[t] \in Seq(PktsOf(ep[t]))
  BY DEF FifoInv, TypeInv, LocalsOK, LocalsOf
<1>3. \A p \in Range(send_queue[t]) : PktEp[p] = ep[t]
  BY <1>2, RangeType DEF PktsOf
<1>4. pc[t] \in {"schedq", "depth", "submit"} => packet[t] \in PktsOf(ep[t])
  BY DEF FifoInv, TypeInv, LocalsOK, LocalsOf
<1> QED BY <1>1, <1>3, <1>4, OwnTypes DEF FifoInv, PktsOf

\* A packet that is neither pending nor with the HIF.
LEMMA NotPending ==
  ASSUME FifoInv, NEW s \in Spots, NEW p \in Packets, p \in Here(s),
         s \notin {Bus, Done}, \A e \in Eps : s # TxqOf(e),
         \A u \in Threads : pc[u] \in DrainPCs => s # HandOf(u) /\ s # SendOf(u)
  PROVE  /\ p \notin bus \cup io_comp_queue
         /\ \A e \in Eps : \A i \in 1..Len(Pend[e]) : Pend[e][i] # p
<1>1. \A r \in Spots : r # s => p \notin Here(r)
  BY DEF FifoInv, OwnInv, OneSpot
<1>2. p \notin bus /\ p \notin io_comp_queue
  BY <1>1, HereIs, SpotsAre
<1>3. \A e \in Eps : p \notin Range(txq[e])
  BY <1>1, HereIs, SpotsAre
<1>4. ASSUME NEW u \in Threads, pc[u] \in DrainPCs
      PROVE  InHand(u) \in Seq(Packets) /\ p \notin Range(InHand(u))
  <2>1. p \notin Range(send_queue[u]) /\ send_queue[u] \in Seq(Packets)
    BY <1>1, <1>4, HereIs, SpotsAre, FifoTypes
  <2>2. CASE pc[u] = "submit"
    <3>1. packet[u] \in Packets /\ packet[u] # p
      <4>1. packet[u] \in Packets /\ NoPkt \notin Packets
        BY <2>2, FifoTypes, ConstantsOK DEF ConstantsOK
      <4>2. p \notin Here(HandOf(u))
        BY <1>1, <1>4, SpotsAre
      <4> QED BY <4>1, <4>2, HereIs
    <3>2. PICK a : a = <<packet[u]>>
      OBVIOUS
    <3>3. a \in Seq(Packets) /\ Range(a) = {packet[u]}
      BY <3>1, <3>2 DEF Range
    <3>4. Range(a \o send_queue[u]) = Range(a) \cup Range(send_queue[u])
      BY <2>1, <3>3, RangeConcat
    <3>5. InHand(u) = a \o send_queue[u]
      BY <2>2, <3>2 DEF InHand
    <3>6. a \o send_queue[u] \in Seq(Packets)
      BY <2>1, <3>3
    <3> QED BY <2>1, <3>1, <3>3, <3>4, <3>5, <3>6
  <2>3. CASE pc[u] # "submit"
    <3>1. InHand(u) = send_queue[u]
      BY <2>1, <2>3, EmptyConcat DEF InHand
    <3> QED BY <2>1, <3>1
  <2> QED BY <2>2, <2>3
<1>5. ASSUME NEW e \in Eps PROVE Pend[e] \in Seq(Packets) /\ p \notin Range(Pend[e])
  <2>0. txq[e] \in Seq(Packets) /\ Pend[e] = Pending(e)
    BY DEF Pend, FifoInv, TypeInv, TypeOK, TypeQueues
  <2>1. CASE \E u \in Threads : Draining(u, e)
    <3>1. PICK u \in Threads : Draining(u, e)
      BY <2>1
    <3>2. Pending(e) = InHand(u) \o txq[e] /\ pc[u] \in DrainPCs
      BY <3>1, PendingIs DEF FifoInv, Draining, DrainPCs
    <3>3. Range(InHand(u) \o txq[e]) = Range(InHand(u)) \cup Range(txq[e])
      BY <1>4, <2>0, <3>2, RangeConcat
    <3>4. InHand(u) \o txq[e] \in Seq(Packets)
      BY <1>4, <2>0, <3>2
    <3> QED BY <1>3, <1>4, <2>0, <3>2, <3>3, <3>4
  <2>2. CASE \A u \in Threads : ~Draining(u, e)
    BY <1>3, <2>0, <2>2, PendingIs DEF FifoInv
  <2> QED BY <2>1, <2>2
<1>6. ASSUME NEW e \in Eps, NEW i \in 1..Len(Pend[e]) PROVE Pend[e][i] # p
  <2>1. Pend[e] \in Seq(Packets) /\ p \notin Range(Pend[e])
    BY <1>5
  <2> QED BY <2>1 DEF Range
<1> QED BY <1>2, <1>6

LEMMA SendSim ==
  ASSUME FifoInv, FifoInv', NEW t \in Threads, NEW p \in Packets, Send(t, p)
  PROVE  [Abs!Next]_(Abs!vars)
<1>1. /\ pc[t] = "idle" /\ pc'[t] \in {"schedq", "depth"}
      /\ UNCHANGED <<txq, send_queue, bus, io_comp_queue, tgt_data>>
      /\ \A u \in Threads \ {t} : pc'[u] = pc[u] /\ ep'[u] = ep[u] /\ packet'[u] = packet[u]
  BY FifoTypes DEF Send, lockVars, hifVars
<1>2. Pend' = Pend
  BY <1>1, OutsidePend DEF FifoInv, DrainPCs
<1> QED BY <1>1, <1>2, Stutters

\* A packet is queued behind what is pending on its endpoint.
LEMMA QueueSim ==
  ASSUME FifoInv, FifoInv', NEW t \in Threads, NEW e \in Eps, NEW p \in Packets,
         Works(t, e), PktEp[p] = e, txq'[e] = Append(txq[e], p),
         pc[t] \notin DrainPCs, send_queue'[t] = <<>>, pc'[t] # "submit",
         \E s \in {HandOf(t), SendOf(t)} : p \in Here(s),
         Draining(t, e)' => \A u \in Threads : ~Draining(u, e),
         UNCHANGED <<bus, io_comp_queue, tgt_data>>
  PROVE  [Abs!Next]_(Abs!vars)
<1>0. txq[e] \in Seq(Packets) /\ Pend[e] = Pending(e)
  BY DEF FifoInv, TypeInv, TypeOK, TypeQueues, Pend
<1>1. Pending(e)' = Append(Pending(e), p)
  <2>1. CASE Draining(t, e)'
    <3>1. InHand(t)' = <<>>
      BY DEF InHand
    <3>2. Pending(e) = txq[e]
      BY <2>1, PendingIs DEF FifoInv
    <3>3. Pending(e)' = InHand(t)' \o txq'[e]
      BY <2>1, PendingNext DEF FifoInv
    <3>4. Append(txq[e], p) \in Seq(Packets)
      BY <1>0
    <3> QED BY <3>1, <3>2, <3>3, <3>4, EmptyConcat
  <2>2. CASE ~Draining(t, e)'
    <3>1. \A u \in Threads : Draining(u, e)' <=> Draining(u, e)
      BY <2>2 DEF Works, Draining, DrainPCs
    <3>2. CASE \E u \in Threads : Draining(u, e)
      <4>1. PICK u \in Threads : Draining(u, e)
        BY <3>2
      <4>2. u # t /\ Draining(u, e)' /\ pc[u] \in DrainPCs
        BY <2>2, <3>1, <4>1 DEF Draining, DrainPCs
      <4>3. InHand(u)' = InHand(u)
        BY <4>2 DEF Works, InHand
      <4>4. InHand(u) \in Seq(Packets)
        <5>1. send_queue[u] \in Seq(Packets) /\ (pc[u] = "submit" => packet[u] \in Packets)
          BY FifoTypes
        <5> QED BY <5>1 DEF InHand
      <4>5. Pending(e) = InHand(u) \o txq[e] /\ Pending(e)' = InHand(u) \o Append(txq[e], p)
        BY <4>1, <4>2, <4>3, PendingIs, PendingNext DEF FifoInv
      <4> QED BY <1>0, <4>4, <4>5, AppendRight, SMTT(30)
    <3>3. CASE \A u \in Threads : ~Draining(u, e)
      BY <3>1, <3>3, PendingIs, PendingNext DEF FifoInv
    <3> QED BY <3>2, <3>3
  <2> QED BY <2>1, <2>2
<1>2. Pend' = [Pend EXCEPT ![e] = Append(@, p)]
  <2>1. PICK s : s = Append(Pending(e), p)
    OBVIOUS
  <2>2. Pend' = [Pend EXCEPT ![e] = s]
    BY <1>1, <2>1, PendUpdate DEF FifoInv
  <2> QED BY <1>0, <2>1, <2>2
<1>3. /\ p \notin bus \cup io_comp_queue
      /\ \A d \in Eps : \A i \in 1..Len(Pend[d]) : Pend[d][i] # p
  <2>1. PICK s \in {HandOf(t), SendOf(t)} : p \in Here(s)
    OBVIOUS
  <2>2. /\ s \in Spots /\ s \notin {Bus, Done} /\ \A d \in Eps : s # TxqOf(d)
        /\ \A u \in Threads : pc[u] \in DrainPCs => s # HandOf(u) /\ s # SendOf(u)
    BY <2>1 DEF Spots, Bus, Done, HandOf, SendOf, TxqOf
  <2> QED BY <2>1, <2>2, NotPending
<1> QED BY <1>2, <1>3, Accepts

LEMMA SchedQueueSim ==
  ASSUME FifoInv, FifoInv', NEW t \in Threads, SchedQueue(t)
  PROVE  [Abs!Next]_(Abs!vars)
<1>a. pc[t] = "schedq"
  BY DEF SchedQueue
<1>b. PICK e \in Eps, p \in Packets : e = ep[t] /\ p = packet[t] /\ PktEp[p] = e
  BY <1>a, FifoTypes
<1>1. /\ packet' = [packet EXCEPT ![t] = NoPkt] /\ send_queue[t] = <<>>
      /\ UNCHANGED <<send_queue, bus, io_comp_queue, tgt_data>>
      /\ \/ txq' = [txq EXCEPT ![e] = Append(@, p)]
         \/ UNCHANGED txq
  BY <1>a, <1>b, FifoTypes DEF SchedQueue, hifVars
<1>2. /\ pc'[t] \in {"starve", "idle", "call"}
      /\ \A u \in Threads \ {t} : pc'[u] = pc[u] /\ ep'[u] = ep[u]
  BY FifoTypes DEF SchedQueue, Return
<1>3. \A u \in Threads \ {t} : packet'[u] = packet[u]
  BY <1>1, FifoTypes
<1>4. CASE txq' = [txq EXCEPT ![e] = Append(@, p)]
  <2>1. txq'[e] = Append(txq[e], p) /\ \A d \in Eps \ {e} : txq'[d] = txq[d]
    BY <1>4, FifoTypes
  <2>2. Works(t, e) /\ ~Draining(t, e)'
    BY <1>a, <1>1, <1>2, <1>3, <2>1 DEF Works, Draining
  <2>3. p \in Here(HandOf(t))
    BY <1>b, HereIs, ConstantsOK DEF ConstantsOK
  <2> QED BY <1>a, <1>b, <1>1, <1>2, <2>1, <2>2, <2>3, QueueSim DEF DrainPCs
<1>5. CASE UNCHANGED txq
  <2>1. Pend' = Pend
    BY <1>a, <1>1, <1>2, <1>3, <1>5, OutsidePend DEF FifoInv, DrainPCs
  <2> QED BY <1>1, <2>1, Stutters
<1> QED BY <1>1, <1>4, <1>5

LEMMA CheckDepthSim ==
  ASSUME FifoInv, FifoInv', NEW t \in Threads, CheckDepth(t)
  PROVE  [Abs!Next]_(Abs!vars)
<1>1. /\ pc[t] = "depth" /\ packet' = [packet EXCEPT ![t] = NoPkt]
      /\ UNCHANGED <<txq, bus, io_comp_queue, tgt_data>>
      /\ \/ UNCHANGED send_queue
         \/ send_queue' = [send_queue EXCEPT ![t] = <<packet[t]>>]
  BY DEF CheckDepth, hifVars, lockVars
<1>2. /\ pc'[t] \in {"read", "enter", "idle", "call"}
      /\ \A u \in Threads \ {t} : pc'[u] = pc[u] /\ ep'[u] = ep[u]
  BY FifoTypes DEF CheckDepth, Return, ReadFirst
<1>3. \A u \in Threads \ {t} : packet'[u] = packet[u] /\ send_queue'[u] = send_queue[u]
  BY <1>1, FifoTypes
<1>4. Pend' = Pend
  BY <1>1, <1>2, <1>3, OutsidePend DEF FifoInv, DrainPCs
<1> QED BY <1>1, <1>4, Stutters

LEMMA EnterSim ==
  ASSUME FifoInv, FifoInv', NEW t \in Threads, Enter(t)
  PROVE  [Abs!Next]_(Abs!vars)
<1>a. pc[t] = "enter"
  BY DEF Enter
<1>b. PICK e \in Eps : e = ep[t]
  BY FifoTypes
<1>1. /\ txq' = [txq EXCEPT ![e] = txq[e] \o send_queue[t]]
      /\ send_queue' = [send_queue EXCEPT ![t] = <<>>]
      /\ UNCHANGED <<packet, bus, io_comp_queue, tgt_data>>
  BY <1>b DEF Enter, hifVars, Spliced
<1>2. /\ pc'[t] \in {"get", "idle", "call"}
      /\ \A u \in Threads \ {t} : pc'[u] = pc[u] /\ ep'[u] = ep[u]
      /\ pc'[t] = "get" => ep'[t] = ep[t] /\ ~(tx_proc_cnt[e] > 0)
  BY <1>b, FifoTypes DEF Enter, Return, AnotherDrains
<1>3. /\ send_queue'[t] = <<>> /\ txq'[e] = txq[e] \o send_queue[t]
      /\ \A u \in Threads \ {t} : send_queue'[u] = send_queue[u]
      /\ \A d \in Eps \ {e} : txq'[d] = txq[d]
  BY <1>1, FifoTypes
<1>4. Works(t, e)
  BY <1>a, <1>b, <1>1, <1>2, <1>3 DEF Works, Draining
<1>5. Draining(t, e)' => \A u \in Threads : ~Draining(u, e)
  BY <1>2 DEF Draining, FifoInv, SingleDrainer
<1>6. CASE send_queue[t] = <<>>
  <2>1. txq'[e] = txq[e] /\ txq[e] \in Seq(Packets)
    BY <1>3, <1>6, FifoTypes, EmptyConcat
  <2>2. Pending(e)' = Pending(e)
    <3>1. CASE Draining(t, e)'
      <4>1. InHand(t)' = <<>>
        BY <1>2, <1>3 DEF InHand
      <4> QED BY <1>5, <2>1, <3>1, <4>1, PendingIs, PendingNext, EmptyConcat DEF FifoInv
    <3>2. CASE ~Draining(t, e)'
      <4>1. \A u \in Threads : Draining(u, e)' <=> Draining(u, e)
        BY <1>a, <1>2, <3>2 DEF Draining
      <4>2. CASE \E u \in Threads : Draining(u, e)
        <5>1. PICK u \in Threads : Draining(u, e)
          BY <4>2
        <5>2. u # t /\ Draining(u, e)'
          BY <3>2, <4>1, <5>1
        <5>3. InHand(u)' = InHand(u)
          BY <5>2, <1>4 DEF Works, InHand
        <5> QED BY <2>1, <5>1, <5>2, <5>3, PendingIs, PendingNext DEF FifoInv
      <4>3. CASE \A u \in Threads : ~Draining(u, e)
        BY <2>1, <4>1, <4>3, PendingIs, PendingNext DEF FifoInv
      <4> QED BY <4>2, <4>3
    <3> QED BY <3>1, <3>2
  <2>3. Pend' = Pend
    BY <1>4, <2>2, PendSame DEF FifoInv
  <2> QED BY <1>1, <2>3, Stutters
<1>7. CASE send_queue[t] # <<>>
  <2>1. PICK p \in Packets : send_queue[t] = <<p>>
    BY <1>a, <1>7 DEF FifoInv, Paid, PaidOf
  <2>2. p \in Range(send_queue[t])
    BY <2>1 DEF Range
  <2>3. PktEp[p] = e /\ p \in Here(SendOf(t))
    BY <1>b, <2>2, FifoTypes, HereIs
  <2>4. txq'[e] = Append(txq[e], p)
    BY <1>3, <2>1, FifoTypes, AppendRight
  <2> QED BY <1>a, <1>1, <1>2, <1>3, <1>4, <1>5, <2>3, <2>4, QueueSim DEF DrainPCs
<1> QED BY <1>6, <1>7

\* The drainer of e at work, before and after its step.
LEMMA DrainerStep ==
  ASSUME FifoInv, FifoInv', NEW t \in Threads, NEW e \in Eps, e = ep[t],
         pc[t] \in DrainPCs, pc'[t] \in DrainPCs, ep'[t] = ep[t],
         \A u \in Threads \ {t} : /\ pc'[u] = pc[u] /\ ep'[u] = ep[u]
                                  /\ packet'[u] = packet[u] /\ send_queue'[u] = send_queue[u],
         \A d \in Eps \ {e} : txq'[d] = txq[d]
  PROVE  /\ Works(t, e)
         /\ Pending(e) = InHand(t) \o txq[e] /\ Pend[e] = Pending(e)
         /\ Pending(e)' = InHand(t)' \o txq'[e]
<1>1. Draining(t, e) /\ Draining(t, e)'
  BY DEF Draining, DrainPCs
<1>2. Works(t, e)
  BY DEF Works, Draining
<1> QED BY <1>1, <1>2, PendingIs, PendingNext DEF FifoInv, Pend

LEMMA GetPacketSim ==
  ASSUME FifoInv, FifoInv', NEW t \in Threads, GetPacket(t)
  PROVE  [Abs!Next]_(Abs!vars)
<1>a. PICK e \in Eps : e = ep[t]
  BY FifoTypes
<1>b. /\ pc[t] = "get" /\ txq[e] # <<>> /\ txq[e] \in Seq(Packets)
      /\ send_queue[t] \in Seq(Packets)
  BY <1>a, FifoTypes DEF GetPacket, CanTake
<1>c. PICK r : r = Append(send_queue[t], Head(txq[e]))
  OBVIOUS
<1>1. /\ txq' = [txq EXCEPT ![e] = Tail(@)]
      /\ send_queue' = [send_queue EXCEPT ![t] = r]
      /\ UNCHANGED <<pc, ep, packet, bus, io_comp_queue, tgt_data>>
  BY <1>a, <1>c DEF GetPacket, hifVars
<1>2. /\ send_queue'[t] = r /\ txq'[e] = Tail(txq[e])
      /\ \A u \in Threads \ {t} : send_queue'[u] = send_queue[u]
      /\ \A d \in Eps \ {e} : txq'[d] = txq[d]
  BY <1>1, FifoTypes
<1>3. /\ Works(t, e) /\ Pending(e) = InHand(t) \o txq[e]
      /\ Pending(e)' = InHand(t)' \o txq'[e]
  BY <1>a, <1>b, <1>1, <1>2, DrainerStep DEF DrainPCs
<1>4. InHand(t) = send_queue[t] /\ InHand(t)' = r
  <2>1. r \in Seq(Packets)
    BY <1>b, <1>c
  <2> QED BY <1>b, <1>1, <1>2, <2>1, EmptyConcat DEF InHand
<1>5. Pending(e)' = Pending(e)
  <2>1. Append(send_queue[t], Head(txq[e])) \o Tail(txq[e]) = send_queue[t] \o txq[e]
    BY <1>b, MoveHead
  <2>2. Pending(e)' = r \o Tail(txq[e])
    BY <1>2, <1>3, <1>4
  <2> QED BY <1>c, <1>3, <1>4, <2>1, <2>2
<1>6. Pend' = Pend
  BY <1>3, <1>5, PendSame DEF FifoInv
<1> QED BY <1>1, <1>6, Stutters

\* A drainer without packets in hand leaves.
LEMMA LeaveSim ==
  ASSUME FifoInv, FifoInv', NEW t \in Threads, pc[t] \in DrainPCs \ {"submit"},
         send_queue[t] = <<>>, Return(t, todo[t]),
         UNCHANGED <<txq, packet, send_queue, bus, io_comp_queue, tgt_data>>
  PROVE  [Abs!Next]_(Abs!vars)
<1>a. PICK e \in Eps : e = ep[t]
  BY FifoTypes
<1>1. /\ pc'[t] \notin DrainPCs
      /\ \A u \in Threads \ {t} : pc'[u] = pc[u] /\ ep'[u] = ep[u]
  BY ReturnEffect DEF FifoInv
<1>2. Draining(t, e) /\ ~Draining(t, e)' /\ Works(t, e)
  BY <1>a, <1>1 DEF Works, Draining, DrainPCs
<1>3. \A u \in Threads : ~Draining(u, e)'
  BY <1>1, <1>2 DEF FifoInv, SingleDrainer, Draining
<1>4. InHand(t) = <<>> /\ txq[e] \in Seq(Packets)
  BY FifoTypes DEF InHand
<1>5. Pending(e) = txq[e] /\ Pending(e)' = txq[e]
  BY <1>2, <1>3, <1>4, PendingIs, PendingNext, EmptyConcat DEF FifoInv
<1>6. Pend' = Pend
  BY <1>2, <1>5, PendSame DEF FifoInv
<1> QED BY <1>6, Stutters

LEMMA GetDoneSim ==
  ASSUME FifoInv, FifoInv', NEW t \in Threads, GetDone(t)
  PROVE  [Abs!Next]_(Abs!vars)
<1>1. pc[t] = "get" /\ UNCHANGED <<txq, packet, send_queue, bus, io_comp_queue, tgt_data>>
  BY DEF GetDone, hifVars
<1>2. CASE send_queue[t] = <<>>
  BY <1>1, <1>2, LeaveSim DEF GetDone, DrainPCs
<1>3. CASE send_queue[t] # <<>>
  <2>1. UNCHANGED ep /\ pc'[t] = "issue" /\ \A u \in Threads \ {t} : pc'[u] = pc[u]
    BY <1>3, FifoTypes DEF GetDone
  <2> QED BY <1>1, <2>1, InsidePend, Stutters DEF FifoInv, DrainPCs
<1> QED BY <1>2, <1>3

LEMMA RelockSim ==
  ASSUME FifoInv, FifoInv', NEW t \in Threads, Relock(t)
  PROVE  [Abs!Next]_(Abs!vars)
<1>1. /\ pc[t] = "relock" /\ send_queue[t] = <<>>
      /\ UNCHANGED <<txq, packet, send_queue, bus, io_comp_queue, tgt_data>>
  BY FifoTypes DEF Relock, hifVars
<1>2. CASE st_try[t]
  BY <1>1, <1>2, LeaveSim DEF Relock, DrainPCs
<1>3. CASE ~st_try[t]
  <2>1. UNCHANGED ep /\ pc'[t] = "get" /\ \A u \in Threads \ {t} : pc'[u] = pc[u]
    BY <1>3, FifoTypes DEF Relock
  <2> QED BY <1>1, <2>1, InsidePend, Stutters DEF FifoInv, DrainPCs
<1> QED BY <1>2, <1>3

LEMMA ReadResourcesSim ==
  ASSUME FifoInv, FifoInv', NEW t \in Threads, ReadResources(t)
  PROVE  [Abs!Next]_(Abs!vars)
<1>1. /\ UNCHANGED <<txq, ep, packet, send_queue, bus, io_comp_queue, tgt_data>>
      /\ \/ pc[t] = "read" /\ pc'[t] = "enter"
         \/ pc[t] = "reread" /\ pc'[t] = "relock"
      /\ \A u \in Threads \ {t} : pc'[u] = pc[u]
  BY FifoTypes DEF ReadResources, lockVars, hifVars
<1>2. Pend' = Pend
  BY <1>1, InsidePend, OutsidePend DEF FifoInv, DrainPCs
<1> QED BY <1>1, <1>2, Stutters

LEMMA FileLookupSim ==
  ASSUME FifoInv, FifoInv', NEW t \in Threads, FileLookup(t)
  PROVE  [Abs!Next]_(Abs!vars)
<1>a. PICK e \in Eps : e = ep[t]
  BY FifoTypes
<1>b. pc[t] = "issue" /\ send_queue[t] # <<>> /\ send_queue[t] \in Seq(Packets)
  BY FifoTypes DEF FileLookup
<1>1. /\ packet' = [packet EXCEPT ![t] = Head(send_queue[t])]
      /\ send_queue' = [send_queue EXCEPT ![t] = Tail(@)]
      /\ pc' = [pc EXCEPT ![t] = "submit"]
      /\ UNCHANGED <<txq, ep, bus, io_comp_queue, tgt_data>>
  BY DEF FileLookup, lockVars, hifVars
<1>2. /\ packet'[t] = Head(send_queue[t]) /\ send_queue'[t] = Tail(send_queue[t])
      /\ pc'[t] = "submit"
      /\ \A u \in Threads \ {t} : /\ pc'[u] = pc[u] /\ packet'[u] = packet[u]
                                  /\ send_queue'[u] = send_queue[u]
  BY <1>1, FifoTypes
<1>3. /\ Works(t, e) /\ Pending(e) = InHand(t) \o txq[e]
      /\ Pending(e)' = InHand(t)' \o txq'[e]
  BY <1>a, <1>b, <1>1, <1>2, DrainerStep DEF DrainPCs
<1>4. InHand(t) = send_queue[t]
  BY <1>b, EmptyConcat DEF InHand
<1>5. InHand(t)' = send_queue[t]
  <2>1. InHand(t)' = <<Head(send_queue[t])>> \o Tail(send_queue[t])
    BY <1>2 DEF InHand
  <2> QED BY <1>b, <2>1, ConsTail
<1>6. Pend' = Pend
  BY <1>1, <1>3, <1>4, <1>5, PendSame DEF FifoInv
<1> QED BY <1>1, <1>6, Stutters

LEMMA NextCallSim ==
  ASSUME FifoInv, FifoInv', NEW t \in Threads, NextCall(t)
  PROVE  [Abs!Next]_(Abs!vars)
<1>1. /\ pc[t] = "call" /\ pc'[t] \in {"read", "enter", "idle", "call"}
      /\ UNCHANGED <<txq, packet, send_queue, bus, io_comp_queue, tgt_data>>
      /\ \A u \in Threads \ {t} : pc'[u] = pc[u] /\ ep'[u] = ep[u]
  BY FifoTypes DEF NextCall, Return, ReadFirst, lockVars, hifVars
<1>2. Pend' = Pend
  BY <1>1, OutsidePend DEF FifoInv, DrainPCs
<1> QED BY <1>1, <1>2, Stutters

\* The drainer of e hands its first packet to the HIF, or gets it back.
LEMMA SubmitterStep ==
  ASSUME FifoInv, FifoInv', NEW t \in Threads, NEW e \in Eps, NEW p \in Packets,
         e = ep[t], p = packet[t], pc[t] = "submit",
         pc' = [pc EXCEPT ![t] = pc'[t]], pc'[t] \in {"issue", "reread", "relock"},
         packet' = [packet EXCEPT ![t] = NoPkt],
         NEW q \in Seq(Packets), send_queue' = [send_queue EXCEPT ![t] = q],
         UNCHANGED <<ep, txq>>
  PROVE  /\ Works(t, e) /\ Pend[e] = (<<p>> \o send_queue[t]) \o txq[e]
         /\ Pending(e)' = q \o txq[e]
<1>1. /\ pc'[t] \in DrainPCs /\ send_queue'[t] = q
      /\ \A u \in Threads \ {t} : /\ pc'[u] = pc[u] /\ packet'[u] = packet[u]
                                  /\ send_queue'[u] = send_queue[u]
  BY FifoTypes DEF DrainPCs
<1>2. /\ Works(t, e) /\ Pend[e] = InHand(t) \o txq[e]
      /\ Pending(e)' = InHand(t)' \o txq'[e]
  BY <1>1, DrainerStep, ZenonT(30) DEF DrainPCs
<1>3. InHand(t) = <<p>> \o send_queue[t]
  BY DEF InHand
<1>4. InHand(t)' = q
  BY <1>1, EmptyConcat DEF InHand
<1> QED BY <1>2, <1>3, <1>4

\* The data credits at the target never exceed the pool.
LEMMA CommittedBound ==
  ASSUME FifoInv
  PROVE  tgt_data \in Nat /\ tgt_data <= TgtCreds - 1 /\ TgtCreds \in Nat
<1>1. /\ avail_tx_credits \in Nat /\ tgt_data \in Nat /\ TgtCreds \in Nat /\ Held \in Nat
      /\ avail_tx_credits + Held + tgt_data <= TgtCreds - 1
  BY HeldType, ConstantsOK, OvercommitForm
     DEF ConstantsOK, FifoInv, TypeInv, TypeOK, TypeCredits
<1> QED BY <1>1

CommittedOK == tgt_data <= TgtCreds - 1

LEMMA CommittedBoundNext == FifoInv' => CommittedOK'
<1>1. FifoInv => CommittedOK
  BY CommittedBound DEF CommittedOK
<1> QED BY <1>1, PTL

LEMMA IssueOkSim ==
  ASSUME FifoInv, FifoInv', NEW t \in Threads, IssueOk(t)
  PROVE  [Abs!Next]_(Abs!vars)
<1>a. pc[t] = "submit"
  BY DEF IssueOk
<1>b. PICK e \in Eps, p \in Packets, q \in Seq(Packets) :
        e = ep[t] /\ p = packet[t] /\ q = send_queue[t]
  BY <1>a, FifoTypes
<1>1. /\ pc' = [pc EXCEPT ![t] = pc'[t]] /\ pc'[t] \in {"issue", "reread", "relock"}
  <2>1. \E l \in {"issue", "reread", "relock"} : pc' = [pc EXCEPT ![t] = l]
    BY DEF IssueOk, IssueDone, ReadFirst
  <2> QED BY <2>1, FifoTypes
<1>2. /\ packet' = [packet EXCEPT ![t] = NoPkt] /\ UNCHANGED <<ep, txq, send_queue, io_comp_queue>>
      /\ bus' = bus \cup {p}
      /\ IF e = CtrlEp THEN UNCHANGED tgt_data ELSE tgt_data' = tgt_data + cred_used[p]
  BY <1>b DEF IssueOk, IssueDone
<1>3. send_queue' = [send_queue EXCEPT ![t] = q]
  BY <1>b, <1>2, FifoTypes
<1>4. txq[e] \in Seq(Packets)
  BY FifoTypes
<1>5. /\ Works(t, e) /\ Pend[e] = (<<p>> \o send_queue[t]) \o txq[e]
      /\ Pending(e)' = q \o txq[e]
  <2>1. UNCHANGED <<ep, txq>> /\ packet' = [packet EXCEPT ![t] = NoPkt] /\ e = ep[t] /\ p = packet[t]
    BY <1>b, <1>2
  <2> QED BY <1>a, <1>1, <1>3, <2>1, SubmitterStep
<1>6. Pend[e] # <<>> /\ Head(Pend[e]) = p /\ Tail(Pend[e]) = q \o txq[e]
  <2>1. PICK b \in Seq(Packets) : b = txq[e]
    BY <1>4
  <2>2. Pend[e] = (<<p>> \o q) \o b
    BY <1>b, <1>5, <2>1
  <2>3. /\ (<<p>> \o q) \o b # <<>> /\ Head((<<p>> \o q) \o b) = p
        /\ Tail((<<p>> \o q) \o b) = q \o b
    BY ConcatHead, SMTT(30)
  <2> QED BY <2>1, <2>2, <2>3
<1>7. PICK s : s = q \o txq[e]
  OBVIOUS
<1>8. Pend' = [Pend EXCEPT ![e] = s]
  BY <1>5, <1>7, PendUpdate DEF FifoInv
<1>9. cred_used[p] = CostOf(p)
  BY <1>a, <1>b DEF FifoInv, Paid, PaidOf
<1> QED BY <1>2, <1>6, <1>7, <1>8, <1>9, CommittedBoundNext, Submits DEF CommittedOK

LEMMA IssueFailSim ==
  ASSUME FifoInv, FifoInv', NEW t \in Threads, IssueFail(t)
  PROVE  [Abs!Next]_(Abs!vars)
<1>a. pc[t] = "submit"
  BY DEF IssueFail
<1>b. PICK e \in Eps, p \in Packets, q \in Seq(Packets) :
        e = ep[t] /\ p = packet[t] /\ q = send_queue[t]
  BY <1>a, FifoTypes
<1>c. PICK h : h = <<p>> \o q
  OBVIOUS
<1>1. /\ pc' = [pc EXCEPT ![t] = pc'[t]] /\ pc'[t] \in {"issue", "reread", "relock"}
  <2>1. \E l \in {"issue", "reread", "relock"} : pc' = [pc EXCEPT ![t] = l]
    BY DEF IssueFail, IssueDone, ReadFirst
  <2> QED BY <2>1, FifoTypes
<1>2. /\ packet' = [packet EXCEPT ![t] = NoPkt]
      /\ UNCHANGED <<ep, txq, bus, io_comp_queue, tgt_data>>
      /\ send_queue' = [send_queue EXCEPT ![t] = <<>>]
  BY DEF IssueFail, IssueDone, hifVars
<1>3. txq[e] \in Seq(Packets) /\ <<>> \in Seq(Packets)
  BY FifoTypes
<1>4. Works(t, e) /\ Pend[e] = (<<p>> \o q) \o txq[e] /\ Pending(e)' = <<>> \o txq[e]
  BY <1>a, <1>b, <1>1, <1>2, <1>3, SubmitterStep, ZenonT(30)
<1>5. h \in Seq(Packets) /\ Len(h) \in Nat \ {0}
  BY <1>c
<1>6. /\ Pend[e] \in Seq(Packets) /\ Len(Pend[e]) = Len(h) + Len(txq[e])
      /\ SubSeq(Pend[e], Len(h) + 1, Len(Pend[e])) = txq[e]
  <2>1. PICK b \in Seq(Packets) : b = txq[e]
    BY <1>3
  <2>2. Pend[e] = h \o b
    BY <1>c, <1>4, <2>1
  <2> QED BY <1>5, <2>1, <2>2, ConcatParts
<1>7. PICK s : s = txq[e]
  OBVIOUS
<1>8. Pend' = [Pend EXCEPT ![e] = s]
  BY <1>3, <1>4, <1>7, EmptyConcat, PendUpdate DEF FifoInv
<1>9. PICK k \in 1..Len(Pend[e]) : k = Len(h)
  BY <1>3, <1>5, <1>6
<1>10. Pend' = [Pend EXCEPT ![e] = SubSeq(@, k + 1, Len(@))]
  BY <1>6, <1>7, <1>8, <1>9
<1> QED BY <1>2, <1>10, Refuses

LEMMA InsideSim ==
  ASSUME FifoInv, FifoInv', NEW t \in Threads, Inside(t)
  PROVE  [Abs!Next]_(Abs!vars)
<1>1. CASE SetStarving(t)
  <2>1. /\ pc[t] = "starve" /\ pc'[t] \notin DrainPCs
        /\ UNCHANGED <<txq, packet, send_queue, bus, io_comp_queue, tgt_data>>
        /\ \A u \in Threads \ {t} : pc'[u] = pc[u] /\ ep'[u] = ep[u]
    BY <1>1, ReturnEffect DEF SetStarving, hifVars, FifoInv
  <2>2. Pend' = Pend
    BY <2>1, OutsidePend DEF FifoInv, DrainPCs
  <2> QED BY <2>1, <2>2, Stutters
<1> QED
  BY <1>1, SchedQueueSim, CheckDepthSim, NextCallSim, ReadResourcesSim, EnterSim,
     GetPacketSim, GetDoneSim, RelockSim, FileLookupSim, IssueOkSim, IssueFailSim DEF Inside

-----------------------------------------------------------------------------
(* The way back *)

\* An idle thread starts htc_try_send calls: nothing pending moves.
LEMMA ReturnPend ==
  ASSUME FifoInv, FifoInv', NEW t \in Threads, pc[t] = "idle", NEW next, Return(t, next),
         UNCHANGED <<txq, packet, send_queue>>
  PROVE  Pend' = Pend
<1>1. pc'[t] \notin DrainPCs /\ \A u \in Threads \ {t} : pc'[u] = pc[u] /\ ep'[u] = ep[u]
  BY ReturnEffect DEF FifoInv
<1> QED BY <1>1, OutsidePend DEF FifoInv, DrainPCs

LEMMA SameLocalsPend ==
  ASSUME FifoInv, FifoInv', UNCHANGED <<txq, pc, ep, packet, send_queue>>
  PROVE  Pend' = Pend
<1>1. \A u \in Threads : \A e \in Eps : Draining(u, e)' <=> Draining(u, e)
  BY DEF Draining
<1>2. \A u \in Threads : pc[u] \in DrainPCs => InHand(u)' = InHand(u)
  BY DEF InHand
<1> QED BY <1>1, <1>2, PendFrame DEF FifoInv

LEMMA TxCompletionSim ==
  ASSUME FifoInv, FifoInv', NEW t \in Threads, NEW p \in Packets, TxCompletion(t, p)
  PROVE  [Abs!Next]_(Abs!vars)
<1>1. p \in io_comp_queue /\ io_comp_queue' = io_comp_queue \ {p} /\ UNCHANGED <<bus, tgt_data>>
  BY DEF TxCompletion
<1>2. Pend' = Pend
  BY ReturnPend DEF TxCompletion, lockVars
<1>3. p \notin bus
  <2>1. Here(Bus) \cap Here(Done) = {}
    BY SpotsAre DEF FifoInv, OwnInv, OneSpot, Bus, Done
  <2> QED BY <1>1, <2>1, HereIs
<1> QED BY <1>1, <1>2, <1>3, Completes

LEMMA DataCreditReportSim ==
  ASSUME FifoInv, FifoInv', NEW t \in Threads, NEW n \in 1..TgtCreds, DataCreditReport(t, n)
  PROVE  [Abs!Next]_(Abs!vars)
<1>1. n <= tgt_data /\ tgt_data' = tgt_data - n /\ UNCHANGED <<bus, io_comp_queue>>
  BY DEF DataCreditReport
<1>2. Pend' = Pend
  BY ReturnPend DEF DataCreditReport
<1>3. n \in 1..tgt_data /\ n \in 1..(TgtCreds - 1)
  BY <1>1, CommittedBound
<1> QED BY <1>1, <1>2, <1>3, Reports

\* A flush cuts the pending packets behind what the drainer has in hand.
LEMMA FlushSim ==
  ASSUME FifoInv, FifoInv', NEW t \in Threads, NEW e \in Eps, FlushTxEndpoint(t, e)
  PROVE  [Abs!Next]_(Abs!vars)
<1>1. /\ pc[t] = "idle" /\ txq[e] # <<>> /\ txq[e] \in Seq(Packets)
      /\ UNCHANGED <<pc, ep, packet, send_queue, bus, io_comp_queue, tgt_data>>
      /\ txq'[e] = <<>> /\ \A d \in Eps \ {e} : txq'[d] = txq[d]
  BY FifoTypes DEF FlushTxEndpoint, localVars, hifVars
<1>2. Works(t, e)
  BY <1>1 DEF Works, Draining
<1>3. PICK h \in Seq(Packets) : Pend[e] = h \o txq[e] /\ Pending(e)' = h
  <2>1. CASE \E u \in Threads : Draining(u, e)
    <3>1. PICK u \in Threads : Draining(u, e)
      BY <2>1
    <3>2. Draining(u, e)' /\ InHand(u)' = InHand(u)
      BY <1>1, <3>1 DEF Draining, InHand
    <3>3. InHand(u) \in Seq(Packets)
      <4>1. send_queue[u] \in Seq(Packets) /\ (pc[u] = "submit" => packet[u] \in Packets)
        BY FifoTypes
      <4> QED BY <4>1 DEF InHand
    <3>4. Pend[e] = InHand(u) \o txq[e] /\ Pending(e)' = InHand(u) \o <<>>
      BY <1>1, <3>1, <3>2, PendingIs, PendingNext DEF FifoInv, Pend
    <3> QED BY <3>3, <3>4, EmptyConcat
  <2>2. CASE \A u \in Threads : ~Draining(u, e)
    <3>1. \A u \in Threads : ~Draining(u, e)'
      BY <1>1, <2>2 DEF Draining
    <3>2. Pend[e] = txq[e] /\ Pending(e)' = <<>>
      BY <1>1, <2>2, <3>1, PendingIs, PendingNext DEF FifoInv, Pend
    <3>3. <<>> \in Seq(Packets) /\ txq[e] = <<>> \o txq[e]
      BY <1>1, EmptyConcat
    <3> QED BY <3>2, <3>3
  <2> QED BY <2>1, <2>2
<1>4. Pend' = [Pend EXCEPT ![e] = h]
  BY <1>2, <1>3, PendUpdate DEF FifoInv
<1>5. /\ Len(Pend[e]) = Len(h) + Len(txq[e]) /\ SubSeq(Pend[e], 1, Len(h)) = h
      /\ Len(h) \in Nat /\ Len(txq[e]) \in Nat \ {0}
  BY <1>1, <1>3, ConcatParts
<1>6. PICK k \in 0..Len(Pend[e]) - 1 : k = Len(h)
  <2>1. Len(h) \in 0..Len(Pend[e]) - 1
    BY <1>5
  <2> QED BY <2>1
<1>7. Pend' = [Pend EXCEPT ![e] = SubSeq(@, 1, k)]
  BY <1>4, <1>5, <1>6
<1> QED BY <1>1, <1>7, Flushes

LEMMA NextSim == FifoInv /\ FifoInv' /\ [Next]_vars => [Abs!Next]_(Abs!vars)
<1> SUFFICES ASSUME FifoInv, FifoInv', [Next]_vars PROVE [Abs!Next]_(Abs!vars)
  OBVIOUS
<1>1. ASSUME NEW p \in Packets, UrbComplete(p) PROVE [Abs!Next]_(Abs!vars)
  <2>1. /\ UNCHANGED <<txq, pc, ep, packet, send_queue, tgt_data>>
        /\ bus' \cup io_comp_queue' = bus \cup io_comp_queue
    BY <1>1 DEF UrbComplete, lockVars, localVars
  <2> QED BY <2>1, SameLocalsPend, StuttersHif
<1>2. ASSUME NEW t \in Threads, NEW n \in 1..TgtCreds, CtrlCreditReport(t, n)
      PROVE  [Abs!Next]_(Abs!vars)
  <2>1. Pend' = Pend
    BY <1>2, ReturnPend DEF CtrlCreditReport
  <2> QED BY <1>2, <2>1, Stutters DEF CtrlCreditReport
<1>3. ASSUME NEW t \in Threads, CtlEpTimer(t) PROVE [Abs!Next]_(Abs!vars)
  <2>1. Pend' = Pend
    BY <1>3, ReturnPend DEF CtlEpTimer
  <2> QED BY <1>3, <2>1, Stutters DEF CtlEpTimer, hifVars
<1>4. CASE LoseCtrlCredit \/ UNCHANGED vars
  <2>1. UNCHANGED <<txq, pc, ep, packet, send_queue, bus, io_comp_queue, tgt_data>>
    BY <1>4 DEF LoseCtrlCredit, vars, lockVars, localVars, hifVars
  <2> QED BY <2>1, SameLocalsPend, Stutters
<1> QED
  BY <1>1, <1>2, <1>3, <1>4, SendSim, FlushSim, InsideSim, TxCompletionSim,
     DataCreditReportSim DEF Next, Threads

\* The transmit path implements per-endpoint FIFO queues with bounded credit:
\* every step of htc_pipe.c's sender, drainer, completion, report, flush and
\* timer is a step of HtcTxAbs or changes nothing it sees.
THEOREM ImplementsFifoHolds == Spec => ImplementsFifo
<1>1. Init => Abs!Init
  BY InitAbs
<1>2. FifoInv /\ FifoInv' /\ [Next]_vars => [Abs!Next]_(Abs!vars)
  BY NextSim
<1> QED BY <1>1, <1>2, FifoInvHolds, PTL DEF Spec, ImplementsFifo, Abs!Spec
=============================================================================
