--------------------------- MODULE HtcTxOwnProofs ---------------------------
(***************************************************************************)
(* Who owns a packet of the HTC transmit path, for every number of         *)
(* threads, packets and endpoints: each packet has one owner, and the      *)
(* lookup queue holds what the HIF has.                                    *)
(***************************************************************************)
EXTENDS HtcTxProofs, SubsequenceProofs

-----------------------------------------------------------------------------
(* The spots a packet can be in: with the upper layer, with the HIF before and
   after its URB completed, in a thread's hand or on its send queue, on a txq. *)

Upper == <<"upper", NoPkt>>
Bus == <<"bus", NoPkt>>
Done == <<"done", NoPkt>>
HandOf(t) == <<"hand", t>>
SendOf(t) == <<"send", t>>
TxqOf(e) == <<"txq", e>>

Spots == ({"upper", "bus", "done"} \X {NoPkt}) \cup ({"hand", "send"} \X Threads)
         \cup ({"txq"} \X Eps)

Here(s) ==
  CASE s[1] = "upper" -> upper
    [] s[1] = "bus"   -> bus
    [] s[1] = "done"  -> io_comp_queue
    [] s[1] = "hand"  -> {packet[s[2]]} \ {NoPkt}
    [] s[1] = "send"  -> Range(send_queue[s[2]])
    [] OTHER          -> Range(txq[s[2]])

OneSpot ==
  /\ \A r, s \in Spots : r # s => Here(r) \cap Here(s) = {}
  /\ \A p \in Packets : \E s \in Spots : p \in Here(s)

QueuesDistinct ==
  (\A e \in Eps : Distinct(txq[e])) /\ (\A t \in Threads : Distinct(send_queue[t]))

OwnInv == OneSpot /\ QueuesDistinct /\ LookupMatchesHif

\* The packets in X go from the spots in O to the spot r.
Transfer(O, r, X) ==
  /\ O \subseteq Spots /\ r \in Spots \ O
  /\ \A x \in X : \E o \in O : x \in Here(o)
  /\ \A o \in O : Here(o)' = Here(o) \ X
  /\ Here(r)' = Here(r) \cup X
  /\ \A s \in Spots \ O : s # r => Here(s)' = Here(s)

LEMMA TransferKeeps ==
  ASSUME OneSpot, NEW O, NEW r, NEW X, Transfer(O, r, X)
  PROVE  OneSpot'
<1> USE DEF Transfer
<1>1. \A s \in Spots \ O : Here(s) \cap X = {}
  BY DEF OneSpot
<1>2. \A s \in Spots : Here(s)' = IF s = r THEN Here(s) \cup X ELSE Here(s) \ X
  BY <1>1
<1>3. ASSUME NEW s \in Spots, NEW q \in Spots, s # q PROVE Here(s)' \cap Here(q)' = {}
  <2>1. Here(s) \cap Here(q) = {}
    BY <1>3 DEF OneSpot
  <2>2. /\ Here(s)' = IF s = r THEN Here(s) \cup X ELSE Here(s) \ X
        /\ Here(q)' = IF q = r THEN Here(q) \cup X ELSE Here(q) \ X
    BY <1>2
  <2> QED BY <1>3, <2>1, <2>2
<1>4. ASSUME NEW p \in Packets PROVE \E s \in Spots : p \in Here(s)'
  <2>1. PICK s \in Spots : p \in Here(s)
    BY DEF OneSpot
  <2>2. CASE p \in X
    BY <2>2
  <2>3. CASE p \notin X
    BY <2>1, <2>3, <1>2
  <2> QED BY <2>2, <2>3
<1> QED BY <1>3, <1>4 DEF OneSpot, Spots

LEMMA SpotsAre ==
  /\ Upper \in Spots /\ Bus \in Spots /\ Done \in Spots
  /\ \A t \in Threads : HandOf(t) \in Spots /\ SendOf(t) \in Spots
  /\ \A e \in Eps : TxqOf(e) \in Spots
  /\ \A s \in Spots : \/ s \in {Upper, Bus, Done}
                      \/ \E t \in Threads : s = HandOf(t) \/ s = SendOf(t)
                      \/ \E e \in Eps : s = TxqOf(e)
  /\ \A t \in Threads, e \in Eps :
       /\ Upper # Bus /\ Upper # Done /\ Bus # Done
       /\ HandOf(t) \notin {Upper, Bus, Done, SendOf(t), TxqOf(e)}
       /\ SendOf(t) \notin {Upper, Bus, Done, TxqOf(e)}
       /\ TxqOf(e) \notin {Upper, Bus, Done}
BY DEF Spots, Upper, Bus, Done, HandOf, SendOf, TxqOf

LEMMA HereIs ==
  /\ Here(Upper) = upper /\ Here(Bus) = bus /\ Here(Done) = io_comp_queue
  /\ \A t \in Threads : /\ Here(HandOf(t)) = {packet[t]} \ {NoPkt}
                        /\ Here(SendOf(t)) = Range(send_queue[t])
  /\ \A e \in Eps : Here(TxqOf(e)) = Range(txq[e])
BY DEF Here, Upper, Bus, Done, HandOf, SendOf, TxqOf

LEMMA HereNext ==
  /\ Here(Upper)' = upper' /\ Here(Bus)' = bus' /\ Here(Done)' = io_comp_queue'
  /\ \A t \in Threads : /\ Here(HandOf(t))' = {packet'[t]} \ {NoPkt}
                        /\ Here(SendOf(t))' = Range(send_queue'[t])
  /\ \A e \in Eps : Here(TxqOf(e))' = Range(txq'[e])
BY DEF Here, Upper, Bus, Done, HandOf, SendOf, TxqOf

\* A step of thread t that works on endpoint e leaves the other spots alone.
Touched(t, e) == {Upper, Bus, Done, HandOf(t), SendOf(t), TxqOf(e)}

LEMMA OtherSpots ==
  ASSUME NEW t \in Threads, NEW e \in Eps,
         \A u \in Threads \ {t} : packet'[u] = packet[u] /\ send_queue'[u] = send_queue[u],
         \A d \in Eps \ {e} : txq'[d] = txq[d],
         NEW s \in Spots \ Touched(t, e)
  PROVE  Here(s)' = Here(s)
<1>1. \/ \E u \in Threads \ {t} : s = HandOf(u) \/ s = SendOf(u)
      \/ \E d \in Eps \ {e} : s = TxqOf(d)
  BY SpotsAre DEF Touched
<1> QED BY <1>1, HereIs, HereNext

\* The same, with the spots it touches: O gives the packets in X to r.
Give(t, e, O, r, X) ==
  /\ \A u \in Threads \ {t} : packet'[u] = packet[u] /\ send_queue'[u] = send_queue[u]
  /\ \A d \in Eps \ {e} : txq'[d] = txq[d]
  /\ O \subseteq Touched(t, e) /\ r \in Touched(t, e) \ O
  /\ \A x \in X : \E o \in O : x \in Here(o)
  /\ \A o \in O : Here(o)' = Here(o) \ X
  /\ Here(r)' = Here(r) \cup X
  /\ \A s \in Touched(t, e) \ O : s # r => Here(s)' = Here(s)

LEMMA GiveKeeps ==
  ASSUME OneSpot, NEW t \in Threads, NEW e \in Eps, NEW O, NEW r, NEW X,
         Give(t, e, O, r, X)
  PROVE  OneSpot'
<1>1. O \subseteq Spots /\ r \in Spots \ O
  BY SpotsAre DEF Touched, Give
<1>2. ASSUME NEW s \in Spots \ O, s # r PROVE Here(s)' = Here(s)
  <2>1. CASE s \in Touched(t, e)
    BY <1>2, <2>1 DEF Give
  <2>2. CASE s \notin Touched(t, e)
    BY <1>2, <2>2, OtherSpots DEF Give
  <2> QED BY <2>1, <2>2
<1>3. Transfer(O, r, X)
  BY <1>1, <1>2 DEF Give, Transfer
<1> QED BY <1>3, TransferKeeps

LEMMA SpotsUnmoved ==
  ASSUME UNCHANGED <<upper, bus, io_comp_queue, packet, send_queue, txq>>
  PROVE  /\ OneSpot => OneSpot'
         /\ QueuesDistinct => QueuesDistinct'
<1>1. \A s \in Spots : Here(s)' = Here(s)
  BY DEF Here
<1> QED BY <1>1 DEF OneSpot, QueuesDistinct, Spots

-----------------------------------------------------------------------------
(* The lookup queue *)

LEMMA LookupFrame ==
  ASSUME LookupMatchesHif, UNCHANGED <<tx_lookup_queue, bus, io_comp_queue>>,
         \A u \in Threads : /\ pc'[u] = "submit" <=> pc[u] = "submit"
                            /\ pc[u] = "submit" => packet'[u] = packet[u]
  PROVE  LookupMatchesHif'
BY DEF LookupMatchesHif

\* What a thread submits is in its hand alone.
LEMMA SubmitAlone ==
  ASSUME TypeInv, OneSpot, NEW t \in Threads, packet[t] \in Packets
  PROVE  /\ packet[t] \in Here(HandOf(t)) /\ packet[t] # NoPkt
         /\ \A s \in Spots : s # HandOf(t) => packet[t] \notin Here(s)
         /\ \A u \in Threads : packet[u] = packet[t] => u = t
<1>1. packet[t] # NoPkt
  BY ConstantsOK DEF ConstantsOK
<1>2. packet[t] \in Here(HandOf(t)) /\ HandOf(t) \in Spots
  BY <1>1, HereIs, SpotsAre
<1>3. ASSUME NEW u \in Threads, packet[u] = packet[t] PROVE u = t
  <2>1. packet[u] \in Here(HandOf(u)) /\ HandOf(u) \in Spots
    BY <1>1, <1>3, HereIs, SpotsAre
  <2>2. HandOf(u) = HandOf(t)
    BY <1>2, <1>3, <2>1 DEF OneSpot
  <2> QED BY <2>2 DEF HandOf
<1> QED BY <1>1, <1>2, <1>3 DEF OneSpot

\* What the proofs need of the state before a step of t.
LEMMA OwnTypes ==
  ASSUME TypeInv, OwnInv, NEW t \in Threads
  PROVE  /\ pc \in [Threads -> PCs] /\ packet \in [Threads -> Packets \cup {NoPkt}]
         /\ send_queue \in [Threads -> Seq(Packets)] /\ txq \in [Eps -> Seq(Packets)]
         /\ NoPkt \notin Packets /\ ep[t] \in Eps
         /\ pc[t] \in {"schedq", "depth", "submit"} => packet[t] \in Packets
         /\ pc[t] \notin {"schedq", "depth", "submit"} => packet[t] = NoPkt
         /\ pc[t] \notin {"read", "enter", "get", "issue", "submit"} => send_queue[t] = <<>>
         /\ pc[t] = "issue" => send_queue[t] # <<>>
         /\ \A e \in Eps : Distinct(txq[e])
         /\ \A u \in Threads : Distinct(send_queue[u])
<1>1. /\ pc \in [Threads -> PCs] /\ packet \in [Threads -> Packets \cup {NoPkt}]
      /\ send_queue \in [Threads -> Seq(Packets)] /\ txq \in [Eps -> Seq(Packets)]
      /\ ep[t] \in Eps
  BY LocalsType DEF TypeInv, TypeOK, TypeControl, TypeLocals, TypeQueues
<1>2. /\ pc[t] \in {"schedq", "depth", "submit"} => packet[t] \in Packets
      /\ pc[t] \notin {"schedq", "depth", "submit"} => packet[t] = NoPkt
      /\ pc[t] \notin {"read", "enter", "get", "issue", "submit"} => send_queue[t] = <<>>
      /\ pc[t] = "issue" => send_queue[t] # <<>>
  BY DEF TypeInv, LocalsOK, LocalsOf, PktsOf
<1>3. NoPkt \notin Packets
  BY ConstantsOK DEF ConstantsOK
<1> QED BY <1>1, <1>2, <1>3 DEF OwnInv, QueuesDistinct

LEMMA EmptyRange == Range(<<>>) = {} /\ Distinct(<<>>)
BY DEF Range, Distinct

LEMMA SendOwn ==
  ASSUME TypeInv, OwnInv, NEW t \in Threads, NEW p \in Packets, Send(t, p)
  PROVE  OwnInv'
<1> USE OwnTypes
<1>1. /\ p \in upper /\ upper' = upper \ {p} /\ packet[t] = NoPkt
      /\ packet' = [packet EXCEPT ![t] = p] /\ pc[t] = "idle"
      /\ UNCHANGED <<txq, send_queue, bus, io_comp_queue, tx_lookup_queue>>
      /\ \E l \in {"schedq", "depth"} : pc' = [pc EXCEPT ![t] = l]
  BY DEF Send, lockVars, hifVars
<1>2. PktEp[p] \in Eps
  BY ConstantsOK DEF ConstantsOK
<1>3. OneSpot'
  <2>1. Give(t, PktEp[p], {Upper}, HandOf(t), {p})
    BY <1>1, <1>2, HereIs, HereNext, SpotsAre DEF Give, Touched
  <2> QED BY <1>2, <2>1, GiveKeeps DEF OwnInv
<1>4. QueuesDistinct'
  BY <1>1 DEF QueuesDistinct
<1>5. LookupMatchesHif'
  BY <1>1, LookupFrame DEF OwnInv
<1> QED BY <1>3, <1>4, <1>5 DEF OwnInv

LEMMA SchedQueueOwn ==
  ASSUME TypeInv, OwnInv, NEW t \in Threads, SchedQueue(t)
  PROVE  OwnInv'
<1> USE OwnTypes
<1>a. pc[t] = "schedq"
  BY DEF SchedQueue
<1>b. PICK e \in Eps, p \in Packets : e = ep[t] /\ p = packet[t]
  BY <1>a
<1>c. PICK q : q = Append(txq[e], p)
  OBVIOUS
<1>1. /\ p # NoPkt
      /\ packet' = [packet EXCEPT ![t] = NoPkt]
      /\ UNCHANGED <<send_queue, bus, io_comp_queue, tx_lookup_queue>>
      /\ \/ txq' = [txq EXCEPT ![e] = q] /\ UNCHANGED upper
         \/ upper' = upper \cup {p} /\ UNCHANGED txq
  BY <1>a, <1>b, <1>c DEF SchedQueue, hifVars
<1>2. \E l \in {"starve", "idle", "call"} : pc' = [pc EXCEPT ![t] = l]
  BY DEF SchedQueue, Return
<1>3. p \notin Range(txq[e])
  BY <1>b, SubmitAlone, SpotsAre, HereIs DEF OwnInv
<1>4. Range(q) = Range(txq[e]) \cup {p} /\ Distinct(q)
  BY <1>b, <1>c, <1>3, RangeAppend, DistinctAppend
<1>5. OneSpot' /\ QueuesDistinct'
  <2>1. CASE txq' = [txq EXCEPT ![e] = q] /\ UNCHANGED upper
    <3>1. Give(t, e, {HandOf(t)}, TxqOf(e), {p})
      BY <1>1, <1>b, <1>4, <2>1, HereNext, HereIs, SpotsAre DEF Give, Touched
    <3>2. QueuesDistinct'
      BY <1>1, <1>4, <2>1 DEF OwnInv, QueuesDistinct
    <3> QED BY <3>1, <3>2, GiveKeeps DEF OwnInv
  <2>2. CASE upper' = upper \cup {p} /\ UNCHANGED txq
    <3>1. Give(t, e, {HandOf(t)}, Upper, {p})
      BY <1>1, <1>b, <2>2, HereIs, HereNext, SpotsAre DEF Give, Touched
    <3>2. QueuesDistinct'
      BY <1>1, <2>2 DEF OwnInv, QueuesDistinct
    <3> QED BY <1>1, <3>1, <3>2, GiveKeeps DEF OwnInv
  <2> QED BY <1>1, <2>1, <2>2
<1>6. LookupMatchesHif'
  BY <1>1, <1>2, <1>a, LookupFrame DEF OwnInv
<1> QED BY <1>5, <1>6 DEF OwnInv

LEMMA CheckDepthOwn ==
  ASSUME TypeInv, OwnInv, NEW t \in Threads, CheckDepth(t)
  PROVE  OwnInv'
<1> USE OwnTypes
<1>a. pc[t] = "depth"
  BY DEF CheckDepth
<1>b. PICK e \in Eps, p \in Packets : e = ep[t] /\ p = packet[t]
  BY <1>a
<1>c. PICK q : q = <<p>>
  OBVIOUS
<1>1. /\ p # NoPkt /\ send_queue[t] = <<>>
      /\ packet' = [packet EXCEPT ![t] = NoPkt]
      /\ UNCHANGED <<txq, bus, io_comp_queue, tx_lookup_queue>>
      /\ \/ send_queue' = [send_queue EXCEPT ![t] = q] /\ UNCHANGED upper
         \/ upper' = upper \cup {p} /\ UNCHANGED send_queue
  BY <1>a, <1>b, <1>c DEF CheckDepth, hifVars, lockVars
<1>2. \E l \in {"read", "enter", "idle", "call"} : pc' = [pc EXCEPT ![t] = l]
  BY DEF CheckDepth, Return, ReadFirst
<1>3. Range(q) = {p} /\ Distinct(q) /\ Range(send_queue[t]) = {}
  BY <1>1, <1>c, EmptyRange DEF Range, Distinct
<1>4. OneSpot' /\ QueuesDistinct'
  <2>1. CASE send_queue' = [send_queue EXCEPT ![t] = q] /\ UNCHANGED upper
    <3>1. Give(t, e, {HandOf(t)}, SendOf(t), {p})
      BY <1>1, <1>b, <1>3, <2>1, HereIs, HereNext, SpotsAre DEF Give, Touched
    <3>2. QueuesDistinct'
      BY <1>1, <1>3, <2>1 DEF OwnInv, QueuesDistinct
    <3> QED BY <3>1, <3>2, GiveKeeps DEF OwnInv
  <2>2. CASE upper' = upper \cup {p} /\ UNCHANGED send_queue
    <3>1. Give(t, e, {HandOf(t)}, Upper, {p})
      BY <1>1, <1>b, <2>2, HereIs, HereNext, SpotsAre DEF Give, Touched
    <3>2. QueuesDistinct'
      BY <1>1, <2>2 DEF OwnInv, QueuesDistinct
    <3> QED BY <3>1, <3>2, GiveKeeps DEF OwnInv
  <2> QED BY <1>1, <2>1, <2>2
<1>5. LookupMatchesHif'
  BY <1>1, <1>2, <1>a, LookupFrame DEF OwnInv
<1> QED BY <1>4, <1>5 DEF OwnInv

LEMMA EnterOwn ==
  ASSUME TypeInv, OwnInv, NEW t \in Threads, Enter(t)
  PROVE  OwnInv'
<1> USE OwnTypes
<1>a. PICK e \in Eps : e = ep[t]
  OBVIOUS
<1>b. PICK q : q = txq[e] \o send_queue[t]
  OBVIOUS
<1>c. PICK X : X = Range(send_queue[t])
  OBVIOUS
<1>1. /\ txq' = [txq EXCEPT ![e] = q]
      /\ send_queue' = [send_queue EXCEPT ![t] = <<>>]
      /\ UNCHANGED <<packet, upper, bus, io_comp_queue, tx_lookup_queue>>
  BY <1>a, <1>b DEF Enter, hifVars, Spliced
<1>2. pc[t] = "enter" /\ \E l \in {"get", "idle", "call"} : pc' = [pc EXCEPT ![t] = l]
  BY DEF Enter, Return
<1>3. X \cap Range(txq[e]) = {}
  <2>1. Here(SendOf(t)) \cap Here(TxqOf(e)) = {}
    BY SpotsAre DEF OwnInv, OneSpot
  <2> QED BY <1>c, <2>1, HereIs
<1>4. Range(q) = Range(txq[e]) \cup X /\ Distinct(q)
  <2>1. txq[e] \in Seq(Packets) /\ send_queue[t] \in Seq(Packets)
    OBVIOUS
  <2>2. Distinct(txq[e]) /\ Distinct(send_queue[t])
    OBVIOUS
  <2>3. Range(q) = Range(txq[e]) \cup X
    BY <1>b, <1>c, <2>1, RangeConcat
  <2>4. Distinct(q)
    BY <1>b, <1>c, <1>3, <2>1, <2>2, DistinctConcat
  <2> QED BY <2>3, <2>4
<1>5. OneSpot'
  <2>1. /\ Here(TxqOf(e))' = Here(TxqOf(e)) \cup X /\ Here(SendOf(t)) = X
        /\ Here(SendOf(t))' = {}
    BY <1>1, <1>4, <1>c, HereIs, HereNext, EmptyRange
  <2>2. /\ Here(Upper)' = Here(Upper) /\ Here(Bus)' = Here(Bus)
        /\ Here(Done)' = Here(Done) /\ Here(HandOf(t))' = Here(HandOf(t))
    BY <1>1, HereIs, HereNext
  <2>3. /\ \A u \in Threads \ {t} : packet'[u] = packet[u] /\ send_queue'[u] = send_queue[u]
        /\ \A d \in Eps \ {e} : txq'[d] = txq[d]
    BY <1>1
  <2>4. Give(t, e, {SendOf(t)}, TxqOf(e), X)
    BY <2>1, <2>2, <2>3, SpotsAre DEF Give, Touched
  <2> QED BY <2>4, GiveKeeps DEF OwnInv
<1>6. QueuesDistinct'
  BY <1>1, <1>4, EmptyRange DEF OwnInv, QueuesDistinct
<1>7. LookupMatchesHif'
  BY <1>1, <1>2, LookupFrame DEF OwnInv
<1> QED BY <1>5, <1>6, <1>7 DEF OwnInv

LEMMA GetPacketOwn ==
  ASSUME TypeInv, OwnInv, NEW t \in Threads, GetPacket(t)
  PROVE  OwnInv'
<1> USE OwnTypes
<1>a. PICK e \in Eps : e = ep[t]
  OBVIOUS
<1>b. txq[e] # <<>> /\ txq[e] \in Seq(Packets)
  BY <1>a DEF GetPacket, CanTake
<1>c. PICK p \in Packets : p = Head(txq[e])
  BY <1>b
<1>d. PICK q, r : q = Tail(txq[e]) /\ r = Append(send_queue[t], p)
  OBVIOUS
<1>1. /\ txq' = [txq EXCEPT ![e] = q]
      /\ send_queue' = [send_queue EXCEPT ![t] = r]
      /\ UNCHANGED <<pc, packet, upper, bus, io_comp_queue, tx_lookup_queue>>
  BY <1>a, <1>c, <1>d DEF GetPacket, hifVars
<1>2. p \in Range(txq[e]) /\ Distinct(q) /\ Range(q) = Range(txq[e]) \ {p}
  BY <1>b, <1>c, <1>d, DistinctTail
<1>3. p \notin Range(send_queue[t])
  <2>1. Here(SendOf(t)) \cap Here(TxqOf(e)) = {}
    BY SpotsAre DEF OwnInv, OneSpot
  <2> QED BY <1>2, <2>1, HereIs
<1>4. Range(r) = Range(send_queue[t]) \cup {p} /\ Distinct(r)
  BY <1>d, <1>3, RangeAppend, DistinctAppend
<1>5. OneSpot'
  <2>1. /\ Here(TxqOf(e))' = Here(TxqOf(e)) \ {p} /\ p \in Here(TxqOf(e))
        /\ Here(SendOf(t))' = Here(SendOf(t)) \cup {p}
    BY <1>1, <1>2, <1>4, HereIs, HereNext
  <2>2. /\ Here(Upper)' = Here(Upper) /\ Here(Bus)' = Here(Bus)
        /\ Here(Done)' = Here(Done) /\ Here(HandOf(t))' = Here(HandOf(t))
    BY <1>1, HereIs, HereNext
  <2>3. /\ \A u \in Threads \ {t} : packet'[u] = packet[u] /\ send_queue'[u] = send_queue[u]
        /\ \A d \in Eps \ {e} : txq'[d] = txq[d]
    BY <1>1
  <2>4. Give(t, e, {TxqOf(e)}, SendOf(t), {p})
    BY <2>1, <2>2, <2>3, SpotsAre DEF Give, Touched
  <2> QED BY <2>4, GiveKeeps DEF OwnInv
<1>6. QueuesDistinct'
  BY <1>1, <1>2, <1>4 DEF OwnInv, QueuesDistinct
<1>7. LookupMatchesHif'
  BY <1>1, LookupFrame DEF OwnInv
<1> QED BY <1>5, <1>6, <1>7 DEF OwnInv

LEMMA FileLookupOwn ==
  ASSUME TypeInv, OwnInv, NEW t \in Threads, FileLookup(t)
  PROVE  OwnInv'
<1> USE OwnTypes
<1>a. pc[t] = "issue" /\ send_queue[t] # <<>> /\ send_queue[t] \in Seq(Packets)
  BY DEF FileLookup
<1>b. PICK p \in Packets : p = Head(send_queue[t])
  BY <1>a
<1>c. PICK q : q = Tail(send_queue[t])
  OBVIOUS
<1>1. /\ tx_lookup_queue' = tx_lookup_queue \cup {p} /\ p # NoPkt /\ packet[t] = NoPkt
      /\ packet' = [packet EXCEPT ![t] = p]
      /\ send_queue' = [send_queue EXCEPT ![t] = q]
      /\ pc' = [pc EXCEPT ![t] = "submit"]
      /\ UNCHANGED <<txq, upper, bus, io_comp_queue>>
  BY <1>a, <1>b, <1>c DEF FileLookup, lockVars, hifVars
<1>2. p \in Range(send_queue[t]) /\ Distinct(q) /\ Range(q) = Range(send_queue[t]) \ {p}
  BY <1>a, <1>b, <1>c, DistinctTail
<1>3. OneSpot'
  <2> PICK e \in Eps : TRUE
    BY DEF Eps
  <2>1. /\ Here(SendOf(t))' = Here(SendOf(t)) \ {p} /\ p \in Here(SendOf(t))
        /\ Here(HandOf(t))' = Here(HandOf(t)) \cup {p}
    BY <1>1, <1>2, HereIs, HereNext
  <2>2. /\ Here(Upper)' = Here(Upper) /\ Here(Bus)' = Here(Bus)
        /\ Here(Done)' = Here(Done) /\ Here(TxqOf(e))' = Here(TxqOf(e))
    BY <1>1, HereIs, HereNext
  <2>3. /\ \A u \in Threads \ {t} : packet'[u] = packet[u] /\ send_queue'[u] = send_queue[u]
        /\ \A d \in Eps \ {e} : txq'[d] = txq[d]
    BY <1>1
  <2>4. Give(t, e, {SendOf(t)}, HandOf(t), {p})
    BY <2>1, <2>2, <2>3, SpotsAre DEF Give, Touched
  <2> QED BY <2>4, GiveKeeps DEF OwnInv
<1>4. QueuesDistinct'
  BY <1>1, <1>2 DEF OwnInv, QueuesDistinct
<1>5. LookupMatchesHif'
  <2>1. {packet'[u] : u \in {v \in Threads : pc'[v] = "submit"}}
          = {packet[u] : u \in {v \in Threads : pc[v] = "submit"}} \cup {p}
    BY <1>1, <1>a
  <2> QED BY <1>1, <2>1 DEF OwnInv, LookupMatchesHif
<1> QED BY <1>3, <1>4, <1>5 DEF OwnInv

LEMMA IssueOkOwn ==
  ASSUME TypeInv, OwnInv, NEW t \in Threads, IssueOk(t)
  PROVE  OwnInv'
<1> USE OwnTypes
<1>a. pc[t] = "submit"
  BY DEF IssueOk
<1>b. PICK p \in Packets : p = packet[t]
  BY <1>a
<1>1. /\ bus' = bus \cup {p} /\ p # NoPkt /\ packet' = [packet EXCEPT ![t] = NoPkt]
      /\ \E l \in {"issue", "reread", "relock"} : pc' = [pc EXCEPT ![t] = l]
      /\ UNCHANGED <<txq, upper, io_comp_queue, send_queue, tx_lookup_queue>>
  BY <1>a, <1>b DEF IssueOk, IssueDone, ReadFirst
<1>2. OneSpot'
  <2> PICK e \in Eps : TRUE
    BY DEF Eps
  <2>1. /\ Here(HandOf(t))' = Here(HandOf(t)) \ {p} /\ p \in Here(HandOf(t))
        /\ Here(Bus)' = Here(Bus) \cup {p}
    BY <1>1, <1>b, HereIs, HereNext
  <2>2. /\ Here(Upper)' = Here(Upper) /\ Here(SendOf(t))' = Here(SendOf(t))
        /\ Here(Done)' = Here(Done) /\ Here(TxqOf(e))' = Here(TxqOf(e))
    BY <1>1, HereIs, HereNext
  <2>3. /\ \A u \in Threads \ {t} : packet'[u] = packet[u] /\ send_queue'[u] = send_queue[u]
        /\ \A d \in Eps \ {e} : txq'[d] = txq[d]
    BY <1>1
  <2>4. Give(t, e, {HandOf(t)}, Bus, {p})
    BY <2>1, <2>2, <2>3, SpotsAre DEF Give, Touched
  <2> QED BY <2>4, GiveKeeps DEF OwnInv
<1>3. QueuesDistinct'
  BY <1>1 DEF OwnInv, QueuesDistinct
<1>4. LookupMatchesHif'
  <2>1. \A u \in Threads : pc[u] = "submit" <=> u = t \/ pc'[u] = "submit"
    BY <1>1, <1>a
  <2>2. \A u \in Threads : pc'[u] = "submit" => u # t /\ packet'[u] = packet[u]
    BY <1>1, <1>a
  <2>3. {packet[u] : u \in {v \in Threads : pc[v] = "submit"}}
          = {packet'[u] : u \in {v \in Threads : pc'[v] = "submit"}} \cup {p}
    BY <1>b, <2>1, <2>2, ZenonT(30)
  <2> QED BY <1>1, <2>3 DEF OwnInv, LookupMatchesHif
<1> QED BY <1>2, <1>3, <1>4 DEF OwnInv

LEMMA ToSetIsRange ==
  ASSUME NEW S, NEW s \in Seq(S)
  PROVE  ToSet(s) = Range(s)
BY DEF ToSet, Range

LEMMA IssueFailOwn ==
  ASSUME TypeInv, OwnInv, NEW t \in Threads, IssueFail(t)
  PROVE  OwnInv'
<1> USE OwnTypes
<1>a. pc[t] = "submit"
  BY DEF IssueFail
<1>b. PICK p \in Packets : p = packet[t]
  BY <1>a
<1>c. PICK X : X = {p} \cup Range(send_queue[t])
  OBVIOUS
<1>d. Failed(t) = X
  BY <1>b, <1>c, ToSetIsRange DEF Failed
<1>1. /\ upper' = upper \cup X /\ p # NoPkt /\ packet' = [packet EXCEPT ![t] = NoPkt]
      /\ send_queue' = [send_queue EXCEPT ![t] = <<>>]
      /\ tx_lookup_queue' = tx_lookup_queue \ {p}
      /\ \E l \in {"issue", "reread", "relock"} : pc' = [pc EXCEPT ![t] = l]
      /\ UNCHANGED <<txq, bus, io_comp_queue>>
  BY <1>a, <1>b, <1>d DEF IssueFail, IssueDone, ReadFirst, Unfiled, hifVars
<1>2. OneSpot'
  <2> PICK e \in Eps : TRUE
    BY DEF Eps
  <2>1. /\ Here(HandOf(t)) = {p} /\ Here(HandOf(t))' = {}
        /\ Here(SendOf(t)) = Range(send_queue[t]) /\ Here(SendOf(t))' = {}
        /\ Here(Upper)' = Here(Upper) \cup X
    BY <1>1, <1>b, HereIs, HereNext, EmptyRange
  <2>2. /\ Here(Bus)' = Here(Bus)
        /\ Here(Done)' = Here(Done) /\ Here(TxqOf(e))' = Here(TxqOf(e))
    BY <1>1, HereIs, HereNext
  <2>3. /\ \A u \in Threads \ {t} : packet'[u] = packet[u] /\ send_queue'[u] = send_queue[u]
        /\ \A d \in Eps \ {e} : txq'[d] = txq[d]
    BY <1>1
  <2>4. Give(t, e, {HandOf(t), SendOf(t)}, Upper, X)
    BY <1>c, <2>1, <2>2, <2>3, SpotsAre DEF Give, Touched
  <2> QED BY <2>4, GiveKeeps DEF OwnInv
<1>3. QueuesDistinct'
  BY <1>1, EmptyRange DEF OwnInv, QueuesDistinct
<1>4. LookupMatchesHif'
  <2>1. \A u \in Threads : pc[u] = "submit" <=> u = t \/ pc'[u] = "submit"
    BY <1>1, <1>a
  <2>2. \A u \in Threads : pc'[u] = "submit" => u # t /\ packet'[u] = packet[u]
    BY <1>1, <1>a
  <2>3. {packet[u] : u \in {v \in Threads : pc[v] = "submit"}}
          = {packet'[u] : u \in {v \in Threads : pc'[v] = "submit"}} \cup {p}
    BY <1>b, <2>1, <2>2, ZenonT(30)
  <2>4. p \notin Here(Bus) /\ p \notin Here(Done)
        /\ \A u \in Threads : packet[u] = p => u = t
    BY <1>b, SubmitAlone, SpotsAre DEF OwnInv
  <2>5. p \notin {packet'[u] : u \in {v \in Threads : pc'[v] = "submit"}}
    BY <2>2, <2>4
  <2>6. p \notin bus /\ p \notin io_comp_queue
    BY <2>4, HereIs
  <2> QED BY <1>1, <2>3, <2>5, <2>6 DEF OwnInv, LookupMatchesHif
<1> QED BY <1>2, <1>3, <1>4 DEF OwnInv

LEMMA UrbCompleteOwn ==
  ASSUME TypeInv, OwnInv, NEW p \in Packets, UrbComplete(p)
  PROVE  OwnInv'
<1>1. /\ p \in bus /\ bus' = bus \ {p} /\ io_comp_queue' = io_comp_queue \cup {p}
      /\ UNCHANGED <<txq, upper, packet, send_queue, pc, tx_lookup_queue>>
  BY DEF UrbComplete, lockVars, localVars
<1>2. OneSpot'
  <2>1. /\ Here(Bus)' = Here(Bus) \ {p} /\ p \in Here(Bus)
        /\ Here(Done)' = Here(Done) \cup {p} /\ Bus # Done
        /\ Bus \in Spots /\ Done \in Spots
    BY <1>1, HereIs, HereNext DEF Spots, Bus, Done
  <2>2. \A s \in Spots : s \notin {Bus, Done} => Here(s)' = Here(s)
    BY <1>1 DEF Here, Spots, Bus, Done
  <2>3. Transfer({Bus}, Done, {p})
    BY <2>1, <2>2 DEF Transfer
  <2> QED BY <2>3, TransferKeeps DEF OwnInv
<1>3. QueuesDistinct'
  BY <1>1 DEF OwnInv, QueuesDistinct
<1>4. LookupMatchesHif'
  BY <1>1 DEF OwnInv, LookupMatchesHif
<1> QED BY <1>2, <1>3, <1>4 DEF OwnInv

LEMMA TxCompletionOwn ==
  ASSUME TypeInv, OwnInv, NEW t \in Threads, NEW p \in Packets, TxCompletion(t, p)
  PROVE  OwnInv'
<1> USE OwnTypes
<1>1. /\ p \in io_comp_queue /\ io_comp_queue' = io_comp_queue \ {p}
      /\ tx_lookup_queue' = tx_lookup_queue \ {p}
      /\ upper' = IF p \in tx_lookup_queue THEN upper \cup {p} ELSE upper
      /\ UNCHANGED <<txq, packet, send_queue, bus>>
  BY DEF TxCompletion, lockVars, Unfiled
<1>2. pc[t] = "idle" /\ \E l \in {"idle", "call"} : pc' = [pc EXCEPT ![t] = l]
  BY DEF TxCompletion, Return
<1>3. p \in tx_lookup_queue
  BY <1>1 DEF OwnInv, LookupMatchesHif
<1>4. OneSpot'
  <2>1. /\ Here(Done)' = Here(Done) \ {p} /\ p \in Here(Done)
        /\ Here(Upper)' = Here(Upper) \cup {p} /\ Upper # Done
        /\ Upper \in Spots /\ Done \in Spots
    BY <1>1, <1>3, HereIs, HereNext DEF Spots, Upper, Done
  <2>2. \A s \in Spots : s \notin {Upper, Done} => Here(s)' = Here(s)
    BY <1>1 DEF Here, Spots, Upper, Done
  <2>3. Transfer({Done}, Upper, {p})
    BY <2>1, <2>2 DEF Transfer
  <2> QED BY <2>3, TransferKeeps DEF OwnInv
<1>5. QueuesDistinct'
  BY <1>1 DEF OwnInv, QueuesDistinct
<1>6. LookupMatchesHif'
  <2>1. p \notin bus
    <3>1. Here(Bus) \cap Here(Done) = {}
      BY SpotsAre DEF OwnInv, OneSpot, Spots, Bus, Done
    <3> QED BY <1>1, <3>1, HereIs
  <2>2. \A u \in Threads : pc[u] = "submit" => packet[u] # p
    <3>1. \A u \in Threads : Here(HandOf(u)) \cap Here(Done) = {}
      BY SpotsAre DEF OwnInv, OneSpot, Spots, HandOf, Done
    <3>2. p # NoPkt
      OBVIOUS
    <3> QED BY <1>1, <3>1, <3>2, HereIs
  <2>3. \A u \in Threads : pc'[u] = "submit" <=> pc[u] = "submit"
    BY <1>2
  <2> QED BY <1>1, <2>1, <2>2, <2>3 DEF OwnInv, LookupMatchesHif
<1> QED BY <1>4, <1>5, <1>6 DEF OwnInv

LEMMA FlushOwn ==
  ASSUME TypeInv, OwnInv, NEW t \in Threads, NEW e \in Eps, FlushTxEndpoint(t, e)
  PROVE  OwnInv'
<1> USE OwnTypes
<1>a. PICK X : X = Range(txq[e])
  OBVIOUS
<1>b. ToSet(txq[e]) = X
  BY <1>a, ToSetIsRange
<1>1. /\ upper' = upper \cup X /\ txq' = [txq EXCEPT ![e] = <<>>]
      /\ UNCHANGED <<packet, send_queue, bus, io_comp_queue, tx_lookup_queue, pc>>
  BY <1>b DEF FlushTxEndpoint, hifVars, localVars
<1>2. OneSpot'
  <2>1. /\ Here(TxqOf(e)) = X /\ Here(TxqOf(e))' = {}
        /\ Here(Upper)' = Here(Upper) \cup X
    BY <1>1, <1>a, HereIs, HereNext, EmptyRange
  <2>2. /\ Here(Bus)' = Here(Bus) /\ Here(SendOf(t))' = Here(SendOf(t))
        /\ Here(Done)' = Here(Done) /\ Here(HandOf(t))' = Here(HandOf(t))
    BY <1>1, HereIs, HereNext
  <2>3. /\ \A u \in Threads \ {t} : packet'[u] = packet[u] /\ send_queue'[u] = send_queue[u]
        /\ \A d \in Eps \ {e} : txq'[d] = txq[d]
    BY <1>1
  <2>4. Give(t, e, {TxqOf(e)}, Upper, X)
    BY <2>1, <2>2, <2>3, SpotsAre DEF Give, Touched
  <2> QED BY <2>4, GiveKeeps DEF OwnInv
<1>3. QueuesDistinct'
  BY <1>1, EmptyRange DEF OwnInv, QueuesDistinct
<1>4. LookupMatchesHif'
  BY <1>1, LookupFrame DEF OwnInv
<1> QED BY <1>2, <1>3, <1>4 DEF OwnInv

\* Steps that hand no packet over.
LEMMA UnmovedOwn ==
  ASSUME OwnInv, UNCHANGED <<upper, bus, io_comp_queue, packet, send_queue, txq,
                             tx_lookup_queue>>,
         \A u \in Threads : pc'[u] = "submit" <=> pc[u] = "submit"
  PROVE  OwnInv'
<1>1. OneSpot' /\ QueuesDistinct'
  BY SpotsUnmoved DEF OwnInv
<1>2. LookupMatchesHif'
  BY LookupFrame DEF OwnInv
<1> QED BY <1>1, <1>2 DEF OwnInv

LEMMA InsideOwn ==
  ASSUME TypeInv, OwnInv, NEW t \in Threads, Inside(t)
  PROVE  OwnInv'
<1>t. pc \in [Threads -> PCs]
  BY OwnTypes
<1>1. CASE SetStarving(t)
  BY <1>1, <1>t, UnmovedOwn DEF SetStarving, Return, hifVars
<1>2. CASE NextCall(t)
  BY <1>2, <1>t, UnmovedOwn DEF NextCall, Return, ReadFirst, hifVars, lockVars
<1>3. CASE ReadResources(t)
  BY <1>3, <1>t, UnmovedOwn DEF ReadResources, hifVars, lockVars
<1>4. CASE GetDone(t)
  BY <1>4, <1>t, UnmovedOwn DEF GetDone, Return, hifVars
<1>5. CASE Relock(t)
  BY <1>5, <1>t, UnmovedOwn DEF Relock, Return, hifVars
<1> QED
  BY <1>1, <1>2, <1>3, <1>4, <1>5, SchedQueueOwn, CheckDepthOwn, EnterOwn, GetPacketOwn,
     FileLookupOwn, IssueOkOwn, IssueFailOwn DEF Inside

LEMMA NextOwn == TypeInv /\ OwnInv /\ [Next]_vars => OwnInv'
<1> SUFFICES ASSUME TypeInv, OwnInv, [Next]_vars PROVE OwnInv'
  OBVIOUS
<1>t. pc \in [Threads -> PCs]
  BY DEF TypeInv, TypeOK, TypeControl
<1>1. ASSUME NEW t \in Threads, NEW n \in 1..TgtCreds, DataCreditReport(t, n)
      PROVE  OwnInv'
  BY <1>1, <1>t, UnmovedOwn DEF DataCreditReport, Return
<1>2. ASSUME NEW t \in Threads, NEW n \in 1..TgtCreds, CtrlCreditReport(t, n)
      PROVE  OwnInv'
  BY <1>2, <1>t, UnmovedOwn DEF CtrlCreditReport, Return
<1>3. ASSUME NEW t \in Threads, CtlEpTimer(t)
      PROVE  OwnInv'
  BY <1>3, <1>t, UnmovedOwn DEF CtlEpTimer, Return, hifVars
<1>4. CASE LoseCtrlCredit
  BY <1>4, UnmovedOwn DEF LoseCtrlCredit, lockVars, localVars
<1>5. CASE UNCHANGED vars
  BY <1>5, UnmovedOwn DEF vars, lockVars, hifVars, localVars
<1> QED
  BY <1>1, <1>2, <1>3, <1>4, <1>5, InsideOwn, SendOwn, FlushOwn, UrbCompleteOwn,
     TxCompletionOwn DEF Next, Threads

LEMMA InitOwn == Init => OwnInv
<1> SUFFICES ASSUME Init PROVE OwnInv
  OBVIOUS
<1>1. \A s \in Spots : s # Upper => Here(s) = {}
  BY EmptyRange DEF Init, Here, Spots, Upper
<1>2. Here(Upper) = Packets /\ Upper \in Spots
  BY HereIs, SpotsAre DEF Init
<1>3. OneSpot
  BY <1>1, <1>2 DEF OneSpot
<1>4. QueuesDistinct
  BY EmptyRange DEF Init, QueuesDistinct
<1>5. LookupMatchesHif
  BY DEF Init, LookupMatchesHif
<1> QED BY <1>3, <1>4, <1>5 DEF OwnInv

\* The inductive invariant: every packet the driver handles is in one spot only, no
\* queue holds it twice, and the lookup queue is what the HIF has.
THEOREM OwnInvHolds == Spec => [](TypeInv /\ OwnInv)
<1>1. Init => TypeInv /\ OwnInv
  BY InitTypeInv, InitOwn
<1>2. TypeInv /\ OwnInv /\ [Next]_vars => TypeInv' /\ OwnInv'
  BY NextTypeInv, NextOwn
<1> QED BY <1>1, <1>2, PTL DEF Spec

\* "HTC TX lookup failed!" is never logged: however soon a completion comes, the
\* lookup queue holds its packet, and it holds nothing else than what the HIF has
\* or is being given, for every number of contexts, packets and endpoints.
THEOREM LookupMatchesHifHolds == Spec => []LookupMatchesHif
<1>1. OwnInv => LookupMatchesHif
  BY DEF OwnInv
<1> QED BY <1>1, OwnInvHolds, PTL

-----------------------------------------------------------------------------
(* One spot and distinct queues make one place of PlacesOf. *)

LEMMA OneQueuePlace ==
  ASSUME NEW S, NEW s \in Seq(S), Distinct(s), NEW p \in Range(s)
  PROVE  \E i \in 1..Len(s) : {j \in 1..Len(s) : s[j] = p} = {i}
BY DEF Distinct, Range

LEMMA NoQueuePlace ==
  ASSUME NEW s, NEW p, NEW S, s \in Seq(S), p \notin Range(s)
  PROVE  {j \in 1..Len(s) : s[j] = p} = {}
BY DEF Range

LEMMA OnePlace ==
  ASSUME TypeInv, OwnInv, NEW p \in Packets
  PROVE  \E x : PlacesOf(p) = {x}
<1> DEFINE C == {u \in Threads : pc[u] \in {"schedq", "depth"} /\ packet[u] = p}
           T(e) == {j \in 1..Len(txq[e]) : txq[e][j] = p}
           N(t) == {j \in 1..Len(send_queue[t]) : send_queue[t][j] = p}
           PU == {<<"upper">> : x \in {i \in {1} : p \in upper}}
           PC == {<<"caller", t>> : t \in C}
           PT == UNION {{<<"txq", e, i>> : i \in T(e)} : e \in Eps}
           PN == UNION {{<<"send", t, i>> : i \in N(t)} : t \in Threads}
           PL == {<<"lookup">> : x \in {i \in {1} : p \in tx_lookup_queue}}
<1>0. PlacesOf(p) = PU \cup PC \cup PT \cup PN \cup PL
  BY DEF PlacesOf
<1>t. /\ \A e \in Eps : txq[e] \in Seq(Packets) /\ Distinct(txq[e])
      /\ \A t \in Threads : send_queue[t] \in Seq(Packets) /\ Distinct(send_queue[t])
      /\ p # NoPkt
  BY ConstantsOK DEF ConstantsOK, OwnInv, QueuesDistinct, TypeInv, TypeOK, TypeLocals, TypeQueues
<1>h. \A t \in Threads : packet[t] = p => pc[t] \in {"schedq", "depth", "submit"}
  BY <1>t, OwnTypes
<1>1. p \notin Here(Upper) => PU = {}
  BY HereIs
<1>2. (\A t \in Threads : p \notin Here(HandOf(t))) => PC = {}
  BY <1>t, HereIs
<1>3. ASSUME NEW d \in Eps, \A e \in Eps \ {d} : p \notin Here(TxqOf(e))
      PROVE  PT = {<<"txq", d, i>> : i \in T(d)}
  BY <1>t, <1>3, NoQueuePlace, HereIs
<1>4. ASSUME NEW u \in Threads, \A t \in Threads \ {u} : p \notin Here(SendOf(t))
      PROVE  PN = {<<"send", u, i>> : i \in N(u)}
  BY <1>t, <1>4, NoQueuePlace, HereIs
<1>5. (\A e \in Eps : p \notin Here(TxqOf(e))) => PT = {}
  BY <1>t, NoQueuePlace, HereIs
<1>6. (\A t \in Threads : p \notin Here(SendOf(t))) => PN = {}
  BY <1>t, NoQueuePlace, HereIs
<1>7. ASSUME p \notin Here(Bus), p \notin Here(Done),
             \A t \in Threads : packet[t] = p => pc[t] # "submit"
      PROVE  PL = {}
  <2>1. p \notin bus /\ p \notin io_comp_queue
    BY <1>7, HereIs
  <2>2. p \notin tx_lookup_queue
    BY <1>7, <2>1 DEF OwnInv, LookupMatchesHif
  <2> QED BY <2>2
<1>8. PICK s \in Spots : p \in Here(s)
  BY DEF OwnInv, OneSpot
<1>9. \A r \in Spots : r # s => p \notin Here(r)
  BY <1>8 DEF OwnInv, OneSpot
<1>u. CASE s = Upper
  <2>1. PU = {<<"upper">>}
    BY <1>8, <1>u, HereIs
  <2>2. /\ \A t \in Threads : p \notin Here(HandOf(t)) /\ p \notin Here(SendOf(t))
        /\ \A e \in Eps : p \notin Here(TxqOf(e))
        /\ p \notin Here(Bus) /\ p \notin Here(Done)
    BY <1>9, <1>u DEF Spots, Upper, Bus, Done, HandOf, SendOf, TxqOf
  <2>3. \A t \in Threads : packet[t] # p
    BY <1>t, <2>2, HereIs
  <2>4. PC = {} /\ PT = {} /\ PN = {} /\ PL = {}
    BY <1>2, <1>5, <1>6, <1>7, <2>2, <2>3
  <2> HIDE DEF PU, PC, PT, PN, PL
  <2> QED BY <1>0, <2>1, <2>4
<1>b. CASE s \in {Bus, Done}
  <2>1. PL = {<<"lookup">>}
    BY <1>8, <1>b, HereIs DEF OwnInv, LookupMatchesHif
  <2>2. /\ \A t \in Threads : p \notin Here(HandOf(t)) /\ p \notin Here(SendOf(t))
        /\ \A e \in Eps : p \notin Here(TxqOf(e))
        /\ p \notin Here(Upper)
    BY <1>9, <1>b DEF Spots, Upper, Bus, Done, HandOf, SendOf, TxqOf
  <2>3. PC = {} /\ PT = {} /\ PN = {} /\ PU = {}
    BY <1>1, <1>2, <1>5, <1>6, <2>2
  <2> HIDE DEF PU, PC, PT, PN, PL
  <2> QED BY <1>0, <2>1, <2>3
<1>c. CASE \E t \in Threads : s = HandOf(t)
  <2>1. PICK t \in Threads : s = HandOf(t)
    BY <1>c
  <2>2. /\ \A u \in Threads : p \notin Here(SendOf(u)) /\ (u # t => p \notin Here(HandOf(u)))
        /\ \A e \in Eps : p \notin Here(TxqOf(e))
        /\ p \notin Here(Upper) /\ p \notin Here(Bus) /\ p \notin Here(Done)
    BY <1>9, <2>1 DEF Spots, Upper, Bus, Done, HandOf, SendOf, TxqOf
  <2>3. packet[t] = p /\ \A u \in Threads : packet[u] = p => u = t
    BY <1>8, <1>t, <2>1, <2>2, HereIs
  <2>4. PT = {} /\ PN = {} /\ PU = {}
    BY <1>1, <1>5, <1>6, <2>2
  <2>5. CASE pc[t] = "submit"
    <3>1. PC = {}
      BY <2>3, <2>5
    <3>2. PL = {<<"lookup">>}
      BY <2>3, <2>5 DEF OwnInv, LookupMatchesHif
    <3> HIDE DEF PU, PC, PT, PN, PL
    <3> QED BY <1>0, <2>4, <3>1, <3>2
  <2>6. CASE pc[t] \in {"schedq", "depth"}
    <3>1. PC = {<<"caller", t>>}
      BY <2>3, <2>6
    <3>2. PL = {}
      BY <1>7, <2>2, <2>3, <2>6
    <3> HIDE DEF PU, PC, PT, PN, PL
    <3> QED BY <1>0, <2>4, <3>1, <3>2
  <2> QED BY <1>h, <2>3, <2>5, <2>6
<1>d. CASE \E t \in Threads : s = SendOf(t)
  <2>1. PICK t \in Threads : s = SendOf(t)
    BY <1>d
  <2>2. /\ \A u \in Threads : p \notin Here(HandOf(u)) /\ (u # t => p \notin Here(SendOf(u)))
        /\ \A e \in Eps : p \notin Here(TxqOf(e))
        /\ p \notin Here(Upper) /\ p \notin Here(Bus) /\ p \notin Here(Done)
    BY <1>9, <2>1 DEF Spots, Upper, Bus, Done, HandOf, SendOf, TxqOf
  <2>3. \A u \in Threads : packet[u] # p
    BY <1>t, <2>2, HereIs
  <2>4. PC = {} /\ PT = {} /\ PU = {} /\ PL = {}
    BY <1>1, <1>2, <1>5, <1>7, <2>2, <2>3
  <2>a. send_queue[t] \in Seq(Packets) /\ Distinct(send_queue[t]) /\ p \in Range(send_queue[t])
    BY <1>8, <1>t, <2>1, HereIs
  <2>5. PICK i \in 1..Len(send_queue[t]) : N(t) = {i}
    BY <2>a, OneQueuePlace
  <2>6. PN = {<<"send", t, i>>}
    BY <1>4, <2>2, <2>5
  <2> HIDE DEF PU, PC, PT, PN, PL
  <2> QED BY <1>0, <2>4, <2>6
<1>e. CASE \E e \in Eps : s = TxqOf(e)
  <2>1. PICK e \in Eps : s = TxqOf(e)
    BY <1>e
  <2>2. /\ \A u \in Threads : p \notin Here(HandOf(u)) /\ p \notin Here(SendOf(u))
        /\ \A d \in Eps \ {e} : p \notin Here(TxqOf(d))
        /\ p \notin Here(Upper) /\ p \notin Here(Bus) /\ p \notin Here(Done)
    BY <1>9, <2>1 DEF Spots, Upper, Bus, Done, HandOf, SendOf, TxqOf
  <2>3. \A u \in Threads : packet[u] # p
    BY <1>t, <2>2, HereIs
  <2>4. PC = {} /\ PN = {} /\ PU = {} /\ PL = {}
    BY <1>1, <1>2, <1>6, <1>7, <2>2, <2>3
  <2>a. txq[e] \in Seq(Packets) /\ Distinct(txq[e]) /\ p \in Range(txq[e])
    BY <1>8, <1>t, <2>1, HereIs
  <2>5. PICK i \in 1..Len(txq[e]) : T(e) = {i}
    BY <2>a, OneQueuePlace
  <2>6. PT = {<<"txq", e, i>>}
    BY <1>3, <2>2, <2>5
  <2> HIDE DEF PU, PC, PT, PN, PL
  <2> QED BY <1>0, <2>4, <2>6
<1> QED BY <1>u, <1>b, <1>c, <1>d, <1>e, SpotsAre

\* No packet is lost, duplicated or completed twice: whichever of flush, failed
\* submission, refusal and completion returns it, each packet is with the upper
\* layer, in one sender's hand, once on one queue, or filed with the HIF.
THEOREM PacketOwnedOnceHolds == Spec => []PacketOwnedOnce
<1>1. TypeInv /\ OwnInv => PacketOwnedOnce
  <2> SUFFICES ASSUME TypeInv, OwnInv, NEW p \in Packets PROVE Cardinality(PlacesOf(p)) = 1
    BY DEF PacketOwnedOnce
  <2>1. PICK x : PlacesOf(p) = {x}
    BY OnePlace
  <2> QED BY <2>1, FS_Singleton
<1> QED BY <1>1, OwnInvHolds, PTL
=============================================================================
