---------------------------- MODULE TxFlowProofs ----------------------------
(***************************************************************************)
(* Theorems about the data transmit path, for every number of interfaces,  *)
(* cookies, packets and events and every limit.                            *)
(*                                                                         *)
(* Each inductive invariant rests on those before it: types (TypeInv),     *)
(* where a cookie is (PlaceInv), what is written about the packets that    *)
(* are out and how many there are (AccountInv), which connections the      *)
(* worker has still to visit (NoneStranded, ChannelInv), and the order of  *)
(* a connection's packets over all the lists they are on (OrderInv).       *)
(***************************************************************************)
EXTENDS TxFlow, SubsequenceProofs

-----------------------------------------------------------------------------
(* Types.  A sender has a cookie in hand between the allocation and the end of
   its call, the worker has packets in its container only on the way to their
   completion, and an event's interface is known while it is handled. *)

SenderPCs == {"idle", "schedule", "send", "sched"}
RxPCs == {"idle", "sched", "reap", "change", "changed", "set", "netif",
          "connect", "switch", "stop", "cleanup", "roam"}
CplPCs == {"idle", "wake"}
Holding == {"schedule", "send"}

CtxOK ==
  /\ pc \in [Contexts -> SenderPCs \cup RxPCs \cup CplPCs]
  /\ \A v \in Vifs : pc[v] \in SenderPCs
  /\ pc["rx"] \in RxPCs /\ pc["cpl"] \in CplPCs
  /\ hand \in [Vifs -> Cookies \cup {Nobody}]
  /\ \A v \in Vifs : hand[v] # Nobody <=> pc[v] \in Holding
  /\ todo \in [Contexts -> SUBSET Vifs]

RxOK ==
  /\ cont \in {"idle", "set", "sched", "cleanup", "roam"}
  /\ pc["rx"] = "reap" => cont # "idle"
  /\ target \in Vifs \cup {Nobody}
  /\ \/ pc["rx"] \in {"set", "netif", "connect", "switch", "stop", "cleanup", "roam"}
     \/ pc["rx"] = "reap" /\ cont # "sched"
     => target \in Vifs
  /\ batch \in Seq(Cookies)
  /\ pc["rx"] \notin {"change", "changed", "reap"} => batch = <<>>

QueuesOK ==
  /\ free \in [Kinds -> Seq(Cookies)]
  /\ conn_queue \in [Vifs -> Seq(Cookies)] /\ re_queue \in [Vifs -> Seq(Cookies)]
  /\ txq \in Seq(Cookies) /\ hif \subseteq Cookies /\ lost \subseteq Cookies

FlagsOK ==
  /\ mcc \in BOOLEAN /\ skip \in BOOLEAN /\ cmd \in BOOLEAN
  /\ tx_on_vif \subseteq Vifs /\ connected \subseteq Vifs /\ carrier \subseteq Vifs
  /\ stopped \subseteq Vifs /\ raced \subseteq Vifs
  /\ tx_pending \in Int /\ data_cookie_count \in [Vifs -> Int]
  /\ ocs \in [Vifs -> BOOLEAN] /\ previous_can_send \in [Vifs -> BOOLEAN]
  /\ sche_tx_queued \in [Vifs -> Int]
  /\ pvif \in [Cookies -> Vifs \cup {Nobody}]
  /\ events \in 0 .. MaxEvents /\ connects \in 0 .. MaxConnects

PktsOK ==
  /\ pkt \in [Cookies -> PktType]
  /\ born \in [Vifs -> 0 .. MaxPkts] /\ last \in [Vifs -> 0 .. MaxPkts]

TypeInv == CtxOK /\ RxOK /\ QueuesOK /\ FlagsOK /\ PktsOK

\* The steps of the system, for one choice of interface, context and tag.
Step(v, c, tag) ==
  \/ DataTx(v, tag) \/ CopyFail(v) \/ SchedulePkt(v) \/ SendPkt(v) \/ TxSchedule(c, v)
  \/ ConnectEvent(v) \/ DisconnectEvent(v) \/ AssocFailed(v) \/ FlowctrlEvent
  \/ RxComplete \/ StateChange(v) \/ StateChanged
  \/ SetConnId \/ ConnectWake \/ Connect \/ Switch \/ FlushEp \/ CleanupByIf \/ RoamSwitch
  \/ HifDone \/ HifDoneWake \/ CmdDone \/ HtcDrain

LEMMA NextStep ==
  ASSUME Next
  PROVE  \E v \in Vifs, c \in Vifs \cup {"rx"}, tag \in {"data", "pri"} : Step(v, c, tag)
<1>1. PICK w \in Vifs : TRUE
  BY TxFlowConstants DEF TxFlowConstants
<1>3. CASE \E v \in Vifs, tag \in {"data", "pri"} : DataTx(v, tag)
  BY <1>3 DEF Step
<1>4. CASE \E v \in Vifs : SenderStep(v) \/ CopyFail(v)
  BY <1>4 DEF Step, SenderStep
<1>5. CASE \E v \in Vifs : ConnectEvent(v) \/ DisconnectEvent(v) \/ AssocFailed(v)
  BY <1>5 DEF Step
<1>6. CASE FlowctrlEvent \/ CplStep \/ HtcDrain
  BY <1>1, <1>6 DEF Step, CplStep
<1>7. CASE RxStep
  BY <1>1, <1>7 DEF Step, RxStep
<1> QED BY <1>3, <1>4, <1>5, <1>6, <1>7 DEF Next

LEMMA ConstFacts ==
  /\ IsFiniteSet(DataCookies) /\ IsFiniteSet(CtrlCookies) /\ DataCookies \cap CtrlCookies = {}
  /\ IsFiniteSet(Cookies) /\ Nobody \notin Cookies /\ IsFiniteSet(Vifs)
  /\ \A v \in Vifs : v # "rx" /\ v # "cpl" /\ v # Nobody
  /\ Cookies = DataCookies \cup CtrlCookies
  /\ CookiesOf("data") = DataCookies /\ CookiesOf("ctrl") = CtrlCookies
  /\ KindOf("data") = "data" /\ KindOf("pri") = "ctrl"
  /\ RecycleLimit \in Nat /\ MaxPkts \in Nat /\ MaxEvents \in Nat /\ MaxConnects \in Nat
<1>1. IsFiniteSet(DataCookies \cup CtrlCookies)
  BY TxFlowConstants, FS_Union DEF TxFlowConstants
<1> QED BY <1>1, TxFlowConstants DEF TxFlowConstants, Cookies, Nobody, CookiesOf, KindOf

LEMMA SeqMono ==
  ASSUME NEW S, NEW T, S \subseteq T, NEW q \in Seq(S)
  PROVE  q \in Seq(T)
<1>1. q \in [1 .. Len(q) -> S] /\ Len(q) \in Nat
  OBVIOUS
<1>2. q \in [1 .. Len(q) -> T]
  BY <1>1
<1> QED BY <1>1, <1>2

\* The list of free cookies of a kind, to begin with.
LEMMA ListedIs ==
  ASSUME NEW S, IsFiniteSet(S)
  PROVE  /\ Listed(S) \in Seq(S) /\ Distinct(Listed(S)) /\ Range(Listed(S)) = S
         /\ Len(Listed(S)) = Cardinality(S)
<1>1. PICK n \in Nat : ExistsBijection(1 .. n, S)
  BY FS_NatBijection
<1>2. Cardinality(S) = n
  BY <1>1, FS_CountingElements
<1>3. PICK f \in Bijection(1 .. n, S) : TRUE
  BY <1>1 DEF ExistsBijection
<1>4. f \in [1 .. n -> S] /\ IsInjective(f)
  BY <1>3 DEF Bijection, Injection, IsInjective
<1> DEFINE g == Listed(S)
<1>5. g \in [1 .. n -> S] /\ IsInjective(g)
  BY <1>2, <1>4 DEF Listed
<1> HIDE DEF g
<1>6. g \in Seq(S) /\ Len(g) = n /\ Distinct(g)
  BY <1>5 DEF IsInjective, Distinct
<1>7. Range(g) \subseteq S /\ Cardinality(Range(g)) = n
  BY <1>6, RangeType, DistinctCount
<1>8. Range(g) = S
  BY <1>2, <1>7, FS_Subset
<1> QED BY <1>2, <1>6, <1>8 DEF g

LEMMA InitTypeInv == Init => TypeInv
<1> SUFFICES ASSUME Init PROVE TypeInv
  OBVIOUS
<1> USE DEF Init
<1>1. CtxOK
  BY DEF CtxOK, Contexts, SenderPCs, RxPCs, CplPCs, Holding
<1>2. RxOK
  BY ConstFacts DEF RxOK, Contexts
<1>3. QueuesOK
  <2>1. \A k \in Kinds : Listed(CookiesOf(k)) \in Seq(Cookies)
    <3>1. \A k \in Kinds : CookiesOf(k) \subseteq Cookies /\ IsFiniteSet(CookiesOf(k))
      BY ConstFacts DEF Kinds
    <3>2. ASSUME NEW k \in Kinds PROVE Listed(CookiesOf(k)) \in Seq(Cookies)
      <4>1. Listed(CookiesOf(k)) \in Seq(CookiesOf(k))
        BY <3>1, ListedIs
      <4> QED BY <3>1, <4>1, SeqMono
    <3> QED BY <3>2
  <2>2. <<>> \in Seq(Cookies)
    OBVIOUS
  <2> QED BY <2>1, <2>2 DEF QueuesOK
<1>4. FlagsOK
  <2>1. 0 \in 0 .. MaxEvents /\ 0 \in 0 .. MaxConnects /\ 0 \in Int
    BY ConstFacts
  <2>2. ocs \in [Vifs -> BOOLEAN] /\ previous_can_send \in [Vifs -> BOOLEAN]
    OBVIOUS
  <2>3. mcc \in BOOLEAN /\ skip \in BOOLEAN /\ cmd \in BOOLEAN
    OBVIOUS
  <2> QED BY <2>1, <2>2, <2>3 DEF FlagsOK
<1>5. PktsOK
  BY ConstFacts DEF PktsOK, PktType, NoPkt
<1> QED BY <1>1, <1>2, <1>3, <1>4, <1>5 DEF TypeInv

LEMMA FreeHead ==
  ASSUME QueuesOK, NEW v, NEW tag \in {"data", "pri"}, MayAlloc(v, tag)
  PROVE  /\ KindOf(tag) \in Kinds /\ Head(free[KindOf(tag)]) \in Cookies
         /\ Tail(free[KindOf(tag)]) \in Seq(Cookies)
<1>1. KindOf(tag) \in Kinds
  BY DEF KindOf, Kinds
<1>2. free[KindOf(tag)] \in Seq(Cookies) /\ free[KindOf(tag)] # <<>>
  BY <1>1 DEF QueuesOK, MayAlloc
<1> QED BY <1>1, <1>2

LEMMA CtxStep ==
  ASSUME TypeInv, NEW v \in Vifs, NEW c \in Vifs \cup {"rx"},
         NEW tag \in {"data", "pri"}, Step(v, c, tag)
  PROVE  CtxOK'
<1> USE DEF TypeInv, CtxOK, QueuesOK, Contexts, SenderPCs, RxPCs, CplPCs, Holding, Goto, locVars
<1>1. CASE DataTx(v, tag)
  BY <1>1, ConstFacts, FreeHead DEF DataTx
<1>2. CASE CopyFail(v)
  BY <1>2, ConstFacts DEF CopyFail
<1>3. CASE SchedulePkt(v)
  <2>1. CASE CanSend(v) /\ Queued(v) = <<>>
    <3>1. UNCHANGED <<hand, todo>> /\ pc' = [pc EXCEPT ![v] = "send"] /\ pc[v] = "schedule"
      BY <1>3, <2>1 DEF SchedulePkt
    <3> QED BY <3>1, ConstFacts
  <2>2. CASE ~(CanSend(v) /\ Queued(v) = <<>>)
    <3>1. /\ hand' = [hand EXCEPT ![v] = Nobody]
          /\ pc' = [pc EXCEPT ![v] = IF CanSend(v) THEN "sched" ELSE "idle"]
          /\ todo' = [todo EXCEPT ![v] = IF CanSend(v) THEN Vifs ELSE {}]
      BY <1>3, <2>2 DEF SchedulePkt
    <3>2. CASE CanSend(v)
      BY <3>1, <3>2, ConstFacts
    <3>3. CASE ~CanSend(v)
      BY <3>1, <3>3, ConstFacts
    <3> QED BY <3>2, <3>3
  <2> QED BY <2>1, <2>2
<1>4. CASE SendPkt(v)
  BY <1>4, ConstFacts DEF SendPkt
<1>5. CASE TxSchedule(c, v)
  BY <1>5, ConstFacts DEF TxSchedule, Visited
<1>6. CASE ConnectEvent(v)
  BY <1>6, ConstFacts DEF ConnectEvent, Complete
<1>7. CASE DisconnectEvent(v)
  BY <1>7, ConstFacts DEF DisconnectEvent
<1>8. CASE FlowctrlEvent
  BY <1>8, ConstFacts DEF FlowctrlEvent
<1>9. CASE RxComplete
  BY <1>9, ConstFacts DEF RxComplete, RxOK
<1>10. CASE StateChange(v)
  BY <1>10, ConstFacts DEF StateChange, Visited
<1>11. CASE StateChanged
  BY <1>11, ConstFacts DEF StateChanged, Complete
<1>12. CASE SetConnId
  BY <1>12, ConstFacts DEF SetConnId
<1>13. CASE ConnectWake
  BY <1>13, ConstFacts DEF ConnectWake
<1>14. CASE Connect
  BY <1>14, ConstFacts DEF Connect
<1>15. CASE Switch
  BY <1>15, ConstFacts DEF Switch
<1>16. CASE FlushEp
  BY <1>16, ConstFacts DEF FlushEp, Complete
<1>17. CASE CleanupByIf
  BY <1>17, ConstFacts DEF CleanupByIf, Complete
<1>18. CASE HifDone
  BY <1>18, ConstFacts DEF HifDone
<1>19. CASE HifDoneWake
  BY <1>19, ConstFacts DEF HifDoneWake
<1>20. CASE CmdDone
  BY <1>20, ConstFacts DEF CmdDone
<1>21. CASE HtcDrain
  BY <1>21, ConstFacts DEF HtcDrain
<1>22. CASE AssocFailed(v)
  BY <1>22, ConstFacts DEF AssocFailed
<1>23. CASE RoamSwitch
  BY <1>23, ConstFacts DEF RoamSwitch
<1> QED
  BY <1>1, <1>2, <1>3, <1>4, <1>5, <1>6, <1>7, <1>8, <1>9, <1>10, <1>11, <1>12, <1>13, <1>14,
     <1>15, <1>16, <1>17, <1>18, <1>19, <1>20, <1>21, <1>22, <1>23 DEF Step

\* What is known of a context's locals where it uses them.
LEMMA LocalFacts ==
  ASSUME TypeInv
  PROVE  /\ \A v \in Vifs : pc[v] \in Holding => hand[v] \in Cookies
         /\ \A v \in Vifs : pc[v] \notin Holding => hand[v] = Nobody
         /\ pc["rx"] \in {"set", "netif", "connect", "switch", "stop", "cleanup"} => target \in Vifs
         /\ pc["rx"] \notin {"change", "changed", "reap"} => batch = <<>>
         /\ batch \in Seq(Cookies) /\ txq \in Seq(Cookies)
         /\ \A v \in Vifs : /\ re_queue[v] \in Seq(Cookies) /\ conn_queue[v] \in Seq(Cookies)
                            /\ Queued(v) \in Seq(Cookies)
                            /\ Len(Queued(v)) = Len(re_queue[v]) + Len(conn_queue[v])
                            /\ Range(Queued(v)) = Range(re_queue[v]) \cup Range(conn_queue[v])
         /\ \A k \in Kinds : free[k] \in Seq(Cookies)
<1>1. \A v \in Vifs : pc[v] \in Holding => hand[v] \in Cookies
  BY DEF TypeInv, CtxOK
<1>2. \A v \in Vifs : pc[v] \notin Holding => hand[v] = Nobody
  BY DEF TypeInv, CtxOK
<1>3. /\ pc["rx"] \in {"set", "netif", "connect", "switch", "stop", "cleanup"} => target \in Vifs
      /\ pc["rx"] \notin {"change", "changed", "reap"} => batch = <<>>
      /\ batch \in Seq(Cookies)
  BY DEF TypeInv, RxOK
<1>4. /\ txq \in Seq(Cookies) /\ \A k \in Kinds : free[k] \in Seq(Cookies)
      /\ \A v \in Vifs : re_queue[v] \in Seq(Cookies) /\ conn_queue[v] \in Seq(Cookies)
  BY DEF TypeInv, QueuesOK
<1>5. ASSUME NEW v \in Vifs
      PROVE  /\ Queued(v) \in Seq(Cookies) /\ Len(Queued(v)) = Len(re_queue[v]) + Len(conn_queue[v])
             /\ Range(Queued(v)) = Range(re_queue[v]) \cup Range(conn_queue[v])
  <2>1. re_queue[v] \in Seq(Cookies) /\ conn_queue[v] \in Seq(Cookies)
    BY <1>4
  <2> QED BY <2>1, RangeConcat DEF Queued
<1> QED BY <1>1, <1>2, <1>3, <1>4, <1>5

\* The positions of a queue that satisfy a test, and the others, part it.
LEMMA KeepSplit ==
  ASSUME NEW S, NEW q \in Seq(S), NEW I \in SUBSET DOMAIN q
  PROVE  /\ Keep(q, I) \in Seq(S)
         /\ Range(Keep(q, I)) = {q[i] : i \in I}
         /\ Len(Keep(q, I)) = Cardinality(I) /\ Len(Keep(q, I)) \in Nat
         /\ Distinct(q) => Distinct(Keep(q, I))
<1> DEFINE r == Keep(q, I)
<1>1. /\ r \in Seq(S) /\ Len(r) = Cardinality(I)
      /\ \A k \in DOMAIN r : \E i \in I : r[k] = q[i]
      /\ \A i \in I : \E k \in DOMAIN r : r[k] = q[i]
  BY KeepElements, SMTT(30)
<1>2. Distinct(q) => Distinct(r)
  BY KeepInjective DEF Distinct
<1> HIDE DEF r
<1>3. Range(r) = {q[i] : i \in I}
  BY <1>1 DEF Range
<1>4. Len(r) \in Nat
  BY <1>1
<1> QED BY <1>1, <1>2, <1>3, <1>4 DEF r

\* A container turned round.
LEMMA Reversed ==
  ASSUME NEW S, NEW q \in Seq(S), NEW r, r = [i \in 1 .. Len(q) |-> q[Len(q) + 1 - i]]
  PROVE  /\ r \in Seq(S) /\ Len(r) = Len(q) /\ DOMAIN r = 1 .. Len(q) /\ Range(r) = Range(q)
         /\ Distinct(q) => Distinct(r)
<1>1. Len(q) \in Nat /\ DOMAIN q = 1 .. Len(q)
  OBVIOUS
<1>2. \A i \in 1 .. Len(q) : Len(q) + 1 - i \in 1 .. Len(q) /\ r[i] = q[Len(q) + 1 - i]
  BY <1>1
<1>3. r \in [1 .. Len(q) -> S]
  BY <1>1, <1>2
<1>4. r \in Seq(S) /\ Len(r) = Len(q) /\ DOMAIN r = 1 .. Len(q)
  BY <1>1, <1>3
<1>5. Range(r) \subseteq Range(q)
  BY <1>1, <1>2, <1>4 DEF Range
<1>6. ASSUME NEW i \in 1 .. Len(q) PROVE q[i] \in Range(r)
  <2>1. PICK j \in 1 .. Len(q) : j = Len(q) + 1 - i
    BY <1>1
  <2>2. i = Len(q) + 1 - j
    BY <1>1, <2>1
  <2>3. r[j] = q[i]
    BY <1>2, <2>2
  <2> QED BY <1>4, <2>3 DEF Range
<1>7. Range(q) \subseteq Range(r)
  BY <1>1, <1>6 DEF Range
<1>8. ASSUME Distinct(q), NEW i \in 1 .. Len(q), NEW j \in 1 .. Len(q), r[i] = r[j] PROVE i = j
  <2>1. Len(q) + 1 - i = Len(q) + 1 - j
    BY <1>1, <1>2, <1>8 DEF Distinct
  <2> QED BY <1>1, <2>1
<1>9. Distinct(q) => Distinct(r)
  BY <1>4, <1>8 DEF Distinct
<1> QED BY <1>4, <1>5, <1>7, <1>9

\* The part of the container cs that goes to the free list k.
FreedOf(cs, k) ==
  LET rev == [i \in 1 .. Len(cs) |-> cs[Len(cs) + 1 - i]]
  IN  Keep(rev, {i \in DOMAIN rev : rev[i] \in CookiesOf(k)})

LEMMA FreedIs ==
  ASSUME NEW cs \in Seq(Cookies), NEW k \in Kinds
  PROVE  /\ FreedOf(cs, k) \in Seq(Cookies) /\ Range(FreedOf(cs, k)) = Range(cs) \cap CookiesOf(k)
         /\ Distinct(cs) => Distinct(FreedOf(cs, k))
<1> DEFINE rev == [i \in 1 .. Len(cs) |-> cs[Len(cs) + 1 - i]]
           I == {i \in DOMAIN rev : rev[i] \in CookiesOf(k)}
<1>1. /\ rev \in Seq(Cookies) /\ Range(rev) = Range(cs)
      /\ Distinct(cs) => Distinct(rev)
  BY Reversed
<1>2. I \in SUBSET DOMAIN rev /\ FreedOf(cs, k) = Keep(rev, I)
  BY DEF FreedOf
<1>3. {rev[i] : i \in I} = Range(rev) \cap CookiesOf(k)
  BY DEF Range
<1> HIDE DEF rev, I
<1>4. /\ Keep(rev, I) \in Seq(Cookies) /\ Range(Keep(rev, I)) = {rev[i] : i \in I}
      /\ Distinct(rev) => Distinct(Keep(rev, I))
  BY <1>1, <1>2, KeepSplit
<1> QED BY <1>1, <1>2, <1>3, <1>4

\* What taking back the packets of v does: the positions of its packets in
\* HTC's queue, of the ones that are dropped, and the packets that wait again.
MineAt(v) == {i \in DOMAIN txq : pkt[txq[i]].vif = v}
AgedAt(v) == {i \in MineAt(v) : Aged(txq[i])}
BackOf(v) == Keep(txq, MineAt(v) \ AgedAt(v))
DropOf(v) == Keep(txq, AgedAt(v))

TakeBack(v) ==
  /\ txq' = Keep(txq, DOMAIN txq \ MineAt(v))
  /\ batch' = batch \o DropOf(v)
  /\ re_queue' = [re_queue EXCEPT ![v] = @ \o BackOf(v)]
  /\ sche_tx_queued' = [sche_tx_queued EXCEPT ![v] = @ + Len(BackOf(v))]
  /\ pkt' = [c \in Cookies |-> IF c \in Range(BackOf(v))
                               THEN [pkt[c] EXCEPT !.recycle = @ + 1] ELSE pkt[c]]
  /\ raced' = IF BackOf(v) # <<>> /\ pc[v] = "send" THEN raced \cup {v} ELSE raced

LEMMA StateChangeIs ==
  ASSUME NEW v, StateChange(v)
  PROVE  /\ pc["rx"] = "change" /\ v \in todo["rx"]
         /\ \/ ~CanSend(v) /\ previous_can_send[v] /\ TakeBack(v)
            \/ /\ ~(~CanSend(v) /\ previous_can_send[v])
               /\ UNCHANGED <<txq, batch, re_queue, sche_tx_queued, pkt,
                              raced>>
         /\ previous_can_send' = [previous_can_send EXCEPT ![v] = CanSend(v)]
         /\ todo' = [todo EXCEPT !["rx"] = @ \ {v}]
         /\ pc' = [pc EXCEPT !["rx"] = IF todo["rx"] = {v} THEN "changed" ELSE pc["rx"]]
         /\ UNCHANGED <<arVars, vifVars, ocs, conn_queue, pvif, hif, cmd, hand,
                        cont, target, born, last, lost, events, connects>>
BY DEF StateChange, Visited, Goto, TakeBack, MineAt, AgedAt, BackOf, DropOf

LEMMA TakenFrom ==
  ASSUME TypeInv, NEW v
  PROVE  /\ MineAt(v) \in SUBSET DOMAIN txq /\ AgedAt(v) \in SUBSET DOMAIN txq
         /\ MineAt(v) \ AgedAt(v) \in SUBSET DOMAIN txq
         /\ Keep(txq, DOMAIN txq \ MineAt(v)) \in Seq(Cookies)
         /\ BackOf(v) \in Seq(Cookies) /\ DropOf(v) \in Seq(Cookies)
         /\ Range(Keep(txq, DOMAIN txq \ MineAt(v))) = {txq[i] : i \in DOMAIN txq \ MineAt(v)}
         /\ Range(BackOf(v)) = {txq[i] : i \in MineAt(v) \ AgedAt(v)}
         /\ Range(DropOf(v)) = {txq[i] : i \in AgedAt(v)}
<1>1. txq \in Seq(Cookies)
  BY LocalFacts
<1>2. /\ MineAt(v) \in SUBSET DOMAIN txq /\ AgedAt(v) \in SUBSET DOMAIN txq
      /\ MineAt(v) \ AgedAt(v) \in SUBSET DOMAIN txq
      /\ DOMAIN txq \ MineAt(v) \in SUBSET DOMAIN txq
  BY DEF MineAt, AgedAt
<1>3. \A I \in SUBSET DOMAIN txq : Keep(txq, I) \in Seq(Cookies) /\ Range(Keep(txq, I)) = {txq[i] : i \in I}
  BY <1>1, KeepSplit
<1> HIDE DEF MineAt, AgedAt
<1> QED BY <1>2, <1>3 DEF BackOf, DropOf

LEMMA FreeCookiesIs ==
  ASSUME NEW cs, FreeCookies(cs)
  PROVE  free' = [k \in Kinds |-> FreedOf(cs, k) \o free[k]]
BY DEF FreeCookies, FreedOf

LEMMA RxOKStep ==
  ASSUME TypeInv, NEW v \in Vifs, NEW c \in Vifs \cup {"rx"},
         NEW tag \in {"data", "pri"}, Step(v, c, tag)
  PROVE  RxOK'
<1> USE DEF TypeInv, CtxOK, RxOK, QueuesOK, Contexts, SenderPCs, RxPCs, CplPCs, Goto, locVars
<1>1. CASE DataTx(v, tag)
  BY <1>1, ConstFacts DEF DataTx
<1>2. CASE CopyFail(v)
  BY <1>2, ConstFacts DEF CopyFail
<1>3. CASE SchedulePkt(v)
  BY <1>3, ConstFacts DEF SchedulePkt
<1>4. CASE SendPkt(v)
  BY <1>4, ConstFacts DEF SendPkt
<1>5. CASE TxSchedule(c, v)
  BY <1>5, ConstFacts DEF TxSchedule, Visited
<1>6. CASE ConnectEvent(v)
  <2>1. Queued(v) \in Seq(Cookies)
    BY LocalFacts
  <2>2. CASE sche_tx_queued[v] # 0
    BY <1>6, <2>1, <2>2, ConstFacts DEF ConnectEvent, Complete
  <2>3. CASE sche_tx_queued[v] = 0
    BY <1>6, <2>3, ConstFacts DEF ConnectEvent
  <2> QED BY <2>2, <2>3
<1>7. CASE DisconnectEvent(v)
  BY <1>7, ConstFacts DEF DisconnectEvent
<1>8. CASE FlowctrlEvent
  BY <1>8, ConstFacts DEF FlowctrlEvent
<1>9. CASE RxComplete
  BY <1>9, ConstFacts DEF RxComplete
<1>10. CASE StateChange(v)
  <2>1. batch' \in Seq(Cookies)
    <3>1. batch \in Seq(Cookies) /\ DropOf(v) \in Seq(Cookies)
      BY LocalFacts, TakenFrom
    <3>2. batch' = batch \/ batch' = batch \o DropOf(v)
      BY <1>10, StateChangeIs DEF TakeBack
    <3>3. batch \o DropOf(v) \in Seq(Cookies)
      BY <3>1
    <3> QED BY <3>1, <3>2, <3>3
  <2>2. /\ UNCHANGED <<cont, target>> /\ pc["rx"] = "change"
        /\ pc' = [pc EXCEPT !["rx"] = IF todo["rx"] = {v} THEN "changed" ELSE pc["rx"]]
    BY <1>10, StateChangeIs
  <2>3. pc'["rx"] \in {"change", "changed"}
    BY <2>2
  <2> QED BY <2>1, <2>2, <2>3
<1>11. CASE StateChanged
  BY <1>11, ConstFacts DEF StateChanged, Complete
<1>12. CASE SetConnId
  BY <1>12, ConstFacts DEF SetConnId
<1>13. CASE ConnectWake
  BY <1>13, ConstFacts DEF ConnectWake
<1>14. CASE Connect
  BY <1>14, ConstFacts DEF Connect
<1>15. CASE Switch
  BY <1>15, ConstFacts DEF Switch
<1>16. CASE FlushEp
  <2>1. Keep(txq, {i \in DOMAIN txq : pvif[txq[i]] = target}) \in Seq(Cookies)
    BY LocalFacts, KeepSplit
  <2> QED BY <1>16, <2>1, ConstFacts DEF FlushEp, Complete
<1>17. CASE CleanupByIf
  <2>1. Queued(target) \in Seq(Cookies)
    BY <1>17, LocalFacts DEF CleanupByIf
  <2> QED BY <1>17, <2>1, ConstFacts DEF CleanupByIf, Complete
<1>18. CASE HifDone
  BY <1>18, ConstFacts DEF HifDone
<1>19. CASE HifDoneWake
  BY <1>19, ConstFacts DEF HifDoneWake
<1>20. CASE CmdDone
  BY <1>20, ConstFacts DEF CmdDone
<1>21. CASE HtcDrain
  BY <1>21, ConstFacts DEF HtcDrain
<1>22. CASE AssocFailed(v)
  BY <1>22, ConstFacts DEF AssocFailed
<1>23. CASE RoamSwitch
  BY <1>23, ConstFacts DEF RoamSwitch
<1> QED
  BY <1>1, <1>2, <1>3, <1>4, <1>5, <1>6, <1>7, <1>8, <1>9, <1>10, <1>11, <1>12, <1>13, <1>14,
     <1>15, <1>16, <1>17, <1>18, <1>19, <1>20, <1>21, <1>22, <1>23 DEF Step

LEMMA QueuesAre == TypeInv => QueuesOK
BY DEF TypeInv

LEMMA EmptyQueue == <<>> \in Seq(Cookies)
OBVIOUS

LEMMA FreeType ==
  ASSUME TypeInv, NEW cs \in Seq(Cookies), FreeCookies(cs)
  PROVE  free' \in [Kinds -> Seq(Cookies)]
<1>1. ASSUME NEW k \in Kinds PROVE FreedOf(cs, k) \o free[k] \in Seq(Cookies)
  <2>1. FreedOf(cs, k) \in Seq(Cookies) /\ free[k] \in Seq(Cookies)
    BY FreedIs, LocalFacts
  <2> QED BY <2>1
<1> QED BY <1>1, FreeCookiesIs

LEMMA QueuesStep ==
  ASSUME TypeInv, NEW v \in Vifs, NEW c \in Vifs \cup {"rx"},
         NEW tag \in {"data", "pri"}, Step(v, c, tag)
  PROVE  QueuesOK'
<1> USE DEF arVars, flowVars, htcVars, histVars
<1>1. CASE DataTx(v, tag)
  <2>1. /\ free' = [free EXCEPT ![KindOf(tag)] = Tail(@)]
        /\ UNCHANGED <<conn_queue, re_queue, txq, hif, lost>> /\ MayAlloc(v, tag)
    BY <1>1 DEF DataTx
  <2> QED BY <2>1, QueuesAre, FreeHead DEF QueuesOK
<1>2. CASE CopyFail(v)
  BY <1>2, QueuesAre, LocalFacts DEF CopyFail, QueuesOK, Holding
<1>3. CASE SchedulePkt(v)
  <2>1. hand[v] \in Cookies
    BY <1>3, LocalFacts DEF SchedulePkt, Holding
  <2>2. /\ <<hand[v]>> \o re_queue[v] \in Seq(Cookies)
        /\ Append(conn_queue[v], hand[v]) \in Seq(Cookies)
    <3>1. re_queue[v] \in Seq(Cookies) /\ conn_queue[v] \in Seq(Cookies)
      BY LocalFacts
    <3> QED BY <2>1, <3>1
  <2>3. UNCHANGED <<free, txq, hif, lost>>
    BY <1>3 DEF SchedulePkt
  <2>4. \/ UNCHANGED <<re_queue, conn_queue>>
        \/ re_queue' = [re_queue EXCEPT ![v] = <<hand[v]>> \o @] /\ UNCHANGED conn_queue
        \/ conn_queue' = [conn_queue EXCEPT ![v] = Append(@, hand[v])] /\ UNCHANGED re_queue
    BY <1>3 DEF SchedulePkt, Enqueue
  <2>5. re_queue' \in [Vifs -> Seq(Cookies)]
    BY <2>2, <2>4, QueuesAre DEF QueuesOK
  <2>6. conn_queue' \in [Vifs -> Seq(Cookies)]
    BY <2>2, <2>4, QueuesAre DEF QueuesOK
  <2> QED BY <2>3, <2>5, <2>6, QueuesAre DEF QueuesOK
<1>4. CASE SendPkt(v)
  <2>1. hand[v] \in Cookies
    BY <1>4, LocalFacts DEF SendPkt, Holding
  <2>2. txq' = txq \o <<hand[v]>> /\ UNCHANGED <<free, conn_queue, re_queue, hif, lost>>
    BY <1>4 DEF SendPkt, HtcSend
  <2>3. txq \o <<hand[v]>> \in Seq(Cookies)
    <3>1. txq \in Seq(Cookies)
      BY LocalFacts
    <3> QED BY <2>1, <3>1
  <2> QED BY <2>2, <2>3, QueuesAre DEF QueuesOK
<1>5. CASE TxSchedule(c, v)
  <2>1. txq \o Queued(v) \in Seq(Cookies) /\ <<>> \in Seq(Cookies)
    <3>1. txq \in Seq(Cookies) /\ Queued(v) \in Seq(Cookies)
      BY LocalFacts
    <3> QED BY <3>1
  <2>2. UNCHANGED <<free, hif, lost>>
    BY <1>5 DEF TxSchedule
  <2>3. \/ UNCHANGED <<txq, re_queue, conn_queue>>
        \/ /\ txq' = txq \o Queued(v) /\ re_queue' = [re_queue EXCEPT ![v] = <<>>]
           /\ conn_queue' = [conn_queue EXCEPT ![v] = <<>>]
    BY <1>5 DEF TxSchedule, HtcSend
  <2> QED BY <2>1, <2>2, <2>3, QueuesAre DEF QueuesOK
<1>6. CASE ConnectEvent(v)
  BY <1>6, QueuesAre, EmptyQueue DEF ConnectEvent, QueuesOK
<1>7. CASE DisconnectEvent(v)
  BY <1>7, QueuesAre DEF DisconnectEvent, QueuesOK
<1>8. CASE FlowctrlEvent
  BY <1>8, QueuesAre DEF FlowctrlEvent, QueuesOK
<1>9. CASE RxComplete
  <2>1. free' \in [Kinds -> Seq(Cookies)]
    BY <1>9, LocalFacts, FreeType DEF RxComplete, Reap
  <2> QED BY <1>9, <2>1, QueuesAre DEF QueuesOK, RxComplete
<1>10. CASE StateChange(v)
  <2>1. UNCHANGED <<free, conn_queue, hif, lost>>
    BY <1>10 DEF StateChange
  <2>2. \/ UNCHANGED <<txq, re_queue>>
        \/ /\ txq' = Keep(txq, DOMAIN txq \ MineAt(v))
           /\ re_queue' = [re_queue EXCEPT ![v] = @ \o BackOf(v)]
    BY <1>10, StateChangeIs DEF TakeBack
  <2>3. /\ re_queue[v] \in Seq(Cookies) /\ BackOf(v) \in Seq(Cookies)
        /\ Keep(txq, DOMAIN txq \ MineAt(v)) \in Seq(Cookies)
    BY LocalFacts, TakenFrom
  <2>4. re_queue[v] \o BackOf(v) \in Seq(Cookies)
    BY <2>3
  <2> QED BY <2>1, <2>2, <2>3, <2>4, QueuesAre DEF QueuesOK
<1>11. CASE StateChanged
  BY <1>11, QueuesAre DEF StateChanged, QueuesOK
<1>12. CASE SetConnId
  BY <1>12, QueuesAre DEF SetConnId, QueuesOK
<1>13. CASE ConnectWake
  BY <1>13, QueuesAre DEF ConnectWake, QueuesOK
<1>14. CASE Connect
  BY <1>14, QueuesAre DEF Connect, QueuesOK
<1>15. CASE Switch
  BY <1>15, QueuesAre DEF Switch, QueuesOK
<1>16. CASE FlushEp
  <2>1. Keep(txq, DOMAIN txq \ {i \in DOMAIN txq : pvif[txq[i]] = target}) \in Seq(Cookies)
    BY LocalFacts, KeepSplit
  <2> QED BY <1>16, <2>1, QueuesAre DEF FlushEp, QueuesOK
<1>17. CASE CleanupByIf
  BY <1>17, QueuesAre, EmptyQueue DEF CleanupByIf, QueuesOK
<1>18. CASE HifDone
  <2>1. PICK x \in hif : hif' = hif \ {x} /\ FreeCookies(<<x>>)
    BY <1>18 DEF HifDone, Reap
  <2>2. <<x>> \in Seq(Cookies)
    BY <2>1, QueuesAre DEF QueuesOK
  <2>3. free' \in [Kinds -> Seq(Cookies)]
    BY <2>1, <2>2, FreeType
  <2> QED BY <1>18, <2>1, <2>3, QueuesAre DEF QueuesOK, HifDone
<1>19. CASE HifDoneWake
  BY <1>19, QueuesAre DEF HifDoneWake, QueuesOK
<1>20. CASE CmdDone
  BY <1>20, QueuesAre DEF CmdDone, QueuesOK
<1>21. CASE HtcDrain
  <2>1. Tail(txq) \in Seq(Cookies) /\ Head(txq) \in Cookies
    <3>1. txq \in Seq(Cookies) /\ txq # <<>>
      BY <1>21, LocalFacts DEF HtcDrain
    <3> QED BY <3>1
  <2> QED BY <1>21, <2>1, QueuesAre DEF HtcDrain, QueuesOK
<1>22. CASE AssocFailed(v)
  BY <1>22, QueuesAre DEF AssocFailed, QueuesOK
<1>23. CASE RoamSwitch
  BY <1>23, QueuesAre DEF RoamSwitch, QueuesOK
<1> QED
  BY <1>1, <1>2, <1>3, <1>4, <1>5, <1>6, <1>7, <1>8, <1>9, <1>10, <1>11, <1>12, <1>13, <1>14,
     <1>15, <1>16, <1>17, <1>18, <1>19, <1>20, <1>21, <1>22, <1>23 DEF Step

\* What a completion does to the counters and the packets.
DataAt(cs, v) == {i \in DOMAIN cs : pkt[cs[i]].vif = v /\ pkt[cs[i]].tag = "data"}

LEMMA ReapIs ==
  ASSUME NEW cs \in Seq(Cookies), Reap(cs)
  PROVE  /\ free' = [k \in Kinds |-> FreedOf(cs, k) \o free[k]]
         /\ tx_pending' = tx_pending - Len(cs)
         /\ tx_on_vif' \subseteq tx_on_vif
         /\ data_cookie_count' = [v \in Vifs |-> data_cookie_count[v] - Cardinality(DataAt(cs, v))]
         /\ \A v \in Vifs : Cardinality(DataAt(cs, v)) \in Nat
         /\ pkt' = [c \in Cookies |-> IF c \in Range(cs) THEN NoPkt ELSE pkt[c]]
<1>1. free' = [k \in Kinds |-> FreedOf(cs, k) \o free[k]]
  BY FreeCookiesIs DEF Reap
<1>2. ASSUME NEW v \in Vifs PROVE Cardinality(DataAt(cs, v)) \in Nat
  <2>1. DataAt(cs, v) \in SUBSET DOMAIN cs
    BY DEF DataAt
  <2> QED BY <2>1, PositionsFinite
<1>3. \A v \in Vifs :
        {i \in {j \in DOMAIN cs : pkt[cs[j]].vif = v} : pkt[cs[i]].tag = "data"} = DataAt(cs, v)
  BY DEF DataAt
<1>4. /\ tx_pending' = tx_pending - Len(cs) /\ tx_on_vif' \subseteq tx_on_vif
      /\ pkt' = [c \in Cookies |-> IF c \in Range(cs) THEN NoPkt ELSE pkt[c]]
  BY DEF Reap
<1>5. data_cookie_count' = [v \in Vifs |-> data_cookie_count[v] - Cardinality(
        {i \in {j \in DOMAIN cs : pkt[cs[j]].vif = v} : pkt[cs[i]].tag = "data"})]
  BY DEF Reap
<1>6. data_cookie_count' = [v \in Vifs |-> data_cookie_count[v] - Cardinality(DataAt(cs, v))]
  BY <1>3, <1>5
<1> QED BY <1>1, <1>2, <1>4, <1>6

LEMMA FlagsAre == TypeInv => FlagsOK
BY DEF TypeInv

LEMMA ReapFlags ==
  ASSUME TypeInv, NEW cs \in Seq(Cookies), Reap(cs)
  PROVE  tx_on_vif' \subseteq Vifs /\ tx_pending' \in Int /\ data_cookie_count' \in [Vifs -> Int]
<1>1. Len(cs) \in Nat
  OBVIOUS
<1> QED BY <1>1, ReapIs, FlagsAre DEF FlagsOK

\* The network queues a transmission stops are interfaces' queues.
LEMMA StoppedType ==
  ASSUME TypeInv, NEW ps, NEW sending, HtcSend(ps, sending)
  PROVE  stopped' \subseteq Vifs
BY FlagsAre DEF HtcSend, QueueFullStops, FlagsOK

LEMMA QueuedLen ==
  ASSUME TypeInv, NEW v \in Vifs
  PROVE  Len(Queued(v)) \in Nat
<1>1. Queued(v) \in Seq(Cookies)
  BY LocalFacts
<1> QED BY <1>1

LEMMA FlagsStep ==
  ASSUME TypeInv, NEW v \in Vifs, NEW c \in Vifs \cup {"rx"},
         NEW tag \in {"data", "pri"}, Step(v, c, tag)
  PROVE  FlagsOK'
<1> USE DEF arVars, vifVars, flowVars, htcVars, histVars
<1>1. CASE DataTx(v, tag)
  <2>1. /\ UNCHANGED <<mcc, skip, cmd, tx_on_vif, connected, carrier, stopped, raced, ocs, previous_can_send,
                       sche_tx_queued, pvif, events, connects>>
        /\ tx_pending' = tx_pending + 1
        /\ data_cookie_count' =
             [data_cookie_count EXCEPT ![v] = IF tag = "data" THEN @ + 1 ELSE @]
    BY <1>1 DEF DataTx
  <2> QED BY <2>1, FlagsAre DEF FlagsOK
<1>2. CASE CopyFail(v)
  BY <1>2, FlagsAre, ConstFacts DEF CopyFail, FlagsOK
<1>3. CASE SchedulePkt(v)
  <2>1. UNCHANGED <<mcc, skip, cmd, tx_on_vif, tx_pending, connected, carrier, stopped, data_cookie_count,
                    raced, ocs, previous_can_send, pvif, events, connects>>
    BY <1>3 DEF SchedulePkt
  <2>2. \/ UNCHANGED sche_tx_queued
        \/ sche_tx_queued' = [sche_tx_queued EXCEPT ![v] = @ + 1]
    BY <1>3 DEF SchedulePkt, Enqueue
  <2> QED BY <2>1, <2>2, FlagsAre DEF FlagsOK
<1>4. CASE SendPkt(v)
  <2>1. /\ UNCHANGED <<mcc, skip, cmd, tx_pending, connected, carrier, data_cookie_count,
                       sche_tx_queued, raced, ocs, previous_can_send, events, connects>>
        /\ tx_on_vif' = tx_on_vif \cup {v} /\ pvif' = [pvif EXCEPT ![hand[v]] = v]
    BY <1>4 DEF SendPkt
  <2>2. stopped' \subseteq Vifs
    BY <1>4, StoppedType DEF SendPkt
  <2> QED BY <2>1, <2>2, FlagsAre DEF FlagsOK
<1>5. CASE TxSchedule(c, v)
  <2>1. UNCHANGED <<mcc, skip, cmd, tx_on_vif, tx_pending, connected, carrier, data_cookie_count,
                    raced, ocs, previous_can_send, pvif, events, connects>>
    BY <1>5 DEF TxSchedule
  <2>2. stopped' \subseteq Vifs
    <3>1. \/ UNCHANGED stopped \/ HtcSend(Queued(v), tx_on_vif)
      BY <1>5 DEF TxSchedule
    <3> QED BY <3>1, StoppedType, FlagsAre DEF FlagsOK
  <2>3. \/ UNCHANGED sche_tx_queued
        \/ sche_tx_queued' = [sche_tx_queued EXCEPT ![v] = @ - Len(Queued(v))]
    BY <1>5 DEF TxSchedule
  <2> QED BY <2>1, <2>2, <2>3, FlagsAre, QueuedLen DEF FlagsOK
<1>6. CASE ConnectEvent(v)
  <2>1. /\ UNCHANGED <<mcc, skip, cmd, tx_on_vif, tx_pending, connected, carrier, stopped, data_cookie_count,
                       raced, ocs, previous_can_send, pvif, events>>
        /\ connects < MaxConnects /\ connects' = connects + 1
    BY <1>6 DEF ConnectEvent
  <2>2. \/ UNCHANGED sche_tx_queued
        \/ sche_tx_queued' = [sche_tx_queued EXCEPT ![v] = @ - Len(Queued(v))]
    BY <1>6 DEF ConnectEvent
  <2>3. sche_tx_queued' \in [Vifs -> Int]
    BY <2>2, FlagsAre, QueuedLen DEF FlagsOK
  <2>4. connects' \in 0 .. MaxConnects
    BY <2>1, FlagsAre, ConstFacts DEF FlagsOK
  <2> QED BY <2>1, <2>3, <2>4, FlagsAre DEF FlagsOK
<1>7. CASE DisconnectEvent(v)
  BY <1>7, FlagsAre, ConstFacts DEF DisconnectEvent, FlagsOK
<1>8. CASE FlowctrlEvent
  <2>1. /\ UNCHANGED <<mcc, skip, cmd, tx_on_vif, tx_pending, connected, carrier, stopped, data_cookie_count,
                       raced, sche_tx_queued, previous_can_send, pvif, connects>>
        /\ ocs' \in [Vifs -> BOOLEAN] /\ events < MaxEvents /\ events' = events + 1
    BY <1>8 DEF FlowctrlEvent
  <2> QED BY <2>1, FlagsAre, ConstFacts DEF FlagsOK
<1>9. CASE RxComplete
  <2>1. /\ UNCHANGED <<mcc, skip, cmd, connected, carrier, sche_tx_queued, raced, ocs, previous_can_send, pvif, events,
                       connects>>
        /\ stopped' \subseteq stopped /\ Reap(batch)
    BY <1>9 DEF RxComplete
  <2>2. tx_on_vif' \subseteq Vifs /\ tx_pending' \in Int /\ data_cookie_count' \in [Vifs -> Int]
    BY <2>1, LocalFacts, ReapFlags
  <2> QED BY <2>1, <2>2, FlagsAre DEF FlagsOK
<1>10. CASE StateChange(v)
  <2>1. /\ UNCHANGED <<mcc, skip, cmd, tx_on_vif, tx_pending, connected, carrier, stopped, data_cookie_count,
                       ocs, pvif, events, connects>>
        /\ previous_can_send' = [previous_can_send EXCEPT ![v] = CanSend(v)]
        /\ raced' \subseteq raced \cup {v}
        /\ \/ UNCHANGED sche_tx_queued
           \/ sche_tx_queued' = [sche_tx_queued EXCEPT ![v] = @ + Len(BackOf(v))]
    BY <1>10, StateChangeIs DEF TakeBack
  <2>2. Len(BackOf(v)) \in Nat
    <3>1. BackOf(v) \in Seq(Cookies)
      BY TakenFrom
    <3> QED BY <3>1
  <2>3. CanSend(v) \in BOOLEAN
    BY DEF CanSend
  <2>4. previous_can_send' \in [Vifs -> BOOLEAN]
    BY <2>1, <2>3, FlagsAre DEF FlagsOK
  <2>5. sche_tx_queued' \in [Vifs -> Int]
    BY <2>1, <2>2, FlagsAre DEF FlagsOK
  <2>6. raced' \subseteq Vifs
    BY <2>1, FlagsAre DEF FlagsOK
  <2> QED BY <2>1, <2>4, <2>5, <2>6, FlagsAre DEF FlagsOK
<1>11. CASE StateChanged
  BY <1>11, FlagsAre DEF StateChanged, FlagsOK, FlowWake
<1>12. CASE SetConnId
  <2>1. /\ UNCHANGED <<mcc, skip, cmd, tx_on_vif, tx_pending, connected, carrier, stopped, data_cookie_count,
                       raced, ocs, previous_can_send, pvif, events, connects>>
        /\ sche_tx_queued' = [sche_tx_queued EXCEPT ![target] = 0] /\ target \in Vifs
    BY <1>12, LocalFacts DEF SetConnId
  <2>2. sche_tx_queued' \in [Vifs -> Int]
    BY <2>1, FlagsAre DEF FlagsOK
  <2> QED BY <2>1, <2>2, FlagsAre DEF FlagsOK
<1>13. CASE ConnectWake
  BY <1>13, FlagsAre, ConstFacts DEF ConnectWake, FlagsOK
<1>14. CASE Connect
  <2>1. /\ UNCHANGED <<mcc, skip, stopped, tx_on_vif, tx_pending, data_cookie_count,
                       raced, ocs, previous_can_send, sche_tx_queued, pvif, events, connects>>
        /\ connected' = connected \cup {target} /\ target \in Vifs /\ cmd' = TRUE
        /\ carrier' = carrier \cup {target}
    BY <1>14, LocalFacts DEF Connect
  <2> QED BY <2>1, FlagsAre DEF FlagsOK
<1>15. CASE Switch
  <2>1. UNCHANGED <<cmd, tx_on_vif, tx_pending, connected, carrier, stopped, data_cookie_count,
                    raced, ocs, previous_can_send, sche_tx_queued, pvif, events, connects>>
    BY <1>15 DEF Switch
  <2>2. mcc' \in BOOLEAN /\ skip' \in BOOLEAN
    BY <1>15 DEF Switch, SwitchParameter
  <2> QED BY <2>1, <2>2, FlagsAre DEF FlagsOK
<1>16. CASE FlushEp
  <2>1. /\ UNCHANGED <<mcc, skip, cmd, tx_on_vif, tx_pending, connected, carrier, data_cookie_count,
                       raced, ocs, previous_can_send, sche_tx_queued, pvif, events, connects>>
        /\ stopped' = stopped \cup {target} /\ target \in Vifs
    BY <1>16, LocalFacts DEF FlushEp
  <2> QED BY <2>1, FlagsAre DEF FlagsOK
<1>17. CASE CleanupByIf
  <2>1. /\ UNCHANGED <<mcc, skip, cmd, tx_on_vif, tx_pending, connected, carrier, stopped, data_cookie_count,
                       raced, ocs, previous_can_send, pvif, events, connects>>
        /\ sche_tx_queued' = [sche_tx_queued EXCEPT ![target] = @ - Len(Queued(target))]
    BY <1>17 DEF CleanupByIf
  <2>2. target \in Vifs
    BY <1>17, LocalFacts DEF CleanupByIf
  <2> QED BY <2>1, <2>2, FlagsAre, QueuedLen DEF FlagsOK
<1>18. CASE HifDone
  <2>1. UNCHANGED <<mcc, skip, cmd, connected, carrier, stopped, sche_tx_queued, raced, ocs, previous_can_send, pvif,
                    events, connects>>
    BY <1>18 DEF HifDone
  <2>2. tx_on_vif' \subseteq Vifs /\ tx_pending' \in Int /\ data_cookie_count' \in [Vifs -> Int]
    <3>1. PICK x \in hif : Reap(<<x>>)
      BY <1>18 DEF HifDone
    <3>2. <<x>> \in Seq(Cookies)
      BY <3>1, QueuesAre DEF QueuesOK
    <3> QED BY <3>1, <3>2, ReapFlags
  <2> QED BY <2>1, <2>2, FlagsAre DEF FlagsOK
<1>19. CASE HifDoneWake
  BY <1>19, FlagsAre, ConstFacts DEF HifDoneWake, FlagsOK
<1>20. CASE CmdDone
  BY <1>20, FlagsAre, ConstFacts DEF CmdDone, FlagsOK
<1>21. CASE HtcDrain
  BY <1>21, FlagsAre, ConstFacts DEF HtcDrain, FlagsOK
<1>22. CASE AssocFailed(v)
  BY <1>22, FlagsAre, ConstFacts DEF AssocFailed, FlagsOK
<1>23. CASE RoamSwitch
  <2>1. /\ UNCHANGED <<tx_on_vif, tx_pending, connected, carrier, stopped, data_cookie_count,
                       raced, ocs, previous_can_send, sche_tx_queued, pvif, events, connects>>
        /\ cmd' = TRUE
    BY <1>23 DEF RoamSwitch
  <2>2. mcc' \in BOOLEAN /\ skip' \in BOOLEAN
    BY <1>23 DEF RoamSwitch, SwitchParameter
  <2> QED BY <2>1, <2>2, FlagsAre DEF FlagsOK
<1> QED
  BY <1>1, <1>2, <1>3, <1>4, <1>5, <1>6, <1>7, <1>8, <1>9, <1>10, <1>11, <1>12, <1>13, <1>14,
     <1>15, <1>16, <1>17, <1>18, <1>19, <1>20, <1>21, <1>22, <1>23 DEF Step

\* The bound on packets is kept.
LEMMA BornBound ==
  ASSUME born \in [Vifs -> 0 .. MaxPkts], NEW v \in Vifs, Cardinality(Accepted) < MaxPkts
  PROVE  born[v] + 1 \in 0 .. MaxPkts
<1> DEFINE S == {<<v, i>> : i \in 1 .. MaxPkts}
<1>1. IsFiniteSet(Accepted) /\ MaxPkts \in Nat
  <2>1. IsFiniteSet(1 .. MaxPkts) /\ IsFiniteSet(Vifs) /\ MaxPkts \in Nat
    BY ConstFacts, FS_Interval
  <2>2. IsFiniteSet(Vifs \X (1 .. MaxPkts))
    BY <2>1, FS_Product
  <2> QED BY <2>1, <2>2, FS_Subset DEF Accepted
<1>2. Cardinality(1 .. MaxPkts) = MaxPkts /\ IsFiniteSet(1 .. MaxPkts)
  BY <1>1, FS_Interval
<1> DEFINE f == [i \in 1 .. MaxPkts |-> <<v, i>>]
<1>3. f \in Bijection(1 .. MaxPkts, S)
  BY DEF Bijection, Injection, Surjection, IsInjective
<1>4. Cardinality(S) = MaxPkts
  <2>1. ExistsBijection(1 .. MaxPkts, S)
    BY <1>3 DEF ExistsBijection
  <2> HIDE DEF S
  <2> QED BY <1>1, <2>1, FS_CountingElements
<1>5. CASE born[v] = MaxPkts
  <2>1. S \subseteq Accepted
    BY <1>5 DEF Accepted
  <2> HIDE DEF S
  <2>2. Cardinality(S) <= Cardinality(Accepted)
    BY <1>1, <2>1, FS_Subset
  <2>3. Cardinality(Accepted) \in Nat
    BY <1>1, FS_CardinalityType
  <2> QED BY <1>1, <1>4, <2>2, <2>3
<1>6. CASE born[v] # MaxPkts
  BY <1>1, <1>6
<1> QED BY <1>5, <1>6

LEMMA PktsAre == TypeInv => PktsOK
BY DEF TypeInv

LEMMA ReapPkts ==
  ASSUME TypeInv, NEW cs \in Seq(Cookies), Reap(cs)
  PROVE  pkt' \in [Cookies -> PktType]
<1>1. NoPkt \in PktType
  BY ConstFacts DEF NoPkt, PktType
<1> QED BY <1>1, ReapIs, PktsAre DEF PktsOK

LEMMA PktsStep ==
  ASSUME TypeInv, NEW v \in Vifs, NEW c \in Vifs \cup {"rx"},
         NEW tag \in {"data", "pri"}, Step(v, c, tag)
  PROVE  PktsOK'
<1> USE DEF histVars
<1>1. CASE DataTx(v, tag)
  <2> DEFINE x == Head(free[KindOf(tag)])
  <2>1. /\ pkt' = [pkt EXCEPT ![x] = [vif |-> v, tag |-> tag, recycle |-> 0, num |-> born[v] + 1]]
        /\ born' = [born EXCEPT ![v] = @ + 1] /\ UNCHANGED last /\ Cardinality(Accepted) < MaxPkts
    BY <1>1 DEF DataTx
  <2>2. born[v] + 1 \in 0 .. MaxPkts
    BY <2>1, BornBound, PktsAre DEF PktsOK
  <2>3. [vif |-> v, tag |-> tag, recycle |-> 0, num |-> born[v] + 1] \in PktType
    BY <2>2, ConstFacts DEF PktType
  <2> HIDE DEF x
  <2> QED BY <2>1, <2>2, <2>3, PktsAre DEF PktsOK
<1>2. CASE CopyFail(v)
  BY <1>2, PktsAre DEF CopyFail, PktsOK
<1>3. CASE SchedulePkt(v)
  BY <1>3, PktsAre DEF SchedulePkt, PktsOK
<1>4. CASE SendPkt(v)
  BY <1>4, PktsAre DEF SendPkt, PktsOK
<1>5. CASE TxSchedule(c, v)
  BY <1>5, PktsAre DEF TxSchedule, PktsOK
<1>6. CASE ConnectEvent(v)
  BY <1>6, PktsAre DEF ConnectEvent, PktsOK
<1>7. CASE DisconnectEvent(v)
  BY <1>7, PktsAre DEF DisconnectEvent, PktsOK
<1>8. CASE FlowctrlEvent
  BY <1>8, PktsAre DEF FlowctrlEvent, PktsOK
<1>9. CASE RxComplete
  <2>1. pkt' \in [Cookies -> PktType]
    BY <1>9, LocalFacts, ReapPkts DEF RxComplete
  <2> QED BY <1>9, <2>1, PktsAre DEF RxComplete, PktsOK
<1>10. CASE StateChange(v)
  <2>1. UNCHANGED <<born, last>>
    BY <1>10, StateChangeIs
  <2>2. CASE UNCHANGED pkt
    BY <2>1, <2>2, PktsAre DEF PktsOK
  <2>3. CASE TakeBack(v)
    <3>1. ASSUME NEW x \in Cookies, x \in Range(BackOf(v))
          PROVE  [pkt[x] EXCEPT !.recycle = @ + 1] \in PktType
      <4>1. ~Aged(x)
        <5>1. Range(BackOf(v)) = {txq[i] : i \in MineAt(v) \ AgedAt(v)}
          BY TakenFrom
        <5>2. PICK i \in MineAt(v) \ AgedAt(v) : x = txq[i]
          BY <3>1, <5>1
        <5> QED BY <5>2 DEF AgedAt
      <4>2. pkt[x] \in PktType /\ ~(pkt[x].recycle > RecycleLimit)
        BY <4>1, PktsAre DEF PktsOK, Aged
      <4> QED BY <4>2, ConstFacts DEF PktType
    <3>2. pkt' = [x \in Cookies |-> IF x \in Range(BackOf(v))
                                    THEN [pkt[x] EXCEPT !.recycle = @ + 1] ELSE pkt[x]]
      BY <2>3 DEF TakeBack
    <3> QED BY <2>1, <3>1, <3>2, PktsAre DEF PktsOK
  <2> QED BY <1>10, <2>2, <2>3, StateChangeIs
<1>11. CASE StateChanged
  BY <1>11, PktsAre DEF StateChanged, PktsOK
<1>12. CASE SetConnId
  BY <1>12, PktsAre DEF SetConnId, PktsOK
<1>13. CASE ConnectWake
  BY <1>13, PktsAre DEF ConnectWake, PktsOK
<1>14. CASE Connect
  BY <1>14, PktsAre DEF Connect, PktsOK
<1>15. CASE Switch
  BY <1>15, PktsAre DEF Switch, PktsOK
<1>16. CASE FlushEp
  BY <1>16, PktsAre DEF FlushEp, PktsOK
<1>17. CASE CleanupByIf
  BY <1>17, PktsAre DEF CleanupByIf, PktsOK
<1>18. CASE HifDone
  <2>1. PICK x \in hif : Reap(<<x>>)
    BY <1>18 DEF HifDone
  <2>2. <<x>> \in Seq(Cookies)
    BY <2>1, QueuesAre DEF QueuesOK
  <2>3. pkt' \in [Cookies -> PktType]
    BY <2>1, <2>2, ReapPkts
  <2> QED BY <1>18, <2>3, PktsAre DEF HifDone, PktsOK
<1>19. CASE HifDoneWake
  BY <1>19, PktsAre DEF HifDoneWake, PktsOK
<1>20. CASE CmdDone
  BY <1>20, PktsAre DEF CmdDone, PktsOK
<1>21. CASE HtcDrain
  <2>1. UNCHANGED <<pkt, born>>
    BY <1>21 DEF HtcDrain
  <2>2. Head(txq) \in Cookies
    <3>1. txq \in Seq(Cookies) /\ txq # <<>>
      BY <1>21, LocalFacts DEF HtcDrain
    <3> QED BY <3>1
  <2>3. pkt[Head(txq)].num \in 0 .. MaxPkts
    BY <2>2, PktsAre DEF PktsOK, PktType
  <2>4. last' = last \/ last' = [last EXCEPT ![pkt[Head(txq)].vif] = pkt[Head(txq)].num]
    BY <1>21 DEF HtcDrain
  <2> QED BY <2>1, <2>3, <2>4, PktsAre DEF PktsOK
<1>22. CASE AssocFailed(v)
  BY <1>22, PktsAre DEF AssocFailed, PktsOK
<1>23. CASE RoamSwitch
  BY <1>23, PktsAre DEF RoamSwitch, PktsOK
<1> QED
  BY <1>1, <1>2, <1>3, <1>4, <1>5, <1>6, <1>7, <1>8, <1>9, <1>10, <1>11, <1>12, <1>13, <1>14,
     <1>15, <1>16, <1>17, <1>18, <1>19, <1>20, <1>21, <1>22, <1>23 DEF Step

LEMMA TypeInvUnchanged == TypeInv /\ UNCHANGED vars => TypeInv'
BY DEF TypeInv, CtxOK, RxOK, QueuesOK, FlagsOK, PktsOK, vars, arVars, vifVars, flowVars, htcVars,
       locVars, histVars

LEMMA TypeInvStep == TypeInv /\ [Next]_vars => TypeInv'
<1>1. ASSUME TypeInv, Next PROVE TypeInv'
  <2>1. PICK v \in Vifs, c \in Vifs \cup {"rx"}, tag \in {"data", "pri"} : Step(v, c, tag)
    BY <1>1, NextStep
  <2> QED BY <1>1, <2>1, CtxStep, RxOKStep, QueuesStep, FlagsStep, PktsStep DEF TypeInv
<1> QED BY <1>1, TypeInvUnchanged

LEMMA TypeInvAlways == Spec => []TypeInv
BY InitTypeInv, TypeInvStep, PTL DEF Spec

-----------------------------------------------------------------------------
(* Where the cookies are. *)

Txq == <<"txq", Nobody>>
Batch == <<"batch", Nobody>>
Hif == <<"hif", Nobody>>
Lost == <<"lost", Nobody>>
FreeOf(k) == <<"free", k>>
ReOf(v) == <<"re", v>>
ConnOf(v) == <<"conn", v>>
HandOf(v) == <<"hand", v>>

Spots == ({"txq", "batch", "hif", "lost"} \X {Nobody}) \cup ({"free"} \X Kinds)
         \cup ({"re", "conn", "hand"} \X Vifs)

Here(s) ==
  CASE s[1] = "txq"   -> Range(txq)
    [] s[1] = "batch" -> Range(batch)
    [] s[1] = "hif"   -> hif
    [] s[1] = "lost"  -> lost
    [] s[1] = "free"  -> Range(free[s[2]])
    [] s[1] = "re"    -> Range(re_queue[s[2]])
    [] s[1] = "conn"  -> Range(conn_queue[s[2]])
    [] OTHER          -> {hand[s[2]]} \ {Nobody}

OneSpot ==
  /\ \A r, s \in Spots : r # s => Here(r) \cap Here(s) = {}
  /\ \A c \in Cookies : \E s \in Spots : c \in Here(s)

QueuesDistinct ==
  /\ Distinct(txq) /\ Distinct(batch) /\ (\A k \in Kinds : Distinct(free[k]))
  /\ \A v \in Vifs : Distinct(re_queue[v]) /\ Distinct(conn_queue[v])

FreeKinds == \A k \in Kinds : Range(free[k]) \subseteq CookiesOf(k)

PlaceInv == OneSpot /\ QueuesDistinct /\ FreeKinds

LEMMA SpotsAre ==
  /\ Txq \in Spots /\ Batch \in Spots /\ Hif \in Spots /\ Lost \in Spots
  /\ \A k \in Kinds : FreeOf(k) \in Spots
  /\ \A v \in Vifs : ReOf(v) \in Spots /\ ConnOf(v) \in Spots /\ HandOf(v) \in Spots
  /\ \A s \in Spots : \/ s \in {Txq, Batch, Hif, Lost}
                      \/ \E k \in Kinds : s = FreeOf(k)
                      \/ \E v \in Vifs : s \in {ReOf(v), ConnOf(v), HandOf(v)}
BY DEF Spots, Txq, Batch, Hif, Lost, FreeOf, ReOf, ConnOf, HandOf

LEMMA SpotsDiffer ==
  /\ \A r, s \in {Txq, Batch, Hif, Lost} : r[1] = s[1] => r = s
  /\ Txq # Batch /\ Txq # Hif /\ Txq # Lost /\ Batch # Hif /\ Batch # Lost /\ Hif # Lost
  /\ \A k : FreeOf(k) \notin {Txq, Batch, Hif, Lost}
  /\ \A v : /\ ReOf(v) \notin {Txq, Batch, Hif, Lost}
            /\ ConnOf(v) \notin {Txq, Batch, Hif, Lost}
            /\ HandOf(v) \notin {Txq, Batch, Hif, Lost}
  /\ \A v, w : /\ ReOf(v) # ConnOf(w) /\ ReOf(v) # HandOf(w) /\ ConnOf(v) # HandOf(w)
               /\ ReOf(v) # FreeOf(w) /\ ConnOf(v) # FreeOf(w) /\ HandOf(v) # FreeOf(w)
               /\ v # w => /\ ReOf(v) # ReOf(w) /\ ConnOf(v) # ConnOf(w)
                           /\ HandOf(v) # HandOf(w) /\ FreeOf(v) # FreeOf(w)
BY DEF Txq, Batch, Hif, Lost, FreeOf, ReOf, ConnOf, HandOf

LEMMA HereIs ==
  /\ Here(Txq) = Range(txq) /\ Here(Batch) = Range(batch) /\ Here(Hif) = hif /\ Here(Lost) = lost
  /\ \A k : Here(FreeOf(k)) = Range(free[k])
  /\ \A v : /\ Here(ReOf(v)) = Range(re_queue[v]) /\ Here(ConnOf(v)) = Range(conn_queue[v])
            /\ Here(HandOf(v)) = {hand[v]} \ {Nobody}
BY DEF Here, Txq, Batch, Hif, Lost, FreeOf, ReOf, ConnOf, HandOf

LEMMA HereNext ==
  /\ Here(Txq)' = Range(txq') /\ Here(Batch)' = Range(batch') /\ Here(Hif)' = hif' /\ Here(Lost)' = lost'
  /\ \A k : Here(FreeOf(k))' = Range(free'[k])
  /\ \A v : /\ Here(ReOf(v))' = Range(re_queue'[v]) /\ Here(ConnOf(v))' = Range(conn_queue'[v])
            /\ Here(HandOf(v))' = {hand'[v]} \ {Nobody}
BY DEF Here, Txq, Batch, Hif, Lost, FreeOf, ReOf, ConnOf, HandOf

\* What a step leaves of the lists.
SameAt(s) ==
  /\ s = Txq => txq' = txq
  /\ s = Batch => batch' = batch
  /\ s = Hif => hif' = hif
  /\ s = Lost => lost' = lost
  /\ \A k \in Kinds : s = FreeOf(k) => free'[k] = free[k]
  /\ \A v \in Vifs : /\ s = ReOf(v) => re_queue'[v] = re_queue[v]
                     /\ s = ConnOf(v) => conn_queue'[v] = conn_queue[v]
                     /\ s = HandOf(v) => hand'[v] = hand[v]

LEMMA HereSame ==
  ASSUME NEW s \in Spots, SameAt(s)
  PROVE  Here(s)' = Here(s)
<1>1. CASE s \in {Txq, Batch, Hif, Lost}
  BY <1>1, HereIs, HereNext DEF SameAt
<1>2. CASE \E k \in Kinds : s = FreeOf(k)
  BY <1>2, HereIs, HereNext DEF SameAt
<1>3. CASE \E v \in Vifs : s \in {ReOf(v), ConnOf(v), HandOf(v)}
  <2>1. PICK v \in Vifs : s \in {ReOf(v), ConnOf(v), HandOf(v)}
    BY <1>3
  <2>2. CASE s = ReOf(v)
    BY <2>2, HereIs, HereNext DEF SameAt
  <2>3. CASE s = ConnOf(v)
    BY <2>3, HereIs, HereNext DEF SameAt
  <2>4. CASE s = HandOf(v)
    BY <2>4, HereIs, HereNext DEF SameAt
  <2> QED BY <2>1, <2>2, <2>3, <2>4
<1> QED BY <1>1, <1>2, <1>3, SpotsAre

\* The cookies in X go from the spots in O to the spot q, those in Y to r.
Moved(O, q, X, r, Y) ==
  /\ O \subseteq Spots /\ q \in Spots \ O /\ r \in Spots \ O /\ q # r
  /\ X \cap Y = {} /\ \A x \in X \cup Y : \E o \in O : x \in Here(o)
  /\ \A o \in O : Here(o)' = Here(o) \ (X \cup Y)
  /\ Here(q)' = Here(q) \cup X /\ Here(r)' = Here(r) \cup Y
  /\ \A s \in Spots \ O : s # q /\ s # r => Here(s)' = Here(s)

LEMMA MovedKeeps ==
  ASSUME OneSpot, NEW O, NEW q, NEW X, NEW r, NEW Y, Moved(O, q, X, r, Y)
  PROVE  OneSpot'
<1> DEFINE To(s) == IF s = q THEN X ELSE IF s = r THEN Y ELSE {}
<1>1. \A s \in Spots \ O : Here(s) \cap (X \cup Y) = {}
  BY DEF OneSpot, Moved
<1>2. \A s \in Spots : Here(s)' = (Here(s) \ (X \cup Y)) \cup To(s)
  <2>1. ASSUME NEW s \in O PROVE Here(s)' = (Here(s) \ (X \cup Y)) \cup To(s)
    BY DEF Moved
  <2>2. ASSUME NEW s \in Spots \ O PROVE Here(s)' = (Here(s) \ (X \cup Y)) \cup To(s)
    <3>1. Here(s) \ (X \cup Y) = Here(s)
      BY <1>1
    <3>2. Here(s)' = Here(s) \cup To(s)
      BY DEF Moved
    <3> QED BY <3>1, <3>2
  <2> QED BY <2>1, <2>2
<1>3. \A s, u \in Spots : s # u => To(s) \cap To(u) = {}
  BY DEF Moved
<1>4. \A s \in Spots : To(s) \subseteq X \cup Y
  BY DEF Moved
<1>5. X = To(q) /\ Y = To(r) /\ q \in Spots /\ r \in Spots
  BY DEF Moved
<1> HIDE DEF To
<1>6. ASSUME NEW s \in Spots, NEW u \in Spots, s # u PROVE Here(s)' \cap Here(u)' = {}
  <2>1. Here(s) \cap Here(u) = {}
    BY <1>6 DEF OneSpot
  <2>2. /\ Here(s)' = (Here(s) \ (X \cup Y)) \cup To(s) /\ Here(u)' = (Here(u) \ (X \cup Y)) \cup To(u)
        /\ To(s) \subseteq X \cup Y /\ To(u) \subseteq X \cup Y /\ To(s) \cap To(u) = {}
    BY <1>2, <1>3, <1>4, <1>6
  <2> QED BY <2>1, <2>2
<1>7. ASSUME NEW c \in Cookies PROVE \E s \in Spots : c \in Here(s)'
  <2>1. PICK s \in Spots : c \in Here(s)
    BY DEF OneSpot
  <2>2. CASE c \in X \cup Y
    BY <1>2, <1>5, <2>2
  <2>3. CASE c \notin X \cup Y
    BY <1>2, <2>1, <2>3
  <2> QED BY <2>2, <2>3
<1> QED BY <1>6, <1>7 DEF OneSpot, Spots

\* The lists two spots name have no cookie in common.
LEMMA Apart ==
  ASSUME OneSpot
  PROVE  /\ Range(txq) \cap Range(batch) = {}
         /\ \A v \in Vifs :
              /\ Range(txq) \cap Range(re_queue[v]) = {} /\ Range(txq) \cap Range(conn_queue[v]) = {}
              /\ Range(re_queue[v]) \cap Range(conn_queue[v]) = {}
              /\ hand[v] # Nobody => /\ hand[v] \notin Range(txq) /\ hand[v] \notin Range(re_queue[v])
                                     /\ hand[v] \notin Range(conn_queue[v])
         /\ \A k \in Kinds : Range(free[k]) \cap Range(batch) = {} /\ Range(free[k]) \cap hif = {}
<1>1. \A r, s \in Spots : r # s => Here(r) \cap Here(s) = {}
  BY DEF OneSpot
<1>2. Range(txq) \cap Range(batch) = {}
  BY <1>1, SpotsAre, SpotsDiffer, HereIs
<1>3. ASSUME NEW v \in Vifs
      PROVE  /\ Range(txq) \cap Range(re_queue[v]) = {} /\ Range(txq) \cap Range(conn_queue[v]) = {}
             /\ Range(re_queue[v]) \cap Range(conn_queue[v]) = {}
             /\ hand[v] # Nobody => /\ hand[v] \notin Range(txq) /\ hand[v] \notin Range(re_queue[v])
                                    /\ hand[v] \notin Range(conn_queue[v])
  <2>1. /\ Txq \in Spots /\ ReOf(v) \in Spots /\ ConnOf(v) \in Spots /\ HandOf(v) \in Spots
        /\ Txq # ReOf(v) /\ Txq # ConnOf(v) /\ Txq # HandOf(v)
        /\ ReOf(v) # ConnOf(v) /\ ReOf(v) # HandOf(v) /\ ConnOf(v) # HandOf(v)
    BY SpotsAre, SpotsDiffer
  <2>2. /\ Here(Txq) = Range(txq) /\ Here(ReOf(v)) = Range(re_queue[v])
        /\ Here(ConnOf(v)) = Range(conn_queue[v]) /\ Here(HandOf(v)) = {hand[v]} \ {Nobody}
    BY HereIs
  <2>3. /\ Here(Txq) \cap Here(ReOf(v)) = {} /\ Here(Txq) \cap Here(ConnOf(v)) = {}
        /\ Here(Txq) \cap Here(HandOf(v)) = {} /\ Here(ReOf(v)) \cap Here(ConnOf(v)) = {}
        /\ Here(ReOf(v)) \cap Here(HandOf(v)) = {} /\ Here(ConnOf(v)) \cap Here(HandOf(v)) = {}
    BY <1>1, <2>1
  <2> QED BY <2>2, <2>3
<1>4. ASSUME NEW k \in Kinds PROVE Range(free[k]) \cap Range(batch) = {} /\ Range(free[k]) \cap hif = {}
  <2>1. /\ FreeOf(k) \in Spots /\ Batch \in Spots /\ Hif \in Spots /\ FreeOf(k) # Batch /\ FreeOf(k) # Hif
    BY SpotsAre, SpotsDiffer
  <2>2. Here(FreeOf(k)) \cap Here(Batch) = {} /\ Here(FreeOf(k)) \cap Here(Hif) = {}
    BY <1>1, <2>1
  <2> QED BY <2>2, HereIs
<1> QED BY <1>2, <1>3, <1>4

LEMMA PlaceSame ==
  ASSUME PlaceInv, UNCHANGED <<free, lost, txq, hif, batch, re_queue, conn_queue, hand>>
  PROVE  PlaceInv'
<1>1. \A s \in Spots : Here(s)' = Here(s)
  BY HereSame DEF SameAt
<1>2. OneSpot'
  BY <1>1 DEF PlaceInv, OneSpot, Spots
<1> QED BY <1>2 DEF PlaceInv, QueuesDistinct, FreeKinds

LEMMA Single ==
  ASSUME NEW S, NEW x \in S
  PROVE  <<x>> \in Seq(S) /\ Distinct(<<x>>) /\ Range(<<x>>) = {x} /\ Len(<<x>>) = 1
<1>1. <<x>> \in Seq(S) /\ DOMAIN <<x>> = {1} /\ <<x>>[1] = x /\ Len(<<x>>) = 1
  OBVIOUS
<1> QED BY <1>1 DEF Distinct, Range

\* A cookie is taken by a sender ..
LEMMA PlaceAlloc ==
  ASSUME TypeInv, PlaceInv, NEW v \in Vifs, hand[v] = Nobody, NEW k \in Kinds, free[k] # <<>>,
         free' = [free EXCEPT ![k] = Tail(free[k])], hand' = [hand EXCEPT ![v] = Head(free[k])],
         UNCHANGED <<lost, txq, hif, batch, re_queue, conn_queue>>
  PROVE  PlaceInv'
<1> DEFINE x == Head(free[k])
<1>1. free[k] \in Seq(Cookies) /\ Distinct(free[k])
  BY LocalFacts DEF PlaceInv, QueuesDistinct
<1>2. x \in Range(free[k]) /\ Distinct(Tail(free[k])) /\ Range(Tail(free[k])) = Range(free[k]) \ {x}
  BY <1>1, DistinctTail
<1>3. x \in Cookies /\ x # Nobody
  BY <1>1, <1>2, RangeType, ConstFacts
<1> HIDE DEF x
<1>t. free \in [Kinds -> Seq(Cookies)] /\ hand \in [Vifs -> Cookies \cup {Nobody}]
  BY DEF TypeInv, QueuesOK, CtxOK
<1>4. /\ free'[k] = Tail(free[k]) /\ (\A j \in Kinds \ {k} : free'[j] = free[j])
      /\ hand'[v] = x /\ (\A u \in Vifs \ {v} : hand'[u] = hand[u])
  BY <1>t DEF x
<1>5. \A s \in Spots : s # FreeOf(k) /\ s # HandOf(v) => SameAt(s)
  BY <1>4 DEF SameAt
<1>6. Here(FreeOf(k))' = Here(FreeOf(k)) \ {x} /\ x \in Here(FreeOf(k))
  BY <1>2, <1>4, HereIs, HereNext
<1>7. Here(HandOf(v))' = Here(HandOf(v)) \cup {x}
  BY <1>3, <1>4, HereIs, HereNext
<1>8. /\ FreeOf(k) \in Spots /\ HandOf(v) \in Spots /\ Lost \in Spots
      /\ Lost # FreeOf(k) /\ Lost # HandOf(v) /\ FreeOf(k) # HandOf(v)
  BY SpotsAre, SpotsDiffer
<1>9. \A s \in Spots : s # FreeOf(k) /\ s # HandOf(v) => Here(s)' = Here(s)
  BY <1>5, HereSame
<1>10. Moved({FreeOf(k)}, HandOf(v), {x}, Lost, {})
  BY <1>6, <1>7, <1>8, <1>9 DEF Moved
<1>11. OneSpot'
  BY <1>10, MovedKeeps DEF PlaceInv
<1>12. QueuesDistinct'
  BY <1>2, <1>4 DEF PlaceInv, QueuesDistinct
<1>13. FreeKinds'
  BY <1>2, <1>4 DEF PlaceInv, FreeKinds
<1> QED BY <1>11, <1>12, <1>13 DEF PlaceInv

\* .. left with nobody ..
LEMMA PlaceLost ==
  ASSUME TypeInv, PlaceInv, NEW v \in Vifs, hand[v] \in Cookies,
         hand' = [hand EXCEPT ![v] = Nobody], lost' = lost \cup {hand[v]},
         UNCHANGED <<free, txq, hif, batch, re_queue, conn_queue>>
  PROVE  PlaceInv'
<1> DEFINE x == hand[v]
<1>1. x \in Cookies /\ x # Nobody
  BY ConstFacts
<1> HIDE DEF x
<1>2. hand \in [Vifs -> Cookies \cup {Nobody}]
  BY DEF TypeInv, CtxOK
<1>3. hand'[v] = Nobody /\ \A u \in Vifs \ {v} : hand'[u] = hand[u]
  BY <1>2
<1>7. Here(Lost)' = Here(Lost) \cup {x}
  BY HereIs, HereNext DEF x
<1>8. Here(HandOf(v))' = Here(HandOf(v)) \ {x} /\ x \in Here(HandOf(v))
  BY <1>1, <1>3, HereIs, HereNext DEF x
<1>9. /\ HandOf(v) \in Spots /\ Lost \in Spots /\ Hif \in Spots
      /\ Lost # HandOf(v) /\ Hif # HandOf(v) /\ Lost # Hif
  BY SpotsAre, SpotsDiffer
<1>10. \A s \in Spots : s # HandOf(v) /\ s # Lost => Here(s)' = Here(s)
  <2>1. \A s \in Spots : s # HandOf(v) /\ s # Lost => SameAt(s)
    BY <1>3 DEF SameAt
  <2> QED BY <2>1, HereSame
<1>11. Moved({HandOf(v)}, Lost, {x}, Hif, {})
  BY <1>7, <1>8, <1>9, <1>10 DEF Moved
<1>12. OneSpot'
  BY <1>11, MovedKeeps DEF PlaceInv
<1>13. QueuesDistinct'
  BY DEF PlaceInv, QueuesDistinct
<1>14. FreeKinds'
  BY DEF PlaceInv, FreeKinds
<1> QED BY <1>12, <1>13, <1>14 DEF PlaceInv

\* .. put first on a connection's queue ..
LEMMA PlaceFirst ==
  ASSUME TypeInv, PlaceInv, NEW v \in Vifs, hand[v] \in Cookies,
         hand' = [hand EXCEPT ![v] = Nobody], re_queue' = [re_queue EXCEPT ![v] = <<hand[v]>> \o @],
         UNCHANGED <<free, lost, txq, hif, batch, conn_queue>>
  PROVE  PlaceInv'
<1> DEFINE x == hand[v]
<1>1. x \in Cookies /\ x # Nobody
  BY ConstFacts
<1> HIDE DEF x
<1>2. hand \in [Vifs -> Cookies \cup {Nobody}]
  BY DEF TypeInv, CtxOK
<1>3. hand'[v] = Nobody /\ \A u \in Vifs \ {v} : hand'[u] = hand[u]
  BY <1>2
<1>4. /\ re_queue[v] \in Seq(Cookies) /\ Distinct(re_queue[v]) /\ x \notin Range(re_queue[v])
  BY <1>1, LocalFacts, Apart DEF PlaceInv, QueuesDistinct, x
<1>5. re_queue'[v] = <<x>> \o re_queue[v] /\ \A u \in Vifs \ {v} : re_queue'[u] = re_queue[u]
  BY QueuesAre DEF QueuesOK, x
<1>6. Distinct(<<x>> \o re_queue[v])
  <2>1. <<x>> \in Seq(Cookies) /\ Distinct(<<x>>) /\ Range(<<x>>) = {x}
    BY <1>1, Single
  <2> QED BY <1>4, <2>1, DistinctConcat
<1>7. Here(ReOf(v))' = Here(ReOf(v)) \cup {x}
  <2> DEFINE y == <<x>>
  <2>1. y \in Seq(Cookies) /\ Range(y) = {x}
    BY <1>1, Single
  <2>s. re_queue'[v] = y \o re_queue[v]
    BY <1>5
  <2> HIDE DEF y
  <2>2. Range(y \o re_queue[v]) = Range(y) \cup Range(re_queue[v])
    BY <1>4, <2>1, RangeConcat
  <2>3. Here(ReOf(v))' = Range(y) \cup Here(ReOf(v))
    BY <2>s, <2>2, HereIs, HereNext
  <2> QED BY <2>1, <2>3
<1>8. Here(HandOf(v))' = Here(HandOf(v)) \ {x} /\ x \in Here(HandOf(v))
  BY <1>1, <1>3, HereIs, HereNext DEF x
<1>9. /\ HandOf(v) \in Spots /\ ReOf(v) \in Spots /\ Hif \in Spots
      /\ ReOf(v) # HandOf(v) /\ Hif # HandOf(v) /\ ReOf(v) # Hif
  BY SpotsAre, SpotsDiffer
<1>10. \A s \in Spots : s # HandOf(v) /\ s # ReOf(v) => Here(s)' = Here(s)
  <2>1. \A s \in Spots : s # HandOf(v) /\ s # ReOf(v) => SameAt(s)
    BY <1>3, <1>5 DEF SameAt
  <2> QED BY <2>1, HereSame
<1>11. Moved({HandOf(v)}, ReOf(v), {x}, Hif, {})
  BY <1>7, <1>8, <1>9, <1>10 DEF Moved
<1>12. OneSpot'
  BY <1>11, MovedKeeps DEF PlaceInv
<1>13. QueuesDistinct'
  BY <1>5, <1>6 DEF PlaceInv, QueuesDistinct
<1>14. FreeKinds'
  BY DEF PlaceInv, FreeKinds
<1> QED BY <1>12, <1>13, <1>14 DEF PlaceInv

\* .. put last on it ..
LEMMA PlaceLast ==
  ASSUME TypeInv, PlaceInv, NEW v \in Vifs, hand[v] \in Cookies,
         hand' = [hand EXCEPT ![v] = Nobody], conn_queue' = [conn_queue EXCEPT ![v] = Append(@, hand[v])],
         UNCHANGED <<free, lost, txq, hif, batch, re_queue>>
  PROVE  PlaceInv'
<1> DEFINE x == hand[v]
<1>1. x \in Cookies /\ x # Nobody
  BY ConstFacts
<1> HIDE DEF x
<1>2. hand \in [Vifs -> Cookies \cup {Nobody}]
  BY DEF TypeInv, CtxOK
<1>3. hand'[v] = Nobody /\ \A u \in Vifs \ {v} : hand'[u] = hand[u]
  BY <1>2
<1>4. /\ conn_queue[v] \in Seq(Cookies) /\ Distinct(conn_queue[v]) /\ x \notin Range(conn_queue[v])
  BY <1>1, LocalFacts, Apart DEF PlaceInv, QueuesDistinct, x
<1>5. conn_queue'[v] = Append(conn_queue[v], x) /\ \A u \in Vifs \ {v} : conn_queue'[u] = conn_queue[u]
  BY QueuesAre DEF QueuesOK, x
<1>6. Distinct(Append(conn_queue[v], x))
  BY <1>1, <1>4, DistinctAppend
<1>7. Here(ConnOf(v))' = Here(ConnOf(v)) \cup {x}
  <2>2. Range(Append(conn_queue[v], x)) = {x} \cup Range(conn_queue[v])
    BY <1>1, <1>4, RangeAppend
  <2> QED BY <1>5, <2>2, HereIs, HereNext
<1>8. Here(HandOf(v))' = Here(HandOf(v)) \ {x} /\ x \in Here(HandOf(v))
  BY <1>1, <1>3, HereIs, HereNext DEF x
<1>9. /\ HandOf(v) \in Spots /\ ConnOf(v) \in Spots /\ Hif \in Spots
      /\ ConnOf(v) # HandOf(v) /\ Hif # HandOf(v) /\ ConnOf(v) # Hif
  BY SpotsAre, SpotsDiffer
<1>10. \A s \in Spots : s # HandOf(v) /\ s # ConnOf(v) => Here(s)' = Here(s)
  <2>1. \A s \in Spots : s # HandOf(v) /\ s # ConnOf(v) => SameAt(s)
    BY <1>3, <1>5 DEF SameAt
  <2> QED BY <2>1, HereSame
<1>11. Moved({HandOf(v)}, ConnOf(v), {x}, Hif, {})
  BY <1>7, <1>8, <1>9, <1>10 DEF Moved
<1>12. OneSpot'
  BY <1>11, MovedKeeps DEF PlaceInv
<1>13. QueuesDistinct'
  BY <1>5, <1>6 DEF PlaceInv, QueuesDistinct
<1>14. FreeKinds'
  BY DEF PlaceInv, FreeKinds
<1> QED BY <1>12, <1>13, <1>14 DEF PlaceInv

\* .. or given to HTC.
LEMMA PlaceSent ==
  ASSUME TypeInv, PlaceInv, NEW v \in Vifs, hand[v] \in Cookies,
         hand' = [hand EXCEPT ![v] = Nobody], txq' = txq \o <<hand[v]>>,
         UNCHANGED <<free, lost, hif, batch, re_queue, conn_queue>>
  PROVE  PlaceInv'
<1> DEFINE x == hand[v]
<1>1. x \in Cookies /\ x # Nobody
  BY ConstFacts
<1> HIDE DEF x
<1>2. hand \in [Vifs -> Cookies \cup {Nobody}]
  BY DEF TypeInv, CtxOK
<1>3. hand'[v] = Nobody /\ \A u \in Vifs \ {v} : hand'[u] = hand[u]
  BY <1>2
<1>4. /\ txq \in Seq(Cookies) /\ Distinct(txq) /\ x \notin Range(txq)
  BY <1>1, LocalFacts, Apart DEF PlaceInv, QueuesDistinct, x
<1>5. txq' = txq \o <<x>> /\ UNCHANGED <<free, lost, hif, batch, re_queue, conn_queue>>
  BY DEF x
<1>s. <<x>> \in Seq(Cookies) /\ Distinct(<<x>>) /\ Range(<<x>>) = {x}
  BY <1>1, Single
<1>6. Distinct(txq \o <<x>>)
  BY <1>4, <1>s, DistinctConcat
<1>7. Here(Txq)' = Here(Txq) \cup {x}
  <2>2. Range(txq \o <<x>>) = Range(txq) \cup Range(<<x>>)
    BY <1>4, <1>s, RangeConcat
  <2>3. Here(Txq)' = Here(Txq) \cup Range(<<x>>)
    BY <1>5, <2>2, HereIs, HereNext
  <2> QED BY <1>s, <2>3
<1>8. Here(HandOf(v))' = Here(HandOf(v)) \ {x} /\ x \in Here(HandOf(v))
  BY <1>1, <1>3, HereIs, HereNext DEF x
<1>9. /\ HandOf(v) \in Spots /\ Txq \in Spots /\ Hif \in Spots
      /\ Txq # HandOf(v) /\ Hif # HandOf(v) /\ Txq # Hif
  BY SpotsAre, SpotsDiffer
<1>10. \A s \in Spots : s # HandOf(v) /\ s # Txq => Here(s)' = Here(s)
  <2>1. \A s \in Spots : s # HandOf(v) /\ s # Txq => SameAt(s)
    BY <1>3, <1>5 DEF SameAt
  <2> QED BY <2>1, HereSame
<1>11. Moved({HandOf(v)}, Txq, {x}, Hif, {})
  BY <1>7, <1>8, <1>9, <1>10 DEF Moved
<1>12. OneSpot'
  BY <1>11, MovedKeeps DEF PlaceInv
<1>13. QueuesDistinct'
  BY <1>5, <1>6 DEF PlaceInv, QueuesDistinct
<1>14. FreeKinds'
  BY DEF PlaceInv, FreeKinds
<1> QED BY <1>12, <1>13, <1>14 DEF PlaceInv

\* A connection's queues go to HTC ..
LEMMA PlaceScheduled ==
  ASSUME TypeInv, PlaceInv, NEW v \in Vifs,
         re_queue' = [re_queue EXCEPT ![v] = <<>>], conn_queue' = [conn_queue EXCEPT ![v] = <<>>],
         txq' = txq \o Queued(v),
         UNCHANGED <<free, lost, hif, batch, hand>>
  PROVE  PlaceInv'
<1> DEFINE X == Range(re_queue[v]) \cup Range(conn_queue[v])
<1>1. /\ re_queue[v] \in Seq(Cookies) /\ conn_queue[v] \in Seq(Cookies)
      /\ Distinct(re_queue[v]) /\ Distinct(conn_queue[v])
      /\ Range(re_queue[v]) \cap Range(conn_queue[v]) = {}
      /\ Queued(v) \in Seq(Cookies) /\ Range(Queued(v)) = X
  BY LocalFacts, Apart DEF PlaceInv, QueuesDistinct
<1>2. Distinct(Queued(v))
  BY <1>1, DistinctConcat DEF Queued
<1>3. /\ re_queue'[v] = <<>> /\ conn_queue'[v] = <<>>
      /\ \A u \in Vifs \ {v} : re_queue'[u] = re_queue[u] /\ conn_queue'[u] = conn_queue[u]
  BY QueuesAre DEF QueuesOK
<1>4. Range(<<>>) = {} /\ Distinct(<<>>)
  BY DEF Range, Distinct
<1>5. txq \in Seq(Cookies) /\ Distinct(txq) /\ Range(txq) \cap X = {}
  BY LocalFacts, Apart DEF PlaceInv, QueuesDistinct
<1>6. Distinct(txq')
  BY <1>1, <1>2, <1>5, DistinctConcat
<1>7. Here(Txq)' = Here(Txq) \cup X
  <2>1. Range(txq \o Queued(v)) = Range(txq) \cup Range(Queued(v))
    BY <1>1, <1>5, RangeConcat
  <2> QED BY <1>1, <2>1, HereIs, HereNext
<1>8. /\ Here(ReOf(v)) = Range(re_queue[v]) /\ Here(ConnOf(v)) = Range(conn_queue[v])
      /\ Here(ReOf(v))' = {} /\ Here(ConnOf(v))' = {}
  BY <1>3, <1>4, HereIs, HereNext
<1>9. /\ ReOf(v) \in Spots /\ ConnOf(v) \in Spots /\ Txq \in Spots /\ Hif \in Spots
      /\ Txq \notin {ReOf(v), ConnOf(v), Hif} /\ Hif \notin {ReOf(v), ConnOf(v)}
  BY SpotsAre, SpotsDiffer
<1>10. \A s \in Spots : s \notin {ReOf(v), ConnOf(v), Txq} => Here(s)' = Here(s)
  <2>1. \A s \in Spots : s \notin {ReOf(v), ConnOf(v), Txq} => SameAt(s)
    BY <1>3 DEF SameAt
  <2> QED BY <2>1, HereSame
<1>11. Moved({ReOf(v), ConnOf(v)}, Txq, X, Hif, {})
  <2>1. Here(Hif)' = Here(Hif)
    BY <1>9, <1>10
  <2> QED BY <1>7, <1>8, <1>9, <1>10, <2>1 DEF Moved
<1>12. OneSpot'
  BY <1>11, MovedKeeps DEF PlaceInv
<1>13. QueuesDistinct'
  BY <1>3, <1>4, <1>6 DEF PlaceInv, QueuesDistinct
<1>14. FreeKinds'
  BY DEF PlaceInv, FreeKinds
<1> QED BY <1>12, <1>13, <1>14 DEF PlaceInv

\* .. or into the worker's container.
LEMMA PlaceCollected ==
  ASSUME TypeInv, PlaceInv, NEW v \in Vifs,
         re_queue' = [re_queue EXCEPT ![v] = <<>>], conn_queue' = [conn_queue EXCEPT ![v] = <<>>],
         batch = <<>>, batch' = Queued(v),
         UNCHANGED <<free, lost, txq, hif, hand>>
  PROVE  PlaceInv'
<1> DEFINE X == Range(re_queue[v]) \cup Range(conn_queue[v])
<1>1. /\ re_queue[v] \in Seq(Cookies) /\ conn_queue[v] \in Seq(Cookies)
      /\ Distinct(re_queue[v]) /\ Distinct(conn_queue[v])
      /\ Range(re_queue[v]) \cap Range(conn_queue[v]) = {}
      /\ Queued(v) \in Seq(Cookies) /\ Range(Queued(v)) = X
  BY LocalFacts, Apart DEF PlaceInv, QueuesDistinct
<1>2. Distinct(Queued(v))
  BY <1>1, DistinctConcat DEF Queued
<1>3. /\ re_queue'[v] = <<>> /\ conn_queue'[v] = <<>>
      /\ \A u \in Vifs \ {v} : re_queue'[u] = re_queue[u] /\ conn_queue'[u] = conn_queue[u]
  BY QueuesAre DEF QueuesOK
<1>4. Range(<<>>) = {} /\ Distinct(<<>>)
  BY DEF Range, Distinct
<1>6. Distinct(batch')
  BY <1>2
<1>7. Here(Batch)' = Here(Batch) \cup X
  BY <1>1, <1>4, HereIs, HereNext
<1>8. /\ Here(ReOf(v)) = Range(re_queue[v]) /\ Here(ConnOf(v)) = Range(conn_queue[v])
      /\ Here(ReOf(v))' = {} /\ Here(ConnOf(v))' = {}
  BY <1>3, <1>4, HereIs, HereNext
<1>9. /\ ReOf(v) \in Spots /\ ConnOf(v) \in Spots /\ Batch \in Spots /\ Hif \in Spots
      /\ Batch \notin {ReOf(v), ConnOf(v), Hif} /\ Hif \notin {ReOf(v), ConnOf(v)}
  BY SpotsAre, SpotsDiffer
<1>10. \A s \in Spots : s \notin {ReOf(v), ConnOf(v), Batch} => Here(s)' = Here(s)
  <2>1. \A s \in Spots : s \notin {ReOf(v), ConnOf(v), Batch} => SameAt(s)
    BY <1>3 DEF SameAt
  <2> QED BY <2>1, HereSame
<1>11. Moved({ReOf(v), ConnOf(v)}, Batch, X, Hif, {})
  <2>1. Here(Hif)' = Here(Hif)
    BY <1>9, <1>10
  <2> QED BY <1>7, <1>8, <1>9, <1>10, <2>1 DEF Moved
<1>12. OneSpot'
  BY <1>11, MovedKeeps DEF PlaceInv
<1>13. QueuesDistinct'
  BY <1>3, <1>4, <1>6 DEF PlaceInv, QueuesDistinct
<1>14. FreeKinds'
  BY DEF PlaceInv, FreeKinds
<1> QED BY <1>12, <1>13, <1>14 DEF PlaceInv

\* HTC's queue is parted: some packets stay, some go to the container, some
\* back to the queue of connection v.
LEMMA PlaceParted ==
  ASSUME TypeInv, PlaceInv, NEW v \in Vifs,
         NEW I \in SUBSET DOMAIN txq, NEW J \in SUBSET DOMAIN txq, NEW K \in SUBSET DOMAIN txq,
         I \cap J = {}, I \cap K = {}, J \cap K = {}, I \cup J \cup K = DOMAIN txq,
         txq' = Keep(txq, I), batch' = batch \o Keep(txq, J),
         re_queue' = [re_queue EXCEPT ![v] = re_queue[v] \o Keep(txq, K)],
         UNCHANGED <<free, lost, hif, conn_queue, hand>>
  PROVE  PlaceInv'
<1> DEFINE X == {txq[i] : i \in K}
           Y == {txq[i] : i \in J}
<1>1. /\ txq \in Seq(Cookies) /\ batch \in Seq(Cookies) /\ re_queue[v] \in Seq(Cookies)
      /\ Distinct(txq) /\ Distinct(batch) /\ Distinct(re_queue[v])
      /\ Range(txq) \cap Range(batch) = {} /\ Range(txq) \cap Range(re_queue[v]) = {}
  BY LocalFacts, Apart DEF PlaceInv, QueuesDistinct
<1>2. /\ Keep(txq, I) \in Seq(Cookies) /\ Distinct(Keep(txq, I)) /\ Range(Keep(txq, I)) = {txq[i] : i \in I}
      /\ Keep(txq, J) \in Seq(Cookies) /\ Distinct(Keep(txq, J)) /\ Range(Keep(txq, J)) = Y
      /\ Keep(txq, K) \in Seq(Cookies) /\ Distinct(Keep(txq, K)) /\ Range(Keep(txq, K)) = X
  BY <1>1, KeepSplit
<1>3. /\ Range(txq) = {txq[i] : i \in DOMAIN txq}
      /\ \A i, j \in DOMAIN txq : txq[i] = txq[j] => i = j
  BY <1>1 DEF Range, Distinct
<1>4. /\ {txq[i] : i \in I} = Range(txq) \ (X \cup Y) /\ X \cap Y = {}
      /\ X \subseteq Range(txq) /\ Y \subseteq Range(txq)
  BY <1>3
<1> HIDE DEF X, Y
<1>5. /\ re_queue'[v] = re_queue[v] \o Keep(txq, K)
      /\ \A u \in Vifs \ {v} : re_queue'[u] = re_queue[u]
  BY QueuesAre DEF QueuesOK
<1>6. /\ Range(re_queue'[v]) = Range(re_queue[v]) \cup X /\ Distinct(re_queue'[v])
      /\ Range(batch') = Range(batch) \cup Y /\ Distinct(batch')
  <2>1. /\ Range(re_queue[v] \o Keep(txq, K)) = Range(re_queue[v]) \cup X
        /\ Distinct(re_queue[v] \o Keep(txq, K))
    BY <1>1, <1>2, <1>4, RangeConcat, DistinctConcat
  <2>2. /\ Range(batch \o Keep(txq, J)) = Range(batch) \cup Y
        /\ Distinct(batch \o Keep(txq, J))
    BY <1>1, <1>2, <1>4, RangeConcat, DistinctConcat
  <2> QED BY <1>5, <2>1, <2>2
<1>7. /\ Here(Txq)' = Here(Txq) \ (X \cup Y) /\ Here(Txq) = Range(txq)
      /\ Here(ReOf(v))' = Here(ReOf(v)) \cup X /\ Here(Batch)' = Here(Batch) \cup Y
  BY <1>2, <1>4, <1>6, HereIs, HereNext
<1>8. /\ Txq \in Spots /\ ReOf(v) \in Spots /\ Batch \in Spots
      /\ Txq # Batch /\ Txq # ReOf(v) /\ Batch # ReOf(v)
  BY SpotsAre, SpotsDiffer
<1>9. \A s \in Spots : s \notin {Txq, ReOf(v), Batch} => Here(s)' = Here(s)
  <2>1. \A s \in Spots : s \notin {Txq, ReOf(v), Batch} => SameAt(s)
    BY <1>5 DEF SameAt
  <2> QED BY <2>1, HereSame
<1>10. Moved({Txq}, ReOf(v), X, Batch, Y)
  BY <1>4, <1>7, <1>8, <1>9 DEF Moved
<1>11. OneSpot'
  BY <1>10, MovedKeeps DEF PlaceInv
<1>12. QueuesDistinct'
  BY <1>2, <1>5, <1>6 DEF PlaceInv, QueuesDistinct
<1>13. FreeKinds'
  BY DEF PlaceInv, FreeKinds
<1> QED BY <1>11, <1>12, <1>13 DEF PlaceInv

\* HTC gives its first packet to the HIF.
LEMMA PlaceDrained ==
  ASSUME TypeInv, PlaceInv, txq # <<>>, txq' = Tail(txq), hif' = hif \cup {Head(txq)},
         UNCHANGED <<free, lost, batch, re_queue, conn_queue, hand>>
  PROVE  PlaceInv'
<1> DEFINE x == Head(txq)
<1>1. txq \in Seq(Cookies) /\ Distinct(txq)
  BY LocalFacts DEF PlaceInv, QueuesDistinct
<1>2. x \in Range(txq) /\ Distinct(Tail(txq)) /\ Range(Tail(txq)) = Range(txq) \ {x}
  BY <1>1, DistinctTail
<1>3. /\ Here(Txq)' = Here(Txq) \ {x} /\ x \in Here(Txq) /\ Here(Hif)' = Here(Hif) \cup {x}
  BY <1>2, HereIs, HereNext
<1>4. /\ Txq \in Spots /\ Hif \in Spots /\ Lost \in Spots /\ Txq # Hif /\ Txq # Lost /\ Hif # Lost
  BY SpotsAre, SpotsDiffer
<1>5. \A s \in Spots : s \notin {Txq, Hif} => Here(s)' = Here(s)
  <2>1. \A s \in Spots : s \notin {Txq, Hif} => SameAt(s)
    BY DEF SameAt
  <2> QED BY <2>1, HereSame
<1> HIDE DEF x
<1>6. Moved({Txq}, Hif, {x}, Lost, {})
  BY <1>3, <1>4, <1>5 DEF Moved
<1>7. OneSpot'
  BY <1>6, MovedKeeps DEF PlaceInv
<1>8. QueuesDistinct'
  BY <1>2 DEF PlaceInv, QueuesDistinct
<1>9. FreeKinds'
  BY DEF PlaceInv, FreeKinds
<1> QED BY <1>7, <1>8, <1>9 DEF PlaceInv

\* The completed packets' cookies go from the HIF or from the container to the
\* lists of their kinds.
LEMMA PlaceFreed ==
  ASSUME TypeInv, PlaceInv, NEW o \in {Hif, Batch}, NEW cs \in Seq(Cookies), Distinct(cs),
         Range(cs) \subseteq Here(o), Here(o)' = Here(o) \ Range(cs),
         free' = [k \in Kinds |-> FreedOf(cs, k) \o free[k]],
         o = Hif => UNCHANGED batch, o = Batch => UNCHANGED hif, Distinct(batch'),
         UNCHANGED <<lost, txq, re_queue, conn_queue, hand>>
  PROVE  PlaceInv'
<1> DEFINE X == Range(cs) \cap DataCookies
           Y == Range(cs) \cap CtrlCookies
<1>1. X \cap Y = {} /\ X \cup Y = Range(cs)
  BY RangeType, ConstFacts
<1>2. CookiesOf("data") = DataCookies /\ CookiesOf("ctrl") = CtrlCookies /\ Kinds = {"data", "ctrl"}
  BY ConstFacts DEF Kinds
<1>3. ASSUME NEW k \in Kinds
      PROVE  /\ Range(free'[k]) = Range(free[k]) \cup (Range(cs) \cap CookiesOf(k))
             /\ Distinct(free'[k])
  <2>1. /\ FreedOf(cs, k) \in Seq(Cookies) /\ Range(FreedOf(cs, k)) = Range(cs) \cap CookiesOf(k)
        /\ Distinct(FreedOf(cs, k))
    BY FreedIs
  <2>2. free[k] \in Seq(Cookies) /\ Distinct(free[k])
    BY LocalFacts DEF PlaceInv, QueuesDistinct
  <2>3. Range(FreedOf(cs, k)) \cap Range(free[k]) = {}
    <3>1. Range(free[k]) \cap Here(o) = {}
      BY Apart, HereIs DEF PlaceInv
    <3> QED BY <2>1, <3>1
  <2>4. free'[k] = FreedOf(cs, k) \o free[k]
    OBVIOUS
  <2>5. /\ Range(FreedOf(cs, k) \o free[k]) = Range(FreedOf(cs, k)) \cup Range(free[k])
        /\ Distinct(FreedOf(cs, k) \o free[k])
    BY <2>1, <2>2, <2>3, RangeConcat, DistinctConcat
  <2> QED BY <2>1, <2>4, <2>5
<1>4. /\ Here(FreeOf("data"))' = Here(FreeOf("data")) \cup X
      /\ Here(FreeOf("ctrl"))' = Here(FreeOf("ctrl")) \cup Y
  BY <1>2, <1>3, HereIs, HereNext
<1>5. /\ o \in Spots /\ FreeOf("data") \in Spots /\ FreeOf("ctrl") \in Spots
      /\ o # FreeOf("data") /\ o # FreeOf("ctrl") /\ FreeOf("data") # FreeOf("ctrl")
  BY <1>2, SpotsAre, SpotsDiffer
<1>6. \A s \in Spots : s \notin {o, FreeOf("data"), FreeOf("ctrl")} => Here(s)' = Here(s)
  <2>1. \A s \in Spots : s \notin {o, FreeOf("data"), FreeOf("ctrl")} => SameAt(s)
    BY <1>2 DEF SameAt
  <2> QED BY <2>1, HereSame
<1> HIDE DEF X, Y
<1>7. Moved({o}, FreeOf("data"), X, FreeOf("ctrl"), Y)
  BY <1>1, <1>4, <1>5, <1>6 DEF Moved
<1>8. OneSpot'
  BY <1>7, MovedKeeps DEF PlaceInv
<1>9. QueuesDistinct'
  BY <1>3 DEF PlaceInv, QueuesDistinct
<1>10. FreeKinds'
  BY <1>3 DEF PlaceInv, FreeKinds
<1> QED BY <1>8, <1>9, <1>10 DEF PlaceInv

LEMMA InitPlaceInv == Init => PlaceInv
<1> SUFFICES ASSUME Init PROVE PlaceInv
  OBVIOUS
<1>1. \A k \in Kinds : Range(free[k]) = CookiesOf(k) /\ Distinct(free[k])
  <2>1. \A k \in Kinds : IsFiniteSet(CookiesOf(k))
    BY ConstFacts DEF Kinds
  <2>2. \A k \in Kinds : Range(Listed(CookiesOf(k))) = CookiesOf(k) /\ Distinct(Listed(CookiesOf(k)))
    BY <2>1, ListedIs
  <2> QED BY <2>2 DEF Init
<1>2. Range(<<>>) = {} /\ Distinct(<<>>)
  BY DEF Range, Distinct
<1>3. /\ \A k \in Kinds : Here(FreeOf(k)) = CookiesOf(k)
      /\ Here(Txq) = {} /\ Here(Batch) = {} /\ Here(Hif) = {} /\ Here(Lost) = {}
      /\ \A v \in Vifs : Here(ReOf(v)) = {} /\ Here(ConnOf(v)) = {} /\ Here(HandOf(v)) = {}
  BY <1>1, <1>2, HereIs DEF Init
<1>4. CookiesOf("data") \cap CookiesOf("ctrl") = {} /\ Kinds = {"data", "ctrl"}
      /\ Cookies = CookiesOf("data") \cup CookiesOf("ctrl")
  BY ConstFacts DEF Kinds
<1>5. ASSUME NEW r \in Spots, NEW s \in Spots, r # s PROVE Here(r) \cap Here(s) = {}
  <2>1. CASE \E j, k \in Kinds : r = FreeOf(j) /\ s = FreeOf(k)
    BY <1>3, <1>4, <1>5, <2>1
  <2>2. CASE ~\E k \in Kinds : r = FreeOf(k)
    <3>1. Here(r) = {}
      BY <1>3, <2>2, SpotsAre
    <3> QED BY <3>1
  <2>3. CASE ~\E k \in Kinds : s = FreeOf(k)
    <3>1. Here(s) = {}
      BY <1>3, <2>3, SpotsAre
    <3> QED BY <3>1
  <2> QED BY <2>1, <2>2, <2>3
<1>6. \A c \in Cookies : \E s \in Spots : c \in Here(s)
  BY <1>3, <1>4, SpotsAre
<1>7. OneSpot
  BY <1>5, <1>6 DEF OneSpot
<1>8. QueuesDistinct
  BY <1>1, <1>2 DEF QueuesDistinct, Init
<1>9. FreeKinds
  BY <1>1 DEF FreeKinds
<1> QED BY <1>7, <1>8, <1>9 DEF PlaceInv

LEMMA PlaceStep ==
  ASSUME TypeInv, PlaceInv, NEW v \in Vifs, NEW c \in Vifs \cup {"rx"},
         NEW tag \in {"data", "pri"}, Step(v, c, tag)
  PROVE  PlaceInv'
<1> USE DEF arVars, vifVars, flowVars, htcVars, locVars, histVars
<1>1. CASE DataTx(v, tag)
  <2>1. /\ free' = [free EXCEPT ![KindOf(tag)] = Tail(free[KindOf(tag)])] /\ pc[v] = "idle"
        /\ hand' = [hand EXCEPT ![v] = Head(free[KindOf(tag)])]
        /\ free[KindOf(tag)] # <<>> /\ KindOf(tag) \in Kinds
        /\ UNCHANGED <<lost, txq, hif, batch, re_queue, conn_queue>>
    BY <1>1, FreeHead, QueuesAre DEF DataTx, MayAlloc
  <2>2. hand[v] = Nobody
    BY <2>1, LocalFacts DEF Holding
  <2> QED BY <2>1, <2>2, PlaceAlloc
<1>2. CASE CopyFail(v)
  <2>1. hand[v] \in Cookies
    BY <1>2, LocalFacts DEF CopyFail, Holding
  <2> QED BY <1>2, <2>1, PlaceLost DEF CopyFail
<1>3. CASE SchedulePkt(v)
  <2>1. hand[v] \in Cookies
    BY <1>3, LocalFacts DEF SchedulePkt, Holding
  <2>2. UNCHANGED <<free, lost, txq, hif, batch>>
    BY <1>3 DEF SchedulePkt
  <2>3. \/ UNCHANGED <<re_queue, conn_queue, hand>>
        \/ /\ hand' = [hand EXCEPT ![v] = Nobody]
           /\ \/ re_queue' = [re_queue EXCEPT ![v] = <<hand[v]>> \o @] /\ UNCHANGED conn_queue
              \/ conn_queue' = [conn_queue EXCEPT ![v] = Append(@, hand[v])] /\ UNCHANGED re_queue
    BY <1>3 DEF SchedulePkt, Enqueue
  <2> QED BY <2>1, <2>2, <2>3, PlaceSame, PlaceFirst, PlaceLast
<1>4. CASE SendPkt(v)
  <2>1. hand[v] \in Cookies
    BY <1>4, LocalFacts DEF SendPkt, Holding
  <2>2. /\ txq' = txq \o <<hand[v]>> /\ hand' = [hand EXCEPT ![v] = Nobody]
        /\ UNCHANGED <<free, lost, hif, batch, re_queue, conn_queue>>
    BY <1>4 DEF SendPkt, HtcSend
  <2> QED BY <2>1, <2>2, PlaceSent
<1>5. CASE TxSchedule(c, v)
  <2>1. UNCHANGED <<free, lost, hif, batch, hand>>
    BY <1>5 DEF TxSchedule
  <2>2. \/ UNCHANGED <<txq, re_queue, conn_queue>>
        \/ /\ txq' = txq \o Queued(v) /\ re_queue' = [re_queue EXCEPT ![v] = <<>>]
           /\ conn_queue' = [conn_queue EXCEPT ![v] = <<>>]
    BY <1>5 DEF TxSchedule, HtcSend
  <2> QED BY <2>1, <2>2, PlaceSame, PlaceScheduled
<1>6. CASE ConnectEvent(v)
  <2>1. UNCHANGED <<free, lost, txq, hif, hand>> /\ batch = <<>>
    BY <1>6, LocalFacts DEF ConnectEvent
  <2>2. \/ UNCHANGED <<batch, re_queue, conn_queue>>
        \/ /\ batch' = Queued(v) /\ re_queue' = [re_queue EXCEPT ![v] = <<>>]
           /\ conn_queue' = [conn_queue EXCEPT ![v] = <<>>]
    BY <1>6 DEF ConnectEvent, Complete
  <2> QED BY <2>1, <2>2, PlaceSame, PlaceCollected
<1>7. CASE DisconnectEvent(v)
  BY <1>7, PlaceSame DEF DisconnectEvent
<1>8. CASE FlowctrlEvent
  BY <1>8, PlaceSame DEF FlowctrlEvent
<1>9. CASE RxComplete
  <2>1. /\ Reap(batch) /\ batch' = <<>> /\ batch \in Seq(Cookies)
        /\ UNCHANGED <<lost, txq, hif, re_queue, conn_queue, hand>>
    BY <1>9, LocalFacts DEF RxComplete
  <2>2. free' = [k \in Kinds |-> FreedOf(batch, k) \o free[k]] /\ Distinct(batch)
    BY <2>1, ReapIs DEF PlaceInv, QueuesDistinct
  <2>3. Here(Batch) = Range(batch) /\ Here(Batch)' = {} /\ Distinct(<<>>) /\ Batch # Hif
    <3>1. Range(<<>>) = {} /\ Distinct(<<>>)
      BY DEF Range, Distinct
    <3> QED BY <2>1, <3>1, HereIs, HereNext, SpotsDiffer
  <2>4. Here(Batch)' = Here(Batch) \ Range(batch) /\ Range(batch) \subseteq Here(Batch) /\ Distinct(batch')
    BY <2>1, <2>3
  <2> QED BY <2>1, <2>2, <2>3, <2>4, PlaceFreed
<1>10. CASE StateChange(v)
  <2>1. UNCHANGED <<free, lost, hif, conn_queue, hand>>
    BY <1>10, StateChangeIs
  <2>2. CASE UNCHANGED <<txq, batch, re_queue>>
    BY <2>1, <2>2, PlaceSame
  <2>3. CASE TakeBack(v)
    <3> DEFINE I == DOMAIN txq \ MineAt(v)
               J == AgedAt(v)
               K == MineAt(v) \ AgedAt(v)
    <3>1. /\ I \in SUBSET DOMAIN txq /\ J \in SUBSET DOMAIN txq /\ K \in SUBSET DOMAIN txq
          /\ I \cap J = {} /\ I \cap K = {} /\ J \cap K = {} /\ I \cup J \cup K = DOMAIN txq
      BY DEF MineAt, AgedAt
    <3>2. /\ txq' = Keep(txq, I) /\ batch' = batch \o Keep(txq, J)
          /\ re_queue' = [re_queue EXCEPT ![v] = re_queue[v] \o Keep(txq, K)]
      BY <2>3 DEF TakeBack, BackOf, DropOf
    <3> HIDE DEF I, J, K
    <3> QED BY <2>1, <3>1, <3>2, PlaceParted
  <2> QED BY <1>10, <2>2, <2>3, StateChangeIs
<1>11. CASE StateChanged
  BY <1>11, PlaceSame DEF StateChanged, Complete
<1>12. CASE SetConnId
  BY <1>12, PlaceSame DEF SetConnId
<1>13. CASE ConnectWake
  BY <1>13, PlaceSame DEF ConnectWake
<1>14. CASE Connect
  BY <1>14, PlaceSame DEF Connect
<1>15. CASE Switch
  BY <1>15, PlaceSame DEF Switch
<1>16. CASE FlushEp
  <2> DEFINE J == {i \in DOMAIN txq : pvif[txq[i]] = target}
             I == DOMAIN txq \ J
  <2>1. /\ UNCHANGED <<free, lost, hif, conn_queue, hand, re_queue>> /\ batch = <<>> /\ target \in Vifs
        /\ txq' = Keep(txq, I) /\ batch' = Keep(txq, J)
    BY <1>16, LocalFacts DEF FlushEp, Complete
  <2>2. I \in SUBSET DOMAIN txq /\ J \in SUBSET DOMAIN txq /\ I \cap J = {} /\ I \cup J = DOMAIN txq
    OBVIOUS
  <2> HIDE DEF I, J
  <2>3. /\ txq \in Seq(Cookies) /\ re_queue \in [Vifs -> Seq(Cookies)]
    BY QueuesAre DEF QueuesOK
  <2>4. {} \in SUBSET DOMAIN txq /\ Keep(txq, {}) = <<>> /\ Keep(txq, J) \in Seq(Cookies)
    BY <2>2, <2>3, KeepElements
  <2>5. batch' = batch \o Keep(txq, J)
    BY <2>1, <2>4
  <2>6. re_queue' = [re_queue EXCEPT ![target] = re_queue[target] \o Keep(txq, {})]
    <3>1. re_queue[target] \in Seq(Cookies)
      BY <2>1, <2>3
    <3>2. re_queue[target] \o <<>> = re_queue[target]
      BY <3>1
    <3> QED BY <2>1, <2>3, <2>4, <3>2
  <2> DEFINE K == {}
  <2>7. /\ K \in SUBSET DOMAIN txq /\ I \cap K = {} /\ J \cap K = {} /\ I \cup J \cup K = DOMAIN txq
        /\ re_queue' = [re_queue EXCEPT ![target] = re_queue[target] \o Keep(txq, K)]
    BY <2>2, <2>6
  <2> HIDE DEF K
  <2> QED BY <2>1, <2>2, <2>5, <2>7, PlaceParted
<1>17. CASE CleanupByIf
  <2>1. /\ UNCHANGED <<free, lost, txq, hif, hand>> /\ batch = <<>> /\ target \in Vifs
        /\ batch' = Queued(target) /\ re_queue' = [re_queue EXCEPT ![target] = <<>>]
        /\ conn_queue' = [conn_queue EXCEPT ![target] = <<>>]
    BY <1>17, LocalFacts DEF CleanupByIf, Complete
  <2> QED BY <2>1, PlaceCollected
<1>18. CASE HifDone
  <2>1. PICK x \in hif : hif' = hif \ {x} /\ Reap(<<x>>)
    BY <1>18 DEF HifDone
  <2> DEFINE y == <<x>>
  <2>2. y \in Seq(Cookies) /\ Distinct(y) /\ Range(y) = {x}
    BY <2>1, QueuesAre, Single DEF QueuesOK
  <2>3. Reap(y)
    BY <2>1
  <2> HIDE DEF y
  <2>4. free' = [k \in Kinds |-> FreedOf(y, k) \o free[k]] /\ Distinct(batch)
    BY <2>2, <2>3, ReapIs DEF PlaceInv, QueuesDistinct
  <2>5. UNCHANGED <<lost, txq, batch, re_queue, conn_queue, hand>>
    BY <1>18 DEF HifDone
  <2>6. Here(Hif)' = Here(Hif) \ Range(y) /\ Range(y) \subseteq Here(Hif) /\ Hif # Batch
    BY <2>1, <2>2, HereIs, HereNext, SpotsDiffer
  <2>7. Distinct(batch')
    BY <2>4, <2>5
  <2> QED BY <2>2, <2>4, <2>5, <2>6, <2>7, PlaceFreed
<1>19. CASE HifDoneWake
  BY <1>19, PlaceSame DEF HifDoneWake
<1>20. CASE CmdDone
  BY <1>20, PlaceSame DEF CmdDone
<1>21. CASE HtcDrain
  BY <1>21, PlaceDrained DEF HtcDrain
<1>22. CASE AssocFailed(v)
  BY <1>22, PlaceSame DEF AssocFailed
<1>23. CASE RoamSwitch
  BY <1>23, PlaceSame DEF RoamSwitch
<1> QED
  BY <1>1, <1>2, <1>3, <1>4, <1>5, <1>6, <1>7, <1>8, <1>9, <1>10, <1>11, <1>12, <1>13, <1>14,
     <1>15, <1>16, <1>17, <1>18, <1>19, <1>20, <1>21, <1>22, <1>23 DEF Step

LEMMA PlaceInvStep == TypeInv /\ PlaceInv /\ [Next]_vars => PlaceInv'
<1>1. ASSUME TypeInv, PlaceInv, Next PROVE PlaceInv'
  <2>1. PICK v \in Vifs, c \in Vifs \cup {"rx"}, tag \in {"data", "pri"} : Step(v, c, tag)
    BY <1>1, NextStep
  <2> QED BY <1>1, <2>1, PlaceStep
<1>2. ASSUME PlaceInv, UNCHANGED vars PROVE PlaceInv'
  BY <1>2, PlaceSame DEF vars, arVars, flowVars, htcVars, locVars, histVars
<1> QED BY <1>1, <1>2

LEMMA PlaceInvAlways == Spec => []PlaceInv
BY InitPlaceInv, PlaceInvStep, TypeInvAlways, PTL DEF Spec

\* The position of a cookie in the list it is on, and on its spot.
Pos(q, c) == CHOOSE i \in DOMAIN q : q[i] = c

Index(s, c) ==
  CASE s[1] = "txq"   -> Pos(txq, c)
    [] s[1] = "batch" -> Pos(batch, c)
    [] s[1] = "free"  -> Pos(free[s[2]], c)
    [] s[1] = "re"    -> Pos(re_queue[s[2]], c)
    [] s[1] = "conn"  -> Pos(conn_queue[s[2]], c)
    [] OTHER          -> 0

LEMMA IndexIs ==
  ASSUME NEW c
  PROVE  /\ Index(Txq, c) = Pos(txq, c) /\ Index(Batch, c) = Pos(batch, c)
         /\ Index(Hif, c) = 0 /\ Index(Lost, c) = 0
         /\ \A k : Index(FreeOf(k), c) = Pos(free[k], c)
         /\ \A v : /\ Index(ReOf(v), c) = Pos(re_queue[v], c)
                   /\ Index(ConnOf(v), c) = Pos(conn_queue[v], c) /\ Index(HandOf(v), c) = 0
BY DEF Index, Txq, Batch, Hif, Lost, FreeOf, ReOf, ConnOf, HandOf

LEMMA AtIs ==
  ASSUME NEW q, Distinct(q), NEW n, NEW c
  PROVE  /\ c \in Range(q) => At(n, q, c) = {<<n, Pos(q, c)>>}
         /\ c \notin Range(q) => At(n, q, c) = {}
<1>1. ASSUME c \in Range(q) PROVE At(n, q, c) = {<<n, Pos(q, c)>>}
  <2>1. PICK i \in DOMAIN q : q[i] = c
    BY <1>1 DEF Range
  <2>2. \A j \in DOMAIN q : q[j] = c => j = i
    BY <2>1 DEF Distinct
  <2>3. Pos(q, c) = i
    BY <2>1, <2>2 DEF Pos
  <2>4. {j \in DOMAIN q : q[j] = c} = {i}
    BY <2>1, <2>2
  <2> QED BY <2>3, <2>4 DEF At
<1>2. ASSUME c \notin Range(q) PROVE At(n, q, c) = {}
  BY <1>2 DEF At, Range
<1> QED BY <1>1, <1>2

LEMMA PlacesAre ==
  ASSUME PlaceInv, NEW c \in Cookies, c # Nobody
  PROVE  PlacesOf(c) = {<<s, Index(s, c)>> : s \in {r \in Spots : c \in Here(r)}}
<1> DEFINE P == {<<s, Index(s, c)>> : s \in {r \in Spots : c \in Here(r)}}
           PF(k) == At(FreeOf(k), free[k], c)
           PR(v) == At(ReOf(v), re_queue[v], c)
           PC(v) == At(ConnOf(v), conn_queue[v], c)
           PT == At(Txq, txq, c)
           PB == At(Batch, batch, c)
           PH == {<<HandOf(v), 0>> : v \in {u \in Vifs : hand[u] = c}}
           PI == {<<Hif, 0>> : x \in hif \cap {c}}
           PL == {<<Lost, 0>> : x \in lost \cap {c}}
           A == {PF(k) : k \in Kinds}
           B == {PR(v) : v \in Vifs}
           C == {PC(v) : v \in Vifs}
           D == {PT, PB}
           U == UNION (A \cup B \cup C \cup D)
<1>1. PlacesOf(c) = U \cup PH \cup PI \cup PL
  BY DEF PlacesOf, FreeOf, ReOf, ConnOf, Txq, Batch, HandOf, Hif, Lost
<1>2. /\ \A k \in Kinds : Distinct(free[k])
      /\ \A v \in Vifs : Distinct(re_queue[v]) /\ Distinct(conn_queue[v])
      /\ Distinct(txq) /\ Distinct(batch)
  BY DEF PlaceInv, QueuesDistinct
<1> DEFINE On(s) == {<<s, Index(s, c)>> : x \in Here(s) \cap {c}}
<1>3. \A k \in Kinds : PF(k) = On(FreeOf(k))
  <2>1. ASSUME NEW k \in Kinds PROVE PF(k) = On(FreeOf(k))
    <3>1. /\ c \in Range(free[k]) => PF(k) = {<<FreeOf(k), Pos(free[k], c)>>}
          /\ c \notin Range(free[k]) => PF(k) = {}
      BY <1>2, AtIs
    <3>2. Here(FreeOf(k)) = Range(free[k]) /\ Index(FreeOf(k), c) = Pos(free[k], c)
      BY HereIs, IndexIs
    <3> QED BY <3>1, <3>2
  <2> QED BY <2>1
<1>4. \A v \in Vifs : PR(v) = On(ReOf(v))
  <2>1. ASSUME NEW v \in Vifs PROVE PR(v) = On(ReOf(v))
    <3>1. /\ c \in Range(re_queue[v]) => PR(v) = {<<ReOf(v), Pos(re_queue[v], c)>>}
          /\ c \notin Range(re_queue[v]) => PR(v) = {}
      BY <1>2, AtIs
    <3>2. Here(ReOf(v)) = Range(re_queue[v]) /\ Index(ReOf(v), c) = Pos(re_queue[v], c)
      BY HereIs, IndexIs
    <3> QED BY <3>1, <3>2
  <2> QED BY <2>1
<1>5. \A v \in Vifs : PC(v) = On(ConnOf(v))
  <2>1. ASSUME NEW v \in Vifs PROVE PC(v) = On(ConnOf(v))
    <3>1. /\ c \in Range(conn_queue[v]) => PC(v) = {<<ConnOf(v), Pos(conn_queue[v], c)>>}
          /\ c \notin Range(conn_queue[v]) => PC(v) = {}
      BY <1>2, AtIs
    <3>2. Here(ConnOf(v)) = Range(conn_queue[v]) /\ Index(ConnOf(v), c) = Pos(conn_queue[v], c)
      BY HereIs, IndexIs
    <3> QED BY <3>1, <3>2
  <2> QED BY <2>1
<1>6. PT = On(Txq) /\ PB = On(Batch)
  <2>2. /\ c \in Range(txq) => PT = {<<Txq, Pos(txq, c)>>}
        /\ c \notin Range(txq) => PT = {}
    BY <1>2, AtIs
  <2>3. /\ c \in Range(batch) => PB = {<<Batch, Pos(batch, c)>>}
        /\ c \notin Range(batch) => PB = {}
    BY <1>2, AtIs
  <2>4. /\ Here(Txq) = Range(txq) /\ Index(Txq, c) = Pos(txq, c)
        /\ Here(Batch) = Range(batch) /\ Index(Batch, c) = Pos(batch, c)
    BY HereIs, IndexIs
  <2> QED BY <2>2, <2>3, <2>4
<1>7. PI = On(Hif) /\ PL = On(Lost)
  BY HereIs, IndexIs
<1>8. \A v \in Vifs : Here(HandOf(v)) = {hand[v]} \ {Nobody} /\ Index(HandOf(v), c) = 0
  BY HereIs, IndexIs
<1>9. PH = UNION {On(HandOf(v)) : v \in Vifs}
  <2>1. \A v \in Vifs : On(HandOf(v)) = IF hand[v] = c THEN {<<HandOf(v), 0>>} ELSE {}
    BY <1>8
  <2> HIDE DEF On
  <2> QED BY <2>1
<1>10. P = UNION {On(s) : s \in Spots}
  OBVIOUS
<1> HIDE DEF On, P, U, A, B, C, D, PF, PR, PC, PT, PB, PH, PI, PL
<1>11. ASSUME NEW x
       PROVE  x \in PlacesOf(c) <=> \/ \E k \in Kinds : x \in On(FreeOf(k))
                                    \/ \E v \in Vifs : x \in On(ReOf(v))
                                    \/ \E v \in Vifs : x \in On(ConnOf(v))
                                    \/ \E v \in Vifs : x \in On(HandOf(v))
                                    \/ x \in On(Txq) \/ x \in On(Batch) \/ x \in On(Hif) \/ x \in On(Lost)
  <2>1. x \in PlacesOf(c) <=> \/ \E k \in Kinds : x \in PF(k)
                              \/ \E v \in Vifs : x \in PR(v)
                              \/ \E v \in Vifs : x \in PC(v)
                              \/ x \in PH \/ x \in PT \/ x \in PB \/ x \in PI \/ x \in PL
    <3>1. x \in PlacesOf(c) <=> x \in U \/ x \in PH \/ x \in PI \/ x \in PL
      BY <1>1
    <3>2. /\ (\E S \in A : x \in S) <=> \E k \in Kinds : x \in PF(k)
          /\ (\E S \in B : x \in S) <=> \E v \in Vifs : x \in PR(v)
          /\ (\E S \in C : x \in S) <=> \E v \in Vifs : x \in PC(v)
          /\ (\E S \in D : x \in S) <=> x \in PT \/ x \in PB
      BY DEF A, B, C, D
    <3>3. x \in U
            <=> \/ \E S \in A : x \in S
                \/ \E S \in B : x \in S
                \/ \E S \in C : x \in S
                \/ \E S \in D : x \in S
      BY DEF U
    <3> QED BY <3>1, <3>2, <3>3
  <2>2. x \in PH <=> \E v \in Vifs : x \in On(HandOf(v))
    BY <1>9
  <2>3. /\ (\E k \in Kinds : x \in PF(k)) <=> \E k \in Kinds : x \in On(FreeOf(k))
        /\ (\E v \in Vifs : x \in PR(v)) <=> \E v \in Vifs : x \in On(ReOf(v))
        /\ (\E v \in Vifs : x \in PC(v)) <=> \E v \in Vifs : x \in On(ConnOf(v))
    BY <1>3, <1>4, <1>5
  <2> QED BY <1>6, <1>7, <2>1, <2>2, <2>3
<1>12. ASSUME NEW s \in Spots, NEW x \in On(s) PROVE x \in PlacesOf(c)
  <2>1. CASE s = Txq \/ s = Batch \/ s = Hif \/ s = Lost
    BY <1>11, <1>12, <2>1
  <2>2. CASE \E k \in Kinds : s = FreeOf(k)
    BY <1>11, <1>12, <2>2
  <2>3. ASSUME NEW v \in Vifs, s = ReOf(v) \/ s = ConnOf(v) \/ s = HandOf(v) PROVE x \in PlacesOf(c)
    BY <1>11, <1>12, <2>3
  <2> QED BY <2>1, <2>2, <2>3, SpotsAre
<1>13. ASSUME NEW x \in PlacesOf(c) PROVE \E s \in Spots : x \in On(s)
  <2>1. /\ Txq \in Spots /\ Batch \in Spots /\ Hif \in Spots /\ Lost \in Spots
        /\ \A k \in Kinds : FreeOf(k) \in Spots
        /\ \A v \in Vifs : ReOf(v) \in Spots /\ ConnOf(v) \in Spots /\ HandOf(v) \in Spots
    BY SpotsAre
  <2> QED BY <1>11, <2>1
<1>14. PlacesOf(c) = P
  BY <1>10, <1>12, <1>13
<1> QED BY <1>14 DEF P

\* A cookie is in one place.
LEMMA OnePlace ==
  ASSUME PlaceInv, NEW c \in Cookies
  PROVE  Cardinality(PlacesOf(c)) = 1
<1>1. c # Nobody
  BY ConstFacts
<1>2. PICK s \in Spots : c \in Here(s)
  BY DEF PlaceInv, OneSpot
<1>3. \A r \in Spots : c \in Here(r) => r = s
  BY <1>2 DEF PlaceInv, OneSpot
<1>4. {r \in Spots : c \in Here(r)} = {s}
  BY <1>2, <1>3
<1>5. PlacesOf(c) = {<<s, Index(s, c)>>}
  BY <1>1, <1>4, PlacesAre
<1> QED BY <1>5, FS_Singleton

-----------------------------------------------------------------------------
(* What is known of a packet that is out, and the counters. *)

PktOut(c) ==
  /\ pkt[c].vif \in Vifs /\ pkt[c].num <= born[pkt[c].vif]
  /\ pkt[c].tag = "data" <=> c \in DataCookies

PktInv ==
  /\ \A c \in Outstanding : PktOut(c)
  /\ \A v \in Vifs : /\ \A c \in Range(re_queue[v]) \cup Range(conn_queue[v]) : pkt[c].vif = v
                     /\ hand[v] # Nobody => pkt[hand[v]].vif = v
                     /\ last[v] <= born[v]

DataOut(v) == {c \in Outstanding \cap DataCookies : pkt[c].vif = v}

CountInv ==
  /\ tx_pending = Cardinality(Outstanding)
  /\ \A v \in Vifs : data_cookie_count[v] = Cardinality(DataOut(v))

QueuedInv == \A v \in Vifs : sche_tx_queued[v] <= Len(Queued(v))

\* A cookie that is anywhere but on a free list is out.
LEMMA OutIs ==
  ASSUME PlaceInv, TypeInv
  PROVE  /\ Outstanding \subseteq Cookies /\ IsFiniteSet(Outstanding)
         /\ Range(txq) \subseteq Outstanding /\ Range(batch) \subseteq Outstanding
         /\ hif \subseteq Outstanding
         /\ \A v \in Vifs : /\ Range(re_queue[v]) \subseteq Outstanding
                            /\ Range(conn_queue[v]) \subseteq Outstanding
                            /\ hand[v] # Nobody => hand[v] \in Outstanding
<1>1. Outstanding \subseteq Cookies /\ IsFiniteSet(Outstanding)
  <2>1. Outstanding \subseteq Cookies
    BY DEF Outstanding
  <2> QED BY <2>1, ConstFacts, FS_Subset
<1>2. Kinds = {"data", "ctrl"}
  BY DEF Kinds
<1>3. ASSUME NEW s \in Spots, \A k \in Kinds : s # FreeOf(k), NEW c \in Here(s), c \in Cookies
      PROVE  c \in Outstanding
  <2>1. \A k \in Kinds : Here(FreeOf(k)) \cap Here(s) = {}
    BY <1>3, SpotsAre DEF PlaceInv, OneSpot
  <2>2. \A k \in Kinds : c \notin Range(free[k])
    BY <1>3, <2>1, HereIs
  <2> QED BY <1>2, <1>3, <2>2 DEF Outstanding
<1>4. /\ Range(txq) \subseteq Cookies /\ Range(batch) \subseteq Cookies /\ hif \subseteq Cookies
      /\ \A v \in Vifs : /\ Range(re_queue[v]) \subseteq Cookies /\ Range(conn_queue[v]) \subseteq Cookies
                         /\ hand[v] # Nobody => hand[v] \in Cookies
  <2>1. /\ txq \in Seq(Cookies) /\ batch \in Seq(Cookies)
        /\ \A v \in Vifs : re_queue[v] \in Seq(Cookies) /\ conn_queue[v] \in Seq(Cookies)
    BY LocalFacts
  <2>2. hif \subseteq Cookies /\ \A v \in Vifs : hand[v] # Nobody => hand[v] \in Cookies
    BY DEF TypeInv, QueuesOK, CtxOK
  <2> QED BY <2>1, <2>2, RangeType
<1>5. /\ Range(txq) \subseteq Outstanding /\ Range(batch) \subseteq Outstanding /\ hif \subseteq Outstanding
  <2>1. /\ Txq \in Spots /\ Batch \in Spots /\ Hif \in Spots
        /\ \A k \in Kinds : Txq # FreeOf(k) /\ Batch # FreeOf(k) /\ Hif # FreeOf(k)
        /\ Here(Txq) = Range(txq) /\ Here(Batch) = Range(batch) /\ Here(Hif) = hif
    BY SpotsAre, SpotsDiffer, HereIs
  <2> QED BY <1>3, <1>4, <2>1
<1>6. ASSUME NEW v \in Vifs
      PROVE  /\ Range(re_queue[v]) \subseteq Outstanding /\ Range(conn_queue[v]) \subseteq Outstanding
             /\ hand[v] # Nobody => hand[v] \in Outstanding
  <2>1. /\ ReOf(v) \in Spots /\ ConnOf(v) \in Spots /\ HandOf(v) \in Spots
        /\ \A k \in Kinds : ReOf(v) # FreeOf(k) /\ ConnOf(v) # FreeOf(k) /\ HandOf(v) # FreeOf(k)
        /\ Here(ReOf(v)) = Range(re_queue[v]) /\ Here(ConnOf(v)) = Range(conn_queue[v])
        /\ Here(HandOf(v)) = {hand[v]} \ {Nobody}
    BY SpotsAre, SpotsDiffer, HereIs
  <2> QED BY <1>3, <1>4, <2>1
<1> QED BY <1>1, <1>5, <1>6

\* What is written about a packet stays while it is out, but for the number
\* of times it was taken back.
SamePkts ==
  /\ UNCHANGED <<free, born>>
  /\ \A c \in Cookies : pkt'[c].vif = pkt[c].vif /\ pkt'[c].tag = pkt[c].tag /\ pkt'[c].num = pkt[c].num

\* The cookies out after a packet was accepted, with the cookie of its kind ..
Taken(v, tag) ==
  /\ tag \in {"data", "pri"} /\ free[KindOf(tag)] # <<>> /\ KindOf(tag) \in Kinds /\ hand[v] = Nobody
  /\ free' = [free EXCEPT ![KindOf(tag)] = Tail(free[KindOf(tag)])]
  /\ hand' = [hand EXCEPT ![v] = Head(free[KindOf(tag)])]
  /\ pkt' = [pkt EXCEPT ![Head(free[KindOf(tag)])] =
               [vif |-> v, tag |-> tag, recycle |-> 0, num |-> born[v] + 1]]
  /\ born' = [born EXCEPT ![v] = @ + 1]
  /\ UNCHANGED <<re_queue, conn_queue, last>>

LEMMA TakenIs ==
  ASSUME TypeInv, PlaceInv, NEW v \in Vifs, NEW tag, Taken(v, tag)
  PROVE  \E x \in Cookies :
           /\ x \notin Outstanding /\ Outstanding' = Outstanding \cup {x}
           /\ hand'[v] = x /\ \A u \in Vifs \ {v} : hand'[u] = hand[u]
           /\ pkt'[x] = [vif |-> v, tag |-> tag, recycle |-> 0, num |-> born[v] + 1]
           /\ \A c \in Cookies \ {x} : pkt'[c] = pkt[c]
           /\ x \in DataCookies <=> tag = "data"
           /\ born'[v] = born[v] + 1 /\ \A u \in Vifs \ {v} : born'[u] = born[u]
<1> DEFINE k == KindOf(tag)
           x == Head(free[k])
<1>1. k \in Kinds /\ free[k] \in Seq(Cookies) /\ free[k] # <<>> /\ Distinct(free[k])
  BY LocalFacts DEF PlaceInv, QueuesDistinct, Taken
<1>2. x \in Range(free[k]) /\ Range(Tail(free[k])) = Range(free[k]) \ {x}
  BY <1>1, DistinctTail
<1>3. x \in Cookies
  BY <1>1, <1>2, RangeType
<1>4. /\ free' = [free EXCEPT ![k] = Tail(free[k])] /\ free \in [Kinds -> Seq(Cookies)]
      /\ hand' = [hand EXCEPT ![v] = x] /\ hand \in [Vifs -> Cookies \cup {Nobody}]
      /\ pkt' = [pkt EXCEPT ![x] = [vif |-> v, tag |-> tag, recycle |-> 0, num |-> born[v] + 1]]
      /\ pkt \in [Cookies -> PktType]
      /\ born' = [born EXCEPT ![v] = @ + 1] /\ born \in [Vifs -> 0 .. MaxPkts]
      /\ tag \in {"data", "pri"}
  BY DEF Taken, TypeInv, QueuesOK, CtxOK, PktsOK
<1>5. k = "data" \/ k = "ctrl"
  BY <1>1 DEF Kinds
<1>6. \A j \in Kinds \ {k} : x \notin Range(free[j])
  <2>1. \A j \in Kinds \ {k} : Here(FreeOf(j)) \cap Here(FreeOf(k)) = {}
    BY <1>1, SpotsAre, SpotsDiffer DEF PlaceInv, OneSpot
  <2> QED BY <1>2, <2>1, HereIs
<1>7. x \in DataCookies <=> tag = "data"
  <2>1. Range(free[k]) \subseteq CookiesOf(k)
    BY <1>1 DEF PlaceInv, FreeKinds
  <2>2. tag = "data" \/ tag = "pri"
    BY <1>4
  <2> QED BY <1>2, <2>1, <2>2, ConstFacts
<1> HIDE DEF k, x
<1>8. \A j \in Kinds : Range(free'[j]) = Range(free[j]) \ {x}
  BY <1>1, <1>2, <1>4, <1>6
<1>9. Kinds = {"data", "ctrl"}
  BY DEF Kinds
<1>10. x \notin Outstanding /\ Outstanding' = Outstanding \cup {x}
  BY <1>1, <1>2, <1>3, <1>5, <1>8, <1>9 DEF Outstanding
<1>11. /\ hand'[v] = x /\ \A u \in Vifs \ {v} : hand'[u] = hand[u]
  BY <1>4
<1>12. /\ pkt'[x] = [vif |-> v, tag |-> tag, recycle |-> 0, num |-> born[v] + 1]
       /\ \A c \in Cookies \ {x} : pkt'[c] = pkt[c]
  BY <1>3, <1>4
<1>13. born'[v] = born[v] + 1 /\ \A u \in Vifs \ {v} : born'[u] = born[u]
  BY <1>4
<1> QED BY <1>3, <1>7, <1>10, <1>11, <1>12, <1>13

\* .. and after completions.
Finished(cs) ==
  /\ cs \in Seq(Cookies) /\ Distinct(cs) /\ Reap(cs)
  /\ Range(cs) \subseteq Range(batch) \/ Range(cs) \subseteq hif
  /\ UNCHANGED <<re_queue, conn_queue, hand, born, last>>

LEMMA FinishedIs ==
  ASSUME TypeInv, PlaceInv, NEW cs, Finished(cs)
  PROVE  /\ Range(cs) \subseteq Outstanding /\ Outstanding' = Outstanding \ Range(cs)
         /\ \A c \in Cookies \ Range(cs) : pkt'[c] = pkt[c]
         /\ \A v \in Vifs : /\ Range(cs) \cap Range(re_queue[v]) = {}
                            /\ Range(cs) \cap Range(conn_queue[v]) = {}
                            /\ hand[v] \notin Range(cs)
         /\ Range(cs) \cap Range(txq) = {}
<1>1. /\ cs \in Seq(Cookies) /\ free' = [k \in Kinds |-> FreedOf(cs, k) \o free[k]]
      /\ pkt' = [c \in Cookies |-> IF c \in Range(cs) THEN NoPkt ELSE pkt[c]]
      /\ Range(cs) \subseteq Cookies
  BY ReapIs, RangeType DEF Finished
<1>2. \A k \in Kinds : Range(free'[k]) = (Range(cs) \cap CookiesOf(k)) \cup Range(free[k])
  <2>1. ASSUME NEW k \in Kinds PROVE Range(free'[k]) = (Range(cs) \cap CookiesOf(k)) \cup Range(free[k])
    <3>1. /\ FreedOf(cs, k) \in Seq(Cookies) /\ Range(FreedOf(cs, k)) = Range(cs) \cap CookiesOf(k)
          /\ free[k] \in Seq(Cookies)
      BY <1>1, FreedIs, LocalFacts
    <3>2. Range(FreedOf(cs, k) \o free[k]) = Range(FreedOf(cs, k)) \cup Range(free[k])
      BY <3>1, RangeConcat
    <3> QED BY <1>1, <3>1, <3>2
  <2> QED BY <2>1
<1>3. /\ Kinds = {"data", "ctrl"} /\ CookiesOf("data") = DataCookies /\ CookiesOf("ctrl") = CtrlCookies
      /\ Cookies = DataCookies \cup CtrlCookies
  BY ConstFacts DEF Kinds
<1>4. Outstanding' = Outstanding \ Range(cs)
  <2>1. Range(free'["data"]) \cup Range(free'["ctrl"])
          = Range(cs) \cup Range(free["data"]) \cup Range(free["ctrl"])
    BY <1>1, <1>2, <1>3
  <2> QED BY <2>1 DEF Outstanding
<1>5. Range(cs) \subseteq Outstanding
  BY OutIs DEF Finished
<1>6. PICK o \in {Batch, Hif} : Range(cs) \subseteq Here(o)
  BY HereIs DEF Finished
<1>7. ASSUME NEW v \in Vifs
      PROVE  /\ Range(cs) \cap Range(re_queue[v]) = {} /\ Range(cs) \cap Range(conn_queue[v]) = {}
             /\ hand[v] \notin Range(cs)
  <2>1. /\ ReOf(v) \in Spots /\ ConnOf(v) \in Spots /\ HandOf(v) \in Spots /\ o \in Spots
        /\ o # ReOf(v) /\ o # ConnOf(v) /\ o # HandOf(v)
    BY SpotsAre, SpotsDiffer
  <2>2. /\ Here(o) \cap Here(ReOf(v)) = {} /\ Here(o) \cap Here(ConnOf(v)) = {}
        /\ Here(o) \cap Here(HandOf(v)) = {}
    BY <2>1 DEF PlaceInv, OneSpot
  <2>3. /\ Here(ReOf(v)) = Range(re_queue[v]) /\ Here(ConnOf(v)) = Range(conn_queue[v])
        /\ Here(HandOf(v)) = {hand[v]} \ {Nobody} /\ Nobody \notin Range(cs)
    BY <1>1, HereIs, ConstFacts
  <2> QED BY <1>6, <2>2, <2>3
<1>8. \A c \in Cookies \ Range(cs) : pkt'[c] = pkt[c]
  BY <1>1
<1>9. Range(cs) \cap Range(txq) = {}
  <2>1. Txq \in Spots /\ o \in Spots /\ o # Txq
    BY SpotsAre, SpotsDiffer
  <2>2. Here(o) \cap Here(Txq) = {}
    BY <2>1 DEF PlaceInv, OneSpot
  <2> QED BY <1>6, <2>2, HereIs
<1> QED BY <1>4, <1>5, <1>7, <1>8, <1>9

\* Every step is one of the three.
Moves(v) ==
  \/ UNCHANGED <<re_queue, conn_queue, hand>>
  \/ /\ UNCHANGED hand
     /\ \A u \in Vifs : /\ Range(conn_queue'[u]) \subseteq Range(conn_queue[u])
                        /\ \A c \in Range(re_queue'[u]) : 
                             c \in Range(re_queue[u]) \/ (c \in Cookies /\ pkt[c].vif = u)
  \/ /\ hand[v] # Nobody /\ hand' = [hand EXCEPT ![v] = Nobody]
     /\ \A u \in Vifs : \A c \in Range(re_queue'[u]) \cup Range(conn_queue'[u]) :
          c \in Range(re_queue[u]) \cup Range(conn_queue[u]) \/ (u = v /\ c = hand[v])

Lasts ==
  \/ UNCHANGED last
  \/ \E c \in Outstanding : last' = [last EXCEPT ![pkt[c].vif] = pkt[c].num]

Kind(v) ==
  \/ \E tag \in {"data", "pri"} : /\ Taken(v, tag) /\ tx_pending' = tx_pending + 1
                                  /\ data_cookie_count' = [data_cookie_count EXCEPT ![v] = IF tag = "data" THEN @ + 1 ELSE @]
  \/ \E cs : Finished(cs)
  \/ SamePkts /\ Moves(v) /\ Lasts /\ UNCHANGED <<tx_pending, data_cookie_count>>

LEMMA Takes ==
  ASSUME TypeInv, NEW v \in Vifs, NEW tag \in {"data", "pri"}, DataTx(v, tag)
  PROVE  Taken(v, tag) /\ UNCHANGED txq
<1>1. /\ pc[v] = "idle" /\ free[KindOf(tag)] # <<>>
      /\ free' = [free EXCEPT ![KindOf(tag)] = Tail(free[KindOf(tag)])]
      /\ hand' = [hand EXCEPT ![v] = Head(free[KindOf(tag)])]
      /\ pkt' = [pkt EXCEPT ![Head(free[KindOf(tag)])] =
                   [vif |-> v, tag |-> tag, recycle |-> 0, num |-> born[v] + 1]]
      /\ born' = [born EXCEPT ![v] = @ + 1]
      /\ UNCHANGED <<re_queue, conn_queue, last>>
  BY DEF DataTx, MayAlloc, flowVars
<1>2. hand[v] = Nobody /\ KindOf(tag) \in Kinds
  BY <1>1, LocalFacts DEF Holding, KindOf, Kinds
<1>3. UNCHANGED txq
  BY DEF DataTx, htcVars
<1> QED BY <1>1, <1>2, <1>3 DEF Taken

LEMMA Finishes ==
  ASSUME TypeInv, PlaceInv, RxComplete \/ HifDone
  PROVE  UNCHANGED txq /\ \E cs : Finished(cs)
<1> USE DEF flowVars, htcVars, histVars
<1>1. CASE RxComplete
  <2>1. Reap(batch) /\ UNCHANGED <<txq, re_queue, conn_queue, hand, born, last>>
    BY <1>1 DEF RxComplete
  <2>2. batch \in Seq(Cookies) /\ Distinct(batch)
    BY LocalFacts DEF PlaceInv, QueuesDistinct
  <2> QED BY <2>1, <2>2 DEF Finished
<1>2. CASE HifDone
  <2>1. PICK x \in hif : Reap(<<x>>)
    BY <1>2 DEF HifDone
  <2>2. <<x>> \in Seq(Cookies) /\ Distinct(<<x>>) /\ Range(<<x>>) = {x}
    BY <2>1, QueuesAre, Single DEF QueuesOK
  <2>3. UNCHANGED <<txq, re_queue, conn_queue, hand, born, last>>
    BY <1>2 DEF HifDone
  <2>4. Finished(<<x>>)
    BY <2>1, <2>2, <2>3 DEF Finished
  <2> QED BY <2>3, <2>4
<1> QED BY <1>1, <1>2

LEMMA TakeBackSame ==
  ASSUME TypeInv, NEW v \in Vifs, TakeBack(v), UNCHANGED <<free, born>>
  PROVE  SamePkts
<1>1. pkt' = [x \in Cookies |-> IF x \in Range(BackOf(v))
                                THEN [pkt[x] EXCEPT !.recycle = @ + 1] ELSE pkt[x]]
  BY DEF TakeBack
<1>2. pkt \in [Cookies -> PktType]
  BY PktsAre DEF PktsOK
<1>3. ASSUME NEW x \in Cookies
      PROVE  pkt'[x].vif = pkt[x].vif /\ pkt'[x].tag = pkt[x].tag /\ pkt'[x].num = pkt[x].num
  <2>1. pkt[x] \in PktType
    BY <1>2
  <2> QED BY <1>1, <2>1 DEF PktType
<1> QED BY <1>3 DEF SamePkts

LEMMA KindStep ==
  ASSUME TypeInv, PlaceInv, NEW v \in Vifs, NEW c \in Vifs \cup {"rx"},
         NEW tag \in {"data", "pri"}, Step(v, c, tag)
  PROVE  Kind(v)
<1> USE DEF arVars, vifVars, flowVars, htcVars, locVars, histVars
<1>1. CASE DataTx(v, tag)
  <2>1. /\ tx_pending' = tx_pending + 1
        /\ data_cookie_count' = [data_cookie_count EXCEPT ![v] = IF tag = "data" THEN @ + 1 ELSE @]
    BY <1>1 DEF DataTx
  <2>2. Taken(v, tag)
    BY <1>1, Takes
  <2> QED BY <2>1, <2>2 DEF Kind
<1>2. CASE CopyFail(v)
  <2>1. hand[v] # Nobody
    BY <1>2 DEF CopyFail, TypeInv, CtxOK, Holding
  <2>2. SamePkts /\ Lasts /\ UNCHANGED <<tx_pending, data_cookie_count>>
    BY <1>2 DEF CopyFail, SamePkts, Lasts
  <2>3. Moves(v)
    BY <1>2, <2>1 DEF CopyFail, Moves
  <2> QED BY <2>2, <2>3 DEF Kind
<1>3. CASE SchedulePkt(v)
  <2>1. hand[v] \in Cookies
    BY <1>3, LocalFacts DEF SchedulePkt, Holding
  <2>2. SamePkts /\ Lasts /\ UNCHANGED <<tx_pending, data_cookie_count>>
    BY <1>3 DEF SchedulePkt, SamePkts, Lasts
  <2>3. \/ UNCHANGED <<re_queue, conn_queue, hand>>
        \/ /\ hand' = [hand EXCEPT ![v] = Nobody]
           /\ \/ re_queue' = [re_queue EXCEPT ![v] = <<hand[v]>> \o @] /\ UNCHANGED conn_queue
              \/ conn_queue' = [conn_queue EXCEPT ![v] = Append(@, hand[v])] /\ UNCHANGED re_queue
    BY <1>3 DEF SchedulePkt, Enqueue
  <2>4. Moves(v)
    <3> DEFINE y == <<hand[v]>>
    <3>1. /\ y \in Seq(Cookies) /\ Range(y) = {hand[v]} /\ hand[v] # Nobody
          /\ re_queue[v] \in Seq(Cookies) /\ conn_queue[v] \in Seq(Cookies)
      BY <2>1, Single, LocalFacts, ConstFacts
    <3>2. CASE UNCHANGED <<re_queue, conn_queue, hand>>
      BY <3>2 DEF Moves
    <3>3. CASE /\ hand' = [hand EXCEPT ![v] = Nobody]
               /\ re_queue' = [re_queue EXCEPT ![v] = <<hand[v]>> \o @] /\ UNCHANGED conn_queue
      <4>1. re_queue'[v] = y \o re_queue[v] /\ \A u \in Vifs \ {v} : re_queue'[u] = re_queue[u]
        BY <3>3, QueuesAre DEF QueuesOK
      <4> HIDE DEF y
      <4>2. Range(y \o re_queue[v]) = Range(y) \cup Range(re_queue[v])
        BY <3>1, RangeConcat
      <4> QED BY <3>1, <3>3, <4>1, <4>2 DEF Moves
    <3>4. CASE /\ hand' = [hand EXCEPT ![v] = Nobody]
               /\ conn_queue' = [conn_queue EXCEPT ![v] = Append(@, hand[v])] /\ UNCHANGED re_queue
      <4>1. conn_queue'[v] = Append(conn_queue[v], hand[v]) /\ \A u \in Vifs \ {v} : conn_queue'[u] = conn_queue[u]
        BY <3>4, QueuesAre DEF QueuesOK
      <4>2. Range(Append(conn_queue[v], hand[v])) = Range(conn_queue[v]) \cup {hand[v]}
        BY <2>1, <3>1, RangeAppend
      <4> QED BY <3>1, <3>4, <4>1, <4>2 DEF Moves
    <3> QED BY <2>3, <3>2, <3>3, <3>4
  <2> QED BY <2>2, <2>4 DEF Kind
<1>4. CASE SendPkt(v)
  <2>1. hand[v] # Nobody
    BY <1>4 DEF SendPkt, TypeInv, CtxOK, Holding
  <2>2. SamePkts /\ Lasts /\ UNCHANGED <<tx_pending, data_cookie_count>>
    BY <1>4 DEF SendPkt, SamePkts, Lasts
  <2>3. hand' = [hand EXCEPT ![v] = Nobody] /\ UNCHANGED <<re_queue, conn_queue>>
    BY <1>4 DEF SendPkt
  <2>4. Moves(v)
    BY <2>1, <2>3 DEF Moves
  <2> QED BY <2>2, <2>4 DEF Kind
<1>5. CASE TxSchedule(c, v)
  <2>1. SamePkts /\ Lasts /\ UNCHANGED <<tx_pending, data_cookie_count, hand>>
    BY <1>5 DEF TxSchedule, SamePkts, Lasts
  <2>2. \/ UNCHANGED <<re_queue, conn_queue>>
        \/ re_queue' = [re_queue EXCEPT ![v] = <<>>] /\ conn_queue' = [conn_queue EXCEPT ![v] = <<>>]
    BY <1>5 DEF TxSchedule
  <2>3. \A w \in Vifs : /\ Range(re_queue'[w]) \subseteq Range(re_queue[w])
                        /\ Range(conn_queue'[w]) \subseteq Range(conn_queue[w])
    <3>1. Range(<<>>) = {}
      BY DEF Range
    <3> QED BY <2>2, <3>1, QueuesAre DEF QueuesOK
  <2>4. Moves(v)
    BY <2>1, <2>3 DEF Moves
  <2> QED BY <2>1, <2>4 DEF Kind
<1>6. CASE ConnectEvent(v)
  <2>1. SamePkts /\ Lasts /\ UNCHANGED <<tx_pending, data_cookie_count, hand>>
    BY <1>6 DEF ConnectEvent, SamePkts, Lasts
  <2>2. \/ UNCHANGED <<re_queue, conn_queue>>
        \/ re_queue' = [re_queue EXCEPT ![v] = <<>>] /\ conn_queue' = [conn_queue EXCEPT ![v] = <<>>]
    BY <1>6 DEF ConnectEvent
  <2>3. \A w \in Vifs : /\ Range(re_queue'[w]) \subseteq Range(re_queue[w])
                        /\ Range(conn_queue'[w]) \subseteq Range(conn_queue[w])
    <3>1. Range(<<>>) = {}
      BY DEF Range
    <3> QED BY <2>2, <3>1, QueuesAre DEF QueuesOK
  <2>4. Moves(v)
    BY <2>1, <2>3 DEF Moves
  <2> QED BY <2>1, <2>4 DEF Kind
<1>7. CASE DisconnectEvent(v)
  <2>1. SamePkts /\ Moves(v) /\ Lasts /\ UNCHANGED <<tx_pending, data_cookie_count>>
    BY <1>7 DEF DisconnectEvent, SamePkts, Moves, Lasts
  <2> QED BY <2>1 DEF Kind
<1>8. CASE FlowctrlEvent
  <2>1. SamePkts /\ Moves(v) /\ Lasts /\ UNCHANGED <<tx_pending, data_cookie_count>>
    BY <1>8 DEF FlowctrlEvent, SamePkts, Moves, Lasts
  <2> QED BY <2>1 DEF Kind
<1>9. CASE RxComplete
  BY <1>9, Finishes DEF Kind
<1>10. CASE StateChange(v)
  <2>1. /\ UNCHANGED <<free, born, last, tx_pending, data_cookie_count, hand, conn_queue>>
    BY <1>10, StateChangeIs
  <2>2. Lasts
    BY <2>1 DEF Lasts
  <2>3. CASE UNCHANGED <<re_queue, pkt>>
    <3>1. SamePkts /\ Moves(v)
      BY <2>1, <2>3 DEF SamePkts, Moves
    <3> QED BY <2>1, <2>2, <3>1 DEF Kind
  <2>4. CASE TakeBack(v)
    <3>1. SamePkts
      BY <2>1, <2>4, TakeBackSame
    <3>2. /\ re_queue[v] \in Seq(Cookies) /\ BackOf(v) \in Seq(Cookies)
          /\ Range(BackOf(v)) = {txq[i] : i \in MineAt(v) \ AgedAt(v)}
      BY LocalFacts, TakenFrom
    <3>3. \A x \in Range(BackOf(v)) : x \in Cookies /\ pkt[x].vif = v
      <4>1. Range(BackOf(v)) \subseteq Cookies
        BY <3>2, RangeType
      <4>2. \A i \in MineAt(v) \ AgedAt(v) : pkt[txq[i]].vif = v
        BY DEF MineAt
      <4> QED BY <3>2, <4>1, <4>2
    <3>4. Range(re_queue[v] \o BackOf(v)) = Range(re_queue[v]) \cup Range(BackOf(v))
      BY <3>2, RangeConcat
    <3>5. re_queue'[v] = re_queue[v] \o BackOf(v) /\ \A u \in Vifs \ {v} : re_queue'[u] = re_queue[u]
      BY <2>4, QueuesAre DEF QueuesOK, TakeBack
    <3>6. Moves(v)
      BY <2>1, <3>3, <3>4, <3>5 DEF Moves
    <3> QED BY <2>1, <2>2, <3>1, <3>6 DEF Kind
  <2> QED BY <1>10, <2>3, <2>4, StateChangeIs
<1>11. CASE StateChanged
  <2>1. SamePkts /\ Moves(v) /\ Lasts /\ UNCHANGED <<tx_pending, data_cookie_count>>
    BY <1>11 DEF StateChanged, Complete, SamePkts, Moves, Lasts
  <2> QED BY <2>1 DEF Kind
<1>12. CASE SetConnId
  <2>1. SamePkts /\ Moves(v) /\ Lasts /\ UNCHANGED <<tx_pending, data_cookie_count>>
    BY <1>12 DEF SetConnId, SamePkts, Moves, Lasts
  <2> QED BY <2>1 DEF Kind
<1>13. CASE ConnectWake
  <2>1. SamePkts /\ Moves(v) /\ Lasts /\ UNCHANGED <<tx_pending, data_cookie_count>>
    BY <1>13 DEF ConnectWake, SamePkts, Moves, Lasts
  <2> QED BY <2>1 DEF Kind
<1>14. CASE Connect
  <2>1. SamePkts /\ Moves(v) /\ Lasts /\ UNCHANGED <<tx_pending, data_cookie_count>>
    BY <1>14 DEF Connect, SamePkts, Moves, Lasts
  <2> QED BY <2>1 DEF Kind
<1>15. CASE Switch
  <2>1. SamePkts /\ Moves(v) /\ Lasts /\ UNCHANGED <<tx_pending, data_cookie_count>>
    BY <1>15 DEF Switch, SamePkts, Moves, Lasts
  <2> QED BY <2>1 DEF Kind
<1>16. CASE FlushEp
  <2>1. SamePkts /\ Moves(v) /\ Lasts /\ UNCHANGED <<tx_pending, data_cookie_count>>
    BY <1>16 DEF FlushEp, SamePkts, Moves, Lasts
  <2> QED BY <2>1 DEF Kind
<1>17. CASE CleanupByIf
  <2>1. SamePkts /\ Lasts /\ UNCHANGED <<tx_pending, data_cookie_count, hand>>
    BY <1>17 DEF CleanupByIf, SamePkts, Lasts
  <2>2. \/ UNCHANGED <<re_queue, conn_queue>>
        \/ re_queue' = [re_queue EXCEPT ![target] = <<>>] /\ conn_queue' = [conn_queue EXCEPT ![target] = <<>>]
    BY <1>17 DEF CleanupByIf
  <2>3. \A w \in Vifs : /\ Range(re_queue'[w]) \subseteq Range(re_queue[w])
                        /\ Range(conn_queue'[w]) \subseteq Range(conn_queue[w])
    <3>1. Range(<<>>) = {}
      BY DEF Range
    <3> QED BY <2>2, <3>1, QueuesAre DEF QueuesOK
  <2>4. Moves(v)
    BY <2>1, <2>3 DEF Moves
  <2> QED BY <2>1, <2>4 DEF Kind
<1>18. CASE HifDone
  BY <1>18, Finishes DEF Kind
<1>19. CASE HifDoneWake
  <2>1. SamePkts /\ Moves(v) /\ Lasts /\ UNCHANGED <<tx_pending, data_cookie_count>>
    BY <1>19 DEF HifDoneWake, SamePkts, Moves, Lasts
  <2> QED BY <2>1 DEF Kind
<1>20. CASE CmdDone
  <2>1. SamePkts /\ Moves(v) /\ Lasts /\ UNCHANGED <<tx_pending, data_cookie_count>>
    BY <1>20 DEF CmdDone, SamePkts, Moves, Lasts
  <2> QED BY <2>1 DEF Kind
<1>21. CASE HtcDrain
  <2>1. SamePkts /\ Moves(v) /\ UNCHANGED <<tx_pending, data_cookie_count>>
    BY <1>21 DEF HtcDrain, SamePkts, Moves
  <2>2. Head(txq) \in Outstanding
    <3>1. txq \in Seq(Cookies) /\ txq # <<>> /\ Distinct(txq)
      BY <1>21, LocalFacts DEF HtcDrain, PlaceInv, QueuesDistinct
    <3>2. Head(txq) \in Range(txq)
      BY <3>1, DistinctTail
    <3> QED BY <3>2, OutIs
  <2>3. Lasts
    BY <1>21, <2>2 DEF HtcDrain, Lasts
  <2> QED BY <2>1, <2>3 DEF Kind
<1>22. CASE AssocFailed(v)
  <2>1. SamePkts /\ Moves(v) /\ Lasts /\ UNCHANGED <<tx_pending, data_cookie_count>>
    BY <1>22 DEF AssocFailed, SamePkts, Moves, Lasts
  <2> QED BY <2>1 DEF Kind
<1>23. CASE RoamSwitch
  <2>1. SamePkts /\ Moves(v) /\ Lasts /\ UNCHANGED <<tx_pending, data_cookie_count>>
    BY <1>23 DEF RoamSwitch, SamePkts, Moves, Lasts
  <2> QED BY <2>1 DEF Kind
<1> QED
  BY <1>1, <1>2, <1>3, <1>4, <1>5, <1>6, <1>7, <1>8, <1>9, <1>10, <1>11, <1>12, <1>13, <1>14,
     <1>15, <1>16, <1>17, <1>18, <1>19, <1>20, <1>21, <1>22, <1>23 DEF Step

LEMMA InitPktInv == Init => PktInv /\ CountInv /\ QueuedInv
<1> SUFFICES ASSUME Init PROVE PktInv /\ CountInv /\ QueuedInv
  OBVIOUS
<1>1. \A k \in Kinds : Range(free[k]) = CookiesOf(k)
  <2>1. \A k \in Kinds : IsFiniteSet(CookiesOf(k))
    BY ConstFacts DEF Kinds
  <2>2. \A k \in Kinds : Range(Listed(CookiesOf(k))) = CookiesOf(k)
    BY <2>1, ListedIs
  <2> QED BY <2>2 DEF Init
<1>2. Outstanding = {}
  BY <1>1, ConstFacts DEF Outstanding, Kinds
<1>3. PktInv
  <2>1. Range(<<>>) = {}
    BY DEF Range
  <2> QED BY <1>2, <2>1 DEF PktInv, Init
<1>4. CountInv
  BY <1>2, FS_EmptySet DEF CountInv, DataOut, Init
<1>5. QueuedInv
  BY DEF QueuedInv, Queued, Init
<1> QED BY <1>3, <1>4, <1>5

LEMMA PktStep ==
  ASSUME TypeInv, PlaceInv, PktInv, NEW v \in Vifs, Kind(v)
  PROVE  PktInv'
<1>b. born \in [Vifs -> 0 .. MaxPkts] /\ last \in [Vifs -> 0 .. MaxPkts] /\ pkt \in [Cookies -> PktType]
  BY PktsAre DEF PktsOK
<1>o. /\ Outstanding \subseteq Cookies
      /\ \A u \in Vifs : /\ Range(re_queue[u]) \subseteq Outstanding
                         /\ Range(conn_queue[u]) \subseteq Outstanding
                         /\ hand[u] # Nobody => hand[u] \in Outstanding
  BY OutIs
<1>1. ASSUME NEW tag \in {"data", "pri"}, Taken(v, tag) PROVE PktInv'
  <2>1. PICK x \in Cookies :
           /\ x \notin Outstanding /\ Outstanding' = Outstanding \cup {x}
           /\ hand'[v] = x /\ \A u \in Vifs \ {v} : hand'[u] = hand[u]
           /\ pkt'[x] = [vif |-> v, tag |-> tag, recycle |-> 0, num |-> born[v] + 1]
           /\ \A c \in Cookies \ {x} : pkt'[c] = pkt[c]
           /\ x \in DataCookies <=> tag = "data"
           /\ born'[v] = born[v] + 1 /\ \A u \in Vifs \ {v} : born'[u] = born[u]
    BY <1>1, TakenIs
  <2>2. UNCHANGED <<re_queue, conn_queue, last>>
    BY <1>1 DEF Taken
  <2>3. \A u \in Vifs : born[u] <= born'[u]
    BY <1>b, <2>1
  <2>4. PktOut(x)'
    <3>1. /\ pkt'[x].vif = v /\ pkt'[x].tag = tag /\ pkt'[x].num = born[v] + 1
      BY <2>1
    <3>2. born'[v] = born[v] + 1 /\ (x \in DataCookies <=> tag = "data") /\ born[v] \in Int
      BY <1>b, <2>1
    <3> QED BY <3>1, <3>2 DEF PktOut
  <2>5. ASSUME NEW c \in Outstanding PROVE PktOut(c)' /\ pkt'[c] = pkt[c]
    <3>1. PktOut(c) /\ pkt'[c] = pkt[c] /\ pkt[c] \in PktType
      BY <1>b, <1>o, <2>1 DEF PktInv
    <3>2. /\ pkt[c].vif \in Vifs /\ pkt[c].num <= born[pkt[c].vif] /\ pkt[c].num \in Int
          /\ pkt[c].tag = "data" <=> c \in DataCookies
      BY <3>1 DEF PktOut, PktType
    <3>3. pkt[c].num <= born'[pkt[c].vif]
      BY <1>b, <2>1, <2>3, <3>2
    <3> QED BY <3>1, <3>2, <3>3 DEF PktOut
  <2>6. ASSUME NEW u \in Vifs
        PROVE  /\ \A c \in Range(re_queue'[u]) \cup Range(conn_queue'[u]) : pkt'[c].vif = u
               /\ hand'[u] # Nobody => pkt'[hand'[u]].vif = u
               /\ last'[u] <= born'[u]
    <3>1. \A c \in Range(re_queue[u]) \cup Range(conn_queue[u]) : pkt[c].vif = u /\ pkt'[c] = pkt[c]
      BY <1>o, <2>5 DEF PktInv
    <3>2. hand'[u] # Nobody => pkt'[hand'[u]].vif = u
      <4>1. CASE u = v
        BY <2>1, <4>1
      <4>2. CASE u # v
        BY <1>o, <2>1, <2>5, <4>2 DEF PktInv
      <4> QED BY <4>1, <4>2
    <3>3. last'[u] <= born'[u]
      BY <1>b, <2>1, <2>2 DEF PktInv
    <3> QED BY <2>2, <3>1, <3>2, <3>3
  <2>7. \A c \in Outstanding' : PktOut(c)'
    BY <2>1, <2>4, <2>5
  <2> QED BY <2>6, <2>7 DEF PktInv
<1>2. ASSUME NEW cs, Finished(cs) PROVE PktInv'
  <2>1. /\ Range(cs) \subseteq Outstanding /\ Outstanding' = Outstanding \ Range(cs)
        /\ \A c \in Cookies \ Range(cs) : pkt'[c] = pkt[c]
        /\ \A u \in Vifs : /\ Range(cs) \cap Range(re_queue[u]) = {}
                           /\ Range(cs) \cap Range(conn_queue[u]) = {}
                           /\ hand[u] \notin Range(cs)
    BY <1>2, FinishedIs
  <2>2. UNCHANGED <<re_queue, conn_queue, hand, born, last>>
    BY <1>2 DEF Finished
  <2>3. ASSUME NEW c \in Outstanding' PROVE PktOut(c)'
    <3>1. PktOut(c) /\ pkt'[c] = pkt[c]
      BY <1>o, <2>1 DEF PktInv
    <3> QED BY <2>2, <3>1 DEF PktOut
  <2>4. ASSUME NEW u \in Vifs
        PROVE  /\ \A c \in Range(re_queue'[u]) \cup Range(conn_queue'[u]) : pkt'[c].vif = u
               /\ hand'[u] # Nobody => pkt'[hand'[u]].vif = u
               /\ last'[u] <= born'[u]
    <3>1. \A c \in Range(re_queue[u]) \cup Range(conn_queue[u]) : pkt[c].vif = u /\ pkt'[c] = pkt[c]
      BY <1>o, <2>1 DEF PktInv
    <3>2. hand[u] # Nobody => pkt[hand[u]].vif = u /\ pkt'[hand[u]] = pkt[hand[u]]
      BY <1>o, <2>1 DEF PktInv
    <3> QED BY <2>2, <3>1, <3>2 DEF PktInv
  <2> QED BY <2>3, <2>4 DEF PktInv
<1>3. ASSUME SamePkts, Moves(v), Lasts PROVE PktInv'
  <2>1. Outstanding' = Outstanding /\ UNCHANGED born
    BY <1>3 DEF Outstanding, SamePkts
  <2>2. \A c \in Cookies : pkt'[c].vif = pkt[c].vif /\ pkt'[c].tag = pkt[c].tag /\ pkt'[c].num = pkt[c].num
    BY <1>3 DEF SamePkts
  <2>3. ASSUME NEW c \in Outstanding' PROVE PktOut(c)'
    <3>1. PktOut(c) /\ c \in Cookies
      BY <1>o, <2>1 DEF PktInv
    <3> QED BY <2>1, <2>2, <3>1 DEF PktOut
  <2>4. ASSUME NEW u \in Vifs PROVE last'[u] <= born'[u]
    <3>1. CASE UNCHANGED last
      BY <2>1, <3>1 DEF PktInv
    <3>2. ASSUME NEW c \in Outstanding, last' = [last EXCEPT ![pkt[c].vif] = pkt[c].num]
          PROVE  last'[u] <= born'[u]
      <4>1. pkt[c].vif \in Vifs /\ pkt[c].num <= born[pkt[c].vif]
        BY DEF PktInv, PktOut
      <4> QED BY <1>b, <2>1, <3>2, <4>1 DEF PktInv
    <3> QED BY <1>3, <3>1, <3>2 DEF Lasts
  <2>5. ASSUME NEW u \in Vifs
        PROVE  /\ \A c \in Range(re_queue'[u]) \cup Range(conn_queue'[u]) : pkt'[c].vif = u
               /\ hand'[u] # Nobody => pkt'[hand'[u]].vif = u
    <3>1. /\ \A c \in Range(re_queue[u]) \cup Range(conn_queue[u]) : c \in Cookies /\ pkt[c].vif = u
          /\ hand[u] # Nobody => pkt[hand[u]].vif = u /\ hand[u] \in Cookies
      BY <1>o DEF PktInv
    <3>2. CASE UNCHANGED <<re_queue, conn_queue, hand>>
      BY <2>2, <3>1, <3>2
    <3>3. CASE /\ UNCHANGED hand
               /\ \A w \in Vifs : /\ Range(conn_queue'[w]) \subseteq Range(conn_queue[w])
                                  /\ \A c \in Range(re_queue'[w]) :
                                       c \in Range(re_queue[w]) \/ (c \in Cookies /\ pkt[c].vif = w)
      BY <2>2, <3>1, <3>3
    <3>4. CASE /\ hand[v] # Nobody /\ hand' = [hand EXCEPT ![v] = Nobody]
               /\ \A w \in Vifs : \A c \in Range(re_queue'[w]) \cup Range(conn_queue'[w]) :
                    c \in Range(re_queue[w]) \cup Range(conn_queue[w]) \/ (w = v /\ c = hand[v])
      <4>1. hand \in [Vifs -> Cookies \cup {Nobody}]
        BY DEF TypeInv, CtxOK
      <4>2. hand'[u] = IF u = v THEN Nobody ELSE hand[u]
        BY <3>4, <4>1
      <4>3. pkt[hand[v]].vif = v /\ hand[v] \in Cookies
        BY <1>o, <3>4 DEF PktInv
      <4>4. \A c \in Range(re_queue'[u]) \cup Range(conn_queue'[u]) : c \in Cookies /\ pkt[c].vif = u
        BY <3>1, <3>4, <4>3
      <4> QED BY <2>2, <3>1, <4>2, <4>4
    <3> QED BY <1>3, <3>2, <3>3, <3>4 DEF Moves
  <2> QED BY <2>3, <2>4, <2>5 DEF PktInv
<1> QED BY <1>1, <1>2, <1>3 DEF Kind

LEMMA PartCount ==
  ASSUME NEW S, IsFiniteSet(S), NEW T, T \subseteq S
  PROVE  Cardinality(S \ T) = Cardinality(S) - Cardinality(T)
<1>1. IsFiniteSet(T) /\ IsFiniteSet(S \ T) /\ (S \ T) \cap T = {} /\ (S \ T) \cup T = S
  BY FS_Subset
<1>2. /\ Cardinality((S \ T) \cup T) = Cardinality(S \ T) + Cardinality(T)
      /\ Cardinality(S \ T) \in Nat /\ Cardinality(T) \in Nat
  BY <1>1, DisjointCount
<1> DEFINE a == Cardinality(S \ T)
           b == Cardinality(T)
<1>3. Cardinality(S) = a + b /\ a \in Nat /\ b \in Nat
  BY <1>1, <1>2
<1> HIDE DEF a, b
<1>4. Cardinality(S) - b = a
  BY <1>3
<1> QED BY <1>4 DEF a, b

LEMMA CountStep ==
  ASSUME TypeInv, PlaceInv, PktInv, CountInv, NEW v \in Vifs, Kind(v)
  PROVE  CountInv'
<1>o. Outstanding \subseteq Cookies /\ IsFiniteSet(Outstanding)
  BY OutIs
<1>d. data_cookie_count \in [Vifs -> Int]
  BY FlagsAre DEF FlagsOK
<1>f. \A u \in Vifs : IsFiniteSet(DataOut(u)) /\ DataOut(u) \subseteq Outstanding
  BY <1>o, FS_Subset DEF DataOut
<1>1. ASSUME NEW tag \in {"data", "pri"}, Taken(v, tag), tx_pending' = tx_pending + 1,
             data_cookie_count' = [data_cookie_count EXCEPT ![v] = IF tag = "data" THEN @ + 1 ELSE @]
      PROVE  CountInv'
  <2>1. PICK x \in Cookies :
           /\ x \notin Outstanding /\ Outstanding' = Outstanding \cup {x}
           /\ pkt'[x].vif = v
           /\ \A c \in Cookies \ {x} : pkt'[c] = pkt[c]
           /\ x \in DataCookies <=> tag = "data"
    <3>1. PICK x \in Cookies :
           /\ x \notin Outstanding /\ Outstanding' = Outstanding \cup {x}
           /\ pkt'[x] = [vif |-> v, tag |-> tag, recycle |-> 0, num |-> born[v] + 1]
           /\ \A c \in Cookies \ {x} : pkt'[c] = pkt[c]
           /\ x \in DataCookies <=> tag = "data"
      BY <1>1, TakenIs
    <3>2. pkt'[x].vif = v
      BY <3>1
    <3> QED BY <3>1, <3>2
  <2>2. tx_pending' = Cardinality(Outstanding')
    BY <1>o, <1>1, <2>1, FS_AddElement DEF CountInv
  <2>3. \A c \in Outstanding : pkt'[c].vif = pkt[c].vif
    BY <1>o, <2>1
  <2>4. ASSUME NEW u \in Vifs PROVE data_cookie_count'[u] = Cardinality(DataOut(u)')
    <3>1. CASE u = v /\ tag = "data"
      <4>1. DataOut(u)' = DataOut(u) \cup {x} /\ x \notin DataOut(u)
        BY <2>1, <2>3, <3>1 DEF DataOut
      <4>2. Cardinality(DataOut(u) \cup {x}) = Cardinality(DataOut(u)) + 1
        BY <1>f, <4>1, FS_AddElement
      <4> QED BY <1>1, <1>d, <3>1, <4>1, <4>2 DEF CountInv
    <3>2. CASE ~(u = v /\ tag = "data")
      <4>1. DataOut(u)' = DataOut(u)
        BY <2>1, <2>3, <3>2 DEF DataOut
      <4>2. data_cookie_count'[u] = data_cookie_count[u]
        BY <1>1, <1>d, <3>2
      <4> QED BY <4>1, <4>2 DEF CountInv
    <3> QED BY <3>1, <3>2
  <2> QED BY <2>2, <2>4 DEF CountInv
<1>2. ASSUME NEW cs, Finished(cs) PROVE CountInv'
  <2>1. /\ Range(cs) \subseteq Outstanding /\ Outstanding' = Outstanding \ Range(cs)
        /\ \A c \in Cookies \ Range(cs) : pkt'[c] = pkt[c]
    BY <1>2, FinishedIs
  <2>2. /\ cs \in Seq(Cookies) /\ Distinct(cs) /\ tx_pending' = tx_pending - Len(cs)
        /\ data_cookie_count' = [u \in Vifs |-> data_cookie_count[u] - Cardinality(DataAt(cs, u))]
    BY <1>2, ReapIs DEF Finished
  <2>3. tx_pending' = Cardinality(Outstanding')
    <3>1. IsFiniteSet(Range(cs)) /\ Cardinality(Range(cs)) = Len(cs)
      BY <2>2, DistinctCount
    <3>2. Cardinality(Outstanding \ Range(cs)) = Cardinality(Outstanding) - Cardinality(Range(cs))
      BY <1>o, <2>1, <3>1, PartCount
    <3> QED BY <2>1, <2>2, <3>1, <3>2 DEF CountInv
  <2>4. ASSUME NEW u \in Vifs PROVE data_cookie_count'[u] = Cardinality(DataOut(u)')
    <3> DEFINE I == DataAt(cs, u)
               X == {cs[i] : i \in I}
    <3>1. I \in SUBSET DOMAIN cs
      BY DEF DataAt
    <3>2. IsFiniteSet(X) /\ Cardinality(X) = Cardinality(I)
      <4>1. IsFiniteSet(I)
        BY <2>2, <3>1, PositionsFinite
      <4> DEFINE f == [i \in I |-> cs[i]]
      <4>2. f \in Bijection(I, X)
        <5>1. f \in [I -> X] /\ \A x \in X : \E i \in I : f[i] = x
          OBVIOUS
        <5>2. \A i, j \in I : f[i] = f[j] => i = j
          BY <2>2, <3>1 DEF Distinct
        <5> HIDE DEF f, X, I
        <5> QED BY <5>1, <5>2 DEF Bijection, Injection, Surjection, IsInjective
      <4>3. ExistsBijection(I, X)
        BY <4>2 DEF ExistsBijection
      <4> HIDE DEF I, X
      <4> QED BY <4>1, <4>3, FS_Bijection
    <3>3. X \subseteq DataOut(u)
      <4>1. ASSUME NEW i \in I PROVE cs[i] \in DataOut(u)
        <5>1. i \in DOMAIN cs /\ pkt[cs[i]].vif = u /\ pkt[cs[i]].tag = "data"
          BY DEF DataAt
        <5>2. cs[i] \in Outstanding
          BY <2>1, <5>1 DEF Range
        <5>3. cs[i] \in DataCookies
          BY <5>1, <5>2 DEF PktInv, PktOut
        <5> QED BY <5>1, <5>2, <5>3 DEF DataOut
      <4> QED BY <4>1
    <3>4. DataOut(u)' = DataOut(u) \ X
      <4>1. ASSUME NEW c \in DataOut(u), c \in Range(cs) PROVE c \in X
        <5>1. PICK i \in DOMAIN cs : c = cs[i]
          BY <4>1 DEF Range
        <5>2. pkt[c].vif = u /\ pkt[c].tag = "data"
          BY DEF DataOut, PktInv, PktOut
        <5>3. i \in I
          BY <5>1, <5>2 DEF DataAt
        <5> QED BY <5>1, <5>3
      <4>2. X \subseteq Range(cs)
        BY <3>1 DEF Range
      <4> HIDE DEF X, I
      <4>3. DataOut(u)' = {c \in Outstanding' \cap DataCookies : pkt'[c].vif = u}
        BY DEF DataOut
      <4>4. DataOut(u)' = {c \in Outstanding \cap DataCookies : pkt[c].vif = u /\ c \notin Range(cs)}
        BY <1>o, <2>1, <4>3
      <4> QED BY <4>1, <4>2, <4>4 DEF DataOut
    <3>5. Cardinality(DataOut(u) \ X) = Cardinality(DataOut(u)) - Cardinality(X)
      BY <1>f, <3>3, PartCount
    <3> QED BY <2>2, <3>2, <3>4, <3>5 DEF CountInv
  <2> QED BY <2>3, <2>4 DEF CountInv
<1>3. ASSUME SamePkts, UNCHANGED <<tx_pending, data_cookie_count>> PROVE CountInv'
  <2>1. Outstanding' = Outstanding
    BY <1>3 DEF Outstanding, SamePkts
  <2>2. \A u \in Vifs : DataOut(u)' = DataOut(u)
    BY <1>o, <1>3, <2>1 DEF DataOut, SamePkts
  <2> QED BY <1>3, <2>1, <2>2 DEF CountInv
<1> QED BY <1>1, <1>2, <1>3 DEF Kind

LEMMA ConcatLen ==
  ASSUME NEW S, NEW q \in Seq(S), NEW r \in Seq(S)
  PROVE  /\ Len(q \o r) = Len(q) + Len(r) /\ Len(q) \in Nat /\ Len(r) \in Nat
         /\ q \o r = <<>> <=> q = <<>> /\ r = <<>>
<1>1. Len(q \o r) = Len(q) + Len(r) /\ Len(q) \in Nat /\ Len(r) \in Nat /\ q \o r \in Seq(S)
  OBVIOUS
<1>2. \A s \in Seq(S) : s = <<>> <=> Len(s) = 0
  OBVIOUS
<1> QED BY <1>1, <1>2

LEMMA QueuedEmptied ==
  ASSUME TypeInv, QueuedInv, NEW v \in Vifs,
         \/ UNCHANGED <<re_queue, conn_queue, sche_tx_queued>>
         \/ /\ re_queue' = [re_queue EXCEPT ![v] = <<>>] /\ conn_queue' = [conn_queue EXCEPT ![v] = <<>>]
            /\ sche_tx_queued' = [sche_tx_queued EXCEPT ![v] = @ - Len(Queued(v))]
  PROVE  QueuedInv'
<1>1. CASE UNCHANGED <<re_queue, conn_queue, sche_tx_queued>>
  BY <1>1 DEF QueuedInv, Queued
<1>2. CASE /\ re_queue' = [re_queue EXCEPT ![v] = <<>>] /\ conn_queue' = [conn_queue EXCEPT ![v] = <<>>]
           /\ sche_tx_queued' = [sche_tx_queued EXCEPT ![v] = @ - Len(Queued(v))]
  <2>1. /\ re_queue'[v] = <<>> /\ conn_queue'[v] = <<>> /\ sche_tx_queued'[v] = sche_tx_queued[v] - Len(Queued(v))
        /\ sche_tx_queued[v] \in Int
        /\ \A u \in Vifs \ {v} : /\ re_queue'[u] = re_queue[u] /\ conn_queue'[u] = conn_queue[u]
                                 /\ sche_tx_queued'[u] = sche_tx_queued[u]
    BY <1>2, QueuesAre, FlagsAre DEF QueuesOK, FlagsOK
  <2>2. Len(Queued(v)') = 0
    BY <2>1 DEF Queued
  <2>3. sche_tx_queued'[v] <= 0
    BY <2>1, QueuedLen DEF QueuedInv
  <2>4. \A u \in Vifs \ {v} : Queued(u)' = Queued(u)
    BY <2>1 DEF Queued
  <2> QED BY <2>1, <2>2, <2>3, <2>4 DEF QueuedInv
<1> QED BY <1>1, <1>2

LEMMA QueuedStep ==
  ASSUME TypeInv, QueuedInv, NEW v \in Vifs, NEW c \in Vifs \cup {"rx"},
         NEW tag \in {"data", "pri"}, Step(v, c, tag)
  PROVE  QueuedInv'
<1> USE DEF arVars, vifVars, flowVars, htcVars, locVars, histVars
<1>1. CASE DataTx(v, tag)
  <2>1. UNCHANGED <<re_queue, conn_queue, sche_tx_queued>>
    BY <1>1 DEF DataTx
  <2> QED BY <2>1 DEF QueuedInv, Queued
<1>2. CASE CopyFail(v)
  <2>1. UNCHANGED <<re_queue, conn_queue, sche_tx_queued>>
    BY <1>2 DEF CopyFail
  <2> QED BY <2>1 DEF QueuedInv, Queued
<1>3. CASE SchedulePkt(v)
  <2>1. hand[v] \in Cookies
    BY <1>3, LocalFacts DEF SchedulePkt, Holding
  <2>2. \/ UNCHANGED <<re_queue, conn_queue, sche_tx_queued>>
        \/ /\ sche_tx_queued' = [sche_tx_queued EXCEPT ![v] = @ + 1]
           /\ \/ re_queue' = [re_queue EXCEPT ![v] = <<hand[v]>> \o @] /\ UNCHANGED conn_queue
              \/ conn_queue' = [conn_queue EXCEPT ![v] = Append(@, hand[v])] /\ UNCHANGED re_queue
    BY <1>3 DEF SchedulePkt, Enqueue
  <2>3. CASE UNCHANGED <<re_queue, conn_queue, sche_tx_queued>>
    BY <2>3 DEF QueuedInv, Queued
  <2>4. CASE /\ sche_tx_queued' = [sche_tx_queued EXCEPT ![v] = @ + 1]
             /\ \/ re_queue' = [re_queue EXCEPT ![v] = <<hand[v]>> \o @] /\ UNCHANGED conn_queue
                \/ conn_queue' = [conn_queue EXCEPT ![v] = Append(@, hand[v])] /\ UNCHANGED re_queue
    <3>1. re_queue[v] \in Seq(Cookies) /\ conn_queue[v] \in Seq(Cookies)
      BY LocalFacts
    <3>2. \/ re_queue'[v] = <<hand[v]>> \o re_queue[v] /\ conn_queue'[v] = conn_queue[v]
          \/ conn_queue'[v] = Append(conn_queue[v], hand[v]) /\ re_queue'[v] = re_queue[v]
      BY <2>4, QueuesAre DEF QueuesOK
    <3>3. Len(<<hand[v]>> \o re_queue[v]) = Len(re_queue[v]) + 1 /\ <<hand[v]>> \o re_queue[v] \in Seq(Cookies)
      BY <2>1, <3>1
    <3>4. Len(Append(conn_queue[v], hand[v])) = Len(conn_queue[v]) + 1 /\ Append(conn_queue[v], hand[v]) \in Seq(Cookies)
      BY <2>1, <3>1
    <3>5. Len(Queued(v)') = Len(Queued(v)) + 1
      <4>1. CASE re_queue'[v] = <<hand[v]>> \o re_queue[v] /\ conn_queue'[v] = conn_queue[v]
        <5> DEFINE r == <<hand[v]>> \o re_queue[v]
        <5>1. r \in Seq(Cookies) /\ Len(r) = Len(re_queue[v]) + 1 /\ Queued(v)' = r \o conn_queue[v]
          BY <3>3, <4>1 DEF Queued
        <5> HIDE DEF r
        <5>2. Len(r \o conn_queue[v]) = Len(r) + Len(conn_queue[v]) /\ Len(re_queue[v]) \in Nat /\ Len(conn_queue[v]) \in Nat
          BY <3>1, <5>1, ConcatLen
        <5>3. Len(Queued(v)) = Len(re_queue[v]) + Len(conn_queue[v])
          BY LocalFacts
        <5>4. Len(Queued(v)') = Len(r) + Len(conn_queue[v])
          BY <5>1, <5>2
        <5> DEFINE a == Len(Queued(v)')
                   b == Len(Queued(v))
                   k == Len(r)
                   l == Len(re_queue[v])
                   m == Len(conn_queue[v])
        <5>5. a = k + m /\ b = l + m /\ k = l + 1 /\ l \in Nat /\ m \in Nat
          BY <5>1, <5>2, <5>3, <5>4
        <5> HIDE DEF a, b, k, l, m
        <5>6. a = b + 1
          BY <5>5
        <5> QED BY <5>6 DEF a, b
      <4>2. CASE conn_queue'[v] = Append(conn_queue[v], hand[v]) /\ re_queue'[v] = re_queue[v]
        <5> DEFINE r == Append(conn_queue[v], hand[v])
        <5>1. r \in Seq(Cookies) /\ Len(r) = Len(conn_queue[v]) + 1 /\ Queued(v)' = re_queue[v] \o r
          BY <3>4, <4>2 DEF Queued
        <5> HIDE DEF r
        <5>2. Len(re_queue[v] \o r) = Len(re_queue[v]) + Len(r) /\ Len(re_queue[v]) \in Nat /\ Len(conn_queue[v]) \in Nat
          BY <3>1, <5>1, ConcatLen
        <5>3. Len(Queued(v)) = Len(re_queue[v]) + Len(conn_queue[v])
          BY LocalFacts
        <5>4. Len(Queued(v)') = Len(re_queue[v]) + Len(r)
          BY <5>1, <5>2
        <5> DEFINE a == Len(Queued(v)')
                   b == Len(Queued(v))
                   k == Len(r)
                   l == Len(conn_queue[v])
                   m == Len(re_queue[v])
        <5>5. a = m + k /\ b = m + l /\ k = l + 1 /\ l \in Nat /\ m \in Nat
          BY <5>1, <5>2, <5>3, <5>4
        <5> HIDE DEF a, b, k, l, m
        <5>6. a = b + 1
          BY <5>5
        <5> QED BY <5>6 DEF a, b
      <4> QED BY <3>2, <4>1, <4>2
    <3>6. \A u \in Vifs \ {v} : Queued(u)' = Queued(u) /\ sche_tx_queued'[u] = sche_tx_queued[u]
      BY <2>4, QueuesAre, FlagsAre DEF QueuesOK, Queued, FlagsOK
    <3>7. sche_tx_queued'[v] = sche_tx_queued[v] + 1 /\ sche_tx_queued[v] \in Int /\ Len(Queued(v)) \in Nat
      BY <2>4, FlagsAre, QueuedLen DEF FlagsOK
    <3>8. sche_tx_queued'[v] <= Len(Queued(v)')
      BY <3>5, <3>7 DEF QueuedInv
    <3> QED BY <3>6, <3>8 DEF QueuedInv
  <2> QED BY <2>2, <2>3, <2>4
<1>4. CASE SendPkt(v)
  <2>1. UNCHANGED <<re_queue, conn_queue, sche_tx_queued>>
    BY <1>4 DEF SendPkt
  <2> QED BY <2>1 DEF QueuedInv, Queued
<1>5. CASE TxSchedule(c, v)
  <2>1. \/ UNCHANGED <<re_queue, conn_queue, sche_tx_queued>>
        \/ /\ re_queue' = [re_queue EXCEPT ![v] = <<>>] /\ conn_queue' = [conn_queue EXCEPT ![v] = <<>>]
           /\ sche_tx_queued' = [sche_tx_queued EXCEPT ![v] = @ - Len(Queued(v))]
    BY <1>5 DEF TxSchedule
  <2> QED BY <2>1, QueuedEmptied
<1>6. CASE ConnectEvent(v)
  <2>1. \/ UNCHANGED <<re_queue, conn_queue, sche_tx_queued>>
        \/ /\ re_queue' = [re_queue EXCEPT ![v] = <<>>] /\ conn_queue' = [conn_queue EXCEPT ![v] = <<>>]
           /\ sche_tx_queued' = [sche_tx_queued EXCEPT ![v] = @ - Len(Queued(v))]
    BY <1>6 DEF ConnectEvent
  <2> QED BY <2>1, QueuedEmptied
<1>7. CASE DisconnectEvent(v)
  <2>1. UNCHANGED <<re_queue, conn_queue, sche_tx_queued>>
    BY <1>7 DEF DisconnectEvent
  <2> QED BY <2>1 DEF QueuedInv, Queued
<1>8. CASE FlowctrlEvent
  <2>1. UNCHANGED <<re_queue, conn_queue, sche_tx_queued>>
    BY <1>8 DEF FlowctrlEvent
  <2> QED BY <2>1 DEF QueuedInv, Queued
<1>9. CASE RxComplete
  <2>1. UNCHANGED <<re_queue, conn_queue, sche_tx_queued>>
    BY <1>9 DEF RxComplete
  <2> QED BY <2>1 DEF QueuedInv, Queued
<1>10. CASE StateChange(v)
  <2>1. UNCHANGED conn_queue
    BY <1>10, StateChangeIs
  <2>2. CASE UNCHANGED <<re_queue, sche_tx_queued>>
    BY <2>1, <2>2 DEF QueuedInv, Queued
  <2>3. CASE TakeBack(v)
    <3>1. /\ re_queue[v] \in Seq(Cookies) /\ conn_queue[v] \in Seq(Cookies) /\ BackOf(v) \in Seq(Cookies)
      BY LocalFacts, TakenFrom
    <3>2. /\ re_queue'[v] = re_queue[v] \o BackOf(v) /\ (\A u \in Vifs \ {v} : re_queue'[u] = re_queue[u])
          /\ sche_tx_queued'[v] = sche_tx_queued[v] + Len(BackOf(v))
          /\ (\A u \in Vifs \ {v} : sche_tx_queued'[u] = sche_tx_queued[u])
          /\ sche_tx_queued[v] \in Int
      BY <2>3, QueuesAre, FlagsAre DEF TakeBack, QueuesOK, FlagsOK
    <3>3. re_queue[v] \o BackOf(v) \in Seq(Cookies) /\ Len(re_queue[v] \o BackOf(v)) = Len(re_queue[v]) + Len(BackOf(v))
      BY <3>1
    <3>4. Len(Queued(v)') = Len(Queued(v)) + Len(BackOf(v)) /\ Len(BackOf(v)) \in Nat
      <4> DEFINE r == re_queue[v] \o BackOf(v)
      <4>1. r \in Seq(Cookies) /\ Len(r) = Len(re_queue[v]) + Len(BackOf(v)) /\ Queued(v)' = r \o conn_queue[v]
        BY <2>1, <3>2, <3>3 DEF Queued
      <4> HIDE DEF r
      <4>2. /\ Len(r \o conn_queue[v]) = Len(r) + Len(conn_queue[v])
            /\ Len(re_queue[v]) \in Nat /\ Len(conn_queue[v]) \in Nat /\ Len(BackOf(v)) \in Nat
        BY <3>1, <4>1, ConcatLen
      <4>3. Len(Queued(v)) = Len(re_queue[v]) + Len(conn_queue[v])
        BY LocalFacts
      <4>4. Len(Queued(v)') = Len(r) + Len(conn_queue[v])
        BY <4>1, <4>2
      <4> DEFINE a == Len(Queued(v)')
                 b == Len(Queued(v))
                 k == Len(r)
                 l == Len(re_queue[v])
                 m == Len(conn_queue[v])
                 n == Len(BackOf(v))
      <4>5. a = k + m /\ b = l + m /\ k = l + n /\ l \in Nat /\ m \in Nat /\ n \in Nat
        BY <4>1, <4>2, <4>3, <4>4
      <4> HIDE DEF a, b, k, l, m, n
      <4>6. a = b + n /\ n \in Nat
        BY <4>5
      <4> QED BY <4>6 DEF a, b, n
    <3>5. \A u \in Vifs \ {v} : Queued(u)' = Queued(u)
      BY <2>1, <3>2 DEF Queued
    <3>6. sche_tx_queued'[v] <= Len(Queued(v)')
      BY <3>2, <3>4, QueuedLen DEF QueuedInv
    <3> QED BY <3>2, <3>5, <3>6 DEF QueuedInv
  <2> QED BY <1>10, <2>2, <2>3, StateChangeIs
<1>11. CASE StateChanged
  <2>1. UNCHANGED <<re_queue, conn_queue, sche_tx_queued>>
    BY <1>11 DEF StateChanged
  <2> QED BY <2>1 DEF QueuedInv, Queued
<1>12. CASE SetConnId
  <2>1. UNCHANGED <<re_queue, conn_queue>> /\ sche_tx_queued' = [sche_tx_queued EXCEPT ![target] = 0]
    BY <1>12 DEF SetConnId
  <2>2. ASSUME NEW u \in Vifs PROVE sche_tx_queued'[u] <= Len(Queued(u)')
    <3>1. Queued(u)' = Queued(u) /\ Len(Queued(u)) \in Nat /\ sche_tx_queued[u] <= Len(Queued(u))
      BY <2>1, QueuedLen DEF Queued, QueuedInv
    <3> QED BY <2>1, <3>1, FlagsAre DEF FlagsOK
  <2> QED BY <2>2 DEF QueuedInv
<1>13. CASE ConnectWake
  <2>1. UNCHANGED <<re_queue, conn_queue, sche_tx_queued>>
    BY <1>13 DEF ConnectWake
  <2> QED BY <2>1 DEF QueuedInv, Queued
<1>14. CASE Connect
  <2>1. UNCHANGED <<re_queue, conn_queue, sche_tx_queued>>
    BY <1>14 DEF Connect
  <2> QED BY <2>1 DEF QueuedInv, Queued
<1>15. CASE Switch
  <2>1. UNCHANGED <<re_queue, conn_queue, sche_tx_queued>>
    BY <1>15 DEF Switch
  <2> QED BY <2>1 DEF QueuedInv, Queued
<1>16. CASE FlushEp
  <2>1. UNCHANGED <<re_queue, conn_queue, sche_tx_queued>>
    BY <1>16 DEF FlushEp
  <2> QED BY <2>1 DEF QueuedInv, Queued
<1>17. CASE CleanupByIf
  <2>1. \/ UNCHANGED <<re_queue, conn_queue, sche_tx_queued>>
        \/ /\ re_queue' = [re_queue EXCEPT ![target] = <<>>] /\ conn_queue' = [conn_queue EXCEPT ![target] = <<>>]
           /\ sche_tx_queued' = [sche_tx_queued EXCEPT ![target] = @ - Len(Queued(target))]
    BY <1>17 DEF CleanupByIf
  <2>2. target \in Vifs
    BY <1>17, LocalFacts DEF CleanupByIf
  <2> QED BY <2>1, <2>2, QueuedEmptied
<1>18. CASE HifDone
  <2>1. UNCHANGED <<re_queue, conn_queue, sche_tx_queued>>
    BY <1>18 DEF HifDone
  <2> QED BY <2>1 DEF QueuedInv, Queued
<1>19. CASE HifDoneWake
  <2>1. UNCHANGED <<re_queue, conn_queue, sche_tx_queued>>
    BY <1>19 DEF HifDoneWake
  <2> QED BY <2>1 DEF QueuedInv, Queued
<1>20. CASE CmdDone
  <2>1. UNCHANGED <<re_queue, conn_queue, sche_tx_queued>>
    BY <1>20 DEF CmdDone
  <2> QED BY <2>1 DEF QueuedInv, Queued
<1>21. CASE HtcDrain
  <2>1. UNCHANGED <<re_queue, conn_queue, sche_tx_queued>>
    BY <1>21 DEF HtcDrain
  <2> QED BY <2>1 DEF QueuedInv, Queued
<1>22. CASE AssocFailed(v)
  <2>1. UNCHANGED <<re_queue, conn_queue, sche_tx_queued>>
    BY <1>22 DEF AssocFailed
  <2> QED BY <2>1 DEF QueuedInv, Queued
<1>23. CASE RoamSwitch
  <2>1. UNCHANGED <<re_queue, conn_queue, sche_tx_queued>>
    BY <1>23 DEF RoamSwitch
  <2> QED BY <2>1 DEF QueuedInv, Queued
<1> QED
  BY <1>1, <1>2, <1>3, <1>4, <1>5, <1>6, <1>7, <1>8, <1>9, <1>10, <1>11, <1>12, <1>13, <1>14,
     <1>15, <1>16, <1>17, <1>18, <1>19, <1>20, <1>21, <1>22, <1>23 DEF Step

AccountInv == PktInv /\ CountInv /\ QueuedInv

LEMMA AccountUnchanged == AccountInv /\ UNCHANGED vars => AccountInv'
<1> SUFFICES ASSUME AccountInv, UNCHANGED vars PROVE AccountInv'
  OBVIOUS
<1>1. UNCHANGED <<free, tx_pending, data_cookie_count, re_queue, conn_queue, sche_tx_queued, pkt, hand, born, last>>
  BY DEF vars, arVars, vifVars, flowVars, locVars, histVars
<1>2. Outstanding' = Outstanding
  BY <1>1 DEF Outstanding
<1>3. PktInv'
  BY <1>1, <1>2 DEF AccountInv, PktInv, PktOut
<1>4. CountInv'
  BY <1>1, <1>2 DEF AccountInv, CountInv, DataOut
<1>5. QueuedInv'
  BY <1>1 DEF AccountInv, QueuedInv, Queued
<1> QED BY <1>3, <1>4, <1>5 DEF AccountInv

LEMMA AccountStep == TypeInv /\ PlaceInv /\ AccountInv /\ [Next]_vars => AccountInv'
<1>1. ASSUME TypeInv, PlaceInv, AccountInv, Next PROVE AccountInv'
  <2>1. PICK v \in Vifs, c \in Vifs \cup {"rx"}, tag \in {"data", "pri"} : Step(v, c, tag)
    BY <1>1, NextStep
  <2>2. Kind(v)
    BY <1>1, <2>1, KindStep
  <2> QED BY <1>1, <2>1, <2>2, PktStep, CountStep, QueuedStep DEF AccountInv
<1> QED BY <1>1, AccountUnchanged

LEMMA AccountAlways == Spec => []AccountInv
<1>1. Init => AccountInv
  BY InitPktInv DEF AccountInv
<1> QED BY <1>1, AccountStep, TypeInvAlways, PlaceInvAlways, PTL DEF Spec

\* Cookies and counters: through queueing, taking back, flushing, dropping and
\* completion every cookie is in one place once, the counters that admit
\* packets (tx_pending, data_cookie_count) agree with the cookies out, and a
\* connection's count of queued packets is never above what its queues hold.
THEOREM CookiesAccountedHolds == Spec => []CookiesAccounted
<1>1. TypeInv /\ PlaceInv /\ AccountInv => CookiesAccounted
  <2> SUFFICES ASSUME TypeInv, PlaceInv, AccountInv PROVE CookiesAccounted
    OBVIOUS
  <2>1. \A c \in Cookies : Cardinality(PlacesOf(c)) = 1
    BY OnePlace
  <2> QED BY <2>1 DEF AccountInv, CountInv, QueuedInv, DataOut, CookiesAccounted
<1> QED BY <1>1, TypeInvAlways, PlaceInvAlways, AccountAlways, PTL

\* A list without duplicates is no longer than the set of cookies.
LEMMA ShortList ==
  ASSUME NEW q \in Seq(Cookies), Distinct(q)
  PROVE  Packets(q)
<1>1. IsFiniteSet(Range(q)) /\ Cardinality(Range(q)) = Len(q)
  BY DistinctCount
<1>2. Cardinality(Range(q)) <= Cardinality(Cookies)
  BY RangeType, ConstFacts, FS_Subset
<1> QED BY <1>1, <1>2 DEF Packets

\* The state keeps its shape: no list holds more than all the cookies, the
\* counters stay in their range and every program counter at a known label.
THEOREM TypeCorrect == Spec => []TypeOK
<1>1. TypeInv /\ PlaceInv /\ AccountInv => TypeOK
  <2> SUFFICES ASSUME TypeInv, PlaceInv, AccountInv PROVE TypeOK
    OBVIOUS
  <2>1. /\ \A k \in Kinds : Packets(free[k])
        /\ \A v \in Vifs : Packets(conn_queue[v]) /\ Packets(re_queue[v])
        /\ Packets(txq) /\ Packets(batch)
    BY LocalFacts, ShortList DEF PlaceInv, QueuesDistinct
  <2>2. tx_pending \in 0 .. Cardinality(Cookies)
    <3>1. Outstanding \subseteq Cookies /\ IsFiniteSet(Outstanding) /\ tx_pending = Cardinality(Outstanding)
      BY OutIs DEF AccountInv, CountInv
    <3>2. Cardinality(Outstanding) <= Cardinality(Cookies) /\ Cardinality(Outstanding) \in Nat
      BY <3>1, ConstFacts, FS_Subset, FS_CardinalityType
    <3>3. Cardinality(Cookies) \in Nat
      BY ConstFacts, FS_CardinalityType
    <3> QED BY <3>1, <3>2, <3>3
  <2>3. data_cookie_count \in [Vifs -> 0 .. Cardinality(DataCookies)]
    <3>1. ASSUME NEW v \in Vifs PROVE data_cookie_count[v] \in 0 .. Cardinality(DataCookies)
      <4>1. DataOut(v) \subseteq DataCookies /\ IsFiniteSet(DataOut(v))
        BY ConstFacts, FS_Subset DEF DataOut
      <4>2. Cardinality(DataOut(v)) <= Cardinality(DataCookies) /\ Cardinality(DataOut(v)) \in Nat
        BY <4>1, ConstFacts, FS_Subset, FS_CardinalityType
      <4>3. Cardinality(DataCookies) \in Nat
        BY ConstFacts, FS_CardinalityType
      <4> QED BY <4>2, <4>3 DEF AccountInv, CountInv
    <3> QED BY <3>1, FlagsAre DEF FlagsOK
  <2>4. /\ pc \in [Contexts -> {"idle", "schedule", "send", "sched", "reap", "wake", "change", "changed",
                                "set", "netif", "connect", "switch", "stop", "cleanup", "roam"}]
        /\ hand \in [Vifs -> Cookies \cup {Nobody}] /\ todo \in [Contexts -> SUBSET Vifs]
        /\ target \in Vifs \cup {Nobody}
    BY DEF TypeInv, CtxOK, RxOK, SenderPCs, RxPCs, CplPCs
  <2>5. \A v \in Vifs : born[v] \in 0 .. MaxPkts /\ last[v] \in 0 .. born[v]
    <3>1. ASSUME NEW v \in Vifs PROVE born[v] \in 0 .. MaxPkts /\ last[v] \in 0 .. born[v]
      <4>1. born[v] \in 0 .. MaxPkts /\ last[v] \in 0 .. MaxPkts
        BY PktsAre DEF PktsOK
      <4>2. last[v] <= born[v]
        BY DEF AccountInv, PktInv
      <4> QED BY <4>1, <4>2
    <3> QED BY <3>1
  <2>6. /\ mcc \in BOOLEAN /\ skip \in BOOLEAN /\ cmd \in BOOLEAN
        /\ tx_on_vif \subseteq Vifs /\ connected \subseteq Vifs /\ carrier \subseteq Vifs
        /\ stopped \subseteq Vifs /\ raced \subseteq Vifs
        /\ ocs \in [Vifs -> BOOLEAN] /\ previous_can_send \in [Vifs -> BOOLEAN]
        /\ sche_tx_queued \in [Vifs -> Int] /\ pvif \in [Cookies -> Vifs \cup {Nobody}]
        /\ events \in 0 .. MaxEvents /\ connects \in 0 .. MaxConnects
    BY FlagsAre DEF FlagsOK
  <2>7. pkt \in [Cookies -> PktType] /\ hif \subseteq Cookies /\ lost \subseteq Cookies
    BY PktsAre, QueuesAre DEF PktsOK, QueuesOK
  <2> QED BY <2>1, <2>2, <2>3, <2>4, <2>5, <2>6, <2>7 DEF TypeOK
<1> QED BY <1>1, TypeInvAlways, PlaceInvAlways, AccountAlways, PTL

-----------------------------------------------------------------------------
(* Packets of a connection that is on channel do not wait for nothing. *)

\* A connection's queue does not come to hold packets.
NotFilled(u) == ocs'[u] = ocs[u] /\ (Queued(u) = <<>> => Queued(u)' = <<>>)

LEMMA Filled ==
  ASSUME NoneStranded,
         \A u \in Vifs : \/ ocs'[u]
                         \/ Queued(u)' = <<>>
                         \/ RxComing(u)'
                         \/ NotFilled(u) /\ (RxComing(u) => RxComing(u)')
  PROVE  NoneStranded'
<1>1. ASSUME NEW u \in Vifs, ~ocs'[u], Queued(u)' # <<>> PROVE RxComing(u)'
  BY <1>1 DEF NoneStranded, NotFilled
<1> QED BY <1>1 DEF NoneStranded

\* Both queues of a connection are emptied.
LEMMA EmptiedQueues ==
  ASSUME TypeInv, NEW v \in Vifs,
         \/ UNCHANGED <<re_queue, conn_queue>>
         \/ re_queue' = [re_queue EXCEPT ![v] = <<>>] /\ conn_queue' = [conn_queue EXCEPT ![v] = <<>>]
  PROVE  \A u \in Vifs : Queued(u) = <<>> => Queued(u)' = <<>>
<1>1. CASE UNCHANGED <<re_queue, conn_queue>>
  BY <1>1 DEF Queued
<1>2. CASE re_queue' = [re_queue EXCEPT ![v] = <<>>] /\ conn_queue' = [conn_queue EXCEPT ![v] = <<>>]
  <2>1. /\ re_queue'[v] = <<>> /\ conn_queue'[v] = <<>>
        /\ \A u \in Vifs \ {v} : re_queue'[u] = re_queue[u] /\ conn_queue'[u] = conn_queue[u]
    BY <1>2, QueuesAre DEF QueuesOK
  <2>2. <<>> \o <<>> = <<>>
    OBVIOUS
  <2> QED BY <2>1, <2>2 DEF Queued
<1> QED BY <1>1, <1>2

LEMMA StrandedStep ==
  ASSUME TypeInv, NoneStranded, NEW v \in Vifs, NEW c \in Vifs \cup {"rx"},
         NEW tag \in {"data", "pri"}, Step(v, c, tag)
  PROVE  NoneStranded'
<1> USE DEF arVars, vifVars, flowVars, htcVars, locVars, histVars, TypeInv, CtxOK, Contexts
<1>1. CASE DataTx(v, tag)
  <2>1. UNCHANGED <<ocs, re_queue, conn_queue>>
    BY <1>1 DEF DataTx
  <2>2. \A u \in Vifs : NotFilled(u) /\ (RxComing(u) => RxComing(u)')
    BY <1>1, <2>1, ConstFacts DEF DataTx, NotFilled, Queued, RxComing, CtxOK, Goto
  <2> QED BY <2>2, Filled
<1>2. CASE CopyFail(v)
  <2>1. UNCHANGED <<ocs, re_queue, conn_queue>>
    BY <1>2 DEF CopyFail
  <2>2. \A u \in Vifs : NotFilled(u) /\ (RxComing(u) => RxComing(u)')
    BY <1>2, <2>1, ConstFacts DEF CopyFail, NotFilled, Queued, RxComing, CtxOK, Goto
  <2> QED BY <2>2, Filled
<1>3. CASE SchedulePkt(v)
  <2>1. UNCHANGED <<ocs, cont>> /\ pc["rx"] = pc'["rx"] /\ todo["rx"] = todo'["rx"]
    <3>1. /\ UNCHANGED <<ocs, cont>> /\ \E l : pc' = [pc EXCEPT ![v] = l]
          /\ (UNCHANGED todo \/ \E l : todo' = [todo EXCEPT ![v] = l])
      BY <1>3 DEF SchedulePkt, Goto
    <3> QED BY <3>1, ConstFacts DEF TypeInv, CtxOK
  <2>2. \A u \in Vifs : RxComing(u) => RxComing(u)'
    BY <2>1 DEF RxComing
  <2>3. \/ UNCHANGED <<re_queue, conn_queue>>
        \/ /\ \A u \in Vifs \ {v} : re_queue'[u] = re_queue[u] /\ conn_queue'[u] = conn_queue[u]
           /\ ocs[v] \/ Queued(v) # <<>>
    BY <1>3, QueuesAre DEF SchedulePkt, Enqueue, CanSend, QueuesOK
  <2>4. \A u \in Vifs : ocs'[u] \/ NotFilled(u)
    BY <2>1, <2>3 DEF NotFilled, Queued
  <2> QED BY <2>2, <2>4, Filled
<1>4. CASE SendPkt(v)
  <2>1. UNCHANGED <<ocs, re_queue, conn_queue>>
    BY <1>4 DEF SendPkt
  <2>2. \A u \in Vifs : NotFilled(u) /\ (RxComing(u) => RxComing(u)')
    BY <1>4, <2>1, ConstFacts DEF SendPkt, NotFilled, Queued, RxComing, CtxOK, Goto
  <2> QED BY <2>2, Filled
<1>5. CASE TxSchedule(c, v)
  <2>1. UNCHANGED ocs /\ pc[c] = "sched" /\ v \in todo[c]
    BY <1>5 DEF TxSchedule
  <2>2. \/ ocs[v] /\ UNCHANGED <<re_queue, conn_queue>>
        \/ re_queue' = [re_queue EXCEPT ![v] = <<>>] /\ conn_queue' = [conn_queue EXCEPT ![v] = <<>>]
    BY <1>5 DEF TxSchedule, CanSend
  <2>3. \A u \in Vifs : NotFilled(u)
    BY <2>1, <2>2, EmptiedQueues DEF NotFilled
  <2>4. ocs'[v] \/ Queued(v)' = <<>>
    <3>1. re_queue \in [Vifs -> Seq(Cookies)] /\ conn_queue \in [Vifs -> Seq(Cookies)] /\ <<>> \o <<>> = <<>>
      BY QueuesAre DEF QueuesOK
    <3> QED BY <2>1, <2>2, <3>1 DEF Queued
  <2>5. ASSUME NEW u \in Vifs, u # v, RxComing(u) PROVE RxComing(u)'
    <3>1. /\ todo' = [todo EXCEPT ![c] = @ \ {v}] /\ UNCHANGED cont
          /\ pc' = [pc EXCEPT ![c] = IF todo[c] = {v} THEN "idle" ELSE pc[c]]
      BY <1>5 DEF TxSchedule, Visited, Goto
    <3>2. pc \in [Contexts -> SenderPCs \cup RxPCs \cup CplPCs] /\ todo \in [Contexts -> SUBSET Vifs] /\ c \in Contexts
      BY DEF TypeInv, CtxOK, Contexts
    <3>3. CASE c # "rx"
      <4>1. pc'["rx"] = pc["rx"] /\ todo'["rx"] = todo["rx"]
        BY <3>1, <3>2, <3>3
      <4> QED BY <2>5, <3>1, <4>1 DEF RxComing
    <3>4. CASE c = "rx"
      <4>1. pc["rx"] = "sched" /\ u \in todo["rx"]
        BY <2>1, <2>5, <3>4 DEF RxComing
      <4>2. pc'["rx"] = "sched" /\ u \in todo'["rx"]
        BY <2>5, <3>1, <3>2, <3>4, <4>1
      <4> QED BY <4>2 DEF RxComing
    <3> QED BY <3>3, <3>4
  <2> QED BY <2>3, <2>4, <2>5, Filled
<1>6. CASE ConnectEvent(v)
  <2>1. UNCHANGED ocs /\ pc["rx"] \in {"idle", "cleanup"}
    BY <1>6 DEF ConnectEvent
  <2>2. \/ UNCHANGED <<re_queue, conn_queue>>
        \/ re_queue' = [re_queue EXCEPT ![v] = <<>>] /\ conn_queue' = [conn_queue EXCEPT ![v] = <<>>]
    BY <1>6 DEF ConnectEvent
  <2>3. \A u \in Vifs : NotFilled(u)
    BY <2>1, <2>2, EmptiedQueues DEF NotFilled
  <2>4. \A u \in Vifs : ~RxComing(u)
    BY <2>1 DEF RxComing
  <2> QED BY <2>3, <2>4, Filled
<1>7. CASE DisconnectEvent(v)
  <2>1. UNCHANGED <<ocs, re_queue, conn_queue>>
    BY <1>7 DEF DisconnectEvent
  <2>2. \A u \in Vifs : NotFilled(u) /\ (RxComing(u) => RxComing(u)')
    BY <1>7, <2>1, ConstFacts DEF DisconnectEvent, NotFilled, Queued, RxComing, CtxOK, Goto
  <2> QED BY <2>2, Filled
<1>8. CASE FlowctrlEvent
  <2>1. \A u \in Vifs : RxComing(u)'
    BY <1>8 DEF FlowctrlEvent, RxComing, TypeInv, CtxOK, Contexts, Goto
  <2> QED BY <2>1, Filled
<1>9. CASE RxComplete
  <2>1. UNCHANGED <<ocs, re_queue, conn_queue>> /\ pc["rx"] = "reap"
    BY <1>9 DEF RxComplete
  <2>2. /\ pc' = [pc EXCEPT !["rx"] = cont]
        /\ todo' = [todo EXCEPT !["rx"] = IF cont = "sched" THEN Vifs ELSE {}]
    BY <1>9 DEF RxComplete, Goto
  <2>3. ASSUME NEW u \in Vifs, RxComing(u) PROVE RxComing(u)'
    <3>1. cont = "sched"
      BY <2>1, <2>3 DEF RxComing
    <3> QED BY <2>2, <3>1 DEF RxComing, TypeInv, CtxOK, Contexts
  <2>4. \A u \in Vifs : NotFilled(u)
    BY <2>1 DEF NotFilled, Queued
  <2> QED BY <2>3, <2>4, Filled
<1>10. CASE StateChange(v)
  <2>1. pc'["rx"] \in {"change", "changed"}
    BY <1>10, StateChangeIs DEF TypeInv, CtxOK, Contexts
  <2>2. \A u \in Vifs : RxComing(u)'
    BY <2>1 DEF RxComing
  <2> QED BY <2>2, Filled
<1>11. CASE StateChanged
  <2>1. UNCHANGED <<ocs, re_queue, conn_queue>>
    BY <1>11 DEF StateChanged, Complete
  <2>2. \A u \in Vifs : NotFilled(u) /\ (RxComing(u) => RxComing(u)')
    BY <1>11, <2>1, ConstFacts DEF StateChanged, Complete, NotFilled, Queued, RxComing, CtxOK, Goto
  <2> QED BY <2>2, Filled
<1>12. CASE SetConnId
  <2>1. UNCHANGED <<ocs, re_queue, conn_queue>>
    BY <1>12 DEF SetConnId
  <2>2. \A u \in Vifs : NotFilled(u) /\ (RxComing(u) => RxComing(u)')
    BY <1>12, <2>1, ConstFacts DEF SetConnId, NotFilled, Queued, RxComing, CtxOK, Goto
  <2> QED BY <2>2, Filled
<1>13. CASE ConnectWake
  <2>1. UNCHANGED <<ocs, re_queue, conn_queue>>
    BY <1>13 DEF ConnectWake
  <2>2. \A u \in Vifs : NotFilled(u) /\ (RxComing(u) => RxComing(u)')
    BY <1>13, <2>1, ConstFacts DEF ConnectWake, NotFilled, Queued, RxComing, CtxOK, Goto
  <2> QED BY <2>2, Filled
<1>14. CASE Connect
  <2>1. UNCHANGED <<ocs, re_queue, conn_queue>>
    BY <1>14 DEF Connect
  <2>2. \A u \in Vifs : NotFilled(u) /\ (RxComing(u) => RxComing(u)')
    BY <1>14, <2>1, ConstFacts DEF Connect, NotFilled, Queued, RxComing, CtxOK, Goto
  <2> QED BY <2>2, Filled
<1>15. CASE Switch
  <2>1. UNCHANGED <<ocs, re_queue, conn_queue>>
    BY <1>15 DEF Switch
  <2>2. \A u \in Vifs : NotFilled(u) /\ (RxComing(u) => RxComing(u)')
    BY <1>15, <2>1, ConstFacts DEF Switch, NotFilled, Queued, RxComing, CtxOK, Goto
  <2> QED BY <2>2, Filled
<1>16. CASE FlushEp
  <2>1. UNCHANGED <<ocs, re_queue, conn_queue>>
    BY <1>16 DEF FlushEp
  <2>2. \A u \in Vifs : NotFilled(u) /\ (RxComing(u) => RxComing(u)')
    BY <1>16, <2>1, ConstFacts DEF FlushEp, Complete, NotFilled, Queued, RxComing, CtxOK, Goto
  <2> QED BY <2>2, Filled
<1>17. CASE CleanupByIf
  <2>1. UNCHANGED ocs /\ pc["rx"] \in {"idle", "cleanup"} /\ target \in Vifs
    BY <1>17, LocalFacts DEF CleanupByIf
  <2>2. \/ UNCHANGED <<re_queue, conn_queue>>
        \/ re_queue' = [re_queue EXCEPT ![target] = <<>>] /\ conn_queue' = [conn_queue EXCEPT ![target] = <<>>]
    BY <1>17 DEF CleanupByIf
  <2>3. \A u \in Vifs : NotFilled(u)
    BY <2>1, <2>2, EmptiedQueues DEF NotFilled
  <2>4. \A u \in Vifs : ~RxComing(u)
    BY <2>1 DEF RxComing
  <2> QED BY <2>3, <2>4, Filled
<1>18. CASE HifDone
  <2>1. UNCHANGED <<ocs, re_queue, conn_queue>>
    BY <1>18 DEF HifDone
  <2>2. \A u \in Vifs : NotFilled(u) /\ (RxComing(u) => RxComing(u)')
    BY <1>18, <2>1, ConstFacts DEF HifDone, NotFilled, Queued, RxComing, CtxOK, Goto
  <2> QED BY <2>2, Filled
<1>19. CASE HifDoneWake
  <2>1. UNCHANGED <<ocs, re_queue, conn_queue>>
    BY <1>19 DEF HifDoneWake
  <2>2. \A u \in Vifs : NotFilled(u) /\ (RxComing(u) => RxComing(u)')
    BY <1>19, <2>1, ConstFacts DEF HifDoneWake, NotFilled, Queued, RxComing, CtxOK, Goto
  <2> QED BY <2>2, Filled
<1>20. CASE CmdDone
  <2>1. UNCHANGED <<ocs, re_queue, conn_queue>>
    BY <1>20 DEF CmdDone
  <2>2. \A u \in Vifs : NotFilled(u) /\ (RxComing(u) => RxComing(u)')
    BY <1>20, <2>1, ConstFacts DEF CmdDone, NotFilled, Queued, RxComing, CtxOK, Goto
  <2> QED BY <2>2, Filled
<1>21. CASE HtcDrain
  <2>1. UNCHANGED <<ocs, re_queue, conn_queue>>
    BY <1>21 DEF HtcDrain
  <2>2. \A u \in Vifs : NotFilled(u) /\ (RxComing(u) => RxComing(u)')
    BY <1>21, <2>1, ConstFacts DEF HtcDrain, NotFilled, Queued, RxComing, CtxOK, Goto
  <2> QED BY <2>2, Filled
<1>22. CASE AssocFailed(v)
  <2>1. UNCHANGED <<ocs, re_queue, conn_queue>>
    BY <1>22 DEF AssocFailed
  <2>2. \A u \in Vifs : NotFilled(u) /\ (RxComing(u) => RxComing(u)')
    BY <1>22, <2>1, ConstFacts DEF AssocFailed, NotFilled, Queued, RxComing, CtxOK, Goto
  <2> QED BY <2>2, Filled
<1>23. CASE RoamSwitch
  <2>1. UNCHANGED <<ocs, re_queue, conn_queue>>
    BY <1>23 DEF RoamSwitch
  <2>2. \A u \in Vifs : NotFilled(u) /\ (RxComing(u) => RxComing(u)')
    BY <1>23, <2>1, ConstFacts DEF RoamSwitch, NotFilled, Queued, RxComing, CtxOK, Goto
  <2> QED BY <2>2, Filled
<1> QED
  BY <1>1, <1>2, <1>3, <1>4, <1>5, <1>6, <1>7, <1>8, <1>9, <1>10, <1>11, <1>12, <1>13, <1>14,
     <1>15, <1>16, <1>17, <1>18, <1>19, <1>20, <1>21, <1>22, <1>23 DEF Step

\* Packets of a connection that is on channel wait on its queues only while the
\* event worker is on its way to them: SchedulePkt puts no packet on an empty
\* queue of such a connection, and the worker, which alone says which
\* connection is on channel, visits every one of them after it has.
THEOREM NoneStrandedHolds == Spec => []NoneStranded
<1>1. Init => NoneStranded
  BY DEF Init, NoneStranded, Queued
<1>2. TypeInv /\ NoneStranded /\ [Next]_vars => NoneStranded'
  <2>1. ASSUME TypeInv, NoneStranded, Next PROVE NoneStranded'
    <3>1. PICK v \in Vifs, c \in Vifs \cup {"rx"}, tag \in {"data", "pri"} : Step(v, c, tag)
      BY <2>1, NextStep
    <3> QED BY <2>1, <3>1, StrandedStep
  <2>2. ASSUME NoneStranded, UNCHANGED vars PROVE NoneStranded'
    BY <2>2 DEF vars, flowVars, locVars, NoneStranded, Queued, RxComing
  <2> QED BY <2>1, <2>2
<1> QED BY <1>1, <1>2, TypeInvAlways, PTL DEF Spec

-----------------------------------------------------------------------------
(* The order of a connection's data packets, over all the lists they are on. *)

DataOf(v) == {c \in DataCookies : pkt[c].vif = v}
Num == [c \in Cookies |-> pkt[c].num]

\* The cookies in D have growing numbers along q, and from A to B.
Rising(q, D, n) == \A i, j \in DOMAIN q : i < j /\ q[i] \in D /\ q[j] \in D => n[q[i]] < n[q[j]]
Ahead(A, B, D, n) == \A a \in A \cap D, b \in B \cap D : n[a] < n[b]

\* Those with HTC, in t, come before those that wait in r, these before those
\* in q, these before the one in the sender's hand, h, and all after number l.
Ordered(t, r, q, h, l, D, n) ==
  /\ Rising(t, D, n) /\ Rising(r, D, n) /\ Rising(q, D, n)
  /\ Ahead(Range(t), Range(r) \cup Range(q) \cup {h}, D, n)
  /\ Ahead(Range(r), Range(q) \cup {h}, D, n)
  /\ Ahead(Range(q), {h}, D, n)
  /\ \A c \in (Range(t) \cup Range(r) \cup Range(q) \cup {h}) \cap D : l < n[c]

\* A decision to send is still right when the packet is sent, and what comes
\* back from HTC is put behind control packets only.
SendStillRight(v) == pc[v] = "send" => Queued(v) = <<>>

NoneBackYet(v) ==
  pc["rx"] = "change" /\ v \in todo["rx"] /\ previous_can_send[v]
    => Range(re_queue[v]) \cap DataOf(v) = {}

OrderOf(v) ==
  /\ Ordered(txq, re_queue[v], conn_queue[v], hand[v], last[v], DataOf(v), Num)
  /\ SendStillRight(v) /\ NoneBackYet(v)

OrderInv == \A v \in Vifs : v \in raced \/ OrderOf(v)

LEMMA RisingConcat ==
  ASSUME NEW S, NEW q \in Seq(S), NEW r \in Seq(S), NEW D, NEW n,
         Rising(q, D, n), Rising(r, D, n), Ahead(Range(q), Range(r), D, n)
  PROVE  Rising(q \o r, D, n)
<1> DEFINE w == q \o r
<1>1. /\ Len(q) \in Nat /\ Len(r) \in Nat /\ DOMAIN q = 1 .. Len(q) /\ DOMAIN r = 1 .. Len(r)
      /\ DOMAIN w = 1 .. Len(q) + Len(r)
      /\ \A i \in 1 .. Len(q) + Len(r) : w[i] = IF i <= Len(q) THEN q[i] ELSE r[i - Len(q)]
  OBVIOUS
<1> HIDE DEF w
<1>2. ASSUME NEW i \in DOMAIN w, NEW j \in DOMAIN w, i < j, w[i] \in D, w[j] \in D
      PROVE  n[w[i]] < n[w[j]]
  <2>1. CASE j <= Len(q)
    <3>1. i \in DOMAIN q /\ j \in DOMAIN q /\ w[i] = q[i] /\ w[j] = q[j]
      BY <1>1, <1>2, <2>1
    <3> QED BY <1>2, <3>1 DEF Rising
  <2>2. CASE i > Len(q)
    <3>1. /\ i - Len(q) \in DOMAIN r /\ j - Len(q) \in DOMAIN r /\ i - Len(q) < j - Len(q)
          /\ w[i] = r[i - Len(q)] /\ w[j] = r[j - Len(q)]
      BY <1>1, <1>2, <2>2
    <3> QED BY <1>2, <3>1 DEF Rising
  <2>3. CASE i <= Len(q) /\ j > Len(q)
    <3>1. /\ i \in DOMAIN q /\ j - Len(q) \in DOMAIN r
          /\ w[i] = q[i] /\ w[j] = r[j - Len(q)]
      BY <1>1, <1>2, <2>3
    <3>2. w[i] \in Range(q) /\ w[j] \in Range(r)
      BY <3>1 DEF Range
    <3> QED BY <1>2, <3>2 DEF Ahead
  <2>4. i \in Int /\ j \in Int /\ Len(q) \in Int
    BY <1>1, <1>2
  <2> QED BY <1>2, <2>1, <2>2, <2>3, <2>4
<1>3. Rising(w, D, n)
  BY <1>2 DEF Rising
<1> QED BY <1>3 DEF w

LEMMA RisingKeep ==
  ASSUME NEW S, NEW q \in Seq(S), NEW I \in SUBSET DOMAIN q, NEW D, NEW n, Rising(q, D, n)
  PROVE  Rising(Keep(q, I), D, n)
<1> DEFINE N == Cardinality(I)
<1>1. PICK p \in [1 .. N -> I] :
        /\ Keep(q, I) = [k \in 1 .. N |-> q[p[k]]]
        /\ \A g, h \in 1 .. N : g < h => p[g] < p[h]
  BY KeepPositions
<1> HIDE DEF N
<1>2. ASSUME NEW g \in 1 .. N, NEW h \in 1 .. N, g < h, q[p[g]] \in D, q[p[h]] \in D
      PROVE  n[q[p[g]]] < n[q[p[h]]]
  <2>1. p[g] \in DOMAIN q /\ p[h] \in DOMAIN q /\ p[g] < p[h]
    BY <1>1, <1>2
  <2> QED BY <1>2, <2>1 DEF Rising
<1> QED BY <1>1, <1>2 DEF Rising

LEMMA RisingTail ==
  ASSUME NEW S, NEW q \in Seq(S), q # <<>>, NEW D, NEW n, Rising(q, D, n)
  PROVE  /\ Rising(Tail(q), D, n) /\ Ahead({Head(q)}, Range(Tail(q)), D, n)
         /\ Range(q) = {Head(q)} \cup Range(Tail(q))
<1> DEFINE r == Tail(q)
<1>1. /\ Len(q) \in Nat /\ Len(q) > 0 /\ DOMAIN q = 1 .. Len(q) /\ DOMAIN r = 1 .. Len(q) - 1
      /\ Head(q) = q[1] /\ \A i \in 1 .. Len(q) - 1 : r[i] = q[i + 1]
  OBVIOUS
<1> HIDE DEF r
<1>2. \A i \in DOMAIN r : i + 1 \in DOMAIN q /\ r[i] = q[i + 1] /\ 1 < i + 1
  BY <1>1
<1>3. ASSUME NEW i \in DOMAIN r, NEW j \in DOMAIN r, i < j, r[i] \in D, r[j] \in D
      PROVE  n[r[i]] < n[r[j]]
  <2>1. i + 1 \in DOMAIN q /\ j + 1 \in DOMAIN q /\ i + 1 < j + 1
    BY <1>1, <1>2, <1>3
  <2> QED BY <1>2, <1>3, <2>1 DEF Rising
<1>4. Rising(r, D, n)
  BY <1>3 DEF Rising
<1>5. Ahead({Head(q)}, Range(r), D, n)
  <2>1. ASSUME NEW j \in DOMAIN r, Head(q) \in D, r[j] \in D PROVE n[Head(q)] < n[r[j]]
    <3>1. 1 \in DOMAIN q /\ j + 1 \in DOMAIN q /\ 1 < j + 1 /\ q[1] = Head(q) /\ q[j + 1] = r[j]
      BY <1>1, <1>2
    <3> QED BY <2>1, <3>1 DEF Rising
  <2> QED BY <2>1 DEF Ahead, Range
<1>6. Range(q) \subseteq {Head(q)} \cup Range(r)
  <2>1. ASSUME NEW i \in DOMAIN q PROVE q[i] \in {Head(q)} \cup Range(r)
    <3>1. CASE i = 1
      BY <1>1, <3>1
    <3>2. CASE i # 1
      <4>1. i - 1 \in DOMAIN r /\ r[i - 1] = q[i]
        BY <1>1, <1>2, <3>2
      <4> QED BY <4>1 DEF Range
    <3> QED BY <3>1, <3>2
  <2> QED BY <2>1 DEF Range
<1>7. {Head(q)} \cup Range(r) \subseteq Range(q)
  BY <1>1, <1>2 DEF Range
<1> QED BY <1>4, <1>5, <1>6, <1>7 DEF r

LEMMA RisingNone ==
  ASSUME NEW q, NEW D, NEW n, Range(q) \cap D = {}
  PROVE  Rising(q, D, n)
BY DEF Rising, Range

LEMMA RisingOne ==
  ASSUME NEW S, NEW x \in S, NEW D, NEW n
  PROVE  Rising(<<x>>, D, n)
<1>1. DOMAIN <<x>> = {1}
  OBVIOUS
<1>2. ~(1 < 1)
  OBVIOUS
<1> QED BY <1>1, <1>2 DEF Rising

LEMMA NoCookie == Range(<<>>) = {} /\ \A D, n : Rising(<<>>, D, n)
BY DEF Range, Rising

\* What happens to the order when the lists of a connection change.
OrderArgs(t, r, q, h, l, D, n) ==
  /\ t \in Seq(Cookies) /\ r \in Seq(Cookies) /\ q \in Seq(Cookies)
  /\ h \in Cookies \cup {Nobody} /\ l \in Int /\ D \subseteq Cookies /\ n \in [Cookies -> Int]

LEMMA OrderedAgree ==
  ASSUME NEW t, NEW r, NEW q, NEW h, NEW l, NEW D, NEW n, NEW E, NEW m,
         Ordered(t, r, q, h, l, D, n),
         \A c \in Range(t) \cup Range(r) \cup Range(q) \cup {h} :
           (c \in D <=> c \in E) /\ (c \in D => n[c] = m[c])
  PROVE  Ordered(t, r, q, h, l, E, m)
<1>1. \A c \in Range(t) \cup Range(r) \cup Range(q) \cup {h} : c \in E => c \in D /\ n[c] = m[c]
  OBVIOUS
<1>2. Rising(t, E, m)
  BY <1>1 DEF Ordered, Rising, Range
<1>3. Rising(r, E, m)
  BY <1>1 DEF Ordered, Rising, Range
<1>4. Rising(q, E, m)
  BY <1>1 DEF Ordered, Rising, Range
<1>5. /\ Ahead(Range(t), Range(r) \cup Range(q) \cup {h}, E, m)
      /\ Ahead(Range(r), Range(q) \cup {h}, E, m) /\ Ahead(Range(q), {h}, E, m)
  BY <1>1 DEF Ordered, Ahead
<1>6. \A c \in (Range(t) \cup Range(r) \cup Range(q) \cup {h}) \cap E : l < m[c]
  BY <1>1 DEF Ordered
<1> QED BY <1>2, <1>3, <1>4, <1>5, <1>6 DEF Ordered

\* Some of a list is left.
LEMMA OrderedSub ==
  ASSUME NEW t, NEW r, NEW q, NEW h, NEW l, NEW D, NEW n, Ordered(t, r, q, h, l, D, n),
         NEW u, NEW w, NEW x, NEW g,
         Rising(u, D, n), Rising(w, D, n), Rising(x, D, n),
         Range(u) \subseteq Range(t), Range(w) \subseteq Range(r), Range(x) \subseteq Range(q),
         g = h \/ g \notin D
  PROVE  Ordered(u, w, x, g, l, D, n)
<1>1. /\ Ahead(Range(u), Range(w) \cup Range(x) \cup {g}, D, n)
      /\ Ahead(Range(w), Range(x) \cup {g}, D, n) /\ Ahead(Range(x), {g}, D, n)
  BY DEF Ordered, Ahead
<1>2. \A c \in (Range(u) \cup Range(w) \cup Range(x) \cup {g}) \cap D : l < n[c]
  BY DEF Ordered
<1> QED BY <1>1, <1>2 DEF Ordered

\* Packets of others, or control packets, join a list.
LEMMA OrderedOthers ==
  ASSUME NEW t, NEW r, NEW q, NEW h, NEW l, NEW D, NEW n, Ordered(t, r, q, h, l, D, n),
         OrderArgs(t, r, q, h, l, D, n), NEW w \in Seq(Cookies), Range(w) \cap D = {}
  PROVE  /\ Ordered(t \o w, r, q, h, l, D, n) /\ Ordered(t, w \o r, q, h, l, D, n)
<1>1. Rising(w, D, n)
  BY RisingNone
<1>2. Rising(t \o w, D, n) /\ Range(t \o w) = Range(t) \cup Range(w)
  BY <1>1, RisingConcat, RangeConcat DEF Ordered, Ahead, OrderArgs
<1>3. Rising(w \o r, D, n) /\ Range(w \o r) = Range(w) \cup Range(r)
  BY <1>1, RisingConcat, RangeConcat DEF Ordered, Ahead, OrderArgs
<1> DEFINE a == t \o w
           b == w \o r
<1> HIDE DEF a, b
<1>4. Rising(a, D, n) /\ Range(a) = Range(t) \cup Range(w) /\ Rising(b, D, n) /\ Range(b) = Range(w) \cup Range(r)
  BY <1>2, <1>3 DEF a, b
<1>5. Ordered(a, r, q, h, l, D, n)
  BY <1>4 DEF Ordered, Ahead
<1>6. Ordered(t, b, q, h, l, D, n)
  BY <1>4 DEF Ordered, Ahead
<1> QED BY <1>5, <1>6 DEF a, b

\* The first packet with HTC leaves.
LEMMA OrderedDrain ==
  ASSUME NEW t, NEW r, NEW q, NEW h, NEW l, NEW D, NEW n, Ordered(t, r, q, h, l, D, n),
         OrderArgs(t, r, q, h, l, D, n), t # <<>>
  PROVE  /\ Head(t) \in D => l < n[Head(t)] /\ Ordered(Tail(t), r, q, h, n[Head(t)], D, n)
         /\ Ordered(Tail(t), r, q, h, l, D, n)
<1> DEFINE x == Head(t)
           u == Tail(t)
<1>1. Rising(u, D, n) /\ Ahead({x}, Range(u), D, n) /\ Range(t) = {x} \cup Range(u)
  BY RisingTail DEF Ordered, OrderArgs
<1> HIDE DEF x, u
<1>0. /\ Rising(r, D, n) /\ Rising(q, D, n)
      /\ Range(u) \subseteq Range(t) /\ Range(r) \subseteq Range(r) /\ Range(q) \subseteq Range(q)
  BY <1>1 DEF Ordered
<1>2. Ordered(u, r, q, h, l, D, n)
  BY <1>0, <1>1, OrderedSub
<1>3. ASSUME x \in D PROVE l < n[x] /\ Ordered(u, r, q, h, n[x], D, n)
  <2>1. l < n[x]
    BY <1>1, <1>3 DEF Ordered
  <2>2. \A c \in (Range(u) \cup Range(r) \cup Range(q) \cup {h}) \cap D : n[x] < n[c]
    BY <1>1, <1>3 DEF Ordered, Ahead
  <2> QED BY <1>2, <2>1, <2>2 DEF Ordered
<1> QED BY <1>2, <1>3 DEF x, u

\* The packet in hand is sent, none is waiting.
LEMMA OrderedSent ==
  ASSUME NEW t, NEW h, NEW l, NEW D, NEW n, Ordered(t, <<>>, <<>>, h, l, D, n),
         OrderArgs(t, <<>>, <<>>, h, l, D, n), h \in Cookies, Nobody \notin D
  PROVE  Ordered(t \o <<h>>, <<>>, <<>>, Nobody, l, D, n)
<1> DEFINE w == <<h>>
<1>1. w \in Seq(Cookies) /\ Range(w) = {h} /\ Rising(w, D, n)
  BY Single, RisingOne
<1> HIDE DEF w
<1>2. Rising(t \o w, D, n) /\ Range(t \o w) = Range(t) \cup {h}
  BY <1>1, RisingConcat, RangeConcat DEF Ordered, Ahead, OrderArgs
<1> DEFINE a == t \o w
<1> HIDE DEF a
<1>3. Rising(a, D, n) /\ Range(a) = Range(t) \cup {h}
  BY <1>2 DEF a
<1>4. Ordered(a, <<>>, <<>>, Nobody, l, D, n)
  BY <1>3, NoCookie DEF Ordered, Ahead
<1> QED BY <1>4 DEF a, w

\* The packet in hand is put last on the queue.
LEMMA OrderedQueued ==
  ASSUME NEW t, NEW r, NEW q, NEW h, NEW l, NEW D, NEW n, Ordered(t, r, q, h, l, D, n),
         OrderArgs(t, r, q, h, l, D, n), h \in Cookies, Nobody \notin D
  PROVE  Ordered(t, r, Append(q, h), Nobody, l, D, n)
<1> DEFINE w == <<h>>
<1>0. q \in Seq(Cookies)
  BY DEF OrderArgs
<1>a. Append(q, h) = q \o w
  BY <1>0
<1>b. w \in Seq(Cookies) /\ Range(w) = {h}
  BY Single
<1>c. Rising(w, D, n)
  BY RisingOne
<1>1. w \in Seq(Cookies) /\ Range(w) = {h} /\ Rising(w, D, n) /\ Append(q, h) = q \o w
  BY <1>a, <1>b, <1>c
<1> HIDE DEF w
<1>2. Rising(q \o w, D, n) /\ Range(q \o w) = Range(q) \cup {h}
  BY <1>1, RisingConcat, RangeConcat DEF Ordered, Ahead, OrderArgs
<1> DEFINE a == Append(q, h)
<1>3. Rising(a, D, n) /\ Range(a) = Range(q) \cup {h}
  BY <1>1, <1>2
<1> HIDE DEF a
<1>4. Ordered(t, r, a, Nobody, l, D, n)
  BY <1>3 DEF Ordered, Ahead
<1> QED BY <1>4 DEF a

\* The waiting packets go to HTC.
LEMMA OrderedScheduled ==
  ASSUME NEW t, NEW r, NEW q, NEW h, NEW l, NEW D, NEW n, Ordered(t, r, q, h, l, D, n),
         OrderArgs(t, r, q, h, l, D, n)
  PROVE  Ordered(t \o (r \o q), <<>>, <<>>, h, l, D, n)
<1> DEFINE w == r \o q
<1>1. w \in Seq(Cookies) /\ Rising(w, D, n) /\ Range(w) = Range(r) \cup Range(q)
  BY RisingConcat, RangeConcat DEF Ordered, Ahead, OrderArgs
<1> HIDE DEF w
<1>0. t \in Seq(Cookies) /\ Rising(t, D, n) /\ Ahead(Range(t), Range(w), D, n)
  BY <1>1 DEF Ordered, Ahead, OrderArgs
<1>a. Rising(t \o w, D, n)
  BY <1>0, <1>1, RisingConcat
<1>b. Range(t \o w) = Range(t) \cup Range(w)
  BY <1>0, <1>1, RangeConcat
<1>2. Rising(t \o w, D, n) /\ Range(t \o w) = Range(t) \cup Range(w)
  BY <1>a, <1>b
<1> DEFINE a == t \o w
<1> HIDE DEF a
<1>3. Rising(a, D, n) /\ Range(a) = Range(t) \cup Range(r) \cup Range(q)
  BY <1>1, <1>2 DEF a
<1>4. Ordered(a, <<>>, <<>>, h, l, D, n)
  BY <1>3, NoCookie DEF Ordered, Ahead
<1> QED BY <1>4 DEF a, w

\* HTC's packets come back behind control packets.
LEMMA OrderedBack ==
  ASSUME NEW t, NEW r, NEW q, NEW h, NEW l, NEW D, NEW n, Ordered(t, r, q, h, l, D, n),
         OrderArgs(t, r, q, h, l, D, n), Range(r) \cap D = {},
         NEW I \in SUBSET DOMAIN t, NEW K \in SUBSET DOMAIN t, Range(Keep(t, I)) \cap D = {}
  PROVE  Ordered(Keep(t, I), r \o Keep(t, K), q, h, l, D, n)
<1> DEFINE u == Keep(t, I)
           w == Keep(t, K)
<1>0. t \in Seq(Cookies) /\ Rising(t, D, n)
  BY DEF Ordered, OrderArgs
<1>1. u \in Seq(Cookies) /\ Rising(u, D, n) /\ Range(u) \subseteq Range(t)
  <2>2. Rising(u, D, n)
    BY <1>0, RisingKeep
  <2>3. u \in Seq(Cookies) /\ Range(u) = {t[i] : i \in I}
    BY <1>0, KeepSplit
  <2>1. u \in Seq(Cookies) /\ Rising(u, D, n) /\ Range(u) = {t[i] : i \in I}
    BY <2>2, <2>3
  <2> QED BY <2>1 DEF Range
<1>2. w \in Seq(Cookies) /\ Rising(w, D, n) /\ Range(w) \subseteq Range(t)
  <2>2. Rising(w, D, n)
    BY <1>0, RisingKeep
  <2>3. w \in Seq(Cookies) /\ Range(w) = {t[i] : i \in K}
    BY <1>0, KeepSplit
  <2>1. w \in Seq(Cookies) /\ Rising(w, D, n) /\ Range(w) = {t[i] : i \in K}
    BY <2>2, <2>3
  <2> QED BY <2>1 DEF Range
<1>3. Range(u) \cap D = {}
  OBVIOUS
<1> HIDE DEF u, w
<1>4. Rising(r \o w, D, n) /\ Range(r \o w) = Range(r) \cup Range(w)
  BY <1>2, RisingConcat, RangeConcat DEF Ordered, Ahead, OrderArgs
<1> DEFINE a == r \o w
<1> HIDE DEF a
<1>5. Rising(a, D, n) /\ Range(a) = Range(r) \cup Range(w)
  BY <1>4 DEF a
<1>6. /\ Ahead(Range(u), Range(a) \cup Range(q) \cup {h}, D, n)
      /\ Ahead(Range(a), Range(q) \cup {h}, D, n) /\ Ahead(Range(q), {h}, D, n)
  BY <1>2, <1>3, <1>5 DEF Ordered, Ahead
<1>7. \A c \in (Range(u) \cup Range(a) \cup Range(q) \cup {h}) \cap D : l < n[c]
  BY <1>1, <1>2, <1>5 DEF Ordered
<1>8. Ordered(u, a, q, h, l, D, n)
  BY <1>1, <1>5, <1>6, <1>7 DEF Ordered
<1> QED BY <1>8 DEF a, u, w

\* The network stack hands over the next packet.
LEMMA OrderedTaken ==
  ASSUME NEW t, NEW r, NEW q, NEW l, NEW D, NEW n, Ordered(t, r, q, Nobody, l, D, n),
         NEW x, NEW E, NEW m, NEW b,
         \A c \in Range(t) \cup Range(r) \cup Range(q) :
           (c \in D <=> c \in E) /\ (c \in D => n[c] = m[c] /\ n[c] < b),
         x \in E => m[x] = b, l < b
  PROVE  Ordered(t, r, q, x, l, E, m)
<1>1. \A c \in Range(t) \cup Range(r) \cup Range(q) : c \in E => c \in D /\ n[c] = m[c] /\ m[c] < b
  OBVIOUS
<1>2. Rising(t, E, m)
  BY <1>1 DEF Ordered, Rising, Range
<1>3. Rising(r, E, m)
  BY <1>1 DEF Ordered, Rising, Range
<1>4. Rising(q, E, m)
  BY <1>1 DEF Ordered, Rising, Range
<1>5. /\ Ahead(Range(t), Range(r) \cup Range(q) \cup {x}, E, m)
      /\ Ahead(Range(r), Range(q) \cup {x}, E, m) /\ Ahead(Range(q), {x}, E, m)
  BY <1>1 DEF Ordered, Ahead
<1>6. \A c \in (Range(t) \cup Range(r) \cup Range(q) \cup {x}) \cap E : l < m[c]
  BY <1>1 DEF Ordered
<1> QED BY <1>2, <1>3, <1>4, <1>5, <1>6 DEF Ordered

-----------------------------------------------------------------------------
(* How a step moves the packets of a connection. *)

Line(u) == Ordered(txq, re_queue[u], conn_queue[u], hand[u], last[u], DataOf(u), Num)

LEMMA SameData ==
  ASSUME SamePkts
  PROVE  Num' = Num /\ \A u : DataOf(u)' = DataOf(u)
<1>1. DataCookies \subseteq Cookies
  BY ConstFacts
<1> QED BY <1>1 DEF SamePkts, DataOf, Num

LEMMA LineNext ==
  ASSUME NEW u, SamePkts,
         Ordered(txq', re_queue'[u], conn_queue'[u], hand'[u], last'[u], DataOf(u), Num)
  PROVE  Line(u)'
<1>1. Num' = Num /\ DataOf(u)' = DataOf(u)
  BY SameData
<1> QED BY <1>1 DEF Line

LEMMA LineSame ==
  ASSUME NEW u, Line(u), UNCHANGED <<txq, re_queue, conn_queue, hand, last, pkt>>
  PROVE  Line(u)'
BY DEF Line, DataOf, Num

LEMMA LineArgs ==
  ASSUME TypeInv, NEW u \in Vifs
  PROVE  /\ OrderArgs(txq, re_queue[u], conn_queue[u], hand[u], last[u], DataOf(u), Num)
         /\ Nobody \notin DataOf(u)
<1>1. DataOf(u) \subseteq Cookies /\ Nobody \notin DataOf(u)
  BY ConstFacts DEF DataOf
<1>2. Num \in [Cookies -> Int]
  BY PktsAre DEF PktsOK, PktType, Num
<1>3. last[u] \in Int /\ hand[u] \in Cookies \cup {Nobody}
  BY PktsAre DEF PktsOK, TypeInv, CtxOK
<1> QED BY <1>1, <1>2, <1>3, LocalFacts DEF OrderArgs

\* The cookies of a connection's lists are out.
LEMMA LineOut ==
  ASSUME TypeInv, PlaceInv, NEW u \in Vifs
  PROVE  /\ Range(txq) \cup Range(re_queue[u]) \cup Range(conn_queue[u]) \subseteq Outstanding
         /\ hand[u] = Nobody \/ hand[u] \in Outstanding
BY OutIs

\* A new packet is in its sender's hand.
LEMMA LineTaken ==
  ASSUME TypeInv, PlaceInv, PktInv, NEW v \in Vifs, NEW tag \in {"data", "pri"}, DataTx(v, tag),
         NEW u \in Vifs, Line(u)
  PROVE  Line(u)'
<1>1. Taken(v, tag) /\ UNCHANGED <<txq, re_queue, conn_queue, last>> /\ hand[v] = Nobody
  BY Takes DEF Taken
<1>2. PICK x \in Cookies :
        /\ x \notin Outstanding
        /\ hand'[v] = x /\ \A w \in Vifs \ {v} : hand'[w] = hand[w]
        /\ pkt'[x] = [vif |-> v, tag |-> tag, recycle |-> 0, num |-> born[v] + 1]
        /\ \A c \in Cookies \ {x} : pkt'[c] = pkt[c]
  BY <1>1, TakenIs
<1> DEFINE D == DataOf(u)
           E == DataOf(u)'
           n == Num
           m == Num'
           Lists == Range(txq) \cup Range(re_queue[u]) \cup Range(conn_queue[u])
<1>3. \A c \in Cookies \ {x} : (c \in D <=> c \in E) /\ n[c] = m[c]
  BY <1>2 DEF DataOf, Num
<1>4. Lists \subseteq Outstanding /\ Outstanding \subseteq Cookies /\ (hand[u] = Nobody \/ hand[u] \in Outstanding)
  BY LineOut, OutIs
<1>5. Nobody \notin D /\ Nobody \notin E
  BY ConstFacts DEF DataOf
<1>6. Ordered(txq, re_queue[u], conn_queue[u], hand[u], last[u], D, n)
  BY DEF Line
<1>7. ASSUME Ordered(txq, re_queue[u], conn_queue[u], hand'[u], last[u], E, m) PROVE Line(u)'
  BY <1>1, <1>7 DEF Line
<1>8. ASSUME u = v PROVE \A c \in Lists : c \in D => n[c] < born[u] + 1
  <2>1. ASSUME NEW c \in Lists, c \in D PROVE n[c] < born[u] + 1
    <3>1. PktOut(c) /\ c \in Cookies /\ pkt[c].vif = u
      BY <1>4, <2>1 DEF PktInv, DataOf
    <3>2. n[c] <= born[u] /\ n[c] = pkt[c].num
      BY <3>1 DEF PktOut, Num
    <3>3. born[u] \in Nat /\ pkt[c].num \in Nat
      BY <3>1, PktsAre, ConstFacts DEF PktsOK, PktType
    <3> QED BY <3>2, <3>3
  <2> QED BY <2>1
<1>9. x \in E => m[x] = born[v] + 1
  BY <1>2 DEF Num
<1>10. last[u] < born[u] + 1
  <2>1. last[u] <= born[u]
    BY DEF PktInv
  <2>2. last[u] \in Nat /\ born[u] \in Nat
    BY PktsAre, ConstFacts DEF PktsOK
  <2> QED BY <2>1, <2>2
<1> HIDE DEF D, E, n, m
<1>11. CASE u # v
  <2>1. \A c \in Lists \cup {hand[u]} : (c \in D <=> c \in E) /\ (c \in D => n[c] = m[c])
    BY <1>2, <1>3, <1>4, <1>5
  <2>2. Ordered(txq, re_queue[u], conn_queue[u], hand[u], last[u], E, m)
    BY <1>6, <2>1, OrderedAgree
  <2> QED BY <1>2, <1>7, <1>11, <2>2
<1>12. CASE u = v
  <2>1. \A c \in Lists : (c \in D <=> c \in E) /\ (c \in D => n[c] = m[c] /\ n[c] < born[u] + 1)
    BY <1>2, <1>3, <1>4, <1>8, <1>12
  <2>2. Ordered(txq, re_queue[u], conn_queue[u], Nobody, last[u], D, n)
    BY <1>1, <1>6, <1>12
  <2>3. x \in E => m[x] = born[u] + 1
    BY <1>9, <1>12
  <2>4. Ordered(txq, re_queue[u], conn_queue[u], x, last[u], E, m)
    BY <1>10, <2>1, <2>2, <2>3, OrderedTaken
  <2> QED BY <1>2, <1>7, <1>12, <2>4
<1> QED BY <1>11, <1>12

\* Completions touch none of them.
LEMMA LineFinished ==
  ASSUME TypeInv, PlaceInv, RxComplete \/ HifDone, NEW u \in Vifs, Line(u)
  PROVE  Line(u)'
<1>1. UNCHANGED txq /\ \E cs : Finished(cs)
  BY Finishes
<1>2. PICK cs : Finished(cs)
  BY <1>1
<1>3. UNCHANGED <<txq, re_queue, conn_queue, hand, last>>
  BY <1>1, <1>2 DEF Finished
<1>4. /\ \A c \in Cookies \ Range(cs) : pkt'[c] = pkt[c]
      /\ Range(cs) \cap Range(re_queue[u]) = {} /\ Range(cs) \cap Range(conn_queue[u]) = {}
      /\ hand[u] \notin Range(cs) /\ Range(cs) \cap Range(txq) = {}
  BY <1>2, FinishedIs
<1> DEFINE D == DataOf(u)
           E == DataOf(u)'
           n == Num
           m == Num'
<1>5. \A c \in Cookies \ Range(cs) : (c \in D <=> c \in E) /\ n[c] = m[c]
  BY <1>4 DEF DataOf, Num
<1>6. D \subseteq Cookies /\ E \subseteq Cookies
  BY ConstFacts DEF DataOf
<1>7. Ordered(txq, re_queue[u], conn_queue[u], hand[u], last[u], D, n)
  BY DEF Line
<1>8. ASSUME Ordered(txq, re_queue[u], conn_queue[u], hand[u], last[u], E, m) PROVE Line(u)'
  BY <1>3, <1>8 DEF Line
<1> HIDE DEF D, E, n, m
<1>9. \A c \in Range(txq) \cup Range(re_queue[u]) \cup Range(conn_queue[u]) \cup {hand[u]} :
        (c \in D <=> c \in E) /\ (c \in D => n[c] = m[c])
  BY <1>4, <1>5, <1>6
<1> QED BY <1>7, <1>8, <1>9, OrderedAgree

\* A list that lost some or all of its packets.
Part(r, q) == r = q \/ r = <<>> \/ \E I \in SUBSET DOMAIN q : r = Keep(q, I)

LEMMA PartRising ==
  ASSUME NEW q \in Seq(Cookies), NEW r, Part(r, q), NEW D, NEW n, Rising(q, D, n)
  PROVE  Rising(r, D, n) /\ Range(r) \subseteq Range(q)
<1>1. CASE r = q
  BY <1>1
<1>2. CASE r = <<>>
  BY <1>2, NoCookie
<1>3. CASE \E I \in SUBSET DOMAIN q : r = Keep(q, I)
  <2>1. PICK I \in SUBSET DOMAIN q : r = Keep(q, I)
    BY <1>3
  <2>2. Rising(r, D, n)
    BY <2>1, RisingKeep
  <2>3. Range(r) = {q[i] : i \in I}
    BY <2>1, KeepSplit
  <2>4. {q[i] : i \in I} \subseteq Range(q)
    BY DEF Range
  <2> QED BY <2>2, <2>3, <2>4
<1> QED BY <1>1, <1>2, <1>3 DEF Part

LEMMA LineSub ==
  ASSUME TypeInv, NEW u \in Vifs, Line(u), SamePkts, last'[u] = last[u],
         Part(txq', txq), Part(re_queue'[u], re_queue[u]), Part(conn_queue'[u], conn_queue[u]),
         hand'[u] \in {hand[u], Nobody}
  PROVE  Line(u)'
<1> DEFINE t == txq
           r == re_queue[u]
           q == conn_queue[u]
           D == DataOf(u)
           n == Num
           x == txq'
           y == re_queue'[u]
           z == conn_queue'[u]
<1>1. t \in Seq(Cookies) /\ r \in Seq(Cookies) /\ q \in Seq(Cookies) /\ Nobody \notin D
  BY LineArgs DEF OrderArgs
<1>2. Ordered(t, r, q, hand[u], last[u], D, n)
  BY DEF Line
<1>3. ASSUME Ordered(x, y, z, hand'[u], last[u], D, n) PROVE Line(u)'
  BY <1>3, LineNext
<1>4. Part(x, t) /\ Part(y, r) /\ Part(z, q)
  OBVIOUS
<1> HIDE DEF t, r, q, D, n, x, y, z
<1>5. Rising(t, D, n) /\ Rising(r, D, n) /\ Rising(q, D, n)
  BY <1>2 DEF Ordered
<1>6. Rising(x, D, n) /\ Range(x) \subseteq Range(t)
  BY <1>1, <1>4, <1>5, PartRising
<1>7. Rising(y, D, n) /\ Range(y) \subseteq Range(r)
  BY <1>1, <1>4, <1>5, PartRising
<1>8. Rising(z, D, n) /\ Range(z) \subseteq Range(q)
  BY <1>1, <1>4, <1>5, PartRising
<1>9. hand'[u] = hand[u] \/ hand'[u] \notin D
  BY <1>1
<1> QED BY <1>2, <1>3, <1>6, <1>7, <1>8, <1>9, OrderedSub

LEMMA HandIs ==
  ASSUME TypeInv, PlaceInv, PktInv, NEW v \in Vifs, pc[v] \in Holding
  PROVE  /\ hand[v] \in Cookies /\ hand[v] # Nobody /\ pkt[hand[v]].vif = v
         /\ pkt[hand[v]].tag = "data" <=> hand[v] \in DataCookies
<1>1. hand[v] \in Cookies /\ hand[v] # Nobody
  BY LocalFacts, ConstFacts
<1>2. hand[v] \in Outstanding
  BY <1>1, OutIs
<1> QED BY <1>1, <1>2 DEF PktInv, PktOut

\* A packet is put on a queue, control packets first, data packets last.
LEMMA LineScheduled ==
  ASSUME TypeInv, PlaceInv, PktInv, NEW v \in Vifs, SchedulePkt(v), NEW u \in Vifs, Line(u)
  PROVE  Line(u)'
<1> USE DEF arVars, vifVars, flowVars, htcVars, histVars
<1>1. SamePkts /\ UNCHANGED <<txq, last>> /\ pc[v] \in Holding
  BY DEF SchedulePkt, SamePkts, Holding
<1>2. \/ UNCHANGED <<re_queue, conn_queue, hand>>
      \/ /\ hand' = [hand EXCEPT ![v] = Nobody]
         /\ \/ /\ pkt[hand[v]].tag # "data" /\ UNCHANGED conn_queue
               /\ re_queue' = [re_queue EXCEPT ![v] = <<hand[v]>> \o @]
            \/ conn_queue' = [conn_queue EXCEPT ![v] = Append(@, hand[v])] /\ UNCHANGED re_queue
  BY DEF SchedulePkt, Enqueue
<1>3. /\ re_queue \in [Vifs -> Seq(Cookies)] /\ conn_queue \in [Vifs -> Seq(Cookies)]
      /\ hand \in [Vifs -> Cookies \cup {Nobody}]
  BY QueuesAre DEF QueuesOK, TypeInv, CtxOK
<1>4. CASE UNCHANGED <<re_queue, conn_queue, hand>> \/ u # v
  <2>1. UNCHANGED txq /\ re_queue'[u] = re_queue[u] /\ conn_queue'[u] = conn_queue[u] /\ hand'[u] = hand[u]
    BY <1>1, <1>2, <1>3, <1>4
  <2> QED BY <1>1, <2>1, LineSub DEF Part
<1>5. CASE ~(UNCHANGED <<re_queue, conn_queue, hand>>) /\ u = v
  <2> DEFINE t == txq
             r == re_queue[u]
             q == conn_queue[u]
             D == DataOf(u)
             n == Num
             h == hand[u]
             w == <<h>>
  <2>1. OrderArgs(t, r, q, h, last[u], D, n) /\ Nobody \notin D /\ Ordered(t, r, q, h, last[u], D, n)
    BY LineArgs DEF Line
  <2>2. h \in Cookies /\ (pkt[h].tag = "data" <=> h \in DataCookies)
    BY <1>1, <1>5, HandIs
  <2>3. /\ t = txq' /\ hand'[u] = Nobody /\ last'[u] = last[u]
        /\ \/ pkt[h].tag # "data" /\ re_queue'[u] = w \o r /\ conn_queue'[u] = q
           \/ re_queue'[u] = r /\ conn_queue'[u] = Append(q, h)
    BY <1>1, <1>2, <1>3, <1>5
  <2>4. ASSUME Ordered(txq', re_queue'[u], conn_queue'[u], hand'[u], last'[u], D, n) PROVE Line(u)'
    BY <1>1, <2>4, LineNext
  <2>5. D \subseteq DataCookies
    BY DEF DataOf
  <2>6. w \in Seq(Cookies) /\ Range(w) = {h}
    BY <2>2, Single
  <2> HIDE DEF t, r, q, D, n, h, w
  <2>7. CASE re_queue'[u] = r /\ conn_queue'[u] = Append(q, h)
    <3>1. Ordered(t, r, Append(q, h), Nobody, last[u], D, n)
      BY <2>1, <2>2, OrderedQueued
    <3> QED BY <2>3, <2>4, <2>7, <3>1
  <2>8. CASE pkt[h].tag # "data" /\ re_queue'[u] = w \o r /\ conn_queue'[u] = q
    <3>1. Range(w) \cap D = {}
      BY <2>2, <2>5, <2>6, <2>8
    <3>2. Ordered(t, w \o r, q, h, last[u], D, n)
      BY <2>1, <2>6, <3>1, OrderedOthers
    <3> DEFINE y == w \o r
    <3>3. Ordered(t, y, q, h, last[u], D, n)
      BY <3>2
    <3>4. re_queue'[u] = y
      BY <2>8
    <3> HIDE DEF y
    <3>5. Rising(t, D, n) /\ Rising(y, D, n) /\ Rising(q, D, n)
      BY <3>3 DEF Ordered
    <3>6. Ordered(t, y, q, Nobody, last[u], D, n)
      BY <2>1, <3>3, <3>5, OrderedSub
    <3> QED BY <2>3, <2>4, <2>8, <3>4, <3>6
  <2> QED BY <2>3, <2>7, <2>8
<1> QED BY <1>4, <1>5

\* A packet, or a connection's waiting packets, go to HTC.
LEMMA LineOthers ==
  ASSUME TypeInv, NEW u \in Vifs, Line(u), SamePkts, NEW w \in Seq(Cookies), Range(w) \cap DataOf(u) = {},
         txq' = txq \o w, re_queue'[u] = re_queue[u], conn_queue'[u] = conn_queue[u],
         hand'[u] = hand[u], last'[u] = last[u]
  PROVE  Line(u)'
<1> DEFINE t == txq
           r == re_queue[u]
           q == conn_queue[u]
           D == DataOf(u)
           n == Num
<1>1. /\ OrderArgs(t, r, q, hand[u], last[u], D, n) /\ Ordered(t, r, q, hand[u], last[u], D, n)
      /\ Range(w) \cap D = {}
  BY LineArgs DEF Line
<1>2. ASSUME Ordered(t \o w, r, q, hand[u], last[u], D, n) PROVE Line(u)'
  BY <1>2, LineNext
<1> HIDE DEF t, r, q, D, n
<1>3. Ordered(t \o w, r, q, hand[u], last[u], D, n)
  BY <1>1, OrderedOthers
<1> QED BY <1>2, <1>3

LEMMA LineSent ==
  ASSUME TypeInv, PlaceInv, PktInv, NEW v \in Vifs, SendPkt(v), NEW u \in Vifs, Line(u),
         SendStillRight(u)
  PROVE  Line(u)'
<1> USE DEF arVars, vifVars, flowVars, htcVars, histVars
<1>1. /\ SamePkts /\ pc[v] \in Holding /\ pc[v] = "send"
      /\ UNCHANGED <<last, re_queue, conn_queue>> /\ hand' = [hand EXCEPT ![v] = Nobody]
  BY DEF SendPkt, SamePkts, Holding
<1>2. txq' = txq \o <<hand[v]>>
  BY DEF SendPkt, HtcSend
<1>3. hand[v] \in Cookies /\ pkt[hand[v]].vif = v
  BY <1>1, HandIs
<1>4. hand \in [Vifs -> Cookies \cup {Nobody}]
  BY DEF TypeInv, CtxOK
<1>5. CASE u # v
  <2> DEFINE w == <<hand[v]>>
  <2>1. w \in Seq(Cookies) /\ Range(w) = {hand[v]} /\ txq' = txq \o w
    BY <1>2, <1>3, Single
  <2> HIDE DEF w
  <2>2. Range(w) \cap DataOf(u) = {}
    BY <1>3, <1>5, <2>1 DEF DataOf
  <2>3. hand'[u] = hand[u] /\ re_queue'[u] = re_queue[u] /\ conn_queue'[u] = conn_queue[u] /\ last'[u] = last[u]
    BY <1>1, <1>4, <1>5
  <2> QED BY <1>1, <2>1, <2>2, <2>3, LineOthers
<1>6. CASE u = v
  <2>1. re_queue[u] = <<>> /\ conn_queue[u] = <<>>
    <3> DEFINE a == re_queue[u]
               b == conn_queue[u]
    <3>1. a \in Seq(Cookies) /\ b \in Seq(Cookies) /\ a \o b = <<>>
      BY <1>1, <1>6, LocalFacts DEF SendStillRight, Queued
    <3> HIDE DEF a, b
    <3>2. a = <<>> /\ b = <<>>
      BY <3>1
    <3> QED BY <3>2 DEF a, b
  <2> DEFINE t == txq
             D == DataOf(u)
             n == Num
             h == hand[u]
  <2>2. OrderArgs(t, <<>>, <<>>, h, last[u], D, n) /\ Nobody \notin D /\ Ordered(t, <<>>, <<>>, h, last[u], D, n)
    BY <2>1, LineArgs DEF Line
  <2>3. ASSUME Ordered(t \o <<h>>, <<>>, <<>>, Nobody, last[u], D, n) PROVE Line(u)'
    <3>1. /\ txq' = t \o <<h>> /\ re_queue'[u] = <<>> /\ conn_queue'[u] = <<>> /\ hand'[u] = Nobody
          /\ last'[u] = last[u]
      BY <1>1, <1>2, <1>4, <1>6, <2>1
    <3> QED BY <1>1, <2>3, <3>1, LineNext
  <2>4. h \in Cookies
    BY <1>3, <1>6
  <2> HIDE DEF t, D, n, h
  <2>5. Ordered(t \o <<h>>, <<>>, <<>>, Nobody, last[u], D, n)
    BY <2>2, <2>4, OrderedSent
  <2> QED BY <2>3, <2>5
<1> QED BY <1>5, <1>6

LEMMA LineFlushed ==
  ASSUME TypeInv, PlaceInv, PktInv, NEW v \in Vifs, NEW c \in Vifs \cup {"rx"}, TxSchedule(c, v),
         NEW u \in Vifs, Line(u)
  PROVE  Line(u)'
<1> USE DEF arVars, vifVars, flowVars, htcVars, histVars
<1>1. SamePkts /\ UNCHANGED <<last, hand>>
  BY DEF TxSchedule, SamePkts
<1>2. \/ UNCHANGED <<txq, re_queue, conn_queue>>
      \/ /\ txq' = txq \o Queued(v)
         /\ re_queue' = [re_queue EXCEPT ![v] = <<>>] /\ conn_queue' = [conn_queue EXCEPT ![v] = <<>>]
  BY DEF TxSchedule, HtcSend
<1>3. /\ re_queue \in [Vifs -> Seq(Cookies)] /\ conn_queue \in [Vifs -> Seq(Cookies)]
  BY QueuesAre DEF QueuesOK
<1>4. CASE UNCHANGED <<txq, re_queue, conn_queue>>
  BY <1>1, <1>4, LineSub DEF Part
<1>5. CASE /\ txq' = txq \o Queued(v)
           /\ re_queue' = [re_queue EXCEPT ![v] = <<>>] /\ conn_queue' = [conn_queue EXCEPT ![v] = <<>>]
  <2>1. CASE u # v
    <3>1. Queued(v) \in Seq(Cookies) /\ Range(Queued(v)) = Range(re_queue[v]) \cup Range(conn_queue[v])
      BY LocalFacts
    <3>2. Range(Queued(v)) \cap DataOf(u) = {}
      BY <2>1, <3>1 DEF PktInv, DataOf
    <3>3. hand'[u] = hand[u] /\ re_queue'[u] = re_queue[u] /\ conn_queue'[u] = conn_queue[u] /\ last'[u] = last[u]
      BY <1>1, <1>3, <1>5, <2>1
    <3> QED BY <1>1, <1>5, <3>1, <3>2, <3>3, LineOthers
  <2>2. CASE u = v
    <3> DEFINE t == txq
               r == re_queue[u]
               q == conn_queue[u]
               D == DataOf(u)
               n == Num
    <3>1. OrderArgs(t, r, q, hand[u], last[u], D, n) /\ Ordered(t, r, q, hand[u], last[u], D, n)
      BY LineArgs DEF Line
    <3>2. ASSUME Ordered(t \o (r \o q), <<>>, <<>>, hand[u], last[u], D, n) PROVE Line(u)'
      <4>1. /\ txq' = t \o (r \o q) /\ re_queue'[u] = <<>> /\ conn_queue'[u] = <<>>
            /\ hand'[u] = hand[u] /\ last'[u] = last[u]
        BY <1>1, <1>3, <1>5, <2>2 DEF Queued
      <4> QED BY <1>1, <3>2, <4>1, LineNext
    <3> HIDE DEF t, r, q, D, n
    <3>3. Ordered(t \o (r \o q), <<>>, <<>>, hand[u], last[u], D, n)
      BY <3>1, OrderedScheduled
    <3> QED BY <3>2, <3>3
  <2> QED BY <2>1, <2>2
<1> QED BY <1>2, <1>4, <1>5

\* Packets are dropped from the lists of a connection.
LEMMA LineDropped ==
  ASSUME TypeInv, NEW v \in Vifs, CopyFail(v) \/ ConnectEvent(v) \/ FlushEp \/ CleanupByIf,
         NEW u \in Vifs, Line(u)
  PROVE  Line(u)'
<1> USE DEF arVars, vifVars, flowVars, htcVars, histVars
<1>1. /\ re_queue \in [Vifs -> Seq(Cookies)] /\ conn_queue \in [Vifs -> Seq(Cookies)]
      /\ hand \in [Vifs -> Cookies \cup {Nobody}]
  BY QueuesAre DEF QueuesOK, TypeInv, CtxOK
<1>2. CASE CopyFail(v)
  <2>1. SamePkts /\ UNCHANGED <<txq, re_queue, conn_queue, last>> /\ hand' = [hand EXCEPT ![v] = Nobody]
    BY <1>2 DEF CopyFail, SamePkts
  <2>2. hand'[u] \in {hand[u], Nobody}
    BY <1>1, <2>1
  <2> QED BY <2>1, <2>2, LineSub DEF Part
<1>3. ASSUME SamePkts, UNCHANGED <<txq, hand, last>>, NEW w,
             \/ UNCHANGED <<re_queue, conn_queue>>
             \/ re_queue' = [re_queue EXCEPT ![w] = <<>>] /\ conn_queue' = [conn_queue EXCEPT ![w] = <<>>]
      PROVE  Line(u)'
  <2>1. Part(re_queue'[u], re_queue[u]) /\ Part(conn_queue'[u], conn_queue[u])
    BY <1>1, <1>3 DEF Part
  <2> QED BY <1>3, <2>1, LineSub DEF Part
<1>4. CASE ConnectEvent(v)
  <2>1. SamePkts /\ UNCHANGED <<txq, hand, last>>
    BY <1>4 DEF ConnectEvent, SamePkts
  <2>2. \/ UNCHANGED <<re_queue, conn_queue>>
        \/ re_queue' = [re_queue EXCEPT ![v] = <<>>] /\ conn_queue' = [conn_queue EXCEPT ![v] = <<>>]
    BY <1>4 DEF ConnectEvent
  <2> QED BY <1>3, <2>1, <2>2
<1>5. CASE CleanupByIf
  <2>1. SamePkts /\ UNCHANGED <<txq, hand, last>>
    BY <1>5 DEF CleanupByIf, SamePkts
  <2>2. re_queue' = [re_queue EXCEPT ![target] = <<>>] /\ conn_queue' = [conn_queue EXCEPT ![target] = <<>>]
    BY <1>5 DEF CleanupByIf
  <2> QED BY <1>3, <2>1, <2>2
<1>6. CASE FlushEp
  <2>1. SamePkts /\ UNCHANGED <<re_queue, conn_queue, hand, last>>
    BY <1>6 DEF FlushEp, SamePkts
  <2>2. Part(txq', txq)
    <3>1. DOMAIN txq \ {i \in DOMAIN txq : pvif[txq[i]] = target} \in SUBSET DOMAIN txq
      OBVIOUS
    <3> QED BY <1>6, <3>1 DEF FlushEp, Part
  <2> QED BY <2>1, <2>2, LineSub DEF Part
<1> QED BY <1>2, <1>4, <1>5, <1>6

\* A connection that left the channel gets its packets back from HTC.
LEMMA LineTakenBack ==
  ASSUME TypeInv, NEW v \in Vifs, StateChange(v), NEW u \in Vifs, Line(u), NoneBackYet(u)
  PROVE  Line(u)'
<1>1. UNCHANGED <<free, born, last, hand, conn_queue>>
  BY StateChangeIs DEF arVars, vifVars
<1>2. /\ re_queue \in [Vifs -> Seq(Cookies)] /\ txq \in Seq(Cookies)
  BY QueuesAre DEF QueuesOK
<1>3. CASE UNCHANGED <<txq, re_queue, pkt>>
  BY <1>1, <1>3, LineSame
<1>4. CASE previous_can_send[v] /\ TakeBack(v)
  <2>1. SamePkts
    BY <1>1, <1>4, TakeBackSame
  <2>2. /\ txq' = Keep(txq, DOMAIN txq \ MineAt(v))
        /\ re_queue' = [re_queue EXCEPT ![v] = re_queue[v] \o BackOf(v)]
        /\ DOMAIN txq \ MineAt(v) \in SUBSET DOMAIN txq
    BY <1>4 DEF TakeBack
  <2>3. CASE u # v
    <3>1. re_queue'[u] = re_queue[u] /\ conn_queue'[u] = conn_queue[u] /\ hand'[u] = hand[u] /\ last'[u] = last[u]
      BY <1>1, <1>2, <2>2, <2>3
    <3>2. Part(txq', txq)
      BY <2>2 DEF Part
    <3> QED BY <2>1, <3>1, <3>2, LineSub DEF Part
  <2>4. CASE u = v
    <3> DEFINE t == txq
               r == re_queue[u]
               q == conn_queue[u]
               D == DataOf(u)
               n == Num
               I == DOMAIN txq \ MineAt(v)
               K == MineAt(v) \ AgedAt(v)
    <3>1. OrderArgs(t, r, q, hand[u], last[u], D, n) /\ Ordered(t, r, q, hand[u], last[u], D, n)
      BY LineArgs DEF Line
    <3>2. Range(r) \cap D = {}
      BY <1>4, <2>4, StateChangeIs DEF NoneBackYet
    <3>3. I \in SUBSET DOMAIN t /\ K \in SUBSET DOMAIN t
      BY TakenFrom
    <3>4. Range(Keep(t, I)) \cap D = {}
      <4>1. Range(Keep(txq, I)) = {txq[i] : i \in I}
        BY TakenFrom
      <4> QED BY <2>4, <4>1 DEF MineAt, DataOf
    <3>5. ASSUME Ordered(Keep(t, I), r \o Keep(t, K), q, hand[u], last[u], D, n) PROVE Line(u)'
      <4>1. /\ txq' = Keep(t, I) /\ re_queue'[u] = r \o Keep(t, K) /\ conn_queue'[u] = q
            /\ hand'[u] = hand[u] /\ last'[u] = last[u]
        BY <1>1, <1>2, <2>2, <2>4 DEF BackOf
      <4> QED BY <2>1, <3>5, <4>1, LineNext
    <3> HIDE DEF t, r, q, D, n, I, K
    <3>6. Ordered(Keep(t, I), r \o Keep(t, K), q, hand[u], last[u], D, n)
      BY <3>1, <3>2, <3>3, <3>4, OrderedBack
    <3> QED BY <3>5, <3>6
  <2> QED BY <2>3, <2>4
<1> QED BY <1>3, <1>4, StateChangeIs

\* HTC gives a packet to the HIF: it is the first of its connection's.
LEMMA LineDrained ==
  ASSUME TypeInv, PlaceInv, PktInv, HtcDrain, NEW u \in Vifs, Line(u)
  PROVE  Line(u)' /\ last'[u] >= last[u]
<1> USE DEF arVars, vifVars, flowVars, htcVars, locVars, histVars
<1>1. /\ txq # <<>> /\ txq' = Tail(txq) /\ SamePkts /\ UNCHANGED <<re_queue, conn_queue, hand>>
      /\ last' = IF pkt[Head(txq)].tag = "data" THEN [last EXCEPT ![pkt[Head(txq)].vif] = pkt[Head(txq)].num]
                                                ELSE last
  BY DEF HtcDrain, SamePkts
<1>2. txq \in Seq(Cookies) /\ Distinct(txq) /\ last \in [Vifs -> 0 .. MaxPkts] /\ last[u] \in Int
  BY LocalFacts, PktsAre, ConstFacts DEF PlaceInv, QueuesDistinct, PktsOK
<1>3. Head(txq) \in Range(txq)
  BY <1>1, <1>2, DistinctTail
<1>4. Head(txq) \in Outstanding /\ Head(txq) \in Cookies
  BY <1>3, OutIs
<1>5. pkt[Head(txq)].vif \in Vifs /\ (pkt[Head(txq)].tag = "data" <=> Head(txq) \in DataCookies)
  BY <1>4 DEF PktInv, PktOut
<1> DEFINE t == txq
           r == re_queue[u]
           q == conn_queue[u]
           D == DataOf(u)
           n == Num
           x == Head(txq)
<1>6. last'[u] = IF x \in D THEN n[x] ELSE last[u]
  BY <1>1, <1>2, <1>4, <1>5 DEF DataOf, Num
<1>7. OrderArgs(t, r, q, hand[u], last[u], D, n) /\ Ordered(t, r, q, hand[u], last[u], D, n)
  BY LineArgs DEF Line
<1>8. ASSUME Ordered(Tail(t), r, q, hand[u], last'[u], D, n) PROVE Line(u)'
  <2>1. txq' = Tail(t) /\ re_queue'[u] = r /\ conn_queue'[u] = q /\ hand'[u] = hand[u]
    BY <1>1
  <2> QED BY <1>1, <1>8, <2>1, LineNext
<1>9. n[x] \in Int
  BY <1>4, <1>7 DEF OrderArgs
<1>10. t # <<>> /\ x = Head(t)
  BY <1>1
<1> HIDE DEF t, r, q, D, n, x
<1>11. /\ x \in D => last[u] < n[x] /\ Ordered(Tail(t), r, q, hand[u], n[x], D, n)
       /\ Ordered(Tail(t), r, q, hand[u], last[u], D, n)
  BY <1>7, <1>10, OrderedDrain
<1>12. Ordered(Tail(t), r, q, hand[u], last'[u], D, n)
  BY <1>6, <1>11
<1>13. last'[u] >= last[u]
  BY <1>2, <1>6, <1>9, <1>11
<1> QED BY <1>8, <1>12, <1>13

LEMMA LineStep ==
  ASSUME TypeInv, PlaceInv, PktInv, NEW u \in Vifs, Line(u), NoneBackYet(u), SendStillRight(u), NEW v \in Vifs, NEW c \in Vifs \cup {"rx"},
         NEW tag \in {"data", "pri"}, Step(v, c, tag)
  PROVE  Line(u)'
<1> USE DEF arVars, vifVars, flowVars, htcVars, histVars
<1>1. CASE DataTx(v, tag)
  BY <1>1, LineTaken
<1>2. CASE CopyFail(v)
  BY <1>2, LineDropped
<1>3. CASE SchedulePkt(v)
  BY <1>3, LineScheduled
<1>4. CASE SendPkt(v)
  BY <1>4, LineSent
<1>5. CASE TxSchedule(c, v)
  BY <1>5, LineFlushed
<1>6. CASE ConnectEvent(v)
  BY <1>6, LineDropped
<1>7. CASE DisconnectEvent(v)
  BY <1>7, LineSame DEF DisconnectEvent
<1>8. CASE FlowctrlEvent
  BY <1>8, LineSame DEF FlowctrlEvent
<1>9. CASE RxComplete
  BY <1>9, LineFinished
<1>10. CASE StateChange(v)
  BY <1>10, LineTakenBack
<1>11. CASE StateChanged
  BY <1>11, LineSame DEF StateChanged
<1>12. CASE SetConnId
  BY <1>12, LineSame DEF SetConnId
<1>13. CASE ConnectWake
  BY <1>13, LineSame DEF ConnectWake
<1>14. CASE Connect
  BY <1>14, LineSame DEF Connect
<1>15. CASE Switch
  BY <1>15, LineSame DEF Switch
<1>16. CASE FlushEp
  BY <1>16, LineDropped
<1>17. CASE CleanupByIf
  BY <1>17, LineDropped
<1>18. CASE HifDone
  BY <1>18, LineFinished
<1>19. CASE HifDoneWake
  BY <1>19, LineSame DEF HifDoneWake
<1>20. CASE CmdDone
  BY <1>20, LineSame DEF CmdDone, locVars
<1>21. CASE HtcDrain
  BY <1>21, LineDrained
<1>22. CASE AssocFailed(v)
  BY <1>22, LineSame DEF AssocFailed
<1>23. CASE RoamSwitch
  BY <1>23, LineSame DEF RoamSwitch
<1> QED
  BY <1>1, <1>2, <1>3, <1>4, <1>5, <1>6, <1>7, <1>8, <1>9, <1>10, <1>11, <1>12, <1>13, <1>14,
     <1>15, <1>16, <1>17, <1>18, <1>19, <1>20, <1>21, <1>22, <1>23 DEF Step

\* A decision to send stays right unless packets are taken back meanwhile.
LEMMA SendRightSame ==
  ASSUME NEW u, SendStillRight(u), Queued(u) = <<>> => Queued(u)' = <<>>,
         pc'[u] = "send" => pc[u] = "send"
  PROVE  SendStillRight(u)'
BY DEF SendStillRight

LEMMA SendRightStep ==
  ASSUME TypeInv, NEW u \in Vifs, u \notin raced', SendStillRight(u), NEW v \in Vifs, NEW c \in Vifs \cup {"rx"},
         NEW tag \in {"data", "pri"}, Step(v, c, tag)
  PROVE  SendStillRight(u)'
<1> USE DEF arVars, vifVars, flowVars, htcVars, locVars, histVars
<1>1. CASE DataTx(v, tag)
  <2>1. UNCHANGED <<re_queue, conn_queue>>
    BY <1>1 DEF DataTx
  <2>2. pc'[u] = "send" => pc[u] = "send"
    BY <1>1, ConstFacts DEF DataTx, TypeInv, CtxOK, Contexts, RxOK, Goto, Complete
  <2>3. Queued(u)' = Queued(u)
    BY <2>1 DEF Queued
  <2> QED BY <2>2, <2>3, SendRightSame
<1>2. CASE CopyFail(v)
  <2>1. UNCHANGED <<re_queue, conn_queue>>
    BY <1>2 DEF CopyFail
  <2>2. pc'[u] = "send" => pc[u] = "send"
    BY <1>2, ConstFacts DEF CopyFail, TypeInv, CtxOK, Contexts, RxOK, Goto, Complete
  <2>3. Queued(u)' = Queued(u)
    BY <2>1 DEF Queued
  <2> QED BY <2>2, <2>3, SendRightSame
<1>3. CASE SchedulePkt(v)
  <2>1. pc \in [Contexts -> SenderPCs \cup RxPCs \cup CplPCs] /\ u \in Contexts /\ v \in Contexts
    BY DEF TypeInv, CtxOK, Contexts
  <2>2. \/ Queued(v) = <<>> /\ UNCHANGED <<re_queue, conn_queue>> /\ pc' = [pc EXCEPT ![v] = "send"]
        \/ /\ \A w \in Vifs \ {v} : re_queue'[w] = re_queue[w] /\ conn_queue'[w] = conn_queue[w]
           /\ \E l \in {"sched", "idle"} : pc' = [pc EXCEPT ![v] = l]
    BY <1>3, QueuesAre DEF SchedulePkt, Enqueue, Goto, QueuesOK
  <2>3. CASE Queued(v) = <<>> /\ UNCHANGED <<re_queue, conn_queue>> /\ pc' = [pc EXCEPT ![v] = "send"]
    <3>1. Queued(u)' = Queued(u)
      BY <2>3 DEF Queued
    <3>2. u = v \/ pc'[u] = pc[u]
      BY <2>1, <2>3
    <3> QED BY <2>3, <3>1, <3>2 DEF SendStillRight
  <2>4. CASE /\ \A w \in Vifs \ {v} : re_queue'[w] = re_queue[w] /\ conn_queue'[w] = conn_queue[w]
             /\ \E l \in {"sched", "idle"} : pc' = [pc EXCEPT ![v] = l]
    <3>1. CASE u = v
      <4>1. pc'[u] # "send"
        BY <2>1, <2>4, <3>1
      <4> QED BY <4>1 DEF SendStillRight
    <3>2. CASE u # v
      <4>1. Queued(u)' = Queued(u) /\ pc'[u] = pc[u]
        BY <2>1, <2>4, <3>2 DEF Queued
      <4> QED BY <4>1, SendRightSame
    <3> QED BY <3>1, <3>2
  <2> QED BY <2>2, <2>3, <2>4
<1>4. CASE SendPkt(v)
  <2>1. UNCHANGED <<re_queue, conn_queue>>
    BY <1>4 DEF SendPkt
  <2>2. pc'[u] = "send" => pc[u] = "send"
    BY <1>4, ConstFacts DEF SendPkt, TypeInv, CtxOK, Contexts, RxOK, Goto, Complete
  <2>3. Queued(u)' = Queued(u)
    BY <2>1 DEF Queued
  <2> QED BY <2>2, <2>3, SendRightSame
<1>5. CASE TxSchedule(c, v)
  <2>1. \/ UNCHANGED <<re_queue, conn_queue>>
        \/ re_queue' = [re_queue EXCEPT ![v] = <<>>] /\ conn_queue' = [conn_queue EXCEPT ![v] = <<>>]
    BY <1>5 DEF TxSchedule
  <2>2. pc[c] = "sched" /\ pc' = [pc EXCEPT ![c] = IF todo[c] = {v} THEN "idle" ELSE pc[c]]
    BY <1>5 DEF TxSchedule, Visited, Goto
  <2>3. pc'[u] = "send" => pc[u] = "send"
    BY <2>2 DEF TypeInv, CtxOK, Contexts
  <2> QED BY <2>1, <2>3, EmptiedQueues, SendRightSame
<1>6. CASE ConnectEvent(v)
  <2>1. \/ UNCHANGED <<re_queue, conn_queue>>
        \/ re_queue' = [re_queue EXCEPT ![v] = <<>>] /\ conn_queue' = [conn_queue EXCEPT ![v] = <<>>]
    BY <1>6 DEF ConnectEvent
  <2>2. \E l : pc' = [pc EXCEPT !["rx"] = l]
    BY <1>6 DEF ConnectEvent, Complete, Goto
  <2>3. pc'[u] = "send" => pc[u] = "send"
    BY <2>2, ConstFacts DEF TypeInv, CtxOK, Contexts
  <2> QED BY <2>1, <2>3, EmptiedQueues, SendRightSame
<1>7. CASE DisconnectEvent(v)
  <2>1. UNCHANGED <<re_queue, conn_queue>>
    BY <1>7 DEF DisconnectEvent
  <2>2. pc'[u] = "send" => pc[u] = "send"
    BY <1>7, ConstFacts DEF DisconnectEvent, TypeInv, CtxOK, Contexts, RxOK, Goto, Complete
  <2>3. Queued(u)' = Queued(u)
    BY <2>1 DEF Queued
  <2> QED BY <2>2, <2>3, SendRightSame
<1>8. CASE FlowctrlEvent
  <2>1. UNCHANGED <<re_queue, conn_queue>>
    BY <1>8 DEF FlowctrlEvent
  <2>2. pc'[u] = "send" => pc[u] = "send"
    BY <1>8, ConstFacts DEF FlowctrlEvent, TypeInv, CtxOK, Contexts, RxOK, Goto, Complete
  <2>3. Queued(u)' = Queued(u)
    BY <2>1 DEF Queued
  <2> QED BY <2>2, <2>3, SendRightSame
<1>9. CASE RxComplete
  <2>1. UNCHANGED <<re_queue, conn_queue>>
    BY <1>9 DEF RxComplete
  <2>2. pc'[u] = "send" => pc[u] = "send"
    BY <1>9, ConstFacts DEF RxComplete, TypeInv, CtxOK, Contexts, RxOK, Goto, Complete
  <2>3. Queued(u)' = Queued(u)
    BY <2>1 DEF Queued
  <2> QED BY <2>2, <2>3, SendRightSame
<1>10. CASE StateChange(v)
  <2>1. pc'[u] = pc[u] /\ UNCHANGED conn_queue
    BY <1>10, StateChangeIs, ConstFacts DEF TypeInv, CtxOK, Contexts
  <2>2. CASE UNCHANGED re_queue
    <3>1. Queued(u)' = Queued(u)
      BY <2>1, <2>2 DEF Queued
    <3> QED BY <2>1, <3>1, SendRightSame
  <2>3. CASE TakeBack(v)
    <3>1. /\ re_queue' = [re_queue EXCEPT ![v] = re_queue[v] \o BackOf(v)]
          /\ raced' = IF BackOf(v) # <<>> /\ pc[v] = "send" THEN raced \cup {v} ELSE raced
      BY <2>3 DEF TakeBack
    <3>2. re_queue \in [Vifs -> Seq(Cookies)]
      BY QueuesAre DEF QueuesOK
    <3>3. CASE u # v
      <4>1. Queued(u)' = Queued(u)
        BY <2>1, <3>1, <3>2, <3>3 DEF Queued
      <4> QED BY <2>1, <4>1, SendRightSame
    <3>4. CASE u = v /\ pc[u] = "send"
      <4>1. BackOf(v) = <<>>
        BY <3>1, <3>4
      <4> DEFINE r == re_queue[v]
      <4>2. r \in Seq(Cookies) /\ re_queue'[v] = r \o <<>>
        BY <3>1, <3>2, <4>1
      <4> HIDE DEF r
      <4>3. r \o <<>> = r
        BY <4>2
      <4>4. Queued(u)' = Queued(u)
        BY <2>1, <3>4, <4>2, <4>3 DEF Queued, r
      <4> QED BY <2>1, <4>4, SendRightSame
    <3>5. CASE pc[u] # "send"
      BY <2>1, <3>5 DEF SendStillRight
    <3> QED BY <3>3, <3>4, <3>5
  <2> QED BY <1>10, <2>2, <2>3, StateChangeIs
<1>11. CASE StateChanged
  <2>1. UNCHANGED <<re_queue, conn_queue>>
    BY <1>11 DEF StateChanged
  <2>2. pc'[u] = "send" => pc[u] = "send"
    BY <1>11, ConstFacts DEF StateChanged, TypeInv, CtxOK, Contexts, RxOK, Goto, Complete
  <2>3. Queued(u)' = Queued(u)
    BY <2>1 DEF Queued
  <2> QED BY <2>2, <2>3, SendRightSame
<1>12. CASE SetConnId
  <2>1. UNCHANGED <<re_queue, conn_queue>>
    BY <1>12 DEF SetConnId
  <2>2. pc'[u] = "send" => pc[u] = "send"
    BY <1>12, ConstFacts DEF SetConnId, TypeInv, CtxOK, Contexts, RxOK, Goto, Complete
  <2>3. Queued(u)' = Queued(u)
    BY <2>1 DEF Queued
  <2> QED BY <2>2, <2>3, SendRightSame
<1>13. CASE ConnectWake
  <2>1. UNCHANGED <<re_queue, conn_queue>>
    BY <1>13 DEF ConnectWake
  <2>2. pc'[u] = "send" => pc[u] = "send"
    BY <1>13, ConstFacts DEF ConnectWake, TypeInv, CtxOK, Contexts, RxOK, Goto, Complete
  <2>3. Queued(u)' = Queued(u)
    BY <2>1 DEF Queued
  <2> QED BY <2>2, <2>3, SendRightSame
<1>14. CASE Connect
  <2>1. UNCHANGED <<re_queue, conn_queue>>
    BY <1>14 DEF Connect
  <2>2. pc'[u] = "send" => pc[u] = "send"
    BY <1>14, ConstFacts DEF Connect, TypeInv, CtxOK, Contexts, RxOK, Goto, Complete
  <2>3. Queued(u)' = Queued(u)
    BY <2>1 DEF Queued
  <2> QED BY <2>2, <2>3, SendRightSame
<1>15. CASE Switch
  <2>1. UNCHANGED <<re_queue, conn_queue>>
    BY <1>15 DEF Switch
  <2>2. pc'[u] = "send" => pc[u] = "send"
    BY <1>15, ConstFacts DEF Switch, TypeInv, CtxOK, Contexts, RxOK, Goto, Complete
  <2>3. Queued(u)' = Queued(u)
    BY <2>1 DEF Queued
  <2> QED BY <2>2, <2>3, SendRightSame
<1>16. CASE FlushEp
  <2>1. UNCHANGED <<re_queue, conn_queue>>
    BY <1>16 DEF FlushEp
  <2>2. pc'[u] = "send" => pc[u] = "send"
    BY <1>16, ConstFacts DEF FlushEp, TypeInv, CtxOK, Contexts, RxOK, Goto, Complete
  <2>3. Queued(u)' = Queued(u)
    BY <2>1 DEF Queued
  <2> QED BY <2>2, <2>3, SendRightSame
<1>17. CASE CleanupByIf
  <2>1. re_queue' = [re_queue EXCEPT ![target] = <<>>] /\ conn_queue' = [conn_queue EXCEPT ![target] = <<>>]
    BY <1>17 DEF CleanupByIf
  <2>2. target \in Vifs
    BY <1>17, LocalFacts DEF CleanupByIf
  <2>3. pc'[u] = "send" => pc[u] = "send"
    BY <1>17, ConstFacts DEF CleanupByIf, Complete, Goto, TypeInv, CtxOK, Contexts
  <2> QED BY <2>1, <2>2, <2>3, EmptiedQueues, SendRightSame
<1>18. CASE HifDone
  <2>1. UNCHANGED <<re_queue, conn_queue>>
    BY <1>18 DEF HifDone
  <2>2. pc'[u] = "send" => pc[u] = "send"
    BY <1>18, ConstFacts DEF HifDone, TypeInv, CtxOK, Contexts, RxOK, Goto, Complete
  <2>3. Queued(u)' = Queued(u)
    BY <2>1 DEF Queued
  <2> QED BY <2>2, <2>3, SendRightSame
<1>19. CASE HifDoneWake
  <2>1. UNCHANGED <<re_queue, conn_queue>>
    BY <1>19 DEF HifDoneWake
  <2>2. pc'[u] = "send" => pc[u] = "send"
    BY <1>19, ConstFacts DEF HifDoneWake, TypeInv, CtxOK, Contexts, RxOK, Goto, Complete
  <2>3. Queued(u)' = Queued(u)
    BY <2>1 DEF Queued
  <2> QED BY <2>2, <2>3, SendRightSame
<1>20. CASE CmdDone
  <2>1. UNCHANGED <<re_queue, conn_queue>>
    BY <1>20 DEF CmdDone
  <2>2. pc'[u] = "send" => pc[u] = "send"
    BY <1>20, ConstFacts DEF CmdDone, TypeInv, CtxOK, Contexts, RxOK, Goto, Complete
  <2>3. Queued(u)' = Queued(u)
    BY <2>1 DEF Queued
  <2> QED BY <2>2, <2>3, SendRightSame
<1>21. CASE HtcDrain
  <2>1. UNCHANGED <<re_queue, conn_queue>>
    BY <1>21 DEF HtcDrain
  <2>2. pc'[u] = "send" => pc[u] = "send"
    BY <1>21, ConstFacts DEF HtcDrain, TypeInv, CtxOK, Contexts, RxOK, Goto, Complete
  <2>3. Queued(u)' = Queued(u)
    BY <2>1 DEF Queued
  <2> QED BY <2>2, <2>3, SendRightSame
<1>22. CASE AssocFailed(v)
  <2>1. UNCHANGED <<re_queue, conn_queue>>
    BY <1>22 DEF AssocFailed
  <2>2. pc'[u] = "send" => pc[u] = "send"
    BY <1>22, ConstFacts DEF AssocFailed, TypeInv, CtxOK, Contexts, RxOK, Goto, Complete
  <2>3. Queued(u)' = Queued(u)
    BY <2>1 DEF Queued
  <2> QED BY <2>2, <2>3, SendRightSame
<1>23. CASE RoamSwitch
  <2>1. UNCHANGED <<re_queue, conn_queue>>
    BY <1>23 DEF RoamSwitch
  <2>2. pc'[u] = "send" => pc[u] = "send"
    BY <1>23, ConstFacts DEF RoamSwitch, TypeInv, CtxOK, Contexts, RxOK, Goto, Complete
  <2>3. Queued(u)' = Queued(u)
    BY <2>1 DEF Queued
  <2> QED BY <2>2, <2>3, SendRightSame
<1> QED
  BY <1>1, <1>2, <1>3, <1>4, <1>5, <1>6, <1>7, <1>8, <1>9, <1>10, <1>11, <1>12, <1>13, <1>14,
     <1>15, <1>16, <1>17, <1>18, <1>19, <1>20, <1>21, <1>22, <1>23 DEF Step

\* The worker is in the loop over the connections only for a flow control
\* event, and the channel status changes there only.
RxMoves(v) ==
  \/ FlowctrlEvent
  \/ StateChange(v)
  \/ /\ UNCHANGED <<ocs, previous_can_send>>
     /\ \/ pc["rx"] # "change" /\ pc'["rx"] # "change"
        \/ skip' = skip /\ pc'["rx"] = pc["rx"] /\ todo'["rx"] = todo["rx"]

LEMMA RxMovesStep ==
  ASSUME TypeInv, NEW v \in Vifs, NEW c \in Vifs \cup {"rx"},
         NEW tag \in {"data", "pri"}, Step(v, c, tag)
  PROVE  RxMoves(v)
<1> USE DEF arVars, vifVars, flowVars, htcVars, locVars, histVars
<1>1. CASE DataTx(v, tag)
  <2>1. UNCHANGED <<ocs, previous_can_send, skip>>
    BY <1>1 DEF DataTx
  <2>2. pc'["rx"] = pc["rx"] /\ todo'["rx"] = todo["rx"]
    BY <1>1, ConstFacts DEF DataTx, Goto, TypeInv, CtxOK, Contexts
  <2> QED BY <2>1, <2>2 DEF RxMoves
<1>2. CASE CopyFail(v)
  <2>1. UNCHANGED <<ocs, previous_can_send, skip>>
    BY <1>2 DEF CopyFail
  <2>2. pc'["rx"] = pc["rx"] /\ todo'["rx"] = todo["rx"]
    BY <1>2, ConstFacts DEF CopyFail, Goto, TypeInv, CtxOK, Contexts
  <2> QED BY <2>1, <2>2 DEF RxMoves
<1>3. CASE SchedulePkt(v)
  <2>1. /\ UNCHANGED <<ocs, previous_can_send, skip>> /\ \E l : pc' = [pc EXCEPT ![v] = l]
        /\ UNCHANGED todo \/ \E l : todo' = [todo EXCEPT ![v] = l]
    BY <1>3 DEF SchedulePkt, Goto
  <2>2. pc'["rx"] = pc["rx"] /\ todo'["rx"] = todo["rx"]
    BY <2>1, ConstFacts DEF TypeInv, CtxOK, Contexts
  <2> QED BY <2>1, <2>2 DEF RxMoves
<1>4. CASE SendPkt(v)
  <2>1. UNCHANGED <<ocs, previous_can_send, skip>>
    BY <1>4 DEF SendPkt
  <2>2. pc'["rx"] = pc["rx"] /\ todo'["rx"] = todo["rx"]
    BY <1>4, ConstFacts DEF SendPkt, Goto, TypeInv, CtxOK, Contexts
  <2> QED BY <2>1, <2>2 DEF RxMoves
<1>5. CASE TxSchedule(c, v)
  <2>1. UNCHANGED <<ocs, previous_can_send, skip>> /\ pc[c] = "sched"
    BY <1>5 DEF TxSchedule
  <2>2. /\ pc' = [pc EXCEPT ![c] = IF todo[c] = {v} THEN "idle" ELSE pc[c]]
        /\ todo' = [todo EXCEPT ![c] = @ \ {v}]
    BY <1>5 DEF TxSchedule, Visited, Goto
  <2>3. CASE c = "rx"
    <3>1. pc["rx"] # "change" /\ pc'["rx"] # "change"
      BY <2>1, <2>2, <2>3 DEF TypeInv, CtxOK, Contexts
    <3> QED BY <2>1, <3>1 DEF RxMoves
  <2>4. CASE c # "rx"
    <3>1. pc'["rx"] = pc["rx"] /\ todo'["rx"] = todo["rx"]
      BY <2>2, <2>4 DEF TypeInv, CtxOK, Contexts
    <3> QED BY <2>1, <3>1 DEF RxMoves
  <2> QED BY <2>3, <2>4
<1>6. CASE ConnectEvent(v)
  <2>1. UNCHANGED <<ocs, previous_can_send>>
    BY <1>6 DEF ConnectEvent
  <2>2. pc["rx"] # "change" /\ pc'["rx"] # "change"
    BY <1>6, LocalFacts DEF ConnectEvent, Goto, Complete, Visited, TypeInv, CtxOK, RxOK, Contexts
  <2> QED BY <2>1, <2>2 DEF RxMoves
<1>7. CASE DisconnectEvent(v)
  <2>1. UNCHANGED <<ocs, previous_can_send>>
    BY <1>7 DEF DisconnectEvent
  <2>2. pc["rx"] # "change" /\ pc'["rx"] # "change"
    BY <1>7, LocalFacts DEF DisconnectEvent, Goto, Complete, Visited, TypeInv, CtxOK, RxOK, Contexts
  <2> QED BY <2>1, <2>2 DEF RxMoves
<1>8. CASE FlowctrlEvent
  BY <1>8 DEF RxMoves
<1>9. CASE RxComplete
  <2>1. UNCHANGED <<ocs, previous_can_send>>
    BY <1>9 DEF RxComplete
  <2>2. pc["rx"] # "change" /\ pc'["rx"] # "change"
    BY <1>9, LocalFacts DEF RxComplete, Goto, Complete, Visited, TypeInv, CtxOK, RxOK, Contexts
  <2> QED BY <2>1, <2>2 DEF RxMoves
<1>10. CASE StateChange(v)
  BY <1>10 DEF RxMoves
<1>11. CASE StateChanged
  <2>1. UNCHANGED <<ocs, previous_can_send>>
    BY <1>11 DEF StateChanged
  <2>2. pc["rx"] # "change" /\ pc'["rx"] # "change"
    BY <1>11, LocalFacts DEF StateChanged, Goto, Complete, Visited, TypeInv, CtxOK, RxOK, Contexts
  <2> QED BY <2>1, <2>2 DEF RxMoves
<1>12. CASE SetConnId
  <2>1. UNCHANGED <<ocs, previous_can_send>>
    BY <1>12 DEF SetConnId
  <2>2. pc["rx"] # "change" /\ pc'["rx"] # "change"
    BY <1>12, LocalFacts DEF SetConnId, Goto, Complete, Visited, TypeInv, CtxOK, RxOK, Contexts
  <2> QED BY <2>1, <2>2 DEF RxMoves
<1>13. CASE ConnectWake
  <2>1. UNCHANGED <<ocs, previous_can_send>>
    BY <1>13 DEF ConnectWake
  <2>2. pc["rx"] # "change" /\ pc'["rx"] # "change"
    BY <1>13, LocalFacts DEF ConnectWake, Goto, Complete, Visited, TypeInv, CtxOK, RxOK, Contexts
  <2> QED BY <2>1, <2>2 DEF RxMoves
<1>14. CASE Connect
  <2>1. UNCHANGED <<ocs, previous_can_send>>
    BY <1>14 DEF Connect
  <2>2. pc["rx"] # "change" /\ pc'["rx"] # "change"
    BY <1>14, LocalFacts DEF Connect, Goto, Complete, Visited, TypeInv, CtxOK, RxOK, Contexts
  <2> QED BY <2>1, <2>2 DEF RxMoves
<1>15. CASE Switch
  <2>1. UNCHANGED <<ocs, previous_can_send>>
    BY <1>15 DEF Switch
  <2>2. pc["rx"] # "change" /\ pc'["rx"] # "change"
    BY <1>15, LocalFacts DEF Switch, Goto, Complete, Visited, TypeInv, CtxOK, RxOK, Contexts
  <2> QED BY <2>1, <2>2 DEF RxMoves
<1>16. CASE FlushEp
  <2>1. UNCHANGED <<ocs, previous_can_send>>
    BY <1>16 DEF FlushEp
  <2>2. pc["rx"] # "change" /\ pc'["rx"] # "change"
    BY <1>16, LocalFacts DEF FlushEp, Goto, Complete, Visited, TypeInv, CtxOK, RxOK, Contexts
  <2> QED BY <2>1, <2>2 DEF RxMoves
<1>17. CASE CleanupByIf
  <2>1. UNCHANGED <<ocs, previous_can_send>>
    BY <1>17 DEF CleanupByIf
  <2>2. pc["rx"] # "change" /\ pc'["rx"] # "change"
    BY <1>17, LocalFacts DEF CleanupByIf, Goto, Complete, Visited, TypeInv, CtxOK, RxOK, Contexts
  <2> QED BY <2>1, <2>2 DEF RxMoves
<1>18. CASE HifDone
  <2>1. UNCHANGED <<ocs, previous_can_send, skip>>
    BY <1>18 DEF HifDone
  <2>2. pc'["rx"] = pc["rx"] /\ todo'["rx"] = todo["rx"]
    BY <1>18, ConstFacts DEF HifDone, Goto, TypeInv, CtxOK, Contexts
  <2> QED BY <2>1, <2>2 DEF RxMoves
<1>19. CASE HifDoneWake
  <2>1. UNCHANGED <<ocs, previous_can_send, skip>>
    BY <1>19 DEF HifDoneWake
  <2>2. pc'["rx"] = pc["rx"] /\ todo'["rx"] = todo["rx"]
    BY <1>19, ConstFacts DEF HifDoneWake, Goto, TypeInv, CtxOK, Contexts
  <2> QED BY <2>1, <2>2 DEF RxMoves
<1>20. CASE CmdDone
  <2>1. UNCHANGED <<ocs, previous_can_send, skip>>
    BY <1>20 DEF CmdDone
  <2>2. pc'["rx"] = pc["rx"] /\ todo'["rx"] = todo["rx"]
    BY <1>20, ConstFacts DEF CmdDone, Goto, TypeInv, CtxOK, Contexts
  <2> QED BY <2>1, <2>2 DEF RxMoves
<1>21. CASE HtcDrain
  <2>1. UNCHANGED <<ocs, previous_can_send, skip>>
    BY <1>21 DEF HtcDrain
  <2>2. pc'["rx"] = pc["rx"] /\ todo'["rx"] = todo["rx"]
    BY <1>21, ConstFacts DEF HtcDrain, Goto, TypeInv, CtxOK, Contexts
  <2> QED BY <2>1, <2>2 DEF RxMoves
<1>22. CASE AssocFailed(v)
  <2>1. UNCHANGED <<ocs, previous_can_send>>
    BY <1>22 DEF AssocFailed
  <2>2. pc["rx"] # "change" /\ pc'["rx"] # "change"
    BY <1>22, LocalFacts DEF AssocFailed, Goto, Complete, Visited, TypeInv, CtxOK, RxOK, Contexts
  <2> QED BY <2>1, <2>2 DEF RxMoves
<1>23. CASE RoamSwitch
  <2>1. UNCHANGED <<ocs, previous_can_send>>
    BY <1>23 DEF RoamSwitch
  <2>2. pc["rx"] # "change" /\ pc'["rx"] # "change"
    BY <1>23, LocalFacts DEF RoamSwitch, Goto, Complete, Visited, TypeInv, CtxOK, RxOK, Contexts
  <2> QED BY <2>1, <2>2 DEF RxMoves
<1> QED
  BY <1>1, <1>2, <1>3, <1>4, <1>5, <1>6, <1>7, <1>8, <1>9, <1>10, <1>11, <1>12, <1>13, <1>14,
     <1>15, <1>16, <1>17, <1>18, <1>19, <1>20, <1>21, <1>22, <1>23 DEF Step

\* Outside the loop the last status of every connection is the present one,
\* and sharing does not end during it.
ChannelInv ==
  /\ pc["rx"] = "change" => ~skip
  /\ \A v \in Vifs : \/ previous_can_send[v] = ~ocs[v]
                     \/ pc["rx"] = "change" /\ v \in todo["rx"]

LEMMA ChannelStep ==
  ASSUME TypeInv, ChannelInv, NEW v \in Vifs, RxMoves(v)
  PROVE  ChannelInv'
<1> USE DEF arVars, vifVars, flowVars, htcVars, histVars
<1>1. /\ pc \in [Contexts -> SenderPCs \cup RxPCs \cup CplPCs] /\ todo \in [Contexts -> SUBSET Vifs]
      /\ "rx" \in Contexts /\ previous_can_send \in [Vifs -> BOOLEAN] /\ ocs \in [Vifs -> BOOLEAN]
  BY FlagsAre DEF TypeInv, CtxOK, Contexts, FlagsOK
<1>2. CASE FlowctrlEvent
  <2>1. ~skip' /\ todo'["rx"] = Vifs /\ pc'["rx"] = "change"
    BY <1>1, <1>2 DEF FlowctrlEvent, Goto
  <2> QED BY <2>1 DEF ChannelInv
<1>3. CASE StateChange(v)
  <2>1. /\ pc["rx"] = "change" /\ v \in todo["rx"] /\ UNCHANGED <<ocs, skip>> /\ ~skip
        /\ previous_can_send' = [previous_can_send EXCEPT ![v] = CanSend(v)]
        /\ todo'["rx"] = todo["rx"] \ {v}
        /\ pc'["rx"] = IF todo["rx"] = {v} THEN "changed" ELSE "change"
    BY <1>1, <1>3, StateChangeIs DEF ChannelInv
  <2>2. previous_can_send'[v] = ~ocs'[v]
    BY <1>1, <2>1 DEF CanSend
  <2>3. ASSUME NEW u \in Vifs \ {v}, ~(previous_can_send'[u] = ~ocs'[u])
        PROVE  pc'["rx"] = "change" /\ u \in todo'["rx"]
    <3>1. ~(previous_can_send[u] = ~ocs[u])
      BY <1>1, <2>1, <2>3
    <3>2. u \in todo["rx"]
      BY <3>1 DEF ChannelInv
    <3> QED BY <2>1, <2>3, <3>2
  <2>4. \A u \in Vifs : \/ previous_can_send'[u] = ~ocs'[u]
                        \/ pc'["rx"] = "change" /\ u \in todo'["rx"]
    BY <2>2, <2>3
  <2>5. ~skip'
    BY <2>1
  <2> QED BY <2>4, <2>5 DEF ChannelInv
<1>4. CASE UNCHANGED <<ocs, previous_can_send>> /\ pc["rx"] # "change" /\ pc'["rx"] # "change"
  BY <1>4 DEF ChannelInv
<1>5. CASE UNCHANGED <<ocs, previous_can_send, skip>> /\ pc'["rx"] = pc["rx"] /\ todo'["rx"] = todo["rx"]
  BY <1>5 DEF ChannelInv
<1> QED BY <1>2, <1>3, <1>4, <1>5 DEF RxMoves

LEMMA ReMoves ==
  ASSUME TypeInv, PlaceInv, PktInv, NEW u \in Vifs, NEW v \in Vifs, NEW c \in Vifs \cup {"rx"},
         NEW tag \in {"data", "pri"}, Step(v, c, tag), ~(StateChange(v) /\ u = v)
  PROVE  \A x \in Range(re_queue'[u]) : x \in Range(re_queue[u]) \/ x \notin DataOf(u)
<1> USE DEF arVars, vifVars, flowVars, htcVars, locVars, histVars
<1>1. CASE DataTx(v, tag)
  BY <1>1 DEF DataTx
<1>2. CASE CopyFail(v)
  BY <1>2 DEF CopyFail
<1>3. CASE SchedulePkt(v)
  <2> DEFINE y == <<hand[v]>>
  <2>1. \/ UNCHANGED re_queue
        \/ pkt[hand[v]].tag # "data" /\ re_queue' = [re_queue EXCEPT ![v] = y \o @]
    BY <1>3 DEF SchedulePkt, Enqueue
  <2>2. re_queue \in [Vifs -> Seq(Cookies)]
    BY QueuesAre DEF QueuesOK
  <2>3. hand[v] \in Cookies /\ (pkt[hand[v]].tag = "data" <=> hand[v] \in DataCookies)
    BY <1>3, HandIs DEF SchedulePkt, Holding
  <2>4. y \in Seq(Cookies) /\ Range(y) = {hand[v]}
    BY <2>3, Single
  <2> HIDE DEF y
  <2>5. CASE UNCHANGED re_queue \/ u # v
    <3>1. re_queue'[u] = re_queue[u]
      BY <2>1, <2>2, <2>5
    <3> QED BY <3>1
  <2>6. CASE u = v /\ pkt[hand[v]].tag # "data" /\ re_queue' = [re_queue EXCEPT ![v] = y \o @]
    <3>1. re_queue'[u] = y \o re_queue[u] /\ re_queue[u] \in Seq(Cookies)
      BY <2>2, <2>6
    <3>2. Range(re_queue'[u]) = Range(y) \cup Range(re_queue[u])
      BY <2>4, <3>1, RangeConcat
    <3> QED BY <2>3, <2>4, <2>6, <3>2 DEF DataOf
  <2> QED BY <2>1, <2>5, <2>6
<1>4. CASE SendPkt(v)
  BY <1>4 DEF SendPkt
<1>5. CASE TxSchedule(c, v)
  <2>1. UNCHANGED re_queue \/ re_queue' = [re_queue EXCEPT ![v] = <<>>]
    BY <1>5 DEF TxSchedule
  <2>2. re_queue \in [Vifs -> Seq(Cookies)]
    BY QueuesAre DEF QueuesOK
  <2>3. re_queue'[u] = re_queue[u] \/ re_queue'[u] = <<>>
    BY <2>1, <2>2
  <2> QED BY <2>3, NoCookie
<1>6. CASE ConnectEvent(v)
  <2>1. UNCHANGED re_queue \/ re_queue' = [re_queue EXCEPT ![v] = <<>>]
    BY <1>6 DEF ConnectEvent
  <2>2. re_queue \in [Vifs -> Seq(Cookies)]
    BY QueuesAre DEF QueuesOK
  <2>3. re_queue'[u] = re_queue[u] \/ re_queue'[u] = <<>>
    BY <2>1, <2>2
  <2> QED BY <2>3, NoCookie
<1>7. CASE DisconnectEvent(v)
  BY <1>7 DEF DisconnectEvent
<1>8. CASE FlowctrlEvent
  BY <1>8 DEF FlowctrlEvent
<1>9. CASE RxComplete
  BY <1>9 DEF RxComplete
<1>10. CASE StateChange(v)
  <2>1. UNCHANGED re_queue \/ (u # v /\ re_queue' = [re_queue EXCEPT ![v] = @ \o BackOf(v)])
    BY <1>10, StateChangeIs DEF TakeBack
  <2>2. re_queue \in [Vifs -> Seq(Cookies)]
    BY QueuesAre DEF QueuesOK
  <2> QED BY <2>1, <2>2
<1>11. CASE StateChanged
  BY <1>11 DEF StateChanged
<1>12. CASE SetConnId
  BY <1>12 DEF SetConnId
<1>13. CASE ConnectWake
  BY <1>13 DEF ConnectWake
<1>14. CASE Connect
  BY <1>14 DEF Connect
<1>15. CASE Switch
  BY <1>15 DEF Switch
<1>16. CASE FlushEp
  BY <1>16 DEF FlushEp
<1>17. CASE CleanupByIf
  <2>1. UNCHANGED re_queue \/ re_queue' = [re_queue EXCEPT ![target] = <<>>]
    BY <1>17 DEF CleanupByIf
  <2>2. re_queue \in [Vifs -> Seq(Cookies)]
    BY QueuesAre DEF QueuesOK
  <2>3. re_queue'[u] = re_queue[u] \/ re_queue'[u] = <<>>
    BY <2>1, <2>2
  <2> QED BY <2>3, NoCookie
<1>18. CASE HifDone
  BY <1>18 DEF HifDone
<1>19. CASE HifDoneWake
  BY <1>19 DEF HifDoneWake
<1>20. CASE CmdDone
  BY <1>20 DEF CmdDone
<1>21. CASE HtcDrain
  BY <1>21 DEF HtcDrain
<1>22. CASE AssocFailed(v)
  BY <1>22 DEF AssocFailed
<1>23. CASE RoamSwitch
  BY <1>23 DEF RoamSwitch
<1> QED
  BY <1>1, <1>2, <1>3, <1>4, <1>5, <1>6, <1>7, <1>8, <1>9, <1>10, <1>11, <1>12, <1>13, <1>14,
     <1>15, <1>16, <1>17, <1>18, <1>19, <1>20, <1>21, <1>22, <1>23 DEF Step

\* No data packet is put on a connection's queue of packets that came back, but
\* by taking it back: a sender puts only control packets there, and an event
\* that puts connections off channel finds no packet waiting for one that was
\* on channel.
LEMMA ReStep ==
  ASSUME TypeInv, PlaceInv, PktInv, NEW v \in Vifs, NEW c \in Vifs \cup {"rx"},
         NEW tag \in {"data", "pri"}, Step(v, c, tag), NEW u \in Vifs, ~(StateChange(v) /\ u = v)
  PROVE  Range(re_queue'[u]) \cap DataOf(u)' \subseteq Range(re_queue[u]) \cap DataOf(u)
<1>1. re_queue \in [Vifs -> Seq(Cookies)] /\ Range(re_queue[u]) \subseteq Outstanding
  BY OutIs, QueuesAre DEF QueuesOK
<1>2. Kind(v)
  BY KindStep
<1>3. ASSUME NEW d \in Vifs, NEW g, Taken(d, g) PROVE Range(re_queue'[u]) \cap DataOf(u)' \subseteq Range(re_queue[u]) \cap DataOf(u)
  <2>1. PICK x \in Cookies : x \notin Outstanding /\ \A y \in Cookies \ {x} : pkt'[y] = pkt[y]
    BY <1>3, TakenIs
  <2>2. re_queue'[u] = re_queue[u]
    BY <1>3 DEF Taken
  <2>3. DataCookies \subseteq Cookies
    BY ConstFacts
  <2> QED BY <1>1, <2>1, <2>2, <2>3 DEF DataOf
<1>4. ASSUME NEW cs, Finished(cs) PROVE Range(re_queue'[u]) \cap DataOf(u)' \subseteq Range(re_queue[u]) \cap DataOf(u)
  <2>1. /\ \A y \in Cookies \ Range(cs) : pkt'[y] = pkt[y]
        /\ Range(cs) \cap Range(re_queue[u]) = {}
    BY <1>4, FinishedIs
  <2>2. re_queue'[u] = re_queue[u]
    BY <1>4 DEF Finished
  <2>3. DataCookies \subseteq Cookies
    BY ConstFacts
  <2> QED BY <2>1, <2>2, <2>3 DEF DataOf
<1>5. CASE SamePkts
  <2>1. DataOf(u)' = DataOf(u)
    BY <1>5, SameData
  <2>2. \A x \in Range(re_queue'[u]) : x \in Range(re_queue[u]) \/ x \notin DataOf(u)
    BY ReMoves
  <2> QED BY <2>1, <2>2
<1> QED BY <1>2, <1>3, <1>4, <1>5 DEF Kind

LEMMA NoneBackStep ==
  ASSUME TypeInv, PlaceInv, PktInv, ChannelInv, NoneStranded, NEW v \in Vifs, NEW c \in Vifs \cup {"rx"},
         NEW tag \in {"data", "pri"}, Step(v, c, tag), NEW u \in Vifs, NoneBackYet(u)
  PROVE  NoneBackYet(u)'
<1> USE DEF arVars, vifVars, flowVars, htcVars, histVars
<1>1. /\ pc \in [Contexts -> SenderPCs \cup RxPCs \cup CplPCs] /\ todo \in [Contexts -> SUBSET Vifs]
      /\ "rx" \in Contexts /\ previous_can_send \in [Vifs -> BOOLEAN] /\ ocs \in [Vifs -> BOOLEAN]
  BY FlagsAre DEF TypeInv, CtxOK, Contexts, FlagsOK
<1>2. SUFFICES ASSUME pc'["rx"] = "change", u \in todo'["rx"], previous_can_send'[u]
               PROVE  Range(re_queue'[u]) \cap DataOf(u)' = {}
  BY DEF NoneBackYet
<1>3. CASE FlowctrlEvent
  <2>1. pc["rx"] = "idle" /\ UNCHANGED <<re_queue, previous_can_send, pkt>>
    BY <1>3 DEF FlowctrlEvent
  <2>2. ~ocs[u]
    BY <1>1, <1>2, <2>1 DEF ChannelInv
  <2>3. Queued(u) = <<>>
    BY <2>1, <2>2 DEF NoneStranded, RxComing
  <2>4. Range(re_queue[u]) = {}
    BY <2>3, LocalFacts, NoCookie
  <2> QED BY <2>1, <2>4
<1>4. CASE ~FlowctrlEvent
  <2>1. RxMoves(v)
    BY RxMovesStep
  <2>2. /\ pc["rx"] = "change" /\ u \in todo["rx"] /\ previous_can_send[u] /\ ~(StateChange(v) /\ u = v)
    <3>1. CASE StateChange(v)
      <4>1. /\ pc["rx"] = "change" /\ v \in todo["rx"]
            /\ previous_can_send' = [previous_can_send EXCEPT ![v] = CanSend(v)]
            /\ todo'["rx"] = todo["rx"] \ {v}
        BY <1>1, <3>1, StateChangeIs
      <4> QED BY <1>1, <1>2, <4>1
    <3>2. CASE ~StateChange(v)
      BY <1>2, <1>4, <2>1, <3>2 DEF RxMoves
    <3> QED BY <3>1, <3>2
  <2>3. Range(re_queue[u]) \cap DataOf(u) = {}
    BY <2>2 DEF NoneBackYet
  <2> QED BY <2>2, <2>3, ReStep
<1> QED BY <1>3, <1>4

-----------------------------------------------------------------------------
LEMMA ChannelAlways == Spec => []ChannelInv
<1>1. Init => ChannelInv
  BY DEF Init, ChannelInv, Contexts
<1>2. TypeInv /\ ChannelInv /\ [Next]_vars => ChannelInv'
  <2>1. ASSUME TypeInv, ChannelInv, Next PROVE ChannelInv'
    <3>1. PICK v \in Vifs, c \in Vifs \cup {"rx"}, tag \in {"data", "pri"} : Step(v, c, tag)
      BY <2>1, NextStep
    <3> QED BY <2>1, <3>1, RxMovesStep, ChannelStep
  <2>2. ASSUME ChannelInv, UNCHANGED vars PROVE ChannelInv'
    BY <2>2 DEF vars, arVars, flowVars, locVars, ChannelInv
  <2> QED BY <2>1, <2>2
<1> QED BY <1>1, <1>2, TypeInvAlways, PTL DEF Spec

LEMMA RacedGrows ==
  ASSUME NEW v \in Vifs, NEW c \in Vifs \cup {"rx"}, NEW tag \in {"data", "pri"}, Step(v, c, tag)
  PROVE  raced \subseteq raced'
<1> USE DEF arVars, vifVars, flowVars, htcVars, locVars, histVars
<1>1. CASE DataTx(v, tag)
  BY <1>1 DEF DataTx
<1>2. CASE CopyFail(v)
  BY <1>2 DEF CopyFail
<1>3. CASE SchedulePkt(v)
  BY <1>3 DEF SchedulePkt
<1>4. CASE SendPkt(v)
  BY <1>4 DEF SendPkt
<1>5. CASE TxSchedule(c, v)
  BY <1>5 DEF TxSchedule
<1>6. CASE ConnectEvent(v)
  BY <1>6 DEF ConnectEvent
<1>7. CASE DisconnectEvent(v)
  BY <1>7 DEF DisconnectEvent
<1>8. CASE FlowctrlEvent
  BY <1>8 DEF FlowctrlEvent
<1>9. CASE RxComplete
  BY <1>9 DEF RxComplete
<1>10. CASE StateChange(v)
  BY <1>10, StateChangeIs DEF TakeBack
<1>11. CASE StateChanged
  BY <1>11 DEF StateChanged
<1>12. CASE SetConnId
  BY <1>12 DEF SetConnId
<1>13. CASE ConnectWake
  BY <1>13 DEF ConnectWake
<1>14. CASE Connect
  BY <1>14 DEF Connect
<1>15. CASE Switch
  BY <1>15 DEF Switch
<1>16. CASE FlushEp
  BY <1>16 DEF FlushEp
<1>17. CASE CleanupByIf
  BY <1>17 DEF CleanupByIf
<1>18. CASE HifDone
  BY <1>18 DEF HifDone
<1>19. CASE HifDoneWake
  BY <1>19 DEF HifDoneWake
<1>20. CASE CmdDone
  BY <1>20 DEF CmdDone
<1>21. CASE HtcDrain
  BY <1>21 DEF HtcDrain
<1>22. CASE AssocFailed(v)
  BY <1>22 DEF AssocFailed
<1>23. CASE RoamSwitch
  BY <1>23 DEF RoamSwitch
<1> QED
  BY <1>1, <1>2, <1>3, <1>4, <1>5, <1>6, <1>7, <1>8, <1>9, <1>10, <1>11, <1>12, <1>13, <1>14,
     <1>15, <1>16, <1>17, <1>18, <1>19, <1>20, <1>21, <1>22, <1>23 DEF Step

LEMMA OrderStep ==
  ASSUME TypeInv, PlaceInv, PktInv, ChannelInv, NoneStranded, OrderInv, NEW v \in Vifs,
         NEW c \in Vifs \cup {"rx"}, NEW tag \in {"data", "pri"}, Step(v, c, tag)
  PROVE  OrderInv'
<1>1. ASSUME NEW u \in Vifs, u \notin raced' PROVE OrderOf(u)'
  <2>1. Line(u) /\ SendStillRight(u) /\ NoneBackYet(u)
    BY <1>1, RacedGrows DEF OrderInv, OrderOf, Line
  <2>2. Line(u)'
    BY <2>1, LineStep
  <2>3. SendStillRight(u)'
    BY <1>1, <2>1, SendRightStep
  <2>4. NoneBackYet(u)'
    BY <2>1, NoneBackStep
  <2> QED BY <2>2, <2>3, <2>4 DEF OrderOf, Line
<1> QED BY <1>1 DEF OrderInv

LEMMA OrderAlways == Spec => []OrderInv
<1>1. Init => OrderInv
  <2>1. ASSUME Init, NEW v \in Vifs PROVE OrderOf(v)
    <3>1. /\ txq = <<>> /\ re_queue[v] = <<>> /\ conn_queue[v] = <<>> /\ hand[v] = Nobody
          /\ pc[v] = "idle" /\ pc["rx"] = "idle" /\ Nobody \notin DataOf(v)
      BY <2>1, ConstFacts DEF Init, Contexts, DataOf
    <3>2. Ordered(txq, re_queue[v], conn_queue[v], hand[v], last[v], DataOf(v), Num)
      BY <3>1, NoCookie DEF Ordered, Ahead
    <3> QED BY <3>1, <3>2 DEF OrderOf, SendStillRight, NoneBackYet
  <2> QED BY <2>1 DEF OrderInv
<1>2. TypeInv /\ PlaceInv /\ AccountInv /\ ChannelInv /\ NoneStranded /\ OrderInv /\ [Next]_vars => OrderInv'
  <2>1. ASSUME TypeInv, PlaceInv, AccountInv, ChannelInv, NoneStranded, OrderInv, Next PROVE OrderInv'
    <3>1. PICK v \in Vifs, c \in Vifs \cup {"rx"}, tag \in {"data", "pri"} : Step(v, c, tag)
      BY <2>1, NextStep
    <3> QED BY <2>1, <3>1, OrderStep DEF AccountInv
  <2>2. ASSUME OrderInv, UNCHANGED vars PROVE OrderInv'
    BY <2>2 DEF vars, arVars, flowVars, htcVars, locVars, histVars, OrderInv, OrderOf, SendStillRight,
                NoneBackYet, Queued, DataOf, Num
  <2> QED BY <2>1, <2>2
<1> QED BY <1>1, <1>2, TypeInvAlways, PlaceInvAlways, AccountAlways, ChannelAlways, NoneStrandedHolds,
           PTL DEF Spec

LEMMA LastStays ==
  ASSUME ~HtcDrain, NEW v \in Vifs, NEW c \in Vifs \cup {"rx"},
         NEW tag \in {"data", "pri"}, Step(v, c, tag)
  PROVE  UNCHANGED last
<1> USE DEF arVars, vifVars, flowVars, htcVars, locVars, histVars
<1>1. CASE DataTx(v, tag)
  BY <1>1 DEF DataTx
<1>2. CASE CopyFail(v)
  BY <1>2 DEF CopyFail
<1>3. CASE SchedulePkt(v)
  BY <1>3 DEF SchedulePkt
<1>4. CASE SendPkt(v)
  BY <1>4 DEF SendPkt
<1>5. CASE TxSchedule(c, v)
  BY <1>5 DEF TxSchedule
<1>6. CASE ConnectEvent(v)
  BY <1>6 DEF ConnectEvent
<1>7. CASE DisconnectEvent(v)
  BY <1>7 DEF DisconnectEvent
<1>8. CASE FlowctrlEvent
  BY <1>8 DEF FlowctrlEvent
<1>9. CASE RxComplete
  BY <1>9 DEF RxComplete
<1>10. CASE StateChange(v)
  BY <1>10, StateChangeIs
<1>11. CASE StateChanged
  BY <1>11 DEF StateChanged
<1>12. CASE SetConnId
  BY <1>12 DEF SetConnId
<1>13. CASE ConnectWake
  BY <1>13 DEF ConnectWake
<1>14. CASE Connect
  BY <1>14 DEF Connect
<1>15. CASE Switch
  BY <1>15 DEF Switch
<1>16. CASE FlushEp
  BY <1>16 DEF FlushEp
<1>17. CASE CleanupByIf
  BY <1>17 DEF CleanupByIf
<1>18. CASE HifDone
  BY <1>18 DEF HifDone
<1>19. CASE HifDoneWake
  BY <1>19 DEF HifDoneWake
<1>20. CASE CmdDone
  BY <1>20 DEF CmdDone
<1>21. CASE HtcDrain
  BY <1>21
<1>22. CASE AssocFailed(v)
  BY <1>22 DEF AssocFailed
<1>23. CASE RoamSwitch
  BY <1>23 DEF RoamSwitch
<1> QED
  BY <1>1, <1>2, <1>3, <1>4, <1>5, <1>6, <1>7, <1>8, <1>9, <1>10, <1>11, <1>12, <1>13, <1>14,
     <1>15, <1>16, <1>17, <1>18, <1>19, <1>20, <1>21, <1>22, <1>23 DEF Step

\* The data packets of a connection reach the HIF in the order they were given,
\* unless some were taken back behind one in its sender's hand: wherever they
\* are, those with HTC come before those that came back, these before those
\* that wait, and these before the one being sent.  A step that sends one sends
\* the first of them.
THEOREM OrderKeptHolds == Spec => OrderKept
<1> DEFINE Kept == \A v \in Vifs : v \in raced \/ last'[v] >= last[v]
<1>1. TypeInv /\ PlaceInv /\ AccountInv /\ OrderInv /\ [Next]_vars => [Kept]_vars
  <2>1. ASSUME TypeInv, PlaceInv, AccountInv, OrderInv, Next PROVE Kept
    <3>1. PICK d \in Vifs, c \in Vifs \cup {"rx"}, tag \in {"data", "pri"} : Step(d, c, tag)
      BY <2>1, NextStep
    <3>2. \A v \in Vifs : last[v] >= last[v]
      <4>1. \A v \in Vifs : last[v] \in Int
        BY <2>1, PktsAre, ConstFacts DEF PktsOK
      <4> QED BY <4>1
    <3>3. CASE HtcDrain
      <4>1. \A v \in Vifs : v \in raced \/ Line(v)
        BY <2>1 DEF OrderInv, OrderOf, Line
      <4> QED BY <2>1, <3>3, <4>1, LineDrained DEF AccountInv
    <3>4. CASE ~HtcDrain
      <4>1. UNCHANGED last
        BY <3>1, <3>4, LastStays
      <4> QED BY <3>2, <4>1
    <3> QED BY <3>3, <3>4
  <2> QED BY <2>1
<1>2. Spec => [][Next]_vars /\ [](TypeInv /\ PlaceInv /\ AccountInv /\ OrderInv)
  BY TypeInvAlways, PlaceInvAlways, AccountAlways, OrderAlways, PTL DEF Spec
<1>3. Spec => [][Kept]_vars
  BY <1>1, <1>2, PTL
<1> QED BY <1>3 DEF OrderKept
=============================================================================
