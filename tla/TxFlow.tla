------------------------------- MODULE TxFlow -------------------------------
(***************************************************************************)
(* The data transmit path above HTC and the flow control that follows the  *)
(* firmware's channel hopping (drivers/ath6kl/txrx.c, p2p.c, and the       *)
(* connect and disconnect events of wmi.c and main.c).                     *)
(*                                                                         *)
(* A packet is its cookie.  ath6kl_data_tx takes one, asks the flow        *)
(* control whether the connection is on channel, and either passes it to   *)
(* HTC or leaves it on a queue of the connection; a flow control event     *)
(* takes packets back from HTC or sends the queued ones; completions free  *)
(* the cookies and restart the network queues.                             *)
(*                                                                         *)
(* Interfaces are stations or P2P clients, so a connection is named by its *)
(* interface; its id is set by the event that connects it, before any data *)
(* is sent, and stays.  One endpoint carries the data.  HTC, modelled in HtcTx, is  *)
(* reduced to its queue and the packets the HIF holds.                     *)
(*                                                                         *)
(* Contexts: one sender per interface (the network stack calls the         *)
(* driver's transmit function of a device from one context at a time),     *)
(* "rx", the worker that handles WMI events, and "cpl", the worker that    *)
(* completes transmissions.                                                *)
(***************************************************************************)
EXTENDS Integers, Sequences, FiniteSets, Functions, Subsequence

CONSTANTS
  Vifs,             \* interfaces
  DataCookies,      \* COOKIE_TYPE_DATA, MAX_COOKIE_DATA_NUM of them
  CtrlCookies,      \* COOKIE_TYPE_CTRL
  MaxVifCookie,     \* MAX_VIF_COOKIE_NUM
  RecycleLimit,     \* ATH6KL_P2P_FLOWCTRL_RECYCLE_LIMIT
  TxqLimit,         \* ATH6KL_P2P_FLOWCTRL_TXQ_LIMIT
  ReqStep,          \* ATH6KL_P2P_FLOWCTRL_REQ_STEP
  MaxDepth,         \* max_txq_depth of the endpoint
  CopyFails,        \* skb_copy_expand may fail
  MaxPkts,          \* bound: packets sent
  MaxEvents,        \* bound: flow control events
  MaxConnects       \* bound: connect events

ASSUME TxFlowConstants ==
  /\ IsFiniteSet(DataCookies) /\ IsFiniteSet(CtrlCookies)
  /\ DataCookies \cap CtrlCookies = {} /\ "none" \notin DataCookies \cup CtrlCookies
  /\ IsFiniteSet(Vifs) /\ Vifs # {} /\ Vifs \cap {"rx", "cpl", "none"} = {}
  /\ MaxVifCookie \in Nat /\ RecycleLimit \in Nat
  /\ TxqLimit \in Nat /\ ReqStep \in Nat \ {0} /\ MaxDepth \in Nat \ {0}
  /\ CopyFails \in BOOLEAN
  /\ MaxPkts \in Nat /\ MaxEvents \in Nat /\ MaxConnects \in Nat

Cookies == DataCookies \cup CtrlCookies
Nobody == "none"

VARIABLES
  \* struct ath6kl
  free,                 \* the two cookie lists
  mcc, skip,            \* MCC_ENABLED, SKIP_FLOWCTRL_EVENT
  tx_on_vif,
  tx_pending,
  \* struct ath6kl_vif and its net device
  connected, carrier,   \* CONNECTED; the carrier is on
  stopped,              \* the network queue is stopped
  data_cookie_count,
  \* struct ath6kl_fw_conn_list
  ocs, previous_can_send, conn_queue, re_queue, sche_tx_queued,
  \* struct htc_packet
  pkt,                  \* interface, tag and recycle_count of the packet
  pvif,                 \* the field vif, kept from one use to the next
  \* HTC
  txq, hif,
  cmd,                  \* a WMI command is outstanding
  \* locals
  pc, hand,             \* the sender's cookie
  batch, cont,          \* the container of "rx" and where it returns to
  todo,                 \* connections a loop over fw_conn_list has to visit
  target,               \* the interface of the event "rx" handles
  \* history
  born, last,           \* packets accepted from, and last one sent for, a vif
  lost,                 \* cookies a failed copy left with nobody
  raced,                \* a packet was taken back behind one in the sender's
                        \* hand
  events, connects

arVars   == <<free, mcc, skip, tx_on_vif, tx_pending>>
vifVars  == <<connected, carrier, stopped, data_cookie_count>>
flowVars == <<ocs, previous_can_send, conn_queue, re_queue,
              sche_tx_queued>>
htcVars  == <<txq, hif, cmd>>
locVars  == <<pc, hand, batch, cont, todo, target>>
histVars == <<born, last, lost, raced, events, connects>>
vars == <<arVars, vifVars, flowVars, pkt, pvif, htcVars, locVars, histVars>>

Contexts == Vifs \cup {"rx", "cpl"}

Goto(c, l) == pc' = [pc EXCEPT ![c] = l]

Kinds == {"data", "ctrl"}
CookiesOf(k) == IF k = "data" THEN DataCookies ELSE CtrlCookies
KindOf(tag) == IF tag = "pri" THEN "ctrl" ELSE "data"

Queued(v) == re_queue[v] \o conn_queue[v]
-----------------------------------------------------------------------------
(* HTC and the network queues *)

\* _check_can_send
CanSend(v) == ~ocs[v] \/ skip

\* ath6kl_tx_queue_full for the only active stream: no packet is dropped.
\* More than one interface transmitting hides a full queue.
QueueFullStops(sending) == IF Cardinality(sending) > 1 THEN {} ELSE Vifs

\* ath6kl_htc_tx of the packets ps one after the other, with the stops of
\* htc_send_pkts_sched_queue; all of it is under tx_lock.  The interfaces in
\* sending have packets with HTC.
HtcSend(ps, sending) ==
  LET depths == Len(txq) .. (Len(txq) + Len(ps) - 1)
      full   == \E d \in depths : d >= MaxDepth
      high   == mcc /\ \E d \in depths : d < MaxDepth /\ d + 1 > TxqLimit
  IN  /\ txq' = txq \o ps
      /\ stopped' = stopped \cup (IF full THEN QueueFullStops(sending) ELSE {})
                            \cup (IF high THEN connected ELSE {})

\* HTC gives the first packet to the HIF.
HtcDrain ==
  /\ txq # <<>>
  /\ txq' = Tail(txq)
  /\ hif' = hif \cup {Head(txq)}
  /\ LET p == pkt[Head(txq)]
     IN  last' = IF p.tag = "data" THEN [last EXCEPT ![p.vif] = p.num] ELSE last
  /\ UNCHANGED <<arVars, vifVars, flowVars, pkt, pvif, cmd, locVars, born,
                 lost, raced, events, connects>>

-----------------------------------------------------------------------------
(* ath6kl_tx_complete *)

\* ath6kl_free_cookie, of the packets cs one after the other: each list is a
\* stack.
FreeCookies(cs) ==
  LET rev == [i \in 1 .. Len(cs) |-> cs[Len(cs) + 1 - i]]
  IN  free' = [k \in Kinds |->
                 Keep(rev, {i \in DOMAIN rev : rev[i] \in CookiesOf(k)}) \o free[k]]

\* What a free cookie's packet holds is never read, but for its field vif.
NoPkt == [vif |-> Nobody, tag |-> "data", recycle |-> 0, num |-> 0]

\* Mutation: frames that took a control cookie are counted too.
ReapAnyTag(cs) ==
  LET mine(v) == {i \in DOMAIN cs : pkt[cs[i]].vif = v}
  IN  /\ FreeCookies(cs)
      /\ tx_pending' = tx_pending - Len(cs)
      /\ tx_on_vif' = {v \in tx_on_vif : mine(v) = {}}
      /\ data_cookie_count' =
           [v \in Vifs |-> data_cookie_count[v] - Cardinality(mine(v))]
      /\ pkt' = [c \in Cookies |-> IF c \in Range(cs) THEN NoPkt ELSE pkt[c]]

\* Its section under ar->lock, for the packets cs.
Reap(cs) ==
  LET mine(v) == {i \in DOMAIN cs : pkt[cs[i]].vif = v}
      data(v) == {i \in mine(v) : pkt[cs[i]].tag = "data"}
  IN  /\ FreeCookies(cs)
      /\ tx_pending' = tx_pending - Len(cs)
      /\ tx_on_vif' = {v \in tx_on_vif : mine(v) = {}}
      /\ data_cookie_count' =
           [v \in Vifs |-> data_cookie_count[v] - Cardinality(data(v))]
      /\ pkt' = [c \in Cookies |-> IF c \in Range(cs) THEN NoPkt ELSE pkt[c]]

\* The netif_wake_queue calls: with multi-channel concurrency, depth is the
\* queue depth of the endpoint of the last packet, if there was a packet.
Wakes(some, depth) ==
  IF mcc /\ ~(some /\ depth < ReqStep) THEN {} ELSE connected

\* The completion worker takes a packet from the HIF.
HifDone ==
  /\ pc["cpl"] = "idle"
  /\ \E c \in hif :
       /\ hif' = hif \ {c}
       /\ Reap(<<c>>)
  /\ Goto("cpl", "wake")
  /\ UNCHANGED <<mcc, skip, connected, carrier, stopped, flowVars, pvif, txq,
                 cmd, hand, batch, cont, todo, target, histVars>>

HifDoneWake ==
  /\ pc["cpl"] = "wake"
  /\ stopped' = stopped \ Wakes(TRUE, Len(txq))
  /\ Goto("cpl", "idle")
  /\ UNCHANGED <<arVars, connected, carrier, data_cookie_count, flowVars, pkt,
                 pvif, htcVars, hand, batch, cont, todo, target, histVars>>

\* The completion of a WMI command ends the same way; the control
\* endpoint's queue is short.
CmdDone ==
  /\ cmd
  /\ pc["cpl"] = "idle"
  /\ cmd' = FALSE
  /\ \E v \in Vifs : tx_on_vif' = tx_on_vif \ {v}
  /\ stopped' = stopped \ Wakes(TRUE, 0)
  /\ UNCHANGED <<free, mcc, skip, tx_pending, connected, carrier,
                 data_cookie_count, flowVars, pkt, pvif, txq, hif, locVars,
                 histVars>>

\* The worker "rx" completes the packets of its container, then goes on.
RxComplete ==
  /\ pc["rx"] = "reap"
  /\ Reap(batch)
  /\ stopped' = stopped \ Wakes(batch # <<>>, Len(txq))
  /\ batch' = <<>> /\ cont' = "idle"
  /\ Goto("rx", cont)
  /\ todo' = [todo EXCEPT !["rx"] = IF cont = "sched" THEN Vifs ELSE {}]
  /\ UNCHANGED <<mcc, skip, connected, carrier, flowVars, pvif, htcVars, hand,
                 target, histVars>>

Complete(cs, l) ==
  /\ batch' = cs
  /\ cont' = l
  /\ Goto("rx", "reap")

-----------------------------------------------------------------------------
(* ath6kl_data_tx *)

\* Under ar->lock: EAPOL frames take a control cookie, the others a data
\* cookie, within the interface's share while channels are shared.  A frame
\* that finds no cookie is dropped.
MayAlloc(v, tag) ==
  /\ free[KindOf(tag)] # <<>>
  /\ tag = "data" /\ mcc => data_cookie_count[v] <= MaxVifCookie

\* The packets accepted so far.
Accepted == {x \in Vifs \X (1 .. MaxPkts) : x[2] <= born[x[1]]}

\* The interface is up and a frame arrives.
DataTx(v, tag) ==
  /\ pc[v] = "idle"
  /\ v \in connected \cap carrier /\ v \notin stopped
  /\ Cardinality(Accepted) < MaxPkts
  /\ MayAlloc(v, tag)
  /\ LET k == KindOf(tag)
         c == Head(free[k])
     IN  /\ free' = [free EXCEPT ![k] = Tail(@)]
         /\ hand' = [hand EXCEPT ![v] = c]
         /\ pkt' = [pkt EXCEPT ![c] = [vif |-> v, tag |-> tag, recycle |-> 0,
                                       num |-> born[v] + 1]]
  /\ data_cookie_count' =
       [data_cookie_count EXCEPT ![v] = IF tag = "data" THEN @ + 1 ELSE @]
  /\ tx_pending' = tx_pending + 1
  /\ born' = [born EXCEPT ![v] = @ + 1]
  /\ Goto(v, "schedule")
  /\ UNCHANGED <<mcc, skip, tx_on_vif, connected, carrier, stopped, flowVars,
                 pvif, htcVars, batch, cont, todo, target, last, lost, raced,
                 events, connects>>

\* skb_copy_expand returns NULL after the cookie was taken: fail_tx frees
\* the frame only.
CopyFail(v) ==
  /\ CopyFails
  /\ pc[v] = "schedule"
  /\ lost' = lost \cup {hand[v]}
  /\ hand' = [hand EXCEPT ![v] = Nobody]
  /\ Goto(v, "idle")
  /\ UNCHANGED <<arVars, vifVars, flowVars, pkt, pvif, htcVars, batch, cont,
                 todo, target, born, last, raced, events, connects>>

\* Mutation: every packet is put first.
EnqueueHead(v, c) ==
  /\ conn_queue' = [conn_queue EXCEPT ![v] = <<c>> \o @]
  /\ UNCHANGED re_queue
  /\ sche_tx_queued' = [sche_tx_queued EXCEPT ![v] = @ + 1]

\* The queueing of ath6kl_p2p_flowctrl_tx_schedule_pkt
Enqueue(v, c) ==
  /\ IF pkt[c].tag = "pri"
     THEN /\ re_queue' = [re_queue EXCEPT ![v] = <<c>> \o @]
          /\ UNCHANGED conn_queue
     ELSE /\ conn_queue' = [conn_queue EXCEPT ![v] = Append(@, c)]
          /\ UNCHANGED re_queue
  /\ sche_tx_queued' = [sche_tx_queued EXCEPT ![v] = @ + 1]

\* ath6kl_p2p_flowctrl_get_conn_id and .._tx_schedule_pkt, under
\* p2p_flowctrl_lock: send, queue, or queue and schedule.
SchedulePkt(v) ==
  /\ pc[v] = "schedule"
  /\ IF CanSend(v) /\ Queued(v) = <<>>
     THEN /\ Goto(v, "send")
          /\ UNCHANGED <<hand, todo, flowVars>>
     ELSE /\ Enqueue(v, hand[v])
          /\ hand' = [hand EXCEPT ![v] = Nobody]
          /\ Goto(v, IF CanSend(v) THEN "sched" ELSE "idle")
          /\ todo' = [todo EXCEPT ![v] = IF CanSend(v) THEN Vifs ELSE {}]
          /\ UNCHANGED <<ocs, previous_can_send>>
  /\ UNCHANGED <<arVars, vifVars, pkt, pvif, htcVars, batch, cont, target,
                 histVars>>

\* The rest of ath6kl_data_tx: no lock is held since the decision.
SendPkt(v) ==
  /\ pc[v] = "send"
  /\ pvif' = [pvif EXCEPT ![hand[v]] = v]
  /\ tx_on_vif' = tx_on_vif \cup {v}
  /\ HtcSend(<<hand[v]>>, tx_on_vif \cup {v})
  /\ hand' = [hand EXCEPT ![v] = Nobody]
  /\ Goto(v, "idle")
  /\ UNCHANGED <<free, mcc, skip, tx_pending, connected, carrier,
                 data_cookie_count, flowVars, pkt, hif, cmd, batch, cont, todo,
                 target, histVars>>

\* Context c is done with connection v of its loop and goes to l after the
\* last one.
Visited(c, v, l) ==
  /\ todo' = [todo EXCEPT ![c] = @ \ {v}]
  /\ Goto(c, IF todo[c] = {v} THEN l ELSE pc[c])

\* One connection's turn in ath6kl_p2p_flowctrl_tx_schedule, called by a
\* sender or by "rx", under p2p_flowctrl_lock.
TxSchedule(c, v) ==
  /\ pc[c] = "sched" /\ v \in todo[c]
  /\ IF CanSend(v)
     THEN /\ HtcSend(Queued(v), tx_on_vif)
          /\ re_queue' = [re_queue EXCEPT ![v] = <<>>]
          /\ conn_queue' = [conn_queue EXCEPT ![v] = <<>>]
          /\ sche_tx_queued' = [sche_tx_queued EXCEPT ![v] = @ - Len(Queued(v))]
     ELSE UNCHANGED <<txq, stopped, re_queue, conn_queue, sche_tx_queued>>
  /\ Visited(c, v, "idle")
  /\ UNCHANGED <<arVars, connected, carrier, data_cookie_count, ocs,
                 previous_can_send, pkt, pvif, hif, cmd, hand, batch, cont,
                 target, histVars>>

-----------------------------------------------------------------------------
(* ath6kl_wmi_flowctrl_ind_event_rx: state_update, state_change, tx_schedule *)

FlowctrlEvent ==
  /\ pc["rx"] = "idle" /\ ~skip
  /\ events < MaxEvents
  /\ ocs' \in [Vifs -> BOOLEAN]
  /\ events' = events + 1
  /\ Goto("rx", "change")
  /\ todo' = [todo EXCEPT !["rx"] = Vifs]
  /\ UNCHANGED <<arVars, vifVars, previous_can_send, conn_queue, re_queue,
                 sche_tx_queued, pkt, pvif, htcVars, hand, batch, cont, target,
                 born, last, lost, raced, connects>>

\* Mutation: a packet is taken back for ever.
NeverAged(c) == FALSE

\* The packet was taken back too often.
Aged(c) == pkt[c].recycle > RecycleLimit

\* One connection's turn in the loop of ath6kl_p2p_flowctrl_state_change, under
\* p2p_flowctrl_lock and tx_lock: what HTC has queued for a connection that
\* left the channel comes back to re_queue.
StateChange(v) ==
  /\ pc["rx"] = "change" /\ v \in todo["rx"]
  /\ IF ~CanSend(v) /\ previous_can_send[v]
     THEN LET mine == {i \in DOMAIN txq : pkt[txq[i]].vif = v}
              aged == {i \in mine : Aged(txq[i])}
              back == Keep(txq, mine \ aged)
          IN  /\ txq' = Keep(txq, DOMAIN txq \ mine)
              /\ batch' = batch \o Keep(txq, aged)
              /\ re_queue' = [re_queue EXCEPT ![v] = @ \o back]
              /\ sche_tx_queued' = [sche_tx_queued EXCEPT ![v] = @ + Len(back)]
              /\ pkt' = [c \in Cookies |-> IF c \in Range(back)
                                           THEN [pkt[c] EXCEPT !.recycle = @ + 1]
                                           ELSE pkt[c]]
              /\ raced' = IF back # <<>> /\ pc[v] = "send" THEN raced \cup {v}
                                                          ELSE raced
     ELSE UNCHANGED <<txq, batch, re_queue, sche_tx_queued, pkt, raced>>
  /\ previous_can_send' = [previous_can_send EXCEPT ![v] = CanSend(v)]
  /\ Visited("rx", v, "changed")
  /\ UNCHANGED <<arVars, vifVars, ocs, conn_queue, pvif, hif, cmd, hand, cont,
                 target, born, last, lost, events, connects>>

\* Mutation: nobody is woken.
NoFlowWake == stopped' = stopped

\* Its end: wake the interfaces, then complete what was dropped.
FlowWake == stopped' = stopped \ connected

\* Mutation: tx_schedule is not called after the change.
ChangedOnly ==
  /\ pc["rx"] = "changed"
  /\ FlowWake
  /\ Complete(batch, "idle")
  /\ UNCHANGED <<arVars, connected, carrier, data_cookie_count, flowVars, pkt,
                 pvif, htcVars, hand, todo, target, histVars>>

StateChanged ==
  /\ pc["rx"] = "changed"
  /\ FlowWake
  /\ Complete(batch, "sched")
  /\ UNCHANGED <<arVars, connected, carrier, data_cookie_count, flowVars, pkt,
                 pvif, htcVars, hand, todo, target, histVars>>

-----------------------------------------------------------------------------
(* Connect and disconnect events, handled by "rx" *)

\* ath6kl_p2p_flowctrl_set_conn_id: the first connection, or a roaming
\* station's next one.  The lock is released only to complete packets.
ConnectEvent(v) ==
  /\ pc["rx"] = "idle"
  /\ connects < MaxConnects
  /\ connects' = connects + 1
  /\ target' = v
  /\ IF sche_tx_queued[v] # 0
     THEN /\ conn_queue' = [conn_queue EXCEPT ![v] = <<>>]
          /\ re_queue' = [re_queue EXCEPT ![v] = <<>>]
          /\ sche_tx_queued' = [sche_tx_queued EXCEPT ![v] = @ - Len(Queued(v))]
          /\ Complete(Queued(v), "set")
     ELSE /\ Goto("rx", "netif")
          /\ UNCHANGED <<conn_queue, re_queue, sche_tx_queued, batch, cont>>
  /\ UNCHANGED <<arVars, vifVars, ocs, previous_can_send, pkt, pvif, htcVars,
                 hand, todo, born, last, lost, raced, events>>

\* Its end, with the lock taken again after the completions
SetConnId ==
  /\ pc["rx"] = "set"
  /\ sche_tx_queued' = [sche_tx_queued EXCEPT ![target] = 0]
  /\ Goto("rx", "netif")
  /\ UNCHANGED <<arVars, vifVars, ocs, previous_can_send, conn_queue, re_queue,
                 pkt, pvif, htcVars, hand, batch, cont, todo, target,
                 histVars>>

\* ath6kl_connect_event: send commands, wake the queue, then set CONNECTED.
ConnectWake ==
  /\ pc["rx"] = "netif"
  /\ cmd' = TRUE
  /\ stopped' = stopped \ {target}
  /\ Goto("rx", "connect")
  /\ UNCHANGED <<arVars, connected, carrier, data_cookie_count, flowVars, pkt,
                 pvif, txq, hif, hand, batch, cont, todo, target, histVars>>

\* ath6kl_switch_parameter_based_on_connection, with the interfaces on in
\* place of connected: two of them may be on different channels.
SwitchParameter(on) ==
  /\ mcc' \in IF Cardinality(on) > 1 THEN BOOLEAN ELSE {FALSE}
  /\ skip' = ~mcc'

\* The rest of it, with the bss filter command: nothing sets usr_bss_filter,
\* so the command is always sent.
Connect ==
  /\ pc["rx"] = "connect"
  /\ connected' = connected \cup {target}
  /\ carrier' = carrier \cup {target}
  /\ cmd' = TRUE
  /\ Goto("rx", "switch")
  /\ UNCHANGED <<arVars, stopped, data_cookie_count, flowVars, pkt, pvif, txq,
                 hif, hand, batch, cont, todo, target, histVars>>

Switch ==
  /\ pc["rx"] = "switch"
  /\ SwitchParameter(connected)
  /\ target' = Nobody
  /\ Goto("rx", "idle")
  /\ UNCHANGED <<free, tx_on_vif, tx_pending, vifVars, flowVars, pkt, pvif,
                 htcVars, hand, batch, cont, todo, histVars>>

\* ath6kl_disconnect_event of a station sends a command, clears CONNECTED ..
DisconnectEvent(v) ==
  /\ pc["rx"] = "idle"
  /\ v \in connected
  /\ connected' = connected \ {v}
  /\ carrier' = carrier \ {v}
  /\ cmd' = TRUE
  /\ target' = v
  /\ Goto("rx", "stop")
  /\ UNCHANGED <<arVars, stopped, data_cookie_count, flowVars, pkt, pvif, txq,
                 hif, hand, batch, cont, todo, histVars>>

\* .. or, when an association failed that the target tries again, sets it: the
\* carrier and the queue stay as they are.
AssocFailed(v) ==
  /\ pc["rx"] = "idle"
  /\ connects < MaxConnects
  /\ connects' = connects + 1
  /\ connected' = connected \cup {v}
  /\ cmd' = TRUE
  /\ target' = v
  /\ Goto("rx", "roam")
  /\ UNCHANGED <<arVars, carrier, stopped, data_cookie_count, flowVars, pkt,
                 pvif, txq, hif, hand, batch, cont, todo, born, last, lost,
                 raced, events>>

\* The event goes on: the queue is stopped, and ath6kl_flush_data_in_ep_by_if
\* drops HTC's packets, told by their field vif.
FlushEp ==
  /\ pc["rx"] = "stop"
  /\ stopped' = stopped \cup {target}
  /\ LET mine == {i \in DOMAIN txq : pvif[txq[i]] = target}
     IN  txq' = Keep(txq, DOMAIN txq \ mine) /\ Complete(Keep(txq, mine), "cleanup")
  /\ UNCHANGED <<arVars, connected, carrier, data_cookie_count, flowVars, pkt,
                 pvif, hif, cmd, hand, todo, target, histVars>>

\* ath6kl_p2p_flowctrl_conn_list_cleanup_by_if
CleanupByIf ==
  /\ pc["rx"] = "cleanup"
  /\ conn_queue' = [conn_queue EXCEPT ![target] = <<>>]
  /\ re_queue' = [re_queue EXCEPT ![target] = <<>>]
  /\ sche_tx_queued' =
       [sche_tx_queued EXCEPT ![target] = @ - Len(Queued(target))]
  /\ Complete(Queued(target), "roam")
  /\ UNCHANGED <<arVars, vifVars, ocs, previous_can_send, pkt, pvif, htcVars,
                 hand, todo, target, histVars>>

\* ath6kl_judge_roam_parameter sends a command with or without roaming; then
\* the parameters are switched.  A completion between the two is that of the
\* event's first command.
RoamSwitch ==
  /\ pc["rx"] = "roam"
  /\ cmd' = TRUE
  /\ SwitchParameter(connected)
  /\ target' = Nobody
  /\ Goto("rx", "idle")
  /\ UNCHANGED <<free, tx_on_vif, tx_pending, vifVars, flowVars, pkt, pvif, txq,
                 hif, hand, batch, cont, todo, histVars>>

-----------------------------------------------------------------------------
\* ath6kl_cookie_init: the cookies in some order.
Listed(S) == CHOOSE f \in [1 .. Cardinality(S) -> S] : IsInjective(f)

Init ==
  /\ free = [k \in Kinds |-> Listed(CookiesOf(k))]
  /\ mcc = FALSE /\ skip = FALSE
  /\ tx_on_vif = {} /\ tx_pending = 0
  /\ connected = {} /\ carrier = {} /\ stopped = Vifs
  /\ data_cookie_count = [v \in Vifs |-> 0]
  /\ ocs = [v \in Vifs |-> FALSE]
  /\ previous_can_send = [v \in Vifs |-> TRUE]
  /\ conn_queue = [v \in Vifs |-> <<>>]
  /\ re_queue = [v \in Vifs |-> <<>>]
  /\ sche_tx_queued = [v \in Vifs |-> 0]
  /\ pkt = [c \in Cookies |-> NoPkt]
  /\ pvif = [c \in Cookies |-> Nobody]
  /\ txq = <<>> /\ hif = {} /\ cmd = FALSE
  /\ pc = [c \in Contexts |-> "idle"]
  /\ hand = [v \in Vifs |-> Nobody]
  /\ batch = <<>> /\ cont = "idle" /\ target = Nobody
  /\ todo = [c \in Contexts |-> {}]
  /\ born = [v \in Vifs |-> 0]
  /\ last = [v \in Vifs |-> 0]
  /\ lost = {} /\ raced = {}
  /\ events = 0 /\ connects = 0

SenderStep(v) == SchedulePkt(v) \/ SendPkt(v) \/ \E u \in Vifs : TxSchedule(v, u)

RxStep ==
  \/ RxComplete
  \/ (\E v \in Vifs : StateChange(v) \/ TxSchedule("rx", v)) \/ StateChanged
  \/ SetConnId \/ ConnectWake \/ Connect \/ Switch
  \/ FlushEp \/ CleanupByIf \/ RoamSwitch

CplStep == HifDone \/ HifDoneWake \/ CmdDone

Next ==
  \/ \E v \in Vifs, tag \in {"data", "pri"} : DataTx(v, tag)
  \/ \E v \in Vifs : SenderStep(v) \/ CopyFail(v)
  \/ \E v \in Vifs : ConnectEvent(v) \/ DisconnectEvent(v) \/ AssocFailed(v)
  \/ FlowctrlEvent
  \/ RxStep
  \/ CplStep
  \/ HtcDrain

Spec == Init /\ [][Next]_vars

\* Senders and workers run on; the target returns credits, so HTC's queue
\* drains, and the HIF completes what it was given.
FairSpec ==
  /\ Spec
  /\ \A v \in Vifs : WF_vars(SenderStep(v))
  /\ WF_vars(RxStep)
  /\ WF_vars(HifDone \/ HifDoneWake) /\ WF_vars(CmdDone)
  /\ WF_vars(HtcDrain)

-----------------------------------------------------------------------------
(* Properties *)

Packets(q) == q \in Seq(Cookies) /\ Len(q) <= Cardinality(Cookies)

PktType == [vif : Vifs \cup {Nobody}, tag : {"data", "pri"},
            recycle : 0 .. (RecycleLimit + 1), num : 0 .. MaxPkts]

\* The shape of the state.
TypeOK ==
  /\ \A k \in Kinds : Packets(free[k])
  /\ mcc \in BOOLEAN /\ skip \in BOOLEAN /\ cmd \in BOOLEAN
  /\ tx_on_vif \subseteq Vifs /\ connected \subseteq Vifs /\ carrier \subseteq Vifs
  /\ stopped \subseteq Vifs /\ raced \subseteq Vifs
  /\ tx_pending \in 0 .. Cardinality(Cookies)
  /\ data_cookie_count \in [Vifs -> 0 .. Cardinality(DataCookies)]
  /\ ocs \in [Vifs -> BOOLEAN] /\ previous_can_send \in [Vifs -> BOOLEAN]
  /\ \A v \in Vifs : Packets(conn_queue[v]) /\ Packets(re_queue[v])
  /\ sche_tx_queued \in [Vifs -> Int]
  /\ pkt \in [Cookies -> PktType]
  /\ pvif \in [Cookies -> Vifs \cup {Nobody}]
  /\ Packets(txq) /\ hif \subseteq Cookies /\ Packets(batch)
  /\ pc \in [Contexts -> {"idle", "schedule", "send", "sched", "reap", "wake",
                          "change", "changed", "set", "netif", "connect",
                          "switch", "stop", "cleanup", "roam"}]
  /\ hand \in [Vifs -> Cookies \cup {Nobody}]
  /\ todo \in [Contexts -> SUBSET Vifs]
  /\ target \in Vifs \cup {Nobody}
  /\ \A v \in Vifs : born[v] \in 0 .. MaxPkts /\ last[v] \in 0 .. born[v]
  /\ lost \subseteq Cookies
  /\ events \in 0 .. MaxEvents /\ connects \in 0 .. MaxConnects

\* The positions in the list q, called n, that hold cookie c.
At(n, q, c) == {<<n, i>> : i \in {j \in DOMAIN q : q[j] = c}}

PlacesOf(c) ==
  (UNION (   {At(<<"free", k>>, free[k], c) : k \in Kinds}
        \cup {At(<<"re", v>>, re_queue[v], c) : v \in Vifs}
        \cup {At(<<"conn", v>>, conn_queue[v], c) : v \in Vifs}
        \cup {At(<<"txq", Nobody>>, txq, c), At(<<"batch", Nobody>>, batch, c)}))
  \cup {<<<<"hand", v>>, 0>> : v \in {u \in Vifs : hand[u] = c}}
  \cup {<<<<"hif", Nobody>>, 0>> : x \in hif \cap {c}}
  \cup {<<<<"lost", Nobody>>, 0>> : x \in lost \cap {c}}

Outstanding == Cookies \ (Range(free["data"]) \cup Range(free["ctrl"]))

\* Through queueing, taking back, flushing, dropping and completion, by any
\* mix of senders and workers, a cookie is in one place once, and the
\* counters that admit new packets agree with the cookies out.  The count of
\* a connection's queued packets is never above what its queues hold (it may
\* be below: set_conn_id zeroes it after a section without the lock).
CookiesAccounted ==
  /\ \A c \in Cookies : Cardinality(PlacesOf(c)) = 1
  /\ tx_pending = Cardinality(Outstanding)
  /\ \A v \in Vifs :
       data_cookie_count[v] =
         Cardinality({c \in Outstanding \cap DataCookies : pkt[c].vif = v})
  /\ \A v \in Vifs : sche_tx_queued[v] <= Len(Queued(v))

\* The worker is on its way to connection v in a tx_schedule of its own.
RxComing(v) == \/ pc["rx"] \in {"change", "changed"}
               \/ pc["rx"] = "reap" /\ cont = "sched"
               \/ pc["rx"] = "sched" /\ v \in todo["rx"]

\* Packets of a connection that is on channel wait on its queues only until
\* the worker, which put it on channel, comes by and sends them: no later
\* event would.
NoneStranded == \A v \in Vifs : ~ocs[v] /\ Queued(v) # <<>> => RxComing(v)

\* Data packets of a connection reach the HIF in the order the network stack
\* gave them, however often they are queued and taken back; the exception is
\* a packet in its sender's hand, decided to be sent, while the ones before
\* it are taken back.
OrderKept ==
  [][\A v \in Vifs : v \in raced \/ last'[v] >= last[v]]_vars

\* A connected interface whose queue was stopped is woken again.
NetifWoken ==
  \A v \in Vifs :
    (v \in connected /\ v \in stopped) ~> (v \notin connected \/ v \notin stopped)
=============================================================================
