------------------------------- MODULE HtcTx -------------------------------
(***************************************************************************)
(* The transmit half of the HTC pipe layer (drivers/ath6kl/htc_pipe.c):    *)
(* endpoint queues, target credits, the "only one thread drains an         *)
(* endpoint" protocol around tx_lock, the hand-over to the USB HIF and the *)
(* two ways back (transmit completions and credit reports).                *)
(*                                                                         *)
(* A thread is any kernel context that can be inside the layer: a network  *)
(* or WMI sender, the completion worker of a pipe, the control-endpoint    *)
(* watchdog timer.  One step is what the code does in one tx_lock section, *)
(* or between two of them; the loop of get_htc_packet() runs with tx_lock  *)
(* held across several steps, so the lock is a variable.                   *)
(*                                                                         *)
(* Configuration modelled: htc_bundle_send = 0 (the module default).       *)
(* Endpoint 0 (start-up messages, no credits) is not part of this module.  *)
(***************************************************************************)
EXTENDS Integers, Sequences, FiniteSets

CONSTANTS
  Senders,      \* contexts that call ath6kl_htc_pipe_tx / flush_txep
  Workers,      \* contexts that run io_complete_work of a pipe
  Timers,       \* contexts that run the control-endpoint watchdog
  NoThread,     \* tx_lock is free
  Packets,      \* struct htc_packet identities, owned by the layer above
  NoPkt,
  CtrlEp,       \* ENDPOINT_1, the WMI control endpoint
  DataPrio,     \* the data endpoints, highest priority first
  PktEp,        \* packet -> endpoint it is sent on
  PktLen,       \* packet -> act_len + HTC_HDR_LENGTH
  TgtCredSz,    \* tgt_cred_sz: bytes that one credit pays for
  TgtCreds,     \* tgt_creds: credits the target announced
  CtrlAlloc,    \* credits the control service was allocated at connect time
  MaxTxqDepth,  \* max_txq_depth
  UrbAlloc,     \* URBs of each transmit pipe
  ThreshNum,    \* data endpoint -> k in resources_max * k / ThreshDen
  ThreshDen,
  CreditFlow,   \* tx_credit_flow_enabled (FALSE: ATH6KL_HW_USB_FLOWCTRL)
  SinglePipe,   \* ATH6KL_HW_SINGLE_PIPE_SCHED
  StarvingPrevention,  \* module parameter starving_prevention
  HifMayFail,   \* usb_submit_urb / usb_alloc_urb may fail
  MayFlush,     \* ath6kl_htc_pipe_flush_txep may be called
  TgtMayLose,   \* the target may drop a control credit report
  MaxCtlOut     \* bound: control credits at the target are counted up to it

Threads == Senders \cup Workers \cup Timers

DataEps == {DataPrio[i] : i \in 1..Len(DataPrio)}

Eps == {CtrlEp} \cup DataEps

Pipes == {"ctrl", "data"}

ASSUME ConstantsOK ==
  /\ NoThread \notin Threads
  /\ NoPkt \notin Packets
  /\ IsFiniteSet(Packets)
  /\ DataPrio \in Seq(DataEps) /\ DataPrio # <<>>
  /\ CtrlEp \notin DataEps
  /\ PktEp \in [Packets -> Eps]
  /\ PktLen \in [Packets -> Nat \ {0}]
  /\ TgtCredSz \in Nat \ {0}
  /\ TgtCreds \in Nat \ {0}
  /\ CtrlAlloc \in Nat \ {0}
  /\ MaxTxqDepth \in Nat
  /\ UrbAlloc \in Nat
  /\ ThreshNum \in [DataEps -> Nat]
  /\ ThreshDen \in Nat \ {0}
  /\ MaxCtlOut \in Nat
  /\ {CreditFlow, SinglePipe, StarvingPrevention, HifMayFail, MayFlush,
      TgtMayLose} \subseteq BOOLEAN

VARIABLES
  \* struct htc_target / struct htc_endpoint, protected by tx_lock
  tx_lock,            \* holder of tx_lock
  txq,                \* endpoint -> queued packets
  tx_lookup_queue,    \* packets handed to the HIF, to be matched with completions
  tx_proc_cnt,        \* endpoint -> threads draining it
  avail_tx_credits,   \* credits left for the data endpoints together
  ctl_credits,        \* cred_dist.credits of the control endpoint
  cred_used,          \* packet -> info.tx.cred_used
  ctl_ep_wd_timer,    \* the control watchdog is pending
  starving,           \* endpoint -> ep->starving
  \* the layer above, the HIF and the target
  upper,              \* packets the upper layer owns
  urb_cnt,            \* pipe -> free URBs
  bus,                \* packets whose URB is submitted
  io_comp_queue,      \* packets whose URB completed, waiting for the worker
  tgt_data,           \* data credits the bus and the target hold
  tgt_ctl,            \* control credits the bus and the target hold
  \* locals of each thread
  pc,
  ep,                 \* endpoint htc_try_send works on
  packet,             \* the caller's packet, later the one being submitted
  send_queue,         \* packets taken off txq, not yet handed to the HIF
  tx_resources,       \* free URBs as last read
  st_try, st_get,     \* the two local copies of ep->starving
  todo                \* calls of htc_try_send still to make

lockVars == <<txq, tx_proc_cnt, avail_tx_credits, ctl_credits, cred_used,
              ctl_ep_wd_timer, starving>>
hifVars  == <<urb_cnt, bus, io_comp_queue, tgt_data, tgt_ctl>>
localVars == <<ep, packet, send_queue, tx_resources, st_try, st_get, todo>>
vars == <<tx_lock, lockVars, tx_lookup_queue, upper, hifVars, pc, localVars>>

-----------------------------------------------------------------------------
(* Helpers *)

PipeOf(e) == IF e = CtrlEp THEN "ctrl" ELSE "data"

\* Credits a packet costs: its length in units of tgt_cred_sz, rounded up.
CreditsRequired(p) ==
  IF PktLen[p] <= TgtCredSz
  THEN 1
  ELSE PktLen[p] \div TgtCredSz + (IF PktLen[p] % TgtCredSz # 0 THEN 1 ELSE 0)

\* i is the first data queue in priority order that is not empty, or the last
\* one when all are.
FirstBusy(i) ==
  /\ i \in 1..Len(DataPrio)
  /\ \A j \in 1..(i - 1) : txq[DataPrio[j]] = <<>>
  /\ txq[DataPrio[i]] # <<>> \/ i = Len(DataPrio)

\* "Is anything of this or a higher priority queued?": htc_send_pkts_sched_check
SchedCheck(e) ==
  \/ e = CtrlEp
  \/ \E i \in 1..Len(DataPrio) :
       /\ DataPrio[i] = e
       /\ \A j \in 1..i : txq[DataPrio[j]] = <<>>

\* The htc_try_send calls for starving endpoints other than e, in priority order.
StarvingCalls(e) ==
  [i \in 1..Len(DataPrio) |->
     [how |-> IF DataPrio[i] = e THEN "skip" ELSE "starving",
      ep |-> DataPrio[i]]]

Call(how, e) == <<[how |-> how, ep |-> e]>>

\* Mutation: no cap.
CappedNever(credits) == credits

\* A grant leaves the control endpoint at most one credit.
Capped(credits) == IF credits > 1 THEN 1 ELSE credits

ToSet(s) == {s[i] : i \in 1..Len(s)}

\* Mutation: list_splice for list_splice_tail.
SplicedHead(q, s) == s \o q

\* list_splice_tail_init(s, q)
Spliced(q, s) == q \o s

\* Mutation: the packet is not taken off the lookup queue.
StillFiled(p) == tx_lookup_queue

\* htc_lookup_tx_packet, or list_del after a failed submission.
Unfiled(p) == tx_lookup_queue \ {p}

\* Where credits do not control the flow, free URBs are read before tx_lock is
\* taken.
ReadFirst(read, lock) == IF CreditFlow THEN lock ELSE read

\* Thread t returns from htc_try_send with the calls next still to make: its
\* locals are gone.
Return(t, next) ==
  /\ pc' = [pc EXCEPT ![t] = IF next = <<>> THEN "idle" ELSE "call"]
  /\ todo' = [todo EXCEPT ![t] = next]
  /\ ep' = [ep EXCEPT ![t] = CtrlEp]
  /\ tx_resources' = [tx_resources EXCEPT ![t] = 0]
  /\ st_try' = [st_try EXCEPT ![t] = FALSE]
  /\ st_get' = [st_get EXCEPT ![t] = FALSE]

-----------------------------------------------------------------------------
(* State *)

PCs == {"idle", "schedq", "starve", "depth", "read", "enter", "get", "issue",
        "submit", "reread", "relock", "call"}

Calls == [how : {"skip", "starving", "try", "pick"}, ep : Eps]

TypeQueues ==
  /\ tx_lock \in Threads \cup {NoThread}
  /\ txq \in [Eps -> Seq(Packets)]
  /\ tx_lookup_queue \subseteq Packets
  /\ tx_proc_cnt \in [Eps -> Nat]
  /\ upper \subseteq Packets
  /\ bus \subseteq Packets
  /\ io_comp_queue \subseteq Packets

TypeCredits ==
  /\ avail_tx_credits \in Nat
  /\ ctl_credits \in Nat
  /\ cred_used \in [Packets -> Nat]
  /\ urb_cnt \in [Pipes -> Nat]
  /\ tgt_data \in Nat
  /\ tgt_ctl \in Nat

TypeFlags ==
  /\ ctl_ep_wd_timer \in BOOLEAN
  /\ starving \in [Eps -> BOOLEAN]

TypeLocals ==
  /\ packet \in [Threads -> Packets \cup {NoPkt}]
  /\ send_queue \in [Threads -> Seq(Packets)]

TypeControl ==
  /\ pc \in [Threads -> PCs]
  /\ todo \in [Threads -> Seq(Calls)]
  /\ ep \in [Threads -> Eps]
  /\ tx_resources \in [Threads -> Nat]
  /\ st_try \in [Threads -> BOOLEAN]
  /\ st_get \in [Threads -> BOOLEAN]

\* Types of the whole state.  Its bite is in the numbers: no credit or URB count
\* ever goes below zero, although checks and subtractions happen under
\* different lock sections and free URBs are read without a lock.
TypeOK == TypeQueues /\ TypeCredits /\ TypeFlags /\ TypeLocals /\ TypeControl

\* ath6kl_htc_pipe_wait_target: all services connected, nothing queued yet,
\* one of the target's credits set aside for the control path.
Init ==
  /\ tx_lock = NoThread
  /\ txq = [e \in Eps |-> <<>>]
  /\ tx_lookup_queue = {}
  /\ tx_proc_cnt = [e \in Eps |-> 0]
  /\ avail_tx_credits = TgtCreds - 1
  /\ ctl_credits = CtrlAlloc
  /\ cred_used = [p \in Packets |-> 0]
  /\ ctl_ep_wd_timer = FALSE
  /\ starving = [e \in Eps |-> FALSE]
  /\ upper = Packets
  /\ urb_cnt = [x \in Pipes |-> UrbAlloc]
  /\ bus = {}
  /\ io_comp_queue = {}
  /\ tgt_data = 0
  /\ tgt_ctl = 0
  /\ pc = [t \in Threads |-> "idle"]
  /\ ep = [t \in Threads |-> CtrlEp]
  /\ packet = [t \in Threads |-> NoPkt]
  /\ send_queue = [t \in Threads |-> <<>>]
  /\ tx_resources = [t \in Threads |-> 0]
  /\ st_try = [t \in Threads |-> FALSE]
  /\ st_get = [t \in Threads |-> FALSE]
  /\ todo = [t \in Threads |-> <<>>]

-----------------------------------------------------------------------------
(* Sending: htc_send_packets_multiple *)

\* A sender hands one packet in.  With single-pipe scheduling the queues are
\* inspected under tx_lock and the answer is used after the lock is dropped.
Send(t, p) ==
  /\ pc[t] = "idle" /\ tx_lock = NoThread
  /\ p \in upper
  /\ upper' = upper \ {p}
  /\ packet' = [packet EXCEPT ![t] = p]
  /\ ep' = [ep EXCEPT ![t] = PktEp[p]]
  /\ pc' = [pc EXCEPT ![t] =
              IF SinglePipe /\ ~SchedCheck(PktEp[p]) THEN "schedq" ELSE "depth"]
  /\ UNCHANGED <<tx_lock, lockVars, tx_lookup_queue, hifVars, send_queue,
                 tx_resources, st_try, st_get, todo>>

\* tx_full (ath6kl_tx_queue_full) may ask to drop a data packet that overflows
\* the queue; a control packet is always kept.
MayDrop(e) == Len(txq[e]) >= MaxTxqDepth /\ e # CtrlEp

\* htc_send_pkts_sched_queue: the packet is queued, or refused, but not sent.
SchedQueue(t) ==
  LET e == ep[t]
      p == packet[t]
  IN
  /\ pc[t] = "schedq" /\ tx_lock = NoThread
  /\ \/ /\ txq' = [txq EXCEPT ![e] = Append(@, p)]
        /\ UNCHANGED upper
     \/ /\ MayDrop(e)
        /\ upper' = upper \cup {p}
        /\ UNCHANGED txq
  /\ packet' = [packet EXCEPT ![t] = NoPkt]
  /\ IF StarvingPrevention
     THEN /\ pc' = [pc EXCEPT ![t] = "starve"]
          /\ UNCHANGED <<ep, tx_resources, st_try, st_get, todo>>
     ELSE Return(t, <<>>)
  /\ UNCHANGED <<tx_lock, tx_proc_cnt, avail_tx_credits, ctl_credits, cred_used,
                 ctl_ep_wd_timer, starving, tx_lookup_queue, hifVars, send_queue>>

\* The endpoint is starving when nothing was taken from it for HZ/8 (late).
\* The flag is written without tx_lock.
SetStarving(t) ==
  /\ pc[t] = "starve"
  /\ \E late \in BOOLEAN : starving' = [starving EXCEPT ![ep[t]] = late \/ @]
  /\ Return(t, <<>>)
  /\ UNCHANGED <<tx_lock, txq, tx_proc_cnt, avail_tx_credits, ctl_credits,
                 cred_used, ctl_ep_wd_timer, tx_lookup_queue, upper, hifVars,
                 packet, send_queue>>

-----------------------------------------------------------------------------
(* htc_try_send *)

\* The caller's packet against the queue depth: it joins the local send queue,
\* or is refused and completed with -ENOMEM by htc_send_packets_multiple.
CheckDepth(t) ==
  LET e == ep[t]
      p == packet[t]
  IN
  /\ pc[t] = "depth" /\ tx_lock = NoThread
  /\ packet' = [packet EXCEPT ![t] = NoPkt]
  /\ \/ /\ send_queue' = [send_queue EXCEPT ![t] = <<p>>]
        /\ pc' = [pc EXCEPT ![t] = ReadFirst("read", "enter")]
        /\ UNCHANGED <<upper, ep, tx_resources, st_try, st_get, todo>>
     \/ /\ MayDrop(e)
        /\ upper' = upper \cup {p}
        /\ Return(t, <<>>)
        /\ UNCHANGED send_queue
  /\ UNCHANGED <<tx_lock, lockVars, tx_lookup_queue, hifVars>>

\* htc_tx_completion's choice among the data endpoints when flow control is by
\* URBs: the first that has packets and whose threshold of free URBs is met.
Eligible(i) ==
  /\ txq[DataPrio[i]] # <<>>
  /\ urb_cnt["data"] >= (UrbAlloc * ThreshNum[DataPrio[i]]) \div ThreshDen

\* The next call of htc_try_send without a caller's queue.  A "starving" call is
\* made only if the flag is set when its turn comes; "pick" makes the choice
\* above and comes last.
NextCall(t) ==
  LET c == Head(todo[t])
      rest == Tail(todo[t])
  IN
  /\ pc[t] = "call"
  /\ \/ /\ c.how = "try" \/ (c.how = "starving" /\ starving[c.ep])
        /\ ep' = [ep EXCEPT ![t] = c.ep]
        /\ todo' = [todo EXCEPT ![t] = rest]
        /\ pc' = [pc EXCEPT ![t] = ReadFirst("read", "enter")]
        /\ UNCHANGED <<tx_resources, st_try, st_get>>
     \/ /\ c.how = "skip" \/ (c.how = "starving" /\ ~starving[c.ep])
        /\ Return(t, rest)
     \/ /\ c.how = "pick" /\ tx_lock = NoThread
        /\ \E i \in 1..Len(DataPrio) :
             /\ Eligible(i)
             /\ \A j \in 1..(i - 1) : ~Eligible(j)
             /\ Return(t, Call("try", DataPrio[i]))
     \/ /\ c.how = "pick" /\ tx_lock = NoThread
        /\ \A i \in 1..Len(DataPrio) : ~Eligible(i)
        /\ Return(t, <<>>)
  /\ UNCHANGED <<tx_lock, lockVars, tx_lookup_queue, upper, hifVars,
                 packet, send_queue>>

\* ath6kl_hif_pipe_get_free_queue_number, called without tx_lock and used under
\* it; other endpoints of the same pipe submit meanwhile.
ReadResources(t) ==
  /\ pc[t] \in {"read", "reread"}
  /\ tx_resources' = [tx_resources EXCEPT ![t] = urb_cnt[PipeOf(ep[t])]]
  /\ pc' = [pc EXCEPT ![t] = IF @ = "read" THEN "enter" ELSE "relock"]
  /\ UNCHANGED <<tx_lock, lockVars, tx_lookup_queue, upper, hifVars, ep, packet,
                 send_queue, st_try, st_get, todo>>

\* Mutation: a thread that finds the endpoint being drained drains it too.
NobodyDrains(e) == FALSE

\* tx_proc_cnt++ finds another drainer.
AnotherDrains(e) == tx_proc_cnt[e] > 0

\* Move the local send queue to txq and become the endpoint's drainer, or leave
\* the packets to the thread that already is.
Enter(t) ==
  LET e == ep[t] IN
  /\ pc[t] = "enter" /\ tx_lock = NoThread
  /\ txq' = [txq EXCEPT ![e] = Spliced(@, send_queue[t])]
  /\ send_queue' = [send_queue EXCEPT ![t] = <<>>]
  /\ \/ /\ AnotherDrains(e)
        /\ Return(t, todo[t])
        /\ UNCHANGED <<tx_lock, tx_proc_cnt>>
     \/ /\ ~AnotherDrains(e)
        /\ tx_proc_cnt' = [tx_proc_cnt EXCEPT ![e] = 1]
        /\ tx_lock' = t
        /\ st_try' = [st_try EXCEPT ![t] = starving[e]]
        /\ st_get' = [st_get EXCEPT ![t] = starving[e]]
        /\ pc' = [pc EXCEPT ![t] = "get"]
        /\ UNCHANGED <<ep, tx_resources, todo>>
  /\ UNCHANGED <<avail_tx_credits, ctl_credits, cred_used, ctl_ep_wd_timer,
                 starving, tx_lookup_queue, upper, hifVars, packet>>

Pool(e) == IF e = CtrlEp THEN ctl_credits ELSE avail_tx_credits

\* Mutation: any credit at all is enough.
HasAnyCredit(e, need) == Pool(e) > 0

HasCredits(e, need) == Pool(e) >= need

\* Mutation: one credit per packet, whatever its length.
SpendOne(e, need) ==
  IF e = CtrlEp
  THEN /\ ctl_credits' = ctl_credits - 1
       /\ UNCHANGED <<avail_tx_credits, starving>>
  ELSE /\ avail_tx_credits' = avail_tx_credits - 1
       /\ starving' = [starving EXCEPT ![e] = FALSE]
       /\ UNCHANGED ctl_credits

\* The credits come from the endpoint's pool; a served endpoint is not starving.
Spend(e, need) ==
  IF e = CtrlEp
  THEN /\ ctl_credits' = ctl_credits - need
       /\ UNCHANGED <<avail_tx_credits, starving>>
  ELSE /\ avail_tx_credits' = avail_tx_credits - need
       /\ starving' = [starving EXCEPT ![e] = FALSE]
       /\ UNCHANGED ctl_credits

\* get_htc_packet_credit_based / get_htc_packet: may the head of txq be taken?
CanTake(t) ==
  LET e == ep[t]
      need == CreditsRequired(Head(txq[e]))
  IN
  /\ txq[e] # <<>>
  /\ IF CreditFlow
     THEN /\ HasCredits(e, need)
          /\ st_get[t] => send_queue[t] = <<>>   \* a starving endpoint gets one
     ELSE tx_resources[t] > 0

\* One turn of the loop in get_htc_packet*, tx_lock held.
GetPacket(t) ==
  LET e == ep[t]
      p == Head(txq[e])
      need == CreditsRequired(p)
  IN
  /\ pc[t] = "get" /\ tx_lock = t
  /\ CanTake(t)
  /\ txq' = [txq EXCEPT ![e] = Tail(@)]
  /\ send_queue' = [send_queue EXCEPT ![t] = Append(@, p)]
  /\ IF CreditFlow
     THEN /\ cred_used' = [cred_used EXCEPT ![p] = need]
          /\ Spend(e, need)
          /\ UNCHANGED tx_resources
     ELSE /\ cred_used' = [cred_used EXCEPT ![p] = 0]
          /\ tx_resources' = [tx_resources EXCEPT ![t] = @ - 1]
          /\ UNCHANGED <<avail_tx_credits, ctl_credits, starving>>
  /\ UNCHANGED <<tx_lock, tx_proc_cnt, ctl_ep_wd_timer, tx_lookup_queue, upper,
                 hifVars, pc, ep, packet, st_try, st_get, todo>>

\* Mutation: a lone control packet does not arm the watchdog.
ArmForTwo(e) ==
  /\ CreditFlow /\ e = CtrlEp /\ Len(txq[e]) > 1
  /\ ~HasCredits(e, CreditsRequired(Head(txq[e])))

\* mod_timer(&target->ctl_ep_wd_timer, ...) when the control endpoint is short.
ArmWatchdog(e) ==
  /\ CreditFlow /\ e = CtrlEp /\ txq[e] # <<>>
  /\ ~HasCredits(e, CreditsRequired(Head(txq[e])))

\* The loop is over.  A control endpoint short of credits arms the watchdog.
\* With packets in hand the lock is dropped to issue them, without any the
\* drainer is done.
GetDone(t) ==
  LET e == ep[t] IN
  /\ pc[t] = "get" /\ tx_lock = t
  /\ ~CanTake(t)
  /\ tx_lock' = NoThread
  /\ ctl_ep_wd_timer' = (ctl_ep_wd_timer \/ ArmWatchdog(e))
  /\ \/ /\ send_queue[t] # <<>>
        /\ pc' = [pc EXCEPT ![t] = "issue"]
        /\ UNCHANGED <<tx_proc_cnt, ep, tx_resources, st_try, st_get, todo>>
     \/ /\ send_queue[t] = <<>>
        /\ tx_proc_cnt' = [tx_proc_cnt EXCEPT ![e] = 0]
        /\ Return(t, todo[t])
  /\ UNCHANGED <<txq, avail_tx_credits, ctl_credits, cred_used, starving,
                 tx_lookup_queue, upper, hifVars, packet, send_queue>>

\* After htc_issue_packets: take the lock again and look for more, unless the
\* endpoint was starving when the drainer started.
Relock(t) ==
  LET e == ep[t] IN
  /\ pc[t] = "relock" /\ tx_lock = NoThread
  /\ \/ /\ ~st_try[t]
        /\ tx_lock' = t
        /\ st_get' = [st_get EXCEPT ![t] = starving[e]]
        /\ pc' = [pc EXCEPT ![t] = "get"]
        /\ UNCHANGED <<tx_proc_cnt, ep, tx_resources, st_try, todo>>
     \/ /\ st_try[t]
        /\ tx_proc_cnt' = [tx_proc_cnt EXCEPT ![e] = 0]
        /\ Return(t, todo[t])
        /\ UNCHANGED tx_lock
  /\ UNCHANGED <<txq, avail_tx_credits, ctl_credits, cred_used, ctl_ep_wd_timer,
                 starving, tx_lookup_queue, upper, hifVars, packet,
                 send_queue>>

-----------------------------------------------------------------------------
(* htc_issue_packets: tx_lock is taken only to file the packet in the lookup
   queue, and again to take it out and reclaim its credits. *)

\* Filed before it is submitted: its completion may come at any time after.
FileLookup(t) ==
  LET p == Head(send_queue[t]) IN
  /\ pc[t] = "issue" /\ tx_lock = NoThread
  /\ tx_lookup_queue' = tx_lookup_queue \cup {p}
  /\ packet' = [packet EXCEPT ![t] = p]
  /\ send_queue' = [send_queue EXCEPT ![t] = Tail(@)]
  /\ pc' = [pc EXCEPT ![t] = "submit"]
  /\ UNCHANGED <<tx_lock, lockVars, upper, hifVars, ep, tx_resources, st_try,
                 st_get, todo>>

\* The next packet, or back to htc_try_send when there is none left.
IssueDone(t, left) ==
  /\ packet' = [packet EXCEPT ![t] = NoPkt]
  /\ pc' = [pc EXCEPT ![t] = IF left # <<>> THEN "issue"
                             ELSE ReadFirst("reread", "relock")]

\* ath6kl_hif_pipe_send accepts the packet: an URB carries it to the target,
\* and its credits with it.
IssueOk(t) ==
  LET e == ep[t]
      p == packet[t]
  IN
  /\ pc[t] = "submit"
  /\ urb_cnt[PipeOf(e)] > 0
  /\ urb_cnt' = [urb_cnt EXCEPT ![PipeOf(e)] = @ - 1]
  /\ bus' = bus \cup {p}
  /\ IF e = CtrlEp
     THEN /\ tgt_ctl' = IF tgt_ctl + cred_used[p] > MaxCtlOut THEN MaxCtlOut
                        ELSE tgt_ctl + cred_used[p]
          /\ UNCHANGED tgt_data
     ELSE /\ tgt_data' = tgt_data + cred_used[p]
          /\ UNCHANGED tgt_ctl
  /\ cred_used' = [cred_used EXCEPT ![p] = 0]
  /\ IssueDone(t, send_queue[t])
  /\ UNCHANGED <<tx_lock, txq, tx_proc_cnt, avail_tx_credits, ctl_credits,
                 ctl_ep_wd_timer, starving, tx_lookup_queue, upper,
                 io_comp_queue, ep, send_queue, tx_resources, st_try, st_get,
                 todo>>

\* Mutation: only the refused packet is handed back.
FailedOne(t) == {packet[t]}

\* What htc_issue_packets completes with an error: the packet and all behind it.
Failed(t) == {packet[t]} \cup ToSet(send_queue[t])

\* The HIF refuses the packet (no URB left, or the submission failed).  Its
\* credits are reclaimed; it and every packet behind it go back to the upper
\* layer with an error.
IssueFail(t) ==
  LET e == ep[t]
      p == packet[t]
      credits == ctl_credits + cred_used[p]
  IN
  /\ pc[t] = "submit" /\ tx_lock = NoThread
  /\ HifMayFail \/ urb_cnt[PipeOf(e)] = 0
  /\ tx_lookup_queue' = Unfiled(p)
  /\ IF e = CtrlEp
     THEN /\ ctl_credits' = Capped(credits)
          /\ ctl_ep_wd_timer' = (ctl_ep_wd_timer /\ credits < 1)
          /\ UNCHANGED avail_tx_credits
     ELSE /\ avail_tx_credits' = avail_tx_credits + cred_used[p]
          /\ UNCHANGED <<ctl_credits, ctl_ep_wd_timer>>
  /\ cred_used' = [q \in Packets |-> IF q \in Failed(t) THEN 0 ELSE cred_used[q]]
  /\ upper' = upper \cup Failed(t)
  /\ send_queue' = [send_queue EXCEPT ![t] = <<>>]
  /\ IssueDone(t, <<>>)
  /\ UNCHANGED <<tx_lock, txq, tx_proc_cnt, starving, hifVars, ep, tx_resources,
                 st_try, st_get, todo>>

-----------------------------------------------------------------------------
(* The way back *)

\* ath6kl_usb_usb_transmit_complete: the URB returns to its pipe, the buffer
\* waits for the pipe's worker.
UrbComplete(p) ==
  /\ p \in bus
  /\ bus' = bus \ {p}
  /\ io_comp_queue' = io_comp_queue \cup {p}
  /\ urb_cnt' = [urb_cnt EXCEPT ![PipeOf(PktEp[p])] = @ + 1]
  /\ UNCHANGED <<tx_lock, lockVars, tx_lookup_queue, upper, tgt_data, tgt_ctl,
                 pc, localVars>>

\* htc_tx_completion: the packet found in the lookup queue goes back to the
\* upper layer, then queues are looked at again.
TxCompletion(t, p) ==
  LET e == PktEp[p] IN
  /\ pc[t] = "idle" /\ tx_lock = NoThread
  /\ p \in io_comp_queue
  /\ io_comp_queue' = io_comp_queue \ {p}
  /\ tx_lookup_queue' = Unfiled(p)
  /\ upper' = IF p \in tx_lookup_queue THEN upper \cup {p} ELSE upper
  /\ Return(t, StarvingCalls(e) \o
               (IF CreditFlow THEN <<>>
                ELSE Call(IF SinglePipe /\ e # CtrlEp THEN "pick" ELSE "try", e)))
  /\ UNCHANGED <<tx_lock, lockVars, urb_cnt, bus, tgt_data, tgt_ctl,
                 packet, send_queue>>

\* htc_process_credit_report, data endpoints: n credits come back to the
\* shared pool; starving endpoints are tried, then the first busy one.
DataCreditReport(t, n) ==
  /\ pc[t] = "idle" /\ tx_lock = NoThread
  /\ n <= tgt_data
  /\ tgt_data' = tgt_data - n
  /\ avail_tx_credits' = avail_tx_credits + n
  /\ \E i \in 1..Len(DataPrio) :
       /\ FirstBusy(i)
       /\ Return(t, StarvingCalls(DataPrio[i]) \o Call("try", DataPrio[i]))
  /\ UNCHANGED <<tx_lock, txq, tx_proc_cnt, ctl_credits, cred_used,
                 ctl_ep_wd_timer, starving, tx_lookup_queue, upper, urb_cnt, bus,
                 io_comp_queue, tgt_ctl, packet, send_queue>>

\* htc_process_credit_report, control endpoint: never more than one credit is
\* kept, and the watchdog is cancelled.
CtrlCreditReport(t, n) ==
  /\ pc[t] = "idle" /\ tx_lock = NoThread
  /\ n <= tgt_ctl
  /\ tgt_ctl' = tgt_ctl - n
  /\ ctl_credits' = Capped(ctl_credits + n)
  /\ ctl_ep_wd_timer' = FALSE
  /\ Return(t, IF txq[CtrlEp] # <<>> THEN Call("try", CtrlEp) ELSE <<>>)
  /\ UNCHANGED <<tx_lock, txq, tx_proc_cnt, avail_tx_credits, cred_used,
                 starving, tx_lookup_queue, upper, urb_cnt, bus, io_comp_queue,
                 tgt_data, packet, send_queue>>

\* The target never reports a control credit (the reason for the watchdog).
LoseCtrlCredit ==
  /\ TgtMayLose
  /\ tgt_ctl > 0
  /\ tgt_ctl' = tgt_ctl - 1
  /\ UNCHANGED <<tx_lock, lockVars, tx_lookup_queue, upper, urb_cnt, bus,
                 io_comp_queue, tgt_data, pc, localVars>>

\* Mutation: the handler grants the credit and forgets the queue.
TimerNoCalls == <<>>

TimerCalls == Call("try", CtrlEp)

\* ath6kl_htc_pipe_ctl_ep_timer_handler: after HTC_CTL_EP_WD_TIMEOUT without a
\* credit the host grants itself one.
CtlEpTimer(t) ==
  /\ pc[t] = "idle" /\ tx_lock = NoThread
  /\ ctl_ep_wd_timer
  /\ ctl_ep_wd_timer' = FALSE
  /\ ctl_credits' = IF ctl_credits = 0 THEN 1 ELSE ctl_credits
  /\ Return(t, TimerCalls)
  /\ UNCHANGED <<tx_lock, txq, tx_proc_cnt, avail_tx_credits, cred_used,
                 starving, tx_lookup_queue, upper, hifVars, packet,
                 send_queue>>

\* htc_flush_tx_endpoint: every packet still queued goes back to the upper
\* layer; what a drainer has in hand or the HIF accepted is not touched.
FlushTxEndpoint(t, e) ==
  /\ MayFlush
  /\ pc[t] = "idle" /\ tx_lock = NoThread
  /\ txq[e] # <<>>
  /\ upper' = upper \cup ToSet(txq[e])
  /\ txq' = [txq EXCEPT ![e] = <<>>]
  /\ UNCHANGED <<tx_lock, tx_proc_cnt, avail_tx_credits, ctl_credits, cred_used,
                 ctl_ep_wd_timer, starving, tx_lookup_queue, hifVars, pc,
                 localVars>>

-----------------------------------------------------------------------------

\* The steps of a thread that is already inside the layer.
Inside(t) ==
  \/ SchedQueue(t) \/ SetStarving(t) \/ CheckDepth(t) \/ NextCall(t)
  \/ ReadResources(t) \/ Enter(t) \/ GetPacket(t) \/ GetDone(t) \/ Relock(t)
  \/ FileLookup(t) \/ IssueOk(t) \/ IssueFail(t)

Next ==
  \/ \E t \in Senders, p \in Packets : Send(t, p)
  \/ \E t \in Senders, e \in Eps : FlushTxEndpoint(t, e)
  \/ \E t \in Threads : Inside(t)
  \/ \E p \in Packets : UrbComplete(p)
  \/ \E t \in Workers, p \in Packets : TxCompletion(t, p)
  \/ \E t \in Workers, n \in 1..TgtCreds : DataCreditReport(t, n)
  \/ \E t \in Workers, n \in 1..TgtCreds : CtrlCreditReport(t, n)
  \/ LoseCtrlCredit
  \/ \E t \in Timers : CtlEpTimer(t)

Spec == Init /\ [][Next]_vars

\* Fairness: a context inside the layer runs to completion (softirq, workqueue)
\* and the ticket spinlock tx_lock is granted to every context that waits for
\* it, hence strong fairness; submitted URBs complete; a pending timer expires.
\* Nobody is obliged to send and the target is not obliged to report credits.
Fairness ==
  /\ \A t \in Threads : SF_vars(Inside(t))
  /\ \A p \in Packets : WF_vars(UrbComplete(p))
  /\ SF_vars(\E t \in Timers : CtlEpTimer(t))

FairSpec == Spec /\ Fairness

-----------------------------------------------------------------------------
(* Properties *)

Draining(t, e) ==
  ep[t] = e /\ pc[t] \in {"get", "issue", "submit", "reread", "relock"}

\* "beyond this point only 1 thread may enter": tx_proc_cnt counts the threads
\* between htc_try_send's entry test and its reset, and there is at most one,
\* although the drainer gives up tx_lock whenever it issues packets.
SingleDrainer ==
  \A e \in Eps :
    /\ \A t, u \in Threads : Draining(t, e) /\ Draining(u, e) => t = u
    /\ tx_proc_cnt[e] = IF \E t \in Threads : Draining(t, e) THEN 1 ELSE 0

\* The credits of data packets that drainers took off txq but have not handed
\* to the HIF yet, one element per credit.
CreditsInHand ==
  UNION {{p} \X (1..cred_used[p]) : p \in {q \in Packets : PktEp[q] # CtrlEp}}

\* The data endpoints together never commit more than the target announced
\* minus the credit reserved for the control path: what is left, what drainers
\* hold and what the target holds add up to at most tgt_creds - 1.
NoOvercommit ==
  avail_tx_credits + Cardinality(CreditsInHand) + tgt_data <= TgtCreds - 1

\* A packet is in exactly one place: with the upper layer, in a sender's hand,
\* on a txq, on a drainer's send queue or in the lookup queue.  So none is lost
\* or duplicated and none is completed twice, whichever of flush, failure,
\* refusal and completion returns it.
PlacesOf(p) ==
  {<<"upper">> : x \in {i \in {1} : p \in upper}}
  \cup {<<"caller", t>> : t \in {u \in Threads : /\ pc[u] \in {"schedq", "depth"}
                                                  /\ packet[u] = p}}
  \cup (UNION {{<<"txq", e, i>> : i \in {j \in 1..Len(txq[e]) : txq[e][j] = p}}
               : e \in Eps})
  \cup (UNION {{<<"send", t, i>> : i \in {j \in 1..Len(send_queue[t]) :
                                            send_queue[t][j] = p}} : t \in Threads})
  \cup {<<"lookup">> : x \in {i \in {1} : p \in tx_lookup_queue}}

PacketOwnedOnce == \A p \in Packets : Cardinality(PlacesOf(p)) = 1

\* A completion always finds its packet ("HTC TX lookup failed!" is never
\* logged), however soon it comes, and the lookup queue holds nothing else than
\* what the HIF has or is being given.
LookupMatchesHif ==
  tx_lookup_queue = bus \cup io_comp_queue
                    \cup {packet[t] : t \in {u \in Threads : pc[u] = "submit"}}

\* A control packet that waits for a credit is never forgotten: some thread is
\* draining the endpoint or about to, or the watchdog is pending.
Attended(t, e) ==
  \/ Draining(t, e)
  \/ ep[t] = e /\ pc[t] \in {"read", "enter"}
  \/ pc[t] = "call" /\ \E i \in 1..Len(todo[t]) :
                         todo[t][i] = [how |-> "try", ep |-> e]

CtrlNeverForgotten ==
  CreditFlow /\ txq[CtrlEp] # <<>>
    => ctl_ep_wd_timer \/ \E t \in Threads : Attended(t, CtrlEp)

\* Nothing is under way: no thread inside, no URB, no completion, no credit out.
Quiescent ==
  /\ \A t \in Threads : pc[t] = "idle"
  /\ bus = {} /\ io_comp_queue = {} /\ tgt_data = 0 /\ tgt_ctl = 0
  /\ ~ctl_ep_wd_timer

\* No data packet is stranded: when nothing is under way that could send it,
\* no packet is queued ("the re-checking of queues happens when credits flow
\* back from the target ... we recheck after the packet completes").
NoStrandedPacket == Quiescent => \A e \in DataEps : txq[e] = <<>>

\* Every data credit comes home: when nothing is queued or under way the whole
\* pool is available again ("reclaim credits").
CreditsReclaimed == Quiescent => avail_tx_credits = TgtCreds - 1

\* A watchdog grant followed by the late credit report it replaced never
\* leaves the control endpoint with more credits than it was allocated.
CtrlCreditCapped == ctl_credits <= CtrlAlloc

\* Every queued control packet eventually leaves the queue, even when the
\* target loses credit reports: the watchdog sees to it.
CtrlProgress ==
  \A p \in Packets :
    (\E i \in 1..Len(txq[CtrlEp]) : txq[CtrlEp][i] = p)
      ~> ~(\E i \in 1..Len(txq[CtrlEp]) : txq[CtrlEp][i] = p)

\* Refinement: the packets pending on an endpoint are those its drainer has in
\* hand, the one being submitted first, then those on txq.
InHand(t) == (IF pc[t] = "submit" THEN <<packet[t]>> ELSE <<>>) \o send_queue[t]

Pending(e) ==
  IF \E t \in Threads : Draining(t, e)
  THEN InHand(CHOOSE t \in Threads : Draining(t, e)) \o txq[e]
  ELSE txq[e]

Abs == INSTANCE HtcTxAbs WITH
  Cost      <- [p \in Packets |-> IF CreditFlow THEN CreditsRequired(p) ELSE 0],
  Capacity  <- TgtCreds - 1,
  pend      <- [e \in Eps |-> Pending(e)],
  out       <- bus \cup io_comp_queue,
  committed <- tgt_data

\* The transmit path implements per-endpoint FIFO queues with bounded credit:
\* packets go to the HIF in the order they were accepted, although tx_lock is
\* dropped between taking a packet off the queue and submitting it.
ImplementsFifo == Abs!Spec
=============================================================================
