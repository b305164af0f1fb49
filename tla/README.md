# TLA+ models of the ath6kl USB Wi-Fi driver

The repository builds Atheros' `ath6kl` Wi-Fi driver for USB chips (AR6004,
AR6006) together with a backported kernel wireless stack, firmware images and
user-space tools. Everything modelled here is in `src/drivers/ath6kl`; the rest
is vendored or build glue. The models are written from the C code; each
definition is tied to its lines in `PROJECT.json` ("map").

## 1. Inventory

| Component | State it keeps | Operations | Talks to | What is hard, what makes it correct |
|---|---|---|---|---|
| HTC pipe transmit (`htc_pipe.c`) | per endpoint `txq`, `tx_lookup_queue`, `tx_proc_cnt`, credits, `starving`; shared `avail_tx_credits`; control watchdog | send, try-send, issue, completion, credit report, flush, watchdog | network and WMI senders above, USB below, credit reports from the target | any number of contexts, one spinlock dropped in the middle of the drain loop; batches that fail half-way; lost credit reports. FIFO per endpoint, one drainer, credits conserved and never overcommitted, nothing stranded |
| HTC start-up, receive, tear-down (`htc_pipe.c`) | set-up flags, service table, receive scatter-gather | wait target, connect service, start, rx completion, trailers, stop | USB, WMI | stop with packets in flight, message order of the handshake |
| USB HIF (`usb.c`) | URB pool per pipe, completion queue, worker lock, bus state | send, URB completions, worker, repost, suspend, resume, removal | kernel USB stack, HTC | a completion between the worker's last look and its unlocking, stalled reception, a suspend in the middle of a send; URB contexts conserved, buffers handed on once and in order |
| Data path (`txrx.c`) | cookies, `tx_pending`, netif queues, flush flags | data_tx, control_tx, tx_complete, queue_full, flush | network stack, HTC, P2P flow control | netif stopped and never woken, leaked or doubly freed cookies, decisions used after their lock, lock order with HTC |
| RX reordering (`txrx.c`) | per tid: hold queue, `seq_next`, timer, flags | receive, time-out, ADDBA, DELBA | target events, network stack | modular sequence numbers, timer against worker, sessions that restart; in-order exactly-once delivery, no frame stuck |
| TX A-MSDU (`txrx.c`) | per tid buffer and timer | aggregate, flush, time-out | data path | timer against sender |
| AP power save (`txrx.c`, `main.c`) | station flags, PS queues, TIM bits | enqueue, PS-poll, U-APSD trigger, wake-up, DTIM, ageing, purge | target events, data path | flags read without a lock, TIM commands issued after it; every frame in one place, TIM bit against queue contents, service periods ended |
| Connection state (`cfg80211.c`, `main.c`) | SME state, vif flags, scan request, remain-on-channel ids | connect, disconnect, scan, RoC, keys | cfg80211, WMI events | events that arrive after a wait timed out, semaphores across waits |
| P2P and MCC flow control (`p2p.c`) | per-connection channel status and queues, NoA | state events, taking back, scheduling, connection ids, netif transitions | data path, HTC | packets parked while a channel is away: order kept, none left behind when it returns |
| WMI (`wmi.c`) | stream bitmaps, endpoint map | ~200 commands and events | all of the above | mostly formatting |
| Life cycle (`init.c`, `main.c`, `bmi.c`) | driver state, firmware, recovery flag | boot, start, stop, recovery | all | recovery while commands wait |
| Power (`pm.c`, `usb.c`, `cfg80211.c`) | power state, WoW filters | suspend, resume | HTC, USB | sends while suspending |
| HT 20/40 coex, regulatory, ACS, MSM, RTTM, BT coex | small tables | scan-driven updates | WMI | little concurrency |
| SDIO bus (`htc.c`, `hif.c`, `sdio.c`) | mailbox HTC | as HTC pipe | SDIO | not part of the USB product |
| debug, diag, test mode | counters | debugfs, ioctls | WMI | formatting |

The hazards found while reading, each at its line, are in `PROJECT.json`
("hazards"), with the properties that cover them or the reason none does yet.

## 2. Modules

* `HtcTx` - transmit half of the HTC pipe layer, with the part of the USB HIF
  and of the target it needs.
* `HtcTxAbs` - what that layer promises: a FIFO per endpoint with bounded
  credit.
* `MCHtcTx`, `MCTxFlow` - instances of `HtcTx` and `TxFlow` for TLC.
* `AggrRx` - receive reordering of one tid of one station.
* `UsbIo`, `MCUsbIo` - one pipe of the USB HIF, from the URB pool to the worker
  that hands buffers to HTC, with suspend and removal.
* `TxFlow` - data path above HTC with cookies, network queues and the flow
  control of shared channels.
* `ApPowerSave` - power save of a station of an access point, and its multicast
  frames.
* `Subsequence` - what a walk over a kernel list leaves of it.
* `HtcTxProofs`, `HtcTxOwnProofs`, `HtcTxFifoProofs` (each extends the one
  before), `UsbIoProofs`, `TxFlowProofs`, `ApPowerSaveProofs`, `AggrRxProofs`,
  `SubsequenceProofs` - the theorems (section 4).

`HtcTx` is the layer between `TxFlow` and `UsbIo`. `TxFlow` sees it as a queue
that drains and packets that complete; `HtcTx` sees `UsbIo` as a pool of URBs
and submissions that may fail. Each side assumes only what the other's properties
say: `LookupMatchesHif` and `PacketOwnedOnce` (a packet given to HTC completes
once), `UrbConserved` and `HandedInOrder` (a submitted buffer comes back once).

### HtcTx

A *thread* is a kernel context inside the layer. Senders call
`ath6kl_htc_pipe_tx` or flush an endpoint, workers run a pipe's completion work
(transmit completions and, on the receive pipe, credit reports), timers run the
control watchdog. One step is one `tx_lock` section or the code between two.
`get_htc_packet*` keeps the lock over several steps, so `tx_lock` is a variable
with a holder; all other sections test that it is free.

| Code | Model |
|---|---|
| `htc_send_packets_multiple` | `Send`, `SchedQueue`, `SetStarving`, refusal in `CheckDepth` |
| `htc_send_pkts_sched_check`, `_sched_queue` | `SchedCheck`, `SchedQueue` |
| `htc_try_send` | `CheckDepth`, `ReadResources`, `Enter`, `GetDone`, `Relock` |
| `get_htc_packet_credit_based`, `get_htc_packet` | `CanTake`, `GetPacket`, `ArmWatchdog` |
| `htc_issue_packets` | `FileLookup`, `IssueOk`, `IssueFail` |
| `ath6kl_usb_send`, `..._transmit_complete` | `IssueOk` / `IssueFail`, `UrbComplete` |
| `htc_tx_completion` | `TxCompletion`, then calls in `todo`, run by `NextCall` |
| `htc_process_credit_report` | `DataCreditReport`, `CtrlCreditReport` |
| `ath6kl_htc_pipe_ctl_ep_timer_handler` | `CtlEpTimer` |
| `htc_flush_tx_endpoint` | `FlushTxEndpoint` |

Abstractions. Packets are identities with an endpoint and a length; headers and
statistics are left out. The upper layer's answer to a full queue is any answer
`ath6kl_tx_queue_full` can give. `htc_tx_completion` reads the free URBs and
chooses the endpoint in one step (the code reads just before it takes the lock).
Timers keep no duration: a pending one may expire at any time. Control credits
at the target are counted up to `MaxCtlOut`, because the watchdog can mint them
without bound. Not in this module: endpoint 0, bundled sending
(`htc_bundle_send`, off by default), USB auto-suspend.

### AggrRx

Frames are numbers that do not wrap; the driver sees them modulo `SeqMod`.
Contexts are `"rx"` (worker: frames, ADDBA, DELBA) and `"timer"`. A step is one
`rxtid->lock` section, or the read of `seq_next` that `aggr_deque_frms` makes
before it takes the lock. The peer sends any frame of its block-ack window, in
any order, again or never. `RxAggrDrop` is the quirk that decides about old
frames; the default quirks switch it off (`core.h:106-120`), and so do all the
runs. `TimerRaces` lets the timer run while the worker is between two sections.
`MaxLoss` bounds how far ahead of the newest frame received the next one may be:
the driver knows 12 bits of a number, so after a long enough run of losses nobody
could tell a new frame from an old one. `Lost` (frames the air always loses) and
`EndBase` (sessions end only while `base` is at most that) bound the runs.

History: `upset` is set when a frame that does not lie in the window is put into
the hold queue, or when one context moves the window while the other has read
`seq_next` and not used it yet; it is cleared with the session. `stale` is set
while `tid_timer_scheduled` is left from a session that ended. A-MSDU slicing
and the tear-down of a station (`aggr_module_destroy_conn`) are left out.

### UsbIo

Contexts: the completion handler `"irq"`, kernel workers, one sender `"snd"` and
the control thread `"ctl"`. A step is a section of `cs_lock` or `state_lock`, an
operation on the completion queue, or the code between two of them.

| Code | Model |
|---|---|
| `ath6kl_usb_alloc_urb_from_pipe`, `_free_urb_to_pipe`, `_cleanup_recv_urb` | `UrbAvailable`, `AllocUrb`, `ReturnUrb` |
| `ath6kl_usb_post_recv_transfers` | `PostTake`, `PostSubmit` |
| `ath6kl_usb_send` | `SendTake`, `SendSubmit` |
| `ath6kl_usb_recv_complete`, `_usb_transmit_complete` | `Giveback`, `IrqQueue`, `IrqSched`, `IrqFree`, `IrqCheck` |
| `ath6kl_usb_io_comp_work` | `WorkTest` .. `WorkClear`, `WorkResched` |
| `ath6kl_usb_flush_all` | `KillUnsubmitted`, cancelled `Giveback`s, `FlushWork`, `FlushDone` |
| start, `pm_suspend`, `pm_resume`, power off, `destroy` | `PowerOn`, `Suspend`, `Resume`, `PowerOff`, `Destroy` |
| `ath6kl_usb_set_max_queue_number` | `SetMaxQueueNumber` |

The kernel is modelled from how the driver uses it: `usb_kill_anchored_urbs`
cancels submitted transfers and drops unsubmitted ones from the anchor,
`flush_work` waits for the queued instance or a running one, and a work item may
(`reentrant`) or may not run on two CPUs at once, as kernels of the supported
range differ. Assumed: a sender is not held up between anchoring and submission
for a whole sleep, and HTC has stopped sending before power off. Left out:
bundles, autosuspend, the control pipe, probe and disconnect, statistics and the
joining of overlong transfers.

### TxFlow

A packet is its cookie. Contexts: one sender per interface, `"rx"` (WMI events),
`"cpl"` (completions). `batch`/`cont` stand for the container a function fills
under a lock and completes after it; `target` is the interface of the event.

| Code | Model |
|---|---|
| `ath6kl_data_tx` | `DataTx`, `CopyFail`, `SchedulePkt`, `SendPkt` |
| `ath6kl_tx_complete`, `ath6kl_free_cookie` | `Reap`, `Wakes`, in `HifDone`, `HifDoneWake`, `CmdDone`, `RxComplete` |
| `ath6kl_tx_queue_full`, stops of `htc_send_pkts_sched_queue` | `QueueFullStops`, `HtcSend` |
| `ath6kl_p2p_flowctrl_tx_schedule(_pkt)` | `Enqueue`, `SchedulePkt`, `TxSchedule` |
| `ath6kl_wmi_flowctrl_ind_event_rx`, `.._state_change` | `FlowctrlEvent`, `StateChange`, `StateChanged` |
| `.._set_conn_id`, `ath6kl_connect_event` | `ConnectEvent`, `SetConnId`, `ConnectWake`, `Connect`, `Switch` |
| `ath6kl_disconnect_event`, `.._cleanup_by_if` | `DisconnectEvent`, `FlushEp`, `CleanupByIf`, `RoamSwitch` |
| its branch for a connection attempt that failed (`main.c:2083-2092`) | `AssocFailed`, `RoamSwitch` |

Interfaces are stations or P2P clients (a group owner's clients have connections
of their own and are left out); one endpoint carries data. The loops of
`.._state_change` and `.._tx_schedule` over `fw_conn_list` take their lock once
per connection, so each turn is a step of its own; `todo` holds the connections
a loop has still to visit (`Visited`), in any order, where the code goes by
index. `lost`, `raced`, `born` and `last` are history.

`connected` is the flag `CONNECTED` and `carrier` the state of
`netif_carrier_on`: a failed association sets the flag again without touching
carrier or queue. WMI commands matter here because their completion wakes
queues: all commands of one event are one outstanding `cmd`, whose completion
clears a bit of `tx_on_vif`. `Connect` always sends the bss filter command:
`main.c:1630` asks for it unless `usr_bss_filter` is set, and nothing in the
driver ever sets it. `RoamSwitch` always sends one, as `ath6kl_judge_roam_parameter`
does (`cfg80211.c:763-775`).

### ApPowerSave

Contexts: `"snd"` (network stack), `"mgr"` (cfg80211 management frames), `"rx"`
(the station's frames and WMI events) and the ageing timer. `conn->lock` sections
are steps; the flag reads before them and the traffic map commands after them
are steps of their own.

| Code | Model |
|---|---|
| `_powersave_ap_tx_unicast`, `__.._sleep`, `__.._awake` | `Unicast`, `Enqueue`, `Tell`, `UnicastAwake` |
| `ath6kl_mgmt_powersave_ap` | `Mgmt`, `Enqueue`, `Tell` |
| `_powersave_ap_tx_multicast` | `Multicast`, `MulticastQueue`, `MulticastTell` |
| `ath6kl_pspoll_event` | `PsPoll`, `PollSend`, `PollCheck`, `Clear` |
| `_powersave_ap_rx` | `StaAsleep`, `StaAwake`, `Flush`, `Clear` |
| `ath6kl_uapsd_trigger_frame_rx` | `ServeTake`, `ServeSend`, `ServeEnd`, `Clear` |
| `ath6kl_dtimexpiry_event` | `Dtim`, `DtimSend`, `MulticastClear` |
| `ath6kl_ps_queue_age_handler` | `AgeHandler` |
| `ath6kl_add_new_sta`, `ath6kl_sta_cleanup` | `Connect`, `Disconnect` |

Any enqueue may fail for want of memory. `late`, `crossed` and `sp` are history:
they name exactly the races the code leaves open (section 3). `sp` describes the
service period being served: whether a frame carried EOSP on the air (`eosp`) and
whether the last one was a management frame (`mgmt`). `STA_PS_APSD_EOSP` reaches
the air with a data frame only (`txrx.c:283`); the WMI commands that send action
frames and probe responses have no place for it (`wmi.c:3970-4037`,
`4066-4135`). The uAPSD buffered-traffic commands to the firmware are left out.

## 3. Runs

| Run | Result | Question | States |
|---|---|---|---|
| `htc_data` | holds | drain protocol, packet ownership, lookup, credits never overcommitted, `HtcTx` implements `HtcTxAbs`; with HIF failures, flushes, starving prevention | 267 000 |
| `htc_ctrl` | holds | WMI commands with failures, flushes and lost credit reports: watchdog, credit cap, every command leaves its queue | 12 000 |
| `htc_urb` | holds | the drain protocol where URBs, read without the lock, control the flow | 540 000 |
| `htc_sched` | violated | a packet is stranded with single-pipe scheduling | |
| `htc_leak` | violated | credits lost when the HIF refuses a batch | |
| `rx` | holds | order, no duplicate, no loss, a timer for what is held, and it gets out; old frames kept, timer and worker in every interleaving, sequence wrap, sessions that restart | 458 000 |
| `rx_old` | violated | an old frame is kept in a slot of the window | |
| `rx_stuck` | violated | stale `tid_timer_scheduled` after a session ended | |
| `usb_io` | holds | URB contexts conserved, buffers handed on once and in order, reception never dry, nothing submitted asleep, completions handled | 497 000 |
| `flow` | holds | cookies and counters, nothing left queued on channel, data order | 1 946 000 |
| `flow_live` | holds | a stopped network queue is woken | 286 000 |
| `ps` | holds | frames in one place, wake-up flush, traffic map, EOSP, ageing drains | 576 000 |

**Bounds.** *HtcTx*: two contexts, each able to play every role, are enough for
each pair of lock sections to interleave. Two data endpoints show priority and
the shared pool; of two best-effort packets one costs two credits; `MaxTxqDepth`
is 1 so that refusals happen; two URBs per pipe run out. Data and control
endpoints are checked apart (they share neither credits nor queues, and the
invariants of both are proved for all instances); `htc_urb` has both. Every USB
chip of `init.c`'s `hw_list` has single-pipe scheduling, so it is always on.
*AggrRx*: `SeqMod` 32 with windows of 4 slots keeps the proportions the code
relies on (`hold_q_sz` divides the space, and four times `hold_q_sz` fits in it)
and the frames straddle the wrap. `MaxLoss` is 20, the largest for which the
order can be proved here (`SeqMod - 3 * HoldQSz`). `MaxWait` is the code's 3. In
`rx` frames 29, 32, 33 and 38 arrive (the others are `Lost`): two holes of two
frames and more, across the wrap; 38 is far ahead of the window or just beyond
it according to what came before; 32 fills a hole the timer waits for if it
comes after 33; sessions end and start again, with frames held or not, as long
as the peer may still send 31. The invariants were also checked with frames 29
to 37, none of them always lost, and sessions that end at any time (10.7 million
states, too many for a regular run). *UsbIo*: two URBs, so that the pool is
empty, half free (the repost threshold) and full; two workers; three buffers and
two failed transfers; `MaxSche` 0 makes the worker reschedule itself after its
second buffer. *TxFlow*: two interfaces, two data cookies and one for EAPOL,
limits of one packet or none so that each stop, each refusal and the recycle
limit are met; three flow control events take a packet off channel twice; two
connection attempts (two interfaces, or one that roams, one of which may fail).
`flow` counts states that differ in the names of the interfaces once.
`flow_live`, to stay small, has no cookie for EAPOL, whose frames share HTC's
queue and the completion work with data. *ApPowerSave*: three frames against a
queue limit of one, two passes until a frame is old, five events: sleep, poll or
trigger, wake-up, leave, return.

**Deadlock** is checked in the HtcTx runs, where somebody can always act. In the
others the peer, the station or the senders may stop and the inputs are bounded,
so the model may rest; `CHECK_DEADLOCK` is off there.

**Fairness.** `htc_ctrl`: contexts inside the layer go on; strong fairness stands
for the ticket spinlock, which grants every waiter its turn; submitted URBs
complete; a pending timer expires. Nothing is assumed of senders or of the
target. The assumption that the timer expires leaves out senders that re-arm it
for ever (`mod_timer` at each failed attempt). `rx`: a context inside the
code goes on and a pending timer expires; nothing is assumed of the peer.
`usb_io`: the kernel runs queued work, handlers and workers finish; nothing is
assumed of the bus or of the control thread. `flow_live`: senders and workers go
on, HTC's queue drains and the HIF completes (the target returns credits); no
flow control event is assumed to come. `ps`: contexts inside the code go on and
the pending ageing timer expires; nothing is assumed of the station.

### Findings

1. **Leaked credits** (`htc_leak`): `htc_issue_packets` reclaims the credits of
   the packet that failed and completes those behind it without reclaiming.
2. **Stranded packet** (`htc_sched`): check and queueing are two lock sections;
   the last completion and credit report may fall between them.
3. **Old frames kept** (`rx_old`): with the default quirks a frame that precedes
   `seq_next` is not dropped (`txrx.c:1740-1746`) but put into the slot of its
   number, where it displaces what the slot held and later goes up out of order.
   The comment at `txrx.c:1757-1760` says that such frames are dropped above.
4. **Missing timer** (`rx_stuck`): `aggr_delete_tid_state` leaves the flag set;
   the next session can then hold a frame with no timer running.

### What the properties leave open

Where the code does not promise a property in every interleaving, the property
names the exception through a history variable instead of ignoring it. What the
models show there, without a run of its own:

* Order and completeness of reordering end, for the rest of the session, where
  `upset` is set. Finding 3 is the common case. Another is a frame far ahead: with
  old frames kept it is stored after the window was moved to end just before it.
  The third is the race of timer and worker: `aggr_deque_frms` reads `idx` and
  `idx_end` before it takes the lock (`txrx.c:1599`), and DELBA against a running
  timer even reaches `oops`. `InOrder`, `WindowKept` and `NoFrameLost` say that
  nothing else disturbs a session. That a held frame has a timer and gets out
  (`HeldTimed`, `HeldDelivered`) does not depend on `upset`; there the
  exceptions are `stale`, finding 4, and a kernel that died (`oops`).
* A window shifted to start at sequence number 0 is flushed as a whole, since 0
  is also `aggr_deque_frms`'s code for that (`txrx.c:1614`).
* On a kernel whose work items are reentrant, a completion that meets a set
  `WORKER_LOCK_BIT` waits for the next one: `CompletionHandled` is stated for the
  others.
* A failed posting after the last transfer returned ends reception until the
  next resume (`lost` in `RxNeverDry`).
* A packet in its sender's hand can overtake packets taken back (`raced` in
  `OrderKept`); a failed `skb_copy_expand` loses the cookie for good (`lost` in
  `CookiesAccounted`); `sche_tx_queued` can be zeroed too late and go below the
  queues' lengths; packets of a connection that is still marked off channel when
  sharing ends wait for its next frame (`NoneStranded` speaks of connections
  marked on channel).
* A frame queued between the worker's look at the queues and its command waits
  behind a cleared traffic map bit (`crossed` in `TimSet`); one queued after the
  wake-up flush waits for the next sleep (`late`); a service period whose last
  frames aged ends without EOSP (`sp.aged`), and so does one whose last frame is a
  management frame, although the comment at `txrx.c:1867-1869` sets it for the last
  frame of any period (`EospGiven` says: the mark goes out exactly if the last
  frame is a data frame). While a poll is answered a frame of
  the network stack may go out in its place, since `STA_PS_POLLED` is read
  without a lock.

## 4. Proofs

Each theorem holds for every value of the constants the module's assumption
(`ConstantsOK`, `UsbConstants`, `TxFlowConstants`, ...) admits: any number of
contexts, packets, endpoints, credits, URBs, frames, any window and queue limit. Further hypotheses
are named below. TLC checked every statement on the run of its module before it
was proved. Every invariant and every action property of the passing runs is
stated by a theorem.

**HtcTx** (`HtcTxProofs`, `HtcTxOwnProofs`, `HtcTxFifoProofs`)

* `TypeCorrect`: no counter goes below zero. The types are not inductive: a
  thread dequeues because the queue is not empty and submits because it has a
  packet. `TypeInv` adds, per program point, which locals hold something
  (`LocalsOK`) and that packets stay on the queues of their own endpoint
  (`HomeOK`).
* `SingleDrainerHolds`: inductive relative to `TypeInv`. That `tx_proc_cnt` is
  the number of drainers is what makes the entry test on the count a test for a
  drainer.
* `CtrlCreditCappedHolds`: every grant caps at one, everything else spends.
* `NoOvercommitHolds`: the sum of what is left, what drainers hold (counted as
  the cardinality of a set of pairs) and what the target holds never grows. It is
  an inequality because of finding 1.
* `CtrlNeverForgottenHolds`: needs `SingleDrainer` (a thread that finds the count
  above zero leaves its packet to a drainer that exists) and `CtrlSide` (the
  control endpoint is never starving or single-pipe queued, and a call for it is
  never lined up behind others).
* `PacketOwnedOnceHolds`, `LookupMatchesHifHolds`: from `OwnInv`, which names the
  spots a packet can be in and says that each packet is in one spot only
  (`OneSpot`), once in it (`QueuesDistinct`), and that the lookup queue is what
  the HIF has. The three need each other: removing a packet from a queue removes
  it from the spot only if the queue held it once.
* `ImplementsFifoHolds`: `Spec` implements `HtcTxAbs` under the refinement
  mapping of `HtcTx`, step by step: each action is a step of the abstract
  specification or leaves what it sees unchanged. It needs `FifoInv`: all of the
  above, and `Paid`, that what a drainer took off a queue is exactly paid for, so
  that the abstract transmission spends the credits the code charged.

**UsbIo** (`UsbIoProofs`)

* `UrbConservedHolds`: `PoolInv`, the free, held and submitted contexts add up
  and the holders are a finite set; `TypeCorrect` takes the upper bounds of the
  counters from it.
* `HandedInOrderHolds`: `LockInv`, at most one worker is past the test of
  `WORKER_LOCK_BIT` and only it has a buffer in hand; for reentrant work items
  too.
* `AsleepQuietHolds`: `SleepInv`, what the control thread has already done to the
  pipe at each point of the suspend.
* `RxNeverDryHolds`: `DrainInv` (a queued buffer has a worker coming) and `RxInv`
  (no transfer posted means that somebody is about to post or a buffer is on its
  way). Hypotheses: at least two URBs and a repost threshold of at least one; the
  code has 32 URBs and a threshold of 64 (`usb.c:31`, `158`, `1291`). TLC refutes
  the statement with one URB and with a threshold of zero, which a debugfs entry
  may set (`debug.c:5923`).

**TxFlow** (`TxFlowProofs`), each invariant on top of those before it

* `TypeCorrect`: `TypeInv`, the shape of the state. The upper bounds of the
  counters are not inductive: they are cardinalities of sets of cookies, so they
  come from the next two.
* `CookiesAccountedHolds`: `PlaceInv`, a cookie is in one place (`OneSpot`), once
  in it (`QueuesDistinct`), and free only on the list of its kind (`FreeKinds`);
  `AccountInv`, what the counters that admit packets count (`CountInv`), what is
  recorded of a packet that is out (`PktInv`), and that a connection's count of
  queued packets never exceeds its queues (`QueuedInv`; the converse does not
  hold, section 3).
* `NoneStrandedHolds`: inductive with `TypeInv`. A sender queues nothing on the
  empty queue of a connection that is on channel, and the worker, which alone
  marks connections on channel, visits all of them afterwards.
* `OrderKeptHolds`: `OrderInv` orders the packets of a connection over all the
  lists they can be on: with HTC, then taken back, then waiting, then in the
  sender's hand. When packets come back from HTC no data packet may be waiting
  that came back earlier (`NoneBackYet`): `NoneStranded` gives it. `ChannelInv`
  says that outside the worker's loop the last status is the present one and that
  sharing does not end inside it. `raced` connections are excepted.

**ApPowerSave** (`ApPowerSaveProofs`)

* `TypeCorrect`: a context has a frame in hand exactly at the labels `Holding`,
  and the frames of a service period are counted.
* `FramesAccountedHolds`: `PlaceInv`, each frame in one place and no queue with a
  repetition, through the ageing pass, which removes any positions of the queue.
* `WakeFlushesHolds`: `WakeInv`, which queues are already empty at each point of
  the flush. `TimSetHolds`: `TimInv`, the map bit is set or its command is under
  way, and a clearing command under way has seen the queues empty.
  `EospGivenHolds`: `EospInv`, no mark went out while frames of the period are
  left, and once none is left there is one exactly if the last was a data frame.

**AggrRx** (`AggrRxProofs`)

* `TypeCorrect`: all interleavings. `CountLow` bounds `continuous_count`, by
  which the next time-out is divided.
* `HeldTimedHolds`: all interleavings, sessions ending at any time. `WatchInv`
  says that a scheduled timer runs or is being handled unless `stale`, and that a
  held frame is watched by it or by a context about to start it.
* `InOrderHolds`, `WindowKeptHolds`, `NoFrameLostHolds`: all interleavings, both values of the quirk. The hypothesis
  `Regular` is about the parameters only: the window is at least
  `AGGR_WIN_SZ_MIN` (`core.h:752`), and no run of losses is longer than
  `SeqMod - 3 * HoldQSz` (a longer one makes numbers ambiguous). The invariant is
  `OrderInv`, that the session is upset or `OrderRest` holds: there is an unwrapped number S whose residue is
  `seq_next`, that everything delivered lies below S, everything held in S ..
  S + `HoldQSz` - 1 in the slot of its number, and where the frame in hand and
  the walk of `aggr_deque_frms` stand relative to S. S is not a variable: it is
  picked anew in each step, and the arithmetic modulo `SeqMod` is in lemmas
  (`WhereIs`: the code's comparison of a wrapped number with the window decides
  correctly; `WalkIs`, `WalkWindow`: the walk delivers exactly the held frames
  below the new start, in order).

**Subsequence** (`SubsequenceProofs`): what `Keep` returns. The list walks of the
code are written with `Keep` and a set of positions rather than with `SelectSeq`
or a recursive function, whose results could be known by induction only; the
lemmas give the length of the result, its elements and their order, and that
nothing is kept twice.

**Only model-checked.** The liveness properties (`CtrlProgress`, `HeldDelivered`,
`CompletionHandled`, `NetifWoken`, `SleepDrains`): liveness under fairness and
`ENABLED` are outside what TLAPS handles. The four violations are TLC
counterexamples.

## 5. Plan

Models next, in order of importance:

1. `HtcLife`: handshake, receive and trailers, stop with packets in flight.
2. `Sme`: connect, disconnect, scan and remain-on-channel against late events.
3. TX A-MSDU with its timer; a group owner's connections in `TxFlow`.
4. `TxFlow` composed with `HtcTx`, with the locks as state, for the lock order
   hazard at `htc_pipe.c:1006`.

## 6. Not modelled

Vendored code (`drivers/cfg80211`, `drivers/compat`, `apps/*`), firmware images
and build scripts; the SDIO bus; field-by-field WMI formatting; debugfs, ioctls
and test mode; regulatory tables. Of the driver's own parts, HTC start-up and
tear-down, the connection state machine, TX A-MSDU, firmware recovery and 20/40
coexistence are not modelled yet. Each is listed in `PROJECT.json` with its
reason.
