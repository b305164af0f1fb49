------------------------------- MODULE UsbIo -------------------------------
(***************************************************************************)
(* One pipe of the USB host interface (struct ath6kl_usb_pipe,             *)
(* drivers/ath6kl/usb.c): its pool of URB contexts, the transfers given to *)
(* the USB core, the queue of completed buffers and the worker that hands  *)
(* them to HTC.  Pipes share nothing but the spin lock of the pools, so    *)
(* one pipe is modelled and its direction is chosen in the initial state.  *)
(*                                                                         *)
(* Contexts: the USB core's completion handlers ("irq", one at a time for  *)
(* an endpoint), the kernel workers that may run io_complete_work, one     *)
(* sender (HTC, which holds no lock here) and the control thread "ctl":    *)
(* power on, suspend, resume, power off, destroy.                          *)
(*                                                                         *)
(* schedule_work on a kernel whose work items are reentrant lets a second  *)
(* CPU start the item while the first still runs it; later kernels do not. *)
(* Both are modelled.                                                      *)
(***************************************************************************)
EXTENDS Integers, Sequences, FiniteSets

CONSTANTS
  Workers,        \* kernel workers that may run io_complete_work
  UrbAlloc,       \* urb_alloc: RX_URB_COUNT or TX_URB_COUNT
  UrbMcc,         \* TX_URB_COUNT_MCC
  MaxSche,        \* max_sche_tx = max_sche_rx
  RxqThreshold,   \* rxq_threshold
  Setups,         \* the pairs <<direction of the pipe, work items are
                  \* reentrant>> to consider
  MaxBufs,        \* bound: buffers completed
  MaxErrs,        \* bound: transfers completed without a buffer
  MaySleep        \* the system suspends and resumes

ASSUME UsbConstants ==
  /\ Workers \cap {"irq", "ctl", "snd"} = {}
  /\ UrbAlloc \in Nat \ {0} /\ UrbMcc \in Nat
  /\ MaxSche \in Nat /\ RxqThreshold \in Nat
  /\ Setups \subseteq {"tx", "rx"} \X BOOLEAN
  /\ MaxBufs \in Nat /\ MaxErrs \in Nat /\ MaySleep \in BOOLEAN

VARIABLES
  dir, reentrant,       \* fixed by the initial state
  \* struct ath6kl_usb_pipe and struct ath6kl_usb
  urb_cnt, urb_cnt_thresh_out,
  urb_submitted,        \* submitted transfers on the anchor
  loose,                \* submitted transfers the anchor has lost
  io_comp_queue, worker_lock,
  rx_completion,        \* the HTC callbacks are registered
  phase,                \* life of the device; "asleep" is DEEPSLEEP or WOW
  \* the kernel's work item
  pending,              \* io_complete_work is queued
  awaited,              \* the instance flush_work waits for
  \* locals
  pc, n, buf,
  status,               \* urb->status of the transfer being completed
  \* history
  completed,            \* buffers whose transfers completed
  handed,               \* buffers given to HTC, or freed, in order
  errs,                 \* receive transfers completed without a buffer
  lost,                 \* a transfer was not replaced since all were posted
  oops                  \* a NULL callback was called

poolVars == <<urb_cnt, urb_cnt_thresh_out, urb_submitted, loose>>
workVars == <<worker_lock, pending, awaited, n, buf>>
dataVars == <<io_comp_queue, completed, handed, oops>>
ctlVars  == <<rx_completion, phase>>
vars == <<dir, reentrant, poolVars, workVars, dataVars, ctlVars, pc, status,
          errs, lost>>

Contexts == Workers \cup {"irq", "ctl", "snd"}

NoBuf == 0

UrbThresh == UrbAlloc \div 2

Goto(c, l) == pc' = [pc EXCEPT ![c] = l]

Running == {w \in Workers : pc[w] # "idle"}

-----------------------------------------------------------------------------
(* The pool of URB contexts; every section is under cs_lock. *)

\* Mutation: an empty list is not noticed.
UrbAlways ==
  ~(/\ dir = "tx" /\ urb_cnt_thresh_out # 0
    /\ UrbAlloc - urb_cnt > urb_cnt_thresh_out)

\* ath6kl_usb_alloc_urb_from_pipe would return a context.
UrbAvailable ==
  /\ urb_cnt > 0
  /\ ~(/\ dir = "tx" /\ urb_cnt_thresh_out # 0
       /\ UrbAlloc - urb_cnt > urb_cnt_thresh_out)

AllocUrb == urb_cnt' = urb_cnt - 1

\* Mutation: the error path forgets the context.
ForgetUrb == urb_cnt' = urb_cnt

\* ath6kl_usb_cleanup_recv_urb and the error path of ath6kl_usb_send
ReturnUrb == urb_cnt' = urb_cnt + 1

\* usb_submit_urb of a transfer that is, or no longer is, on the anchor
Submit(c) ==
  IF pc[c] = "submit"
  THEN urb_submitted' = urb_submitted + 1 /\ UNCHANGED loose
  ELSE loose' = loose + 1 /\ UNCHANGED urb_submitted

\* ath6kl_usb_set_max_queue_number
SetMaxQueueNumber ==
  /\ dir = "tx" /\ phase = "on"
  /\ urb_cnt_thresh_out' \in {0, UrbMcc} \ {urb_cnt_thresh_out}
  /\ UNCHANGED <<dir, reentrant, urb_cnt, urb_submitted, loose, workVars,
                 dataVars, ctlVars, pc, status, errs, lost>>

-----------------------------------------------------------------------------
(* ath6kl_usb_post_recv_transfers, called by the worker, the completion
   handler and the control thread: one iteration takes a context, anchors
   and submits.  Any allocation, and the submission, may fail. *)

AfterPost(c) == IF c \in Workers THEN "clear" ELSE "idle"

\* hif_start and ath6kl_usb_pm_resume end with the posting.
CtlOn(c) == phase' = IF c = "ctl" THEN "on" ELSE phase

PostTake(c) ==
  /\ pc[c] = "post"
  /\ \/ /\ UrbAvailable
        /\ AllocUrb
        /\ Goto(c, "submit")
        /\ UNCHANGED <<phase, lost>>
     \/ /\ ~UrbAvailable
        /\ Goto(c, AfterPost(c))
        /\ CtlOn(c)
        /\ lost' = FALSE
        /\ UNCHANGED urb_cnt
  /\ UNCHANGED <<dir, reentrant, urb_cnt_thresh_out, urb_submitted, loose,
                 workVars, dataVars, rx_completion, status, errs>>

PostSubmit(c) ==
  /\ c # "snd" /\ pc[c] \in {"submit", "submit_loose"}
  /\ \/ /\ Submit(c)
        /\ Goto(c, "post")
        /\ UNCHANGED <<urb_cnt, phase, lost>>
     \/ /\ ReturnUrb
        /\ Goto(c, AfterPost(c))
        /\ CtlOn(c)
        /\ lost' = TRUE
        /\ UNCHANGED <<urb_submitted, loose>>
  /\ UNCHANGED <<dir, reentrant, urb_cnt_thresh_out, workVars, dataVars,
                 rx_completion, status, errs>>

-----------------------------------------------------------------------------
(* ath6kl_usb_send *)

SendTake ==
  /\ dir = "tx" /\ pc["snd"] = "idle"
  /\ phase \in {"on", "asleep"}
  /\ completed + (UrbAlloc - urb_cnt) < MaxBufs
  /\ UrbAvailable
  /\ AllocUrb
  /\ Goto("snd", "submit")
  /\ UNCHANGED <<dir, reentrant, urb_cnt_thresh_out, urb_submitted, loose,
                 workVars, dataVars, ctlVars, status, errs, lost>>

\* Mutation: the state is not looked at again under state_lock.
NeverAsleep == FALSE

\* The test made in one section of state_lock with the submission.
Asleep == phase = "asleep"

SendSubmit ==
  /\ pc["snd"] \in {"submit", "submit_loose"}
  /\ Goto("snd", "idle")
  /\ \/ /\ ~Asleep
        /\ Submit("snd")
        /\ UNCHANGED urb_cnt
     \/ /\ ReturnUrb          \* refused, or usb_submit_urb failed
        /\ UNCHANGED <<urb_submitted, loose>>
  /\ UNCHANGED <<dir, reentrant, urb_cnt_thresh_out, workVars, dataVars,
                 ctlVars, status, errs, lost>>

-----------------------------------------------------------------------------
(* Completion handlers.  The core takes the transfer off the anchor, then
   calls ath6kl_usb_recv_complete or ath6kl_usb_usb_transmit_complete. *)

Statuses == {"data", "empty", "eproto", "error", "cancel"}

\* A transfer of the flush is cancelled; one that succeeds carries data on
\* a transmit pipe.
MayComplete(st) ==
  /\ st = "cancel" => pc["ctl"] = "kill" /\ urb_submitted > 0
  /\ st \in {"empty", "eproto"} => dir = "rx"
  /\ dir = "rx" => IF st = "data" THEN completed < MaxBufs
                                  ELSE errs < MaxErrs

Giveback(st) ==
  /\ pc["irq"] = "idle" /\ MayComplete(st)
  /\ \/ /\ urb_submitted > 0
        /\ urb_submitted' = urb_submitted - 1
        /\ UNCHANGED loose
     \/ /\ loose > 0 /\ st # "cancel"
        /\ loose' = loose - 1
        /\ UNCHANGED urb_submitted
  /\ status' = st
  /\ Goto("irq", IF dir = "rx" /\ st = "data" THEN "queue" ELSE "free")
  /\ errs' = IF dir = "rx" /\ st # "data" THEN errs + 1 ELSE errs
  /\ lost' = (lost \/ st \in {"error", "cancel"})
  /\ UNCHANGED <<dir, reentrant, urb_cnt, urb_cnt_thresh_out, workVars,
                 dataVars, ctlVars>>

\* skb_queue_tail(&pipe->io_comp_queue, buf)
IrqQueue ==
  /\ pc["irq"] = "queue"
  /\ io_comp_queue' = Append(io_comp_queue, completed + 1)
  /\ completed' = completed + 1
  /\ Goto("irq", "sched")
  /\ UNCHANGED <<dir, reentrant, poolVars, workVars, handed, oops, ctlVars,
                 status, errs, lost>>

\* schedule_work(&pipe->io_complete_work)
IrqSched ==
  /\ pc["irq"] = "sched"
  /\ pending' = TRUE
  /\ Goto("irq", IF dir = "rx" THEN "free" ELSE "idle")
  /\ status' = "data"
  /\ UNCHANGED <<dir, reentrant, poolVars, worker_lock, awaited, n, buf,
                 dataVars, ctlVars, errs, lost>>

\* ath6kl_usb_free_urb_to_pipe: the last thing but one a receive handler
\* does, the first a transmit handler does.
IrqFree ==
  /\ pc["irq"] = "free"
  /\ ReturnUrb
  /\ Goto("irq", IF dir = "rx" THEN "check" ELSE "queue")
  /\ UNCHANGED <<dir, reentrant, urb_cnt_thresh_out, urb_submitted, loose,
                 workVars, dataVars, ctlVars, status, errs, lost>>

\* "our free urbs are piling up, post more transfers"
PilingUp == urb_cnt >= UrbThresh

\* The handler leaves it to the worker when the queue is long.
Reposts == PilingUp /\ Len(io_comp_queue) < RxqThreshold

IrqCheck ==
  /\ pc["irq"] = "check"
  /\ Goto("irq", IF status \in {"data", "empty", "eproto"} /\ Reposts
                 THEN "post" ELSE "idle")
  /\ status' = "data"
  /\ UNCHANGED <<dir, reentrant, poolVars, workVars, dataVars, ctlVars, errs,
                 lost>>

-----------------------------------------------------------------------------
(* ath6kl_usb_io_comp_work *)

\* Where the kernel may start the queued item; when it cannot run twice at
\* once it makes no difference which worker runs it.
MayStart(w) ==
  \/ reentrant
  \/ Running = {} /\ w = CHOOSE v \in Workers : TRUE

WorkStart(w) ==
  /\ pending /\ pc[w] = "idle" /\ MayStart(w)
  /\ pending' = FALSE
  /\ awaited' = IF awaited = "queued" THEN w ELSE awaited
  /\ Goto(w, "test")
  /\ UNCHANGED <<dir, reentrant, poolVars, worker_lock, n, buf, dataVars,
                 ctlVars, status, errs, lost>>

\* The item ends: flush_work returns if it waited for this instance.
Return(w) ==
  /\ Goto(w, "idle")
  /\ n' = [n EXCEPT ![w] = 0]
  /\ awaited' = IF awaited = w THEN "none" ELSE awaited

\* Mutation: the bit is set but not tested.
BitFree == TRUE

\* The answer of test_and_set_bit(WORKER_LOCK_BIT)
BitTaken == ~worker_lock

WorkTest(w) ==
  /\ pc[w] = "test"
  /\ \/ /\ BitTaken
        /\ worker_lock' = TRUE
        /\ Goto(w, "loop")
        /\ UNCHANGED <<awaited, n>>
     \/ /\ ~BitTaken
        /\ Return(w)
        /\ UNCHANGED worker_lock
  /\ UNCHANGED <<dir, reentrant, poolVars, pending, buf, dataVars, ctlVars,
                 status, errs, lost>>

\* skb_dequeue(&pipe->io_comp_queue)
WorkDequeue(w) ==
  /\ pc[w] = "loop"
  /\ \/ /\ io_comp_queue # <<>>
        /\ buf' = [buf EXCEPT ![w] = Head(io_comp_queue)]
        /\ io_comp_queue' = Tail(io_comp_queue)
        /\ Goto(w, "hand")
     \/ /\ io_comp_queue = <<>>
        /\ Goto(w, IF dir = "rx" THEN "recheck" ELSE "clear")
        /\ UNCHANGED <<buf, io_comp_queue>>
  /\ UNCHANGED <<dir, reentrant, poolVars, worker_lock, pending, awaited, n,
                 completed, handed, oops, ctlVars, status, errs, lost>>

\* The HTC callback.  A receive buffer nobody wants is freed and not
\* counted; the transmit callback is called without a test.
WorkHand(w) ==
  LET counts == rx_completion \/ dir = "tx"
      enough == counts /\ n[w] > MaxSche
  IN
  /\ pc[w] = "hand"
  /\ handed' = Append(handed, buf[w])
  /\ buf' = [buf EXCEPT ![w] = NoBuf]
  /\ oops' = (oops \/ (dir = "tx" /\ ~rx_completion))
  /\ n' = [n EXCEPT ![w] = IF counts /\ ~enough THEN @ + 1 ELSE @]
  /\ worker_lock' = IF enough THEN FALSE ELSE worker_lock
  /\ Goto(w, IF enough THEN "resched" ELSE "loop")
  /\ UNCHANGED <<dir, reentrant, poolVars, pending, awaited, io_comp_queue,
                 completed, ctlVars, status, errs, lost>>

\* Mutation: the worker that had enough relies on the next completion.
NoResched == pending' = pending

\* schedule_work at the label reschedule
Resched == pending' = TRUE

WorkResched(w) ==
  /\ pc[w] = "resched"
  /\ Resched
  /\ Return(w)
  /\ UNCHANGED <<dir, reentrant, poolVars, worker_lock, buf, dataVars,
                 ctlVars, status, errs, lost>>

\* Mutation: posting is left to the completion handlers.
WorkNeverReposts == FALSE

WorkReposts == PilingUp

WorkRecheck(w) ==
  /\ pc[w] = "recheck"
  /\ Goto(w, IF WorkReposts THEN "post" ELSE "clear")
  /\ UNCHANGED <<dir, reentrant, poolVars, workVars, dataVars, ctlVars,
                 status, errs, lost>>

WorkClear(w) ==
  /\ pc[w] = "clear"
  /\ worker_lock' = FALSE
  /\ Return(w)
  /\ UNCHANGED <<dir, reentrant, poolVars, pending, buf, dataVars, ctlVars,
                 status, errs, lost>>

-----------------------------------------------------------------------------
(* The control thread *)

Ctl(from, to, l) ==
  /\ pc["ctl"] = "idle" /\ phase \in from
  /\ phase' = to
  /\ Goto("ctl", l)
  /\ UNCHANGED <<dir, reentrant, poolVars, workVars, dataVars, rx_completion,
                 status, errs, lost>>

\* hif_start: a receive pipe is "on" once its transfers are posted.
PowerOn == IF dir = "rx" THEN Ctl({"off"}, "off", "post")
                         ELSE Ctl({"off"}, "on", "idle")

\* ath6kl_usb_pm_suspend: the new state is set, then ath6kl_usb_flush_all
Suspend == MaySleep /\ Ctl({"on"}, "asleep", "kill")

\* ath6kl_usb_pm_resume.  Assumed of the environment: a sender, which does not
\* block between the anchoring and the submission, is not held up there for
\* the whole sleep.
Resume == /\ pc["snd"] = "idle"
          /\ IF dir = "rx" THEN Ctl({"asleep"}, "asleep", "post")
             ELSE Ctl({"asleep"}, "on", "idle")

\* hif_detach_htc; HTC has stopped and nobody sends any more
PowerOff == pc["snd"] = "idle" /\ Ctl({"on", "asleep"}, "detached", "kill")

\* ath6kl_usb_destroy
Destroy == Ctl({"detached"}, "destroyed", "kill")

\* usb_kill_anchored_urbs in ath6kl_usb_flush_all: a transfer that is
\* anchored but not submitted yet is taken off the anchor; the others are
\* completed (Giveback) until the anchor is empty.
KillUnsubmitted(c) ==
  /\ pc["ctl"] = "kill" /\ pc[c] = "submit"
  /\ Goto(c, "submit_loose")
  /\ UNCHANGED <<dir, reentrant, poolVars, workVars, dataVars, ctlVars,
                 status, errs, lost>>

\* flush_work: waits for the queued instance, or for a running one.
FlushWork ==
  /\ pc["ctl"] = "kill" /\ urb_submitted = 0
  /\ \A c \in Contexts : pc[c] # "submit"
  /\ pc["irq"] # "idle" => status # "cancel"
  /\ Goto("ctl", "flush")
  /\ \/ pending /\ awaited' = "queued"
     \/ ~pending /\ Running # {} /\ awaited' \in Running
     \/ ~pending /\ Running = {} /\ awaited' = "none"
  /\ UNCHANGED <<dir, reentrant, poolVars, worker_lock, pending, n, buf,
                 dataVars, ctlVars, status, errs, lost>>

\* The flush is over; hif_detach_htc clears the callbacks and
\* ath6kl_usb_destroy frees the pipe.
FlushDone ==
  /\ pc["ctl"] = "flush" /\ awaited = "none"
  /\ Goto("ctl", "idle")
  /\ rx_completion' = (rx_completion /\ phase # "detached")
  /\ phase' = IF phase = "destroyed" THEN "freed" ELSE phase
  /\ UNCHANGED <<dir, reentrant, poolVars, workVars, dataVars, status, errs, lost>>

-----------------------------------------------------------------------------

Init ==
  /\ \E s \in Setups : dir = s[1] /\ reentrant = s[2]
  /\ urb_cnt = UrbAlloc /\ urb_cnt_thresh_out = 0
  /\ urb_submitted = 0 /\ loose = 0
  /\ io_comp_queue = <<>> /\ worker_lock = FALSE
  /\ rx_completion = TRUE /\ phase = "off"
  /\ pending = FALSE /\ awaited = "none"
  /\ pc = [c \in Contexts |-> "idle"]
  /\ n = [w \in Workers |-> 0]
  /\ buf = [w \in Workers |-> NoBuf]
  /\ status = "data"
  /\ completed = 0 /\ handed = <<>>
  /\ errs = 0 /\ lost = FALSE /\ oops = FALSE

Irq == IrqQueue \/ IrqSched \/ IrqFree \/ IrqCheck

Work(w) ==
  \/ WorkTest(w) \/ WorkDequeue(w) \/ WorkHand(w)
  \/ WorkResched(w) \/ WorkRecheck(w) \/ WorkClear(w)

Control ==
  \/ PowerOn \/ Suspend \/ Resume \/ PowerOff \/ Destroy
  \/ FlushWork \/ FlushDone

\* Nothing runs once the memory is freed or the kernel died.
Alive == phase # "freed" /\ ~oops

Next ==
  /\ Alive
  /\ \/ SetMaxQueueNumber
     \/ SendTake \/ SendSubmit
     \/ \E st \in Statuses : Giveback(st)
     \/ Irq
     \/ \E w \in Workers : WorkStart(w) \/ Work(w)
     \/ \E c \in Contexts :
          PostTake(c) \/ PostSubmit(c) \/ KillUnsubmitted(c)
     \/ Control

Spec == Init /\ [][Next]_vars

\* The kernel runs queued work, and lets handlers and workers finish.
FairSpec ==
  /\ Spec
  /\ WF_vars(Alive /\ Irq)
  /\ WF_vars(Alive /\ (PostTake("irq") \/ PostSubmit("irq")))
  /\ WF_vars(Alive /\ \E w \in Workers : WorkStart(w))
  /\ \A w \in Workers :
       /\ WF_vars(Alive /\ Work(w))
       /\ WF_vars(Alive /\ (PostTake(w) \/ PostSubmit(w)))

-----------------------------------------------------------------------------
(* Properties *)

Held == {c \in Contexts : pc[c] \in {"submit", "submit_loose"}}

TypeOK ==
  /\ dir \in {"tx", "rx"} /\ reentrant \in BOOLEAN
  /\ urb_cnt \in 0..UrbAlloc /\ urb_cnt_thresh_out \in {0, UrbMcc}
  /\ urb_submitted \in 0..UrbAlloc /\ loose \in 0..UrbAlloc
  /\ io_comp_queue \in Seq(Nat \ {0}) /\ worker_lock \in BOOLEAN
  /\ rx_completion \in BOOLEAN
  /\ phase \in {"off", "on", "asleep", "detached", "destroyed", "freed"}
  /\ pending \in BOOLEAN /\ awaited \in Workers \cup {"none", "queued"}
  /\ \A w \in Workers :
       pc[w] \in {"idle", "test", "loop", "hand", "resched", "recheck",
                  "clear", "post", "submit", "submit_loose"}
  /\ pc["irq"] \in {"idle", "queue", "sched", "free", "check", "post",
                    "submit", "submit_loose"}
  /\ pc["ctl"] \in {"idle", "kill", "flush", "post", "submit", "submit_loose"}
  /\ pc["snd"] \in {"idle", "submit", "submit_loose"}
  /\ n \in [Workers -> Nat] /\ buf \in [Workers -> Nat]
  /\ status \in Statuses
  /\ completed \in Nat /\ handed \in Seq(Nat)
  /\ errs \in Nat /\ lost \in BOOLEAN /\ oops \in BOOLEAN

\* A handler owns its transfer's context until it frees it.
IrqHolds ==
  \/ pc["irq"] = "free"
  \/ dir = "rx" /\ pc["irq"] \in {"queue", "sched"}

\* No URB context is lost or freed twice: what is not in the pool is with the
\* USB core, in a posting or sending context, or in a completion handler
\* (ath6kl_usb_alloc_urb_from_pipe against every path that frees).
UrbConserved ==
  urb_cnt + urb_submitted + loose + Cardinality(Held)
    + (IF IrqHolds THEN 1 ELSE 0) = UrbAlloc

InHand == {w \in Workers : pc[w] = "hand"}

\* Completed buffers reach HTC once each and in the order the transfers
\* completed, also when two CPUs run the worker (WORKER_LOCK_BIT).
HandedInOrder ==
  /\ \A i \in DOMAIN handed : handed[i] = i
  /\ \A w \in InHand : buf[w] = Len(handed) + 1
  /\ Cardinality(InHand) <= 1
  /\ \A i \in DOMAIN io_comp_queue :
       io_comp_queue[i] = Len(handed) + Cardinality(InHand) + i
  /\ Len(handed) + Cardinality(InHand) + Len(io_comp_queue) = completed

\* Nobody is left that would post transfers or hand buffers on.
Quiet == pc["irq"] = "idle" /\ ~pending /\ Running = {}

\* While the device is on, reception never stops for good: unless a transfer
\* ended in an error or could not be posted again, there is always one with
\* the USB core or somebody who will post (recv_complete leaves posting to
\* the worker when the queue is long, the worker when few URBs are free).
RxNeverDry ==
  dir = "rx" /\ ~reentrant /\ phase = "on" /\ pc["ctl"] = "idle" /\ Quiet
    /\ ~lost => urb_submitted + loose > 0

\* After suspend flushed the pipe no transmit transfer is with the USB core:
\* ath6kl_usb_send tests ar->state and submits in one section of state_lock.
AsleepQuiet ==
  dir = "tx" /\ phase = "asleep" /\ pc["ctl"] = "idle"
    => urb_submitted + loose = 0

\* What completed is eventually handed to HTC when work items are not
\* reentrant, although the worker stops after max_sche buffers and a
\* completion may come after its last look at the queue.
CompletionHandled ==
  (~reentrant /\ Len(handed) < completed)
    ~> (Len(handed) = completed \/ ~Alive)
=============================================================================
