------------------------------- MODULE AggrRx -------------------------------
(***************************************************************************)
(* Receive reordering of one traffic identifier of one station (struct     *)
(* rxtid, drivers/ath6kl/txrx.c): the hold queue of a block-ack session,   *)
(* the sliding window seq_next .. seq_next + hold_q_sz - 1, and the timer  *)
(* that gives up on a missing frame.                                       *)
(*                                                                         *)
(* Two contexts run this code.  "rx" is the worker of the receive pipe,    *)
(* which delivers data frames and the ADDBA / DELBA events one after the   *)
(* other; "timer" is aggr_timeout, in softirq context.  No step keeps      *)
(* rxtid->lock, so the lock is not a variable: one step is one lock        *)
(* section, or a read made outside of any.                                 *)
(*                                                                         *)
(* A frame is the number the peer would give it if sequence numbers did    *)
(* not wrap; the driver sees it modulo SeqMod.  An A-MSDU is one frame:    *)
(* its subframes are delivered together.                                   *)
(***************************************************************************)
EXTENDS Integers, Sequences, FiniteSets, Subsequence

CONSTANTS
  SeqMod,       \* ATH6KL_MAX_SEQ_NO + 1
  WinSz,        \* block-ack window the peer and the target agreed on
  FirstFrame,   \* bounds on the frames the peer sends
  LastFrame,
  MaxLoss,      \* bound: frames the air may lose in a row
  Lost,         \* bound: frames the air always loses
  NoFrame,      \* an empty slot: skb = NULL
  MaxWait,      \* ATH6KL_MAX_WAIT_CONTINUOUS_PKT
  RxAggrDrop,   \* ~ATH6KL_CONF_DISABLE_RX_AGGR_DROP
  TimerRaces,   \* the timer may expire while the worker is inside this code
  EndBase,      \* bound: sessions end (DELBA, disconnect) while base <= EndBase
  History,      \* delivered and stored are recorded (they grow without bound)
  Probes        \* the frames whose delivery HeldDelivered follows

HoldQSz == 2 * WinSz

Slots == 0..(HoldQSz - 1)

Seqs == 0..(SeqMod - 1)

Frames == FirstFrame..LastFrame

ASSUME AggrConstants ==
  /\ SeqMod \in Nat /\ WinSz \in Nat \ {0}
  /\ SeqMod % HoldQSz = 0 /\ 4 * HoldQSz <= SeqMod
  /\ FirstFrame \in Nat /\ LastFrame \in Nat /\ FirstFrame <= LastFrame
  /\ MaxLoss \in Nat
  /\ Lost \subseteq Frames
  /\ NoFrame \notin Frames
  /\ MaxWait \in Nat \ {0}
  /\ Probes \subseteq Frames
  /\ EndBase \in Int
  /\ {RxAggrDrop, TimerRaces, History} \subseteq BOOLEAN

VARIABLES
  \* struct rxtid
  aggr, seq_next, sync_next_seq,
  hold_q,               \* slot -> frame; all empty when the array is freed
  tid_timer,            \* the kernel timer is pending
  tid_timer_scheduled, timerwait_seq_num, issue_timer_seq, continuous_count,
  \* locals of the two contexts
  pc,
  site,                 \* the call of aggr_deque_frms being executed
  idx, idx_end,
  frame,                \* the frame the worker processes
  \* the rest of the world
  base,                 \* oldest frame the peer may still (re)transmit
  oops,                 \* the kernel died on a NULL or zero-divide
  \* history
  delivered,            \* frames given to the network stack in this session
  stored,               \* frames accepted into the hold queue in this session
  upset,                \* in this session a frame outside the window was put
                        \* into the hold queue, or the window moved under a
                        \* context (Crosses)
  stale                 \* tid_timer_scheduled is left from a session that ended

timerVars == <<tid_timer, tid_timer_scheduled, timerwait_seq_num,
               issue_timer_seq, continuous_count>>
dequeVars == <<site, idx, idx_end>>
histVars == <<delivered, stored, upset, stale>>
worldVars == <<base, oops, histVars>>
vars == <<aggr, seq_next, sync_next_seq, hold_q, timerVars, pc, dequeVars,
          frame, worldVars>>

-----------------------------------------------------------------------------
(* Helpers *)

Contexts == {"rx", "timer"}

SeqNo(n) == n % SeqMod

\* AGGR_WIN_IDX
WinIdx(s) == s % HoldQSz

\* ATH6KL_NEXT_SEQ_NO
NextSeq(s) == (s + 1) % SeqMod

\* cur is outside lo .. hi on the circle of sequence numbers.
Outside(lo, hi, cur) ==
  \/ lo < hi /\ (cur < lo \/ cur > hi)
  \/ lo > hi /\ cur > hi /\ cur < lo

Empty == [i \in Slots |-> NoFrame]

HeldSlots == {i \in Slots : hold_q[i] # NoFrame}

Held == {hold_q[i] : i \in HeldSlots}

\* The loops over hold_q stop at the lowest slot in use.
LowestHeld == CHOOSE i \in HeldSlots : \A j \in HeldSlots : i <= j

\* One context does not start while the other is inside, unless races are on.
MayStart(c) == /\ ~oops /\ pc[c] = "idle"
               /\ TimerRaces \/ \A d \in Contexts : pc[d] = "idle"

Goto(c, l) == pc' = [pc EXCEPT ![c] = l]

\* Context c has read seq_next, or decided by it, and has not used that yet.
Committed(c) ==
  pc[c] \in {"walk", "shift", "shifted", "chase", "chased", "skip", "jump"}

\* Frame n lies in the window that starts at s.
Fits(s, n) == (SeqNo(n) - s) % SeqMod < HoldQSz

\* This step of context c moves the window under the other one.
Crosses(c) == seq_next' # seq_next /\ \E d \in Contexts \ {c} : Committed(d)

\* History, while nothing upset the session.
Record(d, s) ==
  /\ delivered' = IF History /\ ~upset' THEN d ELSE <<>>
  /\ stored' = IF History /\ ~upset' THEN s ELSE {}

-----------------------------------------------------------------------------
(* aggr_deque_frms.  The call sites, with their arguments and where they
   return to. *)

Sites == {"chase", "shift", "inorder", "flush", "reflush",
          "skip", "after_skip", "jump", "after_jump"}

\* Argument seq_no; 0 means the whole window.
SeqArg(s) ==
  CASE s = "shift" -> (SeqNo(frame) - (HoldQSz - 1)) % SeqMod
    [] s = "skip"  -> NextSeq(timerwait_seq_num)
    [] s = "jump"  -> NextSeq(issue_timer_seq)
    [] OTHER       -> 0

\* Mutation: the timeout stops at the hole it should skip.
OrderedToo(s) == s \in {"inorder", "skip", "after_skip", "after_jump"}

\* Argument order: stop at the first hole.
Ordered(s) == s \in {"inorder", "after_skip", "after_jump"}

ReturnTo(s) ==
  CASE s = "chase"      -> "chased"
    [] s = "shift"      -> "shifted"
    [] s = "inorder"    -> "settle"
    [] s = "flush"      -> "delete"
    [] s = "reflush"    -> "redelete"
    [] s = "skip"       -> "after_skip"
    [] s = "after_skip" -> "judge"
    [] s = "jump"       -> "after_jump"
    [] s = "after_jump" -> "jumped"

\* idx and idx_end are computed before rxtid->lock is taken.  Without a
\* session hold_q_sz is 0 and the division kills the kernel.
DequeRead(c) ==
  LET s == pc[c] IN
  /\ ~oops /\ s \in Sites
  /\ \/ /\ aggr
        /\ idx' = [idx EXCEPT ![c] = WinIdx(seq_next)]
        /\ idx_end' = [idx_end EXCEPT ![c] =
                         WinIdx(IF SeqArg(s) # 0 THEN SeqArg(s) ELSE seq_next)]
        /\ site' = [site EXCEPT ![c] = s]
        /\ Goto(c, "walk")
        /\ UNCHANGED oops
     \/ /\ ~aggr
        /\ oops' = TRUE
        /\ UNCHANGED <<idx, idx_end, site, pc>>
  /\ UNCHANGED <<aggr, seq_next, sync_next_seq, hold_q, timerVars, frame, base,
                 histVars>>

\* Mutation: the loop goes through the array from its first slot.
SlotFromZero(c, i) == IF i = 0 THEN idx[c] ELSE WinIdx(i)

\* The slot looked at in iteration i (from 0) of the loop.
SlotAt(c, i) ==
  IF i = 0 THEN idx[c] ELSE WinIdx((seq_next + i) % SeqMod)

\* Iteration i finds a frame: there is one, and no earlier iteration took it.
FrameAt(c, i) ==
  /\ hold_q[SlotAt(c, i)] # NoFrame
  /\ \A j \in 0..(i - 1) : SlotAt(c, j) # SlotAt(c, i)

\* The loop runs to the first k with (seq_next + k) % hold_q_sz = idx_end, or,
\* in order, to the first hole.
Iterations(c) ==
  CHOOSE k \in 0..HoldQSz :
    LET stops(i) == \/ i > 0 /\ SlotAt(c, i) = idx_end[c]
                    \/ Ordered(site[c]) /\ ~FrameAt(c, i)
    IN stops(k) /\ \A i \in 0..(k - 1) : ~stops(i)

\* Mutation: node->skb is not reset.
TakenNone(c) == hold_q

\* The hold queue after the loop.
Taken(c) ==
  [s \in Slots |-> IF \E i \in 0..(Iterations(c) - 1) : SlotAt(c, i) = s
                   THEN NoFrame ELSE hold_q[s]]

\* Mutation: the last iteration is not collected.
CollectedShort(c) ==
  LET visited == 1..(Iterations(c) - 1)
  IN  Keep([i \in visited |-> hold_q[SlotAt(c, i - 1)]],
           {i \in visited : FrameAt(c, i - 1)})

\* The frames the loop collects, in order.
Collected(c) ==
  LET visited == 1..Iterations(c)
  IN  Keep([i \in visited |-> hold_q[SlotAt(c, i - 1)]],
           {i \in visited : FrameAt(c, i - 1)})

\* The loop and the delivery, under rxtid->lock.  With the array freed
\* meanwhile the loop dereferences NULL.
DequeWalk(c) ==
  /\ ~oops /\ pc[c] = "walk"
  /\ \/ /\ aggr
        /\ hold_q' = Taken(c)
        /\ seq_next' = (seq_next + Iterations(c)) % SeqMod
        /\ upset' = (upset \/ Crosses(c))
        /\ Record(delivered \o Collected(c), stored)
        /\ Goto(c, ReturnTo(site[c]))
        /\ idx' = [idx EXCEPT ![c] = 0]
        /\ idx_end' = [idx_end EXCEPT ![c] = 0]
        /\ site' = [site EXCEPT ![c] = "none"]
        /\ UNCHANGED oops
     \/ /\ ~aggr
        /\ oops' = TRUE
        /\ UNCHANGED <<hold_q, seq_next, pc, dequeVars, delivered, stored, upset>>
  /\ UNCHANGED <<aggr, sync_next_seq, timerVars, frame, base, stale>>

-----------------------------------------------------------------------------
(* aggr_process_recv_frm *)

\* Where a frame with sequence number cur stands when the window starts at st.
WindowEnd(st) == (st + HoldQSz - 1) % SeqMod
ExtendedEnd(st) == (WindowEnd(st) + HoldQSz) % SeqMod

InWindow(st, cur) == ~Outside(st, WindowEnd(st), cur)

JustBeyond(st, cur) ==
  ~InWindow(st, cur) /\ ~Outside(WindowEnd(st), ExtendedEnd(st), cur)

FarAhead(st, cur) ==
  LET range_val == (cur - st) % SeqMod IN
  /\ ~InWindow(st, cur) /\ ~JustBeyond(st, cur)
  /\ range_val >= 2 * HoldQSz
  /\ range_val <= SeqMod - 1 - 2 * HoldQSz + 1

\* node->skb = frame: whatever the slot held is freed.  Nothing tells whether
\* the frame is in the window.
Store(n) ==
  /\ hold_q' = [hold_q EXCEPT ![WinIdx(SeqNo(n))] = n]
  /\ upset' = (upset \/ Crosses("rx") \/ ~Fits(seq_next', n))
  /\ Record(delivered, stored \cup {n})

\* The frame is not put into the hold queue now.
StoreNot ==
  /\ upset' = (upset \/ Crosses("rx"))
  /\ Record(delivered, stored)
  /\ UNCHANGED hold_q

\* Frames behind the window, or too far ahead of it, are dropped unless the
\* configuration says otherwise.
Drops(st, cur) ==
  RxAggrDrop /\ ~InWindow(st, cur) /\ ~JustBeyond(st, cur)

\* The peer's block-ack window: having sent frame n it will not send frames
\* more than WinSz - 1 before it any more.  The frames between, sent or not, may
\* still come, or come again.
PeerBase(n) == IF n - WinSz + 1 > base THEN n - WinSz + 1 ELSE base

\* The first lock section: the frame is stored, dropped, or the lock is given
\* up to move the window first.  Without a session frames go straight up.
Receive(n) ==
  LET cur == SeqNo(n)
      st  == IF sync_next_seq THEN cur ELSE seq_next
  IN
  /\ MayStart("rx")
  /\ aggr
  /\ n >= base /\ n <= base + MaxLoss
  /\ base' = PeerBase(n)
  /\ seq_next' = st
  /\ sync_next_seq' = FALSE
  /\ \/ /\ JustBeyond(st, cur) \/ FarAhead(st, cur)
        /\ frame' = n
        /\ Goto("rx", IF FarAhead(st, cur) THEN "chase" ELSE "shift")
        /\ StoreNot
     \/ /\ ~JustBeyond(st, cur) /\ ~FarAhead(st, cur) /\ Drops(st, cur)
        /\ StoreNot
        /\ UNCHANGED <<frame, pc>>
     \/ /\ ~JustBeyond(st, cur) /\ ~FarAhead(st, cur) /\ ~Drops(st, cur)
        /\ Store(n)
        /\ Goto("rx", "inorder")
        /\ UNCHANGED frame
  /\ UNCHANGED <<aggr, timerVars, dequeVars, oops, stale>>

\* After the window was moved: the frame is stored.
Shifted ==
  /\ ~oops /\ pc["rx"] = "shifted"
  /\ UNCHANGED seq_next
  /\ Store(frame)
  /\ frame' = NoFrame
  /\ Goto("rx", "inorder")
  /\ UNCHANGED <<aggr, sync_next_seq, timerVars, dequeVars, base, oops, stale>>

\* After the whole window was flushed: it restarts just before the frame.
Chased ==
  /\ ~oops /\ pc["rx"] = "chased"
  /\ seq_next' = (SeqNo(frame) - HoldQSz) % SeqMod
  /\ IF RxAggrDrop
     THEN Goto("rx", "idle") /\ StoreNot
     ELSE Goto("rx", "inorder") /\ Store(frame)
  /\ frame' = NoFrame
  /\ UNCHANGED <<aggr, sync_next_seq, timerVars, dequeVars, base, oops, stale>>

\* The running timer waits for a hole that is gone.
Restarts == tid_timer_scheduled /\ timerwait_seq_num # seq_next

\* The last lock section: a timer that waits for another hole is cancelled,
\* and one is started if frames are held and none runs.
Settle ==
  LET running == tid_timer_scheduled /\ ~Restarts
      count   == IF Restarts THEN 0 ELSE continuous_count
  IN
  /\ ~oops /\ pc["rx"] = "settle"
  /\ IF ~running /\ HeldSlots # {}
     THEN /\ issue_timer_seq' = SeqNo(hold_q[LowestHeld])
          /\ timerwait_seq_num' = seq_next
          /\ continuous_count' = count + 1
          /\ tid_timer_scheduled' = TRUE
          /\ tid_timer' = TRUE
     ELSE /\ continuous_count' = count
          /\ tid_timer_scheduled' = running
          /\ tid_timer' = (tid_timer /\ ~Restarts)
          /\ UNCHANGED <<issue_timer_seq, timerwait_seq_num>>
  /\ stale' = (stale /\ running)
  /\ Goto("rx", "idle")
  /\ UNCHANGED <<aggr, seq_next, sync_next_seq, hold_q, dequeVars, frame,
                 base, oops, delivered, stored, upset>>

-----------------------------------------------------------------------------
(* aggr_timeout *)

\* The timer expires; the first test is made without the lock.
Expire ==
  /\ MayStart("timer")
  /\ tid_timer
  /\ tid_timer' = FALSE
  /\ Goto("timer", IF aggr /\ tid_timer_scheduled THEN "timeout" ELSE "idle")
  /\ UNCHANGED <<aggr, seq_next, sync_next_seq, hold_q, tid_timer_scheduled,
                 timerwait_seq_num, issue_timer_seq, continuous_count, dequeVars,
                 frame, worldVars>>

\* Under the lock: is the frame waited for still missing?
Timeout ==
  /\ ~oops /\ pc["timer"] = "timeout"
  /\ Goto("timer", IF timerwait_seq_num = seq_next THEN "skip" ELSE "rearm")
  /\ UNCHANGED <<aggr, seq_next, sync_next_seq, hold_q, timerVars, dequeVars,
                 frame, worldVars>>

\* After the missing frame was skipped, without the lock: a hole again?
Judge ==
  /\ ~oops /\ pc["timer"] = "judge"
  /\ \/ /\ seq_next = NextSeq(timerwait_seq_num)
        /\ Goto("timer", IF continuous_count >= MaxWait THEN "jump" ELSE "rearm")
        /\ UNCHANGED continuous_count
     \/ /\ seq_next # NextSeq(timerwait_seq_num)
        /\ continuous_count' = 0
        /\ Goto("timer", "rearm")
  /\ UNCHANGED <<aggr, seq_next, sync_next_seq, hold_q, tid_timer,
                 tid_timer_scheduled, timerwait_seq_num, issue_timer_seq,
                 dequeVars, frame, worldVars>>

Jumped ==
  /\ ~oops /\ pc["timer"] = "jumped"
  /\ continuous_count' = 0
  /\ Goto("timer", "rearm")
  /\ UNCHANGED <<aggr, seq_next, sync_next_seq, hold_q, tid_timer,
                 tid_timer_scheduled, timerwait_seq_num, issue_timer_seq,
                 dequeVars, frame, worldVars>>

\* Mutation: the handler does not look for frames that still wait.
StillWaitingNot == FALSE

StillWaiting == aggr /\ HeldSlots # {}

\* Mutation: the count is never reset.
NoLimit(count) == count

\* More consecutive holes than MaxWait: start counting again.
Limited(count) == IF count > 1 /\ count > MaxWait THEN 0 ELSE count

\* The last lock section: while frames are held the timer runs.
Rearm ==
  LET count == continuous_count + (IF StillWaiting THEN 1 ELSE 0) IN
  /\ ~oops /\ pc["timer"] = "rearm"
  /\ tid_timer_scheduled' = StillWaiting
  /\ tid_timer' = (tid_timer \/ StillWaiting)
  /\ issue_timer_seq' = IF StillWaiting THEN SeqNo(hold_q[LowestHeld])
                        ELSE issue_timer_seq
  /\ timerwait_seq_num' = IF StillWaiting THEN seq_next ELSE timerwait_seq_num
  /\ continuous_count' = Limited(count)
  /\ stale' = FALSE
  /\ Goto("timer", "idle")
  /\ UNCHANGED <<aggr, seq_next, sync_next_seq, hold_q, dequeVars, frame,
                 base, oops, delivered, stored, upset>>

-----------------------------------------------------------------------------
(* Sessions *)

\* aggr_recv_addba_req_evt: a session that is still there is deleted first.
AddBa ==
  /\ MayStart("rx")
  /\ aggr => base <= EndBase
  /\ Goto("rx", IF aggr THEN "reflush" ELSE "addba")
  /\ UNCHANGED <<aggr, seq_next, sync_next_seq, hold_q, timerVars, dequeVars,
                 frame, worldVars>>

\* Its lock section.  When the allocation fails there is no session.
StartSession ==
  /\ ~oops /\ pc["rx"] = "addba"
  /\ seq_next' = SeqNo(base)
  /\ \/ aggr' = TRUE /\ sync_next_seq' = TRUE
     \/ UNCHANGED <<aggr, sync_next_seq>>
  /\ upset' = (upset \/ Crosses("rx"))
  /\ Goto("rx", "idle")
  /\ UNCHANGED <<hold_q, timerVars, dequeVars, frame, base, oops, delivered,
                 stored, stale>>

\* aggr_recv_delba_req_evt and aggr_reset_state: flush what is held, if
\* anything can be.
EndSession ==
  /\ MayStart("rx")
  /\ base <= EndBase
  /\ Goto("rx", IF aggr THEN "flush" ELSE "delete")
  /\ UNCHANGED <<aggr, seq_next, sync_next_seq, hold_q, timerVars, dequeVars,
                 frame, worldVars>>

\* The lock section of aggr_delete_tid_state: the hold queue is freed with
\* whatever is in it.  The timer and tid_timer_scheduled are left alone.
DeleteTidState ==
  /\ ~oops /\ pc["rx"] \in {"delete", "redelete"}
  /\ aggr' = FALSE
  /\ seq_next' = 0
  /\ hold_q' = Empty
  /\ delivered' = <<>> /\ stored' = {}
  /\ upset' = Committed("timer")
  /\ stale' = tid_timer_scheduled
  /\ Goto("rx", IF pc["rx"] = "delete" THEN "idle" ELSE "addba")
  /\ UNCHANGED <<sync_next_seq, timerVars, dequeVars, frame, base, oops>>

-----------------------------------------------------------------------------

\* aggr_init_conn
Init ==
  /\ aggr = FALSE
  /\ seq_next = 0
  /\ sync_next_seq = FALSE
  /\ hold_q = Empty
  /\ tid_timer = FALSE
  /\ tid_timer_scheduled = FALSE
  /\ timerwait_seq_num = 0
  /\ issue_timer_seq = 0
  /\ continuous_count = 0
  /\ pc = [c \in Contexts |-> "idle"]
  /\ site = [c \in Contexts |-> "none"]
  /\ idx = [c \in Contexts |-> 0]
  /\ idx_end = [c \in Contexts |-> 0]
  /\ frame = NoFrame
  /\ base = FirstFrame
  /\ oops = FALSE
  /\ delivered = <<>> /\ stored = {}
  /\ upset = FALSE /\ stale = FALSE

\* The steps of a context that is inside this code.
Step(c) ==
  \/ DequeRead(c)
  \/ DequeWalk(c)
  \/ c = "rx" /\ Shifted
  \/ c = "rx" /\ Chased
  \/ c = "rx" /\ Settle
  \/ c = "rx" /\ StartSession
  \/ c = "rx" /\ DeleteTidState
  \/ c = "timer" /\ Timeout
  \/ c = "timer" /\ Judge
  \/ c = "timer" /\ Jumped
  \/ c = "timer" /\ Rearm

Next ==
  \/ \E n \in Frames \ Lost : Receive(n)
  \/ AddBa \/ EndSession
  \/ Expire
  \/ \E c \in Contexts : Step(c)

Spec == Init /\ [][Next]_vars

\* Fairness: a context that is inside this code goes on, and a pending timer
\* expires.  The peer is not obliged to send anything.
Fairness == (\A c \in Contexts : WF_vars(Step(c))) /\ SF_vars(Expire)

FairSpec == Spec /\ Fairness

-----------------------------------------------------------------------------
(* Properties *)

PCs == Sites \cup {"idle", "walk", "chased", "shifted", "settle", "addba",
                   "delete", "redelete", "timeout", "judge", "jumped", "rearm"}

\* Types of the whole state.  continuous_count is a divisor of the next timeout
\* and the guard of the jump over consecutive holes: it stays within MaxWait + 1.
TypeOK ==
  /\ {aggr, sync_next_seq, tid_timer, tid_timer_scheduled, oops, upset, stale}
       \subseteq BOOLEAN
  /\ {seq_next, timerwait_seq_num, issue_timer_seq} \subseteq Seqs
  /\ hold_q \in [Slots -> Frames \cup {NoFrame}]
  /\ continuous_count \in 0..(MaxWait + 1)
  /\ pc \in [Contexts -> PCs]
  /\ site \in [Contexts -> Sites \cup {"none"}]
  /\ idx \in [Contexts -> Slots]
  /\ idx_end \in [Contexts -> Slots]
  /\ frame \in Frames \cup {NoFrame}
  /\ base \in Frames
  /\ delivered \in Seq(Frames)
  /\ stored \subseteq Frames

\* Within a block-ack session frames reach the network stack in the order the
\* peer sent them, each once, whatever order, duplicates and losses the air
\* produced and however often the timer gave up on one; until a frame outside
\* the window is put into the queue, which the default quirks allow, or one
\* context moves the window between the other's look at it and its lock section.
InOrder ==
  upset \/ \A i, j \in 1..Len(delivered) : i < j => delivered[i] < delivered[j]

\* "is the frame_seq_no preceding current tid_seq_no? -> drop the frame. [..]
\* this is taken care of above": every frame held lies in seq_next ..
\* seq_next + hold_q_sz - 1, in the slot of its number.
HeldInWindow ==
  \A i \in HeldSlots : WinIdx(SeqNo(hold_q[i])) = i /\ Fits(seq_next, hold_q[i])

\* The same until a frame that lies outside the window is stored, or one context
\* moves the window under the other: neither time-outs nor shifts of the window
\* leave a frame behind it or in the slot of another one.
WindowKept == upset \/ HeldInWindow

\* A frame accepted into the hold queue is delivered, up to the same events: it
\* is never overwritten by another one, passed over by the window or freed with
\* the array.
NoFrameLost ==
  \/ upset
  \/ ~History
  \/ /\ stored \subseteq Held \cup {delivered[i] : i \in 1..Len(delivered)}
     /\ pc["rx"] \in {"delete", "redelete"} => HeldSlots = {}

\* "start a timer to ensure that the frame doesn't remain stuck forever": when
\* both contexts are out of this code and a frame is held, the timer runs.
HeldHasTimer ==
  HeldSlots # {} /\ (\A c \in Contexts : pc[c] = "idle") /\ ~oops
    => tid_timer /\ tid_timer_scheduled

\* The same in every session that finds tid_timer_scheduled in order.
HeldTimed == stale \/ HeldHasTimer

\* Every held frame is eventually delivered, even when the peer sends nothing
\* any more and however the timer and the worker interleave; with the same
\* exception, and unless the kernel died.
HeldDelivered == \A n \in Probes : n \in Held ~> n \notin Held \/ stale \/ oops
=============================================================================
