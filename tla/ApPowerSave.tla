----------------------------- MODULE ApPowerSave -----------------------------
(***************************************************************************)
(* Power save of one station of an access point, and of the multicast      *)
(* frames of its interface (drivers/ath6kl/txrx.c and main.c): frames for  *)
(* a sleeping station wait in psq_data and psq_mgmt, multicast frames in   *)
(* psq_mcast; the station's bit in the beacon's traffic map is set and     *)
(* cleared by commands; polls, uAPSD triggers, the end of sleep, the DTIM  *)
(* event and an aging timer empty the queues.                              *)
(*                                                                         *)
(* Contexts: "snd", the network stack (ath6kl_data_tx); "mgr", cfg80211    *)
(* sending management frames; "rx", the worker that handles the station's  *)
(* frames and WMI events; the aging timer.  conn->lock protects the queues *)
(* but neither sta_flags nor the traffic map commands.                     *)
(***************************************************************************)
EXTENDS Integers, Sequences, FiniteSets, Functions, Subsequence

CONSTANTS
  MaxDepth,       \* max_depth of psq_data (zero would mean no limit)
  AgeCycle,       \* ATH6KL_PS_QUEUE_MAX_AGE
  SpFrames,       \* frames of a uAPSD service period, from apsd_info
  MaxFrames,      \* bound: frames given to the driver
  MaxRx           \* bound: events and station frames

ASSUME PowerSaveConstants ==
  /\ MaxDepth \in Nat \ {0} /\ AgeCycle \in Nat \ {0} /\ SpFrames \in Nat \ {0}
  /\ MaxFrames \in Nat /\ MaxRx \in Nat

Frames == 1 .. MaxFrames
NoFrame == 0

VARIABLES
  assoc,                  \* the station's slot is in use
  sleep, polled, triggered, eosp, \* STA_PS_SLEEP, _POLLED, _APSD_TRIGGER, _EOSP
  psq_data, psq_mgmt, psq_mcast, age,
  dtim,                   \* DTIM_EXPIRED
  timer,                  \* psq_age_timer is pending
  tim, mtim,              \* the traffic map: the station's and multicast bits
  \* locals
  pc, hand,
  empty, left,            \* is_psq_empty, num_frames_to_deliver
  \* history
  given, gone,            \* frames taken from the callers; sent or dropped
  late,                   \* a frame was queued after the station woke or left
  crossed,                \* a frame was queued between another context's look
                          \* at the queues and its traffic map command
  sp,                     \* this service period: frames sent; the frame taken
                          \* last is a management frame; the one sent last
                          \* carried EOSP; frames aged
  rxs

flagVars  == <<assoc, sleep, polled, triggered, eosp, dtim>>
queueVars == <<psq_data, psq_mgmt, psq_mcast, age>>
timVars   == <<tim, mtim>>
locVars   == <<pc, hand, empty, left>>
histVars  == <<given, gone, late, crossed, sp, rxs>>
vars == <<flagVars, queueVars, timer, timVars, locVars, histVars>>

Contexts == {"snd", "mgr", "rx"}

Goto(c, l) == pc' = [pc EXCEPT ![c] = l]

Empty == psq_data = <<>> /\ psq_mgmt = <<>>

NoSp == [sent |-> 0, mgmt |-> FALSE, eosp |-> FALSE, aged |-> FALSE]

-----------------------------------------------------------------------------
(* Frames from the network stack and from cfg80211.  The first look at
   sta_flags takes no lock. *)

\* _powersave_ap_tx_unicast
Unicast ==
  /\ pc["snd"] = "idle" /\ given < MaxFrames
  /\ assoc
  /\ given' = given + 1
  /\ IF ~sleep
     THEN gone' = gone \cup {given'} /\ UNCHANGED <<pc, hand>>
     ELSE /\ hand' = [hand EXCEPT !["snd"] = given']
          /\ Goto("snd", IF polled \/ triggered THEN "awake" ELSE "queue")
          /\ UNCHANGED gone
  /\ UNCHANGED <<flagVars, queueVars, timer, timVars, empty, left, late,
                 crossed, sp, rxs>>

\* __powersave_ap_tx_unicast_awake, then the frame is sent.
UnicastAwake ==
  /\ pc["snd"] = "awake"
  /\ gone' = gone \cup {hand["snd"]}
  /\ hand' = [hand EXCEPT !["snd"] = NoFrame]
  /\ Goto("snd", "idle")
  /\ UNCHANGED <<flagVars, queueVars, timer, timVars, empty, left, given,
                 late, crossed, sp, rxs>>

\* ath6kl_mgmt_powersave_ap
Mgmt ==
  /\ pc["mgr"] = "idle" /\ given < MaxFrames
  /\ assoc
  /\ given' = given + 1
  /\ IF ~sleep \/ polled
     THEN gone' = gone \cup {given'} /\ UNCHANGED <<pc, hand>>
     ELSE /\ hand' = [hand EXCEPT !["mgr"] = given']
          /\ Goto("mgr", "queue")
          /\ UNCHANGED gone
  /\ UNCHANGED <<flagVars, queueVars, timer, timVars, empty, left, late,
                 crossed, sp, rxs>>

\* The worker found the queues empty and has not told the traffic map yet.
Telling == pc["rx"] = "clear" \/ (pc["rx"] \in {"serve", "serving"} /\ empty)

\* Mutation: no limit.
NeverFull == FALSE

\* The test of ath6kl_ps_queue_enqueue_data
Full == Len(psq_data) > MaxDepth

\* __powersave_ap_tx_unicast_sleep and the same part of
\* ath6kl_mgmt_powersave_ap, under conn->lock.  A full queue, or no memory,
\* drops the frame; only the first frame is told to the traffic map.
Enqueue(c) ==
  LET f == hand[c]
      kept == /\ psq_data' = IF c = "snd" THEN Append(psq_data, f) ELSE psq_data
              /\ psq_mgmt' = IF c = "mgr" THEN Append(psq_mgmt, f) ELSE psq_mgmt
              /\ age' = [age EXCEPT ![f] = 0]
              /\ late' = (late \/ ~sleep \/ ~assoc)
              /\ crossed' = (crossed \/ Telling)
              /\ Goto(c, IF Empty THEN "tell" ELSE "idle")
              /\ UNCHANGED gone
      dropped == /\ gone' = gone \cup {f}
                 /\ Goto(c, "idle")
                 /\ UNCHANGED <<psq_data, psq_mgmt, age, late, crossed>>
  IN  /\ c \in {"snd", "mgr"} /\ pc[c] = "queue"
      /\ \/ ~(c = "snd" /\ Full) /\ kept
         \/ dropped
      /\ hand' = [hand EXCEPT ![c] = NoFrame]
      /\ UNCHANGED <<flagVars, psq_mcast, timer, timVars, empty, left, given,
                     sp, rxs>>

\* ath6kl_wmi_set_pvb_cmd(.., conn->aid, 1), after the lock: the aid of a
\* station that left meanwhile is zero.
Tell(c) ==
  /\ c \in {"snd", "mgr"} /\ pc[c] = "tell"
  /\ tim' = (tim \/ assoc)
  /\ Goto(c, "idle")
  /\ UNCHANGED <<flagVars, queueVars, timer, mtim, hand, empty, left,
                 histVars>>

\* _powersave_ap_tx_multicast: while a station sleeps the frame waits for the
\* DTIM.
Multicast ==
  /\ pc["snd"] = "idle" /\ given < MaxFrames
  /\ given' = given + 1
  /\ IF sleep /\ ~dtim
     THEN /\ hand' = [hand EXCEPT !["snd"] = given']
          /\ Goto("snd", "mqueue")
          /\ UNCHANGED gone
     ELSE gone' = gone \cup {given'} /\ UNCHANGED <<pc, hand>>
  /\ UNCHANGED <<flagVars, queueVars, timer, timVars, empty, left, late,
                 crossed, sp, rxs>>

\* Its section under psq_mcast_lock; for want of memory the frame is dropped.
MulticastQueue ==
  /\ pc["snd"] = "mqueue"
  /\ \/ /\ psq_mcast' = Append(psq_mcast, hand["snd"])
        /\ Goto("snd", IF psq_mcast = <<>> THEN "mtell" ELSE "idle")
        /\ UNCHANGED gone
     \/ /\ gone' = gone \cup {hand["snd"]}
        /\ Goto("snd", "idle")
        /\ UNCHANGED psq_mcast
  /\ hand' = [hand EXCEPT !["snd"] = NoFrame]
  /\ UNCHANGED <<flagVars, psq_data, psq_mgmt, age, timer, timVars, empty,
                 left, given, late, crossed, sp, rxs>>

MulticastTell ==
  /\ pc["snd"] = "mtell"
  /\ mtim' = TRUE
  /\ Goto("snd", "idle")
  /\ UNCHANGED <<flagVars, queueVars, timer, tim, hand, empty, left,
                 histVars>>

-----------------------------------------------------------------------------
(* ath6kl_pspoll_event *)

\* Mutation: the frame stays in its queue.
TakeCopy ==
  /\ hand' = [hand EXCEPT !["rx"] = Head(psq_mgmt \o psq_data)]
  /\ UNCHANGED <<psq_data, psq_mgmt>>

\* The next frame for the station: management frames go first.
Take ==
  /\ hand' = [hand EXCEPT !["rx"] = Head(psq_mgmt \o psq_data)]
  /\ IF psq_mgmt # <<>>
     THEN psq_mgmt' = Tail(psq_mgmt) /\ UNCHANGED psq_data
     ELSE psq_data' = Tail(psq_data) /\ UNCHANGED psq_mgmt

Event == pc["rx"] = "idle" /\ rxs < MaxRx /\ rxs' = rxs + 1

\* The frame is taken under conn->lock, the flag set after it.
PsPoll ==
  /\ Event
  /\ assoc /\ ~Empty
  /\ Take
  /\ polled' = TRUE
  /\ Goto("rx", "poll")
  /\ UNCHANGED <<assoc, sleep, triggered, eosp, dtim, psq_mcast, age, timer,
                 timVars, empty, left, given, gone, late, crossed, sp>>

\* The frame is sent (a data frame through Unicast's path, marked as the
\* answer) and the flag cleared.
PollSend ==
  /\ pc["rx"] = "poll"
  /\ gone' = gone \cup {hand["rx"]}
  /\ hand' = [hand EXCEPT !["rx"] = NoFrame]
  /\ polled' = FALSE
  /\ Goto("rx", "polled")
  /\ UNCHANGED <<assoc, sleep, triggered, eosp, dtim, queueVars, timer,
                 timVars, empty, left, given, late, crossed, sp, rxs>>

\* Mutation: the bit is cleared when a frame remains.
ClearAlways == TRUE

\* The queues are looked at again, under the lock.
NothingLeft == Empty

PollCheck ==
  /\ pc["rx"] = "polled"
  /\ Goto("rx", IF NothingLeft THEN "clear" ELSE "idle")
  /\ UNCHANGED <<flagVars, queueVars, timer, timVars, hand, empty, left,
                 histVars>>

\* ath6kl_wmi_set_pvb_cmd(.., aid, 0), with no lock
Clear ==
  /\ pc["rx"] = "clear"
  /\ tim' = FALSE
  /\ Goto("rx", "idle")
  /\ UNCHANGED <<flagVars, queueVars, timer, mtim, hand, empty, left,
                 histVars>>

-----------------------------------------------------------------------------
(* _powersave_ap_rx: a frame of the station with its power state *)

\* Asleep: the timer starts with the sleep; a trigger opens a service period.
StaAsleep(trigger) ==
  /\ Event
  /\ assoc
  /\ sleep' = TRUE
  /\ timer' = (timer \/ ~sleep)
  /\ IF trigger
     THEN /\ empty' = Empty
          /\ left' = SpFrames
          /\ sp' = NoSp
          /\ Goto("rx", "serve")
     ELSE UNCHANGED <<empty, left, sp, pc>>
  /\ UNCHANGED <<assoc, polled, triggered, eosp, dtim, queueVars, timVars,
                 hand, given, gone, late, crossed>>

\* Awake after sleep: stop the timer, then flush.
StaAwake ==
  /\ Event
  /\ assoc /\ sleep
  /\ sleep' = FALSE
  /\ timer' = FALSE
  /\ Goto("rx", "flush_mgmt")
  /\ UNCHANGED <<assoc, polled, triggered, eosp, dtim, queueVars, timVars,
                 hand, empty, left, given, gone, late, crossed, sp>>

\* Mutation: management frames are left in their queue.
FlushDataOnly ==
  /\ pc["rx"] = "flush_mgmt"
  /\ Goto("rx", "flush_data")
  /\ UNCHANGED <<psq_mgmt, gone>>

\* One turn of the loop over psq_mgmt; the frame is sent without the lock.
FlushMgmt ==
  /\ pc["rx"] = "flush_mgmt"
  /\ IF psq_mgmt # <<>>
     THEN /\ gone' = gone \cup {Head(psq_mgmt)}
          /\ psq_mgmt' = Tail(psq_mgmt)
          /\ UNCHANGED pc
     ELSE Goto("rx", "flush_data") /\ UNCHANGED <<psq_mgmt, gone>>

\* One turn of the loop over psq_data, then the traffic map command.  The
\* frame goes through ath6kl_data_tx and finds the station awake.
FlushData ==
  /\ pc["rx"] = "flush_data"
  /\ IF psq_data # <<>>
     THEN /\ gone' = gone \cup {Head(psq_data)}
          /\ psq_data' = Tail(psq_data)
          /\ UNCHANGED pc
     ELSE Goto("rx", "clear") /\ UNCHANGED <<psq_data, gone>>

Flush ==
  /\ \/ FlushMgmt /\ UNCHANGED psq_data
     \/ FlushData /\ UNCHANGED psq_mgmt
  /\ UNCHANGED <<flagVars, psq_mcast, age, timer, timVars, hand, empty, left,
                 given, late, crossed, sp, rxs>>

-----------------------------------------------------------------------------
(* ath6kl_uapsd_trigger_frame_rx *)

\* Mutation: only an empty queue ends the period.
LastIfEmpty(none, n) == none

\* The frame is the last one of the service period.
LastOfPeriod(none, n) == none \/ n = 0

\* One turn of its loop: a frame is taken under conn->lock and the flags set
\* after it; the aging timer may have left none.
ServeTake ==
  /\ pc["rx"] = "serve" /\ ~empty /\ left > 0
  /\ IF Empty
     THEN /\ empty' = TRUE
          /\ UNCHANGED <<psq_data, psq_mgmt, hand, left, triggered, eosp, pc,
                         sp>>
     ELSE /\ Take
          /\ sp' = [sp EXCEPT !.mgmt = psq_mgmt # <<>>]
          /\ empty' = (psq_data' = <<>> /\ psq_mgmt' = <<>>)
          /\ left' = left - 1
          /\ triggered' = TRUE
          /\ eosp' = LastOfPeriod(empty', left')
          /\ Goto("rx", "serving")
  /\ UNCHANGED <<assoc, sleep, polled, dtim, psq_mcast, age, timer, timVars,
                 given, gone, late, crossed, rxs>>

\* Only a data frame's header carries STA_PS_APSD_EOSP: the WMI commands that
\* send management frames have no place for it.
ServeSend ==
  /\ pc["rx"] = "serving"
  /\ gone' = gone \cup {hand["rx"]}
  /\ sp' = [sp EXCEPT !.sent = @ + 1, !.eosp = eosp /\ ~sp.mgmt]
  /\ hand' = [hand EXCEPT !["rx"] = NoFrame]
  /\ triggered' = FALSE /\ eosp' = FALSE
  /\ Goto("rx", "serve")
  /\ UNCHANGED <<assoc, sleep, polled, dtim, queueVars, timer, timVars, empty,
                 left, given, late, crossed, rxs>>

ServeEnd ==
  /\ pc["rx"] = "serve" /\ (empty \/ left = 0)
  /\ Goto("rx", IF empty THEN "clear" ELSE "idle")
  /\ empty' = FALSE /\ left' = 0
  /\ UNCHANGED <<flagVars, queueVars, timer, timVars, hand, histVars>>

-----------------------------------------------------------------------------
(* ath6kl_dtimexpiry_event *)

Dtim ==
  /\ Event
  /\ assoc /\ psq_mcast # <<>>
  /\ dtim' = TRUE
  /\ Goto("rx", "dtim")
  /\ UNCHANGED <<assoc, sleep, polled, triggered, eosp, queueVars, timer,
                 timVars, hand, empty, left, given, gone, late, crossed, sp>>

DtimSend ==
  /\ pc["rx"] = "dtim"
  /\ IF psq_mcast # <<>>
     THEN /\ gone' = gone \cup {Head(psq_mcast)}
          /\ psq_mcast' = Tail(psq_mcast)
          /\ UNCHANGED <<dtim, pc>>
     ELSE /\ dtim' = FALSE
          /\ Goto("rx", "mclear")
          /\ UNCHANGED <<psq_mcast, gone>>
  /\ UNCHANGED <<assoc, sleep, polled, triggered, eosp, psq_data, psq_mgmt,
                 age, timer, timVars, hand, empty, left, given, late, crossed,
                 sp, rxs>>

MulticastClear ==
  /\ pc["rx"] = "mclear"
  /\ mtim' = FALSE
  /\ Goto("rx", "idle")
  /\ UNCHANGED <<flagVars, queueVars, timer, tim, hand, empty, left,
                 histVars>>

-----------------------------------------------------------------------------
(* The aging timer and the station's life *)

Old(f) == age[f] + 1 >= AgeCycle

\* What ath6kl_ps_queue_aging leaves of the queue q.
Aged(q) == Keep(q, {i \in DOMAIN q : ~Old(q[i])})

\* Mutation: the handler does not start the timer again.
NoRearm == timer' = FALSE

\* The handler starts the timer again.
Rearm == timer' = timer

\* ath6kl_ps_queue_age_handler, under conn->lock: psq_mgmt ages only when
\* psq_data is empty after its own aging.
AgeHandler ==
  /\ timer
  /\ LET data == Aged(psq_data)
         both == data = <<>>
         mgmt == IF both THEN Aged(psq_mgmt) ELSE psq_mgmt
         seen == Range(psq_data) \cup (IF both THEN Range(psq_mgmt) ELSE {})
         aged == {f \in seen : Old(f)}
     IN  /\ psq_data' = data /\ psq_mgmt' = mgmt
         /\ gone' = gone \cup aged
         /\ age' = [f \in Frames |-> IF f \in seen \ aged THEN age[f] + 1
                                     ELSE IF f \in aged THEN 0 ELSE age[f]]
         /\ tim' = IF both /\ mgmt = <<>> THEN FALSE ELSE tim
         /\ sp' = [sp EXCEPT !.aged = @ \/ (aged # {} /\ pc["rx"] # "idle")]
  /\ Rearm
  /\ UNCHANGED <<flagVars, psq_mcast, mtim, pc, hand, empty, left, given,
                 late, crossed, rxs>>

\* ath6kl_sta_cleanup, and the purge of psq_mcast with the last station
Disconnect ==
  /\ Event
  /\ assoc
  /\ assoc' = FALSE /\ sleep' = FALSE /\ timer' = FALSE
  /\ polled' = FALSE /\ triggered' = FALSE /\ eosp' = FALSE
  /\ gone' = gone \cup Range(psq_data) \cup Range(psq_mgmt) \cup Range(psq_mcast)
  /\ psq_data' = <<>> /\ psq_mgmt' = <<>> /\ psq_mcast' = <<>>
  /\ mtim' = FALSE
  /\ UNCHANGED <<dtim, age, tim, pc, hand, empty, left, given, late, crossed,
                 sp>>

\* ath6kl_add_new_sta
Connect ==
  /\ Event
  /\ ~assoc
  /\ assoc' = TRUE
  /\ UNCHANGED <<sleep, polled, triggered, eosp, dtim, queueVars, timer,
                 timVars, pc, hand, empty, left, given, gone, late, crossed,
                 sp>>

-----------------------------------------------------------------------------
Init ==
  /\ assoc = FALSE /\ sleep = FALSE /\ polled = FALSE /\ triggered = FALSE
  /\ eosp = FALSE /\ dtim = FALSE /\ timer = FALSE
  /\ psq_data = <<>> /\ psq_mgmt = <<>> /\ psq_mcast = <<>>
  /\ age = [f \in Frames |-> 0]
  /\ tim = FALSE /\ mtim = FALSE
  /\ pc = [c \in Contexts |-> "idle"]
  /\ hand = [c \in Contexts |-> NoFrame]
  /\ empty = FALSE /\ left = 0
  /\ given = 0 /\ gone = {}
  /\ late = FALSE /\ crossed = FALSE
  /\ sp = NoSp
  /\ rxs = 0

Calls == Unicast \/ Mgmt \/ Multicast

CallStep(c) ==
  \/ Enqueue(c) \/ Tell(c)
  \/ c = "snd" /\ (UnicastAwake \/ MulticastQueue \/ MulticastTell)

Events ==
  \/ PsPoll \/ StaAwake \/ Dtim \/ Disconnect \/ Connect
  \/ \E trigger \in BOOLEAN : StaAsleep(trigger)

RxStep ==
  \/ PollSend \/ PollCheck \/ Clear
  \/ Flush
  \/ ServeTake \/ ServeSend \/ ServeEnd
  \/ DtimSend \/ MulticastClear

Next ==
  \/ Calls \/ Events
  \/ \E c \in {"snd", "mgr"} : CallStep(c)
  \/ RxStep \/ AgeHandler

Spec == Init /\ [][Next]_vars

\* Whatever was started goes on; a pending timer expires.
FairSpec ==
  /\ Spec
  /\ (\A c \in {"snd", "mgr"} : WF_vars(CallStep(c))) /\ WF_vars(RxStep)
  /\ WF_vars(AgeHandler)

-----------------------------------------------------------------------------
(* Properties *)

\* The shape of the state; psq_data holds one frame more than its limit.
TypeOK ==
  /\ \A b \in {assoc, sleep, polled, triggered, eosp, dtim, timer, tim, mtim,
               empty, late, crossed} : b \in BOOLEAN
  /\ \A q \in {psq_data, psq_mgmt, psq_mcast} : q \in Seq(Frames)
  /\ Len(psq_data) <= MaxDepth + 1
  /\ age \in [Frames -> 0 .. AgeCycle - 1]
  /\ pc \in [Contexts -> {"idle", "awake", "queue", "tell", "mqueue", "mtell",
                          "poll", "polled", "clear", "flush_mgmt", "flush_data",
                          "serve", "serving", "dtim", "mclear"}]
  /\ hand \in [Contexts -> Frames \cup {NoFrame}]
  /\ left \in 0 .. SpFrames
  /\ given \in 0 .. MaxFrames
  /\ gone \subseteq Frames
  /\ sp \in [sent : 0 .. SpFrames, mgmt : BOOLEAN, eosp : BOOLEAN, aged : BOOLEAN]
  /\ rxs \in 0 .. MaxRx

\* Through queueing, polls, triggers, flushes, aging and purges by several
\* contexts, a frame is in one place: none is lost, none freed twice.
FramesAccounted ==
  LET lists == psq_data \o psq_mgmt \o psq_mcast
      hands == {hand[c] : c \in Contexts} \ {NoFrame}
  IN  /\ Range(lists) \cup hands \cup gone = 1 .. given
      /\ Len(lists) + Cardinality({c \in Contexts : hand[c] # NoFrame})
           + Cardinality(gone) = given

\* When the flush that follows a station's waking is over nothing waits for
\* the awake station, unless a sender had looked at its state before.
WakeFlushes == assoc /\ ~sleep /\ pc["rx"] = "idle" /\ ~late => Empty

\* While frames wait for a sleeping station its bit in the traffic map is
\* set, once the commands under way are issued, unless a frame was queued
\* between the worker's look at the queues and its command, or too late.
TimSet ==
  /\ sleep /\ ~Empty /\ ~late /\ ~crossed
  /\ pc["snd"] # "tell" /\ pc["mgr"] # "tell"
  => tim

\* "Last frame in the service period, set EOSP": a uAPSD service period whose
\* last frame is a data frame ends with the mark on that frame, unless the aging
\* timer took what was to follow.  A period that ends with a management frame
\* ends without the mark, for the command that sends it drops the flag.
EospGiven ==
  pc["rx"] = "idle" /\ sp.sent > 0 /\ ~sp.aged => (sp.eosp <=> ~sp.mgmt)

\* Frames for a station that sleeps on are sent or discarded: the aging
\* timer runs for as long as the station sleeps.
SleepDrains == (sleep /\ ~Empty) ~> (~sleep \/ Empty)
=============================================================================
