-------------------------- MODULE ApPowerSaveProofs --------------------------
(***************************************************************************)
(* Theorems about the power save queues of one station, for every depth,   *)
(* age limit, service period and number of frames.                         *)
(***************************************************************************)
EXTENDS ApPowerSave, SubsequenceProofs, SequenceTheorems

-----------------------------------------------------------------------------
(* Types.  A context has a frame in hand exactly at the labels in Holding;
   the frames of a service period, sent and still to send, are counted. *)

SndPCs == {"idle", "awake", "queue", "tell", "mqueue", "mtell"}
MgrPCs == {"idle", "queue", "tell"}
RxPCs == {"idle", "poll", "polled", "clear", "flush_mgmt", "flush_data", "serve",
          "serving", "dtim", "mclear"}
Holding == {"awake", "queue", "mqueue", "poll", "serving"}

HandOK ==
  /\ pc \in [Contexts -> SndPCs \cup MgrPCs \cup RxPCs]
  /\ pc["snd"] \in SndPCs /\ pc["mgr"] \in MgrPCs /\ pc["rx"] \in RxPCs
  /\ hand \in [Contexts -> Frames \cup {NoFrame}]
  /\ \A c \in Contexts : hand[c] # NoFrame <=> pc[c] \in Holding

FlagsOK ==
  /\ assoc \in BOOLEAN /\ sleep \in BOOLEAN /\ polled \in BOOLEAN
  /\ triggered \in BOOLEAN /\ eosp \in BOOLEAN /\ dtim \in BOOLEAN
  /\ timer \in BOOLEAN /\ tim \in BOOLEAN /\ mtim \in BOOLEAN
  /\ empty \in BOOLEAN /\ late \in BOOLEAN /\ crossed \in BOOLEAN

QueuesOK ==
  /\ psq_data \in Seq(Frames) /\ psq_mgmt \in Seq(Frames)
  /\ psq_mcast \in Seq(Frames)
  /\ Len(psq_data) <= MaxDepth + 1
  /\ age \in [Frames -> 0 .. AgeCycle - 1]
  /\ given \in 0 .. MaxFrames /\ gone \subseteq Frames

PeriodSet == [sent : 0 .. SpFrames, mgmt : BOOLEAN, eosp : BOOLEAN, aged : BOOLEAN]

PeriodOK ==
  /\ left \in 0 .. SpFrames /\ rxs \in 0 .. MaxRx
  /\ sp \in PeriodSet
  /\ pc["rx"] = "serve" => sp.sent + left <= SpFrames
  /\ pc["rx"] = "serving" => sp.sent + left < SpFrames

TypeInv == HandOK /\ FlagsOK /\ QueuesOK /\ PeriodOK

AllSteps(c, trigger) ==
  \/ Calls \/ CallStep(c) \/ RxStep \/ AgeHandler
  \/ PsPoll \/ StaAwake \/ Dtim \/ Disconnect \/ Connect \/ StaAsleep(trigger)

LEMMA InitTypeInv == Init => TypeInv
<1> SUFFICES ASSUME Init PROVE TypeInv
  OBVIOUS
<1> USE PowerSaveConstants DEF PowerSaveConstants, Init
<1>1. HandOK
  BY DEF HandOK, Contexts, SndPCs, MgrPCs, RxPCs, Holding
<1>2. FlagsOK
  BY DEF FlagsOK
<1>3. QueuesOK
  BY DEF QueuesOK
<1>4. PeriodOK
  BY DEF PeriodOK, PeriodSet, NoSp, Contexts
<1> QED BY <1>1, <1>2, <1>3, <1>4 DEF TypeInv

\* A frame that comes from a caller, or is the head of a queue, is a frame.
LEMMA NewFrame ==
  ASSUME QueuesOK, given < MaxFrames
  PROVE  given + 1 \in Frames /\ given + 1 # NoFrame /\ given + 1 \in 0 .. MaxFrames
BY PowerSaveConstants DEF PowerSaveConstants, QueuesOK, Frames, NoFrame

LEMMA FramesNonZero == \A f \in Frames : f # NoFrame
BY DEF Frames, NoFrame

LEMMA TakeHead ==
  ASSUME QueuesOK, ~Empty
  PROVE  /\ Head(psq_mgmt \o psq_data) \in Frames
         /\ Head(psq_mgmt \o psq_data) =
              IF psq_mgmt # <<>> THEN Head(psq_mgmt) ELSE Head(psq_data)
<1>1. CASE psq_mgmt # <<>>
  BY <1>1 DEF QueuesOK, Empty
<1>2. CASE psq_mgmt = <<>>
  BY <1>2 DEF QueuesOK, Empty
<1> QED BY <1>1, <1>2

LEMMA HandStep ==
  ASSUME TypeInv, NEW c \in {"snd", "mgr"}, NEW trigger \in BOOLEAN,
         AllSteps(c, trigger)
  PROVE  HandOK'
<1> USE DEF TypeInv, HandOK, Contexts, SndPCs, MgrPCs, RxPCs, Holding, Goto, locVars
<1>1. CASE Unicast
  BY <1>1, NewFrame, FramesNonZero DEF Unicast
<1>2. CASE UnicastAwake
  BY <1>2, NewFrame, FramesNonZero DEF UnicastAwake
<1>3. CASE Mgmt
  BY <1>3, NewFrame, FramesNonZero DEF Mgmt
<1>4. CASE Multicast
  BY <1>4, NewFrame, FramesNonZero DEF Multicast
<1>5. CASE MulticastQueue
  BY <1>5, NewFrame, FramesNonZero DEF MulticastQueue
<1>6. CASE MulticastTell
  BY <1>6, NewFrame, FramesNonZero DEF MulticastTell
<1>7. CASE Enqueue(c)
  BY <1>7, NewFrame, FramesNonZero DEF Enqueue
<1>8. CASE Tell(c)
  BY <1>8, NewFrame, FramesNonZero DEF Tell
<1>9. CASE PsPoll
  BY <1>9, TakeHead, FramesNonZero DEF PsPoll, Take
<1>10. CASE PollSend
  BY <1>10, NewFrame, FramesNonZero DEF PollSend
<1>11. CASE PollCheck
  BY <1>11, NewFrame, FramesNonZero DEF PollCheck
<1>12. CASE Clear
  BY <1>12, NewFrame, FramesNonZero DEF Clear
<1>13. CASE StaAsleep(trigger)
  BY <1>13, NewFrame, FramesNonZero DEF StaAsleep, Event
<1>14. CASE StaAwake
  BY <1>14, NewFrame, FramesNonZero DEF StaAwake, Event
<1>15. CASE Flush /\ FlushMgmt
  BY <1>15, NewFrame, FramesNonZero DEF FlushMgmt, Flush
<1>16. CASE Flush /\ FlushData
  BY <1>16, NewFrame, FramesNonZero DEF FlushData, Flush
<1>17. CASE ServeTake
  <2>1. CASE Empty
    BY <1>17, <2>1 DEF ServeTake
  <2>2. CASE ~Empty
    <3>1. /\ hand' = [hand EXCEPT !["rx"] = Head(psq_mgmt \o psq_data)]
          /\ pc' = [pc EXCEPT !["rx"] = "serving"]
      BY <1>17, <2>2 DEF ServeTake, Take
    <3> QED BY <2>2, <3>1, TakeHead, FramesNonZero
  <2> QED BY <2>1, <2>2
<1>18. CASE ServeSend
  BY <1>18, NewFrame, FramesNonZero DEF ServeSend
<1>19. CASE ServeEnd
  BY <1>19, NewFrame, FramesNonZero DEF ServeEnd
<1>20. CASE Dtim
  BY <1>20, NewFrame, FramesNonZero DEF Dtim, Event
<1>21. CASE DtimSend
  BY <1>21, NewFrame, FramesNonZero DEF DtimSend
<1>22. CASE MulticastClear
  BY <1>22, NewFrame, FramesNonZero DEF MulticastClear
<1>23. CASE AgeHandler
  BY <1>23, NewFrame, FramesNonZero DEF AgeHandler, Rearm
<1>24. CASE Disconnect
  BY <1>24, NewFrame, FramesNonZero DEF Disconnect, Event
<1>25. CASE Connect
  BY <1>25, NewFrame, FramesNonZero DEF Connect, Event
<1> QED
  BY <1>1, <1>2, <1>3, <1>4, <1>5, <1>6, <1>7, <1>8, <1>9, <1>10, <1>11, <1>12, <1>13, <1>14, <1>15, <1>16, <1>17, <1>18, <1>19, <1>20, <1>21, <1>22, <1>23, <1>24, <1>25
     DEF AllSteps, Calls, CallStep, Events, RxStep, Flush

LEMMA FlagsStep ==
  ASSUME TypeInv, NEW c \in {"snd", "mgr"}, NEW trigger \in BOOLEAN,
         AllSteps(c, trigger)
  PROVE  FlagsOK'
<1> USE DEF TypeInv, FlagsOK, flagVars, timVars, locVars, histVars
<1>1. CASE Unicast
  BY <1>1 DEF Unicast
<1>2. CASE UnicastAwake
  BY <1>2 DEF UnicastAwake
<1>3. CASE Mgmt
  BY <1>3 DEF Mgmt
<1>4. CASE Multicast
  BY <1>4 DEF Multicast
<1>5. CASE MulticastQueue
  BY <1>5 DEF MulticastQueue
<1>6. CASE MulticastTell
  BY <1>6 DEF MulticastTell
<1>7. CASE Enqueue(c)
  BY <1>7, ZenonT(30) DEF Enqueue
<1>8. CASE Tell(c)
  BY <1>8 DEF Tell
<1>9. CASE PsPoll
  BY <1>9 DEF PsPoll, Event, Take
<1>10. CASE PollSend
  BY <1>10 DEF PollSend
<1>11. CASE PollCheck
  BY <1>11 DEF PollCheck
<1>12. CASE Clear
  BY <1>12 DEF Clear
<1>13. CASE StaAsleep(trigger)
  BY <1>13 DEF StaAsleep, Event, Empty
<1>14. CASE StaAwake
  BY <1>14 DEF StaAwake, Event
<1>15. CASE Flush /\ FlushMgmt
  BY <1>15 DEF FlushMgmt, Flush
<1>16. CASE Flush /\ FlushData
  BY <1>16 DEF FlushData, Flush
<1>17. CASE ServeTake
  BY <1>17 DEF ServeTake, LastOfPeriod
<1>18. CASE ServeSend
  BY <1>18 DEF ServeSend
<1>19. CASE ServeEnd
  BY <1>19 DEF ServeEnd
<1>20. CASE Dtim
  BY <1>20 DEF Dtim, Event
<1>21. CASE DtimSend
  BY <1>21, ZenonT(30) DEF DtimSend
<1>22. CASE MulticastClear
  BY <1>22 DEF MulticastClear
<1>23. CASE AgeHandler
  BY <1>23 DEF AgeHandler, Rearm
<1>24. CASE Disconnect
  BY <1>24 DEF Disconnect, Event
<1>25. CASE Connect
  BY <1>25 DEF Connect, Event
<1> QED
  BY <1>1, <1>2, <1>3, <1>4, <1>5, <1>6, <1>7, <1>8, <1>9, <1>10, <1>11, <1>12, <1>13, <1>14, <1>15, <1>16, <1>17, <1>18, <1>19, <1>20, <1>21, <1>22, <1>23, <1>24, <1>25
     DEF AllSteps, Calls, CallStep, Events, RxStep, Flush

\* What a queue's operations leave is a sequence of frames.
LEMMA TailOK ==
  ASSUME NEW q \in Seq(Frames), q # <<>>
  PROVE  /\ Head(q) \in Frames /\ Tail(q) \in Seq(Frames)
         /\ Len(Tail(q)) = Len(q) - 1 /\ Len(q) \in Nat
OBVIOUS

LEMMA AppendNonEmpty ==
  ASSUME NEW q \in Seq(Frames), NEW f \in Frames
  PROVE  Append(q, f) # <<>>
<1>1. Len(Append(q, f)) = Len(q) + 1 /\ Len(q) \in Nat
  OBVIOUS
<1> QED BY <1>1

LEMMA AgedOK ==
  ASSUME NEW q \in Seq(Frames)
  PROVE  /\ Aged(q) \in Seq(Frames) /\ Len(Aged(q)) <= Len(q)
         /\ Range(Aged(q)) = {f \in Range(q) : ~Old(f)}
         /\ Aged(q) = <<>> <=> \A f \in Range(q) : Old(f)
<1> DEFINE I == {i \in DOMAIN q : ~Old(q[i])}
           r == Keep(q, I)
<1>1. I \in SUBSET DOMAIN q
  OBVIOUS
<1>2. Aged(q) = r
  BY DEF Aged
<1>3. I = {} <=> \A f \in Range(q) : Old(f)
  BY DEF Range
<1>4. {q[i] : i \in I} = {f \in Range(q) : ~Old(f)}
  BY DEF Range
<1>5. /\ r \in Seq(Frames) /\ Len(r) <= Len(q)
      /\ \A k \in DOMAIN r : \E i \in I : r[k] = q[i]
      /\ \A i \in I : \E k \in DOMAIN r : r[k] = q[i]
      /\ r = <<>> <=> I = {}
  <2> HIDE DEF I
  <2> QED BY <1>1, KeepElements
<1> HIDE DEF I, r
<1>6. Range(r) = {q[i] : i \in I}
  BY <1>5 DEF Range
<1> QED BY <1>2, <1>3, <1>4, <1>5, <1>6

\* Ageing keeps the ages of waiting frames below the limit.
LEMMA AgeOK ==
  ASSUME QueuesOK, AgeHandler
  PROVE  age' \in [Frames -> 0 .. AgeCycle - 1]
<1>1. \E seen \in SUBSET Frames :
        age' = [f \in Frames |-> IF f \in seen \ {g \in seen : Old(g)} THEN age[f] + 1
                                 ELSE IF f \in {g \in seen : Old(g)} THEN 0 ELSE age[f]]
  <2>1. Range(psq_data) \subseteq Frames /\ Range(psq_mgmt) \subseteq Frames
    BY DEF QueuesOK, Range
  <2> QED BY <2>1 DEF AgeHandler
<1>2. \A f \in Frames : age[f] \in 0 .. AgeCycle - 1
  BY DEF QueuesOK
<1> QED BY <1>1, <1>2, PowerSaveConstants DEF PowerSaveConstants, Old

LEMMA QueuesStep ==
  ASSUME TypeInv, NEW c \in {"snd", "mgr"}, NEW trigger \in BOOLEAN,
         AllSteps(c, trigger)
  PROVE  QueuesOK'
<1> USE DEF TypeInv, QueuesOK, queueVars, histVars
<1>h. \A d \in Contexts : pc[d] \in Holding => hand[d] \in Frames
  BY DEF HandOK
<1>d. MaxDepth \in Nat /\ Len(psq_data) \in Nat
  BY PowerSaveConstants DEF PowerSaveConstants
<1>q. /\ psq_data # <<>> => /\ Head(psq_data) \in Frames
                            /\ Tail(psq_data) \in Seq(Frames)
                            /\ Len(Tail(psq_data)) <= MaxDepth + 1
      /\ psq_mgmt # <<>> => /\ Head(psq_mgmt) \in Frames
                            /\ Tail(psq_mgmt) \in Seq(Frames)
      /\ psq_mcast # <<>> => /\ Head(psq_mcast) \in Frames
                             /\ Tail(psq_mcast) \in Seq(Frames)
  <2>1. psq_data # <<>> => Len(Tail(psq_data)) = Len(psq_data) - 1
    BY TailOK
  <2>2. psq_data # <<>> => Len(Tail(psq_data)) <= MaxDepth + 1
    BY <2>1, <1>d
  <2> QED BY <2>2, TailOK
<1>k. ASSUME UNCHANGED <<psq_mcast, age, given, gone>>,
             UNCHANGED <<psq_data, psq_mgmt>> \/ (~Empty /\ Take)
      PROVE  QueuesOK'
  <2>1. \/ UNCHANGED <<psq_data, psq_mgmt>>
        \/ psq_mgmt # <<>> /\ psq_mgmt' = Tail(psq_mgmt) /\ UNCHANGED psq_data
        \/ psq_data # <<>> /\ psq_data' = Tail(psq_data) /\ UNCHANGED psq_mgmt
    BY <1>k DEF Take, Empty
  <2>2. psq_data' \in Seq(Frames) /\ Len(psq_data') <= MaxDepth + 1
    BY <2>1, <1>q
  <2>3. psq_mgmt' \in Seq(Frames)
    BY <2>1, <1>q
  <2> QED BY <1>k, <2>2, <2>3
<1>a. \A f \in Frames : /\ Append(psq_data, f) \in Seq(Frames)
                        /\ Len(Append(psq_data, f)) = Len(psq_data) + 1
                        /\ Append(psq_mgmt, f) \in Seq(Frames)
                        /\ Append(psq_mcast, f) \in Seq(Frames)
  OBVIOUS
<1>r. /\ Range(psq_data) \subseteq Frames /\ Range(psq_mgmt) \subseteq Frames
      /\ Range(psq_mcast) \subseteq Frames
  BY DEF Range
<1>1. CASE Unicast
  BY <1>1, <1>h, NewFrame DEF Unicast
<1>2. CASE UnicastAwake
  BY <1>2, <1>h DEF UnicastAwake, Contexts, Holding
<1>3. CASE Mgmt
  BY <1>3, <1>h, NewFrame DEF Mgmt
<1>4. CASE Multicast
  BY <1>4, <1>h, NewFrame DEF Multicast
<1>5. CASE MulticastQueue
  BY <1>5, <1>h, <1>a DEF MulticastQueue, Contexts, Holding
<1>6. CASE MulticastTell
  BY <1>6, <1>h, NewFrame DEF MulticastTell
<1>7. CASE Enqueue(c)
  <2>1. hand[c] \in Frames
    BY <1>7, <1>h DEF Enqueue, Contexts, Holding
  <2>2. \/ UNCHANGED <<psq_data, psq_mgmt, age>> /\ gone' = gone \cup {hand[c]}
        \/ /\ gone' = gone
           /\ psq_data' = IF c = "snd" THEN Append(psq_data, hand[c]) ELSE psq_data
           /\ psq_mgmt' = IF c = "mgr" THEN Append(psq_mgmt, hand[c]) ELSE psq_mgmt
           /\ age' = [age EXCEPT ![hand[c]] = 0]
           /\ c = "snd" => ~(Len(psq_data) > MaxDepth)
    BY <1>7 DEF Enqueue, Full
  <2>3. UNCHANGED <<psq_mcast, given>>
    BY <1>7 DEF Enqueue
  <2>4. age' \in [Frames -> 0 .. AgeCycle - 1]
    <3>1. age \in [Frames -> 0 .. AgeCycle - 1] /\ 0 \in 0 .. AgeCycle - 1
      BY PowerSaveConstants DEF PowerSaveConstants
    <3> HIDE DEF TypeInv, QueuesOK
    <3> QED BY <3>1, <2>1, <2>2
  <2>5. psq_data' \in Seq(Frames) /\ Len(psq_data') <= MaxDepth + 1
    <3>1. c = "snd" /\ ~(Len(psq_data) > MaxDepth)
            => Len(Append(psq_data, hand[c])) <= MaxDepth + 1
      BY <2>1, <1>a, <1>d
    <3> QED BY <2>1, <2>2, <3>1, <1>a
  <2>6. psq_mgmt' \in Seq(Frames) /\ gone' \subseteq Frames
    BY <2>1, <2>2, <1>a
  <2> QED BY <2>3, <2>4, <2>5, <2>6
<1>8. CASE Tell(c)
  BY <1>8, <1>h, NewFrame DEF Tell
<1>9. CASE PsPoll
  <2>1. UNCHANGED <<psq_mcast, age, given, gone>> /\ ~Empty /\ Take
    BY <1>9 DEF PsPoll
  <2> QED BY <2>1, <1>k
<1>10. CASE PollSend
  BY <1>10, <1>h DEF PollSend, Contexts, Holding
<1>11. CASE PollCheck
  BY <1>11, <1>h, NewFrame DEF PollCheck
<1>12. CASE Clear
  BY <1>12, <1>h, NewFrame DEF Clear
<1>13. CASE StaAsleep(trigger)
  BY <1>13, <1>h, NewFrame DEF StaAsleep, Event
<1>14. CASE StaAwake
  BY <1>14, <1>h, NewFrame DEF StaAwake, Event
<1>15. CASE Flush /\ FlushMgmt
  <2>1. /\ UNCHANGED <<psq_data, psq_mcast, age, given>>
        /\ \/ UNCHANGED <<psq_mgmt, gone>>
           \/ /\ psq_mgmt # <<>> /\ psq_mgmt' = Tail(psq_mgmt)
              /\ gone' = gone \cup {Head(psq_mgmt)}
    BY <1>15 DEF Flush, FlushData, FlushMgmt
  <2>2. psq_mgmt' \in Seq(Frames) /\ gone' \subseteq Frames
    BY <2>1, <1>q
  <2> QED BY <2>1, <2>2
<1>16. CASE Flush /\ FlushData
  <2>1. /\ UNCHANGED <<psq_mgmt, psq_mcast, age, given>>
        /\ \/ UNCHANGED <<psq_data, gone>>
           \/ /\ psq_data # <<>> /\ psq_data' = Tail(psq_data)
              /\ gone' = gone \cup {Head(psq_data)}
    BY <1>16 DEF Flush, FlushData, FlushMgmt
  <2>2. psq_data' \in Seq(Frames) /\ Len(psq_data') <= MaxDepth + 1
    BY <2>1, <1>q
  <2>3. gone' \subseteq Frames
    BY <2>1, <1>q
  <2> QED BY <2>1, <2>2, <2>3
<1>17. CASE ServeTake
  <2>1. /\ UNCHANGED <<psq_mcast, age, given, gone>>
        /\ \/ UNCHANGED <<psq_data, psq_mgmt>>
           \/ ~Empty /\ Take
    BY <1>17 DEF ServeTake
  <2> QED BY <2>1, <1>k
<1>18. CASE ServeSend
  BY <1>18, <1>h DEF ServeSend, Contexts, Holding
<1>19. CASE ServeEnd
  BY <1>19, <1>h, NewFrame DEF ServeEnd
<1>20. CASE Dtim
  BY <1>20, <1>h, NewFrame DEF Dtim, Event
<1>21. CASE DtimSend
  BY <1>21, <1>q DEF DtimSend
<1>22. CASE MulticastClear
  BY <1>22, <1>h, NewFrame DEF MulticastClear
<1>23. CASE AgeHandler
  <2>1. age' \in [Frames -> 0 .. AgeCycle - 1]
    BY <1>23, AgeOK
  <2>2. /\ psq_data' = Aged(psq_data) /\ psq_mgmt' \in {Aged(psq_mgmt), psq_mgmt}
        /\ gone' \subseteq gone \cup Range(psq_data) \cup Range(psq_mgmt)
        /\ UNCHANGED <<psq_mcast, given>>
    BY <1>23 DEF AgeHandler
  <2>3. /\ Aged(psq_data) \in Seq(Frames) /\ Aged(psq_mgmt) \in Seq(Frames)
        /\ Len(Aged(psq_data)) <= Len(psq_data)
    BY AgedOK
  <2>4. Len(Aged(psq_data)) \in Nat
    BY <2>3
  <2> QED BY <2>1, <2>2, <2>3, <2>4, <1>d, <1>r
<1>24. CASE Disconnect
  BY <1>24, <1>d, <1>r DEF Disconnect, Event
<1>25. CASE Connect
  BY <1>25, <1>h, NewFrame DEF Connect, Event
<1> QED
  BY <1>1, <1>2, <1>3, <1>4, <1>5, <1>6, <1>7, <1>8, <1>9, <1>10, <1>11, <1>12, <1>13, <1>14, <1>15, <1>16, <1>17, <1>18, <1>19, <1>20, <1>21, <1>22, <1>23, <1>24, <1>25
     DEF AllSteps, Calls, CallStep, Events, RxStep, Flush

LEMMA PeriodStep ==
  ASSUME TypeInv, NEW c \in {"snd", "mgr"}, NEW trigger \in BOOLEAN,
         AllSteps(c, trigger)
  PROVE  PeriodOK'
<1> USE DEF TypeInv, PeriodOK, PeriodSet, histVars, locVars
<1>s. /\ SpFrames \in Nat \ {0} /\ MaxRx \in Nat /\ sp.sent \in Nat /\ left \in Nat
      /\ pc \in [Contexts -> SndPCs \cup MgrPCs \cup RxPCs] /\ "rx" \in Contexts
  BY PowerSaveConstants DEF PowerSaveConstants, HandOK, Contexts
<1> USE <1>s DEF Goto
<1>1. CASE Unicast
  BY <1>1 DEF Unicast
<1>2. CASE UnicastAwake
  BY <1>2 DEF UnicastAwake
<1>3. CASE Mgmt
  BY <1>3 DEF Mgmt
<1>4. CASE Multicast
  BY <1>4 DEF Multicast
<1>5. CASE MulticastQueue
  BY <1>5 DEF MulticastQueue
<1>6. CASE MulticastTell
  BY <1>6 DEF MulticastTell
<1>7. CASE Enqueue(c)
  BY <1>7 DEF Enqueue
<1>8. CASE Tell(c)
  BY <1>8 DEF Tell
<1>9. CASE PsPoll
  BY <1>9 DEF PsPoll, Event, Take
<1>10. CASE PollSend
  BY <1>10 DEF PollSend
<1>11. CASE PollCheck
  BY <1>11 DEF PollCheck
<1>12. CASE Clear
  BY <1>12 DEF Clear
<1>13. CASE StaAsleep(trigger)
  <2>1. CASE trigger
    <3>1. left' = SpFrames /\ sp' = NoSp /\ pc'["rx"] = "serve"
      BY <1>13, <2>1 DEF StaAsleep
    <3>2. rxs' \in 0 .. MaxRx
      BY <1>13 DEF StaAsleep, Event
    <3> QED BY <3>1, <3>2, <1>s DEF NoSp
  <2>2. CASE ~trigger
    BY <1>13, <2>2 DEF StaAsleep, Event
  <2> QED BY <2>1, <2>2
<1>14. CASE StaAwake
  BY <1>14 DEF StaAwake, Event
<1>15. CASE Flush /\ FlushMgmt
  BY <1>15 DEF FlushMgmt, Flush
<1>16. CASE Flush /\ FlushData
  BY <1>16 DEF FlushData, Flush
<1>17. CASE ServeTake
  <2>1. rxs' = rxs /\ pc["rx"] = "serve" /\ left > 0
    BY <1>17 DEF ServeTake
  <2>a. sp' = sp \/ sp' = [sp EXCEPT !.mgmt = psq_mgmt # <<>>]
    BY <1>17 DEF ServeTake
  <2>b. sp' \in PeriodSet /\ sp'.sent = sp.sent
    BY <2>a
  <2>2. CASE UNCHANGED <<left, pc>>
    BY <2>1, <2>b, <2>2
  <2>3. CASE left' = left - 1 /\ pc'["rx"] = "serving"
    BY <2>1, <2>b, <2>3, <1>s
  <2>4. UNCHANGED <<left, pc>> \/ (left' = left - 1 /\ pc'["rx"] = "serving")
    BY <1>17 DEF ServeTake, Goto
  <2> QED BY <2>2, <2>3, <2>4
<1>18. CASE ServeSend
  <2>1. /\ left' = left /\ rxs' = rxs /\ pc'["rx"] = "serve" /\ pc["rx"] = "serving"
        /\ sp' = [sp EXCEPT !.sent = @ + 1, !.eosp = eosp /\ ~sp.mgmt]
    BY <1>18 DEF ServeSend, Goto
  <2>2. sp.sent + 1 \in 0 .. SpFrames /\ sp.sent + 1 + left <= SpFrames
    BY <2>1, <1>s
  <2>3. eosp \in BOOLEAN
    BY DEF FlagsOK
  <2> QED BY <2>1, <2>2, <2>3
<1>19. CASE ServeEnd
  BY <1>19, <1>s DEF ServeEnd
<1>20. CASE Dtim
  BY <1>20 DEF Dtim, Event
<1>21. CASE DtimSend
  BY <1>21 DEF DtimSend
<1>22. CASE MulticastClear
  BY <1>22 DEF MulticastClear
<1>23. CASE AgeHandler
  <2>1. /\ UNCHANGED <<left, rxs, pc>>
        /\ \E b : sp' = [sp EXCEPT !.aged = @ \/ b]
    BY <1>23 DEF AgeHandler
  <2>2. sp'.sent = sp.sent /\ sp' \in PeriodSet
    BY <2>1
  <2> QED BY <2>1, <2>2
<1>24. CASE Disconnect
  BY <1>24 DEF Disconnect, Event
<1>25. CASE Connect
  BY <1>25 DEF Connect, Event
<1> QED
  BY <1>1, <1>2, <1>3, <1>4, <1>5, <1>6, <1>7, <1>8, <1>9, <1>10, <1>11, <1>12, <1>13, <1>14, <1>15, <1>16, <1>17, <1>18, <1>19, <1>20, <1>21, <1>22, <1>23, <1>24, <1>25
     DEF AllSteps, Calls, CallStep, Events, RxStep, Flush

LEMMA TypeStep == TypeInv /\ [Next]_vars => TypeInv'
<1> SUFFICES ASSUME TypeInv, [Next]_vars PROVE TypeInv'
  OBVIOUS
<1>1. CASE Next
  <2>1. PICK c \in {"snd", "mgr"}, trigger \in BOOLEAN : AllSteps(c, trigger)
    BY <1>1 DEF Next, Events, AllSteps
  <2> QED BY <2>1, HandStep, FlagsStep, QueuesStep, PeriodStep DEF TypeInv
<1>2. CASE UNCHANGED vars
  BY <1>2 DEF vars, flagVars, queueVars, timVars, locVars, histVars, TypeInv, HandOK,
     FlagsOK, QueuesOK, PeriodOK
<1> QED BY <1>1, <1>2

\* A context has a frame in hand exactly where it must, and no queue, counter
\* or age leaves its bounds.
THEOREM TypeInvariant == Spec => []TypeInv
BY InitTypeInv, TypeStep, PTL DEF Spec

\* The state keeps its shape: psq_data never holds more than one frame over
\* max_depth (ath6kl_ps_queue_enqueue_data), no waiting frame is older than
\* ATH6KL_PS_QUEUE_MAX_AGE cycles, and a service period sends no more frames
\* than the trigger asked for.
THEOREM TypeCorrect == Spec => []TypeOK
<1>1. TypeInv => TypeOK
  BY DEF TypeInv, HandOK, FlagsOK, QueuesOK, PeriodOK, PeriodSet, TypeOK, SndPCs, MgrPCs, RxPCs
<1> QED BY <1>1, TypeInvariant, PTL

-----------------------------------------------------------------------------
(* Waking.  The flush that follows it empties psq_mgmt and then psq_data, and
   nothing but a sender that looked at the flags before can fill them: while
   no such frame came late, only a sleeping station or one being flushed has
   waiting frames. *)

Flushing == pc["rx"] \in {"flush_mgmt", "flush_data"}

WakeInv ==
  /\ sleep => assoc
  /\ Flushing => ~sleep
  /\ ~late /\ ~assoc => Empty
  /\ ~late /\ ~sleep /\ ~Flushing => Empty
  /\ ~late /\ pc["rx"] = "flush_data" => psq_mgmt = <<>>

\* Ageing leaves an empty queue empty.
LEMMA AgedEmpty ==
  ASSUME TypeInv, AgeHandler
  PROVE  /\ psq_data = <<>> => psq_data' = <<>>
         /\ psq_mgmt = <<>> => psq_mgmt' = <<>>
         /\ Empty => Empty'
<1>1. /\ psq_data' = Aged(psq_data)
      /\ psq_mgmt' = psq_mgmt \/ psq_mgmt' = Aged(psq_mgmt)
  BY DEF AgeHandler
<1>2. Aged(<<>>) = <<>>
  <2>1. <<>> \in Seq(Frames) /\ Range(<<>>) = {}
    BY DEF Range
  <2> QED BY <2>1, AgedOK
<1> QED BY <1>1, <1>2 DEF Empty

LEMMA InitWake == Init => WakeInv
BY DEF Init, WakeInv, Flushing, Empty, Contexts

LEMMA WakeStep ==
  ASSUME TypeInv, WakeInv, NEW c \in {"snd", "mgr"}, NEW trigger \in BOOLEAN,
         AllSteps(c, trigger)
  PROVE  WakeInv'
<1>p. /\ pc \in [Contexts -> SndPCs \cup MgrPCs \cup RxPCs]
      /\ "rx" \in Contexts /\ c \in Contexts /\ "snd" \in Contexts /\ "mgr" \in Contexts
  BY DEF TypeInv, HandOK, Contexts
<1>f. /\ assoc \in BOOLEAN /\ sleep \in BOOLEAN /\ late \in BOOLEAN
  BY DEF TypeInv, FlagsOK
<1> USE <1>p, <1>f DEF WakeInv, Flushing, Empty, Goto, flagVars, queueVars, locVars, histVars
<1>1. CASE Unicast
  BY <1>1 DEF Unicast
<1>2. CASE UnicastAwake
  BY <1>2 DEF UnicastAwake
<1>3. CASE Mgmt
  BY <1>3 DEF Mgmt
<1>4. CASE Multicast
  BY <1>4 DEF Multicast
<1>5. CASE MulticastQueue
  BY <1>5 DEF MulticastQueue
<1>6. CASE MulticastTell
  BY <1>6 DEF MulticastTell
<1>7. CASE Enqueue(c)
  <2>1. \/ UNCHANGED <<psq_data, psq_mgmt, late>>
        \/ late' = (late \/ ~sleep \/ ~assoc)
    BY <1>7 DEF Enqueue
  <2>2. UNCHANGED <<assoc, sleep>> /\ pc'["rx"] = pc["rx"]
    BY <1>7 DEF Enqueue
  <2> QED BY <2>1, <2>2
<1>8. CASE Tell(c)
  BY <1>8 DEF Tell
<1>9. CASE PsPoll
  BY <1>9 DEF PsPoll, Event, Take
<1>10. CASE PollSend
  BY <1>10 DEF PollSend
<1>11. CASE PollCheck
  BY <1>11 DEF PollCheck
<1>12. CASE Clear
  BY <1>12 DEF Clear
<1>13. CASE StaAsleep(trigger)
  BY <1>13 DEF StaAsleep, Event
<1>14. CASE StaAwake
  BY <1>14 DEF StaAwake, Event
<1>15. CASE Flush /\ FlushMgmt
  BY <1>15 DEF FlushMgmt, FlushData, Flush
<1>16. CASE Flush /\ FlushData
  BY <1>16 DEF FlushMgmt, FlushData, Flush
<1>17. CASE ServeTake
  BY <1>17 DEF ServeTake, Take
<1>18. CASE ServeSend
  BY <1>18 DEF ServeSend
<1>19. CASE ServeEnd
  BY <1>19 DEF ServeEnd
<1>20. CASE Dtim
  BY <1>20 DEF Dtim, Event
<1>21. CASE DtimSend
  BY <1>21 DEF DtimSend
<1>22. CASE MulticastClear
  BY <1>22 DEF MulticastClear
<1>23. CASE AgeHandler
  <2>1. Empty => Empty'
    BY <1>23, AgedEmpty DEF AgeHandler
  <2>2. psq_mgmt = <<>> => psq_mgmt' = <<>>
    BY <1>23, AgedEmpty DEF AgeHandler
  <2>3. UNCHANGED <<assoc, sleep, late, pc>>
    BY <1>23 DEF AgeHandler
  <2> QED BY <2>1, <2>2, <2>3
<1>24. CASE Disconnect
  BY <1>24 DEF Disconnect, Event
<1>25. CASE Connect
  BY <1>25 DEF Connect, Event
<1> QED
  BY <1>1, <1>2, <1>3, <1>4, <1>5, <1>6, <1>7, <1>8, <1>9, <1>10, <1>11, <1>12, <1>13, <1>14, <1>15, <1>16, <1>17, <1>18, <1>19, <1>20, <1>21, <1>22, <1>23, <1>24, <1>25
     DEF AllSteps, Calls, CallStep, Events, RxStep, Flush

LEMMA WakeInvStep == TypeInv /\ WakeInv /\ [Next]_vars => WakeInv'
<1> SUFFICES ASSUME TypeInv, WakeInv, [Next]_vars PROVE WakeInv'
  OBVIOUS
<1>1. CASE Next
  <2>1. PICK c \in {"snd", "mgr"}, trigger \in BOOLEAN : AllSteps(c, trigger)
    BY <1>1 DEF Next, Events, AllSteps
  <2> QED BY <2>1, WakeStep
<1>2. CASE UNCHANGED vars
  BY <1>2 DEF vars, flagVars, queueVars, locVars, histVars, WakeInv, Flushing, Empty
<1> QED BY <1>1, <1>2

LEMMA WakeInvariant == Spec => []WakeInv
BY InitWake, WakeInvStep, TypeInvariant, PTL DEF Spec

\* When _powersave_ap_rx has flushed the queues of a station that woke up,
\* nothing waits for it while it stays awake, unless a sender had read
\* STA_PS_SLEEP before it was cleared (txrx.c): no other order of polls,
\* triggers, aging and purges leaves a frame behind.
THEOREM WakeFlushesHolds == Spec => []WakeFlushes
<1>1. WakeInv => WakeFlushes
  BY DEF WakeInv, WakeFlushes, Flushing
<1> QED BY <1>1, WakeInvariant, PTL

-----------------------------------------------------------------------------
(* The traffic map.  When no frame was queued between the worker's look at the
   queues and its command, the queues are still empty when it clears the
   station's bit. *)

TimInv == TimSet /\ (~late /\ ~crossed /\ Telling => Empty)

LEMMA InitTim == Init => TimInv
BY DEF Init, TimInv, TimSet, Telling, Empty, Contexts

LEMMA TimStep ==
  ASSUME TypeInv, WakeInv, TimInv, NEW c \in {"snd", "mgr"}, NEW trigger \in BOOLEAN,
         AllSteps(c, trigger)
  PROVE  TimInv'
<1>p. /\ pc \in [Contexts -> SndPCs \cup MgrPCs \cup RxPCs]
      /\ "rx" \in Contexts /\ c \in Contexts /\ "snd" \in Contexts /\ "mgr" \in Contexts
  BY DEF TypeInv, HandOK, Contexts
<1>f. /\ assoc \in BOOLEAN /\ sleep \in BOOLEAN /\ late \in BOOLEAN /\ tim \in BOOLEAN
      /\ crossed \in BOOLEAN /\ empty \in BOOLEAN
  BY DEF TypeInv, FlagsOK
<1>w. /\ sleep => assoc
      /\ ~late /\ ~sleep /\ pc["rx"] = "idle" => Empty
      /\ ~late /\ pc["rx"] = "flush_data" => psq_mgmt = <<>>
      /\ pc["rx"] \in {"flush_mgmt", "flush_data"} => ~sleep
  BY DEF WakeInv, Flushing
<1> USE <1>p, <1>f, <1>w
    DEF TimInv, TimSet, Telling, Empty, Goto, flagVars, queueVars, timVars, locVars, histVars
<1>1. CASE Unicast
  BY <1>1 DEF Unicast
<1>2. CASE UnicastAwake
  BY <1>2 DEF UnicastAwake
<1>3. CASE Mgmt
  BY <1>3 DEF Mgmt
<1>4. CASE Multicast
  BY <1>4 DEF Multicast
<1>5. CASE MulticastQueue
  BY <1>5 DEF MulticastQueue
<1>6. CASE MulticastTell
  BY <1>6 DEF MulticastTell
<1>7. CASE Enqueue(c)
  <2>1. \/ UNCHANGED <<psq_data, psq_mgmt, late, crossed>> /\ pc' = [pc EXCEPT ![c] = "idle"]
        \/ /\ late' = (late \/ ~sleep \/ ~assoc) /\ crossed' = (crossed \/ Telling)
           /\ pc' = [pc EXCEPT ![c] = IF Empty THEN "tell" ELSE "idle"]
    <3> HIDE DEF Telling, Empty
    <3> QED BY <1>7 DEF Enqueue
  <2>2. UNCHANGED <<sleep, tim, empty>> /\ pc[c] = "queue"
    BY <1>7 DEF Enqueue
  <2>3. UNCHANGED pc["rx"] /\ (Telling' <=> Telling)
    BY <2>1, <2>2
  <2>4. \A d \in {"snd", "mgr"} : pc[d] = "tell" => pc'[d] = "tell"
    BY <2>1, <2>2
  <2>5. CASE UNCHANGED <<psq_data, psq_mgmt, late, crossed>>
    BY <2>2, <2>3, <2>4, <2>5
  <2>6. CASE /\ late' = (late \/ ~sleep \/ ~assoc) /\ crossed' = (crossed \/ Telling)
             /\ pc' = [pc EXCEPT ![c] = IF Empty THEN "tell" ELSE "idle"]
    <3>1. Empty => pc'[c] = "tell"
      BY <2>6
    <3> HIDE DEF Telling, Empty
    <3> QED BY <2>2, <2>3, <2>4, <2>6, <3>1
  <2> QED BY <2>1, <2>5, <2>6
<1>8. CASE Tell(c)
  BY <1>8 DEF Tell
<1>9. CASE PsPoll
  BY <1>9 DEF PsPoll, Event, Take
<1>10. CASE PollSend
  BY <1>10 DEF PollSend
<1>11. CASE PollCheck
  BY <1>11 DEF PollCheck, NothingLeft
<1>12. CASE Clear
  BY <1>12 DEF Clear
<1>13. CASE StaAsleep(trigger)
  BY <1>13 DEF StaAsleep, Event
<1>14. CASE StaAwake
  BY <1>14 DEF StaAwake, Event
<1>15. CASE Flush /\ FlushMgmt
  BY <1>15 DEF FlushMgmt, FlushData, Flush
<1>16. CASE Flush /\ FlushData
  BY <1>16 DEF FlushData, FlushMgmt, Flush
<1>17. CASE ServeTake
  BY <1>17 DEF ServeTake, Take
<1>18. CASE ServeSend
  BY <1>18 DEF ServeSend
<1>19. CASE ServeEnd
  BY <1>19 DEF ServeEnd
<1>20. CASE Dtim
  BY <1>20 DEF Dtim, Event
<1>21. CASE DtimSend
  BY <1>21 DEF DtimSend
<1>22. CASE MulticastClear
  BY <1>22 DEF MulticastClear
<1>23. CASE AgeHandler
  <2>1. Empty => Empty'
    BY <1>23, AgedEmpty DEF AgeHandler
  <2>2. tim' = IF Empty' THEN FALSE ELSE tim
    <3>1. tim' = IF psq_data' = <<>> /\ psq_mgmt' = <<>> THEN FALSE ELSE tim
      BY <1>23 DEF AgeHandler
    <3> QED BY <3>1 DEF Empty
  <2>3. UNCHANGED <<sleep, late, crossed, pc, empty>>
    BY <1>23 DEF AgeHandler, flagVars
  <2> HIDE DEF Empty
  <2> QED BY <2>1, <2>2, <2>3
<1>24. CASE Disconnect
  BY <1>24 DEF Disconnect, Event
<1>25. CASE Connect
  BY <1>25 DEF Connect, Event
<1> QED
  BY <1>1, <1>2, <1>3, <1>4, <1>5, <1>6, <1>7, <1>8, <1>9, <1>10, <1>11, <1>12, <1>13, <1>14, <1>15, <1>16, <1>17, <1>18, <1>19, <1>20, <1>21, <1>22, <1>23, <1>24, <1>25
     DEF AllSteps, Calls, CallStep, Events, RxStep, Flush

LEMMA TimInvStep == TypeInv /\ WakeInv /\ TimInv /\ [Next]_vars => TimInv'
<1> SUFFICES ASSUME TypeInv, WakeInv, TimInv, [Next]_vars PROVE TimInv'
  OBVIOUS
<1>1. CASE Next
  <2>1. PICK c \in {"snd", "mgr"}, trigger \in BOOLEAN : AllSteps(c, trigger)
    BY <1>1 DEF Next, Events, AllSteps
  <2> QED BY <2>1, TimStep
<1>2. CASE UNCHANGED vars
  BY <1>2 DEF vars, flagVars, queueVars, timVars, locVars, histVars, TimInv, TimSet,
     Telling, Empty
<1> QED BY <1>1, <1>2

\* While frames wait for a sleeping station its bit in the traffic map is set
\* once the commands under way are issued: the only orders that lose it are a
\* frame queued between the worker's look at the queues and its
\* ath6kl_wmi_set_pvb_cmd, which takes no lock, and one queued too late.
THEOREM TimSetHolds == Spec => []TimSet
<1>1. TimInv => TimSet
  BY DEF TimInv
<1> QED BY <1>1, InitTim, TimInvStep, TypeInvariant, WakeInvariant, PTL DEF Spec

-----------------------------------------------------------------------------
(* Service periods.  While the aging timer takes nothing, a period that has not
   found the queues empty has a frame to send, so the frame it marks with EOSP
   is the last one it sends. *)

Serving == pc["rx"] \in {"serve", "serving"}

EospInv ==
  /\ pc["rx"] = "serving" => (eosp <=> empty \/ left = 0)
  /\ Serving /\ ~empty /\ ~sp.aged => ~Empty
  /\ pc["rx"] = "serve" /\ sp.sent > 0 /\ ~sp.aged => 
       (sp.eosp <=> ~sp.mgmt /\ (empty \/ left = 0))
  /\ ~Serving /\ sp.sent > 0 /\ ~sp.aged => (sp.eosp <=> ~sp.mgmt)

\* When ageing takes no frame, queues that hold one still do.
LEMMA AgedNone ==
  ASSUME TypeInv, AgeHandler, pc["rx"] # "idle", ~sp'.aged, ~Empty
  PROVE  ~Empty'
<1>s. sp \in PeriodSet
  BY DEF TypeInv, PeriodOK
<1> USE DEF PeriodSet
<1>1. /\ psq_data' = Aged(psq_data)
      /\ psq_data' = <<>> => psq_mgmt' = Aged(psq_mgmt)
  BY DEF AgeHandler
<1>2. /\ \A f \in Range(psq_data) : ~Old(f)
      /\ psq_data' = <<>> => \A f \in Range(psq_mgmt) : ~Old(f)
  BY <1>s DEF AgeHandler
<1>3. psq_data \in Seq(Frames) /\ psq_mgmt \in Seq(Frames)
  BY DEF TypeInv, QueuesOK
<1>4. /\ psq_data # <<>> => Range(psq_data) # {}
      /\ psq_mgmt # <<>> => Range(psq_mgmt) # {}
  <2>1. ASSUME NEW q \in Seq(Frames), q # <<>> PROVE q[1] \in Range(q)
    BY <2>1 DEF Range
  <2> QED BY <2>1, <1>3
<1>5. psq_data' = <<>> <=> \A f \in Range(psq_data) : Old(f)
  BY <1>1, <1>3, AgedOK
<1>6. Aged(psq_mgmt) = <<>> <=> \A f \in Range(psq_mgmt) : Old(f)
  BY <1>3, AgedOK
<1> QED BY <1>1, <1>2, <1>4, <1>5, <1>6 DEF Empty

LEMMA InitEosp == Init => EospInv
BY DEF Init, EospInv, Serving, NoSp, Contexts

LEMMA EospStep ==
  ASSUME TypeInv, EospInv, NEW c \in {"snd", "mgr"}, NEW trigger \in BOOLEAN,
         AllSteps(c, trigger)
  PROVE  EospInv'
<1>p. /\ pc \in [Contexts -> SndPCs \cup MgrPCs \cup RxPCs]
      /\ "rx" \in Contexts /\ c \in Contexts /\ "snd" \in Contexts /\ "mgr" \in Contexts
  BY DEF TypeInv, HandOK, Contexts
<1>f. /\ eosp \in BOOLEAN /\ empty \in BOOLEAN
      /\ sp \in PeriodSet
  BY DEF TypeInv, FlagsOK, PeriodOK
<1> USE <1>p, <1>f
    DEF EospInv, PeriodSet, Serving, Empty, Goto, flagVars, queueVars, locVars, histVars
<1>1. CASE Unicast
  BY <1>1 DEF Unicast
<1>2. CASE UnicastAwake
  BY <1>2 DEF UnicastAwake
<1>3. CASE Mgmt
  BY <1>3 DEF Mgmt
<1>4. CASE Multicast
  BY <1>4 DEF Multicast
<1>5. CASE MulticastQueue
  BY <1>5 DEF MulticastQueue
<1>6. CASE MulticastTell
  BY <1>6 DEF MulticastTell
<1>7. CASE Enqueue(c)
  <2>1. UNCHANGED <<empty, left, eosp, sp>> /\ pc'["rx"] = pc["rx"]
    BY <1>7 DEF Enqueue
  <2>2. ~Empty => ~Empty'
    <3>1. hand[c] \in Frames
      BY <1>7 DEF Enqueue, TypeInv, HandOK, Holding
    <3>2. Append(psq_data, hand[c]) # <<>> /\ Append(psq_mgmt, hand[c]) # <<>>
      BY <3>1, AppendNonEmpty DEF TypeInv, QueuesOK
    <3> QED BY <1>7, <3>2 DEF Enqueue
  <2> HIDE DEF Empty
  <2> QED BY <2>1, <2>2
<1>8. CASE Tell(c)
  BY <1>8 DEF Tell
<1>9. CASE PsPoll
  BY <1>9 DEF PsPoll, Event, Take
<1>10. CASE PollSend
  BY <1>10 DEF PollSend
<1>11. CASE PollCheck
  BY <1>11 DEF PollCheck
<1>12. CASE Clear
  BY <1>12 DEF Clear
<1>13. CASE StaAsleep(trigger)
  <2>1. CASE trigger
    <3>1. /\ empty' = Empty /\ sp' = NoSp /\ pc'["rx"] = "serve"
          /\ UNCHANGED <<psq_data, psq_mgmt>>
      BY <1>13, <2>1 DEF StaAsleep
    <3>2. sp'.sent = 0
      BY <3>1 DEF NoSp
    <3>3. Empty' = Empty
      BY <3>1
    <3> HIDE DEF Empty
    <3>4. empty' = Empty
      BY <3>1
    <3> QED BY <3>1, <3>2, <3>3, <3>4
  <2>2. CASE ~trigger
    BY <1>13, <2>2 DEF StaAsleep, Event
  <2> QED BY <2>1, <2>2
<1>14. CASE StaAwake
  BY <1>14 DEF StaAwake, Event
<1>15. CASE Flush /\ FlushMgmt
  BY <1>15 DEF FlushMgmt, FlushData, Flush
<1>16. CASE Flush /\ FlushData
  BY <1>16 DEF FlushData, FlushMgmt, Flush
<1>17. CASE ServeTake
  <2>1. pc["rx"] = "serve" /\ ~empty /\ left > 0
    BY <1>17 DEF ServeTake
  <2>2. CASE Empty
    <3>1. UNCHANGED <<left, eosp, pc, sp>> /\ empty' = TRUE
      BY <1>17, <2>2 DEF ServeTake
    <3> QED BY <2>1, <2>2, <3>1
  <2>3. CASE ~Empty
    <3>1. /\ empty' = (psq_data' = <<>> /\ psq_mgmt' = <<>>) /\ left' = left - 1
          /\ eosp' = (empty' \/ left' = 0) /\ pc'["rx"] = "serving"
          /\ sp'.aged = sp.aged
      BY <1>17, <2>3 DEF ServeTake, LastOfPeriod
    <3> QED BY <2>1, <2>3, <3>1
  <2> QED BY <2>2, <2>3
<1>18. CASE ServeSend
  <2>1. /\ pc["rx"] = "serving" /\ pc'["rx"] = "serve" /\ UNCHANGED <<empty, left, psq_data, psq_mgmt>>
        /\ sp'.eosp = (eosp /\ ~sp.mgmt)
        /\ sp'.aged = sp.aged /\ sp'.mgmt = sp.mgmt
    BY <1>18 DEF ServeSend
  <2> QED BY <2>1
<1>19. CASE ServeEnd
  BY <1>19 DEF ServeEnd
<1>20. CASE Dtim
  BY <1>20 DEF Dtim, Event
<1>21. CASE DtimSend
  BY <1>21 DEF DtimSend
<1>22. CASE MulticastClear
  BY <1>22 DEF MulticastClear
<1>23. CASE AgeHandler
  <2>1. UNCHANGED <<pc, empty, left, eosp>>
    BY <1>23 DEF AgeHandler
  <2>2. /\ sp'.sent = sp.sent /\ sp'.eosp = sp.eosp /\ sp'.mgmt = sp.mgmt
        /\ sp.aged => sp'.aged
    BY <1>23 DEF AgeHandler
  <2>3. pc["rx"] # "idle" /\ ~sp'.aged /\ ~Empty => ~Empty'
    BY <1>23, AgedNone
  <2> HIDE DEF Empty
  <2> QED BY <2>1, <2>2, <2>3
<1>24. CASE Disconnect
  BY <1>24 DEF Disconnect, Event
<1>25. CASE Connect
  BY <1>25 DEF Connect, Event
<1> QED
  BY <1>1, <1>2, <1>3, <1>4, <1>5, <1>6, <1>7, <1>8, <1>9, <1>10, <1>11, <1>12, <1>13, <1>14, <1>15, <1>16, <1>17, <1>18, <1>19, <1>20, <1>21, <1>22, <1>23, <1>24, <1>25
     DEF AllSteps, Calls, CallStep, Events, RxStep, Flush

LEMMA EospInvStep == TypeInv /\ EospInv /\ [Next]_vars => EospInv'
<1> SUFFICES ASSUME TypeInv, EospInv, [Next]_vars PROVE EospInv'
  OBVIOUS
<1>1. CASE Next
  <2>1. PICK c \in {"snd", "mgr"}, trigger \in BOOLEAN : AllSteps(c, trigger)
    BY <1>1 DEF Next, Events, AllSteps
  <2> QED BY <2>1, EospStep
<1>2. CASE UNCHANGED vars
  BY <1>2 DEF vars, flagVars, queueVars, locVars, histVars, EospInv, Serving, Empty
<1> QED BY <1>1, <1>2

\* A uAPSD service period (ath6kl_uapsd_trigger_frame_rx) that sent frames ended
\* with EOSP on the air when its last frame was a data frame, and without it when
\* it was a management frame, whose WMI command has no place for the flag: for
\* every number of frames a period may send and whatever is queued meanwhile,
\* unless the aging timer took what was to follow the last frame sent.
THEOREM EospGivenHolds == Spec => []EospGiven
<1>1. EospInv => EospGiven
  BY DEF EospInv, EospGiven, Serving
<1> QED BY <1>1, InitEosp, EospInvStep, TypeInvariant, PTL DEF Spec

-----------------------------------------------------------------------------
(* Where the frames are.  Every frame taken from a caller is in exactly one
   place: a queue, a context's hand, or gone; and no queue holds it twice. *)

Places == {"data", "mgmt", "mcast", "snd", "mgr", "rx", "gone"}

At(p) ==
  CASE p = "data"  -> Range(psq_data)
    [] p = "mgmt"  -> Range(psq_mgmt)
    [] p = "mcast" -> Range(psq_mcast)
    [] p = "gone"  -> gone
    [] OTHER       -> {hand[p]} \ {NoFrame}

InOnePlace ==
  /\ \A p, r \in Places : p # r => At(p) \cap At(r) = {}
  /\ UNION {At(p) : p \in Places} = 1 .. given

QueuesDistinct == Distinct(psq_data) /\ Distinct(psq_mgmt) /\ Distinct(psq_mcast)

PlaceInv == InOnePlace /\ QueuesDistinct

\* The frames in X, new or not, go to the place r.
Move(r, X) ==
  /\ r \in Places
  /\ \A p \in Places : At(p)' = IF p = r THEN At(p) \cup X ELSE At(p) \ X
  /\ 1 .. given' = 1 .. given \cup X

LEMMA MoveKeeps ==
  ASSUME InOnePlace, NEW r, NEW X, Move(r, X)
  PROVE  InOnePlace'
<1>1. \A p, q \in Places : p # q => At(p)' \cap At(q)' = {}
  <2> SUFFICES ASSUME NEW p \in Places, NEW q \in Places, p # q
               PROVE  At(p)' \cap At(q)' = {}
    OBVIOUS
  <2>1. At(p) \cap At(q) = {}
    BY DEF InOnePlace
  <2>2. /\ At(p)' = IF p = r THEN At(p) \cup X ELSE At(p) \ X
        /\ At(q)' = IF q = r THEN At(q) \cup X ELSE At(q) \ X
    BY DEF Move
  <2> QED BY <2>1, <2>2
<1>2. UNION {At(p)' : p \in Places} = (UNION {At(p) : p \in Places}) \cup X
  <2>1. ASSUME NEW p \in Places PROVE At(p)' \subseteq At(p) \cup X
    BY DEF Move
  <2>2. At(r)' = At(r) \cup X /\ r \in Places
    BY DEF Move
  <2>3. ASSUME NEW p \in Places, NEW f \in At(p), f \notin X PROVE f \in At(p)'
    BY <2>3 DEF Move
  <2> QED BY <2>1, <2>2, <2>3
<1>3. 1 .. given' = 1 .. given \cup X
  BY DEF Move
<1> QED BY <1>1, <1>2, <1>3 DEF InOnePlace

\* The places, one by one.
LEMMA AtPlaces ==
  /\ At("data") = Range(psq_data) /\ At("mgmt") = Range(psq_mgmt)
  /\ At("mcast") = Range(psq_mcast) /\ At("gone") = gone
  /\ \A c \in Contexts : c \in Places /\ At(c) = {hand[c]} \ {NoFrame}
BY DEF At, Contexts, Places

LEMMA AtPlacesNext ==
  /\ At("data")' = Range(psq_data') /\ At("mgmt")' = Range(psq_mgmt')
  /\ At("mcast")' = Range(psq_mcast') /\ At("gone")' = gone'
  /\ \A c \in Contexts : At(c)' = {hand'[c]} \ {NoFrame}
BY DEF At, Contexts, Places

\* A frame in a hand is nowhere else.
LEMMA HandAlone ==
  ASSUME TypeInv, InOnePlace, NEW c \in Contexts, pc[c] \in Holding
  PROVE  /\ hand[c] \in Frames /\ hand[c] # NoFrame /\ hand[c] \in 1 .. given
         /\ \A p \in Places : p # c => hand[c] \notin At(p)
<1>1. hand[c] \in Frames /\ hand[c] # NoFrame
  BY DEF TypeInv, HandOK
<1>2. c \in Places /\ hand[c] \in At(c)
  BY <1>1, AtPlaces
<1> QED BY <1>1, <1>2 DEF InOnePlace

\* A frame that waits is nowhere else.
LEMMA PlaceAlone ==
  ASSUME InOnePlace, NEW r \in Places, NEW X, X \subseteq At(r)
  PROVE  /\ X \subseteq 1 .. given
         /\ \A p \in Places : p # r => At(p) \ X = At(p)
<1>1. \A p \in Places : p # r => At(p) \cap At(r) = {}
  BY DEF InOnePlace
<1> QED BY <1>1 DEF InOnePlace

LEMMA NewAlone ==
  ASSUME TypeInv, InOnePlace, given < MaxFrames
  PROVE  /\ given + 1 \in Frames /\ given + 1 # NoFrame
         /\ 1 .. given + 1 = 1 .. given \cup {given + 1}
         /\ \A p \in Places : given + 1 \notin At(p)
<1>1. given \in Nat
  BY PowerSaveConstants DEF PowerSaveConstants, TypeInv, QueuesOK
<1>2. given + 1 \notin 1 .. given
  BY <1>1
<1>3. \A p \in Places : given + 1 \notin At(p)
  BY <1>2 DEF InOnePlace
<1>4. 1 .. given + 1 = 1 .. given \cup {given + 1}
  BY <1>1
<1> QED BY <1>3, <1>4, NewFrame DEF TypeInv

\* To see where a step moves frames, look at each place.
LEMMA MoveParts ==
  ASSUME NEW r \in Places, NEW X, 1 .. given' = 1 .. given \cup X,
         Range(psq_data') = IF r = "data" THEN Range(psq_data) \cup X ELSE Range(psq_data) \ X,
         Range(psq_mgmt') = IF r = "mgmt" THEN Range(psq_mgmt) \cup X ELSE Range(psq_mgmt) \ X,
         Range(psq_mcast') = IF r = "mcast" THEN Range(psq_mcast) \cup X ELSE Range(psq_mcast) \ X,
         gone' = IF r = "gone" THEN gone \cup X ELSE gone \ X,
         \A c \in Contexts : {hand'[c]} \ {NoFrame} =
           IF r = c THEN ({hand[c]} \ {NoFrame}) \cup X ELSE ({hand[c]} \ {NoFrame}) \ X
  PROVE  Move(r, X)
<1> SUFFICES ASSUME NEW p \in Places
             PROVE  At(p)' = IF p = r THEN At(p) \cup X ELSE At(p) \ X
  BY DEF Move
<1>1. CASE p = "data"
  BY <1>1, AtPlaces, AtPlacesNext
<1>2. CASE p = "mgmt"
  BY <1>2, AtPlaces, AtPlacesNext
<1>3. CASE p = "mcast"
  BY <1>3, AtPlaces, AtPlacesNext
<1>4. CASE p = "gone"
  BY <1>4, AtPlaces, AtPlacesNext
<1>5. CASE p \in Contexts
  BY <1>5, AtPlaces, AtPlacesNext
<1> QED BY <1>1, <1>2, <1>3, <1>4, <1>5 DEF Places, Contexts

\* A new frame is sent at once, or taken in hand.
LEMMA NewKeeps ==
  ASSUME TypeInv, InOnePlace, given < MaxFrames, given' = given + 1,
         UNCHANGED <<psq_data, psq_mgmt, psq_mcast>>, NEW c \in Contexts,
         pc[c] = "idle",
         \/ gone' = gone \cup {given'} /\ hand' = hand
         \/ hand' = [hand EXCEPT ![c] = given'] /\ gone' = gone
  PROVE  InOnePlace'
<1> DEFINE X == {given + 1}
<1>1. /\ 1 .. given' = 1 .. given \cup X /\ given + 1 # NoFrame
      /\ \A p \in Places : At(p) \ X = At(p)
  BY NewAlone
<1>2. /\ Range(psq_data) \ X = Range(psq_data) /\ Range(psq_mgmt) \ X = Range(psq_mgmt)
      /\ Range(psq_mcast) \ X = Range(psq_mcast) /\ gone \ X = gone
      /\ \A d \in Contexts : ({hand[d]} \ {NoFrame}) \ X = {hand[d]} \ {NoFrame}
  BY <1>1, AtPlaces DEF Places
<1>3. hand[c] = NoFrame /\ hand \in [Contexts -> Frames \cup {NoFrame}]
  BY DEF TypeInv, HandOK, Holding
<1>4. CASE gone' = gone \cup {given'} /\ hand' = hand
  <2>1. Move("gone", X)
    BY <1>1, <1>2, <1>4, MoveParts, ZenonT(30) DEF Places, Contexts
  <2> QED BY <2>1, MoveKeeps
<1>5. CASE hand' = [hand EXCEPT ![c] = given'] /\ gone' = gone
  <2>1. \A d \in Contexts : {hand'[d]} \ {NoFrame} =
           IF c = d THEN ({hand[d]} \ {NoFrame}) \cup X ELSE ({hand[d]} \ {NoFrame}) \ X
    BY <1>1, <1>2, <1>3, <1>5
  <2>2. c \in Places /\ c \notin {"data", "mgmt", "mcast", "gone"}
    BY DEF Contexts, Places
  <2>3. Move(c, X)
    BY <1>1, <1>2, <1>5, <2>1, <2>2, MoveParts
  <2> QED BY <2>3, MoveKeeps
<1> QED BY <1>4, <1>5

\* A frame in hand is put into a queue, or sent or dropped.
LEMMA HandKeeps ==
  ASSUME TypeInv, InOnePlace, NEW c \in Contexts, pc[c] \in Holding,
         hand' = [hand EXCEPT ![c] = NoFrame], given' = given,
         NEW r \in {"data", "mgmt", "mcast", "gone"},
         psq_data' = IF r = "data" THEN Append(psq_data, hand[c]) ELSE psq_data,
         psq_mgmt' = IF r = "mgmt" THEN Append(psq_mgmt, hand[c]) ELSE psq_mgmt,
         psq_mcast' = IF r = "mcast" THEN Append(psq_mcast, hand[c]) ELSE psq_mcast,
         gone' = IF r = "gone" THEN gone \cup {hand[c]} ELSE gone
  PROVE  InOnePlace'
<1> DEFINE X == {hand[c]}
<1>1. /\ hand[c] \in Frames /\ hand[c] # NoFrame /\ X \subseteq 1 .. given
      /\ \A p \in Places : p # c => At(p) \ X = At(p)
  BY HandAlone
<1>2. /\ Range(psq_data) \ X = Range(psq_data) /\ Range(psq_mgmt) \ X = Range(psq_mgmt)
      /\ Range(psq_mcast) \ X = Range(psq_mcast) /\ gone \ X = gone
      /\ \A d \in Contexts \ {c} : ({hand[d]} \ {NoFrame}) \ X = {hand[d]} \ {NoFrame}
  BY <1>1, AtPlaces DEF Places, Contexts
<1>3. hand \in [Contexts -> Frames \cup {NoFrame}]
  BY DEF TypeInv, HandOK
<1>4. /\ Range(Append(psq_data, hand[c])) = Range(psq_data) \cup X
      /\ Range(Append(psq_mgmt, hand[c])) = Range(psq_mgmt) \cup X
      /\ Range(Append(psq_mcast, hand[c])) = Range(psq_mcast) \cup X
  BY <1>1, RangeAppend DEF TypeInv, QueuesOK
<1>5. \A d \in Contexts : {hand'[d]} \ {NoFrame} =
         IF r = d THEN ({hand[d]} \ {NoFrame}) \cup X ELSE ({hand[d]} \ {NoFrame}) \ X
  <2>1. \A d \in Contexts : r # d
    BY DEF Contexts
  <2> QED BY <1>2, <1>3, <2>1
<1>6. r \in Places /\ 1 .. given' = 1 .. given \cup X
  BY <1>1 DEF Places
<1>7. /\ Range(psq_data') = IF r = "data" THEN Range(psq_data) \cup X ELSE Range(psq_data) \ X
      /\ Range(psq_mgmt') = IF r = "mgmt" THEN Range(psq_mgmt) \cup X ELSE Range(psq_mgmt) \ X
      /\ Range(psq_mcast') = IF r = "mcast" THEN Range(psq_mcast) \cup X
                                            ELSE Range(psq_mcast) \ X
  BY <1>2, <1>4
<1>8. gone' = IF r = "gone" THEN gone \cup X ELSE gone \ X
  BY <1>2
<1>9. Move(r, X)
  BY <1>5, <1>6, <1>7, <1>8, MoveParts
<1> QED BY <1>9, MoveKeeps

\* Waiting frames are sent, dropped or purged, or one is taken in hand.
LEMMA WaitersKeep ==
  ASSUME TypeInv, InOnePlace, given' = given, NEW X,
         X \subseteq Range(psq_data) \cup Range(psq_mgmt) \cup Range(psq_mcast),
         Range(psq_data') = Range(psq_data) \ X, Range(psq_mgmt') = Range(psq_mgmt) \ X,
         Range(psq_mcast') = Range(psq_mcast) \ X,
         \/ gone' = gone \cup X /\ hand' = hand
         \/ /\ pc["rx"] \notin Holding /\ gone' = gone
            /\ \E f \in Frames : X = {f} /\ hand' = [hand EXCEPT !["rx"] = f]
  PROVE  InOnePlace'
<1>1. \A d \in Contexts : /\ d \in Places /\ d \notin {"data", "mgmt", "mcast", "gone"}
                          /\ At(d) = {hand[d]} \ {NoFrame}
  BY AtPlaces DEF Contexts
<1>2. /\ At("data") = Range(psq_data) /\ At("mgmt") = Range(psq_mgmt)
      /\ At("mcast") = Range(psq_mcast) /\ At("gone") = gone
  BY AtPlaces
<1>3. \A p \in Places \ {"data", "mgmt", "mcast"} : At(p) \cap X = {}
  <2>1. \A p \in Places \ {"data", "mgmt", "mcast"} :
          /\ At(p) \cap At("data") = {} /\ At(p) \cap At("mgmt") = {}
          /\ At(p) \cap At("mcast") = {}
    BY DEF InOnePlace, Places
  <2> QED BY <1>2, <2>1
<1>4. /\ gone \ X = gone
      /\ \A d \in Contexts : ({hand[d]} \ {NoFrame}) \ X = {hand[d]} \ {NoFrame}
  <2>1. "gone" \in Places \ {"data", "mgmt", "mcast"}
    BY DEF Places
  <2> QED BY <1>1, <1>2, <1>3, <2>1
<1>5. X \subseteq 1 .. given
  BY <1>2 DEF InOnePlace, Places
<1>6. /\ Range(psq_data') = Range(psq_data) \ X /\ Range(psq_mgmt') = Range(psq_mgmt) \ X
      /\ Range(psq_mcast') = Range(psq_mcast) \ X /\ 1 .. given' = 1 .. given \cup X
  BY <1>5
<1>7. CASE gone' = gone \cup X /\ hand' = hand
  <2>1. "gone" \in Places /\ \A d \in Contexts : d # "gone"
    BY DEF Places, Contexts
  <2>2. Move("gone", X)
    BY <1>4, <1>6, <1>7, <2>1, MoveParts
  <2> QED BY <2>2, MoveKeeps
<1>8. CASE /\ pc["rx"] \notin Holding /\ gone' = gone
           /\ \E f \in Frames : X = {f} /\ hand' = [hand EXCEPT !["rx"] = f]
  <2>1. PICK f \in Frames : X = {f} /\ hand' = [hand EXCEPT !["rx"] = f]
    BY <1>8
  <2>2. /\ hand["rx"] = NoFrame /\ hand \in [Contexts -> Frames \cup {NoFrame}]
        /\ "rx" \in Contexts /\ f # NoFrame
    BY <1>8, FramesNonZero DEF TypeInv, HandOK, Contexts
  <2>3. \A d \in Contexts : {hand'[d]} \ {NoFrame} =
           IF "rx" = d THEN ({hand[d]} \ {NoFrame}) \cup X ELSE ({hand[d]} \ {NoFrame}) \ X
    BY <1>4, <2>1, <2>2
  <2>4. "rx" \in Places
    BY DEF Places
  <2>5. Move("rx", X)
    BY <1>4, <1>6, <1>8, <2>3, <2>4, MoveParts
  <2> QED BY <2>5, MoveKeeps
<1> QED BY <1>7, <1>8

\* The three queues share no frame, and the head of one of them leaves it.
LEMMA HeadsAlone ==
  ASSUME TypeInv, PlaceInv
  PROVE  /\ psq_data # <<>> => /\ Head(psq_data) \in Range(psq_data)
                               /\ Head(psq_data) \in Frames
                               /\ Range(Tail(psq_data)) = Range(psq_data) \ {Head(psq_data)}
                               /\ Distinct(Tail(psq_data))
         /\ psq_mgmt # <<>> => /\ Head(psq_mgmt) \in Range(psq_mgmt)
                               /\ Head(psq_mgmt) \in Frames
                               /\ Range(Tail(psq_mgmt)) = Range(psq_mgmt) \ {Head(psq_mgmt)}
                               /\ Distinct(Tail(psq_mgmt))
         /\ psq_mcast # <<>> => /\ Head(psq_mcast) \in Range(psq_mcast)
                                /\ Head(psq_mcast) \in Frames
                                /\ Range(Tail(psq_mcast)) = Range(psq_mcast) \ {Head(psq_mcast)}
                                /\ Distinct(Tail(psq_mcast))
BY DistinctTail, TailOK DEF TypeInv, QueuesOK, PlaceInv, QueuesDistinct

LEMMA QueuesApart ==
  ASSUME InOnePlace
  PROVE  /\ Range(psq_data) \cap Range(psq_mgmt) = {}
         /\ Range(psq_data) \cap Range(psq_mcast) = {}
         /\ Range(psq_mgmt) \cap Range(psq_mcast) = {}
BY AtPlaces DEF InOnePlace, Places

LEMMA TakeKeeps ==
  ASSUME TypeInv, PlaceInv, ~Empty, Take, pc["rx"] \notin Holding,
         UNCHANGED <<psq_mcast, given, gone>>
  PROVE  PlaceInv'
<1> DEFINE f == IF psq_mgmt # <<>> THEN Head(psq_mgmt) ELSE Head(psq_data)
<1>1. hand' = [hand EXCEPT !["rx"] = f]
  <2>1. Head(psq_mgmt \o psq_data) = f
    BY TakeHead DEF TypeInv
  <2> QED BY <2>1 DEF Take
<1>2. \/ /\ psq_mgmt # <<>> /\ psq_mgmt' = Tail(psq_mgmt) /\ psq_data' = psq_data
         /\ f = Head(psq_mgmt)
      \/ /\ psq_data # <<>> /\ psq_data' = Tail(psq_data) /\ psq_mgmt' = psq_mgmt
         /\ f = Head(psq_data)
  BY DEF Take, Empty
<1> HIDE DEF f
<1>3. /\ f \in Frames /\ f \in Range(psq_data) \cup Range(psq_mgmt)
      /\ Range(psq_data') = Range(psq_data) \ {f} /\ Range(psq_mgmt') = Range(psq_mgmt) \ {f}
      /\ Range(psq_mcast') = Range(psq_mcast) \ {f}
  BY <1>2, HeadsAlone, QueuesApart, ZenonT(30) DEF PlaceInv
<1>4. InOnePlace'
  BY <1>1, <1>3, WaitersKeep DEF PlaceInv
<1>5. QueuesDistinct'
  BY <1>2, HeadsAlone DEF PlaceInv, QueuesDistinct
<1> QED BY <1>4, <1>5 DEF PlaceInv

\* Ageing moves the old frames from the queues.
LEMMA AgeKeeps ==
  ASSUME TypeInv, PlaceInv, AgeHandler
  PROVE  InOnePlace'
<1> DEFINE both == Aged(psq_data) = <<>>
           seen == Range(psq_data) \cup (IF both THEN Range(psq_mgmt) ELSE {})
           X == {f \in seen : Old(f)}
<1>1. /\ psq_data' = Aged(psq_data)
      /\ psq_mgmt' = IF both THEN Aged(psq_mgmt) ELSE psq_mgmt
      /\ gone' = gone \cup X /\ UNCHANGED <<psq_mcast, hand, given>>
  BY DEF AgeHandler
<1>2. /\ Range(Aged(psq_data)) = {f \in Range(psq_data) : ~Old(f)}
      /\ Range(Aged(psq_mgmt)) = {f \in Range(psq_mgmt) : ~Old(f)}
  BY AgedOK DEF TypeInv, QueuesOK
<1>3. /\ Range(psq_data') = Range(psq_data) \ X /\ Range(psq_mgmt') = Range(psq_mgmt) \ X
      /\ Range(psq_mcast') = Range(psq_mcast) \ X
  <2>1. Range(psq_data') = Range(psq_data) \ X
    BY <1>1, <1>2, QueuesApart DEF PlaceInv
  <2>2. Range(psq_mgmt') = Range(psq_mgmt) \ X
    BY <1>1, <1>2, QueuesApart DEF PlaceInv
  <2>3. Range(psq_mcast') = Range(psq_mcast) \ X
    BY <1>1, QueuesApart DEF PlaceInv
  <2> QED BY <2>1, <2>2, <2>3
<1>4. X \subseteq Range(psq_data) \cup Range(psq_mgmt) \cup Range(psq_mcast)
  OBVIOUS
<1> HIDE DEF X
<1> QED BY <1>1, <1>3, <1>4, WaitersKeep DEF PlaceInv

LEMMA AgedDistinct ==
  ASSUME TypeInv, PlaceInv, AgeHandler
  PROVE  QueuesDistinct'
<1>1. /\ psq_data' = Aged(psq_data) /\ psq_mgmt' \in {Aged(psq_mgmt), psq_mgmt}
      /\ psq_mcast' = psq_mcast
  BY DEF AgeHandler
<1>2. ASSUME NEW q \in Seq(Frames), Distinct(q) PROVE Distinct(Aged(q))
  <2> DEFINE I == {i \in DOMAIN q : ~Old(q[i])}
  <2>1. I \in SUBSET DOMAIN q
    OBVIOUS
  <2> HIDE DEF I
  <2>2. Distinct(Keep(q, I))
    BY <1>2, <2>1, KeepInjective DEF Distinct
  <2> QED BY <2>2 DEF I, Aged
<1>3. Distinct(Aged(psq_data)) /\ Distinct(Aged(psq_mgmt))
  BY <1>2 DEF PlaceInv, QueuesDistinct, TypeInv, QueuesOK
<1> QED BY <1>1, <1>3 DEF PlaceInv, QueuesDistinct

LEMMA InitPlace == Init => PlaceInv
<1> SUFFICES ASSUME Init PROVE PlaceInv
  OBVIOUS
<1>1. Range(<<>>) = {} /\ Distinct(<<>>)
  BY DEF Range, Distinct
<1>2. \A p \in Places : At(p) = {}
  <2>1. \A c \in Contexts : hand[c] = NoFrame
    BY DEF Init
  <2> QED BY <1>1, <2>1, AtPlaces DEF Init, Places, Contexts
<1>3. 1 .. given = {}
  BY DEF Init
<1> QED BY <1>1, <1>2, <1>3 DEF Init, PlaceInv, InOnePlace, QueuesDistinct

LEMMA PlaceStep ==
  ASSUME TypeInv, PlaceInv, NEW c \in {"snd", "mgr"}, NEW trigger \in BOOLEAN,
         AllSteps(c, trigger)
  PROVE  PlaceInv'
<1> USE DEF PlaceInv, queueVars, locVars, histVars
<1>u. UNCHANGED <<psq_data, psq_mgmt, psq_mcast, hand, gone, given>> => PlaceInv'
  <2> SUFFICES ASSUME UNCHANGED <<psq_data, psq_mgmt, psq_mcast, hand, gone, given>>
               PROVE  PlaceInv'
    OBVIOUS
  <2>1. \A p \in Places : At(p)' = At(p)
    BY DEF At, Places
  <2> QED BY <2>1 DEF InOnePlace, QueuesDistinct
<1>n. \A d \in Contexts : pc[d] \in Holding =>
        /\ Distinct(Append(psq_data, hand[d])) /\ Distinct(Append(psq_mgmt, hand[d]))
        /\ Distinct(Append(psq_mcast, hand[d]))
  <2> SUFFICES ASSUME NEW d \in Contexts, pc[d] \in Holding
               PROVE  /\ Distinct(Append(psq_data, hand[d]))
                      /\ Distinct(Append(psq_mgmt, hand[d]))
                      /\ Distinct(Append(psq_mcast, hand[d]))
    OBVIOUS
  <2>1. /\ hand[d] \in Frames /\ hand[d] \notin Range(psq_data)
        /\ hand[d] \notin Range(psq_mgmt) /\ hand[d] \notin Range(psq_mcast)
    BY HandAlone, AtPlaces DEF Places, Contexts
  <2> QED BY <2>1, DistinctAppend DEF QueuesDistinct, TypeInv, QueuesOK
<1>1. CASE Unicast
  <2>1. InOnePlace'
    BY <1>1, NewKeeps DEF Unicast, Contexts
  <2> QED BY <1>1, <2>1 DEF Unicast, QueuesDistinct
<1>2. CASE UnicastAwake
  <2>1. pc["snd"] \in Holding /\ "snd" \in Contexts
    BY <1>2 DEF UnicastAwake, Holding, Contexts
  <2>2. /\ UNCHANGED <<psq_data, psq_mgmt, psq_mcast, given>>
        /\ gone' = gone \cup {hand["snd"]} /\ hand' = [hand EXCEPT !["snd"] = NoFrame]
    BY <1>2 DEF UnicastAwake
  <2>3. InOnePlace'
    BY <2>1, <2>2, HandKeeps
  <2> QED BY <2>2, <2>3 DEF QueuesDistinct
<1>3. CASE Mgmt
  <2>1. InOnePlace'
    BY <1>3, NewKeeps DEF Mgmt, Contexts
  <2> QED BY <1>3, <2>1 DEF Mgmt, QueuesDistinct
<1>4. CASE Multicast
  <2>1. InOnePlace'
    BY <1>4, NewKeeps DEF Multicast, Contexts
  <2> QED BY <1>4, <2>1 DEF Multicast, QueuesDistinct
<1>5. CASE MulticastQueue
  <2>1. pc["snd"] \in Holding /\ "snd" \in Contexts
    BY <1>5 DEF MulticastQueue, Holding, Contexts
  <2>2. /\ UNCHANGED <<psq_data, psq_mgmt, given>> /\ hand' = [hand EXCEPT !["snd"] = NoFrame]
        /\ \/ psq_mcast' = Append(psq_mcast, hand["snd"]) /\ gone' = gone
           \/ psq_mcast' = psq_mcast /\ gone' = gone \cup {hand["snd"]}
    BY <1>5 DEF MulticastQueue
  <2>3. InOnePlace'
    BY <2>1, <2>2, HandKeeps
  <2>4. Distinct(Append(psq_mcast, hand["snd"]))
    BY <2>1, <1>n
  <2> QED BY <2>2, <2>3, <2>4 DEF QueuesDistinct
<1>6. CASE MulticastTell
  BY <1>6, <1>u DEF MulticastTell
<1>7. CASE Enqueue(c)
  <2>1. pc[c] \in Holding /\ c \in Contexts
    BY <1>7 DEF Enqueue, Holding, Contexts
  <2>2. /\ UNCHANGED <<psq_mcast, given>> /\ hand' = [hand EXCEPT ![c] = NoFrame]
        /\ \/ /\ psq_data' = IF c = "snd" THEN Append(psq_data, hand[c]) ELSE psq_data
              /\ psq_mgmt' = IF c = "mgr" THEN Append(psq_mgmt, hand[c]) ELSE psq_mgmt
              /\ gone' = gone
           \/ UNCHANGED <<psq_data, psq_mgmt>> /\ gone' = gone \cup {hand[c]}
    BY <1>7 DEF Enqueue
  <2>3. InOnePlace'
    <3>1. CASE UNCHANGED <<psq_data, psq_mgmt>> /\ gone' = gone \cup {hand[c]}
      BY <2>1, <2>2, <3>1, HandKeeps
    <3>2. CASE psq_data' = Append(psq_data, hand[c]) /\ psq_mgmt' = psq_mgmt /\ gone' = gone
      BY <2>1, <2>2, <3>2, HandKeeps
    <3>3. CASE psq_mgmt' = Append(psq_mgmt, hand[c]) /\ psq_data' = psq_data /\ gone' = gone
      BY <2>1, <2>2, <3>3, HandKeeps
    <3> QED BY <2>2, <3>1, <3>2, <3>3
  <2>4. Distinct(Append(psq_data, hand[c])) /\ Distinct(Append(psq_mgmt, hand[c]))
    BY <2>1, <1>n
  <2> QED BY <2>2, <2>3, <2>4 DEF QueuesDistinct
<1>8. CASE Tell(c)
  BY <1>8, <1>u DEF Tell
<1>9. CASE PsPoll
  BY <1>9, TakeKeeps DEF PsPoll, Event, Holding, PlaceInv
<1>10. CASE PollSend
  <2>1. pc["rx"] \in Holding /\ "rx" \in Contexts
    BY <1>10 DEF PollSend, Holding, Contexts
  <2>2. /\ UNCHANGED <<psq_data, psq_mgmt, psq_mcast, given>>
        /\ gone' = gone \cup {hand["rx"]} /\ hand' = [hand EXCEPT !["rx"] = NoFrame]
    BY <1>10 DEF PollSend
  <2>3. InOnePlace'
    BY <2>1, <2>2, HandKeeps
  <2> QED BY <2>2, <2>3 DEF QueuesDistinct
<1>11. CASE PollCheck
  BY <1>11, <1>u DEF PollCheck
<1>12. CASE Clear
  BY <1>12, <1>u DEF Clear
<1>13. CASE StaAsleep(trigger)
  BY <1>13, <1>u DEF StaAsleep, Event
<1>14. CASE StaAwake
  BY <1>14, <1>u DEF StaAwake, Event
<1>15. CASE Flush /\ FlushMgmt
  <2>1. /\ UNCHANGED <<psq_data, psq_mcast, hand, given>>
        /\ \/ UNCHANGED <<psq_mgmt, gone>>
           \/ psq_mgmt # <<>> /\ psq_mgmt' = Tail(psq_mgmt) /\ gone' = gone \cup {Head(psq_mgmt)}
    BY <1>15 DEF FlushMgmt, FlushData, Flush
  <2>2. CASE UNCHANGED <<psq_mgmt, gone>>
    BY <2>1, <2>2, <1>u
  <2>3. CASE psq_mgmt # <<>> /\ psq_mgmt' = Tail(psq_mgmt) /\ gone' = gone \cup {Head(psq_mgmt)}
    <3> DEFINE X == {Head(psq_mgmt)}
    <3>1. /\ X \subseteq Range(psq_mgmt) /\ gone' = gone \cup X /\ Range(psq_mgmt') = Range(psq_mgmt) \ X
      BY <2>3, HeadsAlone
    <3>2. /\ Range(psq_data') = Range(psq_data) \ X /\ Range(psq_mgmt') = Range(psq_mgmt) \ X
          /\ Range(psq_mcast') = Range(psq_mcast) \ X
      BY <2>1, <3>1, QueuesApart
    <3> HIDE DEF X
    <3>3. InOnePlace'
      BY <2>1, <3>1, <3>2, WaitersKeep
    <3> QED BY <2>1, <2>3, <3>3, HeadsAlone DEF QueuesDistinct
  <2> QED BY <2>1, <2>2, <2>3
<1>16. CASE Flush /\ FlushData
  <2>1. /\ UNCHANGED <<psq_mgmt, psq_mcast, hand, given>>
        /\ \/ UNCHANGED <<psq_data, gone>>
           \/ psq_data # <<>> /\ psq_data' = Tail(psq_data) /\ gone' = gone \cup {Head(psq_data)}
    BY <1>16 DEF FlushMgmt, FlushData, Flush
  <2>2. CASE UNCHANGED <<psq_data, gone>>
    BY <2>1, <2>2, <1>u
  <2>3. CASE psq_data # <<>> /\ psq_data' = Tail(psq_data) /\ gone' = gone \cup {Head(psq_data)}
    <3> DEFINE X == {Head(psq_data)}
    <3>1. /\ X \subseteq Range(psq_data) /\ gone' = gone \cup X /\ Range(psq_data') = Range(psq_data) \ X
      BY <2>3, HeadsAlone
    <3>2. /\ Range(psq_data') = Range(psq_data) \ X /\ Range(psq_mgmt') = Range(psq_mgmt) \ X
          /\ Range(psq_mcast') = Range(psq_mcast) \ X
      BY <2>1, <3>1, QueuesApart
    <3> HIDE DEF X
    <3>3. InOnePlace'
      BY <2>1, <3>1, <3>2, WaitersKeep
    <3> QED BY <2>1, <2>3, <3>3, HeadsAlone DEF QueuesDistinct
  <2> QED BY <2>1, <2>2, <2>3
<1>17. CASE ServeTake
  <2>1. CASE Empty
    BY <1>17, <2>1, <1>u DEF ServeTake
  <2>2. CASE ~Empty
    BY <1>17, <2>2, TakeKeeps DEF ServeTake, Holding, PlaceInv
  <2> QED BY <2>1, <2>2
<1>18. CASE ServeSend
  <2>1. pc["rx"] \in Holding /\ "rx" \in Contexts
    BY <1>18 DEF ServeSend, Holding, Contexts
  <2>2. /\ UNCHANGED <<psq_data, psq_mgmt, psq_mcast, given>>
        /\ gone' = gone \cup {hand["rx"]} /\ hand' = [hand EXCEPT !["rx"] = NoFrame]
    BY <1>18 DEF ServeSend
  <2>3. InOnePlace'
    BY <2>1, <2>2, HandKeeps
  <2> QED BY <2>2, <2>3 DEF QueuesDistinct
<1>19. CASE ServeEnd
  BY <1>19, <1>u DEF ServeEnd
<1>20. CASE Dtim
  BY <1>20, <1>u DEF Dtim, Event
<1>21. CASE DtimSend
  <2>1. /\ UNCHANGED <<psq_data, psq_mgmt, hand, given>>
        /\ \/ UNCHANGED <<psq_mcast, gone>>
           \/ psq_mcast # <<>> /\ psq_mcast' = Tail(psq_mcast) /\ gone' = gone \cup {Head(psq_mcast)}
    BY <1>21 DEF DtimSend
  <2>2. CASE UNCHANGED <<psq_mcast, gone>>
    BY <2>1, <2>2, <1>u
  <2>3. CASE psq_mcast # <<>> /\ psq_mcast' = Tail(psq_mcast) /\ gone' = gone \cup {Head(psq_mcast)}
    <3> DEFINE X == {Head(psq_mcast)}
    <3>1. /\ X \subseteq Range(psq_mcast) /\ gone' = gone \cup X /\ Range(psq_mcast') = Range(psq_mcast) \ X
      BY <2>3, HeadsAlone
    <3>2. /\ Range(psq_data') = Range(psq_data) \ X /\ Range(psq_mgmt') = Range(psq_mgmt) \ X
          /\ Range(psq_mcast') = Range(psq_mcast) \ X
      BY <2>1, <3>1, QueuesApart
    <3> HIDE DEF X
    <3>3. InOnePlace'
      BY <2>1, <3>1, <3>2, WaitersKeep
    <3> QED BY <2>1, <2>3, <3>3, HeadsAlone DEF QueuesDistinct
  <2> QED BY <2>1, <2>2, <2>3
<1>22. CASE MulticastClear
  BY <1>22, <1>u DEF MulticastClear
<1>23. CASE AgeHandler
  <2>1. InOnePlace'
    BY <1>23, AgeKeeps
  <2> QED BY <1>23, <2>1, AgedDistinct
<1>24. CASE Disconnect
  <2> DEFINE X == Range(psq_data) \cup Range(psq_mgmt) \cup Range(psq_mcast)
  <2>1. /\ psq_data' = <<>> /\ psq_mgmt' = <<>> /\ psq_mcast' = <<>>
        /\ gone' = gone \cup X /\ hand' = hand /\ given' = given
    BY <1>24 DEF Disconnect
  <2>2. Range(<<>>) = {} /\ Distinct(<<>>)
    BY DEF Range, Distinct
  <2>3. InOnePlace'
    <3>1. /\ Range(psq_data') = Range(psq_data) \ X /\ Range(psq_mgmt') = Range(psq_mgmt) \ X
          /\ Range(psq_mcast') = Range(psq_mcast) \ X
      BY <2>1, <2>2
    <3> HIDE DEF X
    <3> QED BY <2>1, <3>1, WaitersKeep DEF X
  <2> QED BY <2>1, <2>2, <2>3 DEF QueuesDistinct
<1>25. CASE Connect
  BY <1>25, <1>u DEF Connect, Event
<1> QED
  BY <1>1, <1>2, <1>3, <1>4, <1>5, <1>6, <1>7, <1>8, <1>9, <1>10, <1>11, <1>12, <1>13, <1>14, <1>15, <1>16, <1>17, <1>18, <1>19, <1>20, <1>21, <1>22, <1>23, <1>24, <1>25
     DEF AllSteps, Calls, CallStep, Events, RxStep, Flush

LEMMA PlaceInvStep == TypeInv /\ PlaceInv /\ [Next]_vars => PlaceInv'
<1> SUFFICES ASSUME TypeInv, PlaceInv, [Next]_vars PROVE PlaceInv'
  OBVIOUS
<1>1. CASE Next
  <2>1. PICK c \in {"snd", "mgr"}, trigger \in BOOLEAN : AllSteps(c, trigger)
    BY <1>1 DEF Next, Events, AllSteps
  <2> QED BY <2>1, PlaceStep
<1>2. CASE UNCHANGED vars
  <2>1. \A p \in Places : At(p)' = At(p)
    BY <1>2 DEF At, Places, vars, queueVars, locVars, histVars
  <2> QED BY <1>2, <2>1 DEF vars, queueVars, histVars, PlaceInv, InOnePlace, QueuesDistinct
<1> QED BY <1>1, <1>2

\* The numbers of waiting, held and finished frames add up.
LEMMA PlacesCounted == TypeInv /\ PlaceInv => FramesAccounted
<1> SUFFICES ASSUME TypeInv, PlaceInv PROVE FramesAccounted
  OBVIOUS
<1> DEFINE lists == psq_data \o psq_mgmt \o psq_mcast
           hands == {hand[c] : c \in Contexts} \ {NoFrame}
           H == {c \in Contexts : hand[c] # NoFrame}
           D == Range(psq_data)
           M == Range(psq_mgmt)
           C == Range(psq_mcast)
<1>t. /\ psq_data \in Seq(Frames) /\ psq_mgmt \in Seq(Frames) /\ psq_mcast \in Seq(Frames)
      /\ given \in Nat /\ hand \in [Contexts -> Frames \cup {NoFrame}]
  BY PowerSaveConstants DEF PowerSaveConstants, TypeInv, QueuesOK, HandOK
<1>1. /\ Range(lists) = D \cup M \cup C
      /\ Len(lists) = Len(psq_data) + Len(psq_mgmt) + Len(psq_mcast)
  <2>1. /\ psq_data \o psq_mgmt \in Seq(Frames)
        /\ Len(psq_data \o psq_mgmt) = Len(psq_data) + Len(psq_mgmt)
    BY <1>t
  <2>2. Len(lists) = Len(psq_data \o psq_mgmt) + Len(psq_mcast)
    BY <1>t, <2>1
  <2>3. Range(lists) = Range(psq_data \o psq_mgmt) \cup C
    <3> DEFINE two == psq_data \o psq_mgmt
    <3>1. two \in Seq(Frames) /\ lists = two \o psq_mcast
      BY <2>1
    <3> HIDE DEF two, lists
    <3>2. Range(two \o psq_mcast) = Range(two) \cup Range(psq_mcast)
      BY <1>t, <3>1, RangeConcat
    <3> QED BY <3>1, <3>2 DEF two
  <2>4. Range(psq_data \o psq_mgmt) = D \cup M
    BY <1>t, RangeConcat
  <2> QED BY <2>1, <2>2, <2>3, <2>4
<1>2. /\ IsFiniteSet(D) /\ IsFiniteSet(M) /\ IsFiniteSet(C)
      /\ Cardinality(D) = Len(psq_data) /\ Cardinality(M) = Len(psq_mgmt)
      /\ Cardinality(C) = Len(psq_mcast)
  BY <1>t, DistinctCount DEF PlaceInv, QueuesDistinct
<1>3. IsFiniteSet(hands) /\ Cardinality(hands) = Cardinality(H)
  <2> DEFINE g == [c \in H |-> hand[c]]
  <2>1. IsFiniteSet(H)
    <3>1. IsFiniteSet({"snd", "mgr"} \cup {"rx"})
      <4>1. IsFiniteSet({"snd"} \cup {"mgr"}) /\ {"snd"} \cup {"mgr"} = {"snd", "mgr"}
        BY FS_Singleton, FS_Union
      <4> QED BY <4>1, FS_Singleton, FS_Union
    <3>2. Contexts = {"snd", "mgr"} \cup {"rx"} /\ H \in SUBSET Contexts
      BY DEF Contexts
    <3> HIDE DEF H
    <3> QED BY <3>1, <3>2, FS_Subset
  <2>2. \A c, d \in H : hand[c] = hand[d] => c = d
    <3>1. \A c \in H : c \in Places /\ hand[c] \in At(c)
      BY AtPlaces
    <3> QED BY <3>1 DEF PlaceInv, InOnePlace
  <2>3. g \in Bijection(H, hands)
    BY <1>t, <2>2 DEF Bijection, Injection, Surjection, IsInjective
  <2>4. ExistsBijection(H, hands)
    BY <2>3 DEF ExistsBijection
  <2> HIDE DEF H, hands
  <2> QED BY <2>1, <2>4, FS_Bijection
<1>4. hands = UNION {At(c) : c \in Contexts}
  BY AtPlaces
<1>5. D \cup M \cup C \cup hands \cup gone = 1 .. given
  <2>1. Places = {"data", "mgmt", "mcast", "gone"} \cup Contexts
    BY DEF Places, Contexts
  <2>2. UNION {At(p) : p \in Places} =
          At("data") \cup At("mgmt") \cup At("mcast") \cup At("gone")
            \cup UNION {At(c) : c \in Contexts}
    BY <2>1
  <2> HIDE DEF hands
  <2> QED BY <1>4, <2>2, AtPlaces DEF PlaceInv, InOnePlace
<1>6. /\ D \cap M = {} /\ (D \cup M) \cap C = {} /\ (D \cup M \cup C) \cap hands = {}
      /\ (D \cup M \cup C \cup hands) \cap gone = {}
  <2>1. \A c \in Contexts : c \in Places /\ c \notin {"data", "mgmt", "mcast", "gone"}
    BY DEF Places, Contexts
  <2>2. /\ \A p \in {"data", "mgmt", "mcast", "gone"} : p \in Places
        /\ \A p, r \in Places : p # r => At(p) \cap At(r) = {}
    BY DEF Places, PlaceInv, InOnePlace
  <2>3. /\ D = At("data") /\ M = At("mgmt") /\ C = At("mcast") /\ gone = At("gone")
    BY AtPlaces
  <2> HIDE DEF D, M, C, hands
  <2>4. /\ D \cap M = {} /\ D \cap C = {} /\ M \cap C = {}
        /\ D \cap gone = {} /\ M \cap gone = {} /\ C \cap gone = {}
    BY <2>2, <2>3
  <2>5. /\ D \cap hands = {} /\ M \cap hands = {} /\ C \cap hands = {} /\ gone \cap hands = {}
    BY <1>4, <2>1, <2>2, <2>3
  <2> QED BY <2>4, <2>5
<1>7. IsFiniteSet(1 .. given) /\ Cardinality(1 .. given) = given
  BY <1>t, FS_Interval
<1> HIDE DEF D, M, C, hands, H, lists
<1>8. IsFiniteSet(gone)
  BY <1>5, <1>7, FS_Subset
<1>9. /\ IsFiniteSet(D \cup M) /\ Cardinality(D \cup M) = Cardinality(D) + Cardinality(M)
  BY <1>2, <1>6, DisjointCount
<1>10. /\ IsFiniteSet(D \cup M \cup C)
       /\ Cardinality(D \cup M \cup C) = Cardinality(D \cup M) + Cardinality(C)
  BY <1>2, <1>6, <1>9, DisjointCount
<1>11. /\ IsFiniteSet(D \cup M \cup C \cup hands)
       /\ Cardinality(D \cup M \cup C \cup hands) = Cardinality(D \cup M \cup C) + Cardinality(hands)
  BY <1>3, <1>6, <1>10, DisjointCount
<1>12. Cardinality(D \cup M \cup C \cup hands \cup gone)
         = Cardinality(D \cup M \cup C \cup hands) + Cardinality(gone)
  BY <1>6, <1>8, <1>11, DisjointCount
<1>13. Range(lists) \cup hands \cup gone = 1 .. given
  BY <1>1, <1>5
<1>14. Len(lists) + Cardinality(H) + Cardinality(gone) = given
  BY <1>1, <1>2, <1>3, <1>5, <1>7, <1>9, <1>10, <1>11, <1>12
<1> QED BY <1>13, <1>14 DEF FramesAccounted, lists, hands, H

\* Through queueing, polls, triggers, flushes, aging, DTIM bursts and purges by
\* several contexts, every frame the driver accepted for the station or for
\* multicast is waiting, in one context's hand, or sent or freed, once: none
\* is lost and no skb is freed twice.
THEOREM FramesAccountedHolds == Spec => []FramesAccounted
BY InitPlace, PlaceInvStep, PlacesCounted, TypeInvariant, PTL DEF Spec
=============================================================================
