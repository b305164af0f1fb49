---------------------------- MODULE HtcTxProofs ----------------------------
(***************************************************************************)
(* The first theorems of the HTC transmit path, for every number of        *)
(* threads, packets, endpoints and credits: types, one drainer per         *)
(* endpoint, no more data credits committed than the target announced, the *)
(* control credit cap, and no control packet forgotten without a credit.   *)
(***************************************************************************)
EXTENDS HtcTx, FiniteSetTheorems, TLAPS

-----------------------------------------------------------------------------
(* Facts about the helpers *)

\* DataPrio lists data endpoints, and each of them is an endpoint.
LEMMA DataEpsAreEps ==
  /\ Len(DataPrio) \in Nat
  /\ \A i \in 1..Len(DataPrio) : DataPrio[i] \in DataEps
  /\ DataEps \subseteq Eps
  /\ CtrlEp \in Eps
  /\ \A i \in 1..Len(DataPrio) : DataPrio[i] # CtrlEp
BY ConstantsOK DEF ConstantsOK, DataEps, Eps

\* A packet always costs a positive whole number of credits.
LEMMA CreditsRequiredType ==
  ASSUME NEW p \in Packets
  PROVE  CreditsRequired(p) \in Nat
<1>1. \A a \in Nat, b \in Nat \ {0} : a \div b \in Nat
  OBVIOUS
<1>2. PktLen[p] \in Nat /\ TgtCredSz \in Nat \ {0}
  BY ConstantsOK DEF ConstantsOK
<1>3. PktLen[p] \div TgtCredSz \in Nat
  BY <1>1, <1>2
<1> QED
  BY <1>3 DEF CreditsRequired

\* The calls that htc_tx_completion and htc_process_credit_report line up are
\* well formed.
LEMMA StarvingCallsType ==
  ASSUME NEW e
  PROVE  StarvingCalls(e) \in Seq(Calls)
BY DataEpsAreEps DEF StarvingCalls, Calls

LEMMA CallType ==
  ASSUME NEW how \in {"skip", "starving", "try", "pick"}, NEW e \in Eps
  PROVE  Call(how, e) \in Seq(Calls)
BY DEF Call, Calls

LEMMA ToSetType ==
  ASSUME NEW S, NEW s \in Seq(S)
  PROVE  ToSet(s) \subseteq S
BY DEF ToSet

\* Queue operations stay within sequences over the same set of packets.
LEMMA SeqOps ==
  ASSUME NEW S, NEW s \in Seq(S)
  PROVE  /\ \A x \in S : Append(s, x) \in Seq(S)
         /\ \A r \in Seq(S) : s \o r \in Seq(S)
         /\ s # <<>> => Head(s) \in S /\ Tail(s) \in Seq(S)
         /\ <<>> \in Seq(S)
OBVIOUS

\* Returning from htc_try_send keeps the types of the locals it resets.
LEMMA ReturnType ==
  ASSUME TypeControl, NEW t \in Threads, NEW next \in Seq(Calls),
         Return(t, next)
  PROVE  TypeControl'
BY DataEpsAreEps DEF TypeControl, Return, PCs

-----------------------------------------------------------------------------
(* Type correctness *)

\* The state after ath6kl_htc_pipe_wait_target is well typed.
LEMMA InitTypeOK == Init => TypeOK
<1> SUFFICES ASSUME Init PROVE TypeOK
  OBVIOUS
<1> USE ConstantsOK, DataEpsAreEps DEF Init
<1>1. TypeQueues
  BY DEF TypeQueues
<1>2. TypeCredits
  BY DEF TypeCredits, ConstantsOK
<1>3. TypeFlags
  BY DEF TypeFlags
<1>4. TypeLocals
  BY DEF TypeLocals
<1>5. TypeControl
  BY DEF TypeControl, PCs
<1> QED
  BY <1>1, <1>2, <1>3, <1>4, <1>5 DEF TypeOK

\* What a thread's locals index is well typed.
LEMMA LocalsType ==
  ASSUME TypeOK, NEW t \in Threads
  PROVE  /\ ep[t] \in Eps
         /\ PipeOf(ep[t]) \in Pipes
         /\ todo[t] \in Seq(Calls)
         /\ send_queue[t] \in Seq(Packets)
         /\ packet[t] \in Packets \cup {NoPkt}
         /\ txq[ep[t]] \in Seq(Packets)
         /\ urb_cnt[PipeOf(ep[t])] \in Nat
         /\ <<>> \in Seq(Calls)
<1>1. ep[t] \in Eps /\ todo[t] \in Seq(Calls)
  BY DEF TypeOK, TypeControl
<1>2. PipeOf(ep[t]) \in Pipes
  BY DEF PipeOf, Pipes
<1>3. urb_cnt[PipeOf(ep[t])] \in Nat
  BY <1>2 DEF TypeOK, TypeCredits
<1>4. send_queue[t] \in Seq(Packets) /\ packet[t] \in Packets \cup {NoPkt}
  BY DEF TypeOK, TypeLocals
<1>5. txq[ep[t]] \in Seq(Packets)
  BY <1>1 DEF TypeOK, TypeQueues
<1> QED
  BY <1>1, <1>2, <1>3, <1>4, <1>5

-----------------------------------------------------------------------------
(* The types are not inductive by themselves: a packet is appended to a queue
   because the caller has one, taken from one because it is not empty. *)

PktsOf(e) == {p \in Packets : PktEp[p] = e}

\* Which locals of thread t hold something at which point of htc_try_send, and
\* that packets stay on the queues of their own endpoint.
LocalsOf(t) ==
  /\ pc[t] \in {"schedq", "depth", "submit"} => packet[t] \in PktsOf(ep[t])
  /\ pc[t] \notin {"schedq", "depth", "submit"} => packet[t] = NoPkt
  /\ pc[t] \notin {"read", "enter", "get", "issue", "submit"}
       => send_queue[t] = <<>>
  /\ pc[t] = "issue" => send_queue[t] # <<>>
  /\ pc[t] = "call" => todo[t] # <<>>
  /\ send_queue[t] \in Seq(PktsOf(ep[t]))

LocalsOK == \A t \in Threads : LocalsOf(t)

HomeOK == \A e \in Eps : txq[e] \in Seq(PktsOf(e))

TypeInv == TypeOK /\ LocalsOK /\ HomeOK

\* A step that changes only the locals of t disturbs only LocalsOf(t).
LEMMA OtherLocals ==
  ASSUME LocalsOK, NEW t \in Threads, LocalsOf(t)',
         \A u \in Threads \ {t} :
           /\ pc'[u] = pc[u] /\ ep'[u] = ep[u] /\ todo'[u] = todo[u]
           /\ packet'[u] = packet[u] /\ send_queue'[u] = send_queue[u]
  PROVE  LocalsOK'
<1> SUFFICES ASSUME NEW u \in Threads, u # t PROVE LocalsOf(u)'
  BY DEF LocalsOK
<1>1. LocalsOf(u)
  BY DEF LocalsOK
<1>2. /\ pc'[u] = pc[u] /\ ep'[u] = ep[u] /\ todo'[u] = todo[u]
      /\ packet'[u] = packet[u] /\ send_queue'[u] = send_queue[u]
  OBVIOUS
<1> QED
  BY <1>1, <1>2 DEF LocalsOf, PktsOf

\* A thread with nothing in hand.
LEMMA EmptyHanded ==
  ASSUME NEW t \in Threads, send_queue'[t] = <<>>, packet'[t] = NoPkt,
         \/ pc'[t] \in {"get", "relock", "idle"}
         \/ pc'[t] = "call" /\ todo'[t] # <<>>
  PROVE  LocalsOf(t)'
BY DEF LocalsOf

\* A queue replaced by packets of its own endpoint leaves every queue at home.
LEMMA HomeUpdate ==
  ASSUME TypeQueues, HomeOK, NEW e \in Eps, NEW s \in Seq(PktsOf(e)),
         txq' = [txq EXCEPT ![e] = s]
  PROVE  HomeOK'
<1> SUFFICES ASSUME NEW d \in Eps PROVE txq'[d] \in Seq(PktsOf(d))
  BY DEF HomeOK, PktsOf
<1>1. txq'[d] = IF d = e THEN s ELSE txq[d]
  BY DEF TypeQueues
<1> QED
  BY <1>1 DEF HomeOK

\* SchedQueue queues or refuses the caller's packet.
LEMMA SchedQueueTypeInv ==
  ASSUME TypeInv, NEW t \in Threads, SchedQueue(t)
  PROVE  TypeInv'
<1> USE DEF SchedQueue
<1>1. packet[t] \in PktsOf(ep[t]) /\ send_queue[t] = <<>>
  BY DEF TypeInv, LocalsOK, LocalsOf
<1>2. /\ ep[t] \in Eps /\ txq[ep[t]] \in Seq(Packets) /\ <<>> \in Seq(Calls)
      /\ txq[ep[t]] \in Seq(PktsOf(ep[t])) /\ packet[t] \in Packets
  BY <1>1, LocalsType DEF TypeInv, PktsOf, HomeOK
<1>q. /\ Append(txq[ep[t]], packet[t]) \in Seq(Packets)
      /\ Append(txq[ep[t]], packet[t]) \in Seq(PktsOf(ep[t]))
  BY <1>1, <1>2, SeqOps
<1>3. TypeQueues'
  BY <1>q, <1>2 DEF TypeInv, TypeOK, TypeQueues, hifVars
<1>4. TypeCredits' /\ TypeFlags' /\ TypeLocals'
  BY DEF TypeInv, TypeOK, TypeCredits, TypeFlags, TypeLocals, hifVars
<1>5. TypeControl'
  <2>1. CASE StarvingPrevention
    BY <2>1 DEF TypeInv, TypeOK, TypeControl, PCs
  <2>2. CASE ~StarvingPrevention
    BY <2>2, <1>2, ReturnType DEF TypeInv, TypeOK
  <2> QED BY <2>1, <2>2
<1>6. HomeOK'
  BY <1>q, <1>2 DEF TypeInv, HomeOK, PktsOf, TypeOK, TypeQueues
<1>7. LocalsOf(t)'
  BY <1>1, <1>2 DEF LocalsOf, Return, TypeInv, TypeOK, TypeControl, TypeLocals
<1>8. LocalsOK'
  BY <1>7, OtherLocals DEF Return, TypeInv, TypeOK, TypeControl, TypeLocals
<1> QED
  BY <1>3, <1>4, <1>5, <1>6, <1>8 DEF TypeInv, TypeOK

\* SetStarving writes only the flag of its endpoint.
LEMMA SetStarvingTypeInv ==
  ASSUME TypeInv, NEW t \in Threads, SetStarving(t)
  PROVE  TypeInv'
<1> USE DEF SetStarving
<1>1. /\ ep[t] \in Eps /\ <<>> \in Seq(Calls)
      /\ packet[t] = NoPkt /\ send_queue[t] = <<>>
  BY LocalsType DEF TypeInv, LocalsOK, LocalsOf
<1>2. TypeQueues' /\ TypeCredits' /\ TypeLocals'
  BY DEF TypeInv, TypeOK, TypeQueues, TypeCredits, TypeLocals, hifVars
<1>3. TypeFlags'
  BY <1>1 DEF TypeInv, TypeOK, TypeFlags
<1>4. TypeControl'
  BY <1>1, ReturnType DEF TypeInv, TypeOK
<1>5. HomeOK'
  BY DEF TypeInv, HomeOK, PktsOf
<1>6. LocalsOf(t)'
  BY <1>1 DEF LocalsOf, Return, TypeInv, TypeOK, TypeControl, TypeLocals
<1>7. LocalsOK'
  BY <1>6, OtherLocals DEF Return, TypeInv, TypeOK, TypeControl, TypeLocals
<1> QED
  BY <1>2, <1>3, <1>4, <1>5, <1>7 DEF TypeInv, TypeOK

\* CheckDepth puts the caller's packet on the local send queue, or refuses it.
LEMMA CheckDepthTypeInv ==
  ASSUME TypeInv, NEW t \in Threads, CheckDepth(t)
  PROVE  TypeInv'
<1> USE DEF CheckDepth
<1>1. packet[t] \in PktsOf(ep[t]) /\ send_queue[t] = <<>>
  BY DEF TypeInv, LocalsOK, LocalsOf
<1>2. /\ ep[t] \in Eps /\ <<>> \in Seq(Calls) /\ packet[t] \in Packets
      /\ ReadFirst("read", "enter") \in {"read", "enter"}
  BY <1>1, LocalsType DEF TypeInv, PktsOf, ReadFirst
<1>q. /\ <<packet[t]>> \in Seq(Packets)
      /\ <<packet[t]>> \in Seq(PktsOf(ep[t]))
  BY <1>1, <1>2
<1>3. TypeQueues' /\ TypeCredits' /\ TypeFlags'
  BY <1>2 DEF TypeInv, TypeOK, TypeQueues, TypeCredits, TypeFlags, hifVars,
              lockVars
<1>4. TypeLocals'
  BY <1>q DEF TypeInv, TypeOK, TypeLocals
<1>5. TypeControl'
  <2>1. CASE /\ pc' = [pc EXCEPT ![t] = ReadFirst("read", "enter")]
             /\ UNCHANGED <<ep, tx_resources, todo, st_try, st_get>>
    BY <2>1, <1>2 DEF TypeInv, TypeOK, TypeControl, PCs
  <2>2. CASE Return(t, <<>>)
    BY <2>2, <1>2, ReturnType DEF TypeInv, TypeOK
  <2> QED BY <2>1, <2>2
<1>6. HomeOK'
  BY DEF TypeInv, HomeOK, PktsOf, lockVars
<1>7. LocalsOf(t)'
  <2>1. CASE /\ pc' = [pc EXCEPT ![t] = ReadFirst("read", "enter")]
             /\ UNCHANGED ep
             /\ send_queue' = [send_queue EXCEPT ![t] = <<packet[t]>>]
    <3>1. send_queue'[t] = <<packet[t]>> /\ ep'[t] = ep[t]
          /\ pc'[t] \in {"read", "enter"} /\ packet'[t] = NoPkt
      BY <2>1, <1>2 DEF TypeInv, TypeOK, TypeControl, TypeLocals
    <3> QED
      BY <3>1, <1>q DEF LocalsOf, PktsOf
  <2>2. CASE Return(t, <<>>) /\ UNCHANGED send_queue
    BY <2>2, <1>1 DEF LocalsOf, Return, TypeInv, TypeOK, TypeControl, TypeLocals
  <2> QED BY <2>1, <2>2
<1>8. LocalsOK'
  BY <1>7, OtherLocals DEF Return, TypeInv, TypeOK, TypeControl, TypeLocals
<1> QED
  BY <1>3, <1>4, <1>5, <1>6, <1>8 DEF TypeInv, TypeOK

\* NextCall turns to the next endpoint to try.
LEMMA NextCallTypeInv ==
  ASSUME TypeInv, NEW t \in Threads, NextCall(t)
  PROVE  TypeInv'
<1> USE DEF NextCall
<1>1. todo[t] # <<>> /\ packet[t] = NoPkt /\ send_queue[t] = <<>>
  BY DEF TypeInv, LocalsOK, LocalsOf
<1>2. /\ todo[t] \in Seq(Calls) /\ Tail(todo[t]) \in Seq(Calls)
      /\ Head(todo[t]) \in Calls /\ <<>> \in Seq(Calls)
  BY <1>1, LocalsType, SeqOps DEF TypeInv
<1>3. Head(todo[t]).ep \in Eps
  BY <1>2 DEF Calls
<1>4. ReadFirst("read", "enter") \in {"read", "enter"}
  BY DEF ReadFirst
<1>5. \A i \in 1..Len(DataPrio) : Call("try", DataPrio[i]) \in Seq(Calls)
  BY DataEpsAreEps, CallType
<1>6. TypeQueues' /\ TypeCredits' /\ TypeFlags' /\ TypeLocals'
  BY DEF TypeInv, TypeOK, TypeQueues, TypeCredits, TypeFlags, TypeLocals,
         hifVars, lockVars
<1>7. HomeOK'
  BY DEF TypeInv, HomeOK, PktsOf, lockVars
<1>8. CASE /\ ep' = [ep EXCEPT ![t] = Head(todo[t]).ep]
           /\ todo' = [todo EXCEPT ![t] = Tail(todo[t])]
           /\ pc' = [pc EXCEPT ![t] = ReadFirst("read", "enter")]
           /\ UNCHANGED <<tx_resources, st_try, st_get>>
  <2>1. TypeControl'
    BY <1>2, <1>3, <1>4, <1>8 DEF TypeInv, TypeOK, TypeControl, PCs
  <2>2. LocalsOf(t)'
    <3>1. pc'[t] \in {"read", "enter"}
      BY <1>4, <1>8 DEF TypeInv, TypeOK, TypeControl
    <3> QED
      BY <3>1, <1>1 DEF LocalsOf
  <2>3. LocalsOK'
    BY <1>8, <2>2, OtherLocals DEF TypeInv, TypeOK, TypeControl
  <2> QED
    BY <1>6, <1>7, <2>1, <2>3 DEF TypeInv, TypeOK
<1>9. ASSUME NEW next \in Seq(Calls), Return(t, next)
      PROVE  TypeInv'
  <2>1. TypeControl'
    BY <1>9, ReturnType DEF TypeInv, TypeOK
  <2>2. LocalsOf(t)'
    BY <1>1, <1>9 DEF LocalsOf, Return, TypeInv, TypeOK, TypeControl
  <2>3. LocalsOK'
    BY <1>9, <2>2, OtherLocals DEF Return, TypeInv, TypeOK, TypeControl
  <2> QED
    BY <1>6, <1>7, <2>1, <2>3 DEF TypeInv, TypeOK
<1> QED
  BY <1>2, <1>5, <1>8, <1>9

\* Enter moves the local send queue to txq.
LEMMA EnterTypeInv ==
  ASSUME TypeInv, NEW t \in Threads, Enter(t)
  PROVE  TypeInv'
<1> USE DEF Enter, AnotherDrains, Spliced
<1>1. packet[t] = NoPkt /\ send_queue[t] \in Seq(PktsOf(ep[t]))
  BY DEF TypeInv, LocalsOK, LocalsOf
<1>2. /\ ep[t] \in Eps /\ todo[t] \in Seq(Calls)
      /\ send_queue[t] \in Seq(Packets) /\ txq[ep[t]] \in Seq(Packets)
      /\ txq[ep[t]] \in Seq(PktsOf(ep[t]))
  BY LocalsType DEF TypeInv, HomeOK
<1>b. starving[ep[t]] \in BOOLEAN
  BY <1>2 DEF TypeInv, TypeOK, TypeFlags
<1>q. /\ txq[ep[t]] \o send_queue[t] \in Seq(Packets)
      /\ txq[ep[t]] \o send_queue[t] \in Seq(PktsOf(ep[t]))
  BY <1>1, <1>2, SeqOps
<1>3. TypeQueues'
  BY <1>q, <1>2 DEF TypeInv, TypeOK, TypeQueues, hifVars
<1>4. TypeCredits' /\ TypeFlags' /\ TypeLocals'
  BY DEF TypeInv, TypeOK, TypeCredits, TypeFlags, TypeLocals, hifVars
<1>5. TypeControl'
  <2>1. CASE tx_proc_cnt[ep[t]] > 0
    BY <2>1, <1>2, ReturnType DEF TypeInv, TypeOK, TypeQueues
  <2>2. CASE tx_proc_cnt[ep[t]] = 0
    <3>1. /\ st_try' = [st_try EXCEPT ![t] = starving[ep[t]]]
          /\ st_get' = [st_get EXCEPT ![t] = starving[ep[t]]]
          /\ pc' = [pc EXCEPT ![t] = "get"]
          /\ UNCHANGED <<ep, tx_resources, todo>>
      BY <2>2
    <3>2. st_try' \in [Threads -> BOOLEAN] /\ st_get' \in [Threads -> BOOLEAN]
      BY <3>1, <1>b DEF TypeInv, TypeOK, TypeControl
    <3> QED
      BY <3>1, <3>2 DEF TypeInv, TypeOK, TypeControl, PCs
  <2> QED
    BY <2>1, <2>2, <1>2 DEF TypeInv, TypeOK, TypeQueues
<1>6. HomeOK'
  BY <1>q, <1>2, HomeUpdate DEF TypeInv, TypeOK
<1>7. LocalsOf(t)'
  <2>1. /\ send_queue'[t] = <<>> /\ packet'[t] = NoPkt
    BY <1>1 DEF TypeInv, TypeOK, TypeLocals
  <2>2. CASE tx_proc_cnt[ep[t]] > 0
    <3>1. \/ todo'[t] # <<>> /\ pc'[t] = "call"
          \/ pc'[t] = "idle"
      BY <2>2, <1>2 DEF Return, TypeInv, TypeOK, TypeControl
    <3> QED
      BY <2>1, <3>1, EmptyHanded
  <2>3. CASE tx_proc_cnt[ep[t]] = 0
    <3>1. pc'[t] = "get"
      BY <2>3 DEF TypeInv, TypeOK, TypeControl
    <3> QED
      BY <2>1, <3>1, EmptyHanded
  <2> QED
    BY <2>2, <2>3, <1>2 DEF TypeInv, TypeOK, TypeQueues
<1>8. LocalsOK'
  BY <1>7, OtherLocals DEF Return, TypeInv, TypeOK, TypeControl, TypeLocals
<1> QED
  BY <1>3, <1>4, <1>5, <1>6, <1>8 DEF TypeInv, TypeOK

\* GetPacket takes the head of txq: the credits and URBs it spends are there.
LEMMA GetPacketTypeInv ==
  ASSUME TypeInv, NEW t \in Threads, GetPacket(t)
  PROVE  TypeInv'
<1> DEFINE e == ep[t]
           p == Head(txq[e])
           need == CreditsRequired(p)
<1>1. /\ e \in Eps /\ txq[e] # <<>> /\ txq[e] \in Seq(Packets)
      /\ txq[e] \in Seq(PktsOf(e))
      /\ send_queue[t] \in Seq(Packets) /\ send_queue[t] \in Seq(PktsOf(e))
  BY LocalsType DEF TypeInv, HomeOK, LocalsOK, LocalsOf, GetPacket, CanTake
<1>2. /\ p \in PktsOf(e) /\ p \in Packets
      /\ Tail(txq[e]) \in Seq(Packets) /\ Tail(txq[e]) \in Seq(PktsOf(e))
      /\ Append(send_queue[t], p) \in Seq(Packets)
      /\ Append(send_queue[t], p) \in Seq(PktsOf(e))
  BY <1>1, SeqOps DEF PktsOf
<1>3. need \in Nat
  BY <1>2, CreditsRequiredType
<1>4. /\ txq' = [txq EXCEPT ![e] = Tail(txq[e])]
      /\ send_queue' = [send_queue EXCEPT ![t] = Append(send_queue[t], p)]
      /\ UNCHANGED <<tx_lock, tx_proc_cnt, ctl_ep_wd_timer, tx_lookup_queue,
                     upper, urb_cnt, bus, io_comp_queue, tgt_data, tgt_ctl, pc,
                     ep, packet, st_try, st_get, todo>>
  BY DEF GetPacket, hifVars
<1>5. /\ cred_used' \in [Packets -> Nat]
      /\ avail_tx_credits' \in Nat /\ ctl_credits' \in Nat
      /\ tx_resources' \in [Threads -> Nat]
  <2>0. /\ avail_tx_credits \in Nat /\ ctl_credits \in Nat
        /\ cred_used \in [Packets -> Nat] /\ tx_resources \in [Threads -> Nat]
    BY DEF TypeInv, TypeOK, TypeCredits, TypeControl
  <2>1. CASE CreditFlow
    <3>1. /\ cred_used' = [cred_used EXCEPT ![p] = need]
          /\ tx_resources' = tx_resources
          /\ \/ /\ ctl_credits >= need /\ ctl_credits' = ctl_credits - need
                /\ avail_tx_credits' = avail_tx_credits
             \/ /\ avail_tx_credits >= need
                /\ avail_tx_credits' = avail_tx_credits - need
                /\ ctl_credits' = ctl_credits
      BY <2>1, Zenon DEF GetPacket, CanTake, HasCredits, Pool, Spend
    <3> QED
      BY <3>1, <2>0, <1>2, <1>3, SMTT(30)
  <2>2. CASE ~CreditFlow
    <3>1. /\ cred_used' = [cred_used EXCEPT ![p] = 0]
          /\ tx_resources[t] > 0
          /\ tx_resources' = [tx_resources EXCEPT ![t] = tx_resources[t] - 1]
          /\ avail_tx_credits' = avail_tx_credits /\ ctl_credits' = ctl_credits
      BY <2>2, Zenon DEF GetPacket, CanTake, HasCredits, Pool, Spend
    <3> QED
      BY <3>1, <2>0, <1>2
  <2> QED BY <2>1, <2>2
<1>6. TypeQueues' /\ TypeLocals'
  BY <1>1, <1>2, <1>4 DEF TypeInv, TypeOK, TypeQueues, TypeLocals
<1>7. TypeCredits'
  BY <1>4, <1>5 DEF TypeInv, TypeOK, TypeCredits
<1>8. TypeFlags'
  BY <1>1, <1>4 DEF GetPacket, Spend, TypeInv, TypeOK, TypeFlags
<1>9. TypeControl'
  BY <1>4, <1>5 DEF TypeInv, TypeOK, TypeControl
<1>10. HomeOK'
  BY <1>1, <1>2, <1>4, HomeUpdate DEF TypeInv, TypeOK
<1>11. LocalsOf(t)'
  <2>1. /\ send_queue'[t] = Append(send_queue[t], p)
        /\ pc'[t] = "get" /\ ep'[t] = e /\ packet'[t] = NoPkt
    BY <1>4 DEF GetPacket, TypeInv, TypeOK, TypeLocals, LocalsOK, LocalsOf
  <2> QED
    BY <2>1, <1>2 DEF LocalsOf, PktsOf
<1>12. LocalsOK'
  BY <1>4, <1>11, OtherLocals DEF TypeInv, TypeOK, TypeLocals
<1> QED
  BY <1>6, <1>7, <1>8, <1>9, <1>10, <1>12 DEF TypeInv, TypeOK

\* GetDone ends the loop and drops the lock.
LEMMA GetDoneTypeInv ==
  ASSUME TypeInv, NEW t \in Threads, GetDone(t)
  PROVE  TypeInv'
<1> USE DEF GetDone
<1>1. packet[t] = NoPkt /\ send_queue[t] \in Seq(PktsOf(ep[t]))
  BY DEF TypeInv, LocalsOK, LocalsOf
<1>2. ep[t] \in Eps /\ todo[t] \in Seq(Calls)
  BY LocalsType DEF TypeInv
<1>3. TypeQueues'
  BY <1>2 DEF TypeInv, TypeOK, TypeQueues, hifVars
<1>4. TypeCredits' /\ TypeLocals'
  BY DEF TypeInv, TypeOK, TypeCredits, TypeLocals, hifVars
<1>f. TypeFlags'
  BY Zenon DEF TypeInv, TypeOK, TypeFlags
<1>5. TypeControl'
  <2>1. CASE send_queue[t] = <<>>
    BY <2>1, <1>2, ReturnType DEF TypeInv, TypeOK
  <2>2. CASE send_queue[t] # <<>>
    BY <2>2 DEF TypeInv, TypeOK, TypeControl, PCs
  <2> QED BY <2>1, <2>2
<1>6. HomeOK'
  BY DEF TypeInv, HomeOK, PktsOf
<1>7. LocalsOf(t)'
  <2>1. CASE send_queue[t] = <<>>
    BY <2>1, <1>1, <1>2 DEF LocalsOf, Return, TypeInv, TypeOK, TypeControl
  <2>2. CASE send_queue[t] # <<>>
    <3>1. pc'[t] = "issue" /\ ep'[t] = ep[t]
      BY <2>2 DEF TypeInv, TypeOK, TypeControl
    <3> QED
      BY <3>1, <2>2, <1>1 DEF LocalsOf, PktsOf
  <2> QED BY <2>1, <2>2
<1>8. LocalsOK'
  BY <1>7, OtherLocals DEF Return, TypeInv, TypeOK, TypeControl
<1> QED
  BY <1>3, <1>4, <1>f, <1>5, <1>6, <1>8 DEF TypeInv, TypeOK

\* Relock takes the lock again, or leaves.
LEMMA RelockTypeInv ==
  ASSUME TypeInv, NEW t \in Threads, Relock(t)
  PROVE  TypeInv'
<1> USE DEF Relock
<1>1. packet[t] = NoPkt /\ send_queue[t] = <<>>
  BY DEF TypeInv, LocalsOK, LocalsOf
<1>2. ep[t] \in Eps /\ todo[t] \in Seq(Calls)
  BY LocalsType DEF TypeInv
<1>b. starving[ep[t]] \in BOOLEAN
  BY <1>2 DEF TypeInv, TypeOK, TypeFlags
<1>3. TypeQueues'
  <2>1. /\ tx_lock' \in Threads \cup {NoThread}
        /\ tx_proc_cnt' \in [Eps -> Nat]
    <3>1. \/ tx_lock' = t /\ tx_proc_cnt' = tx_proc_cnt
          \/ tx_lock' = tx_lock /\ tx_proc_cnt' = [tx_proc_cnt EXCEPT ![ep[t]] = 0]
      BY Zenon
    <3> QED
      BY <3>1, <1>2 DEF TypeInv, TypeOK, TypeQueues
  <2> QED
    BY <2>1 DEF TypeInv, TypeOK, TypeQueues, hifVars
<1>4. TypeCredits' /\ TypeFlags' /\ TypeLocals'
  BY DEF TypeInv, TypeOK, TypeCredits, TypeFlags, TypeLocals, hifVars
<1>5. TypeControl'
  <2>1. CASE st_try[t]
    BY <2>1, <1>2, ReturnType DEF TypeInv, TypeOK
  <2>2. CASE ~st_try[t]
    <3>1. /\ st_get' = [st_get EXCEPT ![t] = starving[ep[t]]]
          /\ pc' = [pc EXCEPT ![t] = "get"]
          /\ UNCHANGED <<ep, tx_resources, st_try, todo>>
      BY <2>2
    <3>2. st_get' \in [Threads -> BOOLEAN]
      BY <3>1, <1>b DEF TypeInv, TypeOK, TypeControl
    <3> QED
      BY <3>1, <3>2 DEF TypeInv, TypeOK, TypeControl, PCs
  <2> QED BY <2>1, <2>2
<1>6. HomeOK'
  BY DEF TypeInv, HomeOK, PktsOf
<1>7. LocalsOf(t)'
  BY <1>1, <1>2 DEF LocalsOf, Return, TypeInv, TypeOK, TypeControl
<1>8. LocalsOK'
  BY <1>7, OtherLocals DEF Return, TypeInv, TypeOK, TypeControl
<1> QED
  BY <1>3, <1>4, <1>5, <1>6, <1>8 DEF TypeInv, TypeOK

\* ReadResources reads the free URBs of the endpoint's pipe.
LEMMA ReadResourcesTypeInv ==
  ASSUME TypeInv, NEW t \in Threads, ReadResources(t)
  PROVE  TypeInv'
<1> USE DEF ReadResources
<1>1. urb_cnt[PipeOf(ep[t])] \in Nat
  BY LocalsType DEF TypeInv
<1>2. /\ pc' = [pc EXCEPT ![t] = IF pc[t] = "read" THEN "enter" ELSE "relock"]
      /\ tx_resources' = [tx_resources EXCEPT ![t] = urb_cnt[PipeOf(ep[t])]]
      /\ UNCHANGED <<ep, packet, send_queue, st_try, st_get, todo>>
  OBVIOUS
<1>3. TypeQueues' /\ TypeCredits' /\ TypeFlags' /\ TypeLocals'
  BY DEF TypeInv, TypeOK, TypeQueues, TypeCredits, TypeFlags, TypeLocals,
         hifVars, lockVars
<1>4. TypeControl'
  BY <1>1, <1>2 DEF TypeInv, TypeOK, TypeControl, PCs
<1>5. HomeOK'
  BY DEF TypeInv, HomeOK, PktsOf, lockVars
<1>6. LocalsOf(t)'
  <2>1. LocalsOf(t)
    BY DEF TypeInv, LocalsOK
  <2>2. pc'[t] = IF pc[t] = "read" THEN "enter" ELSE "relock"
    BY <1>2 DEF TypeInv, TypeOK, TypeControl
  <2> QED
    BY <2>1, <2>2, <1>2 DEF LocalsOf, PktsOf
<1>7. LocalsOK'
  BY <1>2, <1>6, OtherLocals DEF TypeInv, TypeOK, TypeControl
<1> QED
  BY <1>3, <1>4, <1>5, <1>7 DEF TypeInv, TypeOK

\* FileLookup moves the head of the send queue to the lookup queue.
LEMMA FileLookupTypeInv ==
  ASSUME TypeInv, NEW t \in Threads, FileLookup(t)
  PROVE  TypeInv'
<1> DEFINE p == Head(send_queue[t])
<1> USE DEF FileLookup
<1>1. send_queue[t] # <<>> /\ send_queue[t] \in Seq(PktsOf(ep[t]))
  BY DEF TypeInv, LocalsOK, LocalsOf
<1>2. /\ p \in Packets /\ p \in PktsOf(ep[t])
      /\ Tail(send_queue[t]) \in Seq(Packets)
      /\ Tail(send_queue[t]) \in Seq(PktsOf(ep[t]))
  BY <1>1, LocalsType, SeqOps DEF TypeInv, PktsOf
<1>3. TypeQueues'
  BY <1>2 DEF TypeInv, TypeOK, TypeQueues, lockVars, hifVars
<1>4. TypeCredits' /\ TypeFlags'
  BY DEF TypeInv, TypeOK, TypeCredits, TypeFlags, lockVars, hifVars
<1>5. TypeLocals'
  BY <1>2 DEF TypeInv, TypeOK, TypeLocals
<1>6. TypeControl'
  BY DEF TypeInv, TypeOK, TypeControl, PCs
<1>7. HomeOK'
  BY DEF TypeInv, HomeOK, PktsOf, lockVars
<1>8. LocalsOf(t)'
  <2>1. /\ send_queue'[t] = Tail(send_queue[t]) /\ ep'[t] = ep[t]
        /\ packet'[t] = p /\ pc'[t] = "submit"
    BY DEF TypeInv, TypeOK, TypeControl, TypeLocals
  <2> QED
    BY <2>1, <1>2 DEF LocalsOf, PktsOf
<1>9. LocalsOK'
  BY <1>8, OtherLocals DEF TypeInv, TypeOK, TypeControl, TypeLocals
<1> QED
  BY <1>3, <1>4, <1>5, <1>6, <1>7, <1>9 DEF TypeInv, TypeOK

\* After a submission the next packet is filed, or htc_try_send goes on.
LEMMA IssueDoneType ==
  ASSUME TypeInv, NEW t \in Threads, NEW left \in Seq(PktsOf(ep[t])),
         IssueDone(t, left), send_queue' = [send_queue EXCEPT ![t] = left],
         UNCHANGED <<ep, todo, tx_resources, st_try, st_get>>
  PROVE  TypeLocals' /\ TypeControl' /\ LocalsOK'
<1>1. ReadFirst("reread", "relock") \in {"reread", "relock"}
  BY DEF ReadFirst
<1>2. left \in Seq(Packets)
  BY DEF PktsOf
<1>3. TypeControl'
  BY <1>1 DEF TypeInv, TypeOK, TypeControl, IssueDone, PCs
<1>4. TypeLocals'
  BY <1>2 DEF TypeInv, TypeOK, TypeLocals, IssueDone
<1>5. LocalsOf(t)'
  <2>1. /\ send_queue'[t] = left /\ ep'[t] = ep[t] /\ packet'[t] = NoPkt
        /\ left # <<>> => pc'[t] = "issue"
        /\ left = <<>> => pc'[t] \in {"reread", "relock"}
    BY <1>1 DEF IssueDone, TypeInv, TypeOK, TypeControl, TypeLocals
  <2> QED
    BY <2>1 DEF LocalsOf, PktsOf
<1>6. LocalsOK'
  BY <1>5, OtherLocals DEF IssueDone, TypeInv, TypeOK, TypeControl, TypeLocals
<1> QED
  BY <1>3, <1>4, <1>6

\* IssueOk hands the packet to the HIF.
LEMMA IssueOkTypeInv ==
  ASSUME TypeInv, NEW t \in Threads, IssueOk(t)
  PROVE  TypeInv'
<1> DEFINE e == ep[t]
           p == packet[t]
<1>1. p \in PktsOf(e) /\ send_queue[t] \in Seq(PktsOf(e))
  BY DEF TypeInv, LocalsOK, LocalsOf, IssueOk
<1>2. e \in Eps /\ PipeOf(e) \in Pipes /\ p \in Packets
  BY <1>1, LocalsType DEF TypeInv, PktsOf
<1>3. TypeQueues'
  BY <1>2 DEF IssueOk, TypeInv, TypeOK, TypeQueues
<1>4. /\ urb_cnt' = [urb_cnt EXCEPT ![PipeOf(e)] = urb_cnt[PipeOf(e)] - 1]
      /\ urb_cnt[PipeOf(e)] > 0
      /\ \/ tgt_ctl' = tgt_ctl
         \/ tgt_ctl' = MaxCtlOut
         \/ tgt_ctl' = tgt_ctl + cred_used[p]
      /\ tgt_data' = tgt_data \/ tgt_data' = tgt_data + cred_used[p]
      /\ cred_used' = [cred_used EXCEPT ![p] = 0]
      /\ avail_tx_credits' = avail_tx_credits /\ ctl_credits' = ctl_credits
  BY Zenon DEF IssueOk
<1>5. TypeCredits'
  <2>1. cred_used[p] \in Nat /\ urb_cnt[PipeOf(e)] \in Nat /\ MaxCtlOut \in Nat
    BY <1>2, ConstantsOK DEF ConstantsOK, TypeInv, TypeOK, TypeCredits
  <2>2. cred_used' \in [Packets -> Nat] /\ urb_cnt' \in [Pipes -> Nat]
    BY <1>2, <1>4, <2>1 DEF TypeInv, TypeOK, TypeCredits
  <2> QED
    BY <1>4, <2>1, <2>2 DEF TypeInv, TypeOK, TypeCredits
<1>6. TypeFlags'
  BY DEF IssueOk, TypeInv, TypeOK, TypeFlags
<1>7. TypeLocals' /\ TypeControl' /\ LocalsOK'
  <2>1. send_queue' = [send_queue EXCEPT ![t] = send_queue[t]]
    BY DEF IssueOk, TypeInv, TypeOK, TypeLocals
  <2> QED
    BY <2>1, <1>1, IssueDoneType DEF IssueOk
<1>8. HomeOK'
  BY DEF IssueOk, TypeInv, HomeOK, PktsOf
<1> QED
  BY <1>3, <1>5, <1>6, <1>7, <1>8 DEF TypeInv, TypeOK

\* IssueFail gives the packet and the whole send queue back to the upper layer.
LEMMA IssueFailTypeInv ==
  ASSUME TypeInv, NEW t \in Threads, IssueFail(t)
  PROVE  TypeInv'
<1> DEFINE e == ep[t]
           p == packet[t]
<1>1. p \in PktsOf(e) /\ send_queue[t] \in Seq(Packets)
  BY LocalsType DEF TypeInv, LocalsOK, LocalsOf, IssueFail
<1>2. p \in Packets /\ ToSet(send_queue[t]) \subseteq Packets
  BY <1>1, ToSetType DEF PktsOf
<1>3. TypeQueues'
  BY <1>2 DEF IssueFail, Failed, Unfiled, TypeInv, TypeOK, TypeQueues, hifVars
<1>4. /\ \/ ctl_credits' = ctl_credits
         \/ ctl_credits' = 1
         \/ ctl_credits' = ctl_credits + cred_used[p]
      /\ \/ avail_tx_credits' = avail_tx_credits
         \/ avail_tx_credits' = avail_tx_credits + cred_used[p]
      /\ cred_used' = [q \in Packets |->
                          IF q \in {p} \cup ToSet(send_queue[t]) THEN 0
                          ELSE cred_used[q]]
      /\ UNCHANGED <<urb_cnt, tgt_data, tgt_ctl>>
  BY Zenon DEF IssueFail, Failed, Capped, hifVars
<1>5. TypeCredits'
  <2>1. cred_used' \in [Packets -> Nat]
    BY <1>4 DEF TypeInv, TypeOK, TypeCredits
  <2> QED
    BY <1>2, <1>4, <2>1 DEF TypeInv, TypeOK, TypeCredits
<1>6. TypeFlags'
  BY Zenon DEF IssueFail, TypeInv, TypeOK, TypeFlags
<1>7. TypeLocals' /\ TypeControl' /\ LocalsOK'
  <2>1. <<>> \in Seq(PktsOf(e))
    OBVIOUS
  <2> QED
    BY <2>1, IssueDoneType DEF IssueFail
<1>8. HomeOK'
  BY DEF IssueFail, TypeInv, HomeOK, PktsOf
<1> QED
  BY <1>3, <1>5, <1>6, <1>7, <1>8 DEF TypeInv, TypeOK

\* Every step of a thread inside the layer keeps the invariant.
LEMMA InsideTypeInv ==
  ASSUME TypeInv, NEW t \in Threads, Inside(t)
  PROVE  TypeInv'
BY SchedQueueTypeInv, SetStarvingTypeInv, CheckDepthTypeInv, NextCallTypeInv,
   ReadResourcesTypeInv, EnterTypeInv, GetPacketTypeInv, GetDoneTypeInv,
   RelockTypeInv, FileLookupTypeInv, IssueOkTypeInv, IssueFailTypeInv DEF Inside

\* A new packet enters with the endpoint it belongs to.
LEMMA SendTypeInv ==
  ASSUME TypeInv, NEW t \in Threads, NEW p \in Packets, Send(t, p)
  PROVE  TypeInv'
<1> USE DEF Send
<1>1. PktEp[p] \in Eps /\ send_queue[t] = <<>>
  BY ConstantsOK DEF ConstantsOK, TypeInv, LocalsOK, LocalsOf
<1>2. TypeQueues' /\ TypeCredits' /\ TypeFlags'
  BY DEF TypeInv, TypeOK, TypeQueues, TypeCredits, TypeFlags, hifVars, lockVars
<1>3. TypeLocals'
  BY DEF TypeInv, TypeOK, TypeLocals
<1>4. TypeControl'
  <2>1. /\ pc' = [pc EXCEPT ![t] = "schedq"] \/ pc' = [pc EXCEPT ![t] = "depth"]
        /\ ep' = [ep EXCEPT ![t] = PktEp[p]]
        /\ UNCHANGED <<tx_resources, st_try, st_get, todo>>
    OBVIOUS
  <2> QED
    BY <2>1, <1>1 DEF TypeInv, TypeOK, TypeControl, PCs
<1>5. HomeOK'
  BY DEF TypeInv, HomeOK, PktsOf, lockVars
<1>6. LocalsOf(t)'
  <2>1. /\ pc'[t] \in {"schedq", "depth"} /\ packet'[t] = p
        /\ ep'[t] = PktEp[p] /\ send_queue'[t] = <<>>
    BY <1>1 DEF TypeInv, TypeOK, TypeControl, TypeLocals
  <2> QED
    BY <2>1 DEF LocalsOf, PktsOf
<1>7. LocalsOK'
  BY <1>6, OtherLocals DEF TypeInv, TypeOK, TypeControl, TypeLocals
<1> QED
  BY <1>2, <1>3, <1>4, <1>5, <1>7 DEF TypeInv, TypeOK

\* A context that starts from outside and only lines up calls of htc_try_send
\* keeps the invariant on the locals.
LEMMA EntryLocals ==
  ASSUME TypeInv, NEW t \in Threads, pc[t] = "idle", NEW next \in Seq(Calls),
         Return(t, next), UNCHANGED <<packet, send_queue>>
  PROVE  TypeLocals' /\ TypeControl' /\ LocalsOK'
<1>1. packet[t] = NoPkt /\ send_queue[t] = <<>>
  BY DEF TypeInv, LocalsOK, LocalsOf
<1>2. TypeLocals'
  BY DEF TypeInv, TypeOK, TypeLocals
<1>3. TypeControl'
  BY ReturnType DEF TypeInv, TypeOK
<1>4. LocalsOf(t)'
  BY <1>1 DEF LocalsOf, Return, TypeInv, TypeOK, TypeControl
<1>5. LocalsOK'
  BY <1>4, OtherLocals DEF Return, TypeInv, TypeOK, TypeControl
<1> QED
  BY <1>2, <1>3, <1>5

LEMMA TxCompletionTypeInv ==
  ASSUME TypeInv, NEW t \in Threads, NEW p \in Packets, TxCompletion(t, p)
  PROVE  TypeInv'
<1> USE DEF TxCompletion
<1> DEFINE last == IF CreditFlow THEN <<>>
                   ELSE Call(IF SinglePipe /\ PktEp[p] # CtrlEp THEN "pick"
                             ELSE "try", PktEp[p])
<1>1. last \in Seq(Calls)
  BY CallType, SeqOps, ConstantsOK DEF ConstantsOK
<1>2. StarvingCalls(PktEp[p]) \o last \in Seq(Calls)
  BY <1>1, StarvingCallsType, SeqOps
<1>3. TypeLocals' /\ TypeControl' /\ LocalsOK'
  BY <1>2, EntryLocals
<1>4. TypeQueues' /\ TypeCredits' /\ TypeFlags'
  BY DEF TypeInv, TypeOK, TypeQueues, TypeCredits, TypeFlags, lockVars, Unfiled
<1>5. HomeOK'
  BY DEF TypeInv, HomeOK, PktsOf, lockVars
<1> QED
  BY <1>3, <1>4, <1>5 DEF TypeInv, TypeOK

LEMMA DataCreditReportTypeInv ==
  ASSUME TypeInv, NEW t \in Threads, NEW n \in 1..TgtCreds,
         DataCreditReport(t, n)
  PROVE  TypeInv'
<1> USE DEF DataCreditReport
<1>1. PICK i \in 1..Len(DataPrio) :
        Return(t, StarvingCalls(DataPrio[i]) \o Call("try", DataPrio[i]))
  OBVIOUS
<1>2. StarvingCalls(DataPrio[i]) \o Call("try", DataPrio[i]) \in Seq(Calls)
  BY DataEpsAreEps, StarvingCallsType, CallType, SeqOps
<1>3. TypeLocals' /\ TypeControl' /\ LocalsOK'
  BY <1>1, <1>2, EntryLocals
<1>4. TypeQueues' /\ TypeFlags'
  BY DEF TypeInv, TypeOK, TypeQueues, TypeFlags
<1>5. TypeCredits'
  <2>1. /\ n <= tgt_data /\ tgt_data' = tgt_data - n
        /\ avail_tx_credits' = avail_tx_credits + n
        /\ UNCHANGED <<ctl_credits, cred_used, urb_cnt, tgt_ctl>>
    OBVIOUS
  <2>2. n \in Nat
    BY ConstantsOK DEF ConstantsOK
  <2> QED
    BY <2>1, <2>2 DEF TypeInv, TypeOK, TypeCredits
<1>6. HomeOK'
  BY DEF TypeInv, HomeOK, PktsOf
<1> QED
  BY <1>3, <1>4, <1>5, <1>6 DEF TypeInv, TypeOK

LEMMA CtrlCreditReportTypeInv ==
  ASSUME TypeInv, NEW t \in Threads, NEW n \in 1..TgtCreds,
         CtrlCreditReport(t, n)
  PROVE  TypeInv'
<1> USE DEF CtrlCreditReport
<1>1. Call("try", CtrlEp) \in Seq(Calls) /\ <<>> \in Seq(Calls)
  BY DataEpsAreEps, CallType
<1>2. TypeLocals' /\ TypeControl' /\ LocalsOK'
  BY <1>1, EntryLocals
<1>3. TypeQueues' /\ TypeFlags'
  BY DEF TypeInv, TypeOK, TypeQueues, TypeFlags
<1>4. TypeCredits'
  BY ConstantsOK DEF ConstantsOK, Capped, TypeInv, TypeOK, TypeCredits
<1>5. HomeOK'
  BY DEF TypeInv, HomeOK, PktsOf
<1> QED
  BY <1>2, <1>3, <1>4, <1>5 DEF TypeInv, TypeOK

LEMMA CtlEpTimerTypeInv ==
  ASSUME TypeInv, NEW t \in Threads, CtlEpTimer(t)
  PROVE  TypeInv'
<1> USE DEF CtlEpTimer, TimerCalls
<1>1. Call("try", CtrlEp) \in Seq(Calls)
  BY DataEpsAreEps, CallType
<1>2. TypeLocals' /\ TypeControl' /\ LocalsOK'
  BY <1>1, EntryLocals
<1>3. TypeQueues' /\ TypeFlags' /\ TypeCredits'
  BY DEF TypeInv, TypeOK, TypeQueues, TypeFlags, TypeCredits, hifVars
<1>4. HomeOK'
  BY DEF TypeInv, HomeOK, PktsOf
<1> QED
  BY <1>2, <1>3, <1>4 DEF TypeInv, TypeOK

LEMMA FlushTypeInv ==
  ASSUME TypeInv, NEW t \in Threads, NEW e \in Eps, FlushTxEndpoint(t, e)
  PROVE  TypeInv'
<1> USE DEF FlushTxEndpoint
<1>1. ToSet(txq[e]) \subseteq Packets
  BY ToSetType DEF TypeInv, TypeOK, TypeQueues
<1>2. TypeQueues'
  <2>1. <<>> \in Seq(Packets)
    OBVIOUS
  <2> QED
    BY <1>1, <2>1 DEF TypeInv, TypeOK, TypeQueues, hifVars
<1>3. TypeFlags' /\ TypeCredits' /\ TypeLocals' /\ TypeControl'
  BY DEF TypeInv, TypeOK, TypeFlags, TypeCredits, TypeLocals, TypeControl,
         hifVars, localVars
<1>4. HomeOK'
  <2>1. <<>> \in Seq(PktsOf(e)) /\ txq' = [txq EXCEPT ![e] = <<>>]
    OBVIOUS
  <2> QED
    BY <2>1, HomeUpdate DEF TypeInv, TypeOK
<1>5. LocalsOK'
  BY DEF TypeInv, LocalsOK, LocalsOf, PktsOf, localVars
<1> QED
  BY <1>2, <1>3, <1>4, <1>5 DEF TypeInv, TypeOK

LEMMA UrbCompleteTypeInv ==
  ASSUME TypeInv, NEW p \in Packets, UrbComplete(p)
  PROVE  TypeInv'
<1> USE DEF UrbComplete
<1>1. TypeQueues' /\ TypeFlags' /\ TypeLocals' /\ TypeControl'
  BY DEF TypeInv, TypeOK, TypeQueues, TypeFlags, TypeLocals, TypeControl,
         lockVars, localVars
<1>2. TypeCredits'
  BY DEF TypeInv, TypeOK, TypeCredits, lockVars, PipeOf, Pipes
<1>3. HomeOK' /\ LocalsOK'
  BY DEF TypeInv, HomeOK, LocalsOK, LocalsOf, PktsOf, lockVars, localVars
<1> QED
  BY <1>1, <1>2, <1>3 DEF TypeInv, TypeOK

LEMMA LoseCtrlCreditTypeInv ==
  ASSUME TypeInv, LoseCtrlCredit
  PROVE  TypeInv'
<1> USE DEF LoseCtrlCredit
<1>1. TypeQueues' /\ TypeFlags' /\ TypeLocals' /\ TypeControl'
  BY DEF TypeInv, TypeOK, TypeQueues, TypeFlags, TypeLocals, TypeControl,
         lockVars, localVars
<1>2. TypeCredits'
  BY DEF TypeInv, TypeOK, TypeCredits, lockVars
<1>3. HomeOK' /\ LocalsOK'
  BY DEF TypeInv, HomeOK, LocalsOK, LocalsOf, PktsOf, lockVars, localVars
<1> QED
  BY <1>1, <1>2, <1>3 DEF TypeInv, TypeOK

LEMMA StutterTypeInv ==
  ASSUME TypeInv, UNCHANGED vars
  PROVE  TypeInv'
BY DEF TypeInv, TypeOK, TypeQueues, TypeCredits, TypeFlags, TypeLocals,
       TypeControl, HomeOK, LocalsOK, LocalsOf, PktsOf, vars, lockVars, hifVars,
       localVars

LEMMA InitTypeInv == Init => TypeInv
<1> SUFFICES ASSUME Init PROVE TypeInv
  OBVIOUS
<1>1. HomeOK /\ LocalsOK
  BY DEF Init, HomeOK, LocalsOK, LocalsOf
<1> QED
  BY <1>1, InitTypeOK DEF TypeInv

LEMMA NextTypeInv == TypeInv /\ [Next]_vars => TypeInv'
<1> SUFFICES ASSUME TypeInv, [Next]_vars PROVE TypeInv'
  OBVIOUS
<1>1. Senders \subseteq Threads /\ Workers \subseteq Threads
      /\ Timers \subseteq Threads
  BY DEF Threads
<1> QED
  BY <1>1, InsideTypeInv, SendTypeInv, FlushTypeInv, UrbCompleteTypeInv,
     TxCompletionTypeInv, DataCreditReportTypeInv, CtrlCreditReportTypeInv,
     LoseCtrlCreditTypeInv, CtlEpTimerTypeInv, StutterTypeInv DEF Next

\* For every number of threads, packets, endpoints and credits: the credit and
\* URB counters of the transmit path never go negative and its queues hold only
\* packets.
THEOREM TypeCorrect == Spec => []TypeOK
<1>1. TypeInv => TypeOK
  BY DEF TypeInv
<1> QED
  BY <1>1, InitTypeInv, NextTypeInv, PTL DEF Spec

-----------------------------------------------------------------------------
(* One drainer per endpoint.  SingleDrainer is inductive once the types are
   known: the count is the number of drainers, so the entry test on the count
   is a test for a drainer. *)

DrainPCs == {"get", "issue", "submit", "reread", "relock"}

\* A step that starts and stops no drainer.
LEMMA DrainFrame ==
  ASSUME SingleDrainer, UNCHANGED tx_proc_cnt,
         \A u \in Threads, e \in Eps : Draining(u, e)' <=> Draining(u, e)
  PROVE  SingleDrainer'
BY DEF SingleDrainer

\* A step of t alone, not draining before or after, starts and stops none.
LEMMA OutsideFrame ==
  ASSUME TypeInv, SingleDrainer, NEW t \in Threads, UNCHANGED tx_proc_cnt,
         pc[t] \notin DrainPCs, pc'[t] \notin DrainPCs,
         \A u \in Threads \ {t} : pc'[u] = pc[u] /\ ep'[u] = ep[u]
  PROVE  SingleDrainer'
<1>1. \A u \in Threads, e \in Eps : Draining(u, e)' <=> Draining(u, e)
  BY DEF Draining, DrainPCs
<1> QED
  BY <1>1, DrainFrame

\* A drainer that stays one.
LEMMA InsideFrame ==
  ASSUME TypeInv, SingleDrainer, NEW t \in Threads, UNCHANGED tx_proc_cnt,
         pc[t] \in DrainPCs, pc'[t] \in DrainPCs, UNCHANGED ep,
         \A u \in Threads \ {t} : pc'[u] = pc[u]
  PROVE  SingleDrainer'
<1>1. \A u \in Threads, e \in Eps : Draining(u, e)' <=> Draining(u, e)
  BY DEF Draining, DrainPCs
<1> QED
  BY <1>1, DrainFrame

\* A drainer that leaves resets the count.
LEMMA DrainerLeaves ==
  ASSUME TypeInv, SingleDrainer, NEW t \in Threads,
         pc[t] \in DrainPCs, pc'[t] \notin DrainPCs,
         tx_proc_cnt' = [tx_proc_cnt EXCEPT ![ep[t]] = 0],
         \A u \in Threads \ {t} : pc'[u] = pc[u] /\ ep'[u] = ep[u]
  PROVE  SingleDrainer'
<1>1. \A u \in Threads \ {t} : \A e \in Eps : Draining(u, e)' <=> Draining(u, e)
  BY DEF Draining
<1>2. \A e \in Eps : ~Draining(t, e)'
  BY DEF Draining, DrainPCs
<1>3. Draining(t, ep[t]) /\ ep[t] \in Eps
  BY LocalsType DEF Draining, DrainPCs, TypeInv
<1>4. \A u \in Threads \ {t} : ~Draining(u, ep[t])
  BY <1>3 DEF SingleDrainer
<1>5. ASSUME NEW e \in Eps
      PROVE  /\ \A u, v \in Threads : Draining(u, e)' /\ Draining(v, e)' => u = v
             /\ tx_proc_cnt'[e] = IF \E u \in Threads : Draining(u, e)' THEN 1 ELSE 0
  <2>1. CASE e = ep[t]
    BY <2>1, <1>1, <1>2, <1>3, <1>4 DEF TypeInv, TypeOK, TypeQueues
  <2>2. CASE e # ep[t]
    <3>1. tx_proc_cnt'[e] = tx_proc_cnt[e] /\ ~Draining(t, e)
      BY <2>2 DEF TypeInv, TypeOK, TypeQueues, Draining
    <3> QED
      BY <3>1, <1>1, <1>2 DEF SingleDrainer
  <2> QED BY <2>1, <2>2
<1> QED
  BY <1>5 DEF SingleDrainer

\* Enter with the count at zero makes t the only drainer.
LEMMA DrainerEnters ==
  ASSUME TypeInv, SingleDrainer, NEW t \in Threads,
         pc[t] \notin DrainPCs, pc'[t] \in DrainPCs, UNCHANGED ep,
         tx_proc_cnt[ep[t]] = 0,
         tx_proc_cnt' = [tx_proc_cnt EXCEPT ![ep[t]] = 1],
         \A u \in Threads \ {t} : pc'[u] = pc[u]
  PROVE  SingleDrainer'
<1>1. \A u \in Threads \ {t} : \A e \in Eps : Draining(u, e)' <=> Draining(u, e)
  BY DEF Draining
<1>2. Draining(t, ep[t])' /\ ep[t] \in Eps
  BY LocalsType DEF Draining, DrainPCs, TypeInv
<1>3. \A u \in Threads : ~Draining(u, ep[t])
  BY <1>2 DEF SingleDrainer
<1>4. \A e \in Eps \ {ep[t]} : ~Draining(t, e)' /\ ~Draining(t, e)
  BY DEF Draining
<1>5. ASSUME NEW e \in Eps
      PROVE  /\ \A u, v \in Threads : Draining(u, e)' /\ Draining(v, e)' => u = v
             /\ tx_proc_cnt'[e] = IF \E u \in Threads : Draining(u, e)' THEN 1 ELSE 0
  <2>1. CASE e = ep[t]
    BY <2>1, <1>1, <1>2, <1>3 DEF TypeInv, TypeOK, TypeQueues
  <2>2. CASE e # ep[t]
    <3>1. tx_proc_cnt'[e] = tx_proc_cnt[e]
      BY <2>2 DEF TypeInv, TypeOK, TypeQueues
    <3> QED
      BY <3>1, <2>2, <1>1, <1>4 DEF SingleDrainer
  <2> QED BY <2>1, <2>2
<1> QED
  BY <1>5 DEF SingleDrainer

\* What Return does to the thread that leaves and to the others.
LEMMA ReturnEffect ==
  ASSUME TypeInv, NEW t \in Threads, NEW next, Return(t, next)
  PROVE  /\ pc'[t] \notin DrainPCs
         /\ pc'[t] = IF next = <<>> THEN "idle" ELSE "call"
         /\ \A u \in Threads \ {t} : pc'[u] = pc[u] /\ ep'[u] = ep[u]
BY DEF Return, DrainPCs, TypeInv, TypeOK, TypeControl

LEMMA InsideSingleDrainer ==
  ASSUME TypeInv, SingleDrainer, NEW t \in Threads, Inside(t)
  PROVE  SingleDrainer'
<1> USE ReturnEffect DEF DrainPCs
<1>t. pc \in [Threads -> PCs] /\ ep \in [Threads -> Eps] /\ ep[t] \in Eps
      /\ tx_proc_cnt \in [Eps -> Nat]
  BY DEF TypeInv, TypeOK, TypeControl, TypeQueues
<1>1. CASE SchedQueue(t)
  BY <1>1, <1>t, OutsideFrame DEF SchedQueue
<1>2. CASE SetStarving(t)
  BY <1>2, <1>t, OutsideFrame DEF SetStarving
<1>3. CASE CheckDepth(t)
  BY <1>3, <1>t, OutsideFrame DEF CheckDepth, lockVars, ReadFirst
<1>4. CASE NextCall(t)
  BY <1>4, <1>t, OutsideFrame DEF NextCall, lockVars, ReadFirst
<1>5. CASE Enter(t)
  <2>1. CASE tx_proc_cnt[ep[t]] > 0
    BY <1>5, <2>1, <1>t, OutsideFrame DEF Enter, AnotherDrains
  <2>2. CASE tx_proc_cnt[ep[t]] = 0
    <3>1. /\ pc[t] = "enter" /\ pc' = [pc EXCEPT ![t] = "get"] /\ UNCHANGED ep
          /\ tx_proc_cnt' = [tx_proc_cnt EXCEPT ![ep[t]] = 1]
      BY <1>5, <2>2, <1>t DEF Enter, AnotherDrains
    <3> QED
      BY <3>1, <2>2, <1>t, DrainerEnters
  <2> QED BY <2>1, <2>2, <1>t
<1>6. CASE GetPacket(t)
  BY <1>6, <1>t, InsideFrame DEF GetPacket
<1>7. CASE GetDone(t)
  <2>1. CASE send_queue[t] = <<>>
    BY <1>7, <2>1, <1>t, DrainerLeaves DEF GetDone
  <2>2. CASE send_queue[t] # <<>>
    BY <1>7, <2>2, <1>t, InsideFrame DEF GetDone
  <2> QED BY <2>1, <2>2
<1>8. CASE Relock(t)
  <2>1. CASE st_try[t]
    BY <1>8, <2>1, <1>t, DrainerLeaves DEF Relock
  <2>2. CASE ~st_try[t]
    BY <1>8, <2>2, <1>t, InsideFrame DEF Relock
  <2> QED BY <2>1, <2>2
<1>9. CASE IssueOk(t)
  BY <1>9, <1>t, InsideFrame DEF IssueOk, IssueDone, ReadFirst
<1>10. CASE IssueFail(t)
  BY <1>10, <1>t, InsideFrame DEF IssueFail, IssueDone, ReadFirst
<1>11. CASE ReadResources(t)
  <2>1. UNCHANGED <<tx_proc_cnt, ep>> /\ \A u \in Threads \ {t} : pc'[u] = pc[u]
    BY <1>11, <1>t DEF ReadResources, lockVars
  <2>2. CASE pc[t] = "read"
    <3>1. pc'[t] = "enter"
      BY <1>11, <2>2, <1>t DEF ReadResources
    <3> QED
      BY <2>1, <2>2, <3>1, OutsideFrame
  <2>3. CASE pc[t] = "reread"
    <3>1. pc'[t] = "relock"
      BY <1>11, <2>3, <1>t DEF ReadResources
    <3> QED
      BY <2>1, <2>3, <3>1, InsideFrame
  <2> QED BY <1>11, <2>2, <2>3 DEF ReadResources
<1>12. CASE FileLookup(t)
  BY <1>12, <1>t, InsideFrame DEF FileLookup, lockVars
<1> QED
  BY <1>1, <1>2, <1>3, <1>4, <1>5, <1>6, <1>7, <1>8, <1>9, <1>10, <1>11, <1>12
     DEF Inside

LEMMA NextSingleDrainer == TypeInv /\ SingleDrainer /\ [Next]_vars => SingleDrainer'
<1> SUFFICES ASSUME TypeInv, SingleDrainer, [Next]_vars PROVE SingleDrainer'
  OBVIOUS
<1> USE DEF DrainPCs
<1>t. pc \in [Threads -> PCs] /\ ep \in [Threads -> Eps]
  BY DEF TypeInv, TypeOK, TypeControl
<1>1. ASSUME NEW t \in Threads, NEW p \in Packets, Send(t, p)
      PROVE  SingleDrainer'
  <2>1. pc'[t] \in {"schedq", "depth"} /\ UNCHANGED tx_proc_cnt /\ pc[t] = "idle"
        /\ \A u \in Threads \ {t} : pc'[u] = pc[u] /\ ep'[u] = ep[u]
    BY <1>1, <1>t DEF Send, lockVars
  <2> QED BY <2>1, OutsideFrame
<1>2. ASSUME NEW t \in Threads, NEW p \in Packets, TxCompletion(t, p)
      PROVE  SingleDrainer'
  BY <1>2, OutsideFrame, ReturnEffect DEF TxCompletion, lockVars
<1>3. ASSUME NEW t \in Threads, NEW n \in 1..TgtCreds, DataCreditReport(t, n)
      PROVE  SingleDrainer'
  BY <1>3, OutsideFrame, ReturnEffect DEF DataCreditReport
<1>4. ASSUME NEW t \in Threads, NEW n \in 1..TgtCreds, CtrlCreditReport(t, n)
      PROVE  SingleDrainer'
  BY <1>4, OutsideFrame, ReturnEffect DEF CtrlCreditReport
<1>5. ASSUME NEW t \in Threads, CtlEpTimer(t)
      PROVE  SingleDrainer'
  BY <1>5, OutsideFrame, ReturnEffect DEF CtlEpTimer
<1>6. ASSUME UNCHANGED <<tx_proc_cnt, pc, ep>>
      PROVE  SingleDrainer'
  BY <1>6 DEF SingleDrainer, Draining
<1>7. ASSUME NEW t \in Threads, NEW e \in Eps, FlushTxEndpoint(t, e)
      PROVE  SingleDrainer'
  BY <1>6, <1>7 DEF FlushTxEndpoint, localVars
<1>8. ASSUME NEW p \in Packets, UrbComplete(p)
      PROVE  SingleDrainer'
  BY <1>6, <1>8 DEF UrbComplete, lockVars, localVars
<1>9. CASE LoseCtrlCredit
  BY <1>6, <1>9 DEF LoseCtrlCredit, lockVars, localVars
<1>10. CASE UNCHANGED vars
  BY <1>6, <1>10 DEF vars, lockVars, localVars
<1> QED
  BY <1>1, <1>2, <1>3, <1>4, <1>5, <1>7, <1>8, <1>9, <1>10, InsideSingleDrainer
     DEF Next, Threads

\* "beyond this point only 1 thread may enter": whatever the number of contexts
\* that send, complete and report credits at once, at most one of them drains an
\* endpoint, and tx_proc_cnt says exactly whether one does.
THEOREM SingleDrainerHolds == Spec => []SingleDrainer
<1>1. Init => SingleDrainer
  BY DEF Init, SingleDrainer, Draining
<1> QED
  BY <1>1, InitTypeInv, NextTypeInv, NextSingleDrainer, PTL DEF Spec

-----------------------------------------------------------------------------
(* The control credit cap *)

\* Every grant caps the control credits at one, which CtrlAlloc covers; every
\* other step only spends them.
LEMMA NextCtrlCreditCapped ==
  TypeInv /\ CtrlCreditCapped /\ [Next]_vars => CtrlCreditCapped'
<1> SUFFICES ASSUME TypeInv, CtrlCreditCapped, [Next]_vars
             PROVE  CtrlCreditCapped'
  OBVIOUS
<1>t. CtrlAlloc \in Nat \ {0} /\ ctl_credits \in Nat /\ ctl_credits <= CtrlAlloc
  BY ConstantsOK DEF ConstantsOK, TypeInv, TypeOK, TypeCredits, CtrlCreditCapped
<1>1. CASE UNCHANGED ctl_credits
  BY <1>1 DEF CtrlCreditCapped
<1>2. ASSUME NEW t \in Threads, GetPacket(t)
      PROVE  CtrlCreditCapped'
  <2>1. Head(txq[ep[t]]) \in Packets
    BY <1>2, LocalsType, SeqOps DEF TypeInv, GetPacket, CanTake
  <2>2. CreditsRequired(Head(txq[ep[t]])) \in Nat
    BY <2>1, CreditsRequiredType
  <2>3. \/ ctl_credits' = ctl_credits
        \/ ctl_credits' = ctl_credits - CreditsRequired(Head(txq[ep[t]]))
    BY <1>2, Zenon DEF GetPacket, Spend
  <2> QED
    BY <2>2, <2>3, <1>t DEF CtrlCreditCapped
<1>3. ASSUME NEW t \in Threads, IssueFail(t)
      PROVE  CtrlCreditCapped'
  <2>1. packet[t] \in Packets
    BY <1>3 DEF TypeInv, IssueFail, LocalsOK, LocalsOf, PktsOf
  <2>2. cred_used[packet[t]] \in Nat
    BY <2>1 DEF TypeInv, TypeOK, TypeCredits
  <2>3. \/ ctl_credits' = ctl_credits
        \/ ctl_credits' = Capped(ctl_credits + cred_used[packet[t]])
    BY <1>3, Zenon DEF IssueFail
  <2> QED
    BY <2>2, <2>3, <1>t DEF CtrlCreditCapped, Capped
<1>4. ASSUME NEW t \in Threads, NEW n \in 1..TgtCreds, CtrlCreditReport(t, n)
      PROVE  CtrlCreditCapped'
  BY <1>4, <1>t, ConstantsOK
     DEF ConstantsOK, CtrlCreditReport, CtrlCreditCapped, Capped
<1>5. ASSUME NEW t \in Threads, CtlEpTimer(t)
      PROVE  CtrlCreditCapped'
  BY <1>5, <1>t DEF CtlEpTimer, CtrlCreditCapped
<1>6. ASSUME NEW t \in Threads, Inside(t), ~GetPacket(t), ~IssueFail(t)
      PROVE  UNCHANGED ctl_credits
  BY <1>6 DEF Inside, SchedQueue, SetStarving, CheckDepth, NextCall, Enter,
              ReadResources, GetDone, Relock, FileLookup, IssueOk, lockVars
<1> QED
  BY <1>1, <1>2, <1>3, <1>4, <1>5, <1>6
     DEF Next, Send, FlushTxEndpoint, UrbComplete, TxCompletion,
         DataCreditReport, LoseCtrlCredit, vars, lockVars, Threads

\* The watchdog and the late report it raced with never leave the control
\* endpoint with more credits than the control service was allocated.
THEOREM CtrlCreditCappedHolds == Spec => []CtrlCreditCapped
<1>1. Init => CtrlCreditCapped
  BY ConstantsOK DEF ConstantsOK, Init, CtrlCreditCapped
<1> QED
  BY <1>1, InitTypeInv, NextTypeInv, NextCtrlCreditCapped, PTL DEF Spec

-----------------------------------------------------------------------------
(* Credits in hand: how the number of credits that drainers hold follows the
   updates of cred_used. *)

DataPkts == {p \in Packets : PktEp[p] # CtrlEp}

Share(f, D) == UNION {{p} \X (1..f[p]) : p \in D}

LEMMA InHandIsShare == CreditsInHand = Share(cred_used, DataPkts)
BY DEF CreditsInHand, Share, DataPkts

LEMMA DataPktsFinite == IsFiniteSet(DataPkts) /\ DataPkts \subseteq Packets
BY ConstantsOK, FS_Subset DEF ConstantsOK, DataPkts

LEMMA OneShare ==
  ASSUME NEW p, NEW n \in Nat
  PROVE  IsFiniteSet({p} \X (1..n)) /\ Cardinality({p} \X (1..n)) = n
<1>1. IsFiniteSet({p}) /\ Cardinality({p}) = 1
  BY FS_Singleton
<1>2. IsFiniteSet(1..n) /\ Cardinality(1..n) = n
  BY FS_Interval
<1>3. /\ IsFiniteSet({p} \X (1..n))
      /\ Cardinality({p} \X (1..n)) = Cardinality({p}) * Cardinality(1..n)
  BY <1>1, <1>2, FS_Product
<1> QED
  BY <1>1, <1>2, <1>3

LEMMA ShareFinite ==
  ASSUME NEW f \in [Packets -> Nat], NEW D \in SUBSET Packets, IsFiniteSet(D)
  PROVE  IsFiniteSet(Share(f, D))
<1> DEFINE T == {{p} \X (1..f[p]) : p \in D}
           g == [p \in D |-> {p} \X (1..f[p])]
<1>1. g \in Surjection(D, T)
  BY DEF Surjection
<1>2. IsFiniteSet(T)
  BY <1>1, FS_Surjection
<1>3. \A S \in T : IsFiniteSet(S)
  <2> SUFFICES ASSUME NEW p \in D PROVE IsFiniteSet({p} \X (1..f[p]))
    OBVIOUS
  <2>1. f[p] \in Nat
    OBVIOUS
  <2> QED
    BY <2>1, OneShare
<1> HIDE DEF T
<1>4. IsFiniteSet(UNION T)
  BY <1>2, <1>3, FS_UNION
<1> QED
  BY <1>4 DEF Share, T

\* Shares depend only on the packets counted.
LEMMA ShareEq ==
  ASSUME NEW f, NEW g, NEW D, \A p \in D : f[p] = g[p]
  PROVE  Share(f, D) = Share(g, D)
BY DEF Share

\* One packet's credits can be counted apart.
LEMMA ShareSplit ==
  ASSUME NEW f \in [Packets -> Nat], NEW D \in SUBSET Packets, IsFiniteSet(D),
         NEW p \in D
  PROVE  Cardinality(Share(f, D)) = Cardinality(Share(f, D \ {p})) + f[p]
<1> DEFINE R == Share(f, D \ {p})
           P == {p} \X (1..f[p])
<1>1. IsFiniteSet(R)
  <2>1. IsFiniteSet(D \ {p})
    BY FS_Difference
  <2> QED
    BY <2>1, ShareFinite
<1>2. IsFiniteSet(P) /\ Cardinality(P) = f[p]
  BY OneShare
<1>3. Share(f, D) = R \cup P
  BY DEF Share
<1>4. R \cap P = {}
  BY DEF Share
<1> HIDE DEF R, P
<1>5. Cardinality(R \cup P)
        = Cardinality(R) + Cardinality(P) - Cardinality(R \cap P)
  BY <1>1, <1>2, FS_Union
<1>6. Cardinality(R) \in Nat /\ f[p] \in Nat
  BY <1>1, FS_CardinalityType
<1>7. Cardinality(R \cap P) = 0
  BY <1>4, FS_EmptySet
<1>8. Cardinality(Share(f, D)) = Cardinality(R) + f[p]
  BY <1>2, <1>3, <1>5, <1>6, <1>7
<1> QED
  BY <1>8 DEF R

\* Fewer credits per packet, fewer credits in all.
LEMMA ShareMono ==
  ASSUME NEW f \in [Packets -> Nat], NEW g \in [Packets -> Nat],
         NEW D \in SUBSET Packets, IsFiniteSet(D),
         \A p \in D : f[p] <= g[p]
  PROVE  Cardinality(Share(f, D)) <= Cardinality(Share(g, D))
<1>1. Share(f, D) \subseteq Share(g, D)
  <2> SUFFICES ASSUME NEW p \in D PROVE {p} \X (1..f[p]) \subseteq Share(g, D)
    BY DEF Share
  <2>1. 1..f[p] \subseteq 1..g[p]
    OBVIOUS
  <2>2. {p} \X (1..f[p]) \subseteq {p} \X (1..g[p])
    BY <2>1
  <2> QED
    BY <2>2 DEF Share
<1> QED
  BY <1>1, ShareFinite, FS_Subset

-----------------------------------------------------------------------------
(* The data credits are never overcommitted.  The sum is inductive with
   TypeInv, which says that a drainer's packets belong to its endpoint: data
   credits are reclaimed to the data pool, control credits never are. *)

Held == Cardinality(Share(cred_used, DataPkts))

LEMMA HeldType ==
  ASSUME TypeInv
  PROVE  Held \in Nat /\ cred_used \in [Packets -> Nat]
<1>1. cred_used \in [Packets -> Nat]
  BY DEF TypeInv, TypeOK, TypeCredits
<1>2. IsFiniteSet(Share(cred_used, DataPkts))
  BY <1>1, DataPktsFinite, ShareFinite
<1> QED
  BY <1>1, <1>2, FS_CardinalityType DEF Held

\* Changing the credits of one data packet changes the sum by the difference.
LEMMA HeldUpdate ==
  ASSUME TypeInv, NEW p \in DataPkts, NEW n \in Nat,
         cred_used' = [cred_used EXCEPT ![p] = n]
  PROVE  Held' = Held - cred_used[p] + n /\ cred_used[p] <= Held
<1> DEFINE R == Cardinality(Share(cred_used, DataPkts \ {p}))
<1>1. /\ cred_used \in [Packets -> Nat] /\ cred_used' \in [Packets -> Nat]
      /\ p \in Packets /\ cred_used'[p] = n /\ cred_used[p] \in Nat
      /\ \A q \in DataPkts \ {p} : cred_used'[q] = cred_used[q]
  BY HeldType, DataPktsFinite
<1>2. Held = R + cred_used[p]
  BY <1>1, DataPktsFinite, ShareSplit DEF Held
<1>3. Share(cred_used', DataPkts \ {p}) = Share(cred_used, DataPkts \ {p})
  <2> DEFINE D == DataPkts \ {p}
  <2>1. \A q \in D : cred_used'[q] = cred_used[q]
    BY <1>1
  <2> HIDE DEF D
  <2>2. Share(cred_used', D) = Share(cred_used, D)
    BY <2>1, ShareEq, ZenonT(30)
  <2> QED
    BY <2>2 DEF D
<1>4. Cardinality(Share(cred_used', DataPkts))
        = Cardinality(Share(cred_used', DataPkts \ {p})) + cred_used'[p]
  BY <1>1, DataPktsFinite, ShareSplit
<1>7. Held' = Cardinality(Share(cred_used', DataPkts))
  BY DEF Held, Share, DataPkts
<1>5. Held' = R + n
  BY <1>1, <1>3, <1>4, <1>7
<1>6. R \in Nat
  <2>1. IsFiniteSet(DataPkts \ {p}) /\ DataPkts \ {p} \in SUBSET Packets
    BY DataPktsFinite, FS_Difference
  <2>2. IsFiniteSet(Share(cred_used, DataPkts \ {p}))
    BY <1>1, <2>1, ShareFinite
  <2> QED
    BY <2>2, FS_CardinalityType
<1> HIDE DEF R
<1> QED
  BY <1>1, <1>2, <1>5, <1>6

\* Credits of control packets are not counted.
LEMMA HeldSame ==
  ASSUME TypeInv, \A q \in DataPkts : cred_used'[q] = cred_used[q]
  PROVE  Held' = Held
<1>1. Share(cred_used', DataPkts) = Share(cred_used, DataPkts)
  BY ShareEq
<1> QED
  BY <1>1 DEF Held, Share, DataPkts

LEMMA OvercommitForm ==
  NoOvercommit <=> avail_tx_credits + Held + tgt_data <= TgtCreds - 1
BY InHandIsShare DEF NoOvercommit, Held

LEMMA GetPacketNoOvercommit ==
  ASSUME TypeInv, NoOvercommit, NEW t \in Threads, GetPacket(t)
  PROVE  avail_tx_credits' + Held' + tgt_data' <= TgtCreds - 1
<1> DEFINE e == ep[t]
           p == Head(txq[e])
           need == CreditsRequired(p)
<1>0. /\ avail_tx_credits \in Nat /\ tgt_data \in Nat /\ TgtCreds \in Nat
      /\ Held \in Nat /\ cred_used \in [Packets -> Nat] /\ tgt_data' = tgt_data
      /\ avail_tx_credits + Held + tgt_data <= TgtCreds - 1
  BY HeldType, ConstantsOK, OvercommitForm
     DEF ConstantsOK, TypeInv, TypeOK, TypeCredits, GetPacket, hifVars
<1>1. p \in PktsOf(e) /\ p \in Packets
  <2>1. txq[e] \in Seq(PktsOf(e)) /\ txq[e] # <<>>
    BY LocalsType DEF TypeInv, HomeOK, GetPacket, CanTake
  <2> QED
    BY <2>1, SeqOps DEF PktsOf
<1>2. need \in Nat
  BY <1>1, CreditsRequiredType
<1>3. \E n \in {0, need} : cred_used' = [cred_used EXCEPT ![p] = n]
  BY Zenon DEF GetPacket, Spend
<1>4. CASE e = CtrlEp
  <2>1. avail_tx_credits' = avail_tx_credits
    BY <1>4, Zenon DEF GetPacket, Spend
  <2>2. p \notin DataPkts
    BY <1>1, <1>4 DEF PktsOf, DataPkts
  <2>3. \A q \in DataPkts : cred_used'[q] = cred_used[q]
    BY <1>3, <2>2, <1>0, DataPktsFinite
  <2> QED
    BY <1>0, <2>1, <2>3, HeldSame
<1>5. CASE e # CtrlEp
  <2>1. p \in DataPkts
    BY <1>1, <1>5 DEF PktsOf, DataPkts
  <2>2. \/ /\ avail_tx_credits' = avail_tx_credits - need
           /\ cred_used' = [cred_used EXCEPT ![p] = need]
        \/ /\ avail_tx_credits' = avail_tx_credits
           /\ cred_used' = [cred_used EXCEPT ![p] = 0]
    BY <1>5, Zenon DEF GetPacket, Spend
  <2>3. cred_used[p] \in Nat
    BY <1>0, <1>1
  <2>4. \/ /\ avail_tx_credits' = avail_tx_credits - need
           /\ Held' = Held - cred_used[p] + need
        \/ /\ avail_tx_credits' = avail_tx_credits
           /\ Held' = Held - cred_used[p] + 0
    BY <2>1, <2>2, <1>2, HeldUpdate
  <2> HIDE DEF p, need
  <2> QED
    BY <1>0, <1>2, <2>3, <2>4
<1> QED
  BY <1>4, <1>5

LEMMA IssueOkNoOvercommit ==
  ASSUME TypeInv, NoOvercommit, NEW t \in Threads, IssueOk(t)
  PROVE  avail_tx_credits' + Held' + tgt_data' <= TgtCreds - 1
<1> DEFINE e == ep[t]
           p == packet[t]
<1>0. /\ avail_tx_credits \in Nat /\ tgt_data \in Nat /\ TgtCreds \in Nat
      /\ Held \in Nat /\ cred_used \in [Packets -> Nat]
      /\ avail_tx_credits' = avail_tx_credits
      /\ avail_tx_credits + Held + tgt_data <= TgtCreds - 1
  BY HeldType, ConstantsOK, OvercommitForm
     DEF ConstantsOK, TypeInv, TypeOK, TypeCredits, IssueOk
<1>1. p \in PktsOf(e) /\ p \in Packets
  BY DEF TypeInv, LocalsOK, LocalsOf, IssueOk, PktsOf
<1>2. cred_used' = [cred_used EXCEPT ![p] = 0]
  BY DEF IssueOk
<1>3. CASE e = CtrlEp
  <2>1. tgt_data' = tgt_data
    BY <1>3, Zenon DEF IssueOk
  <2>2. \A q \in DataPkts : cred_used'[q] = cred_used[q]
    BY <1>0, <1>1, <1>2, <1>3, DataPktsFinite DEF PktsOf, DataPkts
  <2> QED
    BY <1>0, <2>1, <2>2, HeldSame
<1>4. CASE e # CtrlEp
  <2>1. p \in DataPkts
    BY <1>1, <1>4 DEF PktsOf, DataPkts
  <2>2. tgt_data' = tgt_data + cred_used[p]
    BY <1>4, Zenon DEF IssueOk
  <2>3. cred_used[p] \in Nat /\ Held' = Held - cred_used[p] + 0
    BY <1>0, <1>1, <1>2, <2>1, HeldUpdate
  <2> QED
    BY <1>0, <2>2, <2>3
<1> QED
  BY <1>3, <1>4

LEMMA IssueFailNoOvercommit ==
  ASSUME TypeInv, TypeInv', NoOvercommit, NEW t \in Threads, IssueFail(t)
  PROVE  avail_tx_credits' + Held' + tgt_data' <= TgtCreds - 1
<1> DEFINE e == ep[t]
           p == packet[t]
           mid == [cred_used EXCEPT ![p] = 0]
<1>0. /\ avail_tx_credits \in Nat /\ tgt_data \in Nat /\ TgtCreds \in Nat
      /\ Held \in Nat /\ cred_used \in [Packets -> Nat]
      /\ cred_used' \in [Packets -> Nat]
      /\ tgt_data' = tgt_data
      /\ avail_tx_credits + Held + tgt_data <= TgtCreds - 1
  BY HeldType, ConstantsOK, OvercommitForm
     DEF ConstantsOK, TypeInv, TypeOK, TypeCredits, IssueFail, hifVars
<1>1. p \in PktsOf(e) /\ p \in Packets
  BY DEF TypeInv, LocalsOK, LocalsOf, IssueFail, PktsOf
<1>2. cred_used' = [q \in Packets |-> IF q \in {p} \cup ToSet(send_queue[t])
                                     THEN 0 ELSE cred_used[q]]
  BY DEF IssueFail, Failed
<1>3. \A q \in DataPkts : cred_used'[q] <= mid[q] /\ mid[q] <= cred_used[q]
  BY <1>0, <1>2, DataPktsFinite
<1>4. mid \in [Packets -> Nat]
  BY <1>0
<1>5. Cardinality(Share(cred_used', DataPkts)) <= Cardinality(Share(mid, DataPkts))
  BY <1>0, <1>3, <1>4, DataPktsFinite, ShareMono
<1>6. Cardinality(Share(mid, DataPkts)) <= Held
  BY <1>0, <1>3, <1>4, DataPktsFinite, ShareMono DEF Held
<1>7. Held' = Cardinality(Share(cred_used', DataPkts))
  BY DEF Held, Share, DataPkts
<1>8. Cardinality(Share(mid, DataPkts)) \in Nat /\ Held' \in Nat
  <2> HIDE DEF mid
  <2>1. IsFiniteSet(Share(mid, DataPkts)) /\ IsFiniteSet(Share(cred_used', DataPkts))
    BY <1>0, <1>4, DataPktsFinite, ShareFinite
  <2> QED
    BY <2>1, <1>7, FS_CardinalityType
<1>9. CASE e = CtrlEp
  <2>1. avail_tx_credits' = avail_tx_credits
    BY <1>9, Zenon DEF IssueFail
  <2> HIDE DEF mid
  <2> QED
    BY <1>0, <1>5, <1>6, <1>7, <1>8, <2>1
<1>10. CASE e # CtrlEp
  <2>1. p \in DataPkts
    BY <1>1, <1>10 DEF PktsOf, DataPkts
  <2>2. avail_tx_credits' = avail_tx_credits + cred_used[p]
    BY <1>10, Zenon DEF IssueFail
  <2>3. /\ Held = Cardinality(Share(cred_used, DataPkts \ {p})) + cred_used[p]
        /\ Cardinality(Share(mid, DataPkts))
             = Cardinality(Share(mid, DataPkts \ {p})) + mid[p]
    BY <1>0, <1>4, <2>1, DataPktsFinite, ShareSplit DEF Held
  <2>4. Share(mid, DataPkts \ {p}) = Share(cred_used, DataPkts \ {p})
    <3>1. \A q \in DataPkts \ {p} : mid[q] = cred_used[q]
      BY <1>0, DataPktsFinite
    <3> QED
      BY <3>1, ShareEq, ZenonT(30)
  <2>5. mid[p] = 0 /\ cred_used[p] \in Nat
    BY <1>0, <1>1
  <2>6. IsFiniteSet(Share(cred_used, DataPkts \ {p}))
    <3>1. IsFiniteSet(DataPkts \ {p}) /\ DataPkts \ {p} \in SUBSET Packets
      BY DataPktsFinite, FS_Difference
    <3> QED
      BY <1>0, <3>1, ShareFinite
  <2>7. Cardinality(Share(cred_used, DataPkts \ {p})) \in Nat
    BY <2>6, FS_CardinalityType
  <2> HIDE DEF mid, p
  <2> QED
    BY <1>0, <1>5, <1>7, <1>8, <2>2, <2>3, <2>4, <2>5, <2>7
<1> QED
  BY <1>9, <1>10

LEMMA NextNoOvercommit ==
  TypeInv /\ TypeInv' /\ NoOvercommit /\ [Next]_vars => NoOvercommit'
<1> SUFFICES ASSUME TypeInv, TypeInv', NoOvercommit, [Next]_vars
             PROVE  NoOvercommit'
  OBVIOUS
<1>f. NoOvercommit' <=> avail_tx_credits' + Held' + tgt_data' <= TgtCreds - 1
  BY InHandIsShare, OvercommitForm DEF NoOvercommit, Held, CreditsInHand, Share,
                                        DataPkts
<1>1. ASSUME NEW t \in Threads, GetPacket(t) PROVE NoOvercommit'
  BY <1>1, <1>f, GetPacketNoOvercommit
<1>2. ASSUME NEW t \in Threads, IssueOk(t) PROVE NoOvercommit'
  BY <1>2, <1>f, IssueOkNoOvercommit
<1>3. ASSUME NEW t \in Threads, IssueFail(t) PROVE NoOvercommit'
  BY <1>3, <1>f, IssueFailNoOvercommit
<1>4. ASSUME NEW t \in Threads, NEW n \in 1..TgtCreds, DataCreditReport(t, n)
      PROVE  NoOvercommit'
  <2>1. /\ Held' = Held /\ Held \in Nat
        /\ avail_tx_credits + Held + tgt_data <= TgtCreds - 1
    BY <1>4, HeldSame, HeldType, OvercommitForm DEF DataCreditReport
  <2>2. avail_tx_credits' = avail_tx_credits + n /\ tgt_data' = tgt_data - n
    BY <1>4 DEF DataCreditReport
  <2>3. /\ avail_tx_credits \in Nat /\ tgt_data \in Nat /\ n \in Nat
        /\ TgtCreds \in Nat
    BY ConstantsOK DEF ConstantsOK, TypeInv, TypeOK, TypeCredits
  <2> QED
    BY <1>f, <2>1, <2>2, <2>3
<1>5. CASE UNCHANGED <<avail_tx_credits, cred_used, tgt_data>>
  BY <1>5 DEF NoOvercommit, CreditsInHand
<1>6. ASSUME NEW t \in Threads, Inside(t),
             ~GetPacket(t), ~IssueOk(t), ~IssueFail(t)
      PROVE  UNCHANGED <<avail_tx_credits, cred_used, tgt_data>>
  BY <1>6 DEF Inside, SchedQueue, SetStarving, CheckDepth, NextCall, Enter,
              ReadResources, GetDone, Relock, FileLookup, lockVars, hifVars
<1> QED
  BY <1>1, <1>2, <1>3, <1>4, <1>5, <1>6
     DEF Next, Send, FlushTxEndpoint, UrbComplete, TxCompletion,
         CtrlCreditReport, LoseCtrlCredit, CtlEpTimer, vars, lockVars, hifVars,
         Threads

\* Whatever the interleaving of senders, completions, failures, flushes and
\* credit reports, the data endpoints never commit more credits than the target
\* announced minus the one reserved for the control path.
THEOREM NoOvercommitHolds == Spec => []NoOvercommit
<1>1. Init => NoOvercommit
  <2> SUFFICES ASSUME Init PROVE NoOvercommit
    OBVIOUS
  <2>1. CreditsInHand = {}
    <3>1. \A p \in Packets : 1..cred_used[p] = {}
      BY DEF Init
    <3> QED
      BY <3>1 DEF CreditsInHand
  <2> QED
    BY <2>1, FS_EmptySet, ConstantsOK DEF ConstantsOK, Init, NoOvercommit
<1> QED
  BY <1>1, InitTypeInv, NextTypeInv, NextNoOvercommit, PTL DEF Spec

-----------------------------------------------------------------------------
(* A control packet that waits for a credit is never forgotten. *)

\* What the argument needs of thread t besides the types: the control endpoint
\* takes no part in single-pipe queueing and starving prevention, and a call
\* for it is never lined up behind others where credits control the flow.
SideOf(t) ==
  /\ pc[t] \in {"schedq", "starve"} => ep[t] # CtrlEp
  /\ st_try[t] => pc[t] \in DrainPCs /\ ep[t] # CtrlEp
  /\ CreditFlow => \/ todo[t] = Call("try", CtrlEp)
                   \/ \A i \in 1..Len(todo[t]) : todo[t][i].ep # CtrlEp

CtrlSide == starving[CtrlEp] = FALSE /\ \A t \in Threads : SideOf(t)

-----------------------------------------------------------------------------
(* The side conditions *)

\* A step of thread t disturbs only what is said of t.
LEMMA SideFrame ==
  ASSUME CtrlSide, NEW t \in Threads, starving'[CtrlEp] = FALSE, SideOf(t)',
         \A u \in Threads \ {t} : /\ pc'[u] = pc[u] /\ ep'[u] = ep[u]
                                  /\ st_try'[u] = st_try[u] /\ todo'[u] = todo[u]
  PROVE  CtrlSide'
BY DEF CtrlSide, SideOf

\* A thread whose pending calls and st_try stay, and which is not queueing.
LEMMA SideStep ==
  ASSUME CtrlSide, TypeInv, NEW t \in Threads, NEW l,
         pc' = [pc EXCEPT ![t] = l], l \notin {"schedq", "starve"},
         starving'[CtrlEp] = FALSE, UNCHANGED <<ep, st_try, todo>>,
         pc[t] \in DrainPCs => l \in DrainPCs
  PROVE  CtrlSide'
<1>1. SideOf(t)
  BY DEF CtrlSide
<1>2. pc'[t] = l /\ \A u \in Threads \ {t} : pc'[u] = pc[u]
  BY DEF TypeInv, TypeOK, TypeControl
<1>3. SideOf(t)'
  BY <1>1, <1>2 DEF SideOf
<1> QED
  BY <1>2, <1>3, SideFrame

\* Calls that may be lined up.
CallsOK(next) ==
  CreditFlow => \/ next = Call("try", CtrlEp)
                \/ \A i \in 1..Len(next) : next[i].ep # CtrlEp

LEMMA SideReturn ==
  ASSUME CtrlSide, TypeInv, NEW t \in Threads, NEW next \in Seq(Calls),
         Return(t, next), CallsOK(next), starving'[CtrlEp] = FALSE
  PROVE  CtrlSide'
<1>1. /\ pc'[t] \in {"idle", "call"} /\ st_try'[t] = FALSE /\ todo'[t] = next
      /\ \A u \in Threads \ {t} : /\ pc'[u] = pc[u] /\ ep'[u] = ep[u]
                                  /\ st_try'[u] = st_try[u] /\ todo'[u] = todo[u]
  BY DEF Return, TypeInv, TypeOK, TypeControl
<1>2. SideOf(t)'
  BY <1>1 DEF SideOf, CallsOK
<1> QED
  BY <1>1, <1>2, SideFrame

LEMMA ConcatLen ==
  ASSUME NEW S, NEW a \in Seq(S), NEW b \in Seq(S)
  PROVE  Len(a \o b) = Len(a) + Len(b) /\ Len(a) \in Nat
OBVIOUS

\* What is lined up for data endpoints holds no call for the control endpoint.
LEMMA DataCallsOK ==
  /\ CallsOK(<<>>)
  /\ CallsOK(Call("try", CtrlEp))
  /\ \A i \in 1..Len(DataPrio) : CallsOK(Call("try", DataPrio[i]))
  /\ \A e : CallsOK(StarvingCalls(e))
  /\ \A e : \A i \in 1..Len(DataPrio) :
       CallsOK(StarvingCalls(e) \o Call("try", DataPrio[i]))
<1>1. CallsOK(<<>>) /\ CallsOK(Call("try", CtrlEp))
  BY DEF CallsOK
<1>2. \A i \in 1..Len(DataPrio) : CallsOK(Call("try", DataPrio[i]))
  BY DataEpsAreEps DEF CallsOK, Call
<1>3. ASSUME NEW e
      PROVE  /\ StarvingCalls(e) \in Seq(Calls)
             /\ Len(StarvingCalls(e)) = Len(DataPrio)
             /\ \A i \in 1..Len(DataPrio) : StarvingCalls(e)[i].ep # CtrlEp
  <2>1. Len(DataPrio) \in Nat /\ \A i \in 1..Len(DataPrio) : DataPrio[i] # CtrlEp
    BY DataEpsAreEps
  <2>2. StarvingCalls(e) \in Seq(Calls)
    BY StarvingCallsType
  <2>3. Len(StarvingCalls(e)) = Len(DataPrio)
    BY <2>1, <2>2 DEF StarvingCalls
  <2>4. \A i \in 1..Len(DataPrio) : StarvingCalls(e)[i].ep = DataPrio[i]
    BY <2>1 DEF StarvingCalls
  <2> QED
    BY <2>1, <2>2, <2>3, <2>4
<1>4. \A e : CallsOK(StarvingCalls(e))
  BY <1>3 DEF CallsOK
<1>5. ASSUME NEW e, NEW i \in 1..Len(DataPrio)
      PROVE  CallsOK(StarvingCalls(e) \o Call("try", DataPrio[i]))
  <2> DEFINE s == StarvingCalls(e)
             c == Call("try", DataPrio[i])
  <2>1. s \in Seq(Calls) /\ c \in Seq(Calls) /\ Len(c) = 1
        /\ c[1].ep # CtrlEp /\ \A j \in 1..Len(s) : s[j].ep # CtrlEp
    BY <1>3, CallType, DataEpsAreEps DEF Call
  <2> HIDE DEF s, c
  <2>2. \A j \in 1..Len(s \o c) : (s \o c)[j].ep # CtrlEp
    <3> SUFFICES ASSUME NEW j \in 1..Len(s \o c) PROVE (s \o c)[j].ep # CtrlEp
      OBVIOUS
    <3>1. Len(s \o c) = Len(s) + 1 /\ Len(s) \in Nat
      <4>1. Len(s \o c) = Len(s) + Len(c) /\ Len(s) \in Nat
        BY <2>1, ConcatLen
      <4> QED BY <4>1, <2>1
    <3>2. CASE j \in 1..Len(s)
      <4>1. (s \o c)[j] = s[j]
        BY <2>1, <3>2
      <4> QED BY <4>1, <3>2, <2>1
    <3>3. CASE j = Len(s) + 1
      <4>1. (s \o c)[j] = c[1]
        BY <2>1, <3>1, <3>3
      <4> QED BY <4>1, <2>1
    <3> QED BY <3>1, <3>2, <3>3
  <2> QED
    BY <2>2 DEF CallsOK, s, c
<1> QED
  BY <1>1, <1>2, <1>4, <1>5

\* Taking the first call off the list leaves calls that may be lined up.
LEMMA RestOK ==
  ASSUME NEW t \in Threads, TypeInv, CtrlSide, pc[t] = "call"
  PROVE  /\ Tail(todo[t]) \in Seq(Calls) /\ CallsOK(Tail(todo[t]))
         /\ Head(todo[t]) \in Calls
         /\ CreditFlow => \/ /\ Head(todo[t]) = [how |-> "try", ep |-> CtrlEp]
                             /\ Tail(todo[t]) = <<>>
                          \/ \A i \in 1..Len(todo[t]) : todo[t][i].ep # CtrlEp
<1>1. todo[t] \in Seq(Calls) /\ todo[t] # <<>>
  BY LocalsType DEF TypeInv, LocalsOK, LocalsOf
<1>2. /\ Head(todo[t]) \in Calls /\ Tail(todo[t]) \in Seq(Calls)
      /\ Len(Tail(todo[t])) = Len(todo[t]) - 1
      /\ \A i \in 1..Len(Tail(todo[t])) : /\ Tail(todo[t])[i] = todo[t][i + 1]
                                          /\ i + 1 \in 1..Len(todo[t])
  BY <1>1
<1>3. CASE todo[t] = Call("try", CtrlEp)
  <2>1. Head(todo[t]) = [how |-> "try", ep |-> CtrlEp] /\ Tail(todo[t]) = <<>>
    BY <1>3 DEF Call
  <2> QED
    BY <2>1, <1>2, DataCallsOK
<1>4. CASE \A i \in 1..Len(todo[t]) : todo[t][i].ep # CtrlEp
  BY <1>4, <1>2 DEF CallsOK
<1>5. CASE ~CreditFlow
  BY <1>5, <1>2 DEF CallsOK
<1> QED
  BY <1>3, <1>4, <1>5 DEF CtrlSide, SideOf

\* Each step inside the layer keeps the side conditions.
LEMMA InsideSide ==
  ASSUME TypeInv, CtrlSide, NEW t \in Threads, Inside(t)
  PROVE  CtrlSide'
<1>t. /\ pc \in [Threads -> PCs] /\ ep \in [Threads -> Eps] /\ ep[t] \in Eps
      /\ todo \in [Threads -> Seq(Calls)] /\ todo[t] \in Seq(Calls)
      /\ st_try \in [Threads -> BOOLEAN] /\ starving \in [Eps -> BOOLEAN]
      /\ CtrlEp \in Eps /\ <<>> \in Seq(Calls)
  BY DataEpsAreEps DEF TypeInv, TypeOK, TypeControl, TypeFlags
<1>s. starving[CtrlEp] = FALSE /\ SideOf(t)
  BY DEF CtrlSide
<1>c. CallsOK(todo[t]) /\ CallsOK(<<>>)
  BY <1>s, DataCallsOK DEF SideOf, CallsOK
<1>1. CASE SchedQueue(t)
  <2>1. CASE StarvingPrevention
    <3>1. /\ pc[t] = "schedq" /\ pc'[t] = "starve" /\ UNCHANGED <<ep, st_try, todo>>
          /\ UNCHANGED starving /\ \A u \in Threads \ {t} : pc'[u] = pc[u]
      BY <1>1, <2>1, <1>t DEF SchedQueue
    <3>2. SideOf(t)'
      BY <3>1, <1>s DEF SideOf, DrainPCs
    <3> QED BY <3>1, <3>2, <1>s, SideFrame
  <2>2. CASE ~StarvingPrevention
    BY <1>1, <2>2, <1>t, <1>s, <1>c, SideReturn DEF SchedQueue
  <2> QED BY <2>1, <2>2
<1>2. CASE SetStarving(t)
  <2>1. ep[t] # CtrlEp
    BY <1>2, <1>s DEF SetStarving, SideOf
  <2>2. starving'[CtrlEp] = FALSE
    BY <1>2, <2>1, <1>t, <1>s DEF SetStarving
  <2> QED
    BY <1>2, <2>2, <1>t, <1>c, SideReturn DEF SetStarving
<1>3. CASE CheckDepth(t)
  <2>1. UNCHANGED starving /\ pc[t] = "depth"
    BY <1>3 DEF CheckDepth, lockVars
  <2>2. CASE Return(t, <<>>)
    BY <2>1, <2>2, <1>t, <1>s, <1>c, SideReturn
  <2>3. CASE /\ pc' = [pc EXCEPT ![t] = ReadFirst("read", "enter")]
             /\ UNCHANGED <<ep, st_try, todo>>
    <3>1. ReadFirst("read", "enter") \notin {"schedq", "starve"}
      BY DEF ReadFirst
    <3> QED
      BY <2>1, <2>3, <3>1, <1>s, SideStep DEF DrainPCs
  <2> QED BY <1>3, <2>2, <2>3 DEF CheckDepth
<1>4. CASE NextCall(t)
  <2>1. /\ UNCHANGED starving /\ pc[t] = "call"
        /\ Tail(todo[t]) \in Seq(Calls) /\ CallsOK(Tail(todo[t]))
    BY <1>4, RestOK DEF NextCall, lockVars
  <2>2. CASE /\ ep' = [ep EXCEPT ![t] = Head(todo[t]).ep]
             /\ todo' = [todo EXCEPT ![t] = Tail(todo[t])]
             /\ pc' = [pc EXCEPT ![t] = ReadFirst("read", "enter")]
             /\ UNCHANGED st_try
    <3>1. /\ pc'[t] \in {"read", "enter"} /\ todo'[t] = Tail(todo[t])
          /\ st_try'[t] = FALSE
          /\ \A u \in Threads \ {t} : /\ pc'[u] = pc[u] /\ ep'[u] = ep[u]
                                      /\ st_try'[u] = st_try[u]
                                      /\ todo'[u] = todo[u]
      BY <2>1, <2>2, <1>t, <1>s DEF ReadFirst, SideOf, DrainPCs
    <3>2. SideOf(t)'
      BY <3>1, <2>1 DEF SideOf, CallsOK
    <3> QED BY <3>1, <3>2, <2>1, <1>s, SideFrame
  <2>3. CASE Return(t, Tail(todo[t]))
    BY <2>1, <2>3, <1>s, SideReturn
  <2>4. ASSUME NEW i \in 1..Len(DataPrio), Return(t, Call("try", DataPrio[i]))
        PROVE  CtrlSide'
    BY <2>1, <2>4, <1>s, SideReturn, DataCallsOK, CallType, DataEpsAreEps
  <2>5. CASE Return(t, <<>>)
    BY <2>1, <2>5, <1>t, <1>s, <1>c, SideReturn
  <2> QED BY <1>4, <2>2, <2>3, <2>4, <2>5 DEF NextCall
<1>5. CASE Enter(t)
  <2>1. UNCHANGED starving /\ pc[t] = "enter"
    BY <1>5 DEF Enter
  <2>2. CASE Return(t, todo[t])
    BY <2>1, <2>2, <1>t, <1>s, <1>c, SideReturn
  <2>3. CASE ~AnotherDrains(ep[t])
    <3>1. /\ pc'[t] = "get" /\ UNCHANGED <<ep, todo, starving>>
          /\ st_try'[t] = starving[ep[t]]
          /\ \A u \in Threads \ {t} : pc'[u] = pc[u] /\ st_try'[u] = st_try[u]
      BY <1>5, <2>3, <1>t DEF Enter
    <3>2. SideOf(t)'
      BY <3>1, <1>s DEF SideOf, DrainPCs
    <3> QED BY <3>1, <3>2, <1>s, SideFrame
  <2> QED BY <1>5, <2>2, <2>3 DEF Enter
<1>6. CASE GetPacket(t)
  <2>1. UNCHANGED <<pc, ep, st_try, todo>>
    BY <1>6 DEF GetPacket
  <2>2. starving'[CtrlEp] = FALSE
    BY <1>6, <1>s, <1>t DEF GetPacket, Spend
  <2> QED BY <2>1, <2>2 DEF CtrlSide, SideOf
<1>7. CASE GetDone(t)
  <2>1. UNCHANGED starving /\ pc[t] = "get"
    BY <1>7 DEF GetDone
  <2>2. CASE Return(t, todo[t])
    BY <2>1, <2>2, <1>t, <1>s, <1>c, SideReturn
  <2>3. CASE /\ pc' = [pc EXCEPT ![t] = "issue"] /\ UNCHANGED <<ep, st_try, todo>>
    BY <2>1, <2>3, <1>s, SideStep DEF DrainPCs
  <2> QED BY <1>7, <2>2, <2>3 DEF GetDone
<1>8. CASE Relock(t)
  <2>1. UNCHANGED starving /\ pc[t] = "relock"
    BY <1>8 DEF Relock
  <2>2. CASE Return(t, todo[t])
    BY <2>1, <2>2, <1>t, <1>s, <1>c, SideReturn
  <2>3. CASE /\ pc' = [pc EXCEPT ![t] = "get"] /\ UNCHANGED <<ep, st_try, todo>>
    BY <2>1, <2>3, <1>s, SideStep DEF DrainPCs
  <2> QED BY <1>8, <2>2, <2>3 DEF Relock
<1>9. CASE ReadResources(t)
  <2>1. /\ UNCHANGED <<starving, ep, st_try, todo>>
        /\ \/ pc[t] = "read" /\ pc'[t] = "enter"
           \/ pc[t] = "reread" /\ pc'[t] = "relock"
        /\ \A u \in Threads \ {t} : pc'[u] = pc[u]
    <3>1. UNCHANGED <<starving, ep, st_try, todo>>
      BY <1>9 DEF ReadResources, lockVars
    <3>2. pc'[t] = IF pc[t] = "read" THEN "enter" ELSE "relock"
      BY <1>9, <1>t DEF ReadResources
    <3>3. pc[t] \in {"read", "reread"} /\ \A u \in Threads \ {t} : pc'[u] = pc[u]
      BY <1>9, <1>t DEF ReadResources
    <3> QED BY <3>1, <3>2, <3>3
  <2>2. SideOf(t)'
    BY <2>1, <1>s DEF SideOf, DrainPCs
  <2> QED BY <2>1, <2>2, <1>s, SideFrame
<1>10. CASE FileLookup(t)
  <2>1. /\ UNCHANGED <<starving, ep, st_try, todo>> /\ pc[t] = "issue"
        /\ pc' = [pc EXCEPT ![t] = "submit"]
    BY <1>10 DEF FileLookup, lockVars
  <2> QED BY <2>1, <1>s, SideStep DEF DrainPCs
<1>11. CASE IssueOk(t) \/ IssueFail(t)
  <2>1. UNCHANGED <<starving, ep, st_try, todo>> /\ pc[t] = "submit"
    BY <1>11 DEF IssueOk, IssueFail
  <2>2. \E l \in {"issue", "reread", "relock"} : pc' = [pc EXCEPT ![t] = l]
    BY <1>11 DEF IssueOk, IssueFail, IssueDone, ReadFirst
  <2> QED BY <2>1, <2>2, <1>s, SideStep DEF DrainPCs
<1> QED
  BY <1>1, <1>2, <1>3, <1>4, <1>5, <1>6, <1>7, <1>8, <1>9, <1>10, <1>11
     DEF Inside

\* Every step keeps the side conditions.
LEMMA NextSide == TypeInv /\ CtrlSide /\ [Next]_vars => CtrlSide'
<1> SUFFICES ASSUME TypeInv, CtrlSide, [Next]_vars PROVE CtrlSide'
  OBVIOUS
<1>t. /\ pc \in [Threads -> PCs] /\ ep \in [Threads -> Eps]
      /\ <<>> \in Seq(Calls) /\ CtrlEp \in Eps
  BY DataEpsAreEps DEF TypeInv, TypeOK, TypeControl
<1>s. starving[CtrlEp] = FALSE /\ \A t \in Threads : SideOf(t)
  BY DEF CtrlSide
<1>1. ASSUME NEW t \in Threads, NEW p \in Packets, Send(t, p)
      PROVE  CtrlSide'
  <2>1. /\ UNCHANGED <<starving, st_try, todo>> /\ pc[t] = "idle"
        /\ ep'[t] = PktEp[p]
        /\ pc'[t] = IF SinglePipe /\ ~SchedCheck(PktEp[p]) THEN "schedq" ELSE "depth"
        /\ \A u \in Threads \ {t} : pc'[u] = pc[u] /\ ep'[u] = ep[u]
    BY <1>1, <1>t DEF Send, lockVars
  <2>2. pc'[t] = "schedq" => ep'[t] # CtrlEp
    BY <2>1 DEF SchedCheck
  <2>3. SideOf(t)
    BY <1>s
  <2>4. SideOf(t)'
    BY <2>1, <2>2, <2>3 DEF SideOf, DrainPCs
  <2> QED BY <2>1, <2>4, <1>s, SideFrame
<1>2. ASSUME NEW t \in Threads, NEW p \in Packets, TxCompletion(t, p)
      PROVE  CtrlSide'
  <2> DEFINE last == Call(IF SinglePipe /\ PktEp[p] # CtrlEp THEN "pick" ELSE "try",
                          PktEp[p])
             next == StarvingCalls(PktEp[p]) \o (IF CreditFlow THEN <<>> ELSE last)
  <2>1. Return(t, next) /\ UNCHANGED starving
    BY <1>2 DEF TxCompletion, lockVars
  <2>2. PktEp[p] \in Eps /\ StarvingCalls(PktEp[p]) \in Seq(Calls)
    BY StarvingCallsType, ConstantsOK DEF ConstantsOK
  <2>3. last \in Seq(Calls)
    BY <2>2, CallType
  <2>4. next \in Seq(Calls) /\ (CreditFlow => next = StarvingCalls(PktEp[p]))
    <3> DEFINE s == StarvingCalls(PktEp[p])
    <3>1. s \in Seq(Calls) /\ last \in Seq(Calls)
      BY <2>2, <2>3
    <3> HIDE DEF s, last
    <3>2. s \o <<>> = s /\ s \o last \in Seq(Calls)
      BY <3>1
    <3>3. next = IF CreditFlow THEN s \o <<>> ELSE s \o last
      BY DEF s
    <3> QED BY <3>1, <3>2, <3>3 DEF s
  <2>5. CallsOK(next)
    <3>1. CASE CreditFlow
      BY <3>1, <2>4, DataCallsOK
    <3>2. CASE ~CreditFlow
      BY <3>2 DEF CallsOK
    <3> QED BY <3>1, <3>2
  <2> HIDE DEF next
  <2> QED BY <2>1, <2>4, <2>5, <1>s, SideReturn
<1>3. ASSUME NEW t \in Threads, NEW n \in 1..TgtCreds, DataCreditReport(t, n)
      PROVE  CtrlSide'
  <2>1. PICK i \in 1..Len(DataPrio) :
          Return(t, StarvingCalls(DataPrio[i]) \o Call("try", DataPrio[i]))
    BY <1>3 DEF DataCreditReport
  <2>2. StarvingCalls(DataPrio[i]) \o Call("try", DataPrio[i]) \in Seq(Calls)
    <3>1. StarvingCalls(DataPrio[i]) \in Seq(Calls)
      BY StarvingCallsType
    <3>2. Call("try", DataPrio[i]) \in Seq(Calls)
      BY CallType, DataEpsAreEps
    <3> QED BY <3>1, <3>2
  <2>3. UNCHANGED starving
    BY <1>3 DEF DataCreditReport
  <2> QED BY <2>1, <2>2, <2>3, <1>s, SideReturn, DataCallsOK
<1>4. ASSUME NEW t \in Threads, NEW n \in 1..TgtCreds, CtrlCreditReport(t, n)
      PROVE  CtrlSide'
  <2>1. /\ UNCHANGED starving
        /\ Return(t, IF txq[CtrlEp] # <<>> THEN Call("try", CtrlEp) ELSE <<>>)
    BY <1>4 DEF CtrlCreditReport
  <2>2. Call("try", CtrlEp) \in Seq(Calls)
    BY CallType, <1>t
  <2>3. CASE txq[CtrlEp] # <<>>
    BY <2>1, <2>2, <2>3, <1>s, SideReturn, DataCallsOK
  <2>4. CASE txq[CtrlEp] = <<>>
    BY <2>1, <2>4, <1>s, <1>t, SideReturn, DataCallsOK
  <2> QED BY <2>3, <2>4
<1>5. ASSUME NEW t \in Threads, CtlEpTimer(t)
      PROVE  CtrlSide'
  <2>1. UNCHANGED starving /\ Return(t, Call("try", CtrlEp))
    BY <1>5 DEF CtlEpTimer, TimerCalls
  <2>2. Call("try", CtrlEp) \in Seq(Calls)
    BY CallType, <1>t
  <2> QED BY <2>1, <2>2, <1>s, SideReturn, DataCallsOK
<1>6. ASSUME UNCHANGED <<starving, pc, ep, st_try, todo>>
      PROVE  CtrlSide'
  BY <1>6 DEF CtrlSide, SideOf
<1>7. ASSUME NEW t \in Threads, NEW e \in Eps, FlushTxEndpoint(t, e)
      PROVE  CtrlSide'
  BY <1>6, <1>7 DEF FlushTxEndpoint, localVars
<1>8. ASSUME NEW p \in Packets, UrbComplete(p)
      PROVE  CtrlSide'
  BY <1>6, <1>8 DEF UrbComplete, lockVars, localVars
<1>9. CASE LoseCtrlCredit
  BY <1>6, <1>9 DEF LoseCtrlCredit, lockVars, localVars
<1>10. CASE UNCHANGED vars
  BY <1>6, <1>10 DEF vars, lockVars, localVars
<1> QED
  BY <1>1, <1>2, <1>3, <1>4, <1>5, <1>7, <1>8, <1>9, <1>10, InsideSide
     DEF Next, Threads

-----------------------------------------------------------------------------
(* Nobody forgets the control queue *)

\* A step of t that empties no hand: the queue does not become busy, the
\* watchdog is not cancelled and t attends the control queue if it did before.
LEMMA AttendFrame ==
  ASSUME CtrlNeverForgotten, NEW t \in Threads,
         txq[CtrlEp] = <<>> => txq'[CtrlEp] = <<>>,
         ctl_ep_wd_timer => ctl_ep_wd_timer',
         Attended(t, CtrlEp) => Attended(t, CtrlEp)',
         \A u \in Threads \ {t} :
           pc'[u] = pc[u] /\ ep'[u] = ep[u] /\ todo'[u] = todo[u]
  PROVE  CtrlNeverForgotten'
<1>1. \A u \in Threads \ {t} : Attended(u, CtrlEp) => Attended(u, CtrlEp)'
  BY DEF Attended, Draining
<1> QED
  BY <1>1 DEF CtrlNeverForgotten

\* Whoever attends the queue after the step will do.
LEMMA AttendNow ==
  ASSUME NEW t \in Threads, Attended(t, CtrlEp)'
  PROVE  CtrlNeverForgotten'
BY DEF CtrlNeverForgotten

\* Each step inside the layer leaves somebody, or the watchdog, to attend the
\* control queue.
LEMMA InsideAttends ==
  ASSUME TypeInv, SingleDrainer, CtrlSide, CtrlNeverForgotten,
         NEW t \in Threads, Inside(t)
  PROVE  CtrlNeverForgotten'
<1>t. /\ pc \in [Threads -> PCs] /\ ep \in [Threads -> Eps] /\ ep[t] \in Eps
      /\ todo \in [Threads -> Seq(Calls)] /\ txq \in [Eps -> Seq(Packets)]
      /\ CtrlEp \in Eps
  BY DataEpsAreEps DEF TypeInv, TypeOK, TypeControl, TypeQueues
<1>s. SideOf(t)
  BY DEF CtrlSide
<1>r. ASSUME NEW next, Return(t, next)
      PROVE  \A u \in Threads \ {t} :
               pc'[u] = pc[u] /\ ep'[u] = ep[u] /\ todo'[u] = todo[u]
  BY <1>r, <1>t DEF Return
<1>1. CASE SchedQueue(t)
  <2>1. /\ pc[t] = "schedq" /\ ep[t] # CtrlEp /\ UNCHANGED ctl_ep_wd_timer
        /\ \/ UNCHANGED txq
           \/ txq' = [txq EXCEPT ![ep[t]] = Append(@, packet[t])]
    BY <1>1, <1>s DEF SchedQueue, SideOf
  <2>2. txq'[CtrlEp] = txq[CtrlEp] /\ ~Attended(t, CtrlEp)
    BY <2>1, <1>t DEF Attended, Draining
  <2>3. \A u \in Threads \ {t} :
           pc'[u] = pc[u] /\ ep'[u] = ep[u] /\ todo'[u] = todo[u]
    BY <1>1, <1>t, <1>r DEF SchedQueue
  <2> QED BY <2>1, <2>2, <2>3, AttendFrame
<1>2. CASE SetStarving(t)
  <2>1. UNCHANGED <<txq, ctl_ep_wd_timer>> /\ ~Attended(t, CtrlEp)
    BY <1>2 DEF SetStarving, Attended, Draining
  <2> QED BY <1>2, <2>1, <1>r, AttendFrame DEF SetStarving
<1>3. CASE CheckDepth(t)
  <2>1. UNCHANGED <<txq, ctl_ep_wd_timer>> /\ ~Attended(t, CtrlEp)
    BY <1>3 DEF CheckDepth, Attended, Draining, lockVars
  <2>2. \A u \in Threads \ {t} :
           pc'[u] = pc[u] /\ ep'[u] = ep[u] /\ todo'[u] = todo[u]
    BY <1>3, <1>t, <1>r DEF CheckDepth
  <2> QED BY <2>1, <2>2, AttendFrame
<1>4. CASE NextCall(t)
  <2>1. UNCHANGED <<txq, ctl_ep_wd_timer>> /\ pc[t] = "call"
    BY <1>4 DEF NextCall, lockVars
  <2>2. \A u \in Threads \ {t} :
           pc'[u] = pc[u] /\ ep'[u] = ep[u] /\ todo'[u] = todo[u]
    BY <1>4, <1>t, <1>r DEF NextCall
  <2>3. CASE ~CreditFlow
    BY <2>3 DEF CtrlNeverForgotten
  <2>4. CASE \A i \in 1..Len(todo[t]) : todo[t][i].ep # CtrlEp
    <3>1. ~Attended(t, CtrlEp)
      BY <2>1, <2>4 DEF Attended, Draining
    <3> QED BY <2>1, <2>2, <3>1, AttendFrame
  <2>5. CASE Head(todo[t]) = [how |-> "try", ep |-> CtrlEp]
    <3>1. /\ ep' = [ep EXCEPT ![t] = CtrlEp]
          /\ pc' = [pc EXCEPT ![t] = ReadFirst("read", "enter")]
      BY <1>4, <2>5 DEF NextCall
    <3>2. Attended(t, CtrlEp)'
      BY <3>1, <1>t DEF Attended, ReadFirst
    <3> QED BY <3>2, AttendNow
  <2> QED BY <2>1, <2>3, <2>4, <2>5, RestOK
<1>5. CASE Enter(t)
  <2>1. CASE ep[t] # CtrlEp
    <3>1. /\ UNCHANGED ctl_ep_wd_timer /\ txq'[CtrlEp] = txq[CtrlEp]
          /\ ~Attended(t, CtrlEp)
      BY <1>5, <2>1, <1>t DEF Enter, Attended, Draining
    <3>2. \A u \in Threads \ {t} :
             pc'[u] = pc[u] /\ ep'[u] = ep[u] /\ todo'[u] = todo[u]
      BY <1>5, <1>t, <1>r DEF Enter
    <3> QED BY <3>1, <3>2, AttendFrame
  <2>2. CASE ep[t] = CtrlEp /\ AnotherDrains(ep[t])
    <3>1. PICK u \in Threads : Draining(u, CtrlEp)
      BY <2>2, <1>t DEF AnotherDrains, SingleDrainer
    <3>2. u # t /\ Return(t, todo[t])
      BY <1>5, <2>2, <3>1 DEF Enter, Draining
    <3>3. Attended(u, CtrlEp)'
      BY <3>1, <3>2, <1>r DEF Attended, Draining
    <3> QED BY <3>3, AttendNow
  <2>3. CASE ep[t] = CtrlEp /\ ~AnotherDrains(ep[t])
    <3>1. pc' = [pc EXCEPT ![t] = "get"] /\ UNCHANGED ep
      BY <1>5, <2>3 DEF Enter
    <3>2. Attended(t, CtrlEp)'
      BY <3>1, <2>3, <1>t DEF Attended, Draining
    <3> QED BY <3>2, AttendNow
  <2> QED BY <2>1, <2>2, <2>3
<1>6. CASE GetPacket(t)
  <2>1. UNCHANGED <<pc, ep, todo, ctl_ep_wd_timer>> /\ pc[t] = "get"
        /\ txq' = [txq EXCEPT ![ep[t]] = Tail(@)]
    BY <1>6 DEF GetPacket
  <2>2. CASE ep[t] = CtrlEp
    BY <2>1, <2>2, AttendNow DEF Attended, Draining
  <2>3. CASE ep[t] # CtrlEp
    <3>1. txq'[CtrlEp] = txq[CtrlEp] /\ ~Attended(t, CtrlEp)
      BY <2>1, <2>3, <1>t DEF Attended, Draining
    <3> QED BY <2>1, <3>1, AttendFrame
  <2> QED BY <2>2, <2>3
<1>7. CASE GetDone(t)
  <2>1. UNCHANGED txq /\ (ctl_ep_wd_timer => ctl_ep_wd_timer') /\ pc[t] = "get"
    BY <1>7 DEF GetDone
  <2>2. CASE send_queue[t] # <<>>
    <3>1. pc' = [pc EXCEPT ![t] = "issue"] /\ UNCHANGED <<ep, todo>>
      BY <1>7, <2>2 DEF GetDone
    <3>2. Attended(t, CtrlEp) => Attended(t, CtrlEp)'
      BY <2>1, <3>1, <1>t DEF Attended, Draining
    <3> QED BY <2>1, <3>1, <3>2, <1>t, AttendFrame
  <2>3. CASE send_queue[t] = <<>> /\ ep[t] # CtrlEp
    <3>1. ~Attended(t, CtrlEp)
      BY <2>1, <2>3 DEF Attended, Draining
    <3> QED BY <1>7, <2>1, <2>3, <3>1, <1>r, AttendFrame DEF GetDone
  <2>4. CASE send_queue[t] = <<>> /\ ep[t] = CtrlEp
    <3>1. CreditFlow /\ txq[CtrlEp] # <<>> => ctl_ep_wd_timer'
      BY <1>7, <2>4 DEF GetDone, CanTake, ArmWatchdog
    <3> QED BY <2>1, <3>1 DEF CtrlNeverForgotten
  <2> QED BY <2>2, <2>3, <2>4
<1>8. CASE Relock(t)
  <2>1. UNCHANGED <<txq, ctl_ep_wd_timer>> /\ pc[t] = "relock"
    BY <1>8 DEF Relock
  <2>2. CASE ~st_try[t]
    <3>1. pc' = [pc EXCEPT ![t] = "get"] /\ UNCHANGED <<ep, todo>>
      BY <1>8, <2>2 DEF Relock
    <3>2. Attended(t, CtrlEp) => Attended(t, CtrlEp)'
      BY <2>1, <3>1, <1>t DEF Attended, Draining
    <3> QED BY <2>1, <3>1, <3>2, <1>t, AttendFrame
  <2>3. CASE st_try[t]
    <3>1. ~Attended(t, CtrlEp)
      BY <2>1, <2>3, <1>s DEF Attended, Draining, SideOf
    <3> QED BY <1>8, <2>1, <2>3, <3>1, <1>r, AttendFrame DEF Relock
  <2> QED BY <2>2, <2>3
<1>9. CASE ReadResources(t)
  <2>1. UNCHANGED <<txq, ctl_ep_wd_timer, ep, todo>>
        /\ \A u \in Threads \ {t} : pc'[u] = pc[u]
    BY <1>9, <1>t DEF ReadResources, lockVars
  <2>2. pc[t] \in {"read", "reread"}
        /\ pc'[t] = IF pc[t] = "read" THEN "enter" ELSE "relock"
    BY <1>9, <1>t DEF ReadResources
  <2>3. Attended(t, CtrlEp) => Attended(t, CtrlEp)'
    BY <2>1, <2>2 DEF Attended, Draining
  <2> QED BY <2>1, <2>3, AttendFrame
<1>10. CASE FileLookup(t) \/ IssueOk(t)
  <2>1. UNCHANGED <<txq, ctl_ep_wd_timer, ep, todo>> /\ pc[t] \in {"issue", "submit"}
    BY <1>10 DEF FileLookup, IssueOk, lockVars
  <2>2. /\ pc'[t] \in {"submit", "issue", "reread", "relock"}
        /\ \A u \in Threads \ {t} : pc'[u] = pc[u]
    BY <1>10, <1>t DEF FileLookup, IssueOk, IssueDone, ReadFirst
  <2>3. Attended(t, CtrlEp) => Attended(t, CtrlEp)'
    BY <2>1, <2>2 DEF Attended, Draining
  <2> QED BY <2>1, <2>2, <2>3, AttendFrame
<1>11. CASE IssueFail(t)
  <2>1. /\ UNCHANGED <<txq, ep, todo>> /\ pc[t] = "submit"
        /\ ep[t] # CtrlEp => UNCHANGED ctl_ep_wd_timer
    BY <1>11 DEF IssueFail
  <2>2. /\ pc'[t] \in {"reread", "relock"}
        /\ \A u \in Threads \ {t} : pc'[u] = pc[u]
    BY <1>11, <1>t DEF IssueFail, IssueDone, ReadFirst
  <2>3. CASE ep[t] = CtrlEp
    BY <2>1, <2>2, <2>3, AttendNow DEF Attended, Draining
  <2>4. CASE ep[t] # CtrlEp
    <3>1. ~Attended(t, CtrlEp)
      BY <2>1, <2>4 DEF Attended, Draining
    <3> QED BY <2>1, <2>2, <2>4, <3>1, AttendFrame
  <2> QED BY <2>3, <2>4
<1> QED
  BY <1>1, <1>2, <1>3, <1>4, <1>5, <1>6, <1>7, <1>8, <1>9, <1>10, <1>11
     DEF Inside

\* Every step leaves somebody, or the watchdog, to attend the control queue.
LEMMA NextAttends ==
  TypeInv /\ SingleDrainer /\ CtrlSide /\ CtrlNeverForgotten /\ [Next]_vars
    => CtrlNeverForgotten'
<1> SUFFICES ASSUME TypeInv, SingleDrainer, CtrlSide, CtrlNeverForgotten,
                    [Next]_vars
             PROVE  CtrlNeverForgotten'
  OBVIOUS
<1>t. /\ pc \in [Threads -> PCs] /\ ep \in [Threads -> Eps] /\ CtrlEp \in Eps
      /\ todo \in [Threads -> Seq(Calls)] /\ txq \in [Eps -> Seq(Packets)]
  BY DataEpsAreEps DEF TypeInv, TypeOK, TypeControl, TypeQueues
<1>i. \A t \in Threads : pc[t] = "idle" => ~Attended(t, CtrlEp)
  BY DEF Attended, Draining
<1>r. ASSUME NEW t \in Threads, NEW next, Return(t, next)
      PROVE  /\ pc'[t] = IF next = <<>> THEN "idle" ELSE "call"
             /\ todo'[t] = next
             /\ \A u \in Threads \ {t} :
                  pc'[u] = pc[u] /\ ep'[u] = ep[u] /\ todo'[u] = todo[u]
  BY <1>r, <1>t DEF Return
<1>c. ASSUME NEW t \in Threads, Return(t, Call("try", CtrlEp))
      PROVE  Attended(t, CtrlEp)'
  <2>1. pc'[t] = "call" /\ todo'[t] = <<[how |-> "try", ep |-> CtrlEp]>>
    BY <1>c, <1>r DEF Call
  <2> QED BY <2>1 DEF Attended
<1>1. ASSUME NEW t \in Threads, NEW p \in Packets, Send(t, p)
      PROVE  CtrlNeverForgotten'
  BY <1>1, <1>t, <1>i, AttendFrame DEF Send, lockVars
<1>2. ASSUME NEW t \in Threads, NEW p \in Packets, TxCompletion(t, p)
      PROVE  CtrlNeverForgotten'
  BY <1>2, <1>r, <1>i, AttendFrame DEF TxCompletion, lockVars
<1>3. ASSUME NEW t \in Threads, NEW n \in 1..TgtCreds, DataCreditReport(t, n)
      PROVE  CtrlNeverForgotten'
  BY <1>3, <1>r, <1>i, AttendFrame DEF DataCreditReport
<1>4. ASSUME NEW t \in Threads, NEW n \in 1..TgtCreds, CtrlCreditReport(t, n)
      PROVE  CtrlNeverForgotten'
  <2>1. UNCHANGED txq
    BY <1>4 DEF CtrlCreditReport
  <2>2. CASE txq[CtrlEp] = <<>>
    BY <2>1, <2>2 DEF CtrlNeverForgotten
  <2>3. CASE txq[CtrlEp] # <<>>
    BY <1>4, <2>3, <1>c, AttendNow DEF CtrlCreditReport
  <2> QED BY <2>2, <2>3
<1>5. ASSUME NEW t \in Threads, CtlEpTimer(t)
      PROVE  CtrlNeverForgotten'
  BY <1>5, <1>c, AttendNow DEF CtlEpTimer, TimerCalls
<1>6. ASSUME UNCHANGED <<pc, ep, todo, ctl_ep_wd_timer>>,
             txq[CtrlEp] = <<>> => txq'[CtrlEp] = <<>>
      PROVE  CtrlNeverForgotten'
  BY <1>6 DEF CtrlNeverForgotten, Attended, Draining
<1>7. ASSUME NEW t \in Threads, NEW e \in Eps, FlushTxEndpoint(t, e)
      PROVE  CtrlNeverForgotten'
  <2>1. txq[CtrlEp] = <<>> => txq'[CtrlEp] = <<>>
    BY <1>7, <1>t DEF FlushTxEndpoint
  <2> QED BY <2>1, <1>6, <1>7 DEF FlushTxEndpoint, localVars
<1>8. ASSUME NEW p \in Packets, UrbComplete(p)
      PROVE  CtrlNeverForgotten'
  BY <1>6, <1>8 DEF UrbComplete, lockVars, localVars
<1>9. CASE LoseCtrlCredit
  BY <1>6, <1>9 DEF LoseCtrlCredit, lockVars, localVars
<1>10. CASE UNCHANGED vars
  BY <1>6, <1>10 DEF vars, lockVars, localVars
<1> QED
  BY <1>1, <1>2, <1>3, <1>4, <1>5, <1>7, <1>8, <1>9, <1>10, InsideAttends
     DEF Next, Threads

\* A queued control packet always has a thread that drains its endpoint or is
\* about to, or the pending watchdog: none of the contexts that leave
\* htc_try_send, cancel the watchdog or take its credit leaves it behind.
THEOREM CtrlNeverForgottenHolds == Spec => []CtrlNeverForgotten
<1>1. Init => SingleDrainer
  BY DEF Init, SingleDrainer, Draining
<1>2. Init => CtrlSide
  BY DataEpsAreEps DEF Init, CtrlSide, SideOf
<1>3. Init => CtrlNeverForgotten
  BY DataEpsAreEps DEF Init, CtrlNeverForgotten
<1> QED
  BY <1>1, <1>2, <1>3, InitTypeInv, NextTypeInv, NextSingleDrainer, NextSide,
     NextAttends, PTL DEF Spec
=============================================================================
