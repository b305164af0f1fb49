----------------------------- MODULE UsbIoProofs -----------------------------
(***************************************************************************)
(* Theorems about one pipe of the USB host interface, for every number of  *)
(* workers, URB contexts, buffers and failed transfers.                    *)
(***************************************************************************)
EXTENDS UsbIo, FiniteSetTheorems, SequenceTheorems, TLAPS

-----------------------------------------------------------------------------
(* Types.  The bounds of the URB counters follow from UrbConserved, so the
   inductive invariant has only their signs. *)

Submitting == {"submit", "submit_loose"}

WorkerPCs == {"idle", "test", "loop", "hand", "resched", "recheck", "clear",
              "post"} \cup Submitting
IrqPCs == {"idle", "queue", "sched", "free", "check", "post"} \cup Submitting
CtlPCs == {"idle", "kill", "flush", "post"} \cup Submitting
SndPCs == {"idle"} \cup Submitting
PCs == WorkerPCs \cup IrqPCs \cup CtlPCs

PcOK ==
  /\ pc \in [Contexts -> PCs]
  /\ \A w \in Workers : pc[w] \in WorkerPCs
  /\ pc["irq"] \in IrqPCs /\ pc["ctl"] \in CtlPCs /\ pc["snd"] \in SndPCs

PoolOK ==
  /\ urb_cnt \in Nat /\ urb_submitted \in Nat /\ loose \in Nat
  /\ urb_cnt_thresh_out \in {0, UrbMcc}

QueueOK ==
  /\ io_comp_queue \in Seq(Nat \ {0}) /\ handed \in Seq(Nat)
  /\ completed \in Nat /\ errs \in Nat
  /\ n \in [Workers -> Nat] /\ buf \in [Workers -> Nat]

FlagsOK ==
  /\ dir \in {"tx", "rx"} /\ reentrant \in BOOLEAN
  /\ worker_lock \in BOOLEAN /\ rx_completion \in BOOLEAN
  /\ phase \in {"off", "on", "asleep", "detached", "destroyed", "freed"}
  /\ pending \in BOOLEAN /\ awaited \in Workers \cup {"none", "queued"}
  /\ status \in Statuses
  /\ lost \in BOOLEAN /\ oops \in BOOLEAN

TypeInv == PcOK /\ PoolOK /\ QueueOK /\ FlagsOK

LEMMA InitTypeInv == Init => TypeInv
<1> SUFFICES ASSUME Init PROVE TypeInv
  OBVIOUS
<1>1. dir \in {"tx", "rx"} /\ reentrant \in BOOLEAN
  <2>1. PICK s \in Setups : dir = s[1] /\ reentrant = s[2]
    BY DEF Init
  <2>2. s \in {"tx", "rx"} \X BOOLEAN
    BY UsbConstants DEF UsbConstants
  <2> QED BY <2>1, <2>2
<1>2. PcOK
  BY DEF Init, PcOK, PCs, WorkerPCs, IrqPCs, CtlPCs, SndPCs, Contexts
<1>3. PoolOK
  BY UsbConstants DEF UsbConstants, Init, PoolOK
<1>4. QueueOK
  BY DEF Init, QueueOK, NoBuf
<1>5. FlagsOK
  BY <1>1 DEF Init, FlagsOK, Statuses
<1> QED BY <1>2, <1>3, <1>4, <1>5 DEF TypeInv

\* Moving one context to a label of its own keeps the labels typed.
LEMMA GotoOK ==
  ASSUME PcOK, NEW c \in Contexts, NEW l, Goto(c, l),
         c \in Workers => l \in WorkerPCs,
         c = "irq" => l \in IrqPCs,
         c = "ctl" => l \in CtlPCs,
         c = "snd" => l \in SndPCs
  PROVE  PcOK'
<1>1. l \in PCs
  BY DEF Contexts, PCs, SndPCs, WorkerPCs
<1>2. pc' \in [Contexts -> PCs]
  BY <1>1 DEF PcOK, Goto
<1>3. \A d \in Contexts : pc'[d] = IF d = c THEN l ELSE pc[d]
  BY DEF PcOK, Goto
<1> QED
  BY <1>2, <1>3, UsbConstants DEF UsbConstants, PcOK, Contexts

LEMMA PcFrame == ASSUME PcOK, UNCHANGED pc PROVE PcOK'
BY DEF PcOK

-----------------------------------------------------------------------------
(* One lemma per group of variables; each action changes few of them. *)

AllSteps(st, c) ==
  \/ SetMaxQueueNumber \/ SendTake \/ SendSubmit
  \/ Giveback(st) \/ Irq
  \/ c \in Workers /\ (WorkStart(c) \/ Work(c))
  \/ PostTake(c) \/ PostSubmit(c) \/ KillUnsubmitted(c)
  \/ Control

LEMMA PcStep ==
  ASSUME TypeInv, NEW st \in Statuses, NEW c \in Contexts,
         AllSteps(st, c)
  PROVE  PcOK'
<1> USE DEF TypeInv, UsbConstants, Contexts, WorkerPCs, IrqPCs, CtlPCs, SndPCs, Submitting
<1>1. CASE SetMaxQueueNumber
  BY <1>1, PcFrame DEF SetMaxQueueNumber
<1>2. CASE SendTake
  BY <1>2, GotoOK, UsbConstants DEF SendTake, AllocUrb, UrbAvailable
<1>3. CASE SendSubmit
  BY <1>3, GotoOK, UsbConstants DEF SendSubmit, Submit, ReturnUrb
<1>4. CASE Giveback(st)
  BY <1>4, GotoOK, UsbConstants DEF Giveback, MayComplete
<1>5. CASE IrqQueue
  BY <1>5, GotoOK, UsbConstants DEF IrqQueue
<1>6. CASE IrqSched
  BY <1>6, GotoOK, UsbConstants DEF IrqSched
<1>7. CASE IrqFree
  BY <1>7, GotoOK, UsbConstants DEF IrqFree, ReturnUrb
<1>8. CASE IrqCheck
  BY <1>8, GotoOK, UsbConstants DEF IrqCheck
<1>9. CASE c \in Workers /\ WorkStart(c)
  BY <1>9, GotoOK, UsbConstants DEF WorkStart
<1>10. CASE c \in Workers /\ WorkTest(c)
  BY <1>10, GotoOK, UsbConstants DEF WorkTest, Return, BitTaken
<1>11. CASE c \in Workers /\ WorkDequeue(c)
  BY <1>11, GotoOK, UsbConstants DEF WorkDequeue
<1>12. CASE c \in Workers /\ WorkHand(c)
  BY <1>12, GotoOK, UsbConstants DEF WorkHand, NoBuf
<1>13. CASE c \in Workers /\ WorkResched(c)
  BY <1>13, GotoOK, UsbConstants DEF WorkResched, Return, Resched
<1>14. CASE c \in Workers /\ WorkRecheck(c)
  BY <1>14, GotoOK, UsbConstants DEF WorkRecheck
<1>15. CASE c \in Workers /\ WorkClear(c)
  BY <1>15, GotoOK, UsbConstants DEF WorkClear, Return
<1>16. CASE PostTake(c)
  BY <1>16, GotoOK, UsbConstants DEF PostTake, AllocUrb, UrbAvailable, AfterPost, CtlOn
<1>17. CASE PostSubmit(c)
  BY <1>17, GotoOK, UsbConstants DEF PostSubmit, Submit, ReturnUrb, AfterPost, CtlOn
<1>18. CASE KillUnsubmitted(c)
  BY <1>18, GotoOK, UsbConstants DEF KillUnsubmitted
<1>19. CASE PowerOn
  BY <1>19, GotoOK, UsbConstants DEF PowerOn, Ctl
<1>20. CASE Suspend
  BY <1>20, GotoOK, UsbConstants DEF Suspend, Ctl
<1>21. CASE Resume
  BY <1>21, GotoOK, UsbConstants DEF Resume, Ctl
<1>22. CASE PowerOff
  BY <1>22, GotoOK, UsbConstants DEF PowerOff, Ctl
<1>23. CASE Destroy
  BY <1>23, GotoOK, UsbConstants DEF Destroy, Ctl
<1>24. CASE FlushWork
  BY <1>24, GotoOK, UsbConstants DEF FlushWork
<1>25. CASE FlushDone
  BY <1>25, GotoOK, UsbConstants DEF FlushDone
<1> QED
  BY <1>1, <1>2, <1>3, <1>4, <1>5, <1>6, <1>7, <1>8, <1>9, <1>10, <1>11, <1>12, <1>13, <1>14, <1>15, <1>16, <1>17, <1>18, <1>19, <1>20, <1>21, <1>22, <1>23, <1>24, <1>25
     DEF AllSteps, Irq, Work, Control

LEMMA PoolStep ==
  ASSUME TypeInv, NEW st \in Statuses, NEW c \in Contexts,
         AllSteps(st, c)
  PROVE  PoolOK'
<1> USE DEF TypeInv, PoolOK, poolVars
<1>1. CASE SetMaxQueueNumber
  BY <1>1 DEF SetMaxQueueNumber
<1>2. CASE SendTake
  BY <1>2 DEF SendTake, AllocUrb, UrbAvailable
<1>3. CASE SendSubmit
  BY <1>3 DEF SendSubmit, Submit, ReturnUrb
<1>4. CASE Giveback(st)
  BY <1>4 DEF Giveback, MayComplete
<1>5. CASE IrqQueue
  BY <1>5 DEF IrqQueue
<1>6. CASE IrqSched
  BY <1>6 DEF IrqSched
<1>7. CASE IrqFree
  BY <1>7 DEF IrqFree, ReturnUrb
<1>8. CASE IrqCheck
  BY <1>8 DEF IrqCheck
<1>9. CASE c \in Workers /\ WorkStart(c)
  BY <1>9 DEF WorkStart
<1>10. CASE c \in Workers /\ WorkTest(c)
  BY <1>10 DEF WorkTest, Return, BitTaken
<1>11. CASE c \in Workers /\ WorkDequeue(c)
  BY <1>11 DEF WorkDequeue
<1>12. CASE c \in Workers /\ WorkHand(c)
  BY <1>12 DEF WorkHand, NoBuf
<1>13. CASE c \in Workers /\ WorkResched(c)
  BY <1>13 DEF WorkResched, Return, Resched
<1>14. CASE c \in Workers /\ WorkRecheck(c)
  BY <1>14 DEF WorkRecheck
<1>15. CASE c \in Workers /\ WorkClear(c)
  BY <1>15 DEF WorkClear, Return
<1>16. CASE PostTake(c)
  BY <1>16 DEF PostTake, AllocUrb, UrbAvailable, AfterPost, CtlOn
<1>17. CASE PostSubmit(c)
  BY <1>17 DEF PostSubmit, Submit, ReturnUrb, AfterPost, CtlOn
<1>18. CASE KillUnsubmitted(c)
  BY <1>18 DEF KillUnsubmitted
<1>19. CASE PowerOn
  BY <1>19 DEF PowerOn, Ctl
<1>20. CASE Suspend
  BY <1>20 DEF Suspend, Ctl
<1>21. CASE Resume
  BY <1>21 DEF Resume, Ctl
<1>22. CASE PowerOff
  BY <1>22 DEF PowerOff, Ctl
<1>23. CASE Destroy
  BY <1>23 DEF Destroy, Ctl
<1>24. CASE FlushWork
  BY <1>24 DEF FlushWork
<1>25. CASE FlushDone
  BY <1>25 DEF FlushDone
<1> QED
  BY <1>1, <1>2, <1>3, <1>4, <1>5, <1>6, <1>7, <1>8, <1>9, <1>10, <1>11, <1>12, <1>13, <1>14, <1>15, <1>16, <1>17, <1>18, <1>19, <1>20, <1>21, <1>22, <1>23, <1>24, <1>25
     DEF AllSteps, Irq, Work, Control

LEMMA QueueStep ==
  ASSUME TypeInv, NEW st \in Statuses, NEW c \in Contexts,
         AllSteps(st, c)
  PROVE  QueueOK'
<1> USE DEF TypeInv, QueueOK, dataVars, workVars
<1>1. CASE SetMaxQueueNumber
  BY <1>1 DEF SetMaxQueueNumber
<1>2. CASE SendTake
  BY <1>2 DEF SendTake, AllocUrb, UrbAvailable
<1>3. CASE SendSubmit
  BY <1>3 DEF SendSubmit, Submit, ReturnUrb
<1>4. CASE Giveback(st)
  BY <1>4 DEF Giveback, MayComplete
<1>5. CASE IrqQueue
  BY <1>5 DEF IrqQueue
<1>6. CASE IrqSched
  BY <1>6 DEF IrqSched
<1>7. CASE IrqFree
  BY <1>7 DEF IrqFree, ReturnUrb
<1>8. CASE IrqCheck
  BY <1>8 DEF IrqCheck
<1>9. CASE c \in Workers /\ WorkStart(c)
  BY <1>9 DEF WorkStart
<1>10. CASE c \in Workers /\ WorkTest(c)
  BY <1>10 DEF WorkTest, Return, BitTaken
<1>11. CASE c \in Workers /\ WorkDequeue(c)
  <2>1. CASE io_comp_queue # <<>>
    <3>1. Head(io_comp_queue) \in Nat /\ Tail(io_comp_queue) \in Seq(Nat \ {0})
      BY <2>1, HeadTailProperties
    <3> QED BY <1>11, <2>1, <3>1 DEF WorkDequeue
  <2>2. CASE io_comp_queue = <<>>
    BY <1>11, <2>2 DEF WorkDequeue
  <2> QED BY <2>1, <2>2
<1>12. CASE c \in Workers /\ WorkHand(c)
  BY <1>12 DEF WorkHand, NoBuf
<1>13. CASE c \in Workers /\ WorkResched(c)
  BY <1>13 DEF WorkResched, Return, Resched
<1>14. CASE c \in Workers /\ WorkRecheck(c)
  BY <1>14 DEF WorkRecheck
<1>15. CASE c \in Workers /\ WorkClear(c)
  BY <1>15 DEF WorkClear, Return
<1>16. CASE PostTake(c)
  BY <1>16 DEF PostTake, AllocUrb, UrbAvailable, AfterPost, CtlOn
<1>17. CASE PostSubmit(c)
  BY <1>17 DEF PostSubmit, Submit, ReturnUrb, AfterPost, CtlOn
<1>18. CASE KillUnsubmitted(c)
  BY <1>18 DEF KillUnsubmitted
<1>19. CASE PowerOn
  BY <1>19 DEF PowerOn, Ctl
<1>20. CASE Suspend
  BY <1>20 DEF Suspend, Ctl
<1>21. CASE Resume
  BY <1>21 DEF Resume, Ctl
<1>22. CASE PowerOff
  BY <1>22 DEF PowerOff, Ctl
<1>23. CASE Destroy
  BY <1>23 DEF Destroy, Ctl
<1>24. CASE FlushWork
  BY <1>24 DEF FlushWork
<1>25. CASE FlushDone
  BY <1>25 DEF FlushDone
<1> QED
  BY <1>1, <1>2, <1>3, <1>4, <1>5, <1>6, <1>7, <1>8, <1>9, <1>10, <1>11, <1>12, <1>13, <1>14, <1>15, <1>16, <1>17, <1>18, <1>19, <1>20, <1>21, <1>22, <1>23, <1>24, <1>25
     DEF AllSteps, Irq, Work, Control

LEMMA FlagsStep ==
  ASSUME TypeInv, NEW st \in Statuses, NEW c \in Contexts,
         AllSteps(st, c)
  PROVE  FlagsOK'
<1> USE DEF TypeInv, FlagsOK, workVars, dataVars, ctlVars
<1>1. CASE SetMaxQueueNumber
  BY <1>1 DEF SetMaxQueueNumber
<1>2. CASE SendTake
  BY <1>2 DEF SendTake, AllocUrb, UrbAvailable
<1>3. CASE SendSubmit
  BY <1>3 DEF SendSubmit, Submit, ReturnUrb
<1>4. CASE Giveback(st)
  BY <1>4 DEF Giveback, MayComplete
<1>5. CASE IrqQueue
  BY <1>5 DEF IrqQueue
<1>6. CASE IrqSched
  BY <1>6 DEF IrqSched, Statuses
<1>7. CASE IrqFree
  BY <1>7 DEF IrqFree, ReturnUrb
<1>8. CASE IrqCheck
  BY <1>8 DEF IrqCheck, Statuses
<1>9. CASE c \in Workers /\ WorkStart(c)
  BY <1>9 DEF WorkStart
<1>10. CASE c \in Workers /\ WorkTest(c)
  BY <1>10 DEF WorkTest, Return, BitTaken
<1>11. CASE c \in Workers /\ WorkDequeue(c)
  BY <1>11 DEF WorkDequeue
<1>12. CASE c \in Workers /\ WorkHand(c)
  BY <1>12 DEF WorkHand, NoBuf
<1>13. CASE c \in Workers /\ WorkResched(c)
  BY <1>13 DEF WorkResched, Return, Resched
<1>14. CASE c \in Workers /\ WorkRecheck(c)
  BY <1>14 DEF WorkRecheck
<1>15. CASE c \in Workers /\ WorkClear(c)
  BY <1>15 DEF WorkClear, Return
<1>16. CASE PostTake(c)
  BY <1>16, ZenonT(30) DEF PostTake, AllocUrb, UrbAvailable, AfterPost, CtlOn
<1>17. CASE PostSubmit(c)
  BY <1>17, ZenonT(30) DEF PostSubmit, Submit, ReturnUrb, AfterPost, CtlOn
<1>18. CASE KillUnsubmitted(c)
  BY <1>18 DEF KillUnsubmitted
<1>19. CASE PowerOn
  BY <1>19 DEF PowerOn, Ctl
<1>20. CASE Suspend
  BY <1>20 DEF Suspend, Ctl
<1>21. CASE Resume
  BY <1>21 DEF Resume, Ctl
<1>22. CASE PowerOff
  BY <1>22 DEF PowerOff, Ctl
<1>23. CASE Destroy
  BY <1>23 DEF Destroy, Ctl
<1>24. CASE FlushWork
  BY <1>24 DEF FlushWork, Running
<1>25. CASE FlushDone
  BY <1>25 DEF FlushDone
<1> QED
  BY <1>1, <1>2, <1>3, <1>4, <1>5, <1>6, <1>7, <1>8, <1>9, <1>10, <1>11, <1>12, <1>13, <1>14, <1>15, <1>16, <1>17, <1>18, <1>19, <1>20, <1>21, <1>22, <1>23, <1>24, <1>25
     DEF AllSteps, Irq, Work, Control

LEMMA TypeStep == TypeInv /\ [Next]_vars => TypeInv'
<1>1. ASSUME TypeInv, Next PROVE TypeInv'
  <2>1. PICK st \in Statuses, c \in Contexts : AllSteps(st, c)
    BY <1>1 DEF Next, AllSteps, Contexts, Statuses
  <2> QED
    BY <1>1, <2>1, PcStep, PoolStep, QueueStep, FlagsStep DEF TypeInv
<1>2. ASSUME TypeInv, UNCHANGED vars PROVE TypeInv'
  BY <1>2 DEF TypeInv, PcOK, PoolOK, QueueOK, FlagsOK, vars, poolVars, workVars,
     dataVars, ctlVars
<1> QED BY <1>1, <1>2

LEMMA TypeInvariant == Spec => []TypeInv
BY InitTypeInv, TypeStep, PTL DEF Spec

-----------------------------------------------------------------------------
(* URB contexts are conserved.  Held is finite in every reachable state, so
   nothing need be assumed about the number of workers. *)

PoolInv == IsFiniteSet(Held) /\ UrbConserved

One(b) == IF b THEN 1 ELSE 0

\* How a step of context c changes the number of contexts that hold a URB.
LEMMA HeldStep ==
  ASSUME TypeInv, IsFiniteSet(Held), NEW c \in Contexts, NEW l, Goto(c, l)
  PROVE  /\ IsFiniteSet(Held') /\ Cardinality(Held) \in Nat
         /\ Cardinality(Held') \in Nat
         /\ Cardinality(Held') = Cardinality(Held) + One(l \in Submitting)
                                   - One(pc[c] \in Submitting)
<1>1. \A d \in Contexts : pc'[d] = IF d = c THEN l ELSE pc[d]
  BY DEF TypeInv, PcOK, Goto
<1>2. CASE l \in Submitting
  <2>1. Held' = Held \cup {c}
    BY <1>1, <1>2 DEF Held, Submitting
  <2>2. c \in Held <=> pc[c] \in Submitting
    BY DEF Held, Submitting
  <2> QED
    BY <2>1, <2>2, <1>2, FS_AddElement, FS_CardinalityType DEF One
<1>3. CASE l \notin Submitting
  <2>1. Held' = Held \ {c}
    BY <1>1, <1>3 DEF Held, Submitting
  <2>2. c \in Held <=> pc[c] \in Submitting
    BY DEF Held, Submitting
  <2> QED
    BY <2>1, <2>2, <1>3, FS_RemoveElement, FS_CardinalityType DEF One
<1> QED BY <1>2, <1>3

\* Only the completion handler changes whether it holds a transfer.
LEMMA IrqHoldsFrame ==
  ASSUME TypeInv, NEW c \in Contexts, NEW l, Goto(c, l), c # "irq", dir' = dir
  PROVE  IrqHolds' <=> IrqHolds
BY DEF TypeInv, PcOK, Goto, IrqHolds, Contexts

LEMMA IrqHoldsStep ==
  ASSUME TypeInv, NEW l, Goto("irq", l), dir' = dir
  PROVE  IrqHolds' <=> l = "free" \/ (dir = "rx" /\ l \in {"queue", "sched"})
BY DEF TypeInv, PcOK, Goto, IrqHolds, Contexts

LEMMA PoolInvStep ==
  ASSUME TypeInv, PoolInv, NEW st \in Statuses, NEW c \in Contexts,
         AllSteps(st, c)
  PROVE  PoolInv'
<1> USE DEF PoolInv, UrbConserved, One, Submitting, poolVars
<1>t. /\ urb_cnt \in Nat /\ urb_submitted \in Nat /\ loose \in Nat
      /\ UrbAlloc \in Nat /\ "irq" \in Contexts /\ "ctl" \in Contexts
      /\ "snd" \in Contexts /\ dir \in {"tx", "rx"}
  BY UsbConstants DEF UsbConstants, TypeInv, PoolOK, FlagsOK, Contexts
<1>1. CASE SetMaxQueueNumber
  BY <1>1 DEF SetMaxQueueNumber, Held, IrqHolds
<1>2. CASE SendTake
  BY <1>2, <1>t, HeldStep, IrqHoldsFrame DEF SendTake, AllocUrb, UrbAvailable
<1>3. CASE SendSubmit
  BY <1>3, <1>t, HeldStep, IrqHoldsFrame DEF SendSubmit, Submit, ReturnUrb
<1>4. CASE Giveback(st)
  BY <1>4, <1>t, HeldStep, IrqHoldsStep DEF Giveback, IrqHolds
<1>5. CASE IrqQueue
  <2>1. pc["irq"] = "queue" /\ Goto("irq", "sched") /\ UNCHANGED <<dir, poolVars>>
    BY <1>5 DEF IrqQueue
  <2>2. IrqHolds' <=> IrqHolds
    BY <2>1, <1>t, IrqHoldsStep DEF IrqHolds
  <2> QED BY <2>1, <2>2, <1>t, HeldStep
<1>6. CASE IrqSched
  BY <1>6, <1>t, HeldStep, IrqHoldsStep DEF IrqSched, IrqHolds
<1>7. CASE IrqFree
  BY <1>7, <1>t, HeldStep, IrqHoldsStep DEF IrqFree, ReturnUrb, IrqHolds
<1>8. CASE IrqCheck
  BY <1>8, <1>t, HeldStep, IrqHoldsStep DEF IrqCheck, IrqHolds
<1>9. CASE c \in Workers /\ WorkStart(c)
  BY <1>9, <1>t, HeldStep, IrqHoldsFrame, UsbConstants DEF UsbConstants, WorkStart, Return
<1>10. CASE c \in Workers /\ WorkTest(c)
  BY <1>10, <1>t, HeldStep, IrqHoldsFrame, UsbConstants DEF UsbConstants, WorkTest, Return
<1>11. CASE c \in Workers /\ WorkDequeue(c)
  <2>1. /\ c # "irq" /\ pc[c] \notin Submitting /\ UNCHANGED <<dir, poolVars>>
        /\ \E l \in WorkerPCs \ Submitting : Goto(c, l)
    BY <1>11, UsbConstants DEF UsbConstants, WorkDequeue, WorkerPCs
  <2> QED BY <2>1, <1>t, HeldStep, IrqHoldsFrame
<1>12. CASE c \in Workers /\ WorkHand(c)
  <2>1. /\ c # "irq" /\ pc[c] \notin Submitting /\ UNCHANGED <<dir, poolVars>>
        /\ \E l \in WorkerPCs \ Submitting : Goto(c, l)
    BY <1>12, UsbConstants DEF UsbConstants, WorkHand, WorkerPCs
  <2> QED BY <2>1, <1>t, HeldStep, IrqHoldsFrame
<1>13. CASE c \in Workers /\ WorkResched(c)
  BY <1>13, <1>t, HeldStep, IrqHoldsFrame, UsbConstants DEF UsbConstants, WorkResched, Return
<1>14. CASE c \in Workers /\ WorkRecheck(c)
  BY <1>14, <1>t, HeldStep, IrqHoldsFrame, UsbConstants DEF UsbConstants, WorkRecheck, Return
<1>15. CASE c \in Workers /\ WorkClear(c)
  BY <1>15, <1>t, HeldStep, IrqHoldsFrame, UsbConstants DEF UsbConstants, WorkClear, Return
<1>16. CASE PostTake(c)
  BY <1>16, <1>t, HeldStep DEF PostTake, AllocUrb, AfterPost, UrbAvailable, IrqHolds, Goto, TypeInv, PcOK
<1>17. CASE PostSubmit(c)
  BY <1>17, <1>t, HeldStep DEF PostSubmit, Submit, ReturnUrb, AfterPost, IrqHolds, Goto, TypeInv, PcOK
<1>18. CASE KillUnsubmitted(c)
  BY <1>18, <1>t, HeldStep, IrqHoldsStep, IrqHoldsFrame DEF KillUnsubmitted, IrqHolds
<1>19. CASE PowerOn
  BY <1>19, <1>t, HeldStep, IrqHoldsFrame DEF PowerOn, Ctl
<1>20. CASE Suspend
  BY <1>20, <1>t, HeldStep, IrqHoldsFrame DEF Suspend, Ctl
<1>21. CASE Resume
  BY <1>21, <1>t, HeldStep, IrqHoldsFrame DEF Resume, Ctl
<1>22. CASE PowerOff
  BY <1>22, <1>t, HeldStep, IrqHoldsFrame DEF PowerOff, Ctl
<1>23. CASE Destroy
  BY <1>23, <1>t, HeldStep, IrqHoldsFrame DEF Destroy, Ctl
<1>24. CASE FlushWork
  BY <1>24, <1>t, HeldStep, IrqHoldsFrame DEF FlushWork
<1>25. CASE FlushDone
  BY <1>25, <1>t, HeldStep, IrqHoldsFrame DEF FlushDone
<1> QED
  BY <1>1, <1>2, <1>3, <1>4, <1>5, <1>6, <1>7, <1>8, <1>9, <1>10, <1>11, <1>12, <1>13, <1>14, <1>15, <1>16, <1>17, <1>18, <1>19, <1>20, <1>21, <1>22, <1>23, <1>24, <1>25
     DEF AllSteps, Irq, Work, Control

LEMMA PoolInvariant == Spec => []PoolInv
<1>1. Init => PoolInv
  <2> SUFFICES ASSUME Init PROVE PoolInv
    OBVIOUS
  <2>1. Held = {} /\ ~IrqHolds
    BY DEF Init, Held, IrqHolds, Contexts
  <2> QED BY <2>1, FS_EmptySet, UsbConstants DEF UsbConstants, Init, PoolInv, UrbConserved
<1>2. TypeInv /\ PoolInv /\ [Next]_vars => PoolInv'
  <2>1. ASSUME TypeInv, PoolInv, Next PROVE PoolInv'
    <3>1. PICK st \in Statuses, c \in Contexts : AllSteps(st, c)
      BY <2>1 DEF Next, AllSteps, Contexts, Statuses
    <3> QED BY <2>1, <3>1, PoolInvStep
  <2>2. ASSUME PoolInv, UNCHANGED vars PROVE PoolInv'
    BY <2>2 DEF PoolInv, UrbConserved, Held, IrqHolds, vars, poolVars
  <2> QED BY <2>1, <2>2
<1> QED BY <1>1, <1>2, TypeInvariant, PTL DEF Spec

\* No URB context is lost or freed twice (alloc_urb_from_pipe against every
\* path that frees), for any number of workers and URBs.
THEOREM UrbConservedHolds == Spec => []UrbConserved
<1>1. PoolInv => UrbConserved
  BY DEF PoolInv
<1> QED BY <1>1, PoolInvariant, PTL

\* The URB counters stay within the pool and every local keeps its type.
THEOREM TypeCorrect == Spec => []TypeOK
<1>1. TypeInv /\ PoolInv => TypeOK
  <2> SUFFICES ASSUME TypeInv, PoolInv PROVE TypeOK
    OBVIOUS
  <2>1. Cardinality(Held) \in Nat
    BY FS_CardinalityType DEF PoolInv
  <2>2. urb_cnt <= UrbAlloc /\ urb_submitted <= UrbAlloc /\ loose <= UrbAlloc
    BY <2>1, UsbConstants DEF UsbConstants, PoolInv, UrbConserved, TypeInv, PoolOK
  <2> QED
    BY <2>2, UsbConstants DEF UsbConstants, TypeInv, TypeOK, PcOK, PoolOK, QueueOK,
       FlagsOK, WorkerPCs, IrqPCs, CtlPCs, SndPCs, Submitting
<1> QED BY <1>1, TypeInvariant, PoolInvariant, PTL

-----------------------------------------------------------------------------
(* WORKER_LOCK_BIT.  The worker between the test of the bit and its clearing
   is the only one; on a kernel that does not run a work item twice there is
   no other worker at all. *)

LockedPCs == {"loop", "hand", "recheck", "clear", "post"} \cup Submitting

LockInv ==
  /\ worker_lock <=> \E w \in Workers : pc[w] \in LockedPCs
  /\ \A v, w \in Workers : pc[v] \in LockedPCs /\ pc[w] \in LockedPCs => v = w
  /\ ~reentrant =>
       \A v, w \in Workers : pc[v] # "idle" /\ pc[w] # "idle" => v = w

\* A step that takes no worker over the test or the clearing of the bit.
LEMMA LockFrame ==
  ASSUME LockInv, UNCHANGED <<worker_lock, reentrant>>,
         \A w \in Workers : /\ pc'[w] \in LockedPCs <=> pc[w] \in LockedPCs
                            /\ pc'[w] = "idle" <=> pc[w] = "idle"
  PROVE  LockInv'
BY DEF LockInv

\* A step of a context that is no worker moves no worker.
LEMMA WorkersStay ==
  ASSUME TypeInv, NEW c \in Contexts \ Workers, NEW l, Goto(c, l)
  PROVE  \A w \in Workers : pc'[w] = pc[w]
BY DEF TypeInv, PcOK, Goto, Contexts

\* Where a worker's step takes it.
LEMMA WorkerMoves ==
  ASSUME TypeInv, NEW c \in Workers, NEW l, Goto(c, l)
  PROVE  pc'[c] = l /\ \A w \in Workers \ {c} : pc'[w] = pc[w]
BY DEF TypeInv, PcOK, Goto, Contexts

LEMMA LockInvStep ==
  ASSUME TypeInv, LockInv, NEW st \in Statuses, NEW c \in Contexts,
         AllSteps(st, c)
  PROVE  LockInv'
<1> USE DEF Submitting, LockedPCs, workVars
<1>c. /\ "irq" \in Contexts \ Workers /\ "ctl" \in Contexts \ Workers
      /\ "snd" \in Contexts \ Workers
  BY UsbConstants DEF UsbConstants, Contexts
<1>1. CASE SetMaxQueueNumber
  BY <1>1, LockFrame DEF SetMaxQueueNumber
<1>2. CASE SendTake
  BY <1>2, <1>c, LockFrame, WorkersStay DEF SendTake
<1>3. CASE SendSubmit
  BY <1>3, <1>c, LockFrame, WorkersStay DEF SendSubmit
<1>4. CASE Giveback(st)
  BY <1>4, <1>c, LockFrame, WorkersStay DEF Giveback
<1>5. CASE IrqQueue
  BY <1>5, <1>c, LockFrame, WorkersStay DEF IrqQueue
<1>6. CASE IrqSched
  BY <1>6, <1>c, LockFrame, WorkersStay DEF IrqSched
<1>7. CASE IrqFree
  BY <1>7, <1>c, LockFrame, WorkersStay DEF IrqFree
<1>8. CASE IrqCheck
  BY <1>8, <1>c, LockFrame, WorkersStay DEF IrqCheck
<1>9. CASE c \in Workers /\ WorkStart(c)
  BY <1>9, WorkerMoves DEF LockInv, WorkStart, MayStart, Running
<1>10. CASE c \in Workers /\ WorkTest(c)
  BY <1>10, WorkerMoves DEF LockInv, WorkTest, BitTaken, Return
<1>11. CASE c \in Workers /\ WorkDequeue(c)
  BY <1>11, LockFrame, WorkerMoves DEF WorkDequeue
<1>12. CASE c \in Workers /\ WorkHand(c)
  BY <1>12, WorkerMoves DEF LockInv, WorkHand
<1>13. CASE c \in Workers /\ WorkResched(c)
  BY <1>13, WorkerMoves DEF LockInv, WorkResched, Return
<1>14. CASE c \in Workers /\ WorkRecheck(c)
  BY <1>14, LockFrame, WorkerMoves DEF WorkRecheck
<1>15. CASE c \in Workers /\ WorkClear(c)
  BY <1>15, WorkerMoves DEF LockInv, WorkClear, Return
<1>16. CASE PostTake(c)
  <2>1. CASE c \in Workers
    BY <1>16, <2>1, LockFrame, WorkerMoves DEF PostTake, AfterPost
  <2>2. CASE c \notin Workers
    BY <1>16, <2>2, LockFrame, WorkersStay DEF PostTake
  <2> QED BY <2>1, <2>2
<1>17. CASE PostSubmit(c)
  <2>1. CASE c \in Workers
    BY <1>17, <2>1, LockFrame, WorkerMoves DEF PostSubmit, AfterPost
  <2>2. CASE c \notin Workers
    BY <1>17, <2>2, LockFrame, WorkersStay DEF PostSubmit
  <2> QED BY <2>1, <2>2
<1>18. CASE KillUnsubmitted(c)
  <2>1. CASE c \in Workers
    BY <1>18, <2>1, LockFrame, WorkerMoves DEF KillUnsubmitted, AfterPost
  <2>2. CASE c \notin Workers
    BY <1>18, <2>2, LockFrame, WorkersStay DEF KillUnsubmitted
  <2> QED BY <2>1, <2>2
<1>19. CASE PowerOn
  BY <1>19, <1>c, LockFrame, WorkersStay DEF PowerOn, Ctl
<1>20. CASE Suspend
  BY <1>20, <1>c, LockFrame, WorkersStay DEF Suspend, Ctl
<1>21. CASE Resume
  BY <1>21, <1>c, LockFrame, WorkersStay DEF Resume, Ctl
<1>22. CASE PowerOff
  BY <1>22, <1>c, LockFrame, WorkersStay DEF PowerOff, Ctl
<1>23. CASE Destroy
  BY <1>23, <1>c, LockFrame, WorkersStay DEF Destroy, Ctl
<1>24. CASE FlushWork
  BY <1>24, <1>c, LockFrame, WorkersStay DEF FlushWork
<1>25. CASE FlushDone
  BY <1>25, <1>c, LockFrame, WorkersStay DEF FlushDone
<1> QED
  BY <1>1, <1>2, <1>3, <1>4, <1>5, <1>6, <1>7, <1>8, <1>9, <1>10, <1>11, <1>12, <1>13, <1>14, <1>15, <1>16, <1>17, <1>18, <1>19, <1>20, <1>21, <1>22, <1>23, <1>24, <1>25
     DEF AllSteps, Irq, Work, Control

LEMMA LockInvariant == Spec => []LockInv
<1>1. Init => LockInv
  BY DEF Init, LockInv, LockedPCs, Submitting, Contexts
<1>2. TypeInv /\ LockInv /\ [Next]_vars => LockInv'
  <2>1. ASSUME TypeInv, LockInv, Next PROVE LockInv'
    <3>1. PICK st \in Statuses, c \in Contexts : AllSteps(st, c)
      BY <2>1 DEF Next, AllSteps, Contexts, Statuses
    <3> QED BY <2>1, <3>1, LockInvStep
  <2>2. ASSUME LockInv, UNCHANGED vars PROVE LockInv'
    BY <2>2, LockFrame DEF vars, workVars
  <2> QED BY <2>1, <2>2
<1> QED BY <1>1, <1>2, TypeInvariant, PTL DEF Spec

-----------------------------------------------------------------------------
(* Order of delivery.  HandedInOrder is inductive relative to LockInv: with
   the bit held, the buffer in a worker's hand is the one after the last
   handed, and the queue continues from there. *)

\* The worker that hands a buffer is alone.
LEMMA InHandAlone ==
  ASSUME LockInv, NEW w \in Workers, pc[w] = "hand"
  PROVE  InHand = {w} /\ Cardinality(InHand) = 1
<1>1. InHand = {w}
  BY DEF LockInv, LockedPCs, InHand
<1> QED BY <1>1, FS_Singleton

\* So is the worker that looks at the queue; no buffer is in anybody's hand.
LEMMA InHandNone ==
  ASSUME LockInv, NEW w \in Workers, pc[w] \in LockedPCs \ {"hand"}
  PROVE  InHand = {} /\ Cardinality(InHand) = 0
<1>1. InHand = {}
  BY DEF LockInv, LockedPCs, InHand
<1> QED BY <1>1, FS_EmptySet

\* A step that neither queues, takes nor hands a buffer.
LEMMA OrderFrame ==
  ASSUME HandedInOrder, UNCHANGED <<handed, buf, io_comp_queue, completed>>,
         \A w \in Workers : pc'[w] = "hand" <=> pc[w] = "hand"
  PROVE  HandedInOrder'
<1>1. InHand' = InHand
  BY DEF InHand
<1> QED BY <1>1 DEF HandedInOrder

LEMMA OrderQueue ==
  ASSUME TypeInv, LockInv, HandedInOrder, IrqQueue
  PROVE  HandedInOrder'
<1>1. InHand' = InHand /\ Cardinality(InHand) \in Nat
  <2>1. InHand' = InHand
    BY WorkersStay, UsbConstants DEF UsbConstants, Contexts, IrqQueue, InHand
  <2>2. CASE \E w \in Workers : pc[w] = "hand"
    BY <2>1, <2>2, InHandAlone
  <2>3. CASE ~\E w \in Workers : pc[w] = "hand"
    <3>1. InHand = {}
      BY <2>3 DEF InHand
    <3> QED BY <2>1, <3>1, FS_EmptySet
  <2> QED BY <2>2, <2>3
<1> DEFINE k == Cardinality(InHand)
           q == io_comp_queue
<1>2. /\ q \in Seq(Nat \ {0}) /\ handed \in Seq(Nat) /\ completed \in Nat
      /\ Len(handed) \in Nat /\ Len(q) \in Nat
      /\ q' = Append(q, completed + 1) /\ completed' = completed + 1
      /\ UNCHANGED <<handed, buf>>
  BY DEF TypeInv, QueueOK, IrqQueue, workVars
<1>3. Len(q') = Len(q) + 1 /\ \A i \in 1..Len(q') :
        q'[i] = IF i <= Len(q) THEN q[i] ELSE completed + 1
  BY <1>2
<1>4. Len(handed) + k + Len(q) = completed
  BY DEF HandedInOrder
<1>5. \A i \in DOMAIN q : q[i] = Len(handed) + k + i
  BY DEF HandedInOrder
<1>6. DOMAIN q' = 1..Len(q') /\ DOMAIN q = 1..Len(q)
  BY <1>2
<1>7. \A i \in DOMAIN q' : q'[i] = Len(handed) + k + i
  <2> SUFFICES ASSUME NEW i \in 1..Len(q')
               PROVE  q'[i] = Len(handed) + k + i
    BY <1>6
  <2>1. CASE i <= Len(q)
    <3>1. i \in DOMAIN q /\ q'[i] = q[i]
      BY <2>1, <1>2, <1>3, <1>6
    <3> QED BY <3>1, <1>5
  <2>2. CASE ~(i <= Len(q))
    <3>1. i = Len(q) + 1
      BY <2>2, <1>3, <1>2
    <3> QED BY <3>1, <2>2, <1>3, <1>4, <1>2, <1>1
  <2> QED BY <2>1, <2>2
<1>8. Len(handed) + k + Len(q') = completed'
  BY <1>1, <1>2, <1>3, <1>4
<1>9. /\ \A i \in DOMAIN handed : handed[i] = i
      /\ \A w \in InHand : buf[w] = Len(handed) + 1 /\ Cardinality(InHand) <= 1
  BY DEF HandedInOrder
<1> QED BY <1>1, <1>2, <1>7, <1>8, <1>9 DEF HandedInOrder

LEMMA OrderDequeue ==
  ASSUME TypeInv, LockInv, HandedInOrder, NEW w \in Workers, WorkDequeue(w)
  PROVE  HandedInOrder'
<1> DEFINE q == io_comp_queue
<1>1. InHand = {} /\ Cardinality(InHand) = 0
  BY InHandNone DEF WorkDequeue, LockedPCs
<1>2. CASE q # <<>>
  <2>1. /\ buf' = [buf EXCEPT ![w] = Head(q)] /\ q' = Tail(q)
        /\ Goto(w, "hand") /\ UNCHANGED <<handed, completed>>
    BY <1>2 DEF WorkDequeue
  <2>2. InHand' = {w} /\ Cardinality(InHand') = 1
    <3>1. InHand' = {w}
      BY <1>1, <2>1, WorkerMoves DEF InHand
    <3> QED BY <3>1, FS_Singleton
  <2>3. /\ q \in Seq(Nat \ {0}) /\ buf \in [Workers -> Nat] /\ Len(handed) \in Nat
        /\ Len(q) \in Nat \ {0} /\ DOMAIN q = 1..Len(q)
    BY <1>2 DEF TypeInv, QueueOK
  <2>4. Len(q') = Len(q) - 1 /\ DOMAIN q' = 1..(Len(q) - 1)
        /\ \A i \in 1..(Len(q) - 1) : q'[i] = q[i + 1]
    BY <2>1, <2>3, <1>2
  <2>5. buf'[w] = Len(handed) + 1
    <3>1. buf'[w] = q[1]
      BY <2>1, <2>3
    <3> QED BY <3>1, <1>1, <2>3 DEF HandedInOrder
  <2>6. \A i \in DOMAIN q' : q'[i] = Len(handed) + 1 + i
    <3> SUFFICES ASSUME NEW i \in 1..(Len(q) - 1)
                 PROVE  q'[i] = Len(handed) + 1 + i
      BY <2>4
    <3>1. i + 1 \in DOMAIN q
      BY <2>3
    <3>2. q[i + 1] = Len(handed) + 0 + (i + 1)
      BY <3>1, <1>1 DEF HandedInOrder
    <3> QED BY <3>2, <2>4, <2>3
  <2>7. Len(handed) + 1 + Len(q') = completed
    BY <1>1, <2>3, <2>4 DEF HandedInOrder
  <2>8. \A i \in DOMAIN handed : handed[i] = i
    BY DEF HandedInOrder
  <2>9. Cardinality(InHand') <= 1 /\ \A v \in InHand' : buf'[v] = Len(handed) + 1
    BY <2>2, <2>5
  <2> QED BY <2>1, <2>2, <2>6, <2>7, <2>8, <2>9 DEF HandedInOrder
<1>3. CASE q = <<>>
  BY <1>3, OrderFrame, WorkerMoves DEF WorkDequeue
<1> QED BY <1>2, <1>3

LEMMA OrderHand ==
  ASSUME TypeInv, LockInv, HandedInOrder, NEW w \in Workers, WorkHand(w)
  PROVE  HandedInOrder'
<1>1. InHand = {w} /\ Cardinality(InHand) = 1
  BY InHandAlone DEF WorkHand
<1>2. /\ handed' = Append(handed, buf[w])
      /\ UNCHANGED <<io_comp_queue, completed>>
      /\ \E l \in {"resched", "loop"} : Goto(w, l)
  BY DEF WorkHand
<1>3. InHand' = {} /\ Cardinality(InHand') = 0
  <2>1. InHand' = {}
    BY <1>1, <1>2, WorkerMoves DEF InHand
  <2> QED BY <2>1, FS_EmptySet
<1>4. buf[w] = Len(handed) + 1
  BY <1>1 DEF HandedInOrder
<1>5. handed \in Seq(Nat) /\ io_comp_queue \in Seq(Nat \ {0}) /\ buf[w] \in Nat
  BY DEF TypeInv, QueueOK
<1>6. /\ Len(handed') = Len(handed) + 1
      /\ \A i \in DOMAIN handed' : handed'[i] = i
  <2>1. \A i \in 1..Len(handed) : handed[i] = i
    BY <1>5 DEF HandedInOrder
  <2> QED BY <1>2, <1>4, <1>5, <2>1
<1>7. /\ \A i \in DOMAIN io_comp_queue :
           io_comp_queue[i] = Len(handed') + 0 + i
      /\ Len(handed') + 0 + Len(io_comp_queue) = completed
  <2>1. Len(handed) \in Nat /\ Len(io_comp_queue) \in Nat
        /\ DOMAIN io_comp_queue \subseteq Nat
    BY <1>5
  <2>2. /\ \A i \in DOMAIN io_comp_queue :
             io_comp_queue[i] = Len(handed) + 1 + i
        /\ Len(handed) + 1 + Len(io_comp_queue) = completed
    BY <1>1 DEF HandedInOrder
  <2> QED BY <2>1, <2>2, <1>6
<1> QED BY <1>2, <1>3, <1>6, <1>7 DEF HandedInOrder

LEMMA OrderStep ==
  ASSUME TypeInv, LockInv, HandedInOrder, NEW st \in Statuses,
         NEW c \in Contexts, AllSteps(st, c)
  PROVE  HandedInOrder'
<1> USE DEF dataVars, workVars
<1>c. /\ "irq" \in Contexts \ Workers /\ "ctl" \in Contexts \ Workers
      /\ "snd" \in Contexts \ Workers
  BY UsbConstants DEF UsbConstants, Contexts
<1>1. CASE SetMaxQueueNumber
  BY <1>1, OrderFrame DEF SetMaxQueueNumber
<1>2. CASE SendTake
  BY <1>2, <1>c, OrderFrame, WorkersStay DEF SendTake
<1>3. CASE SendSubmit
  BY <1>3, <1>c, OrderFrame, WorkersStay DEF SendSubmit
<1>4. CASE Giveback(st)
  BY <1>4, <1>c, OrderFrame, WorkersStay DEF Giveback
<1>5. CASE IrqQueue
  BY <1>5, OrderQueue
<1>6. CASE IrqSched
  BY <1>6, <1>c, OrderFrame, WorkersStay DEF IrqSched
<1>7. CASE IrqFree
  BY <1>7, <1>c, OrderFrame, WorkersStay DEF IrqFree
<1>8. CASE IrqCheck
  BY <1>8, <1>c, OrderFrame, WorkersStay DEF IrqCheck
<1>9. CASE c \in Workers /\ WorkStart(c)
  BY <1>9, OrderFrame, WorkerMoves DEF WorkStart
<1>10. CASE c \in Workers /\ WorkTest(c)
  BY <1>10, OrderFrame, WorkerMoves DEF WorkTest, Return
<1>11. CASE c \in Workers /\ WorkDequeue(c)
  BY <1>11, OrderDequeue
<1>12. CASE c \in Workers /\ WorkHand(c)
  BY <1>12, OrderHand
<1>13. CASE c \in Workers /\ WorkResched(c)
  BY <1>13, OrderFrame, WorkerMoves DEF WorkResched, Return
<1>14. CASE c \in Workers /\ WorkRecheck(c)
  BY <1>14, OrderFrame, WorkerMoves DEF WorkRecheck
<1>15. CASE c \in Workers /\ WorkClear(c)
  BY <1>15, OrderFrame, WorkerMoves DEF WorkClear, Return
<1>16. CASE PostTake(c)
  <2>1. CASE c \in Workers
    BY <1>16, <2>1, OrderFrame, WorkerMoves DEF PostTake, AfterPost
  <2>2. CASE c \notin Workers
    BY <1>16, <2>2, OrderFrame, WorkersStay DEF PostTake
  <2> QED BY <2>1, <2>2
<1>17. CASE PostSubmit(c)
  <2>1. CASE c \in Workers
    BY <1>17, <2>1, OrderFrame, WorkerMoves DEF PostSubmit, AfterPost
  <2>2. CASE c \notin Workers
    BY <1>17, <2>2, OrderFrame, WorkersStay DEF PostSubmit
  <2> QED BY <2>1, <2>2
<1>18. CASE KillUnsubmitted(c)
  <2>1. CASE c \in Workers
    BY <1>18, <2>1, OrderFrame, WorkerMoves DEF KillUnsubmitted
  <2>2. CASE c \notin Workers
    BY <1>18, <2>2, OrderFrame, WorkersStay DEF KillUnsubmitted
  <2> QED BY <2>1, <2>2
<1>19. CASE PowerOn
  BY <1>19, <1>c, OrderFrame, WorkersStay DEF PowerOn, Ctl
<1>20. CASE Suspend
  BY <1>20, <1>c, OrderFrame, WorkersStay DEF Suspend, Ctl
<1>21. CASE Resume
  BY <1>21, <1>c, OrderFrame, WorkersStay DEF Resume, Ctl
<1>22. CASE PowerOff
  BY <1>22, <1>c, OrderFrame, WorkersStay DEF PowerOff, Ctl
<1>23. CASE Destroy
  BY <1>23, <1>c, OrderFrame, WorkersStay DEF Destroy, Ctl
<1>24. CASE FlushWork
  BY <1>24, <1>c, OrderFrame, WorkersStay DEF FlushWork
<1>25. CASE FlushDone
  BY <1>25, <1>c, OrderFrame, WorkersStay DEF FlushDone
<1> QED
  BY <1>1, <1>2, <1>3, <1>4, <1>5, <1>6, <1>7, <1>8, <1>9, <1>10, <1>11, <1>12, <1>13, <1>14, <1>15, <1>16, <1>17, <1>18, <1>19, <1>20, <1>21, <1>22, <1>23, <1>24, <1>25
     DEF AllSteps, Irq, Work, Control

\* Buffers reach HTC once each and in the order of their completion, for any
\* number of workers, also on a kernel whose work items are reentrant
\* (test_and_set_bit of WORKER_LOCK_BIT in ath6kl_usb_io_comp_work).
THEOREM HandedInOrderHolds == Spec => []HandedInOrder
<1>1. Init => HandedInOrder
  <2> SUFFICES ASSUME Init PROVE HandedInOrder
    OBVIOUS
  <2>1. InHand = {}
    BY DEF Init, InHand, Contexts
  <2> QED BY <2>1, FS_EmptySet DEF Init, HandedInOrder
<1>2. TypeInv /\ LockInv /\ HandedInOrder /\ [Next]_vars => HandedInOrder'
  <2>1. ASSUME TypeInv, LockInv, HandedInOrder, Next PROVE HandedInOrder'
    <3>1. PICK st \in Statuses, c \in Contexts : AllSteps(st, c)
      BY <2>1 DEF Next, AllSteps, Contexts, Statuses
    <3> QED BY <2>1, <3>1, OrderStep
  <2>2. ASSUME HandedInOrder, UNCHANGED vars PROVE HandedInOrder'
    BY <2>2, OrderFrame DEF vars, workVars, dataVars
  <2> QED BY <2>1, <2>2
<1> QED BY <1>1, <1>2, TypeInvariant, LockInvariant, PTL DEF Spec

-----------------------------------------------------------------------------
(* Suspend.  The strengthening follows the transmit pipe through the flush:
   nobody but the sender submits on it, a transfer the kill took off the
   anchor belongs to a sender the sleeping state will refuse, and the anchor
   stays empty from the end of the kill to the resume. *)

SleepInv ==
  /\ pc["ctl"] \in {"kill", "flush"} => phase \in {"asleep", "detached", "destroyed"}
  /\ pc["snd"] # "idle" => phase \in {"on", "asleep"}
  /\ dir = "tx" =>
       /\ \A c \in Contexts \ {"snd"} :
            pc[c] \notin {"post", "recheck", "check"} \cup Submitting
       /\ loose = 0
       /\ pc["snd"] = "submit_loose" => phase = "asleep"
       /\ phase = "asleep" /\ pc["ctl"] \in {"flush", "idle"} => urb_submitted = 0

LEMMA Moves ==
  ASSUME TypeInv, NEW c \in Contexts, NEW l, Goto(c, l)
  PROVE  pc'[c] = l /\ \A d \in Contexts \ {c} : pc'[d] = pc[d]
BY DEF TypeInv, PcOK, Goto

LEMMA SleepInvStep ==
  ASSUME TypeInv, SleepInv, NEW st \in Statuses, NEW c \in Contexts,
         AllSteps(st, c)
  PROVE  SleepInv'
<1> USE DEF Submitting, poolVars, ctlVars, SleepInv
<1>c. /\ "irq" \in Contexts /\ "ctl" \in Contexts /\ "snd" \in Contexts
      /\ \A w \in Workers : w \in Contexts \ {"irq", "ctl", "snd"}
  BY UsbConstants DEF UsbConstants, Contexts
<1>t. /\ urb_submitted \in Nat /\ dir \in {"tx", "rx"}
      /\ pc["ctl"] \in CtlPCs /\ pc["snd"] \in SndPCs
  BY DEF TypeInv, PoolOK, FlagsOK, PcOK
<1>1. CASE SetMaxQueueNumber
  BY <1>1, <1>c, <1>t, Moves DEF SetMaxQueueNumber
<1>2. CASE SendTake
  BY <1>2, <1>c, <1>t, Moves DEF SendTake
<1>3. CASE SendSubmit
  BY <1>3, <1>c, <1>t, Moves DEF SendSubmit, Submit, ReturnUrb, Asleep
<1>4. CASE Giveback(st)
  BY <1>4, <1>c, <1>t, Moves DEF Giveback
<1>5. CASE IrqQueue
  BY <1>5, <1>c, <1>t, Moves DEF IrqQueue
<1>6. CASE IrqSched
  BY <1>6, <1>c, <1>t, Moves DEF IrqSched
<1>7. CASE IrqFree
  BY <1>7, <1>c, <1>t, Moves DEF IrqFree
<1>8. CASE IrqCheck
  BY <1>8, <1>c, <1>t, Moves DEF IrqCheck
<1>9. CASE c \in Workers /\ WorkStart(c)
  BY <1>9, <1>c, <1>t, Moves DEF WorkStart
<1>10. CASE c \in Workers /\ WorkTest(c)
  BY <1>10, <1>c, <1>t, Moves DEF WorkTest, Return
<1>11. CASE c \in Workers /\ WorkDequeue(c)
  BY <1>11, <1>c, <1>t, Moves DEF WorkDequeue
<1>12. CASE c \in Workers /\ WorkHand(c)
  BY <1>12, <1>c, <1>t, Moves DEF WorkHand
<1>13. CASE c \in Workers /\ WorkResched(c)
  BY <1>13, <1>c, <1>t, Moves DEF WorkResched, Return
<1>14. CASE c \in Workers /\ WorkRecheck(c)
  BY <1>14, <1>c, <1>t, Moves DEF WorkRecheck
<1>15. CASE c \in Workers /\ WorkClear(c)
  BY <1>15, <1>c, <1>t, Moves DEF WorkClear, Return
<1>16. CASE PostTake(c)
  BY <1>16, <1>c, <1>t, Moves DEF PostTake, CtlOn, AfterPost
<1>17. CASE PostSubmit(c)
  BY <1>17, <1>c, <1>t, Moves DEF PostSubmit, Submit, CtlOn, AfterPost
<1>18. CASE KillUnsubmitted(c)
  BY <1>18, <1>c, <1>t, Moves DEF KillUnsubmitted
<1>19. CASE PowerOn
  BY <1>19, <1>c, <1>t, Moves DEF PowerOn, Ctl
<1>20. CASE Suspend
  BY <1>20, <1>c, <1>t, Moves DEF Suspend, Ctl
<1>21. CASE Resume
  BY <1>21, <1>c, <1>t, Moves DEF Resume, Ctl
<1>22. CASE PowerOff
  BY <1>22, <1>c, <1>t, Moves DEF PowerOff, Ctl
<1>23. CASE Destroy
  BY <1>23, <1>c, <1>t, Moves DEF Destroy, Ctl
<1>24. CASE FlushWork
  BY <1>24, <1>c, <1>t, Moves DEF FlushWork
<1>25. CASE FlushDone
  BY <1>25, <1>c, <1>t, Moves DEF FlushDone
<1> QED
  BY <1>1, <1>2, <1>3, <1>4, <1>5, <1>6, <1>7, <1>8, <1>9, <1>10, <1>11, <1>12, <1>13, <1>14, <1>15, <1>16, <1>17, <1>18, <1>19, <1>20, <1>21, <1>22, <1>23, <1>24, <1>25
     DEF AllSteps, Irq, Work, Control

LEMMA SleepInvariant == Spec => []SleepInv
<1>1. Init => SleepInv
  BY UsbConstants DEF UsbConstants, Init, SleepInv, Contexts, Submitting
<1>2. TypeInv /\ SleepInv /\ [Next]_vars => SleepInv'
  <2>1. ASSUME TypeInv, SleepInv, Next PROVE SleepInv'
    <3>1. PICK st \in Statuses, c \in Contexts : AllSteps(st, c)
      BY <2>1 DEF Next, AllSteps, Contexts, Statuses
    <3> QED BY <2>1, <3>1, SleepInvStep
  <2>2. ASSUME SleepInv, UNCHANGED vars PROVE SleepInv'
    BY <2>2 DEF SleepInv, vars, poolVars, ctlVars
  <2> QED BY <2>1, <2>2
<1> QED BY <1>1, <1>2, TypeInvariant, PTL DEF Spec

\* Once the suspend has flushed the pipe, no transmit transfer is with the
\* USB core until the resume, whatever the sender was doing (the test of
\* ar->state under state_lock in ath6kl_usb_send against
\* usb_kill_anchored_urbs in ath6kl_usb_flush_all).
THEOREM AsleepQuietHolds == Spec => []AsleepQuiet
<1>1. SleepInv => AsleepQuiet
  BY DEF SleepInv, AsleepQuiet
<1> QED BY <1>1, SleepInvariant, PTL

-----------------------------------------------------------------------------
(* Reception.  Two facts carry it: a buffer in the queue has a worker coming
   for it, and whoever leaves without posting leaves a transfer, or somebody
   that will post, behind. *)

Draining == {"test", "loop", "hand", "resched"}

DrainInv ==
  ~reentrant /\ io_comp_queue # <<>> =>
    pending \/ pc["irq"] = "sched" \/ \E w \in Workers : pc[w] \in Draining

RxInv ==
  dir = "rx" =>
    /\ pc["snd"] = "idle"
    /\ pc["irq"] \in {"free", "check"} /\ status \in {"error", "cancel"} /\ ~lost
         => urb_submitted + loose > 0 \/ Held # {}
    /\ ~reentrant /\ phase = "on" /\ pc["ctl"] = "idle" /\ ~lost
         => \/ urb_submitted + loose > 0 \/ pc["irq"] # "idle" \/ pending
            \/ \E w \in Workers : pc[w] \notin {"idle", "clear"}

\* When work items are not reentrant the bit is free to the worker that tests it.
LEMMA BitIsFree ==
  ASSUME LockInv, ~reentrant, NEW w \in Workers, pc[w] = "test"
  PROVE  BitTaken
BY DEF LockInv, LockedPCs, Submitting, BitTaken

LEMMA DrainInvStep ==
  ASSUME TypeInv, LockInv, DrainInv, NEW st \in Statuses, NEW c \in Contexts,
         AllSteps(st, c)
  PROVE  DrainInv'
<1> USE DEF Draining, Submitting, workVars, dataVars, DrainInv
<1>c. /\ "irq" \in Contexts /\ "ctl" \in Contexts /\ "snd" \in Contexts
      /\ \A w \in Workers : w \in Contexts \ {"irq", "ctl", "snd"}
  BY UsbConstants DEF UsbConstants, Contexts
<1>1. CASE SetMaxQueueNumber
  BY <1>1 DEF SetMaxQueueNumber
<1>2. CASE SendTake
  BY <1>2, <1>c, Moves DEF SendTake
<1>3. CASE SendSubmit
  BY <1>3, <1>c, Moves DEF SendSubmit
<1>4. CASE Giveback(st)
  BY <1>4, <1>c, Moves DEF Giveback
<1>5. CASE IrqQueue
  BY <1>5, <1>c, Moves DEF IrqQueue
<1>6. CASE IrqSched
  BY <1>6, <1>c, Moves DEF IrqSched
<1>7. CASE IrqFree
  BY <1>7, <1>c, Moves DEF IrqFree
<1>8. CASE IrqCheck
  BY <1>8, <1>c, Moves DEF IrqCheck
<1>9. CASE c \in Workers /\ WorkStart(c)
  BY <1>9, <1>c, Moves DEF WorkStart
<1>10. CASE c \in Workers /\ WorkTest(c)
  BY <1>10, <1>c, Moves, BitIsFree DEF WorkTest
<1>11. CASE c \in Workers /\ WorkDequeue(c)
  BY <1>11, <1>c, Moves DEF WorkDequeue
<1>12. CASE c \in Workers /\ WorkHand(c)
  BY <1>12, <1>c, Moves DEF WorkHand
<1>13. CASE c \in Workers /\ WorkResched(c)
  BY <1>13, <1>c, Moves DEF WorkResched, Return, Resched
<1>14. CASE c \in Workers /\ WorkRecheck(c)
  BY <1>14, <1>c, Moves DEF WorkRecheck
<1>15. CASE c \in Workers /\ WorkClear(c)
  BY <1>15, <1>c, Moves DEF WorkClear, Return
<1>16. CASE PostTake(c)
  BY <1>16, <1>c, Moves DEF PostTake, AfterPost
<1>17. CASE PostSubmit(c)
  BY <1>17, <1>c, Moves DEF PostSubmit, AfterPost
<1>18. CASE KillUnsubmitted(c)
  BY <1>18, <1>c, Moves DEF KillUnsubmitted
<1>19. CASE PowerOn
  BY <1>19, <1>c, Moves DEF PowerOn, Ctl
<1>20. CASE Suspend
  BY <1>20, <1>c, Moves DEF Suspend, Ctl
<1>21. CASE Resume
  BY <1>21, <1>c, Moves DEF Resume, Ctl
<1>22. CASE PowerOff
  BY <1>22, <1>c, Moves DEF PowerOff, Ctl
<1>23. CASE Destroy
  BY <1>23, <1>c, Moves DEF Destroy, Ctl
<1>24. CASE FlushWork
  BY <1>24, <1>c, Moves DEF FlushWork
<1>25. CASE FlushDone
  BY <1>25, <1>c, Moves DEF FlushDone
<1> QED
  BY <1>1, <1>2, <1>3, <1>4, <1>5, <1>6, <1>7, <1>8, <1>9, <1>10, <1>11, <1>12, <1>13, <1>14, <1>15, <1>16, <1>17, <1>18, <1>19, <1>20, <1>21, <1>22, <1>23, <1>24, <1>25
     DEF AllSteps, Irq, Work, Control

\* A context that is not in the pool is with the USB core, with somebody who
\* posts, or in the completion handler.
LEMMA UrbsOut ==
  ASSUME TypeInv, PoolInv
  PROVE  /\ urb_cnt < UrbAlloc => urb_submitted + loose > 0 \/ Held # {} \/ IrqHolds
         /\ urb_cnt < UrbAlloc - 1 => urb_submitted + loose > 0 \/ Held # {}
<1>1. urb_cnt \in Nat /\ urb_submitted \in Nat /\ loose \in Nat /\ UrbAlloc \in Nat
  BY UsbConstants DEF UsbConstants, TypeInv, PoolOK
<1>2. Held = {} => Cardinality(Held) = 0
  BY FS_EmptySet
<1> QED BY <1>1, <1>2 DEF PoolInv, UrbConserved

\* "Free URBs are not piling up" leaves some out of the pool.
LEMMA NotPilingUp ==
  ASSUME TypeInv, ~PilingUp
  PROVE  urb_cnt < UrbAlloc
BY UsbConstants DEF UsbConstants, TypeInv, PoolOK, PilingUp, UrbThresh

LEMMA RxInvStep ==
  ASSUME UrbAlloc >= 2, RxqThreshold >= 1, TypeInv, PoolInv, LockInv, SleepInv,
         DrainInv, RxInv, NEW st \in Statuses, NEW c \in Contexts,
         AllSteps(st, c)
  PROVE  RxInv'
<1> USE DEF RxInv, Submitting, poolVars, ctlVars, workVars
<1>c. /\ "irq" \in Contexts /\ "ctl" \in Contexts /\ "snd" \in Contexts
      /\ \A w \in Workers : w \in Contexts \ {"irq", "ctl", "snd"}
      /\ \A d \in Contexts : d \in Workers \/ d \in {"irq", "ctl", "snd"}
  BY UsbConstants DEF UsbConstants, Contexts
<1>t. /\ urb_cnt \in Nat /\ urb_submitted \in Nat /\ loose \in Nat
      /\ dir \in {"tx", "rx"} /\ UrbAlloc \in Nat
  BY UsbConstants DEF UsbConstants, TypeInv, PoolOK, FlagsOK
<1>h. Held = {d \in Contexts : pc[d] \in Submitting}
      /\ Held' = {d \in Contexts : pc'[d] \in Submitting}
  BY DEF Held
<1>1. CASE SetMaxQueueNumber
  BY <1>1 DEF SetMaxQueueNumber
<1>2. CASE SendTake
  BY <1>2, <1>c, Moves DEF SendTake
<1>3. CASE SendSubmit
  BY <1>3, <1>c, <1>t, <1>h, Moves DEF SendSubmit, Submit
<1>4. CASE Giveback(st)
  <2>1. status' = st /\ (st \in {"error", "cancel"} => lost') /\ dir' = dir
    BY <1>4 DEF Giveback
  <2>2. pc'["irq"] # "idle" /\ pc'["snd"] = pc["snd"]
    BY <1>4, <1>c, Moves DEF Giveback
  <2> QED BY <2>1, <2>2
<1>5. CASE IrqQueue
  BY <1>5, <1>c, <1>t, <1>h, Moves DEF IrqQueue
<1>6. CASE IrqSched
  BY <1>6, <1>c, <1>t, <1>h, Moves DEF IrqSched
<1>7. CASE IrqFree
  BY <1>7, <1>c, <1>t, <1>h, Moves DEF IrqFree
<1>8. CASE IrqCheck
  <2> SUFFICES ASSUME dir = "rx" PROVE RxInv'
    BY <1>8 DEF IrqCheck
  <2>1. /\ pc["irq"] = "check" /\ pc'["irq"] \in {"post", "idle"}
        /\ \A d \in Contexts \ {"irq"} : pc'[d] = pc[d]
        /\ UNCHANGED <<reentrant, urb_submitted, loose, phase, pending, lost>>
    BY <1>8, <1>c, Moves DEF IrqCheck
  <2>2. ASSUME pc'["irq"] = "idle", ~reentrant, phase = "on",
               pc["ctl"] = "idle", ~lost
        PROVE  \/ urb_submitted + loose > 0 \/ pending
               \/ \E w \in Workers : pc[w] \notin {"idle", "clear"}
    <3>1. CASE Held # {}
      BY <3>1, <2>1, <2>2, <1>c, <1>h
    <3>2. CASE status \in {"error", "cancel"}
      BY <3>1, <3>2, <2>1, <2>2
    <3>3. CASE ~PilingUp
      BY <3>1, <3>3, <2>1, NotPilingUp, UrbsOut DEF IrqHolds
    <3>4. CASE ~(Len(io_comp_queue) < RxqThreshold)
      <4>1. io_comp_queue # <<>>
        BY <3>4, UsbConstants DEF UsbConstants
      <4> QED BY <4>1, <2>1, <2>2 DEF DrainInv, Draining
    <3>5. status \in {"error", "cancel"} \/ ~Reposts
      BY <1>8, <2>2, <1>c, Moves DEF IrqCheck, TypeInv, FlagsOK, Statuses
    <3> QED BY <3>2, <3>3, <3>4, <3>5 DEF Reposts
  <2> QED BY <2>1, <2>2, <1>c
<1>9. CASE c \in Workers /\ WorkStart(c)
  BY <1>9, <1>c, <1>t, <1>h, Moves DEF WorkStart
<1>10. CASE c \in Workers /\ WorkTest(c)
  BY <1>10, <1>c, <1>h, Moves, BitIsFree DEF WorkTest, Return
<1>11. CASE c \in Workers /\ WorkDequeue(c)
  BY <1>11, <1>c, <1>t, <1>h, Moves DEF WorkDequeue
<1>12. CASE c \in Workers /\ WorkHand(c)
  BY <1>12, <1>c, <1>t, <1>h, Moves DEF WorkHand
<1>13. CASE c \in Workers /\ WorkResched(c)
  BY <1>13, <1>c, <1>t, <1>h, Moves DEF WorkResched, Return, Resched
<1>14. CASE c \in Workers /\ WorkRecheck(c)
  <2> SUFFICES ASSUME dir = "rx" PROVE RxInv'
    BY <1>14 DEF WorkRecheck
  <2>1. /\ pc[c] = "recheck" /\ pc'[c] \in {"post", "clear"}
        /\ \A d \in Contexts \ {c} : pc'[d] = pc[d]
        /\ UNCHANGED <<reentrant, urb_submitted, loose, phase, pending, lost, status>>
        /\ pc'[c] = "clear" => ~PilingUp
    BY <1>14, <1>c, Moves DEF WorkRecheck, WorkReposts
  <2>2. Held' = Held
    BY <2>1, <1>h
  <2>3. ASSUME pc'[c] = "clear", ~reentrant, phase = "on", pc["ctl"] = "idle"
        PROVE  urb_submitted + loose > 0 \/ pc["irq"] # "idle"
    <3>1. \A w \in Workers : w # c => pc[w] = "idle"
      BY <2>1, <2>3, <1>14 DEF LockInv
    <3>2. Held # {} => pc["irq"] # "idle"
      BY <3>1, <2>1, <2>3, <1>c, <1>h
    <3> QED BY <3>2, <2>1, <2>3, NotPilingUp, UrbsOut DEF IrqHolds
  <2> QED BY <2>1, <2>2, <2>3, <1>14, <1>c
<1>15. CASE c \in Workers /\ WorkClear(c)
  BY <1>15, <1>c, <1>t, <1>h, Moves DEF WorkClear, Return
<1>16. CASE PostTake(c)
  <2> SUFFICES ASSUME dir = "rx" PROVE RxInv'
    BY <1>16 DEF PostTake
  <2>1. /\ pc[c] = "post" /\ c # "snd"
        /\ \A d \in Contexts \ {c} : pc'[d] = pc[d]
        /\ UNCHANGED <<dir, reentrant, urb_submitted, loose, pending, status>>
    BY <1>16, <1>c, Moves DEF PostTake
  <2>2. CASE UrbAvailable
    <3>1. pc'[c] = "submit" /\ UNCHANGED <<phase, lost>>
      BY <1>16, <2>2, Moves DEF PostTake
    <3> QED BY <3>1, <2>1, <1>c, <1>h
  <2>3. CASE ~UrbAvailable
    <3>1. urb_cnt = 0
      BY <2>3, <1>t DEF UrbAvailable
    <3>2. pc'[c] = IF c \in Workers THEN "clear" ELSE "idle"
      BY <1>16, <2>3, Moves DEF PostTake, AfterPost
    <3>3. Held' = Held /\ c \notin Held
      BY <3>2, <2>1, <1>h
    <3>4. urb_submitted + loose > 0 \/ Held # {}
      BY <3>1, <1>t, UrbsOut
    <3>5. ASSUME pc'["ctl"] = "idle", ~reentrant, Held # {}
          PROVE  \/ pc'["irq"] # "idle"
                 \/ \E w \in Workers : pc'[w] \notin {"idle", "clear"}
      <4>1. PICK d \in Contexts : pc[d] \in Submitting
        BY <3>5, <1>h
      <4>2. d # c /\ pc'[d] = pc[d] /\ d \notin {"ctl", "snd"}
        BY <4>1, <2>1, <3>5, <1>c
      <4> QED BY <4>1, <4>2, <1>c
    <3> QED BY <3>2, <3>3, <3>4, <3>5, <2>1, <1>c
  <2> QED BY <2>2, <2>3
<1>17. CASE PostSubmit(c)
  BY <1>17, <1>c, <1>t, <1>h, Moves DEF PostSubmit, AfterPost, CtlOn, Submit
<1>18. CASE KillUnsubmitted(c)
  BY <1>18, <1>c, <1>t, <1>h, Moves DEF KillUnsubmitted
<1>19. CASE PowerOn
  BY <1>19, <1>c, <1>t, <1>h, Moves DEF PowerOn, Ctl
<1>20. CASE Suspend
  BY <1>20, <1>c, <1>t, <1>h, Moves DEF Suspend, Ctl
<1>21. CASE Resume
  BY <1>21, <1>c, <1>t, <1>h, Moves DEF Resume, Ctl
<1>22. CASE PowerOff
  BY <1>22, <1>c, <1>t, <1>h, Moves DEF PowerOff, Ctl
<1>23. CASE Destroy
  BY <1>23, <1>c, <1>t, <1>h, Moves DEF Destroy, Ctl
<1>24. CASE FlushWork
  BY <1>24, <1>c, <1>t, <1>h, Moves DEF FlushWork
<1>25. CASE FlushDone
  BY <1>25, <1>c, <1>t, <1>h, Moves DEF FlushDone, SleepInv
<1> QED
  BY <1>1, <1>2, <1>3, <1>4, <1>5, <1>6, <1>7, <1>8, <1>9, <1>10, <1>11, <1>12, <1>13, <1>14, <1>15, <1>16, <1>17, <1>18, <1>19, <1>20, <1>21, <1>22, <1>23, <1>24, <1>25
     DEF AllSteps, Irq, Work, Control

LEMMA DrainInvariant == Spec => []DrainInv
<1>1. Init => DrainInv
  BY DEF Init, DrainInv
<1>2. TypeInv /\ LockInv /\ DrainInv /\ [Next]_vars => DrainInv'
  <2>1. ASSUME TypeInv, LockInv, DrainInv, Next PROVE DrainInv'
    <3>1. PICK st \in Statuses, c \in Contexts : AllSteps(st, c)
      BY <2>1 DEF Next, AllSteps, Contexts, Statuses
    <3> QED BY <2>1, <3>1, DrainInvStep
  <2>2. ASSUME DrainInv, UNCHANGED vars PROVE DrainInv'
    BY <2>2 DEF DrainInv, vars, workVars, dataVars
  <2> QED BY <2>1, <2>2
<1> QED BY <1>1, <1>2, TypeInvariant, LockInvariant, PTL DEF Spec

\* Reception never stops for good on a kernel whose work items are not
\* reentrant: for any number of workers, URBs and buffers, if there are at
\* least two URBs (RX_URB_COUNT is 32) and rxq_threshold is not zero, the
\* handler's and the worker's decisions not to post never leave the pipe
\* without a transfer (ath6kl_usb_recv_complete against
\* ath6kl_usb_io_comp_work).
THEOREM RxNeverDryHolds ==
  ASSUME UrbAlloc >= 2, RxqThreshold >= 1
  PROVE  Spec => []RxNeverDry
<1>1. Init => RxInv
  BY UsbConstants DEF UsbConstants, Init, RxInv, Contexts
<1>2. TypeInv /\ PoolInv /\ LockInv /\ SleepInv /\ DrainInv /\ RxInv /\ [Next]_vars
        => RxInv'
  <2>1. ASSUME TypeInv, PoolInv, LockInv, SleepInv, DrainInv, RxInv, Next
        PROVE  RxInv'
    <3>1. PICK st \in Statuses, c \in Contexts : AllSteps(st, c)
      BY <2>1 DEF Next, AllSteps, Contexts, Statuses
    <3> QED BY <2>1, <3>1, RxInvStep
  <2>2. ASSUME RxInv, UNCHANGED vars PROVE RxInv'
    BY <2>2 DEF RxInv, Held, vars, workVars, poolVars, ctlVars
  <2> QED BY <2>1, <2>2
<1>3. RxInv => RxNeverDry
  BY DEF RxInv, RxNeverDry, Quiet, Running
<1> QED
  BY <1>1, <1>2, <1>3, TypeInvariant, PoolInvariant, LockInvariant,
     SleepInvariant, DrainInvariant, PTL DEF Spec

-----------------------------------------------------------------------------
=============================================================================
