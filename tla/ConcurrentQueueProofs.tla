------------------------ MODULE ConcurrentQueueProofs ------------------------
(* Theorems about ConcurrentQueue, for every set of events and of producers   *)
(* and for a queue of any length.                                             *)
EXTENDS ConcurrentQueue, SequenceTheorems, TLAPS

(* The threads use the queue without the bound on its length that model        *)
(* checking needs: what they do inside push, emplace, pop and request_stop.    *)
Step ==
  \/ \E p \in Producers : (\E e \in Items : Push(p, e)) \/ NotifyOne(p)
  \/ EnterPop \/ PopStep \/ SpuriousWakeup \/ RequestStop \/ RunCallback

Use == Init /\ [][Step]_queueVars

(* What is proved of the queue in use holds of the queue that is checked.      *)
LEMMA SpecIsUse == Spec => Use
<1>1. Next => Step
  BY DEF Next, Produce, Step
<1> QED
  BY <1>1, PTL DEF Spec, Use

(* A step of any thread in push, emplace, pop or request_stop leaves every     *)
(* variable of the queue in its type.                                          *)
LEMMA TypeKept ==
  ASSUME TypeOK, [Step]_queueVars
  PROVE  TypeOK'
<1> USE DEF TypeOK, Places
<1>1. ASSUME NEW p \in Producers, NEW e \in Items, Push(p, e) PROVE TypeOK'
  BY <1>1 DEF Push
<1>2. ASSUME NEW p \in Producers, NotifyOne(p) PROVE TypeOK'
  BY <1>2 DEF NotifyOne, Notified
<1>3. CASE EnterPop
  BY <1>3 DEF EnterPop
<1>4. CASE Lock \/ Wait \/ WakeUp
  BY <1>4 DEF Lock, Wait, WakeUp
<1>5. CASE PopStopped
  BY <1>5 DEF PopStopped
<1>6. ASSUME NEW e \in Items, Pop(e) PROVE TypeOK'
  BY <1>6, HeadTailProperties DEF Pop
<1>7. CASE SpuriousWakeup
  BY <1>7 DEF SpuriousWakeup
<1>8. CASE RequestStop
  BY <1>8 DEF RequestStop
<1>9. CASE RunCallback
  BY <1>9 DEF RunCallback, Notified
<1>10. CASE UNCHANGED queueVars
  BY <1>10 DEF queueVars
<1> QED
  BY <1>1, <1>2, <1>3, <1>4, <1>5, <1>6, <1>7, <1>8, <1>9, <1>10
  DEF Step, PopStep

(* The types, for the queue in use.                                           *)
LEMMA UseTypes == Use => []TypeOK
<1>1. Init => TypeOK
  BY EmptySeq DEF Init, TypeOK, Places
<1>2. TypeOK /\ [Step]_queueVars => TypeOK'
  BY TypeKept
<1> QED
  BY <1>1, <1>2, PTL DEF Use

(* Every variable of the queue keeps its type, whatever the threads do with   *)
(* push, emplace, pop and request_stop.                                       *)
THEOREM TypeCorrect == Spec => []TypeOK
  BY SpecIsUse, UseTypes, PTL

(* A notify_one is owed for every event that a sleeping thread has not seen;   *)
(* each step of the queue in use keeps it so.                                  *)
LEMMA UseWakeup == Use => []NoLostWakeup
<1>1. Init => NoLostWakeup
  BY DEF Init, NoLostWakeup
<1>2. NoLostWakeup /\ [Step]_queueVars => NoLostWakeup'
  <2> SUFFICES ASSUME NoLostWakeup, [Step]_queueVars PROVE NoLostWakeup'
    OBVIOUS
  <2> USE DEF NoLostWakeup
  <2>1. ASSUME NEW p \in Producers, NEW e \in Items, Push(p, e)
        PROVE NoLostWakeup'
    BY <2>1 DEF Push
  <2>2. ASSUME NEW p \in Producers, NotifyOne(p) PROVE NoLostWakeup'
    <3>1. popper' # "waiting"
      BY <2>2 DEF NotifyOne, Notified
    <3> QED
      BY <3>1
  <2>3. CASE Wait
    BY <2>3 DEF Wait
  <2>4. CASE EnterPop \/ Lock \/ WakeUp \/ PopStopped \/ SpuriousWakeup
    BY <2>4 DEF EnterPop, Lock, WakeUp, PopStopped, SpuriousWakeup
  <2>5. ASSUME NEW e \in Items, Pop(e) PROVE NoLostWakeup'
    BY <2>5 DEF Pop
  <2>6. CASE RequestStop
    BY <2>6 DEF RequestStop
  <2>7. CASE RunCallback
    BY <2>7 DEF RunCallback, Notified
  <2>8. CASE UNCHANGED queueVars
    BY <2>8 DEF queueVars
  <2> QED
    BY <2>1, <2>2, <2>3, <2>4, <2>5, <2>6, <2>7, <2>8 DEF Step, PopStep
<1> QED
  BY <1>1, <1>2, PTL DEF Use

(* No wakeup is lost: the notify_one that push and emplace call after they    *)
(* have released m_mutex is enough, because the popping thread tests the      *)
(* queue under the mutex before it waits. The invariant is inductive as it    *)
(* stands.                                                                    *)
THEOREM WakeupIsNeverLost == Spec => []NoLostWakeup
  BY SpecIsUse, UseWakeup, PTL

(* Every step of the queue in use is one of the abstract queue, or leaves it   *)
(* unchanged.                                                                  *)
LEMMA UseFifo == Use => AbstractQueue!Spec
<1>1. Init => AbstractQueue!Init
  BY DEF Init, AbstractQueue!Init
<1>2. [Step]_queueVars => [AbstractQueue!Next]_AbstractQueue!vars
  <2> SUFFICES ASSUME [Step]_queueVars
               PROVE [AbstractQueue!Next]_AbstractQueue!vars
    OBVIOUS
  <2> USE DEF AbstractQueue!Next, AbstractQueue!vars
  <2>1. ASSUME NEW p \in Producers, NEW e \in Items, Push(p, e)
        PROVE AbstractQueue!Put
    BY <2>1 DEF Push, AbstractQueue!Put
  <2>2. ASSUME NEW p \in Producers, NotifyOne(p)
        PROVE UNCHANGED AbstractQueue!vars
    BY <2>2 DEF NotifyOne, Notified
  <2>3. CASE EnterPop
    BY <2>3 DEF EnterPop, AbstractQueue!Call
  <2>4. CASE Lock \/ Wait \/ WakeUp \/ SpuriousWakeup
    BY <2>4 DEF Lock, Wait, WakeUp, SpuriousWakeup
  <2>5. CASE PopStopped
    BY <2>5 DEF PopStopped, AbstractQueue!Throw
  <2>6. ASSUME NEW e \in Items, Pop(e) PROVE AbstractQueue!Take
    BY <2>6 DEF Pop, AbstractQueue!Take
  <2>7. CASE RequestStop
    BY <2>7 DEF RequestStop, AbstractQueue!Stop
  <2>8. CASE RunCallback
    BY <2>8 DEF RunCallback, Notified
  <2>9. CASE UNCHANGED queueVars
    BY <2>9 DEF queueVars
  <2> QED
    BY <2>1, <2>2, <2>3, <2>4, <2>5, <2>6, <2>7, <2>8, <2>9
    DEF Step, PopStep
<1> QED
  BY <1>1, <1>2, PTL DEF Use, AbstractQueue!Spec

(* The safety half of ImplementsEventQueue: pop returns the events of push    *)
(* and emplace, each once and in order, and throws only if a stop was         *)
(* requested. Every step is one of the abstract queue or leaves it unchanged. *)
THEOREM QueueIsFifo == Spec => AbstractQueue!Spec
  BY SpecIsUse, UseFifo, PTL
=============================================================================
