--------------------------- MODULE RkxMainProofs ---------------------------
(***************************************************************************)
(* Proofs about RkxMain for every bound on lost connections and messages:  *)
(* the handshake of main and the subscription callback, and the renewal of *)
(* the subscription.                                                       *)
(***************************************************************************)
EXTENDS RkxMain, TLAPS

\* g_mutex is held by exactly the thread whose pc is in a critical section.
MutexInv ==
    /\ owner = "main" <=> mainPc \in {"test", "park", "unlock"}
    /\ owner = "mq" <=> mqPc \in {"cb_set", "cb_signal", "cb_unlock"}
    /\ mainPc \in {"init", "create"} => mqPc = "none"

\* What main has learnt of g_cbComplete at each point of its wait loop.
FlagInv ==
    /\ mainPc = "park" => ~cbComplete
    /\ waiting => mainPc = "wait"
    /\ NoLostWakeup
    /\ ShellAfterSubscribe

\* The subscription follows the connection, inside callbacks too.
SubInv == sock = "up" /\ ~disc => sub \in {"sent", "granted"}

\* The inductive invariant.
IInv == TypeOK /\ MutexInv /\ FlagInv /\ SubInv

-----------------------------------------------------------------------------
\* Types are preserved by every step of either thread and of the network.
LEMMA TypeStep == TypeOK /\ [Next]_vars => TypeOK'
<1> SUFFICES ASSUME TypeOK, [Next]_vars PROVE TypeOK'
    OBVIOUS
<1> USE BoundsAssumption DEF TypeOK, MainPcs, MqPcs, CallbackPcs, Main, Mq,
                             InLoop, linkVars
<1>1. CASE MainNext
    BY <1>1 DEF MainNext, RkxInit, CreatNetFails, MqInit, MqInitFails,
                CreateThread, MainLock, TestComplete,
                CondWait, CondReturn, CondReturnTo, MainUnlock, FreeNet,
                FreeMq, MainReturn
<1>2. CASE SpuriousWakeup \/ ShellReturns \/ UseAfterDestroy
    BY <1>2 DEF SpuriousWakeup, ShellReturns, UseAfterDestroy
<1>3. CASE MqConnect \/ ConnectCb \/ SubscribeCb
    BY <1>3 DEF MqConnect, ConnectCb, ConnectCbThat, SubscribeCb
<1>4. CASE CbLock \/ CbSet \/ CbSignal \/ CbUnlock \/ LoopReturns \/ Reconnect
  <2>1. CASE CbLock BY <2>1 DEF CbLock
  <2>2. CASE CbSet BY <2>2 DEF CbSet
  <2>3. CASE CbSignal BY <2>3, ZenonT(30) DEF CbSignal
  <2>4. CASE CbUnlock BY <2>4 DEF CbUnlock
  <2>5. CASE LoopReturns BY <2>5 DEF LoopReturns
  <2>6. CASE Reconnect BY <2>6 DEF Reconnect
  <2> QED BY <1>4, <2>1, <2>2, <2>3, <2>4, <2>5, <2>6
<1>5. CASE MessageCb \/ Drop \/ Publish
    BY <1>5 DEF MessageCb, PrintMessage, Drop, Publish
<1>6. CASE Ended \/ UNCHANGED vars
    BY <1>6 DEF Ended, vars
<1> QED
    BY <1>1, <1>2, <1>3, <1>4, <1>5, <1>6 DEF Next, MqNext

\* No step lets both threads into their critical sections.
LEMMA MutexStep == TypeOK /\ MutexInv /\ [Next]_vars => MutexInv'
<1> SUFFICES ASSUME TypeOK, MutexInv, [Next]_vars PROVE MutexInv'
    OBVIOUS
<1> USE DEF TypeOK, MutexInv, MainPcs, MqPcs, CallbackPcs, Main, Mq, InLoop
<1>1. CASE MainNext
    BY <1>1 DEF MainNext, RkxInit, CreatNetFails, MqInit, MqInitFails,
                CreateThread, MainLock, TestComplete,
                CondWait, CondReturn, CondReturnTo, MainUnlock, FreeNet,
                FreeMq, MainReturn
<1>2. CASE SpuriousWakeup \/ ShellReturns \/ UseAfterDestroy
    BY <1>2 DEF SpuriousWakeup, ShellReturns, UseAfterDestroy
<1>3. CASE MqConnect \/ ConnectCb \/ SubscribeCb
    BY <1>3 DEF MqConnect, ConnectCb, ConnectCbThat, SubscribeCb
<1>4. CASE CbLock \/ CbSet \/ CbSignal \/ CbUnlock \/ LoopReturns \/ Reconnect
    BY <1>4 DEF CbLock, CbSet, CbSignal, CbUnlock, LoopReturns, Reconnect
<1>5. CASE MessageCb \/ Drop \/ Publish
    BY <1>5 DEF MessageCb, PrintMessage, Drop, Publish
<1>6. CASE Ended \/ UNCHANGED vars
    BY <1>6 DEF Ended, vars
<1> QED
    BY <1>1, <1>2, <1>3, <1>4, <1>5, <1>6 DEF Next, MqNext

\* g_cbComplete changes only under the mutex, so what main has read of it
\* stays true until main gives the mutex up.
LEMMA FlagStep == TypeOK /\ MutexInv /\ FlagInv /\ [Next]_vars => FlagInv'
<1> SUFFICES ASSUME TypeOK, MutexInv, FlagInv, [Next]_vars PROVE FlagInv'
    OBVIOUS
<1> USE DEF TypeOK, MutexInv, FlagInv, NoLostWakeup, ShellAfterSubscribe,
            PastWait, MainPcs, MqPcs, CallbackPcs, Main, Mq, InLoop
<1>1. CASE MainNext
    BY <1>1 DEF MainNext, RkxInit, CreatNetFails, MqInit, MqInitFails,
                CreateThread, MainLock, TestComplete,
                CondWait, CondReturn, CondReturnTo, MainUnlock, FreeNet,
                FreeMq, MainReturn
<1>2. CASE SpuriousWakeup \/ ShellReturns \/ UseAfterDestroy
    BY <1>2 DEF SpuriousWakeup, ShellReturns, UseAfterDestroy
<1>3. CASE MqConnect \/ ConnectCb \/ SubscribeCb
    BY <1>3 DEF MqConnect, ConnectCb, ConnectCbThat, SubscribeCb
<1>4. CASE CbLock \/ CbSet \/ CbSignal \/ CbUnlock \/ LoopReturns \/ Reconnect
    BY <1>4 DEF CbLock, CbSet, CbSignal, CbUnlock, LoopReturns, Reconnect
<1>5. CASE MessageCb \/ Drop \/ Publish
    BY <1>5 DEF MessageCb, PrintMessage, Drop, Publish
<1>6. CASE Ended \/ UNCHANGED vars
    BY <1>6 DEF Ended, vars
<1> QED
    BY <1>1, <1>2, <1>3, <1>4, <1>5, <1>6 DEF Next, MqNext

\* A connection that comes up has asked for its subscription or is being
\* closed; a lost one takes its subscription with it.
LEMMA SubStep == TypeOK /\ SubInv /\ [Next]_vars => SubInv'
<1> SUFFICES ASSUME TypeOK, SubInv, [Next]_vars PROVE SubInv'
    OBVIOUS
<1> USE DEF TypeOK, SubInv, Main, Mq, InLoop, linkVars
<1>1. CASE MainNext
    BY <1>1 DEF MainNext, RkxInit, CreatNetFails, MqInit, MqInitFails,
                CreateThread, MainLock, TestComplete,
                CondWait, CondReturn, CondReturnTo, MainUnlock, FreeNet,
                FreeMq, MainReturn
<1>2. CASE SpuriousWakeup \/ ShellReturns \/ UseAfterDestroy
    BY <1>2 DEF SpuriousWakeup, ShellReturns, UseAfterDestroy
<1>3. CASE MqConnect \/ ConnectCb \/ SubscribeCb
    BY <1>3 DEF MqConnect, ConnectCb, ConnectCbThat, SubscribeCb
<1>4. CASE CbLock \/ CbSet \/ CbSignal \/ CbUnlock \/ LoopReturns \/ Reconnect
    BY <1>4 DEF CbLock, CbSet, CbSignal, CbUnlock, LoopReturns, Reconnect
<1>5. CASE MessageCb \/ Drop \/ Publish
    BY <1>5 DEF MessageCb, PrintMessage, Drop, Publish
<1>6. CASE Ended \/ UNCHANGED vars
    BY <1>6 DEF Ended, vars
<1> QED
    BY <1>1, <1>2, <1>3, <1>4, <1>5, <1>6 DEF Next, MqNext

\* IInv holds in every reachable state.
THEOREM Inductive == Spec => []IInv
<1>1. Init => IInv
  <2>1. Init => TypeOK
    <3>1. Init => inbox \in 0..MaxMsgs /\ drops \in 0..MaxDrops
      BY BoundsAssumption DEF Init
    <3>2. Init => {waiting, cbComplete, disc} \subseteq BOOLEAN
      BY Zenon DEF Init
    <3> QED
      BY <3>1, <3>2, Zenon DEF Init, TypeOK, MainPcs, MqPcs, CallbackPcs
  <2>2. Init => MutexInv
    BY DEF Init, MutexInv
  <2>3. Init => FlagInv /\ SubInv
    BY DEF Init, FlagInv, SubInv, NoLostWakeup, ShellAfterSubscribe, PastWait
  <2> QED
    BY <2>1, <2>2, <2>3 DEF IInv
<1>2. IInv /\ [Next]_vars => IInv'
    BY TypeStep, MutexStep, FlagStep, SubStep DEF IInv
<1> QED
    BY <1>1, <1>2, PTL DEF Spec

\* Every variable keeps its type.
THEOREM TypeCorrect == Spec => []TypeOK
<1>1. IInv => TypeOK
    BY DEF IInv
<1> QED
    BY <1>1, Inductive, PTL

\* main enters the shell only after the subscription callback, no signal is
\* lost, and the critical sections exclude each other.
THEOREM HandshakeCorrect == Spec => []Handshake
<1>1. IInv => Handshake
    BY DEF IInv, FlagInv, MutexInv, CriticalSections, Handshake
<1> QED
    BY <1>1, Inductive, PTL

\* However often the connection is lost, a connection in use has asked for
\* its subscription.
THEOREM SubscriptionRenewed == Spec => []Resubscribed
<1>1. IInv => Resubscribed
    BY DEF IInv, SubInv, Resubscribed
<1> QED
    BY <1>1, Inductive, PTL
=============================================================================
