------------------------------ MODULE RkxMain ------------------------------
(***************************************************************************)
(* The life of one rkx process: main() in rkx.c, the MQTT thread it        *)
(* creates (kxmq_thread_main, kx_mq_loop_start) and the callbacks that the *)
(* mosquitto library runs on that thread.  The two threads meet at         *)
(* g_mutex, g_cond and g_cbComplete: main enters the shell only when the   *)
(* subscription callback has run.                                          *)
(*                                                                         *)
(* libmosquitto and the broker are external: they are modelled from how    *)
(* rkx.c and mq.c use them (mosquitto_loop_forever reconnects until        *)
(* mosquitto_disconnect was called; a clean session loses its subscription *)
(* with its connection).                                                   *)
(***************************************************************************)
EXTENDS Naturals

CONSTANTS
    MaxDrops,       \* bound: connections the network may lose
    MaxMsgs         \* bound: published messages in flight to this client

ASSUME BoundsAssumption == MaxDrops \in Nat /\ MaxMsgs \in Nat

VARIABLES
    proc,           \* the process: "run", how it exited, or "crash"
    mainPc,         \* where main() is
    mqPc,           \* where the MQTT thread is
    owner,          \* the thread that holds g_mutex, or "none"
    waiting,        \* main is in the wait set of g_cond
    cbComplete,     \* g_cbComplete
    mosq,           \* kq->mosq: "none", "live", "destroyed"
    sock,           \* "none", "open" (CONNECT sent), "up" (CONNACK accepted)
    disc,           \* mosquitto_disconnect has been called
    sub,            \* subscription of this connection
    inbox,          \* messages the broker has sent on this connection
    drops           \* connections lost so far

mainVars == <<mainPc, waiting>>
linkVars == <<sock, disc, sub, inbox, drops>>
vars == <<proc, mainPc, mqPc, owner, waiting, cbComplete, mosq, sock, disc,
          sub, inbox, drops>>

MainPcs == {"init", "create", "lock", "test", "park", "wait", "unlock",
            "shell", "free_net", "free_mq", "return"}
CallbackPcs == {"cb_lock", "cb_set", "cb_signal", "cb_unlock"}
MqPcs == {"none", "connect", "loop", "returned"} \cup CallbackPcs

TypeOK ==
    /\ proc \in {"run", "exit0", "exit1", "exit2", "crash"}
    /\ mainPc \in MainPcs
    /\ mqPc \in MqPcs
    /\ owner \in {"none", "main", "mq"}
    /\ waiting \in BOOLEAN
    /\ cbComplete \in BOOLEAN
    /\ mosq \in {"none", "live", "destroyed"}
    /\ sock \in {"none", "open", "up"}
    /\ disc \in BOOLEAN
    /\ sub \in {"none", "sent", "granted", "rejected"}
    /\ inbox \in 0..MaxMsgs
    /\ drops \in 0..MaxDrops

Init ==
    /\ proc = "run"
    /\ mainPc = "init" /\ mqPc = "none"
    /\ owner = "none" /\ waiting = FALSE /\ cbComplete = FALSE
    /\ mosq = "none" /\ sock = "none" /\ disc = FALSE
    /\ sub = "none" /\ inbox = 0 /\ drops = 0

-----------------------------------------------------------------------------
(* main().                                                                 *)

\* A thread acts only while the process is alive and its pc is at p.
Main(p) == proc = "run" /\ mainPc = p
Mq(p) == proc = "run" /\ mqPc = p

\* kx_sync_creat_net: without a redis connection the process ends.
CreatNetFails == proc' = "exit1" /\ UNCHANGED <<mainPc, mosq>>

\* kx_mq_init; when mosquitto_new fails it returns NULL, which
\* kx_mq_set_connect_cb dereferences.
MqInit == mosq' = "live" /\ mainPc' = "create" /\ UNCHANGED proc
MqInitFails == proc' = "crash" /\ UNCHANGED <<mainPc, mosq>>

\* rkx_init.
RkxInit ==
    /\ Main("init")
    /\ MqInit \/ CreatNetFails \/ MqInitFails
    /\ UNCHANGED <<mqPc, owner, waiting, cbComplete, linkVars>>

\* pthread_create, or exit(2) when it fails.
CreateThread ==
    /\ Main("create")
    /\ \/ mainPc' = "lock" /\ mqPc' = "connect" /\ UNCHANGED proc
       \/ proc' = "exit2" /\ UNCHANGED <<mainPc, mqPc>>
    /\ UNCHANGED <<owner, waiting, cbComplete, mosq, linkVars>>

MainLock ==
    /\ Main("lock")
    /\ owner = "none"
    /\ owner' = "main"
    /\ mainPc' = "test"
    /\ UNCHANGED <<proc, mqPc, waiting, cbComplete, mosq, linkVars>>

\* while (!g_cbComplete)
TestComplete ==
    /\ Main("test")
    /\ mainPc' = IF cbComplete THEN "unlock" ELSE "park"
    /\ UNCHANGED <<proc, mqPc, owner, waiting, cbComplete, mosq, linkVars>>

\* pthread_cond_wait, first half: give up g_mutex and join the wait set.
CondWait ==
    /\ Main("park")
    /\ owner' = "none"
    /\ waiting' = TRUE
    /\ mainPc' = "wait"
    /\ UNCHANGED <<proc, mqPc, cbComplete, mosq, linkVars>>

\* POSIX lets a waiter wake up without a signal.
SpuriousWakeup ==
    /\ Main("wait")
    /\ waiting
    /\ waiting' = FALSE
    /\ UNCHANGED <<proc, mainPc, mqPc, owner, cbComplete, mosq, linkVars>>

\* pthread_cond_wait, second half: awake, take g_mutex again and go back to
\* the loop condition.  The mutated form treats the while loop as an if.
CondReturnTo(p) ==
    /\ Main("wait")
    /\ ~waiting
    /\ owner = "none"
    /\ owner' = "main"
    /\ mainPc' = p
    /\ UNCHANGED <<proc, mqPc, waiting, cbComplete, mosq, linkVars>>
CondReturnNoRetest == CondReturnTo("unlock")
CondReturn == CondReturnTo("test")

MainUnlock ==
    /\ Main("unlock")
    /\ owner' = "none"
    /\ mainPc' = "shell"
    /\ UNCHANGED <<proc, mqPc, waiting, cbComplete, mosq, linkVars>>

\* kx_loop returns when linenoise returns NULL.
ShellReturns ==
    /\ Main("shell")
    /\ mainPc' = "free_net"
    /\ UNCHANGED <<proc, mqPc, owner, waiting, cbComplete, mosq, linkVars>>

FreeNet ==
    /\ Main("free_net")
    /\ mainPc' = "free_mq"
    /\ UNCHANGED <<proc, mqPc, owner, waiting, cbComplete, mosq, linkVars>>

\* kx_mq_free: main destroys the client without joining the MQTT thread.
FreeMq ==
    /\ Main("free_mq")
    /\ mosq' = "destroyed"
    /\ mainPc' = "return"
    /\ UNCHANGED <<proc, mqPc, owner, waiting, cbComplete, linkVars>>

\* rwlock destroyed, context freed, return 0: the process ends with main.
MainReturn ==
    /\ Main("return")
    /\ proc' = "exit0"
    /\ UNCHANGED <<mainPc, mqPc, owner, waiting, cbComplete, mosq, linkVars>>

-----------------------------------------------------------------------------
(* The MQTT thread.                                                        *)

\* The thread is inside mosquitto_loop_forever on a client that still exists.
InLoop == Mq("loop") /\ mosq = "live"

\* kx_mq_loop_start: mosquitto_connect opens the socket; when it fails the
\* client is destroyed and kxmq_thread_main calls exit(2).
MqConnect ==
    /\ Mq("connect")
    /\ \/ mqPc' = "loop" /\ sock' = "open" /\ UNCHANGED <<proc, mosq>>
       \/ mosq' = "destroyed" /\ proc' = "exit2" /\ UNCHANGED <<mqPc, sock>>
    /\ UNCHANGED <<mainPc, owner, waiting, cbComplete, disc, sub, inbox, drops>>

\* rkx_connect_cb on a CONNACK.  A refused connection (reason_code # 0) calls
\* mosquitto_disconnect and still goes on to subscribe; a failed subscribe
\* disconnects too.  The mutated form subscribes on the first connection only.
ConnectCbThat(subscribes) ==
    /\ InLoop
    /\ sock = "open" /\ ~disc
    /\ \E accepted \in BOOLEAN, rcOk \in BOOLEAN :
          /\ sock' = IF accepted THEN "up" ELSE "open"
          /\ sub' = IF subscribes /\ rcOk THEN "sent" ELSE "none"
          /\ disc' = (~accepted \/ (subscribes /\ ~rcOk))
    /\ UNCHANGED <<proc, mainPc, mqPc, owner, waiting, cbComplete, mosq, inbox,
                   drops>>
ConnectCbFirstOnly == ConnectCbThat(~cbComplete)
ConnectCb == ConnectCbThat(TRUE)

\* rkx_subscribe_cb, up to its critical section: the broker granted the topic
\* (qos <= 2), or rejected it and the client disconnects.
SubscribeCbNoDisconnect ==
    /\ InLoop
    /\ sock = "up" /\ ~disc /\ sub = "sent"
    /\ sub' \in {"granted", "rejected"}
    /\ mqPc' = "cb_lock"
    /\ UNCHANGED <<proc, mainPc, owner, waiting, cbComplete, mosq, sock, disc,
                   inbox, drops>>
SubscribeCb ==
    /\ InLoop
    /\ sock = "up" /\ ~disc /\ sub = "sent"
    /\ \E granted \in BOOLEAN :
          /\ sub' = IF granted THEN "granted" ELSE "rejected"
          /\ disc' = ~granted
    /\ mqPc' = "cb_lock"
    /\ UNCHANGED <<proc, mainPc, owner, waiting, cbComplete, mosq, sock, inbox,
                   drops>>

\* pthread_mutex_lock(&g_mutex)
CbLock ==
    /\ Mq("cb_lock")
    /\ owner = "none"
    /\ owner' = "mq"
    /\ mqPc' = "cb_set"
    /\ UNCHANGED <<proc, mainPc, waiting, cbComplete, mosq, linkVars>>

CbSet ==
    /\ Mq("cb_set")
    /\ cbComplete' = TRUE
    /\ mqPc' = "cb_signal"
    /\ UNCHANGED <<proc, mainPc, owner, waiting, mosq, linkVars>>

\* pthread_cond_signal wakes the one thread that can wait; the mutated form
\* forgets it.
CbSignalForgotten ==
    /\ Mq("cb_signal")
    /\ mqPc' = "cb_unlock"
    /\ UNCHANGED <<proc, mainPc, owner, waiting, cbComplete, mosq, linkVars>>
CbSignal ==
    /\ Mq("cb_signal")
    /\ waiting' = FALSE
    /\ mqPc' = "cb_unlock"
    /\ UNCHANGED <<proc, mainPc, owner, cbComplete, mosq, linkVars>>

CbUnlock ==
    /\ Mq("cb_unlock")
    /\ owner' = "none"
    /\ mqPc' = "loop"
    /\ UNCHANGED <<proc, mainPc, waiting, cbComplete, mosq, linkVars>>

\* rkx_message_cb prints one message the broker sent.  The mutated form
\* prints without one.
PrintMessage ==
    /\ InLoop
    /\ sock = "up" /\ ~disc
    /\ inbox' = inbox - 1
    /\ UNCHANGED <<proc, mainPc, mqPc, owner, waiting, cbComplete, mosq, sock,
                   disc, sub, drops>>
MessageCb == inbox > 0 /\ PrintMessage

\* mosquitto_loop_forever ends once the client has called
\* mosquitto_disconnect; kx_mq_loop_start returns 0 and the thread ends.
LoopReturns ==
    /\ InLoop
    /\ disc
    /\ mqPc' = "returned"
    /\ sock' = "none" /\ sub' = "none" /\ inbox' = 0
    /\ UNCHANGED <<proc, mainPc, owner, waiting, cbComplete, mosq, disc, drops>>

\* Otherwise a lost connection is reopened.
Reconnect ==
    /\ InLoop
    /\ sock = "none" /\ ~disc
    /\ sock' = "open"
    /\ UNCHANGED <<proc, mainPc, mqPc, owner, waiting, cbComplete, mosq, disc,
                   sub, inbox, drops>>

\* The thread is still in the library when main has destroyed the client: a
\* use after free, which may crash the process or go unnoticed.
UseAfterDestroy ==
    /\ Mq("loop") /\ mosq = "destroyed"
    /\ proc' \in {"run", "crash"}
    /\ UNCHANGED <<mainPc, mqPc, owner, waiting, cbComplete, mosq, linkVars>>

-----------------------------------------------------------------------------
(* The network and the broker.                                             *)

\* The connection is lost, and a clean session's subscription with it.
Drop ==
    /\ InLoop
    /\ sock # "none" /\ ~disc /\ drops < MaxDrops
    /\ drops' = drops + 1
    /\ sock' = "none" /\ sub' = "none" /\ inbox' = 0
    /\ UNCHANGED <<proc, mainPc, mqPc, owner, waiting, cbComplete, mosq, disc>>

\* The broker forwards a message; MQTT allows that before the SUBACK.
Publish ==
    /\ InLoop
    /\ sock = "up" /\ ~disc /\ sub \in {"sent", "granted"} /\ inbox < MaxMsgs
    /\ inbox' = inbox + 1
    /\ UNCHANGED <<proc, mainPc, mqPc, owner, waiting, cbComplete, mosq, sock,
                   disc, sub, drops>>

\* Nothing happens in a process that has ended.
Ended == proc # "run" /\ UNCHANGED vars

-----------------------------------------------------------------------------
MainNext ==
    \/ RkxInit \/ CreateThread \/ MainLock \/ TestComplete \/ CondWait
    \/ CondReturn \/ MainUnlock \/ FreeNet \/ FreeMq \/ MainReturn

MqNext ==
    \/ MqConnect \/ ConnectCb \/ SubscribeCb \/ CbLock \/ CbSet \/ CbSignal
    \/ CbUnlock \/ LoopReturns \/ Reconnect

Next ==
    \/ MainNext \/ SpuriousWakeup \/ ShellReturns
    \/ MqNext \/ MessageCb \/ UseAfterDestroy
    \/ Drop \/ Publish \/ Ended

Spec == Init /\ [][Next]_vars

\* Both threads are scheduled by the kernel, so neither is suspended forever;
\* a broker that keeps a connection answers on it; spurious wakeups are
\* finitely many.  The user need not leave the shell and no message need come.
FairSpec ==
    /\ Spec
    /\ WF_vars(MainNext) /\ WF_vars(MqNext)
    /\ <>[][~SpuriousWakeup]_vars

-----------------------------------------------------------------------------
(* Properties.                                                             *)

PastWait == {"unlock", "shell", "free_net", "free_mq", "return"}
BeforeShell == {"lock", "test", "park", "wait"}

\* main is past its wait loop only if the subscription callback has set
\* g_cbComplete, however often pthread_cond_wait woke up before that.
ShellAfterSubscribe == mainPc \in PastWait => cbComplete

\* The signal is never lost: main sleeps on g_cond with g_cbComplete set only
\* while the callback is between setting the flag and signalling.
NoLostWakeup == waiting /\ cbComplete => mqPc = "cb_signal"

\* main's test-and-wait and the callback's set-and-signal exclude each other.
CriticalSections ==
    ~ /\ mainPc \in {"test", "park", "unlock"}
      /\ mqPc \in {"cb_set", "cb_signal", "cb_unlock"}

\* main enters the shell after the subscription callback only, however often
\* it wakes up and however the two threads interleave, and no signal is lost.
Handshake == ShellAfterSubscribe /\ NoLostWakeup /\ CriticalSections

\* The comment in rkx_connect_cb: an accepted connection that is not being
\* closed has asked for its subscription, after a reconnection too.
Resubscribed ==
    mqPc = "loop" /\ sock = "up" /\ ~disc => sub \in {"sent", "granted"}

\* A rejected subscription ends the network loop (unless main has freed the
\* client or left first).
RejectionEndsLoop ==
    sub = "rejected" ~> (mqPc = "returned" \/ mosq = "destroyed" \/ proc # "run")

\* main gets past the wait, or the process ends, or the network loop ended
\* before any SUBACK: that is the only way to be left waiting.
ShellOrLoopEnded ==
    mainPc = "lock" ~> \/ mainPc \in PastWait
                       \/ proc # "run"
                       \/ mqPc = "returned" /\ ~cbComplete

\* The comment in kx_mq_loop_start: the loop runs until mosquitto_disconnect
\* is called.  main destroys the client under the running loop.
LoopUntilDisconnect == mqPc = "loop" => mosq = "live"
=============================================================================
