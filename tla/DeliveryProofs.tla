--------------------------- MODULE DeliveryProofs ---------------------------
(***************************************************************************)
(* Proofs about Delivery, for every number of sessions, consumers and      *)
(* messages and for the one or two upstreams a configuration may have.     *)
(*                                                                         *)
(* SettlesMeant speaks of what upstreams have settled.  It is inductive    *)
(* together with how each delivery got its tag (TagInv), which rests on    *)
(* what the goroutines hold (GoInv) and on the session and consumer the    *)
(* main loop works on (LoopInv).                                           *)
(*                                                                         *)
(* The other results follow one message from the broker to the client.     *)
(* Moves sorts the steps by what they do to it; Ordered is the order of    *)
(* the messages of one consumer on their way, Accounted the places a       *)
(* message can be in, UniqueInv says that it is in one of them only, and   *)
(* OpenInv that the broker still waits for what has not been answered.     *)
(*                                                                         *)
(* For the multiple flag, Gapless says that below a tag which a consumer   *)
(* alone on its channel was given there is none it was not given, and      *)
(* AnswerInv follows what was answered until the upstream has settled it.  *)
(***************************************************************************)
EXTENDS Delivery, SequenceTheorems, TLAPS

\* restoreDeliveryTag undoes Tag: the client's tag of message t of upstream u gives
\* back t and u.
LEMMA RestoreOfTag ==
  ASSUME NEW t \in Nat, NEW u \in Upstream
  PROVE  /\ Tag(t, u) \in Nat
         /\ RestoreTag(Tag(t, u)) = t
         /\ RestoreIndex(Tag(t, u)) = u
<1>1. CASE N = 1
  BY <1>1 DEF Upstream, Tag, RestoreTag, RestoreIndex
<1>2. CASE N = 2
  BY <1>2 DEF Upstream, Tag, RestoreTag, RestoreIndex
<1>3. QED
  BY <1>1, <1>2, DeliveryAssumption

\* Two messages never share a client tag.
LEMMA TagInjective ==
  ASSUME NEW t1 \in Nat, NEW u1 \in Upstream, NEW t2 \in Nat, NEW u2 \in Upstream,
         Tag(t1, u1) = Tag(t2, u2)
  PROVE  t1 = t2 /\ u1 = u2
<1>1. RestoreTag(Tag(t1, u1)) = t1 /\ RestoreIndex(Tag(t1, u1)) = u1
  BY RestoreOfTag
<1>2. RestoreTag(Tag(t2, u2)) = t2 /\ RestoreIndex(Tag(t2, u2)) = u2
  BY RestoreOfTag
<1>3. QED
  BY <1>1, <1>2

-----------------------------------------------------------------------------
\* Which session and consumer the main loop is working on.
LoopInv ==
  /\ hasChan => session \in Session
  /\ pc \in {"consume", "start", "cancel", "get", "close"} => hasChan
  /\ pc \in {"consume", "start"} => consumes \in Consumer
  /\ pc = "cancel" => cur \in okSent
  /\ \A k \in okSent : k <= consumes

\* Consumers belong to a session, and goroutines about to send hold a message.
GoInv ==
  /\ \A k \in Consumer : k <= consumes => consOf[k] \in Session
  /\ \A k \in Consumer, u \in Upstream :
       up[k][u] # "none" \/ gpc[k][u] # "none" => k <= consumes
  /\ \A k \in Consumer, u \in Upstream : gpc[k][u] = "send" => hold[k][u] \in MsgTag

\* A delivery carries the tag of its message.
TagInv == \A d \in received : d.tag = Tag(d.t, d.u)

IInv == TypeOK /\ LoopInv /\ GoInv /\ TagInv /\ SettlesMeant

\* The first states satisfy the invariant: nothing has been opened or sent.
LEMMA InitIInv == Init => IInv
<1> SUFFICES ASSUME Init PROVE IInv
  OBVIOUS
<1> USE DeliveryAssumption DEF Init, Upstream, Session, Consumer
<1>1. hasChan \in BOOLEAN
  BY Zenon
<1>2. TypeMain
  BY <1>1 DEF TypeMain
<1>3. TypeLib
  BY DEF TypeLib
<1>4. TypeGo
  BY DEF TypeGo
<1>5. TypeClient
  BY Zenon DEF TypeClient
<1>6. LoopInv
  BY DEF LoopInv
<1>7. GoInv
  BY DEF GoInv
<1>8. TagInv /\ SettlesMeant
  BY DEF TagInv, SettlesMeant
<1>9. QED
  BY <1>2, <1>3, <1>4, <1>5, <1>6, <1>7, <1>8 DEF IInv, TypeOK

\* The main loop's variables keep their types.
LEMMA TypeMainStep == TypeMain /\ [Next]_vars => TypeMain'
<1> SUFFICES ASSUME TypeMain, [Next]_vars PROVE TypeMain'
  OBVIOUS
<1>1. CASE ChannelOpen
  BY <1>1, DeliveryAssumption DEF ChannelOpen, TypeMain, Upstream, Session, Consumer
<1>2. CASE ChannelClose
  BY <1>2, DeliveryAssumption DEF ChannelClose, TypeMain, Upstream, Session, Consumer
<1>3. CASE CloseUpstream
  BY <1>3, DeliveryAssumption DEF CloseUpstream, TypeMain, Upstream, Session, Consumer
<1>4. CASE CloseDone
  <2>1. hasChan' \in BOOLEAN
    BY <1>4, Zenon DEF CloseDone
  <2>2. QED
    BY <1>4, <2>1, DeliveryAssumption DEF CloseDone, TypeMain
<1>5. CASE BasicConsume
  BY <1>5, DeliveryAssumption DEF BasicConsume, TypeMain, Upstream, Session, Consumer
<1>6. CASE ConsumeUpstream
  BY <1>6, DeliveryAssumption DEF ConsumeUpstream, TypeMain, Upstream, Session, Consumer
<1>7. CASE ConsumeOk
  BY <1>7, DeliveryAssumption DEF ConsumeOk, TypeMain, Upstream, Session, Consumer
<1>8. CASE ConsumeStart
  BY <1>8, DeliveryAssumption DEF ConsumeStart, TypeMain, Upstream, Session, Consumer
<1>9. CASE CancelUpstream
  BY <1>9, DeliveryAssumption DEF CancelUpstream, TypeMain, Upstream, Session, Consumer
<1>10. CASE CancelDone
  BY <1>10, DeliveryAssumption DEF CancelDone, TypeMain, Upstream, Session, Consumer
<1>11. CASE HandlerFail
  BY <1>11, DeliveryAssumption DEF HandlerFail, TypeMain, Upstream, Session, Consumer
<1>12. CASE BasicGet
  BY <1>12, DeliveryAssumption DEF BasicGet, TypeMain, Upstream, Session, Consumer
<1>13. CASE GetEmpty
  BY <1>13, DeliveryAssumption DEF GetEmpty, TypeMain, Upstream, Session, Consumer
<1>14. CASE MainExit
  BY <1>14, DeliveryAssumption DEF MainExit, TypeMain, Upstream, Session, Consumer
<1>15. CASE ProxyClose
  BY <1>15, DeliveryAssumption DEF ProxyClose, TypeMain, Upstream, Session, Consumer
<1>16. ASSUME NEW k \in Consumer, BasicCancel(k) PROVE TypeMain'
  BY <1>16, DeliveryAssumption DEF BasicCancel, TypeMain, Consumer
<1>17. ASSUME NEW u \in Upstream, GetNothing(u) PROVE TypeMain'
  BY <1>17, DeliveryAssumption DEF GetNothing, TypeMain, Upstream, Session, Consumer
<1>18. ASSUME NEW u \in Upstream, GetMessage(u) PROVE TypeMain'
  BY <1>18, DeliveryAssumption DEF GetMessage, TypeMain, Upstream, Session, Consumer
<1>19. ASSUME NEW d \in received, NEW multiple \in BOOLEAN, Answer(d, multiple) PROVE TypeMain'
  <2>1. PICK u, t : /\ AnswerLost(u) \/ AnswerSettles(d, u, t, multiple) \/ AnswerRefused(d, u, t)
                    /\ UNCHANGED <<i, todo, session, hasChan, consumes, consOf, cur>>
    BY <1>19, Zenon DEF Answer
  <2>2. pc' \in {pc, "exit"}
    BY <2>1, Zenon DEF AnswerLost, AnswerSettles, AnswerRefused
  <2>3. QED
    BY <2>1, <2>2 DEF TypeMain
<1>20. CASE UNCHANGED mainVars
  BY <1>20 DEF TypeMain, mainVars
<1>21. CASE ClientAnswers
  BY <1>21, <1>19, Zenon DEF ClientAnswers, BasicAck, BasicNack
<1>22. CASE ClientGone
  BY <1>20, <1>22 DEF ClientGone, mainVars, libVars, goVars, clientVars
<1>23. ASSUME NEW u \in Upstream, BrokerCloseChannel(u) PROVE TypeMain'
  BY <1>20, <1>23 DEF BrokerCloseChannel, mainVars, libVars, goVars, clientVars
<1>24. ASSUME NEW k \in Consumer, NEW u \in Upstream, BrokerDeliver(k, u) PROVE TypeMain'
  BY <1>20, <1>24 DEF BrokerDeliver, mainVars, libVars, goVars, clientVars
<1>25. ASSUME NEW k \in Consumer, NEW u \in Upstream, BrokerCancel(k, u) PROVE TypeMain'
  BY <1>20, <1>25 DEF BrokerCancel, mainVars, libVars, goVars, clientVars
<1>26. ASSUME NEW k \in Consumer, NEW u \in Upstream, GoRecv(k, u) PROVE TypeMain'
  BY <1>20, <1>26 DEF GoRecv, mainVars, libVars, goVars, clientVars
<1>27. ASSUME NEW k \in Consumer, NEW u \in Upstream, GoSend(k, u) PROVE TypeMain'
  BY <1>20, <1>27 DEF GoSend, mainVars, libVars, goVars, clientVars
<1>28. ASSUME NEW k \in Consumer, NEW u \in Upstream, GoEnd(k, u) PROVE TypeMain'
  BY <1>20, <1>28 DEF GoEnd, mainVars, libVars, goVars, clientVars
<1>29. CASE ClientNext
  BY <1>1, <1>2, <1>3, <1>4, <1>5, <1>6, <1>7, <1>8, <1>9, <1>10, <1>11, <1>12, <1>13, <1>14, <1>15, <1>16, <1>17, <1>18, <1>20, <1>21, <1>29 DEF ClientNext, mainVars, libVars, goVars, clientVars
<1>30. CASE HandlerNext
  BY <1>1, <1>2, <1>3, <1>4, <1>5, <1>6, <1>7, <1>8, <1>9, <1>10, <1>11, <1>12, <1>13, <1>14, <1>15, <1>16, <1>17, <1>18, <1>20, <1>21, <1>30 DEF HandlerNext, mainVars, libVars, goVars, clientVars
<1>31. QED
  BY <1>1, <1>2, <1>3, <1>4, <1>5, <1>6, <1>7, <1>8, <1>9, <1>10, <1>11, <1>12, <1>13, <1>14, <1>15, <1>16, <1>17, <1>18, <1>20, <1>21, <1>22, <1>23, <1>24, <1>25, <1>26, <1>27, <1>28, <1>29, <1>30 DEF Next, GoNext, vars, mainVars, libVars, goVars, clientVars

\* Closing upstream channels keeps the library's types.
LEMMA CloseLibTypes ==
  ASSUME TypeLib, NEW s \in Session, NEW us, CloseLib(s, us)
  PROVE  TypeLib'
<1>1. chOpen' \in [Session -> [Upstream -> BOOLEAN]]
  BY DEF TypeLib, CloseLib
<1>2. unacked' \in [Session -> [Upstream -> SUBSET MsgTag]]
  BY DEF TypeLib, CloseLib
<1>3. up' \in [Consumer -> [Upstream -> {"none", "active", "cancelled"}]]
  BY DEF TypeLib, CloseLib
<1>4. buf' \in [Consumer -> [Upstream -> Seq(MsgTag)]]
  BY DEF TypeLib, CloseLib
<1>5. QED
  BY <1>1, <1>2, <1>3, <1>4 DEF TypeLib, CloseLib

\* The upstream channels keep their types.
LEMMA TypeLibStep == TypeOK /\ LoopInv /\ GoInv /\ [Next]_vars => TypeLib'
<1> SUFFICES ASSUME TypeMain, TypeLib, TypeGo, TypeClient, LoopInv, GoInv, [Next]_vars PROVE TypeLib'
  BY DEF TypeOK
<1>1. CASE ChannelOpen
  BY <1>1, DeliveryAssumption DEF ChannelOpen, TypeMain, TypeLib, Upstream, Session, Consumer
<1>2. CASE CloseUpstream
  <2>1. session \in Session
    BY <1>2 DEF CloseUpstream, LoopInv
  <2>2. QED
    BY <1>2, <2>1, CloseLibTypes DEF CloseUpstream
<1>3. CASE ConsumeUpstream
  BY <1>3, DeliveryAssumption DEF ConsumeUpstream, TypeLib
<1>4. CASE CancelUpstream
  BY <1>4, DeliveryAssumption DEF CancelUpstream, TypeLib
<1>5. ASSUME NEW u \in Upstream, GetMessage(u) PROVE TypeLib'
  <2>1. session \in Session
    BY <1>5 DEF GetMessage, LoopInv
  <2>2. last[session][u] + 1 \in MsgTag
    BY <1>5, <2>1, DeliveryAssumption DEF GetMessage, TypeLib, MsgTag
  <2>3. QED
    BY <1>5, <2>1, <2>2 DEF GetMessage, TypeLib, MsgTag
<1>6. ASSUME NEW d \in received, NEW multiple \in BOOLEAN, Answer(d, multiple) PROVE TypeLib'
  <2>1. session \in Session
    BY <1>6 DEF Answer, LoopInv
  <2>2. PICK v : v = RestoreIndex(d.tag)
    OBVIOUS
  <2>3. v \in Upstream
    <3>1. d.tag \in Nat
      BY DEF TypeClient, Delivery
    <3>2. QED
      BY <2>2, <3>1, DeliveryAssumption DEF RestoreIndex, Upstream
  <2>4. AnswerLost(v) \/ AnswerSettles(d, v, RestoreTag(d.tag), multiple)
                      \/ AnswerRefused(d, v, RestoreTag(d.tag))
    BY <1>6, <2>2, Zenon DEF Answer
  <2>5. CASE AnswerLost(v)
    BY <2>5 DEF AnswerLost, TypeLib, libVars
  <2>6. CASE AnswerRefused(d, v, RestoreTag(d.tag))
    BY <2>1, <2>6, CloseLibTypes DEF AnswerRefused
  <2>7. CASE AnswerSettles(d, v, RestoreTag(d.tag), multiple)
    <3>1. PICK c : unacked' = [unacked EXCEPT ![session][v] = unacked[session][v] \ c]
      BY <2>7, Zenon DEF AnswerSettles
    <3>2. unacked[session][v] \ c \in SUBSET MsgTag
      BY <2>1, <2>3 DEF TypeLib
    <3>3. [unacked[session] EXCEPT ![v] = unacked[session][v] \ c] \in [Upstream -> SUBSET MsgTag]
      BY <2>1, <2>3, <3>2 DEF TypeLib
    <3>4. unacked' \in [Session -> [Upstream -> SUBSET MsgTag]]
      BY <2>1, <3>1, <3>3 DEF TypeLib
    <3>5. QED
      BY <2>7, <3>4 DEF AnswerSettles, TypeLib
  <2>8. QED
    BY <2>4, <2>5, <2>6, <2>7, Zenon
<1>7. CASE ProxyClose
  <2>1. session > 0 => session \in Session
    BY DEF TypeMain, Session
  <2>2. CASE session > 0 /\ CloseLib(session, Upstream)
    BY <2>1, <2>2, CloseLibTypes
  <2>3. CASE session = 0 /\ UNCHANGED libVars
    BY <2>3 DEF TypeLib, libVars
  <2>4. QED
    BY <1>7, <2>2, <2>3 DEF ProxyClose
<1>8. ASSUME NEW u \in Upstream, BrokerCloseChannel(u) PROVE TypeLib'
  <2>1. session \in Session
    BY <1>8 DEF BrokerCloseChannel, TypeMain, Session
  <2>2. QED
    BY <1>8, <2>1, CloseLibTypes DEF BrokerCloseChannel
<1>9. ASSUME NEW k \in Consumer, NEW u \in Upstream, BrokerDeliver(k, u) PROVE TypeLib'
  <2>1. consOf[k] \in Session
    BY <1>9 DEF BrokerDeliver, GoInv
  <2>2. last[consOf[k]][u] + 1 \in MsgTag
    BY <1>9, <2>1, DeliveryAssumption DEF BrokerDeliver, TypeLib, MsgTag
  <2>3. Append(buf[k][u], last[consOf[k]][u] + 1) \in Seq(MsgTag)
    BY <2>2 DEF TypeLib
  <2>4. buf' \in [Consumer -> [Upstream -> Seq(MsgTag)]]
    BY <1>9, <2>3 DEF BrokerDeliver, TypeLib
  <2>5. last' \in [Session -> [Upstream -> 0 .. MaxMsg]]
    <3>1. last[consOf[k]][u] + 1 \in 0 .. MaxMsg
      BY <2>2, DeliveryAssumption DEF MsgTag
    <3>2. QED
      BY <1>9, <2>1, <3>1 DEF BrokerDeliver, TypeLib
  <2>6. unacked' \in [Session -> [Upstream -> SUBSET MsgTag]]
    BY <1>9, <2>2 DEF BrokerDeliver, TypeLib
  <2>7. QED
    BY <1>9, <2>4, <2>5, <2>6 DEF BrokerDeliver, TypeLib
<1>10. ASSUME NEW k \in Consumer, NEW u \in Upstream, BrokerCancel(k, u) PROVE TypeLib'
  BY <1>10, DeliveryAssumption DEF BrokerCancel, TypeLib
<1>11. ASSUME NEW k \in Consumer, NEW u \in Upstream, GoRecv(k, u) PROVE TypeLib'
  <2>1. Tail(buf[k][u]) \in Seq(MsgTag)
    BY <1>11 DEF GoRecv, TypeLib
  <2>2. QED
    BY <1>11, <2>1 DEF GoRecv, TypeLib
<1>12. CASE UNCHANGED libVars
  BY <1>12 DEF TypeLib, libVars
<1>13. CASE ClientAnswers
  BY <1>13, <1>6, Zenon DEF ClientAnswers, BasicAck, BasicNack
<1>14. CASE MainExit
  BY <1>12, <1>14 DEF MainExit, mainVars, libVars, goVars, clientVars
<1>15. CASE ClientGone
  BY <1>12, <1>15 DEF ClientGone, mainVars, libVars, goVars, clientVars
<1>16. ASSUME NEW k \in Consumer, NEW u \in Upstream, GoSend(k, u) PROVE TypeLib'
  BY <1>12, <1>16 DEF GoSend, mainVars, libVars, goVars, clientVars
<1>17. ASSUME NEW k \in Consumer, NEW u \in Upstream, GoEnd(k, u) PROVE TypeLib'
  BY <1>12, <1>17 DEF GoEnd, mainVars, libVars, goVars, clientVars
<1>18. CASE ClientNext
  BY <1>1, <1>2, <1>3, <1>4, <1>5, <1>7, <1>8, <1>9, <1>10, <1>11, <1>12, <1>13, <1>18 DEF ClientNext, mainVars, libVars, goVars, clientVars, ChannelClose, BasicConsume, BasicGet, BasicCancel
<1>19. CASE HandlerNext
  BY <1>1, <1>2, <1>3, <1>4, <1>5, <1>7, <1>8, <1>9, <1>10, <1>11, <1>12, <1>13, <1>19 DEF HandlerNext, mainVars, libVars, goVars, clientVars, CloseDone, ConsumeOk, ConsumeStart, CancelDone, GetNothing, GetEmpty, HandlerFail
<1>20. QED
  BY <1>1, <1>2, <1>3, <1>4, <1>5, <1>7, <1>8, <1>9, <1>10, <1>11, <1>12, <1>13, <1>14, <1>15, <1>16, <1>17, <1>18, <1>19 DEF Next, GoNext, vars, mainVars, libVars, goVars, clientVars

\* The goroutines keep their types.
LEMMA TypeGoStep == TypeOK /\ LoopInv /\ GoInv /\ [Next]_vars => TypeGo'
<1> SUFFICES ASSUME TypeMain, TypeLib, TypeGo, TypeClient, LoopInv, GoInv, [Next]_vars PROVE TypeGo'
  BY DEF TypeOK
<1>1. CASE ConsumeStart
  BY <1>1 DEF ConsumeStart, TypeGo
<1>2. ASSUME NEW k \in Consumer, NEW u \in Upstream, GoRecv(k, u) PROVE TypeGo'
  <2>1. Head(buf[k][u]) \in MsgTag
    BY <1>2 DEF GoRecv, TypeLib
  <2>2. QED
    BY <1>2, <2>1 DEF GoRecv, TypeGo, MsgTag
<1>3. ASSUME NEW k \in Consumer, NEW u \in Upstream, GoSend(k, u) PROVE TypeGo'
  BY <1>3, DeliveryAssumption DEF GoSend, TypeGo
<1>4. ASSUME NEW k \in Consumer, NEW u \in Upstream, GoEnd(k, u) PROVE TypeGo'
  BY <1>4 DEF GoEnd, TypeGo
<1>5. CASE UNCHANGED goVars
  BY <1>5 DEF TypeGo, goVars
<1>6. CASE MainExit
  BY <1>5, <1>6 DEF MainExit, mainVars, libVars, goVars, clientVars
<1>7. CASE ClientGone
  BY <1>5, <1>7 DEF ClientGone, mainVars, libVars, goVars, clientVars
<1>8. ASSUME NEW u \in Upstream, BrokerCloseChannel(u) PROVE TypeGo'
  BY <1>5, <1>8 DEF BrokerCloseChannel, mainVars, libVars, goVars, clientVars
<1>9. ASSUME NEW k \in Consumer, NEW u \in Upstream, BrokerDeliver(k, u) PROVE TypeGo'
  BY <1>5, <1>9 DEF BrokerDeliver, mainVars, libVars, goVars, clientVars
<1>10. ASSUME NEW k \in Consumer, NEW u \in Upstream, BrokerCancel(k, u) PROVE TypeGo'
  BY <1>5, <1>10 DEF BrokerCancel, mainVars, libVars, goVars, clientVars
<1>11. CASE ClientNext
  BY <1>1, <1>2, <1>3, <1>4, <1>5, <1>11 DEF ClientNext, mainVars, libVars, goVars, clientVars, ChannelOpen, ChannelClose, BasicConsume, BasicGet, BasicCancel, Answer, ClientAnswers, BasicAck, BasicNack
<1>12. CASE HandlerNext
  BY <1>1, <1>2, <1>3, <1>4, <1>5, <1>12 DEF HandlerNext, mainVars, libVars, goVars, clientVars, CloseUpstream, CloseDone, ConsumeUpstream, ConsumeOk, CancelUpstream, CancelDone, GetNothing, GetMessage, GetEmpty, HandlerFail, ProxyClose
<1>13. QED
  BY <1>1, <1>2, <1>3, <1>4, <1>5, <1>6, <1>7, <1>8, <1>9, <1>10, <1>11, <1>12 DEF Next, GoNext, vars, mainVars, libVars, goVars, clientVars

\* What a delivery written to the client looks like.
LEMMA WrittenIs ==
  ASSUME TypeMain, NEW s \in Session, NEW u \in Upstream, NEW t \in MsgTag,
         NEW k \in Consumer \cup {ByGet}
  PROVE  /\ Written(s, u, t, k) \in Delivery
         /\ Written(s, u, t, k).tag = Tag(t, u)
         /\ Written(s, u, t, k).t = t
         /\ Written(s, u, t, k).u = u
<1>1. Tag(t, u) \in Nat
  BY RestoreOfTag, DeliveryAssumption DEF MsgTag
<1>2. Seen \in BOOLEAN /\ (k = ByGet \/ k \in okSent) \in BOOLEAN
  BY Zenon DEF Seen
<1>3. PICK a, b : a = Seen /\ b = (k = ByGet \/ k \in okSent)
  BY Zenon
<1>4. Written(s, u, t, k) = [tag |-> Tag(t, u), os |-> s, u |-> u, t |-> t, k |-> k, s |-> session,
                             seen |-> a, announced |-> b]
  BY <1>3, Zenon DEF Written
<1>5. a \in BOOLEAN /\ b \in BOOLEAN
  BY <1>2, <1>3, Zenon
<1>6. QED
  BY <1>1, <1>4, <1>5 DEF Delivery, TypeMain

\* An answer: the upstream it goes to and what becomes of it.
LEMMA AnswerIs ==
  ASSUME TypeMain, TypeClient, LoopInv, NEW d \in received, NEW multiple \in BOOLEAN,
         Answer(d, multiple)
  PROVE  /\ session \in Session
         /\ d \in Delivery /\ d.s = session
         /\ RestoreIndex(d.tag) \in Upstream
         /\ \/ settled' = settled /\ refused' = refused
            \/ /\ settled' = settled \cup
                    {[s |-> session, u |-> RestoreIndex(d.tag), t |-> x, d |-> d,
                      multiple |-> multiple] :
                        x \in Covered(RestoreIndex(d.tag), RestoreTag(d.tag), multiple)}
               /\ refused' = refused
            \/ settled' = settled /\ refused' = refused \cup {d}
         /\ answered' \subseteq answered \cup received
         /\ UNCHANGED <<alive, okSent, received>>
<1>1. session \in Session /\ d \in Delivery /\ d.s = session
  BY Zenon DEF Answer, LoopInv, TypeClient
<1>2. RestoreIndex(d.tag) \in Upstream
  <2>1. d.tag \in Nat
    BY <1>1 DEF Delivery
  <2>2. QED
    BY <2>1, DeliveryAssumption DEF RestoreIndex, Upstream
<1>3. \/ AnswerLost(RestoreIndex(d.tag))
      \/ AnswerSettles(d, RestoreIndex(d.tag), RestoreTag(d.tag), multiple)
      \/ AnswerRefused(d, RestoreIndex(d.tag), RestoreTag(d.tag))
  BY Zenon DEF Answer
<1>4. /\ answered' \subseteq answered \cup received
      /\ UNCHANGED <<alive, okSent, received>>
  BY DEF Answer
<1>5. QED
  BY <1>1, <1>2, <1>3, <1>4, Zenon DEF AnswerLost, AnswerSettles, AnswerRefused


\* The client's side keeps its types.
LEMMA TypeClientStep == TypeOK /\ LoopInv /\ GoInv /\ [Next]_vars => TypeClient'
<1> SUFFICES ASSUME TypeMain, TypeLib, TypeGo, TypeClient, LoopInv, GoInv, [Next]_vars PROVE TypeClient'
  BY DEF TypeOK
<1>1. CASE ConsumeOk
  BY <1>1 DEF ConsumeOk, LoopInv, TypeClient
<1>2. ASSUME NEW u \in Upstream, GetMessage(u) PROVE TypeClient'
  <2>1. session \in Session
    BY <1>2 DEF GetMessage, LoopInv
  <2>2. last[session][u] + 1 \in MsgTag
    BY <1>2, <2>1, DeliveryAssumption DEF GetMessage, TypeLib, MsgTag
  <2>3. Written(session, u, last[session][u] + 1, ByGet) \in Delivery
    BY <2>1, <2>2, WrittenIs
  <2>4. QED
    BY <1>2, <2>3 DEF GetMessage, TypeClient
<1>3. ASSUME NEW d \in received, NEW multiple \in BOOLEAN, Answer(d, multiple) PROVE TypeClient'
  <2> DEFINE v == RestoreIndex(d.tag)
             t == RestoreTag(d.tag)
  <2>2. session \in Session /\ d \in Delivery /\ v \in Upstream
    BY <1>3, AnswerIs
  <2>3. \A x \in Covered(v, t, multiple) : x \in Nat
    BY <2>2, DeliveryAssumption DEF Covered, TypeLib, MsgTag
  <2>4. \A x \in Covered(v, t, multiple) :
          [s |-> session, u |-> v, t |-> x, d |-> d, multiple |-> multiple] \in Settled
    BY <2>2, <2>3 DEF Settled
  <2>5. settled' \subseteq Settled /\ refused' \subseteq Delivery
    <3>1. PICK new : new = {[s |-> session, u |-> v, t |-> x, d |-> d, multiple |-> multiple] :
                              x \in Covered(v, t, multiple)}
      BY Zenon
    <3>2. new \subseteq Settled
      BY <2>4, <3>1, Zenon
    <3>3. \/ settled' = settled /\ refused' = refused
          \/ settled' = settled \cup new /\ refused' = refused
          \/ settled' = settled /\ refused' = refused \cup {d}
      BY <1>3, <3>1, AnswerIs, Zenon
    <3>4. QED
      BY <2>2, <3>2, <3>3 DEF TypeClient
  <2>6. answered' \subseteq Delivery /\ UNCHANGED <<alive, okSent, received>>
    BY <1>3, AnswerIs DEF TypeClient
  <2>7. QED
    BY <2>5, <2>6 DEF TypeClient
<1>4. CASE ClientGone
  BY <1>4, Zenon DEF ClientGone, TypeClient
<1>5. ASSUME NEW k \in Consumer, NEW u \in Upstream, GoSend(k, u) PROVE TypeClient'
  <2>1. consOf[k] \in Session /\ hold[k][u] \in MsgTag
    BY <1>5 DEF GoSend, GoInv
  <2>2. Written(consOf[k], u, hold[k][u], k) \in Delivery
    BY <2>1, WrittenIs
  <2>3. QED
    BY <1>5, <2>2 DEF GoSend, TypeClient
<1>6. CASE UNCHANGED clientVars
  BY <1>6 DEF TypeClient, clientVars
<1>7. CASE ClientAnswers
  BY <1>7, <1>3, Zenon DEF ClientAnswers, BasicAck, BasicNack
<1>8. CASE MainExit
  BY <1>6, <1>8 DEF MainExit, mainVars, libVars, goVars, clientVars
<1>9. ASSUME NEW u \in Upstream, BrokerCloseChannel(u) PROVE TypeClient'
  BY <1>6, <1>9 DEF BrokerCloseChannel, mainVars, libVars, goVars, clientVars
<1>10. ASSUME NEW k \in Consumer, NEW u \in Upstream, BrokerDeliver(k, u) PROVE TypeClient'
  BY <1>6, <1>10 DEF BrokerDeliver, mainVars, libVars, goVars, clientVars
<1>11. ASSUME NEW k \in Consumer, NEW u \in Upstream, BrokerCancel(k, u) PROVE TypeClient'
  BY <1>6, <1>11 DEF BrokerCancel, mainVars, libVars, goVars, clientVars
<1>12. ASSUME NEW k \in Consumer, NEW u \in Upstream, GoRecv(k, u) PROVE TypeClient'
  BY <1>6, <1>12 DEF GoRecv, mainVars, libVars, goVars, clientVars
<1>13. ASSUME NEW k \in Consumer, NEW u \in Upstream, GoEnd(k, u) PROVE TypeClient'
  BY <1>6, <1>13 DEF GoEnd, mainVars, libVars, goVars, clientVars
<1>14. CASE ClientNext
  BY <1>1, <1>2, <1>4, <1>5, <1>6, <1>7, <1>14 DEF ClientNext, mainVars, libVars, goVars, clientVars, ChannelOpen, ChannelClose, BasicConsume, BasicGet, BasicCancel
<1>15. CASE HandlerNext
  BY <1>1, <1>2, <1>4, <1>5, <1>6, <1>7, <1>15 DEF HandlerNext, mainVars, libVars, goVars, clientVars, CloseUpstream, CloseDone, ConsumeUpstream, ConsumeStart, CancelUpstream, CancelDone, GetNothing, GetEmpty, HandlerFail, ProxyClose
<1>16. QED
  BY <1>1, <1>2, <1>4, <1>5, <1>6, <1>7, <1>8, <1>9, <1>10, <1>11, <1>12, <1>13, <1>14, <1>15 DEF Next, GoNext, vars, mainVars, libVars, goVars, clientVars

\* The main loop works on one session and one consumer at a time.
LEMMA LoopStep == TypeOK /\ LoopInv /\ [Next]_vars => LoopInv'
<1> SUFFICES ASSUME TypeMain, TypeClient, LoopInv, [Next]_vars PROVE LoopInv'
  BY DEF TypeOK
<1>1. CASE ChannelOpen
  BY <1>1, DeliveryAssumption DEF ChannelOpen, LoopInv, TypeMain, TypeClient, Session, Consumer, mainVars, goVars, libVars, clientVars
<1>2. CASE ChannelClose
  BY <1>2, DeliveryAssumption DEF ChannelClose, LoopInv, TypeMain, TypeClient, Session, Consumer, mainVars, goVars, libVars, clientVars
<1>3. CASE CloseUpstream
  BY <1>3, DeliveryAssumption DEF CloseUpstream, LoopInv, TypeMain, TypeClient, Session, Consumer, mainVars, goVars, libVars, clientVars
<1>4. CASE CloseDone
  BY <1>4, DeliveryAssumption DEF CloseDone, LoopInv, TypeMain, TypeClient, Session, Consumer, mainVars, goVars, libVars, clientVars
<1>5. CASE BasicConsume
  BY <1>5, DeliveryAssumption DEF BasicConsume, LoopInv, TypeMain, TypeClient, Session, Consumer, mainVars, goVars, libVars, clientVars
<1>6. CASE ConsumeUpstream
  BY <1>6, DeliveryAssumption DEF ConsumeUpstream, LoopInv, TypeMain, TypeClient, Session, Consumer, mainVars, goVars, libVars, clientVars
<1>7. CASE ConsumeOk
  <2>1. consumes \in Nat /\ hasChan
    BY <1>7 DEF ConsumeOk, LoopInv, TypeMain
  <2>2. okSent' \subseteq okSent \cup {consumes}
    BY <1>7 DEF ConsumeOk
  <2>3. \A k \in okSent' : k <= consumes'
    BY <1>7, <2>1, <2>2 DEF ConsumeOk, LoopInv
  <2>4. pc' \in {"start", "exit"} /\ UNCHANGED <<session, hasChan, consumes, cur>>
    BY <1>7 DEF ConsumeOk
  <2>5. QED
    BY <1>7, <2>1, <2>3, <2>4 DEF ConsumeOk, LoopInv
<1>8. CASE ConsumeStart
  BY <1>8, DeliveryAssumption DEF ConsumeStart, LoopInv, TypeMain, TypeClient, Session, Consumer, mainVars, goVars, libVars, clientVars
<1>9. CASE CancelUpstream
  BY <1>9, DeliveryAssumption DEF CancelUpstream, LoopInv, TypeMain, TypeClient, Session, Consumer, mainVars, goVars, libVars, clientVars
<1>10. CASE CancelDone
  BY <1>10, DeliveryAssumption DEF CancelDone, LoopInv, TypeMain, TypeClient, Session, Consumer, mainVars, goVars, libVars, clientVars
<1>11. CASE HandlerFail
  BY <1>11, DeliveryAssumption DEF HandlerFail, LoopInv, TypeMain, TypeClient, Session, Consumer, mainVars, goVars, libVars, clientVars
<1>12. CASE BasicGet
  BY <1>12, DeliveryAssumption DEF BasicGet, LoopInv, TypeMain, TypeClient, Session, Consumer, mainVars, goVars, libVars, clientVars
<1>13. CASE GetEmpty
  BY <1>13, DeliveryAssumption DEF GetEmpty, LoopInv, TypeMain, TypeClient, Session, Consumer, mainVars, goVars, libVars, clientVars
<1>14. CASE MainExit
  BY <1>14, DeliveryAssumption DEF MainExit, LoopInv, TypeMain, TypeClient, Session, Consumer, mainVars, goVars, libVars, clientVars
<1>15. CASE ProxyClose
  BY <1>15, DeliveryAssumption DEF ProxyClose, LoopInv, TypeMain, TypeClient, Session, Consumer, mainVars, goVars, libVars, clientVars
<1>16. ASSUME NEW k \in Consumer, BasicCancel(k) PROVE LoopInv'
  BY <1>16, DeliveryAssumption DEF BasicCancel, LoopInv, TypeMain, TypeClient, Session, Consumer, mainVars, goVars, libVars, clientVars
<1>17. ASSUME NEW u \in Upstream, GetNothing(u) PROVE LoopInv'
  BY <1>17, DeliveryAssumption DEF GetNothing, LoopInv, TypeMain, TypeClient, Session, Consumer, mainVars, goVars, libVars, clientVars
<1>18. ASSUME NEW u \in Upstream, GetMessage(u) PROVE LoopInv'
  BY <1>18, DeliveryAssumption DEF GetMessage, LoopInv, TypeMain, TypeClient, Session, Consumer, mainVars, goVars, libVars, clientVars
<1>19. ASSUME NEW d \in received, NEW multiple \in BOOLEAN, Answer(d, multiple) PROVE LoopInv'
  <2>1. pc' \in {"idle", "exit"} /\ UNCHANGED <<session, hasChan, consumes, cur, okSent>>
    BY <1>19, Zenon DEF Answer, AnswerLost, AnswerSettles, AnswerRefused
  <2>2. QED
    BY <2>1 DEF LoopInv
<1>20. CASE UNCHANGED <<mainVars, okSent>>
  BY <1>20 DEF LoopInv, mainVars
<1>21. CASE ClientAnswers
  BY <1>21, <1>19, Zenon DEF ClientAnswers, BasicAck, BasicNack
<1>22. CASE ClientGone
  BY <1>20, <1>22 DEF ClientGone, mainVars, libVars, goVars, clientVars
<1>23. ASSUME NEW u \in Upstream, BrokerCloseChannel(u) PROVE LoopInv'
  BY <1>20, <1>23 DEF BrokerCloseChannel, mainVars, libVars, goVars, clientVars
<1>24. ASSUME NEW k \in Consumer, NEW u \in Upstream, BrokerDeliver(k, u) PROVE LoopInv'
  BY <1>20, <1>24 DEF BrokerDeliver, mainVars, libVars, goVars, clientVars
<1>25. ASSUME NEW k \in Consumer, NEW u \in Upstream, BrokerCancel(k, u) PROVE LoopInv'
  BY <1>20, <1>25 DEF BrokerCancel, mainVars, libVars, goVars, clientVars
<1>26. ASSUME NEW k \in Consumer, NEW u \in Upstream, GoRecv(k, u) PROVE LoopInv'
  BY <1>20, <1>26 DEF GoRecv, mainVars, libVars, goVars, clientVars
<1>27. ASSUME NEW k \in Consumer, NEW u \in Upstream, GoSend(k, u) PROVE LoopInv'
  BY <1>20, <1>27 DEF GoSend, mainVars, libVars, goVars, clientVars
<1>28. ASSUME NEW k \in Consumer, NEW u \in Upstream, GoEnd(k, u) PROVE LoopInv'
  BY <1>20, <1>28 DEF GoEnd, mainVars, libVars, goVars, clientVars
<1>29. CASE ClientNext
  BY <1>1, <1>2, <1>3, <1>4, <1>5, <1>6, <1>7, <1>8, <1>9, <1>10, <1>11, <1>12, <1>13, <1>14, <1>15, <1>16, <1>17, <1>18, <1>20, <1>21, <1>29 DEF ClientNext, mainVars, libVars, goVars, clientVars
<1>30. CASE HandlerNext
  BY <1>1, <1>2, <1>3, <1>4, <1>5, <1>6, <1>7, <1>8, <1>9, <1>10, <1>11, <1>12, <1>13, <1>14, <1>15, <1>16, <1>17, <1>18, <1>20, <1>21, <1>30 DEF HandlerNext, mainVars, libVars, goVars, clientVars
<1>31. QED
  BY <1>1, <1>2, <1>3, <1>4, <1>5, <1>6, <1>7, <1>8, <1>9, <1>10, <1>11, <1>12, <1>13, <1>14, <1>15, <1>16, <1>17, <1>18, <1>20, <1>21, <1>22, <1>23, <1>24, <1>25, <1>26, <1>27, <1>28, <1>29, <1>30 DEF Next, GoNext, vars, mainVars, libVars, goVars, clientVars

\* Closing upstream channels makes no consumer.
LEMMA CloseLibConsumers ==
  ASSUME TypeLib, NEW s, NEW us, CloseLib(s, us)
  PROVE  \A m \in Consumer, v \in Upstream : up'[m][v] # "none" => up[m][v] # "none"
BY DEF CloseLib, TypeLib

\* Consumers keep their session, goroutines hold messages.
LEMMA GoStep == TypeOK /\ LoopInv /\ GoInv /\ [Next]_vars => GoInv'
<1> SUFFICES ASSUME TypeMain, TypeLib, TypeGo, TypeClient, LoopInv, GoInv, [Next]_vars PROVE GoInv'
  BY DEF TypeOK
<1>1. CASE BasicConsume
  <2>1. session \in Session /\ consumes + 1 \in Consumer
    BY <1>1, DeliveryAssumption DEF BasicConsume, LoopInv, TypeMain, Consumer
  <2>2. \A k \in Consumer : k <= consumes + 1 => k <= consumes \/ k = consumes + 1
    BY DEF TypeMain, Consumer
  <2>3. \A k \in Consumer : k <= consumes => k <= consumes + 1 /\ k # consumes + 1
    BY DEF TypeMain, Consumer
  <2>4. \A k \in Consumer : k <= consumes' => consOf'[k] \in Session
    BY <1>1, <2>1, <2>2 DEF BasicConsume, GoInv, TypeMain
  <2>5. QED
    BY <1>1, <2>3, <2>4 DEF BasicConsume, GoInv, libVars, goVars
<1>2. CASE ConsumeUpstream
  <2>1. consumes \in Nat
    BY DEF TypeMain
  <2>2. \A k \in Consumer, u \in Upstream : up'[k][u] = up[k][u] \/ k = consumes
    BY <1>2 DEF ConsumeUpstream, TypeLib
  <2>3. QED
    BY <1>2, <2>1, <2>2 DEF ConsumeUpstream, GoInv, goVars
<1>3. CASE ConsumeStart
  <2>1. consumes \in Nat
    BY DEF TypeMain
  <2>2. \A k \in Consumer, u \in Upstream :
          gpc'[k][u] = gpc[k][u] \/ (k = consumes /\ gpc'[k][u] = "recv")
    BY <1>3 DEF ConsumeStart, TypeGo
  <2>3. QED
    BY <1>3, <2>1, <2>2 DEF ConsumeStart, GoInv, libVars
<1>4. CASE CancelUpstream
  <2>1. cur <= consumes
    BY <1>4 DEF CancelUpstream, LoopInv
  <2>2. \A k \in Consumer, u \in Upstream : up'[k][u] = up[k][u] \/ k = cur
    BY <1>4 DEF CancelUpstream, TypeLib
  <2>3. QED
    BY <1>4, <2>1, <2>2 DEF CancelUpstream, GoInv, goVars
<1>5. CASE CloseUpstream
  <2>1. \A m \in Consumer, v \in Upstream : up'[m][v] # "none" => up[m][v] # "none"
    BY <1>5, CloseLibConsumers DEF CloseUpstream
  <2>2. QED
    BY <1>5, <2>1 DEF CloseUpstream, GoInv, mainVars, goVars
<1>6. CASE ProxyClose
  <2>1. \A m \in Consumer, v \in Upstream : up'[m][v] # "none" => up[m][v] # "none"
    BY <1>6, CloseLibConsumers DEF ProxyClose, libVars
  <2>2. QED
    BY <1>6, <2>1 DEF ProxyClose, GoInv, mainVars, goVars
<1>7. ASSUME NEW u \in Upstream, BrokerCloseChannel(u) PROVE GoInv'
  <2>1. \A m \in Consumer, v \in Upstream : up'[m][v] # "none" => up[m][v] # "none"
    BY <1>7, CloseLibConsumers DEF BrokerCloseChannel
  <2>2. QED
    BY <1>7, <2>1 DEF BrokerCloseChannel, GoInv, mainVars, goVars
<1>8. ASSUME NEW k \in Consumer, NEW u \in Upstream, BrokerCancel(k, u) PROVE GoInv'
  <2>1. \A m \in Consumer, v \in Upstream : up'[m][v] = up[m][v] \/ (m = k /\ v = u)
    BY <1>8 DEF BrokerCancel, TypeLib
  <2>2. up[k][u] # "none"
    BY <1>8 DEF BrokerCancel
  <2>3. QED
    BY <1>8, <2>1, <2>2 DEF BrokerCancel, GoInv, mainVars, goVars
<1>9. ASSUME NEW d \in received, NEW multiple \in BOOLEAN, Answer(d, multiple) PROVE GoInv'
  <2>1. PICK v, t : AnswerLost(v) \/ AnswerSettles(d, v, t, multiple) \/ AnswerRefused(d, v, t)
    BY <1>9, Zenon DEF Answer
  <2>2. UNCHANGED <<consumes, consOf, gpc, hold>>
    BY <1>9 DEF Answer, goVars
  <2>3. \A k \in Consumer, u \in Upstream : up'[k][u] # "none" => up[k][u] # "none"
    <3>1. CASE AnswerLost(v)
      BY <3>1 DEF AnswerLost, libVars
    <3>2. CASE AnswerSettles(d, v, t, multiple)
      BY <3>2 DEF AnswerSettles
    <3>3. CASE AnswerRefused(d, v, t)
      BY <3>3, CloseLibConsumers DEF AnswerRefused
    <3>4. QED
      BY <2>1, <3>1, <3>2, <3>3, Zenon
  <2>4. QED
    BY <2>2, <2>3 DEF GoInv
<1>10. ASSUME NEW k \in Consumer, NEW u \in Upstream, GoRecv(k, u) PROVE GoInv'
  <2>1. Head(buf[k][u]) \in MsgTag
    BY <1>10 DEF GoRecv, TypeLib
  <2>2. \A m \in Consumer, v \in Upstream :
          \/ gpc'[m][v] = gpc[m][v] /\ hold'[m][v] = hold[m][v]
          \/ m = k /\ v = u /\ hold'[m][v] \in MsgTag
    BY <1>10, <2>1 DEF GoRecv, TypeGo
  <2>3. gpc[k][u] # "none"
    BY <1>10 DEF GoRecv
  <2>4. QED
    BY <1>10, <2>2, <2>3 DEF GoRecv, GoInv, mainVars
<1>11. ASSUME NEW k \in Consumer, NEW u \in Upstream, GoSend(k, u) PROVE GoInv'
  <2>1. \A m \in Consumer, v \in Upstream :
          \/ gpc'[m][v] = gpc[m][v] /\ hold'[m][v] = hold[m][v]
          \/ m = k /\ v = u /\ gpc'[m][v] = "recv"
    BY <1>11 DEF GoSend, TypeGo
  <2>2. gpc[k][u] # "none"
    BY <1>11 DEF GoSend
  <2>3. QED
    BY <1>11, <2>1, <2>2 DEF GoSend, GoInv, mainVars, libVars
<1>12. ASSUME NEW k \in Consumer, NEW u \in Upstream, GoEnd(k, u) PROVE GoInv'
  <2>1. \A m \in Consumer, v \in Upstream :
          gpc'[m][v] = gpc[m][v] \/ (m = k /\ v = u /\ gpc'[m][v] = "done")
    BY <1>12 DEF GoEnd, TypeGo
  <2>2. gpc[k][u] # "none"
    BY <1>12 DEF GoEnd
  <2>3. QED
    BY <1>12, <2>1, <2>2 DEF GoEnd, GoInv, mainVars, libVars
<1>13. CASE UNCHANGED <<consumes, consOf, up, gpc, hold>>
  BY <1>13 DEF GoInv
<1>14. CASE ClientAnswers
  BY <1>14, <1>9, Zenon DEF ClientAnswers, BasicAck, BasicNack
<1>15. CASE MainExit
  BY <1>13, <1>15 DEF MainExit, mainVars, libVars, goVars, clientVars
<1>16. CASE ClientGone
  BY <1>13, <1>16 DEF ClientGone, mainVars, libVars, goVars, clientVars
<1>17. ASSUME NEW k \in Consumer, NEW u \in Upstream, BrokerDeliver(k, u) PROVE GoInv'
  BY <1>13, <1>17 DEF BrokerDeliver, mainVars, libVars, goVars, clientVars
<1>18. CASE ClientNext
  BY <1>1, <1>2, <1>3, <1>4, <1>5, <1>6, <1>7, <1>8, <1>10, <1>11, <1>12, <1>13, <1>14, <1>18 DEF ClientNext, mainVars, libVars, goVars, clientVars, ChannelOpen, ChannelClose, BasicGet, BasicCancel
<1>19. CASE HandlerNext
  BY <1>1, <1>2, <1>3, <1>4, <1>5, <1>6, <1>7, <1>8, <1>10, <1>11, <1>12, <1>13, <1>14, <1>19 DEF HandlerNext, mainVars, libVars, goVars, clientVars, CloseDone, ConsumeOk, CancelDone, GetNothing, GetMessage, GetEmpty, HandlerFail
<1>20. QED
  BY <1>1, <1>2, <1>3, <1>4, <1>5, <1>6, <1>7, <1>8, <1>10, <1>11, <1>12, <1>13, <1>14, <1>15, <1>16, <1>17, <1>18, <1>19 DEF Next, GoNext, vars, mainVars, libVars, goVars, clientVars

\* Every delivery is numbered by Tag.
LEMMA TagStep == TypeOK /\ LoopInv /\ GoInv /\ TagInv /\ [Next]_vars => TagInv'
<1> SUFFICES ASSUME TypeMain, TypeLib, TypeGo, LoopInv, GoInv, TagInv, [Next]_vars PROVE TagInv'
  BY DEF TypeOK
<1>1. ASSUME NEW u \in Upstream, GetMessage(u) PROVE TagInv'
  <2>1. session \in Session
    BY <1>1 DEF GetMessage, LoopInv
  <2>2. last[session][u] + 1 \in MsgTag
    BY <1>1, <2>1, DeliveryAssumption DEF GetMessage, TypeLib, MsgTag
  <2>3. PICK d : d = Written(session, u, last[session][u] + 1, ByGet)
    OBVIOUS
  <2>4. d.tag = Tag(d.t, d.u)
    BY <2>1, <2>2, <2>3, WrittenIs
  <2>5. received' \subseteq received \cup {d}
    BY <1>1, <2>3 DEF GetMessage
  <2>6. QED
    BY <2>4, <2>5 DEF TagInv, Tag
<1>2. ASSUME NEW k \in Consumer, NEW u \in Upstream, GoSend(k, u) PROVE TagInv'
  <2>1. consOf[k] \in Session /\ hold[k][u] \in MsgTag
    BY <1>2 DEF GoSend, GoInv
  <2>2. PICK d : d = Written(consOf[k], u, hold[k][u], k)
    OBVIOUS
  <2>3. d.tag = Tag(d.t, d.u)
    BY <2>1, <2>2, WrittenIs
  <2>4. received' = received \cup {d}
    BY <1>2, <2>2 DEF GoSend
  <2>5. QED
    BY <2>3, <2>4 DEF TagInv, Tag
<1>3. CASE UNCHANGED received
  BY <1>3 DEF TagInv, Tag
<1>4. CASE MainExit
  BY <1>3, <1>4 DEF MainExit, mainVars, libVars, goVars, clientVars
<1>5. CASE ClientGone
  BY <1>3, <1>5 DEF ClientGone, mainVars, libVars, goVars, clientVars
<1>6. ASSUME NEW u \in Upstream, BrokerCloseChannel(u) PROVE TagInv'
  BY <1>3, <1>6 DEF BrokerCloseChannel, mainVars, libVars, goVars, clientVars
<1>7. ASSUME NEW k \in Consumer, NEW u \in Upstream, BrokerDeliver(k, u) PROVE TagInv'
  BY <1>3, <1>7 DEF BrokerDeliver, mainVars, libVars, goVars, clientVars
<1>8. ASSUME NEW k \in Consumer, NEW u \in Upstream, BrokerCancel(k, u) PROVE TagInv'
  BY <1>3, <1>8 DEF BrokerCancel, mainVars, libVars, goVars, clientVars
<1>9. ASSUME NEW k \in Consumer, NEW u \in Upstream, GoRecv(k, u) PROVE TagInv'
  BY <1>3, <1>9 DEF GoRecv, mainVars, libVars, goVars, clientVars
<1>10. ASSUME NEW k \in Consumer, NEW u \in Upstream, GoEnd(k, u) PROVE TagInv'
  BY <1>3, <1>10 DEF GoEnd, mainVars, libVars, goVars, clientVars
<1>11. CASE ClientNext
  BY <1>1, <1>2, <1>3, <1>11 DEF ClientNext, mainVars, libVars, goVars, clientVars, ChannelOpen, ChannelClose, BasicConsume, BasicGet, BasicCancel, Answer, ClientAnswers, BasicAck, BasicNack
<1>12. CASE HandlerNext
  BY <1>1, <1>2, <1>3, <1>12 DEF HandlerNext, mainVars, libVars, goVars, clientVars, CloseUpstream, CloseDone, ConsumeUpstream, ConsumeOk, ConsumeStart, CancelUpstream, CancelDone, GetNothing, GetEmpty, HandlerFail, ProxyClose
<1>13. QED
  BY <1>1, <1>2, <1>3, <1>4, <1>5, <1>6, <1>7, <1>8, <1>9, <1>10, <1>11, <1>12 DEF Next, GoNext, vars, mainVars, libVars, goVars, clientVars

\* A single answer settles the message it is about.
LEMMA SettleStep == IInv /\ [Next]_vars => SettlesMeant'
<1> SUFFICES ASSUME TypeMain, TypeLib, TypeClient, LoopInv, TagInv, SettlesMeant, [Next]_vars PROVE SettlesMeant'
  BY DEF IInv, TypeOK
<1>1. ASSUME NEW d \in received, NEW multiple \in BOOLEAN, Answer(d, multiple) PROVE SettlesMeant'
  <2> DEFINE v == RestoreIndex(d.tag)
             t == RestoreTag(d.tag)
  <2>2. session \in Session /\ d \in Delivery /\ v \in Upstream /\ d.s = session
    BY <1>1, AnswerIs
  <2>3. t = d.t /\ v = d.u
    <3>1. d.t \in Nat /\ d.u \in Upstream
      BY <2>2, DeliveryAssumption DEF Delivery, MsgTag
    <3>2. d.tag = Tag(d.t, d.u)
      BY DEF TagInv
    <3>3. QED
      BY <3>1, <3>2, RestoreOfTag
  <2>4. ASSUME NEW x \in settled', x \notin settled, ~x.multiple, Timely(x.d)
        PROVE  x.s = x.d.os /\ x.u = x.d.u /\ x.t = x.d.t
    <3>0. x \in {[s |-> session, u |-> v, t |-> y, d |-> d, multiple |-> multiple] :
                    y \in Covered(v, t, multiple)}
      <4>1. PICK new : new = {[s |-> session, u |-> v, t |-> y, d |-> d, multiple |-> multiple] :
                                y \in Covered(v, t, multiple)}
        BY Zenon
      <4>2. settled' = settled \/ settled' = settled \cup new
        BY <1>1, <4>1, AnswerIs, Zenon
      <4>3. x \in new
        BY <2>4, <4>2
      <4>4. QED
        BY <4>1, <4>3, Zenon
    <3>1. PICK y \in Covered(v, t, multiple) :
            x = [s |-> session, u |-> v, t |-> y, d |-> d, multiple |-> multiple]
      BY <3>0, Zenon
    <3>2. x.s = session /\ x.u = v /\ x.t = y /\ x.d = d /\ x.multiple = multiple
      BY <3>1
    <3>3. ~multiple
      BY <2>4, <3>2, Zenon
    <3>4. y = t
      BY <3>1, <3>3, Zenon DEF Covered
    <3>5. d.os = session
      BY <2>2, <2>4, <3>2 DEF Timely
    <3>6. QED
      BY <2>3, <3>2, <3>4, <3>5
  <2>5. QED
    BY <2>4, Zenon DEF SettlesMeant, Timely
<1>2. CASE UNCHANGED settled
  BY <1>2 DEF SettlesMeant, Timely
<1>3. CASE ClientAnswers
  BY <1>3, <1>1, Zenon DEF ClientAnswers, BasicAck, BasicNack
<1>4. CASE MainExit
  BY <1>2, <1>4 DEF MainExit, mainVars, libVars, goVars, clientVars
<1>5. CASE ClientGone
  BY <1>2, <1>5 DEF ClientGone, mainVars, libVars, goVars, clientVars
<1>6. ASSUME NEW u \in Upstream, BrokerCloseChannel(u) PROVE SettlesMeant'
  BY <1>2, <1>6 DEF BrokerCloseChannel, mainVars, libVars, goVars, clientVars
<1>7. ASSUME NEW k \in Consumer, NEW u \in Upstream, BrokerDeliver(k, u) PROVE SettlesMeant'
  BY <1>2, <1>7 DEF BrokerDeliver, mainVars, libVars, goVars, clientVars
<1>8. ASSUME NEW k \in Consumer, NEW u \in Upstream, BrokerCancel(k, u) PROVE SettlesMeant'
  BY <1>2, <1>8 DEF BrokerCancel, mainVars, libVars, goVars, clientVars
<1>9. ASSUME NEW k \in Consumer, NEW u \in Upstream, GoRecv(k, u) PROVE SettlesMeant'
  BY <1>2, <1>9 DEF GoRecv, mainVars, libVars, goVars, clientVars
<1>10. ASSUME NEW k \in Consumer, NEW u \in Upstream, GoSend(k, u) PROVE SettlesMeant'
  BY <1>2, <1>10 DEF GoSend, mainVars, libVars, goVars, clientVars
<1>11. ASSUME NEW k \in Consumer, NEW u \in Upstream, GoEnd(k, u) PROVE SettlesMeant'
  BY <1>2, <1>11 DEF GoEnd, mainVars, libVars, goVars, clientVars
<1>12. CASE ClientNext
  BY <1>2, <1>3, <1>12 DEF ClientNext, mainVars, libVars, goVars, clientVars, ChannelOpen, ChannelClose, BasicConsume, BasicGet, BasicCancel
<1>13. CASE HandlerNext
  BY <1>2, <1>3, <1>13 DEF HandlerNext, mainVars, libVars, goVars, clientVars, CloseUpstream, CloseDone, ConsumeUpstream, ConsumeOk, ConsumeStart, CancelUpstream, CancelDone, GetNothing, GetMessage, GetEmpty, HandlerFail, ProxyClose
<1>14. QED
  BY <1>2, <1>3, <1>4, <1>5, <1>6, <1>7, <1>8, <1>9, <1>10, <1>11, <1>12, <1>13 DEF Next, GoNext, vars, mainVars, libVars, goVars, clientVars

-----------------------------------------------------------------------------
\* The invariant holds throughout.
LEMMA Invariance == Spec => []IInv
<1>1. IInv /\ [Next]_vars => IInv'
  <2>1. IInv /\ [Next]_vars => TypeOK'
    BY TypeMainStep, TypeLibStep, TypeGoStep, TypeClientStep DEF IInv, TypeOK
  <2>2. QED
    BY <2>1, LoopStep, GoStep, TagStep, SettleStep DEF IInv
<1>2. QED
  BY <1>1, InitIInv, PTL DEF Spec

\* The variables of the delivery machinery keep their types: in particular every
\* delivery carries a message some upstream numbered (consume, replyBasicGet).
THEOREM DeliveryTypes == Spec => []TypeOK
<1>1. IInv => TypeOK
  BY DEF IInv
<1>2. QED
  BY <1>1, Invariance, PTL

\* Whatever the sessions, consumers, Basic.Gets, cancellations and the interleaving of
\* the goroutines: a Basic.Ack or Basic.Nack of one delivery settles the one message
\* the client was given under that tag, on the upstream it came from.
THEOREM SettlesExactly == Spec => []SettlesMeant
<1>1. IInv => SettlesMeant
  BY DEF IInv
<1>2. QED
  BY <1>1, Invariance, PTL

-----------------------------------------------------------------------------
(* The way of a message.  Most steps leave the messages where they are;    *)
(* the others move one message on, take one away, or make room for a       *)
(* consumer.                                                               *)

\* The messages and their consumers are left alone; at most a session is begun or the
\* client takes more to be answered.
Rests ==
  /\ UNCHANGED <<consumes, consOf, last, unacked, buf, gpc, hold, ctx2, received, refused>>
  /\ answered \subseteq answered'
  /\ session <= session'
  /\ \A s \in Session, u \in Upstream : s <= session => chOpen'[s][u] = chOpen[s][u]

\* Channels of the session are closed.
Closes(us) ==
  /\ session \in Session /\ UNCHANGED session
  /\ CloseLib(session, us)
  /\ UNCHANGED <<consumes, consOf, gpc, hold, ctx2, received>>
  /\ answered \subseteq answered'
  /\ \/ refused' = refused
     \/ \E d \in received, multiple \in BOOLEAN :
          /\ Answer(d, multiple)
          /\ AnswerRefused(d, RestoreIndex(d.tag), RestoreTag(d.tag))

\* An answer settles messages.
Settles(d, multiple) ==
  /\ Answer(d, multiple)
  /\ AnswerSettles(d, RestoreIndex(d.tag), RestoreTag(d.tag), multiple)

Moves ==
  \/ Rests
  \/ \E us \in SUBSET Upstream : Closes(us)
  \/ BasicConsume
  \/ ConsumeStart
  \/ \E u \in Upstream : GetMessage(u)
  \/ \E d \in received, multiple \in BOOLEAN : Settles(d, multiple)
  \/ \E k \in Consumer, u \in Upstream :
       BrokerDeliver(k, u) \/ GoRecv(k, u) \/ GoSend(k, u) \/ GoEnd(k, u)

\* Every step is one of these.
LEMMA StepMoves == IInv /\ [Next]_vars => Moves
<1> SUFFICES ASSUME IInv, [Next]_vars PROVE Moves
  OBVIOUS
<1>0. TypeMain /\ TypeLib /\ TypeClient /\ LoopInv
  BY DEF IInv, TypeOK
<1>1. ASSUME UNCHANGED <<consumes, consOf, last, unacked, buf, gpc, hold, ctx2, received, refused>>,
             answered \subseteq answered', UNCHANGED <<session, chOpen>>
      PROVE  Moves
  <2>1. session \in Nat
    BY <1>0, DeliveryAssumption DEF TypeMain
  <2>2. QED
    BY <1>1, <2>1 DEF Moves, Rests
<1>2. CASE ChannelOpen
  <2>1. session \in Nat /\ session + 1 \in Session
    BY <1>0, <1>2, DeliveryAssumption DEF ChannelOpen, TypeMain, Session
  <2>2. \A s \in Session, u \in Upstream : s <= session => chOpen'[s][u] = chOpen[s][u]
    <3>1. PICK row : chOpen' = [chOpen EXCEPT ![session + 1] = row]
      BY <1>2 DEF ChannelOpen
    <3>2. DOMAIN chOpen = Session
      BY <1>0 DEF TypeLib
    <3>3. \A s \in Session : s <= session => s # session + 1
      BY <2>1 DEF Session
    <3>4. QED
      BY <3>1, <3>2, <3>3
  <2>3. session <= session'
    BY <1>2, <2>1 DEF ChannelOpen
  <2>4. QED
    BY <1>2, <2>2, <2>3 DEF ChannelOpen, Moves, Rests, goVars, clientVars
<1>3. ASSUME NEW d \in received, NEW multiple \in BOOLEAN, Answer(d, multiple) PROVE Moves
  <2> DEFINE v == RestoreIndex(d.tag)
             t == RestoreTag(d.tag)
  <2>1. session \in Session /\ v \in Upstream
    BY <1>0, <1>3, AnswerIs
  <2>2. /\ UNCHANGED <<consumes, consOf, session, gpc, hold, ctx2, received>>
        /\ answered \subseteq answered'
    BY <1>3, Zenon DEF Answer, goVars
  <2>3. AnswerLost(v) \/ AnswerSettles(d, v, t, multiple) \/ AnswerRefused(d, v, t)
    BY <1>3, Zenon DEF Answer
  <2>4. CASE AnswerLost(v)
    BY <1>1, <2>2, <2>4 DEF AnswerLost, libVars
  <2>5. CASE AnswerSettles(d, v, t, multiple)
    BY <1>3, <2>5, Zenon DEF Moves, Settles
  <2>6. CASE AnswerRefused(d, v, t)
    <3>1. CloseLib(session, {v})
      BY <2>6 DEF AnswerRefused
    <3>2. Closes({v})
      BY <1>3, <2>1, <2>2, <2>6, <3>1, Zenon DEF Closes
    <3>3. {v} \in SUBSET Upstream
      BY <2>1
    <3>4. QED
      BY <3>2, <3>3 DEF Moves
  <2>7. QED
    BY <2>3, <2>4, <2>5, <2>6
<1>4. ASSUME NEW us \in SUBSET Upstream, session \in Session, CloseLib(session, us),
             UNCHANGED <<consumes, consOf, session, gpc, hold, ctx2, received, answered, refused>>
      PROVE  Moves
  BY <1>4 DEF Moves, Closes
<1>5. CASE CloseUpstream
  <2>1. session \in Session /\ {i} \in SUBSET Upstream
    BY <1>0, <1>5, DeliveryAssumption DEF CloseUpstream, LoopInv, TypeMain, Upstream
  <2>2. QED
    BY <1>4, <1>5, <2>1 DEF CloseUpstream, goVars, clientVars
<1>6. CASE ProxyClose
  <2>1. CASE session > 0 /\ CloseLib(session, Upstream)
    <3>1. session \in Session
      BY <1>0, <2>1, DeliveryAssumption DEF TypeMain, Session
    <3>2. QED
      BY <1>4, <1>6, <2>1, <3>1 DEF ProxyClose, goVars, clientVars
  <2>2. CASE UNCHANGED libVars
    BY <1>1, <1>6, <2>2 DEF ProxyClose, libVars, goVars, clientVars
  <2>3. QED
    BY <1>6, <2>1, <2>2 DEF ProxyClose
<1>7. ASSUME NEW u \in Upstream, BrokerCloseChannel(u) PROVE Moves
  <2>1. session \in Session /\ {u} \in SUBSET Upstream
    BY <1>0, <1>7, DeliveryAssumption DEF BrokerCloseChannel, TypeMain, Session
  <2>2. QED
    BY <1>4, <1>7, <2>1 DEF BrokerCloseChannel, mainVars, goVars, clientVars
<1>8. CASE ChannelClose \/ BasicGet \/ \E k \in Consumer : BasicCancel(k)
  BY <1>1, <1>8 DEF ChannelClose, BasicGet, BasicCancel, libVars, goVars, clientVars
<1>9. CASE CloseDone \/ ConsumeUpstream \/ ConsumeOk \/ CancelUpstream \/ CancelDone
           \/ GetEmpty \/ HandlerFail \/ \E u \in Upstream : GetNothing(u)
  BY <1>1, <1>9
     DEF CloseDone, ConsumeUpstream, ConsumeOk, CancelUpstream, CancelDone, GetEmpty, HandlerFail,
         GetNothing, libVars, goVars, clientVars
<1>10. CASE MainExit \/ ClientGone \/ UNCHANGED vars
  BY <1>1, <1>10 DEF MainExit, ClientGone, vars, mainVars, libVars, goVars, clientVars
<1>11. ASSUME NEW k \in Consumer, NEW u \in Upstream, BrokerCancel(k, u) PROVE Moves
  BY <1>1, <1>11 DEF BrokerCancel, mainVars, goVars, clientVars
<1>12. CASE ClientAnswers
  BY <1>3, <1>12, Zenon DEF ClientAnswers, BasicAck, BasicNack
<1>13. CASE ClientNext
  BY <1>2, <1>8, <1>12, <1>13 DEF ClientNext, Moves
<1>14. CASE HandlerNext
  BY <1>5, <1>6, <1>9, <1>14 DEF HandlerNext, Moves
<1>15. CASE \E k \in Consumer, u \in Upstream :
              BrokerDeliver(k, u) \/ BrokerCancel(k, u) \/ GoNext(k, u)
  BY <1>11, <1>15 DEF GoNext, Moves
<1>16. QED
  BY <1>7, <1>10, <1>13, <1>14, <1>15 DEF Next

\* Basic.Consume-Ok is written before the goroutines of a consumer start, and they
\* start once.
StartInv ==
  /\ pc = "start" => consumes \in okSent
  /\ pc \in {"consume", "start"} => \A u \in Upstream : gpc[consumes][u] = "none"
  /\ \A k \in Consumer, u \in Upstream : gpc[k][u] # "none" => k \in okSent

\* The goroutines of a consumer start after its Basic.Consume-Ok, once.
LEMMA StartStep == IInv /\ StartInv /\ [Next]_vars => StartInv'
<1> SUFFICES ASSUME TypeOK, LoopInv, GoInv, StartInv, [Next]_vars PROVE StartInv'
  BY DEF IInv
<1>1. CASE BasicConsume
  <2>1. consumes \in Nat /\ consumes' = consumes + 1 /\ consumes' \in Consumer
    BY <1>1, DeliveryAssumption DEF BasicConsume, TypeOK, TypeMain, Consumer
  <2>2. \A u \in Upstream : gpc[consumes'][u] = "none"
    BY <2>1 DEF GoInv
  <2>3. QED
    BY <1>1, <2>2 DEF BasicConsume, StartInv, goVars, clientVars
<1>2. CASE ConsumeOk
  BY <1>2 DEF ConsumeOk, StartInv, goVars
<1>3. CASE ConsumeStart
  <2>1. consumes \in Consumer /\ consumes \in okSent
    BY <1>3 DEF ConsumeStart, LoopInv, StartInv
  <2>2. \A k \in Consumer, u \in Upstream : gpc'[k][u] = gpc[k][u] \/ k = consumes
    BY <1>3 DEF ConsumeStart, TypeOK, TypeGo
  <2>3. QED
    BY <1>3, <2>1, <2>2 DEF ConsumeStart, StartInv, clientVars
<1>4. ASSUME UNCHANGED consumes, okSent \subseteq okSent',
             pc' = pc \/ pc' \notin {"consume", "start"},
             \A k \in Consumer, u \in Upstream : gpc'[k][u] # "none" => gpc[k][u] # "none",
             UNCHANGED gpc \/ pc' = pc
      PROVE  StartInv'
  <2>1. pc' \in {"consume", "start"} => consumes \in Consumer /\ pc' = pc
    BY <1>4 DEF LoopInv
  <2>2. QED
    BY <1>4, <2>1 DEF StartInv
<1>5. ASSUME NEW k \in Consumer, NEW u \in Upstream,
             GoRecv(k, u) \/ GoSend(k, u) \/ GoEnd(k, u)
      PROVE  StartInv'
  <2>1. UNCHANGED <<pc, consumes, okSent>> /\ gpc[k][u] # "none"
    BY <1>5 DEF GoRecv, GoSend, GoEnd, mainVars, clientVars
  <2>2. \E x : gpc' = [gpc EXCEPT ![k][u] = x]
    BY <1>5 DEF GoRecv, GoSend, GoEnd
  <2>3. \A j \in Consumer, v \in Upstream : gpc'[j][v] # "none" => gpc[j][v] # "none"
    BY <2>1, <2>2 DEF TypeOK, TypeGo
  <2>4. QED
    BY <1>4, <2>1, <2>3
<1>6. CASE UNCHANGED <<consumes, gpc, okSent>> /\ (pc' = pc \/ pc' \notin {"consume", "start"})
  BY <1>4, <1>6
<1>7. ASSUME NEW d \in received, NEW multiple \in BOOLEAN, Answer(d, multiple) PROVE StartInv'
  <2>1. PICK u, t : AnswerLost(u) \/ AnswerSettles(d, u, t, multiple) \/ AnswerRefused(d, u, t)
    BY <1>7, Zenon DEF Answer
  <2>2. pc' \in {pc, "exit"}
    BY <2>1, Zenon DEF AnswerLost, AnswerSettles, AnswerRefused
  <2>3. UNCHANGED <<consumes, gpc, okSent>>
    BY <1>7 DEF Answer, goVars
  <2>4. QED
    BY <1>6, <2>2, <2>3
<1>8. CASE ClientAnswers
  BY <1>7, <1>8, Zenon DEF ClientAnswers, BasicAck, BasicNack
<1>9. CASE ClientNext
  BY <1>1, <1>6, <1>8, <1>9
     DEF ClientNext, ChannelOpen, ChannelClose, BasicGet, BasicCancel, goVars, clientVars
<1>10. CASE HandlerNext
  BY <1>2, <1>3, <1>6, <1>10
     DEF HandlerNext, CloseUpstream, CloseDone, ConsumeUpstream, CancelUpstream, CancelDone,
         GetNothing, GetMessage, GetEmpty, HandlerFail, ProxyClose, goVars, clientVars
<1>11. CASE MainExit \/ ClientGone \/ UNCHANGED vars \/ \E u \in Upstream : BrokerCloseChannel(u)
  BY <1>6, <1>11
     DEF MainExit, ClientGone, BrokerCloseChannel, vars, mainVars, goVars, clientVars
<1>12. ASSUME NEW k \in Consumer, NEW u \in Upstream, BrokerDeliver(k, u) \/ BrokerCancel(k, u)
       PROVE  StartInv'
  BY <1>6, <1>12 DEF BrokerDeliver, BrokerCancel, mainVars, goVars, clientVars
<1>13. QED
  BY <1>5, <1>9, <1>10, <1>11, <1>12 DEF Next, GoNext

\* Every delivery comes after Basic.Consume-Ok.
LEMMA AnnouncedStep == IInv /\ StartInv /\ OkBeforeDelivery /\ [Next]_vars => OkBeforeDelivery'
<1> SUFFICES ASSUME IInv, StartInv, OkBeforeDelivery, [Next]_vars PROVE OkBeforeDelivery'
  OBVIOUS
<1>1. ASSUME NEW s, NEW u, NEW t, NEW k, k = ByGet \/ k \in okSent,
             received' \subseteq received \cup {Written(s, u, t, k)}
      PROVE  OkBeforeDelivery'
  <2>1. Written(s, u, t, k).announced
    BY <1>1, Zenon DEF Written
  <2>2. QED
    BY <1>1, <2>1, Zenon DEF OkBeforeDelivery
<1>2. CASE UNCHANGED received
  BY <1>2, Zenon DEF OkBeforeDelivery
<1>3. ASSUME NEW u \in Upstream, GetMessage(u) PROVE OkBeforeDelivery'
  <2>1. received' \subseteq received \cup {Written(session, u, last[session][u] + 1, ByGet)}
    BY <1>3, Zenon DEF GetMessage
  <2>2. QED
    BY <1>1, <2>1
<1>4. ASSUME NEW k \in Consumer, NEW u \in Upstream, GoSend(k, u) PROVE OkBeforeDelivery'
  <2>1. received' \subseteq received \cup {Written(consOf[k], u, hold[k][u], k)} /\ k \in okSent
    BY <1>4 DEF GoSend, StartInv
  <2>2. QED
    BY <1>1, <2>1
<1>5. QED
  BY <1>2, <1>3, <1>4, StepMoves
     DEF Moves, Rests, Closes, BasicConsume, ConsumeStart, Settles, Answer, BrokerDeliver, GoRecv,
         GoEnd, clientVars

\* The messages of consumer k from u have come in the broker's order and are in it still:
\* what was delivered, what its goroutine holds, what the library holds.
Ordered(k, u) ==
  /\ \A n \in 1 .. Len(buf[k][u]) : buf[k][u][n] <= last[consOf[k]][u]
  /\ \A m, n \in 1 .. Len(buf[k][u]) : m < n => buf[k][u][m] < buf[k][u][n]
  /\ gpc[k][u] = "send" =>
       /\ hold[k][u] <= last[consOf[k]][u]
       /\ \A n \in 1 .. Len(buf[k][u]) : hold[k][u] < buf[k][u][n]
  /\ \A d \in received : d.k = k /\ d.u = u =>
       /\ d.t <= last[consOf[k]][u]
       /\ \A n \in 1 .. Len(buf[k][u]) : d.t < buf[k][u][n]
       /\ gpc[k][u] = "send" => d.t < hold[k][u]

\* Nothing is known of a consumer that has not been made.
Unborn(k) ==
  /\ consOf[k] = 0 /\ ~ctx2[k]
  /\ \A u \in Upstream : buf[k][u] = <<>>
  /\ \A d \in received : d.k # k

OrderInv ==
  \A k \in Consumer :
    IF k <= consumes THEN consOf[k] <= session /\ \A u \in Upstream : Ordered(k, u) ELSE Unborn(k)

\* What closing channels does to the queues of the library.
LEMMA ClosesEffect ==
  ASSUME TypeLib, NEW us \in SUBSET Upstream, Closes(us)
  PROVE  /\ \A k \in Consumer, u \in Upstream :
              buf'[k][u] = IF consOf[k] = session /\ u \in us THEN <<>> ELSE buf[k][u]
         /\ \A s \in Session, u \in Upstream :
              /\ unacked'[s][u] = IF s = session /\ u \in us THEN {} ELSE unacked[s][u]
              /\ chOpen'[s][u] => chOpen[s][u] /\ ~(s = session /\ u \in us)
         /\ last' = last
<1>1. last' = last
  BY DEF Closes, CloseLib
<1>2. \A k \in Consumer, u \in Upstream :
        buf'[k][u] = IF consOf[k] = session /\ u \in us THEN <<>> ELSE buf[k][u]
  BY DEF Closes, CloseLib
<1>3. ASSUME NEW s \in Session, NEW u \in Upstream
      PROVE  unacked'[s][u] = IF s = session /\ u \in us THEN {} ELSE unacked[s][u]
  BY DEF Closes, CloseLib, TypeLib
<1>4. ASSUME NEW s \in Session, NEW u \in Upstream, chOpen'[s][u]
      PROVE  chOpen[s][u] /\ ~(s = session /\ u \in us)
  <2>1. chOpen' = [chOpen EXCEPT ![session] = [v \in Upstream |-> v \notin us /\ chOpen[session][v]]]
    BY DEF Closes, CloseLib
  <2>2. DOMAIN chOpen = Session /\ session \in Session
    BY DEF TypeLib, Closes
  <2>3. CASE s # session
    BY <1>4, <2>1, <2>2, <2>3
  <2>4. CASE s = session
    <3>1. chOpen'[s] = [v \in Upstream |-> v \notin us /\ chOpen[session][v]]
      BY <2>1, <2>2, <2>4
    <3>2. chOpen'[s][u] = (u \notin us /\ chOpen[session][u])
      BY <3>1
    <3>3. QED
      BY <1>4, <2>4, <3>2, Zenon
  <2>5. QED
    BY <2>3, <2>4
<1>5. QED
  BY <1>1, <1>2, <1>3, <1>4

\* What a delivery is, where the proofs need its parts.
LEMMA WrittenParts ==
  ASSUME NEW s, NEW u, NEW t, NEW k
  PROVE  /\ Written(s, u, t, k).os = s /\ Written(s, u, t, k).u = u /\ Written(s, u, t, k).t = t
         /\ Written(s, u, t, k).k = k /\ Written(s, u, t, k).s = session
BY Zenon DEF Written

\* Consumers come one after the other, in the session of their Basic.Consume.
LEMMA UnbornStep ==
  ASSUME IInv, OrderInv, [Next]_vars, NEW k \in Consumer
  PROVE  IF k <= consumes' THEN consOf'[k] <= session' ELSE Unborn(k)'
<1>0. /\ consumes \in Nat /\ k \in Nat /\ session \in Nat /\ consOf \in [Consumer -> 0 .. MaxOpen]
      /\ TypeLib /\ TypeGo /\ GoInv
  BY DeliveryAssumption DEF IInv, TypeOK, TypeMain, Consumer
<1>1. IF k <= consumes THEN consOf[k] <= session ELSE Unborn(k)
  BY DEF OrderInv
<1>2. CASE Rests
  <2>1. consOf[k] \in Nat /\ session' \in Nat
    BY <1>0, TypeMainStep, DeliveryAssumption DEF IInv, TypeOK, TypeMain
  <2>2. QED
    BY <1>0, <1>1, <1>2, <2>1 DEF Rests, Unborn
<1>3. ASSUME NEW us \in SUBSET Upstream, Closes(us)
      PROVE  IF k <= consumes' THEN consOf'[k] <= session' ELSE Unborn(k)'
  <2>1. buf[k] = buf'[k] \/ \A u \in Upstream : buf'[k][u] \in {buf[k][u], <<>>}
    BY <1>0, <1>3, ClosesEffect
  <2>2. QED
    BY <1>1, <1>3, <2>1 DEF Closes, Unborn
<1>4. CASE BasicConsume
  <2>1. consumes' = consumes + 1 /\ consOf' = [consOf EXCEPT ![consumes + 1] = session]
        /\ UNCHANGED <<session, ctx2, buf, received>>
    BY <1>4 DEF BasicConsume, libVars, goVars, clientVars
  <2>2. CASE k = consumes + 1
    BY <1>0, <2>1, <2>2
  <2>3. CASE k # consumes + 1
    BY <1>0, <1>1, <2>1, <2>3 DEF Unborn
  <2>4. QED
    BY <2>2, <2>3
<1>5. ASSUME UNCHANGED <<consumes, consOf, session>>,
             k > consumes => ctx2'[k] = ctx2[k] /\ \A u \in Upstream : buf'[k][u] = buf[k][u],
             k > consumes => \A d \in received' : d \in received \/ d.k # k
      PROVE  IF k <= consumes' THEN consOf'[k] <= session' ELSE Unborn(k)'
  BY <1>0, <1>1, <1>5 DEF Unborn
<1>6. CASE ConsumeStart
  BY <1>5, <1>6 DEF ConsumeStart, libVars, clientVars
<1>7. ASSUME NEW u \in Upstream, GetMessage(u)
      PROVE  IF k <= consumes' THEN consOf'[k] <= session' ELSE Unborn(k)'
  <2>1. received' \subseteq received \cup {Written(session, u, last[session][u] + 1, ByGet)}
    BY <1>7, Zenon DEF GetMessage
  <2>2. Written(session, u, last[session][u] + 1, ByGet).k # k
    BY WrittenParts DEF ByGet, Consumer
  <2>3. UNCHANGED <<consumes, consOf, session, ctx2, buf>>
    BY <1>7 DEF GetMessage, goVars
  <2>4. QED
    BY <1>5, <2>1, <2>2, <2>3
<1>8. ASSUME NEW d \in received, NEW multiple \in BOOLEAN, Settles(d, multiple)
      PROVE  IF k <= consumes' THEN consOf'[k] <= session' ELSE Unborn(k)'
  BY <1>5, <1>8 DEF Settles, Answer, AnswerSettles, goVars
<1>9. ASSUME NEW j \in Consumer, NEW u \in Upstream, BrokerDeliver(j, u) \/ GoRecv(j, u) \/ GoEnd(j, u)
      PROVE  IF k <= consumes' THEN consOf'[k] <= session' ELSE Unborn(k)'
  <2>1. UNCHANGED <<consumes, consOf, session, received>>
    BY <1>9 DEF BrokerDeliver, GoRecv, GoEnd, mainVars, clientVars
  <2>2. j <= consumes
    BY <1>0, <1>9 DEF BrokerDeliver, GoRecv, GoEnd, GoInv
  <2>3. j # k => ctx2'[k] = ctx2[k]
    BY <1>0, <1>9 DEF BrokerDeliver, GoRecv, GoEnd, goVars, TypeGo
  <2>4. j # k => \A v \in Upstream : buf'[k][v] = buf[k][v]
    BY <1>0, <1>9 DEF BrokerDeliver, GoRecv, GoEnd, libVars, TypeLib
  <2>5. k > consumes => j # k
    BY <1>0, <2>2
  <2>6. QED
    BY <1>5, <2>1, <2>3, <2>4, <2>5
<1>10. ASSUME NEW j \in Consumer, NEW u \in Upstream, GoSend(j, u)
       PROVE  IF k <= consumes' THEN consOf'[k] <= session' ELSE Unborn(k)'
  <2>1. /\ UNCHANGED <<consumes, consOf, session, ctx2, buf>> /\ j <= consumes
        /\ received' = received \cup {Written(consOf[j], u, hold[j][u], j)}
    BY <1>0, <1>10 DEF GoSend, GoInv, mainVars, libVars
  <2>2. Written(consOf[j], u, hold[j][u], j).k = j
    BY WrittenParts
  <2>3. k > consumes => j # k
    BY <1>0, <2>1
  <2>4. QED
    BY <1>5, <2>1, <2>2, <2>3
<1>11. QED
  BY <1>2, <1>3, <1>4, <1>6, <1>7, <1>8, <1>9, <1>10, StepMoves DEF Moves

\* The order is kept: a broker's next message goes to the end of the queue, a goroutine
\* takes the first, and writes it before it takes another.
LEMMA OrderedStep ==
  ASSUME IInv, OrderInv, [Next]_vars, NEW k \in Consumer, NEW u \in Upstream, k <= consumes'
  PROVE  Ordered(k, u)'
<1>0. /\ consumes \in Nat /\ k \in Nat /\ session \in 0 .. MaxOpen
      /\ consOf \in [Consumer -> 0 .. MaxOpen] /\ DOMAIN consOf = Consumer
      /\ TypeLib /\ TypeGo /\ GoInv /\ received \subseteq Delivery /\ LoopInv
  BY DeliveryAssumption DEF IInv, TypeOK, TypeMain, TypeClient, Consumer
<1>1. k <= consumes => Ordered(k, u) /\ consOf[k] \in Session
  BY <1>0 DEF OrderInv, GoInv
<1>2. k > consumes => Unborn(k) /\ gpc[k][u] = "none"
  BY <1>0 DEF OrderInv, GoInv
<1>3. /\ \A s \in Session, v \in Upstream : last[s][v] \in Nat
      /\ buf[k][u] \in Seq(Nat) /\ hold[k][u] \in Nat
      /\ \A d \in received : d.t \in Nat
  <2>1. MsgTag \subseteq Nat
    BY DeliveryAssumption DEF MsgTag
  <2>2. buf[k][u] \in Seq(MsgTag)
    BY <1>0 DEF TypeLib
  <2>3. \A b \in Seq(MsgTag) : b \in Seq(Nat)
    BY <2>1, SeqMonotonic
  <2>4. \A d \in received : d.t \in Nat
    BY <1>0, <2>1 DEF Delivery
  <2>5. QED
    BY <1>0, <2>2, <2>3, <2>4, DeliveryAssumption DEF TypeLib, TypeGo
<1>4. ASSUME k <= consumes, consOf'[k] = consOf[k],
             last'[consOf[k]][u] \in Nat, last[consOf[k]][u] <= last'[consOf[k]][u],
             buf'[k][u] = buf[k][u] \/ buf'[k][u] = <<>>,
             gpc'[k][u] = "send" => gpc[k][u] = "send" /\ hold'[k][u] = hold[k][u],
             \A d \in received' : d.k = k /\ d.u = u => d \in received
      PROVE  Ordered(k, u)'
  <2> DEFINE b == buf[k][u]
             l == last[consOf[k]][u]
             ln == last'[consOf[k]][u]
             h == hold[k][u]
  <2>1. b \in Seq(Nat) /\ l \in Nat /\ ln \in Nat /\ h \in Nat /\ l <= ln
    BY <1>1, <1>3, <1>4
  <2>2. /\ \A n \in 1 .. Len(b) : b[n] <= l
        /\ \A m, n \in 1 .. Len(b) : m < n => b[m] < b[n]
        /\ gpc[k][u] = "send" => h <= l /\ \A n \in 1 .. Len(b) : h < b[n]
        /\ \A d \in received : d.k = k /\ d.u = u =>
             /\ d.t <= l
             /\ \A n \in 1 .. Len(b) : d.t < b[n]
             /\ gpc[k][u] = "send" => d.t < h
    BY <1>1, <1>4 DEF Ordered
  <2>3. buf'[k][u] = b \/ buf'[k][u] = <<>>
    BY <1>4
  <2> HIDE DEF b, l, ln, h
  <2>4. /\ \A n \in 1 .. Len(b) : b[n] <= ln
        /\ gpc[k][u] = "send" => h <= ln
        /\ \A d \in received : d.k = k /\ d.u = u => d.t <= ln
    BY <1>3, <2>1, <2>2
  <2>5. CASE buf'[k][u] = b
    BY <1>4, <2>2, <2>4, <2>5 DEF Ordered, h, ln
  <2>6. CASE buf'[k][u] = <<>>
    BY <1>4, <2>2, <2>4, <2>6 DEF Ordered, h, ln
  <2>7. QED
    BY <2>3, <2>5, <2>6
<1>5. ASSUME UNCHANGED <<consumes, consOf, last, gpc, hold, received>>,
             buf'[k][u] = buf[k][u] \/ buf'[k][u] = <<>>
      PROVE  Ordered(k, u)'
  BY <1>1, <1>3, <1>4, <1>5
<1>6. CASE Rests
  BY <1>5, <1>6 DEF Rests
<1>7. ASSUME NEW us \in SUBSET Upstream, Closes(us) PROVE Ordered(k, u)'
  BY <1>0, <1>5, <1>7, ClosesEffect DEF Closes
<1>8. CASE BasicConsume
  <2>1. /\ consumes' = consumes + 1 /\ consOf' = [consOf EXCEPT ![consumes + 1] = session]
        /\ UNCHANGED <<last, buf, gpc, hold, received>>
    BY <1>8 DEF BasicConsume, libVars, goVars, clientVars
  <2>2. CASE k = consumes + 1
    BY <1>0, <1>2, <2>1, <2>2 DEF Unborn, Ordered
  <2>3. CASE k # consumes + 1
    BY <1>0, <1>1, <1>3, <1>4, <2>1, <2>3
  <2>4. QED
    BY <2>2, <2>3
<1>9. CASE ConsumeStart
  <2>1. gpc' = [gpc EXCEPT ![consumes] = [v \in Upstream |-> "recv"]]
        /\ UNCHANGED <<consumes, consOf, last, buf, hold, received>>
    BY <1>9 DEF ConsumeStart, libVars, clientVars
  <2>2. gpc'[k][u] = gpc[k][u] \/ gpc'[k][u] = "recv"
    BY <1>0, <2>1 DEF TypeGo
  <2>3. QED
    BY <1>1, <1>3, <1>4, <2>1, <2>2
<1>10. ASSUME NEW v \in Upstream, GetMessage(v) PROVE Ordered(k, u)'
  <2>1. received' \subseteq received \cup {Written(session, v, last[session][v] + 1, ByGet)}
    BY <1>10, Zenon DEF GetMessage
  <2>2. Written(session, v, last[session][v] + 1, ByGet).k # k
    BY WrittenParts DEF ByGet, Consumer
  <2>3. UNCHANGED <<consumes, consOf, gpc, hold, buf>>
    BY <1>10 DEF GetMessage, goVars
  <2>4. session \in Session
    BY <1>0, <1>10 DEF GetMessage, LoopInv
  <2>5. \A s \in Session : last'[s][u] \in Nat /\ last[s][u] <= last'[s][u]
    BY <1>0, <1>3, <1>10, <2>4 DEF GetMessage, TypeLib
  <2>6. QED
    BY <1>1, <1>4, <2>1, <2>2, <2>3, <2>5
<1>11. ASSUME NEW d \in received, NEW multiple \in BOOLEAN, Settles(d, multiple)
       PROVE  Ordered(k, u)'
  BY <1>5, <1>11 DEF Settles, Answer, AnswerSettles, goVars
<1>12. ASSUME NEW j \in Consumer, NEW v \in Upstream, BrokerDeliver(j, v) PROVE Ordered(k, u)'
  <2> DEFINE t == last[consOf[j]][v] + 1
  <2>1. /\ UNCHANGED <<consumes, consOf, gpc, hold, received>>
        /\ last' = [last EXCEPT ![consOf[j]][v] = t]
        /\ buf' = [buf EXCEPT ![j][v] = Append(@, t)]
    BY <1>12 DEF BrokerDeliver, mainVars, goVars, clientVars
  <2>2. consOf[j] \in Session
    BY <1>0, <1>12 DEF BrokerDeliver, GoInv
  <2>3. k <= consumes
    BY <2>1
  <2>4. \A s \in Session : last'[s][u] \in Nat /\ last[s][u] <= last'[s][u]
    <3>1. /\ last \in [Session -> [Upstream -> 0 .. MaxMsg]] /\ MaxMsg \in Nat
      BY <1>0, DeliveryAssumption DEF TypeLib
    <3>2. ASSUME NEW s \in Session PROVE last[s][u] \in Nat
      BY <3>1
    <3>3. ASSUME NEW s \in Session, ~(s = consOf[j] /\ u = v) PROVE last'[s][u] = last[s][u]
      BY <2>1, <2>2, <3>1, <3>3
    <3>4. last'[consOf[j]][v] = last[consOf[j]][v] + 1
      BY <2>1, <2>2, <3>1
    <3>5. QED
      BY <2>2, <3>2, <3>3, <3>4
  <2>5. CASE j # k \/ v # u
    <3>1. buf'[k][u] = buf[k][u]
      BY <1>0, <2>1, <2>5 DEF TypeLib
    <3>2. QED
      BY <1>1, <1>4, <2>1, <2>3, <2>4, <3>1
  <2>6. CASE j = k /\ v = u
    <3> DEFINE b == buf[k][u]
               c == buf'[k][u]
               l == last[consOf[k]][u]
               h == hold[k][u]
    <3>1. c = Append(b, l + 1) /\ last'[consOf[k]][u] = l + 1
      BY <1>0, <2>1, <2>2, <2>6 DEF TypeLib
    <3>2. b \in Seq(Nat) /\ l \in Nat /\ h \in Nat
      BY <1>3, <2>2, <2>6
    <3>3. /\ \A n \in 1 .. Len(b) : b[n] <= l
          /\ \A m, n \in 1 .. Len(b) : m < n => b[m] < b[n]
          /\ gpc[k][u] = "send" => h <= l /\ \A n \in 1 .. Len(b) : h < b[n]
          /\ \A d \in received : d.k = k /\ d.u = u =>
               /\ d.t <= l
               /\ \A n \in 1 .. Len(b) : d.t < b[n]
               /\ gpc[k][u] = "send" => d.t < h
      BY <1>1, <2>3 DEF Ordered
    <3> HIDE DEF b, c, l, h
    <3>4. /\ Len(c) = Len(b) + 1 /\ Len(b) \in Nat
          /\ c[Len(b) + 1] = l + 1
          /\ \A n \in 1 .. Len(b) : c[n] = b[n] /\ b[n] \in Nat
          /\ \A n \in 1 .. Len(c) : n = Len(b) + 1 \/ n \in 1 .. Len(b)
      BY <3>1, <3>2
    <3>5. \A n \in 1 .. Len(c) : c[n] <= l + 1
      BY <3>2, <3>3, <3>4
    <3>6. ASSUME NEW m \in 1 .. Len(c), NEW n \in 1 .. Len(c), m < n PROVE c[m] < c[n]
      <4>1. m \in 1 .. Len(b)
        BY <3>4, <3>6
      <4>2. QED
        BY <3>2, <3>3, <3>4, <3>6, <4>1
    <3>7. gpc[k][u] = "send" => h <= l + 1 /\ \A n \in 1 .. Len(c) : h < c[n]
      BY <3>2, <3>3, <3>4
    <3>8. ASSUME NEW d \in received, d.k = k, d.u = u
          PROVE  d.t <= l + 1 /\ \A n \in 1 .. Len(c) : d.t < c[n]
      <4>1. d.t \in Nat /\ d.t <= l
        BY <1>3, <3>3, <3>8
      <4>2. \A n \in 1 .. Len(b) : d.t < c[n]
        BY <3>3, <3>4, <3>8
      <4>3. QED
        BY <3>2, <3>4, <4>1, <4>2
    <3>9. UNCHANGED <<consOf, gpc, hold, received>>
      BY <2>1
    <3>10. QED
      BY <3>1, <3>3, <3>5, <3>6, <3>7, <3>8, <3>9 DEF Ordered, c, h
  <2>7. QED
    BY <2>5, <2>6
<1>13. ASSUME NEW j \in Consumer, NEW v \in Upstream, GoRecv(j, v) PROVE Ordered(k, u)'
  <2>1. /\ UNCHANGED <<consumes, consOf, last, received>>
        /\ gpc[j][v] = "recv" /\ buf[j][v] # <<>>
        /\ hold' = [hold EXCEPT ![j][v] = Head(buf[j][v])]
        /\ buf' = [buf EXCEPT ![j][v] = Tail(@)]
        /\ gpc' = [gpc EXCEPT ![j][v] = "send"]
    BY <1>13 DEF GoRecv, mainVars, clientVars
  <2>2. k <= consumes
    BY <2>1
  <2>3. CASE j # k \/ v # u
    <3>1. buf'[k][u] = buf[k][u] /\ gpc'[k][u] = gpc[k][u] /\ hold'[k][u] = hold[k][u]
      BY <1>0, <2>1, <2>3 DEF TypeLib, TypeGo
    <3>2. QED
      BY <1>1, <1>3, <1>4, <2>1, <2>2, <3>1
  <2>4. CASE j = k /\ v = u
    <3> DEFINE b == buf[k][u]
               c == buf'[k][u]
               l == last[consOf[k]][u]
               h == hold'[k][u]
    <3>1. c = Tail(b) /\ h = Head(b) /\ b # <<>>
      BY <1>0, <2>1, <2>4 DEF TypeLib, TypeGo
    <3>2. b \in Seq(Nat) /\ l \in Nat
      BY <1>1, <1>3, <2>2
    <3>3. /\ \A n \in 1 .. Len(b) : b[n] <= l
          /\ \A m, n \in 1 .. Len(b) : m < n => b[m] < b[n]
          /\ \A d \in received : d.k = k /\ d.u = u =>
               d.t <= l /\ \A n \in 1 .. Len(b) : d.t < b[n]
      BY <1>1, <2>2 DEF Ordered
    <3> HIDE DEF b, c, l, h
    <3>4. /\ Len(b) \in Nat /\ Len(c) = Len(b) - 1 /\ h = b[1]
          /\ 1 \in 1 .. Len(b)
          /\ \A n \in 1 .. Len(c) : c[n] = b[n + 1] /\ n + 1 \in 1 .. Len(b) /\ n \in Nat /\ 1 < n + 1
      BY <3>1, <3>2
    <3>5. \A n \in 1 .. Len(c) : c[n] <= l /\ h < c[n]
      BY <3>3, <3>4
    <3>6. ASSUME NEW m \in 1 .. Len(c), NEW n \in 1 .. Len(c), m < n PROVE c[m] < c[n]
      <4>1. m + 1 < n + 1
        BY <3>4, <3>6
      <4>2. QED
        BY <3>3, <3>4, <4>1
    <3>7. h <= l
      BY <3>3, <3>4
    <3>8. ASSUME NEW d \in received, d.k = k, d.u = u
          PROVE  d.t <= l /\ d.t < h /\ \A n \in 1 .. Len(c) : d.t < c[n]
      BY <3>3, <3>4, <3>8
    <3>9. UNCHANGED <<consOf, last, received>>
      BY <2>1
    <3>10. QED
      BY <3>5, <3>6, <3>7, <3>8, <3>9 DEF Ordered, c, h, l
  <2>5. QED
    BY <2>3, <2>4
<1>14. ASSUME NEW j \in Consumer, NEW v \in Upstream, GoSend(j, v) PROVE Ordered(k, u)'
  <2> DEFINE new == Written(consOf[j], v, hold[j][v], j)
  <2>1. /\ UNCHANGED <<consumes, consOf, last, buf>>
        /\ gpc[j][v] = "send"
        /\ gpc' = [gpc EXCEPT ![j][v] = "recv"]
        /\ hold' = [hold EXCEPT ![j][v] = 0]
        /\ received' = received \cup {new}
    BY <1>14 DEF GoSend, mainVars, libVars
  <2>2. new.k = j /\ new.u = v /\ new.t = hold[j][v]
    BY WrittenParts
  <2>3. k <= consumes
    BY <2>1
  <2> HIDE DEF new
  <2>4. CASE j # k \/ v # u
    <3>1. gpc'[k][u] = gpc[k][u] /\ hold'[k][u] = hold[k][u]
      BY <1>0, <2>1, <2>4 DEF TypeGo
    <3>2. \A d \in received' : d.k = k /\ d.u = u => d \in received
      BY <2>1, <2>2, <2>4
    <3>3. QED
      BY <1>1, <1>3, <1>4, <2>1, <2>3, <3>1, <3>2
  <2>5. CASE j = k /\ v = u
    <3>1. gpc'[k][u] # "send"
      BY <1>0, <2>1, <2>5 DEF TypeGo
    <3>2. Ordered(k, u) /\ gpc[k][u] = "send" /\ new.t = hold[k][u]
      BY <1>1, <2>1, <2>2, <2>3, <2>5
    <3>3. QED
      BY <2>1, <3>1, <3>2 DEF Ordered
  <2>6. QED
    BY <2>4, <2>5
<1>15. ASSUME NEW j \in Consumer, NEW v \in Upstream, GoEnd(j, v) PROVE Ordered(k, u)'
  <2>1. /\ UNCHANGED <<consumes, consOf, last, buf, hold, received>>
        /\ gpc' = [gpc EXCEPT ![j][v] = "done"]
    BY <1>15 DEF GoEnd, mainVars, libVars, clientVars
  <2>2. gpc'[k][u] = gpc[k][u] \/ gpc'[k][u] = "done"
    BY <1>0, <2>1 DEF TypeGo
  <2>3. QED
    BY <1>1, <1>3, <1>4, <2>1, <2>2
<1>16. QED
  BY <1>6, <1>7, <1>8, <1>9, <1>10, <1>11, <1>12, <1>13, <1>14, <1>15, StepMoves DEF Moves

\* OrderInv is inductive.
LEMMA OrderStep == IInv /\ OrderInv /\ [Next]_vars => OrderInv'
BY OrderedStep, UnbornStep DEF OrderInv

\* What the proofs about the way of a message rest on holds from the first state on.
LEMMA WayAlways == Spec => [](IInv /\ StartInv /\ OkBeforeDelivery /\ OrderInv)
<1>1. Init => StartInv /\ OkBeforeDelivery /\ OrderInv
  <2> SUFFICES ASSUME Init PROVE StartInv /\ OkBeforeDelivery /\ OrderInv
    OBVIOUS
  <2>1. StartInv /\ OkBeforeDelivery
    BY DEF Init, StartInv, OkBeforeDelivery
  <2>2. \A k \in Consumer : k > consumes /\ Unborn(k)
    BY DeliveryAssumption DEF Init, Unborn, Consumer
  <2>3. QED
    BY <2>1, <2>2, DeliveryAssumption DEF OrderInv, Init, Consumer
<1>2. IInv /\ StartInv /\ OkBeforeDelivery /\ OrderInv /\ [Next]_vars
        => (StartInv /\ OkBeforeDelivery /\ OrderInv)'
  BY StartStep, AnnouncedStep, OrderStep
<1>3. QED
  BY <1>1, <1>2, Invariance, PTL DEF Spec

\* Whatever the sessions, the consumers, their cancellation and the channels brokers
\* close: what the client sees of a consumer is Basic.Consume-Ok and then the messages
\* of each upstream in the order the broker sent them, none of them twice.
THEOREM DeliveriesComeInOrder == Spec => []DeliveriesOrdered
<1>1. ASSUME IInv, OrderInv, NEW k \in Consumer, NEW u \in Upstream
      PROVE  LET coming == IF gpc[k][u] = "send" THEN <<hold[k][u]>> \o buf[k][u] ELSE buf[k][u]
                 past   == {d \in received : d.k = k /\ d.u = u}
             IN  /\ \A n \in 1 .. Len(coming) : \A d \in past : d.t < coming[n]
                 /\ \A n \in 2 .. Len(coming) : coming[n - 1] < coming[n]
  <2> DEFINE b == buf[k][u]
             h == hold[k][u]
             coming == IF gpc[k][u] = "send" THEN <<h>> \o b ELSE b
  <2>1. b \in Seq(MsgTag) /\ h \in 0 .. MaxMsg
    BY <1>1 DEF IInv, TypeOK, TypeLib, TypeGo
  <2>2. /\ \A m, n \in 1 .. Len(b) : m < n => b[m] < b[n]
        /\ gpc[k][u] = "send" => \A n \in 1 .. Len(b) : h < b[n]
        /\ \A d \in received : d.k = k /\ d.u = u =>
             /\ \A n \in 1 .. Len(b) : d.t < b[n]
             /\ gpc[k][u] = "send" => d.t < h
    <3>1. k \in Nat /\ consumes \in Nat
      BY <1>1, DeliveryAssumption DEF IInv, TypeOK, TypeMain, Consumer
    <3>2. CASE k <= consumes
      BY <1>1, <3>2 DEF OrderInv, Ordered
    <3>3. CASE k > consumes
      BY <1>1, <3>1, <3>3 DEF OrderInv, Unborn, IInv, GoInv
    <3>4. QED
      BY <3>1, <3>2, <3>3
  <2> HIDE DEF b, h
  <2>3. CASE gpc[k][u] = "send"
    <3> DEFINE c == <<h>> \o b
    <3>1. /\ Len(b) \in Nat /\ Len(c) = Len(b) + 1 /\ c[1] = h
          /\ \A n \in 2 .. Len(c) : c[n] = b[n - 1] /\ n - 1 \in 1 .. Len(b)
      BY <2>1
    <3> HIDE DEF c
    <3>2. \A n \in 1 .. Len(c) : \A d \in received : d.k = k /\ d.u = u => d.t < c[n]
      <4>1. \A n \in 1 .. Len(c) : n = 1 \/ n \in 2 .. Len(c)
        BY <3>1
      <4>2. QED
        BY <2>2, <2>3, <3>1, <4>1
    <3>3. ASSUME NEW n \in 2 .. Len(c) PROVE c[n - 1] < c[n]
      <4>1. CASE n = 2
        BY <2>2, <2>3, <3>1, <4>1
      <4>2. CASE n # 2
        <5>1. /\ n - 1 \in 2 .. Len(c) /\ c[n] = b[n - 1] /\ n - 1 \in 1 .. Len(b)
              /\ n - 2 < n - 1
          BY <3>1, <4>2
        <5>2. c[n - 1] = b[n - 2] /\ n - 2 \in 1 .. Len(b)
          BY <3>1, <5>1
        <5>3. QED
          BY <2>2, <5>1, <5>2
      <4>3. QED
        BY <4>1, <4>2
    <3>4. coming = c
      BY <2>3 DEF c
    <3>5. QED
      BY <3>2, <3>3, <3>4 DEF b, h
  <2>4. CASE gpc[k][u] # "send"
    <3>1. \A n \in 2 .. Len(b) : n - 1 \in 1 .. Len(b) /\ n \in 1 .. Len(b) /\ n - 1 < n
      BY <2>1
    <3>2. QED
      BY <2>2, <2>4, <3>1 DEF b, h
  <2>5. QED
    BY <2>3, <2>4
<1>2. IInv /\ OkBeforeDelivery /\ OrderInv => DeliveriesOrdered
  BY <1>1 DEF DeliveriesOrdered, DeliveriesInOrder
<1>3. QED
  BY <1>2, WayAlways, PTL

-----------------------------------------------------------------------------
(* Where a message is: in the library's queue or in the hands of a         *)
(* goroutine, and then with the client.                                    *)

Queued(k, u, t) == \E n \in 1 .. Len(buf[k][u]) : buf[k][u][n] = t

InHand(k, u, t) == gpc[k][u] = "send" /\ hold[k][u] = t

\* Message t of upstream u of session s was written to the client.
Given(s, u, t) == \E d \in received : d.os = s /\ d.u = u /\ d.t = t

\* What a goroutine and the library have of consumer k: a step adds the message a broker
\* sends, and takes away what is written to the client, what a closed channel held and
\* what a goroutine had when it ended.
LEMMA HeldStep ==
  ASSUME IInv, StartInv, [Next]_vars, NEW k \in Consumer, NEW u \in Upstream, NEW t \in MsgTag
  PROVE  /\ (Queued(k, u, t) \/ InHand(k, u, t))' =>
              \/ Queued(k, u, t) \/ InHand(k, u, t)
              \/ BrokerDeliver(k, u) /\ t = last[consOf[k]][u] + 1
         /\ Queued(k, u, t) \/ InHand(k, u, t) =>
              \/ (Queued(k, u, t) \/ InHand(k, u, t))'
              \/ GoSend(k, u) /\ hold[k][u] = t
              \/ GoEnd(k, u)
              \/ \E us \in SUBSET Upstream : Closes(us) /\ u \in us /\ consOf[k] = session
<1> DEFINE Has == Queued(k, u, t) \/ InHand(k, u, t)
           Goal == /\ Has' => Has \/ (BrokerDeliver(k, u) /\ t = last[consOf[k]][u] + 1)
                   /\ Has => \/ Has'
                             \/ GoSend(k, u) /\ hold[k][u] = t
                             \/ GoEnd(k, u)
                             \/ \E us \in SUBSET Upstream :
                                  Closes(us) /\ u \in us /\ consOf[k] = session
<1> SUFFICES Goal
  OBVIOUS
<1>0. TypeLib /\ TypeGo /\ GoInv /\ LoopInv
  BY DEF IInv, TypeOK
<1>1. CASE buf'[k][u] = buf[k][u] /\ gpc'[k][u] = gpc[k][u] /\ hold'[k][u] = hold[k][u]
  <2>1. Has' <=> Has
    BY <1>1 DEF Queued, InHand
  <2>2. QED
    BY <2>1, Zenon
<1>2. CASE Rests
  BY <1>1, <1>2 DEF Rests
<1>3. ASSUME NEW us \in SUBSET Upstream, Closes(us) PROVE Goal
  <2>1. CASE consOf[k] = session /\ u \in us
    <3>1. buf'[k][u] = <<>> /\ UNCHANGED <<gpc, hold>>
      BY <1>0, <1>3, <2>1, ClosesEffect DEF Closes
    <3>2. Has' => Has
      BY <3>1 DEF Queued, InHand
    <3>3. QED
      BY <1>3, <2>1, <3>2, Zenon
  <2>2. CASE ~(consOf[k] = session /\ u \in us)
    <3>1. buf'[k][u] = buf[k][u] /\ UNCHANGED <<gpc, hold>>
      BY <1>0, <1>3, <2>2, ClosesEffect DEF Closes
    <3>2. QED
      BY <1>1, <3>1
  <2>3. QED
    BY <2>1, <2>2
<1>4. CASE BasicConsume
  BY <1>1, <1>4 DEF BasicConsume, libVars, goVars
<1>5. CASE ConsumeStart
  <2>1. /\ gpc' = [gpc EXCEPT ![consumes] = [v \in Upstream |-> "recv"]]
        /\ UNCHANGED <<buf, hold>> /\ consumes \in Consumer
        /\ \A v \in Upstream : gpc[consumes][v] = "none"
    BY <1>0, <1>5 DEF ConsumeStart, libVars, LoopInv, StartInv
  <2>2. gpc'[k][u] = gpc[k][u] \/ (gpc'[k][u] = "recv" /\ gpc[k][u] = "none")
    BY <1>0, <2>1 DEF TypeGo
  <2>3. Has' <=> Has
    BY <2>1, <2>2 DEF Queued, InHand
  <2>4. QED
    BY <2>3, Zenon
<1>6. ASSUME NEW v \in Upstream, GetMessage(v) PROVE Goal
  BY <1>1, <1>6 DEF GetMessage, goVars
<1>7. ASSUME NEW d \in received, NEW multiple \in BOOLEAN, Settles(d, multiple) PROVE Goal
  BY <1>1, <1>7 DEF Settles, Answer, AnswerSettles, goVars
<1>8. ASSUME NEW j \in Consumer, NEW v \in Upstream,
             BrokerDeliver(j, v) \/ GoRecv(j, v) \/ GoSend(j, v) \/ GoEnd(j, v),
             j # k \/ v # u
      PROVE  Goal
  <2>1. buf'[k][u] = buf[k][u]
    BY <1>0, <1>8 DEF BrokerDeliver, GoRecv, GoSend, GoEnd, libVars, TypeLib
  <2>2. gpc'[k][u] = gpc[k][u] /\ hold'[k][u] = hold[k][u]
    BY <1>0, <1>8 DEF BrokerDeliver, GoRecv, GoSend, GoEnd, goVars, TypeGo
  <2>3. QED
    BY <1>1, <2>1, <2>2
<1>9. CASE BrokerDeliver(k, u)
  <2> DEFINE b == buf[k][u]
             c == buf'[k][u]
             l == last[consOf[k]][u]
  <2>1. c = Append(b, l + 1) /\ UNCHANGED <<gpc, hold>>
    BY <1>0, <1>9 DEF BrokerDeliver, goVars, TypeLib
  <2>2. b \in Seq(MsgTag)
    BY <1>0 DEF TypeLib
  <2> HIDE DEF b, c, l
  <2>3. /\ Len(c) = Len(b) + 1 /\ Len(b) \in Nat
        /\ c[Len(b) + 1] = l + 1
        /\ \A n \in 1 .. Len(b) : c[n] = b[n] /\ n \in 1 .. Len(c)
        /\ \A n \in 1 .. Len(c) : n = Len(b) + 1 \/ n \in 1 .. Len(b)
    BY <2>1, <2>2
  <2>4. (\E n \in 1 .. Len(c) : c[n] = t) <=> (t = l + 1 \/ \E n \in 1 .. Len(b) : b[n] = t)
    BY <2>3
  <2>5. Has' <=> (t = last[consOf[k]][u] + 1 \/ Has)
    BY <2>1, <2>4 DEF b, c, l, Queued, InHand
  <2>6. QED
    BY <1>9, <2>5, Zenon
<1>10. CASE GoRecv(k, u)
  <2> DEFINE b == buf[k][u]
             c == buf'[k][u]
             h == hold'[k][u]
  <2>1. c = Tail(b) /\ h = Head(b) /\ b # <<>> /\ gpc[k][u] = "recv" /\ gpc'[k][u] = "send"
    BY <1>0, <1>10 DEF GoRecv, TypeLib, TypeGo
  <2>2. b \in Seq(MsgTag)
    BY <1>0 DEF TypeLib
  <2> HIDE DEF b, c, h
  <2>3. /\ Len(c) = Len(b) - 1 /\ Len(b) \in Nat /\ h = b[1] /\ 1 \in 1 .. Len(b)
        /\ \A n \in 1 .. Len(c) : c[n] = b[n + 1] /\ n + 1 \in 1 .. Len(b)
        /\ \A n \in 1 .. Len(b) : n = 1 \/ (n - 1 \in 1 .. Len(c) /\ (n - 1) + 1 = n)
    BY <2>1, <2>2
  <2>4. \A n \in 1 .. Len(b) : b[n] = h \/ (n - 1 \in 1 .. Len(c) /\ c[n - 1] = b[n])
    BY <2>3
  <2>5. (\E n \in 1 .. Len(b) : b[n] = t) <=> (t = h \/ \E n \in 1 .. Len(c) : c[n] = t)
    BY <2>3, <2>4
  <2>6. Has' <=> Has
    BY <2>1, <2>5 DEF b, c, h, Queued, InHand
  <2>7. QED
    BY <2>6, Zenon
<1>11. CASE GoSend(k, u)
  <2>1. /\ UNCHANGED buf /\ gpc'[k][u] = "recv"
    BY <1>0, <1>11 DEF GoSend, libVars, TypeGo
  <2>2. (Has' => Has) /\ (Has => Has' \/ hold[k][u] = t)
    BY <2>1 DEF Queued, InHand
  <2>3. QED
    BY <1>11, <2>2, Zenon
<1>12. CASE GoEnd(k, u)
  <2>1. UNCHANGED buf /\ gpc'[k][u] = "done"
    BY <1>0, <1>12 DEF GoEnd, libVars, TypeGo
  <2>2. Has' => Has
    BY <2>1 DEF Queued, InHand
  <2>3. QED
    BY <1>12, <2>2, Zenon
<1>13. QED
  BY <1>2, <1>3, <1>4, <1>5, <1>6, <1>7, <1>8, <1>9, <1>10, <1>11, <1>12, StepMoves DEF Moves

\* A client that is gone does not come back.
LEMMA GoneStays == [Next]_vars => alive' = alive \/ ~alive'
<1> SUFFICES ASSUME [Next]_vars PROVE alive' = alive \/ ~alive'
  OBVIOUS
<1>1. CASE ClientNext
  BY <1>1
     DEF ClientNext, ChannelOpen, ChannelClose, BasicConsume, BasicGet, BasicCancel, ClientAnswers,
         BasicAck, BasicNack, Answer, clientVars
<1>2. CASE HandlerNext
  BY <1>2
     DEF HandlerNext, CloseUpstream, CloseDone, ConsumeUpstream, ConsumeOk, ConsumeStart,
         CancelUpstream, CancelDone, GetNothing, GetMessage, GetEmpty, HandlerFail, ProxyClose,
         clientVars
<1>3. CASE MainExit \/ UNCHANGED vars \/ \E u \in Upstream : BrokerCloseChannel(u)
  BY <1>3 DEF MainExit, BrokerCloseChannel, vars, clientVars
<1>4. CASE ClientGone
  BY <1>4, Zenon DEF ClientGone
<1>5. CASE \E k \in Consumer, u \in Upstream :
             BrokerDeliver(k, u) \/ BrokerCancel(k, u) \/ GoNext(k, u)
  BY <1>5 DEF BrokerDeliver, BrokerCancel, GoNext, GoRecv, GoSend, GoEnd, clientVars
<1>6. QED
  BY <1>1, <1>2, <1>3, <1>4, <1>5 DEF Next

\* Message t of upstream u of session s is with a goroutine of its consumer, in the
\* queue for it, or with the client, unless the consumer's context is cancelled.
Accounted(s, u, t) ==
  \/ \E k \in Consumer : consOf[k] = s /\ (ctx2[k] \/ Queued(k, u, t) \/ InHand(k, u, t))
  \/ Given(s, u, t)

\* What was written to the client stays written.
LEMMA ReceivedGrows == IInv /\ [Next]_vars => received \subseteq received'
<1>1. ASSUME NEW v \in Upstream, GetMessage(v) PROVE received \subseteq received'
  BY <1>1, Zenon DEF GetMessage
<1>2. QED
  BY <1>1, StepMoves
     DEF Moves, Rests, Closes, BasicConsume, ConsumeStart, Settles, Answer, BrokerDeliver, GoRecv,
         GoSend, GoEnd, clientVars

\* A consumer stays in its session.
LEMMA SameSession ==
  ASSUME IInv, OrderInv, [Next]_vars, NEW k \in Consumer, consOf[k] \in Session
  PROVE  consOf'[k] = consOf[k]
<1>1. UNCHANGED consOf \/ BasicConsume
  BY StepMoves
     DEF Moves, Rests, Closes, ConsumeStart, GetMessage, Settles, Answer, BrokerDeliver, GoRecv,
         GoSend, GoEnd, mainVars
<1>2. CASE BasicConsume
  <2>1. /\ consumes \in Nat /\ k \in Nat /\ DOMAIN consOf = Consumer
        /\ consOf' = [consOf EXCEPT ![consumes + 1] = session]
    BY <1>2, DeliveryAssumption DEF BasicConsume, IInv, TypeOK, TypeMain, Consumer
  <2>2. consOf[k] # 0
    BY DEF Session
  <2>3. k # consumes + 1
    BY <2>1, <2>2 DEF OrderInv, Unborn
  <2>4. QED
    BY <2>1, <2>3
<1>3. QED
  BY <1>1, <1>2

\* A message stays accounted for unless its channel is closed.
LEMMA AccountedStep ==
  ASSUME IInv, StartInv, OrderInv, [Next]_vars,
         NEW s \in Session, NEW u \in Upstream, NEW t \in MsgTag,
         Accounted(s, u, t)
  PROVE  \/ Accounted(s, u, t)'
         \/ \E us \in SUBSET Upstream : Closes(us) /\ u \in us /\ s = session
<1>0. /\ TypeMain /\ TypeGo /\ DOMAIN consOf = Consumer
      /\ DOMAIN ctx2 = Consumer
  BY DEF IInv, TypeOK, TypeMain, TypeGo
<1>1. received \subseteq received'
  BY ReceivedGrows
<1>2. CASE Given(s, u, t)
  BY <1>1, <1>2, Zenon DEF Given, Accounted
<1>3. ASSUME NEW k \in Consumer, consOf[k] = s,
             ctx2[k] \/ Queued(k, u, t) \/ InHand(k, u, t)
      PROVE  \/ Accounted(s, u, t)'
             \/ \E us \in SUBSET Upstream : Closes(us) /\ u \in us /\ s = session
  <2>1. consOf'[k] = s
    BY <1>3, SameSession
  <2>2. CASE ctx2[k]
    <3>1. UNCHANGED ctx2 \/ \E j : ctx2' = [ctx2 EXCEPT ![j] = TRUE]
      BY StepMoves
         DEF Moves, Rests, Closes, BasicConsume, ConsumeStart, GetMessage, Settles, Answer,
             BrokerDeliver, GoRecv, GoSend, GoEnd, goVars
    <3>2. ctx2'[k]
      <4>1. CASE UNCHANGED ctx2
        BY <2>2, <4>1
      <4>2. ASSUME NEW j, ctx2' = [ctx2 EXCEPT ![j] = TRUE] PROVE ctx2'[k]
        <5>1. CASE j = k
          BY <1>0, <4>2, <5>1
        <5>2. CASE j # k
          BY <1>0, <2>2, <4>2, <5>2
        <5>3. QED
          BY <5>1, <5>2
      <4>3. QED
        BY <3>1, <4>1, <4>2
    <3>3. QED
      BY <2>1, <3>2, Zenon DEF Accounted
  <2>3. CASE Queued(k, u, t) \/ InHand(k, u, t)
    <3>1. \/ (Queued(k, u, t) \/ InHand(k, u, t))'
          \/ GoSend(k, u) /\ hold[k][u] = t
          \/ GoEnd(k, u)
          \/ \E us \in SUBSET Upstream : Closes(us) /\ u \in us /\ consOf[k] = session
      BY <2>3, HeldStep, Zenon
    <3>2. CASE (Queued(k, u, t) \/ InHand(k, u, t))'
      BY <2>1, <3>2, Zenon DEF Accounted
    <3>3. CASE GoSend(k, u) /\ hold[k][u] = t
      <4>1. Written(consOf[k], u, hold[k][u], k) \in received'
        BY <3>3, Zenon DEF GoSend
      <4>2. PICK w \in received' : w = Written(consOf[k], u, hold[k][u], k)
        BY <4>1
      <4>3. w.os = s /\ w.u = u /\ w.t = t
        BY <1>3, <3>3, <4>2, WrittenParts
      <4>4. Given(s, u, t)'
        BY <4>3 DEF Given
      <4>5. QED
        BY <4>4, Zenon DEF Accounted
    <3>4. CASE GoEnd(k, u)
      <4>1. ctx2'[k]
        BY <1>0, <3>4 DEF GoEnd
      <4>2. QED
        BY <2>1, <4>1, Zenon DEF Accounted
    <3>5. QED
      BY <1>3, <3>1, <3>2, <3>3, <3>4, Zenon
  <2>4. QED
    BY <1>3, <2>2, <2>3, Zenon
<1>4. QED
  BY <1>2, <1>3, Zenon DEF Accounted

\* What the brokers wait for is accounted for while the client is there.
AccountInv ==
  alive => \A s \in Session, u \in Upstream : \A t \in unacked[s][u] : Accounted(s, u, t)

\* Every message the brokers wait for stays accounted for.
LEMMA AccountStep == IInv /\ StartInv /\ OrderInv /\ AccountInv /\ [Next]_vars => AccountInv'
<1> SUFFICES ASSUME IInv, StartInv, OrderInv, AccountInv, [Next]_vars, alive',
                    NEW s \in Session, NEW u \in Upstream, NEW t \in unacked'[s][u]
             PROVE  Accounted(s, u, t)'
  BY DEF AccountInv
<1>0. TypeLib /\ TypeGo /\ GoInv /\ LoopInv /\ TypeLib'
  BY TypeLibStep DEF IInv, TypeOK
<1>1. alive
  BY GoneStays, Zenon
<1>2. t \in MsgTag
  BY <1>0 DEF TypeLib
<1>3. ASSUME t \in unacked[s][u], \A us \in SUBSET Upstream : Closes(us) => ~(u \in us /\ s = session)
      PROVE  Accounted(s, u, t)'
  <2>1. Accounted(s, u, t)
    BY <1>1, <1>3, Zenon DEF AccountInv
  <2>2. QED
    BY <1>2, <1>3, <2>1, AccountedStep, Zenon
<1>4. \A us \in SUBSET Upstream : Closes(us) => ~(u \in us /\ s = session)
  BY <1>0, ClosesEffect
<1>5. CASE t \in unacked[s][u]
  BY <1>3, <1>4, <1>5
<1>6. ASSUME t \notin unacked[s][u], NEW v \in Upstream, GetMessage(v)
      PROVE  Accounted(s, u, t)'
  <2> DEFINE w == Written(session, v, last[session][v] + 1, ByGet)
  <2>1. session \in Session
    BY <1>0, <1>6 DEF GetMessage, LoopInv
  <2>2. s = session /\ u = v /\ t = last[session][v] + 1
    BY <1>0, <1>6, <2>1 DEF GetMessage, TypeLib
  <2>3. w \in received'
    BY <1>1, <1>6, Zenon DEF GetMessage
  <2>4. w.os = s /\ w.u = u /\ w.t = t
    BY <2>2, WrittenParts
  <2>5. QED
    BY <2>3, <2>4, Zenon DEF Accounted, Given
<1>7. ASSUME t \notin unacked[s][u], NEW k \in Consumer, NEW v \in Upstream, BrokerDeliver(k, v)
      PROVE  Accounted(s, u, t)'
  <2>1. consOf[k] \in Session
    BY <1>0, <1>7 DEF BrokerDeliver, GoInv
  <2>2. s = consOf[k] /\ u = v /\ t = last[consOf[k]][v] + 1
    BY <1>0, <1>7, <2>1 DEF BrokerDeliver, TypeLib
  <2> DEFINE b == buf[k][u]
             c == buf'[k][u]
  <2>3. c = Append(b, t) /\ UNCHANGED consOf
    BY <1>0, <1>7, <2>2 DEF BrokerDeliver, TypeLib, mainVars
  <2>4. b \in Seq(MsgTag)
    BY <1>0 DEF TypeLib
  <2> HIDE DEF b, c
  <2>5. \E n \in 1 .. Len(c) : c[n] = t
    <3>1. Len(b) + 1 \in 1 .. Len(c) /\ c[Len(b) + 1] = t
      BY <2>3, <2>4
    <3>2. QED
      BY <3>1
  <2>6. Queued(k, u, t)'
    BY <2>5 DEF Queued, c
  <2>7. consOf'[k] = s
    BY <2>2, <2>3
  <2>8. QED
    BY <2>6, <2>7, Zenon DEF Accounted
<1>8. CASE t \notin unacked[s][u]
  <2>1. ASSUME Rests \/ BasicConsume \/ ConsumeStart PROVE FALSE
    BY <1>8, <2>1 DEF Rests, BasicConsume, ConsumeStart, libVars
  <2>2. ASSUME NEW us \in SUBSET Upstream, Closes(us) PROVE FALSE
    BY <1>0, <1>8, <2>2, ClosesEffect
  <2>3. ASSUME NEW d \in received, NEW multiple \in BOOLEAN, Settles(d, multiple) PROVE FALSE
    <3>1. PICK v, c : unacked' = [unacked EXCEPT ![session][v] = @ \ c]
      BY <2>3 DEF Settles, AnswerSettles
    <3>2. unacked'[s][u] \subseteq unacked[s][u]
      BY <1>0, <3>1 DEF TypeLib
    <3>3. QED
      BY <1>8, <3>2
  <2>4. ASSUME NEW k \in Consumer, NEW v \in Upstream, GoRecv(k, v) \/ GoSend(k, v) \/ GoEnd(k, v)
        PROVE  FALSE
    BY <1>8, <2>4 DEF GoRecv, GoSend, GoEnd, libVars
  <2>5. QED
    BY <1>6, <1>7, <1>8, <2>1, <2>2, <2>3, <2>4, StepMoves DEF Moves
<1>9. QED
  BY <1>5, <1>8

\* No message is forgotten, for any number of sessions, consumers and messages: while
\* the client is there, one that a broker delivered and that is not settled is in the
\* library's queue, with a goroutine or with the client, or its consumer was given up.
THEOREM NoMessageForgotten == Spec => []UnackedAccounted
<1>1. Init => AccountInv
  BY DEF Init, AccountInv
<1>2. IInv /\ StartInv /\ OkBeforeDelivery /\ OrderInv /\ AccountInv /\ [Next]_vars => AccountInv'
  BY AccountStep
<1>3. AccountInv => UnackedAccounted
  BY DEF AccountInv, UnackedAccounted, Accounted, Queued, InHand, Given
<1>4. QED
  BY <1>1, <1>2, <1>3, WayAlways, PTL DEF Spec

-----------------------------------------------------------------------------
(* Why no answer is refused.                                               *)

Holds(k, u, t) == Queued(k, u, t) \/ InHand(k, u, t)

\* A message is in one place: written once to the client, or with one consumer.
UniqueInv ==
  /\ refused \subseteq received
  /\ \A d \in received : d.os <= d.s /\ d.s <= session /\ d.t <= last[d.os][d.u]
  /\ \A d, x \in received : d.os = x.os /\ d.u = x.u /\ d.t = x.t => d = x
  /\ \A k \in Consumer, u \in Upstream, t \in MsgTag : Holds(k, u, t) =>
       /\ \A d \in received : ~(d.os = consOf[k] /\ d.u = u /\ d.t = t)
       /\ \A j \in Consumer : consOf[j] = consOf[k] /\ Holds(j, u, t) => j = k

\* A consumer that holds a message was made, and the broker had numbered the message.
LEMMA HolderIs ==
  ASSUME IInv, OrderInv, NEW k \in Consumer, NEW u \in Upstream, NEW t \in MsgTag, Holds(k, u, t)
  PROVE  /\ k <= consumes /\ consOf[k] \in Session /\ consOf[k] <= session
         /\ t <= last[consOf[k]][u]
<1>1. k \in Nat /\ consumes \in Nat /\ GoInv
  BY DeliveryAssumption DEF IInv, TypeOK, TypeMain, Consumer
<1>2. k <= consumes
  <2> SUFFICES ASSUME k > consumes PROVE FALSE
    BY <1>1
  <2>1. buf[k][u] = <<>> /\ gpc[k][u] = "none"
    BY <1>1 DEF OrderInv, Unborn, GoInv
  <2>2. QED
    BY <2>1 DEF Holds, Queued, InHand
<1>3. Ordered(k, u) /\ consOf[k] <= session /\ consOf[k] \in Session
  BY <1>1, <1>2 DEF OrderInv, GoInv
<1>4. t <= last[consOf[k]][u]
  BY <1>3 DEF Ordered, Holds, Queued, InHand
<1>5. QED
  BY <1>2, <1>3, <1>4

\* The numbering of a channel goes up.
LEMMA LastGrows ==
  ASSUME IInv, [Next]_vars, NEW s \in Session, NEW u \in Upstream
  PROVE  last[s][u] \in Nat /\ last'[s][u] \in Nat /\ last[s][u] <= last'[s][u]
<1>0. TypeLib /\ GoInv /\ LoopInv /\ last[s][u] \in Nat
  BY DeliveryAssumption DEF IInv, TypeOK, TypeLib
<1>1. CASE UNCHANGED last
  BY <1>0, <1>1
<1>2. ASSUME NEW o \in Session, NEW v \in Upstream, last' = [last EXCEPT ![o][v] = last[o][v] + 1]
      PROVE  last'[s][u] \in Nat /\ last[s][u] <= last'[s][u]
  BY <1>0, <1>2 DEF TypeLib
<1>3. ASSUME NEW v \in Upstream, GetMessage(v)
      PROVE  last'[s][u] \in Nat /\ last[s][u] <= last'[s][u]
  BY <1>0, <1>2, <1>3 DEF GetMessage, LoopInv
<1>4. ASSUME NEW k \in Consumer, NEW v \in Upstream, BrokerDeliver(k, v)
      PROVE  last'[s][u] \in Nat /\ last[s][u] <= last'[s][u]
  <2>1. consOf[k] \in Session
    BY <1>0, <1>4 DEF BrokerDeliver, GoInv
  <2>2. QED
    BY <1>2, <1>4, <2>1 DEF BrokerDeliver
<1>5. QED
  BY <1>0, <1>1, <1>3, <1>4, StepMoves
     DEF Moves, Rests, Closes, CloseLib, BasicConsume, ConsumeStart, Settles, AnswerSettles, GoRecv,
         GoSend, GoEnd, libVars

\* A step delivers to one consumer.
LEMMA OneDelivers ==
  ASSUME IInv, NEW k \in Consumer, NEW u \in Upstream, BrokerDeliver(k, u),
         NEW j \in Consumer, NEW v \in Upstream, BrokerDeliver(j, v)
  PROVE  j = k /\ v = u
<1> SUFFICES ASSUME ~(j = k /\ v = u) PROVE FALSE
  OBVIOUS
<1> DEFINE b == buf[j][v]
<1>1. TypeLib
  BY DEF IInv, TypeOK
<1>2. buf'[j][v] = b
  BY <1>1 DEF BrokerDeliver, TypeLib
<1>3. PICK t : buf'[j][v] = Append(b, t)
  BY <1>1 DEF BrokerDeliver, TypeLib
<1>4. b \in Seq(MsgTag)
  BY <1>1 DEF TypeLib
<1> HIDE DEF b
<1>5. Len(Append(b, t)) = Len(b) + 1 /\ Len(b) \in Nat
  BY <1>4
<1>6. QED
  BY <1>2, <1>3, <1>5

\* What a consumer holds after a step it held before, or a broker has just sent it under
\* the next number of its channel.
LEMMA HolderWas ==
  ASSUME IInv, StartInv, OrderInv, [Next]_vars,
         NEW k \in Consumer, NEW u \in Upstream, NEW t \in MsgTag, Holds(k, u, t)'
  PROVE  /\ consOf[k] \in Session /\ consOf'[k] = consOf[k]
         /\ \/ Holds(k, u, t) /\ t <= last[consOf[k]][u]
            \/ BrokerDeliver(k, u) /\ t = last[consOf[k]][u] + 1
<1>1. Holds(k, u, t) \/ (BrokerDeliver(k, u) /\ t = last[consOf[k]][u] + 1)
  BY HeldStep, Zenon DEF Holds
<1>2. CASE Holds(k, u, t)
  BY <1>2, HolderIs, SameSession
<1>3. CASE BrokerDeliver(k, u) /\ t = last[consOf[k]][u] + 1
  <2>1. consOf[k] \in Session
    BY <1>3 DEF BrokerDeliver, IInv, GoInv
  <2>2. QED
    BY <1>3, <2>1, SameSession
<1>4. QED
  BY <1>1, <1>2, <1>3

\* A step writes at most one message, which nobody holds any more and which the client
\* did not have.
LEMMA WritesFresh ==
  ASSUME IInv, StartInv, OrderInv, UniqueInv, [Next]_vars
  PROVE  \/ received' = received
         \/ \E w \in Delivery :
              /\ received' = received \cup {w}
              /\ w.os <= w.s /\ w.s <= session' /\ w.t <= last'[w.os][w.u]
              /\ \A x \in received : ~(x.os = w.os /\ x.u = w.u /\ x.t = w.t)
              /\ \A k \in Consumer : Holds(k, w.u, w.t)' => consOf'[k] # w.os
<1>0. /\ TypeLib /\ TypeGo /\ LoopInv /\ GoInv /\ TypeClient /\ TypeClient' /\ session \in Nat
      /\ \A s \in Session, u \in Upstream : last[s][u] \in Nat
  BY TypeClientStep, DeliveryAssumption DEF IInv, TypeOK, TypeMain, TypeLib
<1>1. ASSUME NEW v \in Upstream, GetMessage(v), received' # received
      PROVE  \E w \in Delivery :
               /\ received' = received \cup {w}
               /\ w.os <= w.s /\ w.s <= session' /\ w.t <= last'[w.os][w.u]
               /\ \A x \in received : ~(x.os = w.os /\ x.u = w.u /\ x.t = w.t)
               /\ \A k \in Consumer : Holds(k, w.u, w.t)' => consOf'[k] # w.os
  <2> DEFINE l == last[session][v]
  <2>1. session \in Session /\ session' = session /\ l \in Nat
    BY <1>0, <1>1 DEF GetMessage, LoopInv
  <2>2. PICK w : w = Written(session, v, l + 1, ByGet)
    OBVIOUS
  <2>3. w.os = session /\ w.u = v /\ w.t = l + 1 /\ w.s = session
    BY <2>2, WrittenParts
  <2>4. received' = received \cup {w}
    BY <1>1, <2>2, Zenon DEF GetMessage
  <2>5. w \in Delivery /\ w.t \in MsgTag
    BY <1>0, <2>4 DEF TypeClient, Delivery
  <2>6. last'[w.os][w.u] = l + 1
    BY <1>0, <1>1, <2>1, <2>3 DEF GetMessage, TypeLib
  <2>7. ASSUME NEW x \in received, x.os = w.os, x.u = w.u, x.t = w.t PROVE FALSE
    BY <2>1, <2>3, <2>7 DEF UniqueInv
  <2>8. ASSUME NEW k \in Consumer, Holds(k, w.u, w.t)', consOf'[k] = w.os PROVE FALSE
    <3>1. ~BrokerDeliver(k, v)
      BY <1>1 DEF GetMessage, BrokerDeliver, mainVars
    <3>2. consOf[k] = session /\ w.t <= last[consOf[k]][v]
      BY <2>3, <2>5, <2>8, <3>1, HolderWas
    <3>3. QED
      BY <2>1, <2>3, <3>2
  <2>9. w.os <= w.s /\ w.s <= session' /\ w.t <= last'[w.os][w.u]
    BY <1>0, <2>1, <2>3, <2>6
  <2>10. QED
    BY <2>4, <2>5, <2>7, <2>8, <2>9, Zenon
<1>2. ASSUME NEW j \in Consumer, NEW v \in Upstream, GoSend(j, v)
      PROVE  \E w \in Delivery :
               /\ received' = received \cup {w}
               /\ w.os <= w.s /\ w.s <= session' /\ w.t <= last'[w.os][w.u]
               /\ \A x \in received : ~(x.os = w.os /\ x.u = w.u /\ x.t = w.t)
               /\ \A k \in Consumer : Holds(k, w.u, w.t)' => consOf'[k] # w.os
  <2> DEFINE h == hold[j][v]
  <2>1. /\ h \in MsgTag /\ Holds(j, v, h) /\ gpc[j][v] = "send"
        /\ UNCHANGED <<session, consumes, consOf, last, buf>>
    BY <1>0, <1>2 DEF GoSend, GoInv, Holds, InHand, mainVars, libVars
  <2>2. /\ j <= consumes /\ consOf[j] \in Session /\ consOf[j] <= session
        /\ h <= last[consOf[j]][v]
    BY <2>1, HolderIs
  <2>3. PICK w : w = Written(consOf[j], v, h, j)
    OBVIOUS
  <2>4. w.os = consOf[j] /\ w.u = v /\ w.t = h /\ w.s = session
    BY <2>3, WrittenParts
  <2>5. received' = received \cup {w}
    BY <1>2, <2>3, Zenon DEF GoSend
  <2>6. w \in Delivery
    BY <1>0, <2>5 DEF TypeClient
  <2>7. ASSUME NEW x \in received, x.os = w.os, x.u = w.u, x.t = w.t PROVE FALSE
    BY <2>1, <2>4, <2>7 DEF UniqueInv
  <2>8. ASSUME NEW k \in Consumer, Holds(k, w.u, w.t)', consOf'[k] = w.os PROVE FALSE
    <3>1. gpc'[j][v] = "recv"
      BY <1>0, <1>2 DEF GoSend, TypeGo
    <3>2. ~BrokerDeliver(k, v)
      BY <2>1, <3>1 DEF BrokerDeliver, goVars
    <3>3. Holds(k, v, h) /\ consOf[k] = consOf[j]
      BY <2>1, <2>4, <2>8, <3>2, HolderWas
    <3>4. j = k
      BY <2>1, <3>3 DEF UniqueInv
    <3>5. \E n \in 1 .. Len(buf[j][v]) : buf[j][v][n] = h
      BY <2>1, <2>4, <2>8, <3>1, <3>4 DEF Holds, Queued, InHand
    <3>6. Ordered(j, v)
      BY <2>2 DEF OrderInv
    <3>7. \A n \in 1 .. Len(buf[j][v]) : h < buf[j][v][n]
      BY <2>1, <3>6 DEF Ordered
    <3>8. h \in Nat
      BY <2>1 DEF MsgTag
    <3>9. QED
      BY <3>5, <3>7, <3>8
  <2>9. QED
    BY <1>0, <2>1, <2>2, <2>4, <2>5, <2>6, <2>7, <2>8
<1>3. QED
  BY <1>1, <1>2, StepMoves
     DEF Moves, Rests, Closes, BasicConsume, ConsumeStart, Settles, Answer, BrokerDeliver, GoRecv,
         GoEnd, clientVars

\* A message stays in one place.
LEMMA UniqueStep == IInv /\ StartInv /\ OrderInv /\ UniqueInv /\ [Next]_vars => UniqueInv'
<1> SUFFICES ASSUME IInv, StartInv, OrderInv, UniqueInv, [Next]_vars PROVE UniqueInv'
  OBVIOUS
<1>0. /\ TypeLib /\ session \in Nat
      /\ \A d \in received : d.os \in Session /\ d.u \in Upstream /\ d.t \in Nat /\ d.s \in Nat
      /\ \A t \in MsgTag : t \in Nat
  BY DeliveryAssumption DEF IInv, TypeOK, TypeMain, TypeClient, Delivery, MsgTag
<1>1. session' \in Nat /\ session <= session'
  <2>1. session' \in Nat
    BY TypeMainStep, DeliveryAssumption DEF IInv, TypeOK, TypeMain
  <2>2. UNCHANGED session \/ Rests
    BY StepMoves
       DEF Moves, Closes, BasicConsume, ConsumeStart, GetMessage, Settles, Answer, BrokerDeliver,
           GoRecv, GoSend, GoEnd, mainVars
  <2>3. QED
    BY <1>0, <2>1, <2>2 DEF Rests
<1>2. ASSUME NEW d \in received PROVE d.os <= d.s /\ d.s <= session' /\ d.t <= last'[d.os][d.u]
  <2>1. d.os <= d.s /\ d.s <= session /\ d.t <= last[d.os][d.u]
    BY DEF UniqueInv
  <2>2. last[d.os][d.u] \in Nat /\ last'[d.os][d.u] \in Nat /\ last[d.os][d.u] <= last'[d.os][d.u]
    BY <1>0, LastGrows
  <2>3. QED
    BY <1>0, <1>1, <2>1, <2>2
<1>3. ASSUME NEW k \in Consumer, NEW u \in Upstream, NEW t \in MsgTag, Holds(k, u, t)',
             NEW d \in received, d.os = consOf'[k], d.u = u, d.t = t
      PROVE  FALSE
  <2>1. /\ consOf[k] \in Session /\ consOf'[k] = consOf[k]
        /\ Holds(k, u, t) \/ t = last[consOf[k]][u] + 1
    BY <1>3, HolderWas
  <2>2. t <= last[consOf[k]][u] /\ last[consOf[k]][u] \in Nat
    BY <1>3, <2>1, LastGrows DEF UniqueInv
  <2>3. Holds(k, u, t)
    BY <1>0, <2>1, <2>2
  <2>4. QED
    BY <1>3, <2>1, <2>3 DEF UniqueInv
<1>4. ASSUME NEW k \in Consumer, NEW u \in Upstream, NEW t \in MsgTag, Holds(k, u, t)',
             NEW j \in Consumer, Holds(j, u, t)', consOf'[j] = consOf'[k]
      PROVE  j = k
  <2>1. /\ consOf[k] \in Session /\ consOf'[k] = consOf[k]
        /\ \/ Holds(k, u, t) /\ t <= last[consOf[k]][u]
           \/ BrokerDeliver(k, u) /\ t = last[consOf[k]][u] + 1
    BY <1>4, HolderWas
  <2>2. /\ consOf[j] \in Session /\ consOf'[j] = consOf[j]
        /\ \/ Holds(j, u, t) /\ t <= last[consOf[j]][u]
           \/ BrokerDeliver(j, u) /\ t = last[consOf[j]][u] + 1
    BY <1>4, HolderWas
  <2>3. consOf[j] = consOf[k] /\ last[consOf[k]][u] \in Nat
    BY <1>4, <2>1, <2>2, LastGrows
  <2>4. CASE Holds(k, u, t) /\ Holds(j, u, t)
    BY <2>3, <2>4 DEF UniqueInv
  <2>5. CASE BrokerDeliver(k, u) /\ BrokerDeliver(j, u)
    BY <2>5, OneDelivers
  <2>6. QED
    BY <1>0, <2>1, <2>2, <2>3, <2>4, <2>5
<1>5. refused' \subseteq received'
  <2>1. refused \subseteq received /\ received \subseteq received'
    BY ReceivedGrows DEF UniqueInv
  <2>2. ASSUME NEW us \in SUBSET Upstream, Closes(us) PROVE refused' \subseteq received'
    <3>1. CASE refused' = refused
      BY <2>1, <3>1
    <3>2. ASSUME NEW d \in received, AnswerRefused(d, RestoreIndex(d.tag), RestoreTag(d.tag))
          PROVE  refused' \subseteq received'
      BY <2>1, <3>2, Zenon DEF AnswerRefused
    <3>3. QED
      BY <2>2, <3>1, <3>2, Zenon DEF Closes
  <2>3. refused' = refused \/ \E us \in SUBSET Upstream : Closes(us)
    BY StepMoves
       DEF Moves, Rests, BasicConsume, ConsumeStart, GetMessage, Settles, AnswerSettles,
           BrokerDeliver, GoRecv, GoSend, GoEnd, clientVars
  <2>4. QED
    BY <2>1, <2>2, <2>3
<1>6. CASE received' = received
  BY <1>2, <1>3, <1>4, <1>5, <1>6 DEF UniqueInv
<1>7. ASSUME NEW w \in Delivery, received' = received \cup {w},
             w.os <= w.s /\ w.s <= session' /\ w.t <= last'[w.os][w.u],
             \A x \in received : ~(x.os = w.os /\ x.u = w.u /\ x.t = w.t),
             \A k \in Consumer : Holds(k, w.u, w.t)' => consOf'[k] # w.os
      PROVE  UniqueInv'
  <2>1. \A d \in received' : d.os <= d.s /\ d.s <= session' /\ d.t <= last'[d.os][d.u]
    BY <1>2, <1>7
  <2>2. \A d, x \in received' : d.os = x.os /\ d.u = x.u /\ d.t = x.t => d = x
    BY <1>7 DEF UniqueInv
  <2>3. ASSUME NEW k \in Consumer, NEW u \in Upstream, NEW t \in MsgTag, Holds(k, u, t)',
               NEW d \in received', d.os = consOf'[k], d.u = u, d.t = t
        PROVE  FALSE
    BY <1>3, <1>7, <2>3
  <2>4. QED
    BY <1>4, <1>5, <2>1, <2>2, <2>3 DEF UniqueInv
<1>8. QED
  BY <1>6, <1>7, WritesFresh

\* No delivery of an earlier session was written to the client in session s.
TimelyIn(s) == \A d \in received : d.s = s => Timely(d)

\* Message t of upstream u of session s is to be answered yet.
Waiting(s, u, t) ==
  \/ \E k \in Consumer : consOf[k] = s /\ Holds(k, u, t)
  \/ \E d \in received \ answered : d.os = s /\ d.u = u /\ d.t = t

\* In a session without late deliveries the brokers wait for every message the client
\* has yet to answer, and have refused no answer.
OpenInv ==
  \A s \in Session : TimelyIn(s) =>
    /\ \A u \in Upstream, t \in MsgTag :
         Waiting(s, u, t) /\ chOpen[s][u] => t \in unacked[s][u]
    /\ \A d \in refused : d.s # s

\* What waits for an answer after a step waited before, or is a broker's next message.
LEMMA WaitingWas ==
  ASSUME IInv, StartInv, OrderInv, UniqueInv, [Next]_vars,
         NEW s \in Session, NEW u \in Upstream, NEW t \in MsgTag, Waiting(s, u, t)'
  PROVE  \/ Waiting(s, u, t) /\ s <= session
         \/ \E k \in Consumer :
              BrokerDeliver(k, u) /\ consOf[k] = s /\ t = last[s][u] + 1
         \/ GetMessage(u) /\ s = session /\ t = last[s][u] + 1
<1> DEFINE Goal == \/ Waiting(s, u, t) /\ s <= session
                   \/ \E k \in Consumer :
                        BrokerDeliver(k, u) /\ consOf[k] = s /\ t = last[s][u] + 1
                   \/ GetMessage(u) /\ s = session /\ t = last[s][u] + 1
<1>0. /\ \A d \in received : d.os \in Nat /\ d.s \in Nat
      /\ session \in Nat
  BY DeliveryAssumption DEF IInv, TypeOK, TypeMain, TypeClient, Delivery, Session
<1>1. ASSUME Waiting(s, u, t) PROVE s <= session
  <2>1. ASSUME NEW k \in Consumer, consOf[k] = s, Holds(k, u, t) PROVE s <= session
    BY <2>1, HolderIs
  <2>2. ASSUME NEW d \in received, d.os = s PROVE s <= session
    <3>1. d.os <= d.s /\ d.s <= session
      BY DEF UniqueInv
    <3>2. QED
      BY <1>0, <2>2, <3>1
  <2>3. QED
    BY <1>1, <2>1, <2>2 DEF Waiting
<1>2. answered \subseteq answered'
  BY StepMoves
     DEF Moves, Rests, Closes, BasicConsume, ConsumeStart, GetMessage, Settles, Answer,
         BrokerDeliver, GoRecv, GoSend, GoEnd, clientVars
<1>3. ASSUME NEW k \in Consumer, consOf'[k] = s, Holds(k, u, t)' PROVE Goal
  <2>1. consOf[k] = s /\ (Holds(k, u, t) \/ (BrokerDeliver(k, u) /\ t = last[s][u] + 1))
    BY <1>3, HolderWas
  <2>2. CASE Holds(k, u, t)
    <3>1. Waiting(s, u, t)
      BY <2>1, <2>2, Zenon DEF Waiting
    <3>2. QED
      BY <1>1, <3>1
  <2>3. QED
    BY <2>1, <2>2, Zenon
<1>4. ASSUME NEW d \in received' \ answered', d.os = s, d.u = u, d.t = t PROVE Goal
  <2>1. CASE d \in received
    <3>1. Waiting(s, u, t)
      BY <1>2, <1>4, <2>1 DEF Waiting
    <3>2. QED
      BY <1>1, <3>1
  <2>2. ASSUME d \notin received, NEW v \in Upstream, GetMessage(v) PROVE Goal
    <3>1. d = Written(session, v, last[session][v] + 1, ByGet)
      BY <1>4, <2>2, Zenon DEF GetMessage
    <3>2. s = session /\ u = v /\ t = last[session][v] + 1
      BY <1>4, <3>1, WrittenParts
    <3>3. QED
      BY <2>2, <3>2, Zenon
  <2>3. ASSUME d \notin received, NEW j \in Consumer, NEW v \in Upstream, GoSend(j, v) PROVE Goal
    <3>1. d = Written(consOf[j], v, hold[j][v], j) /\ gpc[j][v] = "send"
      BY <1>4, <2>3, Zenon DEF GoSend
    <3>2. consOf[j] = s /\ u = v /\ t = hold[j][v]
      BY <1>4, <3>1, WrittenParts
    <3>3. Holds(j, u, t)
      BY <3>1, <3>2 DEF Holds, InHand
    <3>4. Waiting(s, u, t)
      BY <3>2, <3>3, Zenon DEF Waiting
    <3>5. QED
      BY <1>1, <3>4
  <2>4. \/ received' = received
        \/ \E v \in Upstream : GetMessage(v)
        \/ \E j \in Consumer, v \in Upstream : GoSend(j, v)
    BY StepMoves
       DEF Moves, Rests, Closes, BasicConsume, ConsumeStart, Settles, Answer, BrokerDeliver, GoRecv,
           GoEnd, clientVars
  <2>5. QED
    BY <1>4, <2>1, <2>2, <2>3, <2>4, Zenon
<1>5. QED
  BY <1>3, <1>4, Zenon DEF Waiting

\* The answer to a delivery made in time goes to its message.
LEMMA AnswerFinds ==
  ASSUME IInv, NEW d \in received, NEW multiple \in BOOLEAN, Answer(d, multiple),
         TimelyIn(session)
  PROVE  /\ session \in Session /\ d.s = session /\ d.os = session /\ d \notin answered
         /\ d \in answered'
         /\ d.u \in Upstream /\ d.t \in MsgTag
         /\ RestoreIndex(d.tag) = d.u /\ RestoreTag(d.tag) = d.t
<1>1. d \in Delivery /\ d.tag = Tag(d.t, d.u)
  BY DEF IInv, TypeOK, TypeClient, TagInv
<1>2. d.u \in Upstream /\ d.t \in MsgTag /\ d.t \in Nat
  BY <1>1 DEF Delivery, MsgTag
<1>3. d \notin answered /\ d \in answered' /\ d.s = session /\ hasChan
  BY DEF Answer
<1>4. d.os = session
  BY <1>3 DEF TimelyIn, Timely
<1>5. QED
  BY <1>1, <1>2, <1>3, <1>4, RestoreOfTag DEF IInv, LoopInv

\* The brokers go on waiting for what the client has yet to answer.
LEMMA OpenStep ==
  ASSUME IInv, StartInv, OrderInv, UniqueInv, OpenInv, ~Multiple, [Next]_vars
  PROVE  OpenInv'
<1> SUFFICES ASSUME NEW s \in Session, TimelyIn(s)'
             PROVE  /\ \A u \in Upstream, t \in MsgTag :
                         Waiting(s, u, t)' /\ chOpen'[s][u] => t \in unacked'[s][u]
                    /\ \A d \in refused' : d.s # s
  BY DEF OpenInv
<1>0. TypeLib /\ TypeMain /\ GoInv /\ LoopInv
  BY DEF IInv, TypeOK
<1>1. TimelyIn(s)
  BY ReceivedGrows DEF TimelyIn
<1>2. UniqueInv'
  BY UniqueStep
<1>3. ASSUME NEW d \in received, NEW multiple \in BOOLEAN, Answer(d, multiple), s = session,
             AnswerRefused(d, RestoreIndex(d.tag), RestoreTag(d.tag))
      PROVE  FALSE
  <2>1. /\ session \in Session /\ d.os = session /\ d \notin answered
        /\ d.u \in Upstream /\ d.t \in MsgTag
        /\ RestoreIndex(d.tag) = d.u /\ RestoreTag(d.tag) = d.t
    BY <1>1, <1>3, AnswerFinds
  <2>2. Waiting(session, d.u, d.t)
    BY <2>1 DEF Waiting
  <2>3. chOpen[session][d.u] /\ d.t \notin unacked[session][d.u]
    BY <1>3, <2>1 DEF AnswerRefused
  <2>4. QED
    BY <1>1, <1>3, <2>1, <2>2, <2>3 DEF OpenInv
<1>4. \A d \in refused' : d.s # s
  <2>1. \A d \in refused : d.s # s
    BY <1>1 DEF OpenInv
  <2>2. ASSUME NEW us \in SUBSET Upstream, Closes(us) PROVE \A d \in refused' : d.s # s
    <3>1. CASE refused' = refused
      BY <2>1, <3>1
    <3>2. ASSUME NEW d \in received, NEW multiple \in BOOLEAN, Answer(d, multiple),
                 AnswerRefused(d, RestoreIndex(d.tag), RestoreTag(d.tag))
          PROVE  \A x \in refused' : x.s # s
      <4>1. s # session
        BY <1>3, <3>2
      <4>2. refused' = refused \cup {d} /\ d.s = session
        BY <3>2, Zenon DEF Answer, AnswerRefused
      <4>3. QED
        BY <2>1, <4>1, <4>2
    <3>3. QED
      BY <2>2, <3>1, <3>2 DEF Closes
  <2>3. QED
    BY <2>1, <2>2, StepMoves
       DEF Moves, Rests, BasicConsume, ConsumeStart, GetMessage, Settles, AnswerSettles,
           BrokerDeliver, GoRecv, GoSend, GoEnd, clientVars
<1>5. ASSUME NEW u \in Upstream, NEW t \in MsgTag, Waiting(s, u, t)', chOpen'[s][u]
      PROVE  t \in unacked'[s][u]
  <2>1. ASSUME NEW k \in Consumer, BrokerDeliver(k, u), consOf[k] = s, t = last[s][u] + 1
        PROVE  t \in unacked'[s][u]
    BY <1>0, <2>1 DEF BrokerDeliver, TypeLib
  <2>2. CASE GetMessage(u) /\ s = session /\ t = last[s][u] + 1
    BY <1>0, <2>2 DEF GetMessage, TypeLib
  <2>3. CASE Waiting(s, u, t) /\ s <= session
    <3>1. ASSUME chOpen[s][u] PROVE t \in unacked[s][u]
      BY <1>1, <2>3, <3>1 DEF OpenInv
    <3>2. CASE Rests
      BY <1>5, <2>3, <3>1, <3>2 DEF Rests
    <3>3. ASSUME NEW us \in SUBSET Upstream, Closes(us) PROVE t \in unacked'[s][u]
      BY <1>0, <1>5, <3>1, <3>3, ClosesEffect
    <3>4. CASE BasicConsume \/ ConsumeStart
      BY <1>5, <3>1, <3>4 DEF BasicConsume, ConsumeStart, libVars
    <3>5. ASSUME NEW v \in Upstream, GetMessage(v) PROVE t \in unacked'[s][u]
      <4>1. t \in unacked[s][u]
        BY <1>5, <3>1, <3>5 DEF GetMessage
      <4>2. QED
        BY <1>0, <3>5, <4>1 DEF GetMessage, TypeLib
    <3>6. ASSUME NEW k \in Consumer, NEW v \in Upstream, BrokerDeliver(k, v)
          PROVE  t \in unacked'[s][u]
      <4>1. t \in unacked[s][u]
        BY <1>5, <3>1, <3>6 DEF BrokerDeliver
      <4>2. QED
        BY <1>0, <3>6, <4>1 DEF BrokerDeliver, TypeLib
    <3>7. ASSUME NEW k \in Consumer, NEW v \in Upstream, GoRecv(k, v) \/ GoSend(k, v) \/ GoEnd(k, v)
          PROVE  t \in unacked'[s][u]
      BY <1>5, <3>1, <3>7 DEF GoRecv, GoSend, GoEnd, libVars
    <3>8. ASSUME NEW d \in received, NEW multiple \in BOOLEAN, Settles(d, multiple)
          PROVE  t \in unacked'[s][u]
      <4> DEFINE v == RestoreIndex(d.tag)
                 c == Covered(v, RestoreTag(d.tag), multiple)
      <4>1. /\ unacked' = [unacked EXCEPT ![session][v] = @ \ c]
            /\ UNCHANGED <<chOpen, received>> /\ Answer(d, multiple) /\ ~multiple
        BY <3>8 DEF Settles, Answer, AnswerSettles
      <4>2. t \in unacked[s][u]
        BY <1>5, <3>1, <4>1
      <4>3. CASE s = session
        <5>1. d.os = s /\ d \in answered' /\ v = d.u /\ RestoreTag(d.tag) = d.t
          BY <1>1, <4>1, <4>3, AnswerFinds
        <5>2. ASSUME d.u = u, d.t = t PROVE FALSE
          BY <1>2, <1>5, <4>1, <5>1, <5>2 DEF Waiting, UniqueInv
        <5>3. u = v => t \notin c
          BY <4>1, <5>1, <5>2 DEF Covered
        <5>4. QED
          BY <1>0, <4>1, <4>2, <5>3 DEF TypeLib
      <4>4. CASE s # session
        BY <1>0, <4>1, <4>2, <4>4 DEF TypeLib
      <4>5. QED
        BY <4>3, <4>4
    <3>9. QED
      BY <3>2, <3>3, <3>4, <3>5, <3>6, <3>7, <3>8, StepMoves DEF Moves
  <2>4. QED
    BY <1>5, <2>1, <2>2, <2>3, WaitingWas, Zenon
<1>6. QED
  BY <1>4, <1>5

\* A client that answers each delivery by itself has an answer refused, and loses its
\* channel, only in a session in which it was given a message of an earlier one.
RefusedNeedsLate == \A d \in refused : \E x \in received : x.s = d.s /\ ~Timely(x)

\* The invariant of an answer that is found where the client was told, without multiple.
LEMMA OpenAlways == ~Multiple => (Spec => [](IInv /\ UniqueInv /\ OpenInv))
<1> SUFFICES ASSUME ~Multiple PROVE Spec => [](IInv /\ UniqueInv /\ OpenInv)
  OBVIOUS
<1>1. Init => UniqueInv /\ OpenInv
  BY DEF Init, UniqueInv, OpenInv, Waiting, Holds, Queued, InHand
<1>2. IInv /\ StartInv /\ OkBeforeDelivery /\ OrderInv /\ UniqueInv /\ OpenInv /\ [Next]_vars
        => (UniqueInv /\ OpenInv)'
  BY UniqueStep, OpenStep
<1>3. QED
  BY <1>1, <1>2, WayAlways, PTL DEF Spec

\* The session of a refused delivery is a session the client has opened.
LEMMA RefusedIn ==
  ASSUME IInv, UniqueInv, NEW d \in refused
  PROVE  d \in received /\ d.s \in Session
<1>1. d \in received /\ d.os \in Session /\ d.s \in 0 .. MaxOpen /\ d.os <= d.s
  BY DEF UniqueInv, IInv, TypeOK, TypeClient, Delivery
<1>2. QED
  BY <1>1, DeliveryAssumption DEF Session

\* Without multiple, for any number of sessions, consumers and messages, a refusal needs
\* a late delivery: one that a goroutine of an earlier session, not yet ended, wrote into
\* the client's present one.
THEOREM RefusedOnlyAfterLate == ~Multiple => (Spec => []RefusedNeedsLate)
<1> SUFFICES ASSUME ~Multiple PROVE Spec => []RefusedNeedsLate
  OBVIOUS
<1>1. IInv /\ UniqueInv /\ OpenInv => RefusedNeedsLate
  BY RefusedIn DEF OpenInv, TimelyIn, RefusedNeedsLate
<1>2. QED
  BY <1>1, OpenAlways, PTL

\* So a client that opens its channel once, and answers each delivery by itself, never has
\* an answer refused, whatever its consumers, its Basic.Gets and the brokers do.
THEOREM OneSessionNeverRefused == ~Multiple /\ MaxOpen = 1 => (Spec => []NeverRefused)
<1> SUFFICES ASSUME ~Multiple, MaxOpen = 1 PROVE Spec => []NeverRefused
  OBVIOUS
<1>1. ASSUME IInv, UniqueInv, OpenInv PROVE NeverRefused
  <2>1. TimelyIn(1)
    <3>1. \A d \in received : d.os = 1
      BY <1>1 DEF IInv, TypeOK, TypeClient, Delivery, Session
    <3>2. QED
      BY <3>1 DEF TimelyIn, Timely
  <2>2. \A d \in refused : d.s = 1
    BY <1>1, RefusedIn DEF Session
  <2>3. 1 \in Session
    BY DEF Session
  <2>4. QED
    BY <1>1, <2>1, <2>2, <2>3 DEF OpenInv, NeverRefused
<1>2. QED
  BY <1>1, OpenAlways, PTL

-----------------------------------------------------------------------------
(* The multiple flag.  What an answer settles is known from the delivery   *)
(* it answers (SettledInv); that the client was given all of it needs      *)
(* that a consumer which has the channel to itself leaves no gap between   *)
(* the messages it delivers (Gapless).                                     *)

\* An answer settles nothing above the message of its delivery, on that message's channel.
SettledInv ==
  \A x \in settled :
    /\ x.d \in received
    /\ x.t \in MsgTag
    /\ Timely(x.d) => x.s = x.d.os /\ x.u = x.d.u /\ x.t <= x.d.t

\* Only answers settle messages.
LEMMA SettledByAnswer ==
  ASSUME IInv, [Next]_vars, settled' # settled
  PROVE  \E d \in received, multiple \in BOOLEAN : Settles(d, multiple)
<1> DEFINE Goal == \E d \in received, multiple \in BOOLEAN : Settles(d, multiple)
<1>1. ASSUME NEW d \in received, NEW multiple \in BOOLEAN, Answer(d, multiple) PROVE Goal
  <2>1. \/ AnswerLost(RestoreIndex(d.tag))
        \/ AnswerSettles(d, RestoreIndex(d.tag), RestoreTag(d.tag), multiple)
        \/ AnswerRefused(d, RestoreIndex(d.tag), RestoreTag(d.tag))
    BY <1>1, Zenon DEF Answer
  <2>2. AnswerSettles(d, RestoreIndex(d.tag), RestoreTag(d.tag), multiple)
    BY <2>1, Zenon DEF AnswerLost, AnswerRefused
  <2>3. QED
    BY <1>1, <2>2, Zenon DEF Settles
<1>2. CASE ClientAnswers
  BY <1>1, <1>2, Zenon DEF ClientAnswers, BasicAck, BasicNack
<1>3. CASE ClientNext
  BY <1>2, <1>3
     DEF ClientNext, ChannelOpen, ChannelClose, BasicConsume, BasicGet, BasicCancel, clientVars
<1>4. CASE HandlerNext
  BY <1>4
     DEF HandlerNext, CloseUpstream, CloseDone, ConsumeUpstream, ConsumeOk, ConsumeStart,
         CancelUpstream, CancelDone, GetNothing, GetMessage, GetEmpty, HandlerFail, ProxyClose,
         clientVars
<1>5. CASE MainExit \/ ClientGone \/ UNCHANGED vars \/ \E u \in Upstream : BrokerCloseChannel(u)
  BY <1>5 DEF MainExit, ClientGone, BrokerCloseChannel, vars, clientVars
<1>6. CASE \E k \in Consumer, u \in Upstream :
             BrokerDeliver(k, u) \/ BrokerCancel(k, u) \/ GoNext(k, u)
  BY <1>6 DEF BrokerDeliver, BrokerCancel, GoNext, GoRecv, GoSend, GoEnd, clientVars
<1>7. QED
  BY <1>3, <1>4, <1>5, <1>6 DEF Next

\* What an answer covers, when it settles anything: messages of the channel its delivery
\* names, none above the delivery's own.
LEMMA SettlesWhat ==
  ASSUME IInv, NEW d \in received, NEW multiple \in BOOLEAN, Settles(d, multiple)
  PROVE  /\ session \in Session /\ d.s = session /\ d.u \in Upstream /\ d.t \in MsgTag
         /\ RestoreIndex(d.tag) = d.u /\ RestoreTag(d.tag) = d.t
         /\ \A x \in settled' \ settled :
              /\ x.s = session /\ x.u = d.u /\ x.d = d
              /\ x.t \in MsgTag /\ x.t <= d.t
<1>1. d \in Delivery /\ d.tag = Tag(d.t, d.u) /\ TypeLib
  BY DEF IInv, TypeOK, TypeClient, TagInv
<1>2. d.u \in Upstream /\ d.t \in MsgTag /\ d.t \in Nat
  BY <1>1 DEF Delivery, MsgTag
<1>3. session \in Session /\ d.s = session
  BY DEF Settles, Answer, IInv, LoopInv
<1>4. RestoreIndex(d.tag) = d.u /\ RestoreTag(d.tag) = d.t
  BY <1>1, <1>2, RestoreOfTag
<1>5. PICK c : c = Covered(d.u, d.t, multiple)
  BY Zenon
<1>6. \A y \in c : y \in MsgTag /\ y <= d.t
  <2>1. unacked[session][d.u] \subseteq MsgTag
    BY <1>1, <1>2, <1>3 DEF TypeLib
  <2>2. \A y \in c : y \in unacked[session][d.u] /\ (y = d.t \/ y <= d.t)
    BY <1>5, Zenon DEF Covered
  <2>3. QED
    BY <1>2, <2>1, <2>2
<1>7. settled' = settled \cup
        {[s |-> session, u |-> d.u, t |-> y, d |-> d, multiple |-> multiple] : y \in c}
  BY <1>4, <1>5, Zenon DEF Settles, AnswerSettles
<1>8. ASSUME NEW x \in settled' \ settled
      PROVE  /\ x.s = session /\ x.u = d.u /\ x.d = d
             /\ x.t \in MsgTag /\ x.t <= d.t
  <2>1. PICK y \in c : x = [s |-> session, u |-> d.u, t |-> y, d |-> d, multiple |-> multiple]
    BY <1>7
  <2>2. x.s = session /\ x.u = d.u /\ x.d = d /\ x.t = y
    BY <2>1
  <2>3. QED
    BY <1>6, <2>2
<1>9. QED
  BY <1>2, <1>3, <1>4, <1>8

\* Every answer settles within its delivery's channel, up to its delivery.
LEMMA SettledStep == IInv /\ SettledInv /\ [Next]_vars => SettledInv'
<1> SUFFICES ASSUME IInv, SettledInv, [Next]_vars, NEW x \in settled'
             PROVE  /\ x.d \in received'
                    /\ x.t \in MsgTag
                    /\ Timely(x.d) => x.s = x.d.os /\ x.u = x.d.u /\ x.t <= x.d.t
  BY DEF SettledInv, Timely
<1>1. CASE x \in settled
  BY <1>1, ReceivedGrows DEF SettledInv
<1>2. CASE x \notin settled
  <2>1. PICK d \in received, multiple \in BOOLEAN : Settles(d, multiple)
    BY <1>2, SettledByAnswer
  <2>2. /\ d.s = session /\ x.s = session /\ x.u = d.u /\ x.d = d
        /\ x.t \in MsgTag /\ x.t <= d.t
    BY <1>2, <2>1, SettlesWhat
  <2>3. QED
    BY <2>2, ReceivedGrows DEF Timely
<1>3. QED
  BY <1>1, <1>2

\* The number of a channel goes up by one, with a delivery or with a Basic.Get.
LEMMA LastMoves ==
  ASSUME IInv, [Next]_vars, NEW s \in Session, NEW u \in Upstream, last'[s][u] # last[s][u]
  PROVE  /\ last'[s][u] = last[s][u] + 1
         /\ \/ \E k \in Consumer : BrokerDeliver(k, u) /\ consOf[k] = s
            \/ GetMessage(u) /\ session = s
<1>0. TypeLib /\ GoInv /\ LoopInv /\ last[s][u] \in Nat
  BY DeliveryAssumption DEF IInv, TypeOK, TypeLib
<1>1. ASSUME NEW o \in Session, NEW v \in Upstream, last' = [last EXCEPT ![o][v] = last[o][v] + 1]
      PROVE  o = s /\ v = u /\ last'[s][u] = last[s][u] + 1
  BY <1>0, <1>1 DEF TypeLib
<1>2. ASSUME NEW v \in Upstream, GetMessage(v)
      PROVE  session = s /\ v = u /\ last'[s][u] = last[s][u] + 1
  BY <1>0, <1>1, <1>2 DEF GetMessage, LoopInv
<1>3. ASSUME NEW k \in Consumer, NEW v \in Upstream, BrokerDeliver(k, v)
      PROVE  consOf[k] = s /\ v = u /\ last'[s][u] = last[s][u] + 1
  <2>1. consOf[k] \in Session
    BY <1>0, <1>3 DEF BrokerDeliver, GoInv
  <2>2. QED
    BY <1>1, <1>3, <2>1 DEF BrokerDeliver
<1>4. \/ \E v \in Upstream : GetMessage(v)
      \/ \E k \in Consumer, v \in Upstream : BrokerDeliver(k, v)
  BY StepMoves
     DEF Moves, Rests, Closes, CloseLib, BasicConsume, ConsumeStart, Settles, AnswerSettles, GoRecv,
         GoSend, GoEnd, libVars
<1>5. QED
  BY <1>2, <1>3, <1>4, Zenon

\* While the client is there, a Basic.Get that takes a message writes it.
LEMMA GetWrites ==
  ASSUME NEW u \in Upstream, GetMessage(u), alive
  PROVE  \E d \in received' : d.os = session /\ d.k = ByGet
<1>1. PICK w : w = Written(session, u, last[session][u] + 1, ByGet)
  OBVIOUS
<1>2. w \in received'
  BY <1>1, Zenon DEF GetMessage
<1>3. QED
  BY <1>1, <1>2, WrittenParts

\* A channel that nobody consumed from, and that gave no message to a Basic.Get, has
\* numbered none.
FreshInv ==
  alive => \A s \in Session, u \in Upstream :
    (\A k \in Consumer : consOf[k] # s) /\ (\A d \in received : d.os # s) => last[s][u] = 0

\* The first message of a session comes with its consumer or with its Basic.Get.
LEMMA FreshStep == IInv /\ OrderInv /\ FreshInv /\ [Next]_vars => FreshInv'
<1> SUFFICES ASSUME IInv, OrderInv, FreshInv, [Next]_vars, alive',
                    NEW s \in Session, NEW u \in Upstream,
                    \A k \in Consumer : consOf'[k] # s, \A d \in received' : d.os # s
             PROVE  last'[s][u] = 0
  BY DEF FreshInv
<1>1. alive
  BY GoneStays, Zenon
<1>2. \A k \in Consumer : consOf[k] # s
  BY SameSession
<1>3. last[s][u] = 0
  BY <1>1, <1>2, ReceivedGrows DEF FreshInv
<1>4. CASE last'[s][u] # last[s][u]
  BY <1>1, <1>2, <1>4, LastMoves, GetWrites
<1>5. QED
  BY <1>3, <1>4

\* Closing channels leaves the others as they are.
LEMMA ClosesLeaves ==
  ASSUME TypeLib, NEW us \in SUBSET Upstream, Closes(us), NEW s \in Session, NEW u \in Upstream,
         ~(s = session /\ u \in us)
  PROVE  chOpen'[s][u] = chOpen[s][u]
<1>1. chOpen' = [chOpen EXCEPT ![session] = [v \in Upstream |-> v \notin us /\ chOpen[session][v]]]
  BY DEF Closes, CloseLib
<1>2. DOMAIN chOpen = Session /\ session \in Session /\ chOpen[session][u] \in BOOLEAN
  BY DEF TypeLib, Closes
<1>3. CASE s # session
  BY <1>1, <1>2, <1>3
<1>4. CASE s = session
  <2>1. chOpen'[s] = [v \in Upstream |-> v \notin us /\ chOpen[session][v]]
    BY <1>1, <1>2, <1>4
  <2>2. chOpen'[s][u] = (u \notin us /\ chOpen[session][u])
    BY <2>1
  <2>3. QED
    BY <1>2, <1>4, <2>2, Zenon
<1>5. QED
  BY <1>3, <1>4

\* A channel that has been closed stays closed.
LEMMA OpenWas ==
  ASSUME IInv, [Next]_vars, NEW s \in Session, NEW u \in Upstream, s <= session, chOpen'[s][u]
  PROVE  chOpen[s][u]
<1>1. ASSUME NEW us \in SUBSET Upstream, Closes(us) PROVE chOpen[s][u]
  BY <1>1, ClosesEffect DEF IInv, TypeOK
<1>2. CASE Rests
  <2>1. chOpen'[s][u] = chOpen[s][u]
    BY <1>2 DEF Rests
  <2>2. QED
    BY <2>1
<1>3. CASE UNCHANGED chOpen
  BY <1>3
<1>4. Rests \/ UNCHANGED chOpen \/ \E us \in SUBSET Upstream : Closes(us)
  BY StepMoves
     DEF Moves, BasicConsume, ConsumeStart, GetMessage, Settles, AnswerSettles, BrokerDeliver,
         GoRecv, GoSend, GoEnd, libVars
<1>5. QED
  BY <1>1, <1>2, <1>3, <1>4, Zenon

\* A consumer that has its session to itself had it before.
LEMMA AloneWas ==
  ASSUME IInv, OrderInv, [Next]_vars, NEW k \in Consumer, k <= consumes, Alone(k)'
  PROVE  consOf[k] \in Session /\ consOf[k] <= session /\ consOf'[k] = consOf[k] /\ Alone(k)
<1>1. consOf[k] \in Session /\ consOf[k] <= session
  BY DEF IInv, GoInv, OrderInv
<1>2. consOf'[k] = consOf[k]
  BY <1>1, SameSession
<1>3. \A j \in Consumer : consOf[j] = consOf[k] => j = k
  BY <1>1, <1>2, SameSession DEF Alone
<1>4. \A d \in received : d.os = consOf[k] => d.k = k
  BY <1>2, ReceivedGrows DEF Alone
<1>5. QED
  BY <1>1, <1>2, <1>3, <1>4 DEF Alone

\* Consumer k, alone in its session, leaves no gap on upstream u: the client has every
\* message before one that it was given and, while it is there, before the one a goroutine
\* is about to send; a goroutine that runs, on an open channel, has missed none.
Gapless(k, u) ==
  /\ buf[k][u] # <<>> => chOpen[consOf[k]][u]
  /\ \A d \in received : d.os = consOf[k] /\ d.u = u =>
       \A t \in MsgTag : t < d.t => Given(consOf[k], u, t)
  /\ alive /\ gpc[k][u] = "send" =>
       \A t \in MsgTag : t < hold[k][u] => Given(consOf[k], u, t)
  /\ alive /\ gpc[k][u] # "done" /\ chOpen[consOf[k]][u] =>
       \A t \in MsgTag : t <= last[consOf[k]][u] => Given(consOf[k], u, t) \/ Holds(k, u, t)

GapInv == \A k \in Consumer, u \in Upstream : k <= consumes /\ Alone(k) => Gapless(k, u)

\* What the client was given it keeps.
LEMMA GivenStays ==
  ASSUME IInv, [Next]_vars, NEW s, NEW u, NEW t, Given(s, u, t)
  PROVE  Given(s, u, t)'
BY ReceivedGrows, Zenon DEF Given

\* The library's queues are those of open channels.
LEMMA QueueOpen ==
  ASSUME IInv, [Next]_vars, NEW k \in Consumer, NEW u \in Upstream,
         consOf[k] \in Session, consOf[k] <= session,
         buf[k][u] # <<>> => chOpen[consOf[k]][u], buf'[k][u] # <<>>
  PROVE  chOpen'[consOf[k]][u]
<1>0. TypeLib
  BY DEF IInv, TypeOK
<1>1. CASE UNCHANGED <<chOpen, buf>>
  BY <1>1
<1>2. CASE Rests
  <2>1. chOpen'[consOf[k]][u] = chOpen[consOf[k]][u] /\ UNCHANGED buf
    BY <1>2 DEF Rests
  <2>2. QED
    BY <2>1
<1>3. ASSUME NEW us \in SUBSET Upstream, Closes(us) PROVE chOpen'[consOf[k]][u]
  <2>1. ~(consOf[k] = session /\ u \in us) /\ buf'[k][u] = buf[k][u]
    BY <1>0, <1>3, ClosesEffect
  <2>2. chOpen'[consOf[k]][u] = chOpen[consOf[k]][u]
    BY <1>0, <1>3, <2>1, ClosesLeaves
  <2>3. QED
    BY <2>1, <2>2
<1>4. ASSUME NEW j \in Consumer, NEW v \in Upstream, BrokerDeliver(j, v)
      PROVE  chOpen'[consOf[k]][u]
  <2>1. chOpen[consOf[j]][v] /\ UNCHANGED chOpen
    BY <1>4 DEF BrokerDeliver
  <2>2. CASE j = k /\ v = u
    BY <2>1, <2>2
  <2>3. CASE ~(j = k /\ v = u)
    <3>1. buf'[k][u] = buf[k][u]
      BY <1>0, <1>4, <2>3 DEF BrokerDeliver, TypeLib
    <3>2. QED
      BY <2>1, <3>1
  <2>4. QED
    BY <2>2, <2>3
<1>5. ASSUME NEW j \in Consumer, NEW v \in Upstream, GoRecv(j, v)
      PROVE  chOpen'[consOf[k]][u]
  <2>1. buf'[k][u] = buf[k][u] \/ buf[k][u] # <<>>
    BY <1>0, <1>5 DEF GoRecv, TypeLib
  <2>2. UNCHANGED chOpen
    BY <1>5 DEF GoRecv
  <2>3. QED
    BY <2>1, <2>2
<1>6. QED
  BY <1>1, <1>2, <1>3, <1>4, <1>5, StepMoves
     DEF Moves, BasicConsume, ConsumeStart, GetMessage, Settles, AnswerSettles, GoSend, GoEnd,
         libVars

\* How a goroutine comes to hold a message, and that it ends for good.
LEMMA GoMoves ==
  ASSUME IInv, StartInv, [Next]_vars, NEW k \in Consumer, NEW u \in Upstream
  PROVE  /\ gpc[k][u] = "done" => gpc'[k][u] = "done"
         /\ gpc'[k][u] = "send" =>
              \/ gpc[k][u] = "send" /\ hold'[k][u] = hold[k][u]
              \/ GoRecv(k, u)
<1>0. TypeGo /\ LoopInv
  BY DEF IInv, TypeOK
<1>1. CASE UNCHANGED <<gpc, hold>>
  BY <1>1
<1>2. CASE ConsumeStart
  <2>1. /\ gpc' = [gpc EXCEPT ![consumes] = [v \in Upstream |-> "recv"]]
        /\ consumes \in Consumer /\ UNCHANGED hold
        /\ \A v \in Upstream : gpc[consumes][v] = "none"
    BY <1>0, <1>2 DEF ConsumeStart, LoopInv, StartInv
  <2>2. gpc'[k][u] = gpc[k][u] \/ (gpc'[k][u] = "recv" /\ gpc[k][u] = "none")
    BY <1>0, <2>1 DEF TypeGo
  <2>3. QED
    BY <2>1, <2>2
<1>3. ASSUME NEW j \in Consumer, NEW v \in Upstream, GoRecv(j, v) \/ GoSend(j, v) \/ GoEnd(j, v),
             ~(j = k /\ v = u)
      PROVE  gpc'[k][u] = gpc[k][u] /\ hold'[k][u] = hold[k][u]
  BY <1>0, <1>3 DEF GoRecv, GoSend, GoEnd, TypeGo
<1>4. CASE GoSend(k, u) \/ GoEnd(k, u)
  <2>1. gpc[k][u] # "done" /\ gpc'[k][u] # "send"
    BY <1>0, <1>4 DEF GoSend, GoEnd, TypeGo
  <2>2. QED
    BY <2>1
<1>5. CASE GoRecv(k, u)
  <2>1. gpc[k][u] # "done"
    BY <1>5 DEF GoRecv
  <2>2. QED
    BY <1>5, <2>1
<1>6. QED
  BY <1>1, <1>2, <1>3, <1>4, <1>5, StepMoves
     DEF Moves, Rests, Closes, BasicConsume, GetMessage, Settles, Answer, BrokerDeliver, goVars

\* A consumer that is alone and has just been made finds a channel without messages.
LEMMA GaplessNew ==
  ASSUME IInv, StartInv, OrderInv, FreshInv, [Next]_vars, NEW k \in Consumer, NEW u \in Upstream,
         ~(k <= consumes), k <= consumes', Alone(k)'
  PROVE  Gapless(k, u)'
<1>0. /\ consumes \in Nat /\ k \in Nat /\ session \in Nat /\ DOMAIN consOf = Consumer
      /\ TypeLib /\ LoopInv /\ GoInv
  BY DeliveryAssumption DEF IInv, TypeOK, TypeMain, Consumer
<1>1. BasicConsume
  <2>1. ASSUME NEW j \in Consumer, NEW v \in Upstream,
               BrokerDeliver(j, v) \/ GoRecv(j, v) \/ GoSend(j, v) \/ GoEnd(j, v)
        PROVE  UNCHANGED consumes
    BY <2>1 DEF BrokerDeliver, GoRecv, GoSend, GoEnd, mainVars
  <2>2. ASSUME NEW d \in received, NEW multiple \in BOOLEAN, Settles(d, multiple)
        PROVE  UNCHANGED consumes
    BY <2>2 DEF Settles, Answer
  <2>3. QED
    BY <2>1, <2>2, StepMoves DEF Moves, Rests, Closes, ConsumeStart, GetMessage
<1>2. /\ consumes' = consumes + 1 /\ consOf' = [consOf EXCEPT ![consumes + 1] = session]
      /\ UNCHANGED <<last, buf, gpc, hold, received, alive>> /\ alive /\ hasChan
  BY <1>1 DEF BasicConsume, libVars, goVars, clientVars
<1>3. k = consumes + 1 /\ session \in Session
  BY <1>0, <1>2 DEF LoopInv
<1>4. consOf'[k] = session /\ \A j \in Consumer : j # k => consOf'[j] = consOf[j]
  BY <1>0, <1>2, <1>3
<1>5. /\ consOf[k] = 0 /\ buf[k][u] = <<>> /\ gpc[k][u] = "none"
      /\ \A d \in received : d.k # k
  BY <1>0 DEF OrderInv, Unborn, GoInv
<1>6. \A d \in received : d.os # session
  BY <1>2, <1>4, <1>5 DEF Alone
<1>7. \A j \in Consumer : consOf[j] # session
  BY <1>3, <1>4, <1>5 DEF Alone, Session
<1>8. last[session][u] = 0
  BY <1>2, <1>3, <1>6, <1>7 DEF FreshInv
<1>9. \A t \in MsgTag : ~(t <= last'[consOf'[k]][u])
  BY <1>2, <1>4, <1>8 DEF MsgTag
<1>10. \A d \in received' : d.os # consOf'[k]
  BY <1>2, <1>4, <1>6
<1>11. buf'[k][u] = <<>> /\ gpc'[k][u] = "none"
  BY <1>2, <1>5
<1>12. QED
  BY <1>9, <1>10, <1>11 DEF Gapless

\* What a goroutine takes from the queue is the first message the client has not got.
LEMMA TakesFirst ==
  ASSUME IInv, OrderInv, NEW k \in Consumer, NEW u \in Upstream, k <= consumes,
         Gapless(k, u), alive, GoRecv(k, u), NEW t \in MsgTag, t < hold'[k][u]
  PROVE  Given(consOf[k], u, t)
<1>0. TypeLib /\ TypeGo /\ GoInv /\ Ordered(k, u)
  BY DEF IInv, TypeOK, OrderInv
<1> DEFINE b == buf[k][u]
           h == hold'[k][u]
           l == last[consOf[k]][u]
<1>1. b # <<>> /\ h = Head(b) /\ gpc[k][u] = "recv"
  BY <1>0 DEF GoRecv, TypeGo
<1>2. b \in Seq(MsgTag) /\ l \in Nat /\ \A x \in MsgTag : x \in Nat
  <2>1. consOf[k] \in Session
    BY <1>0 DEF GoInv
  <2>2. QED
    BY <1>0, <2>1, DeliveryAssumption DEF TypeLib, MsgTag
<1>3. /\ \A n \in 1 .. Len(b) : b[n] <= l
      /\ \A m, n \in 1 .. Len(b) : m < n => b[m] < b[n]
  BY <1>0 DEF Ordered
<1>4. \A x \in MsgTag : x <= l => Given(consOf[k], u, x) \/ Holds(k, u, x)
  BY <1>1 DEF Gapless
<1>5. Holds(k, u, t) => \E n \in 1 .. Len(b) : b[n] = t
  BY <1>1 DEF Holds, Queued, InHand
<1> HIDE DEF b, h, l
<1>6. /\ Len(b) \in Nat /\ 1 \in 1 .. Len(b) /\ h = b[1]
      /\ \A n \in 1 .. Len(b) : b[n] \in Nat
  BY <1>1, <1>2
<1>7. t < h
  BY DEF h
<1>8. t <= l
  BY <1>2, <1>3, <1>6, <1>7
<1>9. \A n \in 1 .. Len(b) : b[n] # t
  BY <1>2, <1>3, <1>6, <1>7
<1>10. QED
  BY <1>4, <1>5, <1>8, <1>9

\* A broker's message is in the queue.
LEMMA DeliveredIsQueued ==
  ASSUME IInv, NEW k \in Consumer, NEW u \in Upstream, BrokerDeliver(k, u),
         NEW t, t = last[consOf[k]][u] + 1
  PROVE  Holds(k, u, t)'
<1> DEFINE b == buf[k][u]
           c == buf'[k][u]
<1>1. TypeLib
  BY DEF IInv, TypeOK
<1>2. c = Append(b, t) /\ b \in Seq(MsgTag)
  BY <1>1 DEF BrokerDeliver, TypeLib
<1> HIDE DEF b, c
<1>3. Len(b) + 1 \in 1 .. Len(c) /\ c[Len(b) + 1] = t
  BY <1>2
<1>4. QED
  BY <1>3 DEF Holds, Queued, c

\* A consumer that is alone leaves no gap.
LEMMA GaplessStep ==
  ASSUME IInv, StartInv, OrderInv, GapInv, [Next]_vars, NEW k \in Consumer, NEW u \in Upstream,
         k <= consumes, Alone(k)'
  PROVE  Gapless(k, u)'
<1>1. PICK s \in Session : s = consOf[k] /\ s <= session /\ s = consOf'[k]
  BY AloneWas
<1>2. Alone(k) /\ Gapless(k, u)
  BY AloneWas DEF GapInv
<1>3. alive' => alive
  BY GoneStays, Zenon
<1>4. TypeLib /\ TypeGo /\ GoInv
  BY DEF IInv, TypeOK
<1>5. buf'[k][u] # <<>> => chOpen'[s][u]
  BY <1>1, <1>2, QueueOpen DEF Gapless
<1>6. ASSUME NEW d \in received', d.os = s, d.u = u, NEW t \in MsgTag, t < d.t
      PROVE  Given(s, u, t)'
  <2>1. CASE d \in received
    BY <1>1, <1>2, <1>6, <2>1, GivenStays DEF Gapless
  <2>2. ASSUME d \notin received, NEW v \in Upstream, GetMessage(v) PROVE FALSE
    <3>1. d = Written(session, v, last[session][v] + 1, ByGet)
      BY <1>6, <2>2, Zenon DEF GetMessage
    <3>2. d.k = ByGet
      BY <3>1, WrittenParts
    <3>3. d.k = k
      BY <1>1, <1>6 DEF Alone
    <3>4. QED
      BY <3>2, <3>3 DEF ByGet, Consumer
  <2>3. ASSUME d \notin received, NEW j \in Consumer, NEW v \in Upstream, GoSend(j, v)
        PROVE  Given(s, u, t)'
    <3>1. d = Written(consOf[j], v, hold[j][v], j) /\ gpc[j][v] = "send" /\ alive
      BY <1>6, <2>3, Zenon DEF GoSend
    <3>2. d.os = consOf[j] /\ d.u = v /\ d.t = hold[j][v]
      BY <3>1, WrittenParts
    <3>3. j = k /\ v = u
      BY <1>1, <1>2, <1>6, <3>2 DEF Alone
    <3>4. Given(s, u, t)
      BY <1>1, <1>2, <1>6, <3>1, <3>2, <3>3 DEF Gapless
    <3>5. QED
      BY <3>4, GivenStays
  <2>4. \/ received' = received
        \/ \E v \in Upstream : GetMessage(v)
        \/ \E j \in Consumer, v \in Upstream : GoSend(j, v)
    BY StepMoves
       DEF Moves, Rests, Closes, BasicConsume, ConsumeStart, Settles, Answer, BrokerDeliver, GoRecv,
           GoEnd, clientVars
  <2>5. QED
    BY <1>6, <2>1, <2>2, <2>3, <2>4
<1>7. ASSUME alive', gpc'[k][u] = "send", NEW t \in MsgTag, t < hold'[k][u]
      PROVE  Given(s, u, t)'
  <2>1. CASE gpc[k][u] = "send" /\ hold'[k][u] = hold[k][u]
    <3>1. Given(s, u, t)
      BY <1>1, <1>2, <1>3, <1>7, <2>1 DEF Gapless
    <3>2. QED
      BY <3>1, GivenStays
  <2>2. CASE GoRecv(k, u)
    <3>1. Given(s, u, t)
      BY <1>1, <1>2, <1>3, <1>7, <2>2, TakesFirst
    <3>2. QED
      BY <3>1, GivenStays
  <2>3. QED
    BY <1>7, <2>1, <2>2, GoMoves
<1>8. ASSUME alive', gpc'[k][u] # "done", chOpen'[s][u], NEW t \in MsgTag, t <= last'[s][u]
      PROVE  Given(s, u, t)' \/ Holds(k, u, t)'
  <2>1. alive /\ gpc[k][u] # "done" /\ chOpen[s][u]
    BY <1>1, <1>3, <1>8, GoMoves, OpenWas
  <2>2. \A x \in MsgTag : x <= last[s][u] => Given(s, u, x) \/ Holds(k, u, x)
    BY <1>1, <1>2, <2>1 DEF Gapless
  <2>3. CASE Given(s, u, t)
    BY <2>3, GivenStays
  <2>4. CASE Holds(k, u, t)
    <3>1. \/ Holds(k, u, t)'
          \/ GoSend(k, u) /\ hold[k][u] = t
          \/ GoEnd(k, u)
          \/ \E us \in SUBSET Upstream : Closes(us) /\ u \in us /\ consOf[k] = session
      BY <2>4, HeldStep, Zenon DEF Holds
    <3>2. CASE GoSend(k, u) /\ hold[k][u] = t
      <4>1. Written(consOf[k], u, hold[k][u], k) \in received'
        BY <3>2, Zenon DEF GoSend
      <4>2. PICK w \in received' : w = Written(consOf[k], u, hold[k][u], k)
        BY <4>1
      <4>3. w.os = consOf[k] /\ w.u = u /\ w.t = hold[k][u]
        BY <4>2, WrittenParts
      <4>4. Given(s, u, t)'
        BY <1>1, <3>2, <4>3 DEF Given
      <4>5. QED
        BY <4>4
    <3>3. CASE GoEnd(k, u)
      BY <1>4, <1>8, <3>3 DEF GoEnd, TypeGo
    <3>4. ASSUME NEW us \in SUBSET Upstream, Closes(us), u \in us, consOf[k] = session PROVE FALSE
      <4>1. chOpen'[s][u] => ~(s = session /\ u \in us)
        BY <1>4, <3>4, ClosesEffect
      <4>2. QED
        BY <1>1, <1>8, <3>4, <4>1
    <3>5. QED
      BY <3>1, <3>2, <3>3, <3>4, Zenon
  <2>5. CASE ~(t <= last[s][u])
    <3>1. last'[s][u] # last[s][u]
      BY <1>8, <2>5
    <3>2. /\ last'[s][u] = last[s][u] + 1
          /\ \/ \E j \in Consumer : BrokerDeliver(j, u) /\ consOf[j] = s
             \/ GetMessage(u) /\ session = s
      BY <3>1, LastMoves
    <3>3. t = last[s][u] + 1
      BY <1>8, <2>5, <3>2, LastGrows DEF MsgTag
    <3>4. ASSUME NEW j \in Consumer, BrokerDeliver(j, u), consOf[j] = s PROVE Holds(k, u, t)'
      <4>1. j = k
        BY <1>1, <1>2, <3>4 DEF Alone
      <4>2. QED
        BY <1>1, <3>3, <3>4, <4>1, DeliveredIsQueued
    <3>5. ASSUME GetMessage(u), session = s PROVE FALSE
      <4>1. PICK d \in received' : d.os = s /\ d.k = ByGet
        BY <2>1, <3>5, GetWrites
      <4>2. d.k = k
        BY <1>1, <4>1 DEF Alone
      <4>3. QED
        BY <4>1, <4>2 DEF ByGet, Consumer
    <3>6. QED
      BY <3>2, <3>4, <3>5, Zenon
  <2>6. QED
    BY <2>2, <2>3, <2>4, <2>5
<1>9. QED
  BY <1>1, <1>5, <1>6, <1>7, <1>8 DEF Gapless

\* The consumers that are alone leave no gap.
LEMMA GapStep == IInv /\ StartInv /\ OrderInv /\ FreshInv /\ GapInv /\ [Next]_vars => GapInv'
BY GaplessNew, GaplessStep DEF GapInv

\* A consumer's deliveries are of the session it was made in.
SourceInv == \A d \in received : d.k \in Consumer => d.os = consOf[d.k]

\* A goroutine delivers what it took from its consumer's channel.
LEMMA SourceStep == IInv /\ OrderInv /\ SourceInv /\ [Next]_vars => SourceInv'
<1> SUFFICES ASSUME IInv, OrderInv, SourceInv, [Next]_vars, NEW d \in received', d.k \in Consumer
             PROVE  d.os = consOf'[d.k]
  BY DEF SourceInv
<1>1. CASE d \in received
  <2>1. d.os = consOf[d.k] /\ d.os \in Session
    BY <1>1 DEF SourceInv, IInv, TypeOK, TypeClient, Delivery
  <2>2. QED
    BY <2>1, SameSession
<1>2. ASSUME d \notin received, NEW v \in Upstream, GetMessage(v) PROVE FALSE
  <2>1. d = Written(session, v, last[session][v] + 1, ByGet)
    BY <1>2, Zenon DEF GetMessage
  <2>2. d.k = ByGet
    BY <2>1, WrittenParts
  <2>3. QED
    BY <2>2 DEF ByGet, Consumer
<1>3. ASSUME d \notin received, NEW j \in Consumer, NEW v \in Upstream, GoSend(j, v)
      PROVE  d.os = consOf'[d.k]
  <2>1. d = Written(consOf[j], v, hold[j][v], j) /\ UNCHANGED consOf
    BY <1>3, Zenon DEF GoSend, mainVars
  <2>2. QED
    BY <2>1, WrittenParts
<1>4. \/ received' = received
      \/ \E v \in Upstream : GetMessage(v)
      \/ \E j \in Consumer, v \in Upstream : GoSend(j, v)
  BY StepMoves
     DEF Moves, Rests, Closes, BasicConsume, ConsumeStart, Settles, Answer, BrokerDeliver, GoRecv,
         GoEnd, clientVars
<1>5. QED
  BY <1>1, <1>2, <1>3, <1>4

\* With one upstream or two, for any number of sessions, consumers and messages, an answer
\* with multiple = true settles only messages the client was given, when one consumer has
\* the channel to itself.
THEOREM MultipleNeedsDelivery == Spec => []MultipleSettlesSeen
<1>1. Init => SettledInv /\ SourceInv /\ FreshInv /\ GapInv
  <2> SUFFICES ASSUME Init PROVE SettledInv /\ SourceInv /\ FreshInv /\ GapInv
    OBVIOUS
  <2>1. SettledInv /\ SourceInv /\ FreshInv
    BY DEF Init, SettledInv, SourceInv, FreshInv
  <2>2. \A k \in Consumer : ~(k <= consumes)
    BY DEF Init, Consumer
  <2>3. QED
    BY <2>1, <2>2 DEF GapInv
<1>2. IInv /\ StartInv /\ OkBeforeDelivery /\ OrderInv /\ SettledInv /\ SourceInv /\ FreshInv /\ GapInv
        /\ [Next]_vars => (SettledInv /\ SourceInv /\ FreshInv /\ GapInv)'
  BY SettledStep, SourceStep, FreshStep, GapStep
<1>3. ASSUME IInv, OrderInv, SettledInv, SourceInv, GapInv PROVE MultipleSettlesSeen
  <2> SUFFICES ASSUME NEW x \in settled, Timely(x.d), x.d.k \in Consumer, Alone(x.d.k)
               PROVE  Given(x.s, x.u, x.t)
    BY DEF MultipleSettlesSeen, Given
  <2>1. PICK d \in received : d = x.d
    BY <1>3 DEF SettledInv
  <2>2. x.t \in MsgTag /\ x.s = d.os /\ x.u = d.u /\ x.t <= d.t
    BY <1>3, <2>1 DEF SettledInv
  <2>3. d.u \in Upstream /\ d.t \in Nat /\ x.t \in Nat /\ d.k \in Nat /\ consumes \in Nat
    BY <1>3, <2>1, <2>2, DeliveryAssumption
       DEF IInv, TypeOK, TypeClient, TypeMain, Delivery, MsgTag, Consumer
  <2>4. d.k <= consumes
    BY <1>3, <2>1, <2>3 DEF OrderInv, Unborn
  <2>5. Gapless(d.k, d.u)
    BY <1>3, <2>1, <2>3, <2>4 DEF GapInv
  <2>6. d.os = consOf[d.k]
    BY <1>3, <2>1 DEF SourceInv
  <2>7. CASE x.t = d.t
    BY <2>1, <2>2, <2>7 DEF Given
  <2>8. CASE x.t < d.t
    BY <2>1, <2>2, <2>5, <2>6, <2>8 DEF Gapless
  <2>9. QED
    BY <2>2, <2>3, <2>7, <2>8
<1>4. QED
  BY <1>1, <1>2, <1>3, WayAlways, PTL DEF Spec

\* What the client takes to be answered in its session, the brokers no longer wait for, as
\* long as the channel is open.
AnswerInv ==
  /\ answered \subseteq received
  /\ \A d \in answered :
       Timely(d) /\ d.s = session /\ chOpen[session][d.u] => d.t \notin unacked[d.os][d.u]

\* Everything an answer is meant to cover, it covers, when the flag reaches the upstream of
\* every delivery: there is one upstream, or the client does not use the flag.
LEMMA AnswerCovers ==
  ASSUME IInv, N = 1 \/ ~Multiple, NEW d \in received, NEW multiple \in BOOLEAN,
         Answer(d, multiple), NEW x \in answered', x \notin answered
  PROVE  /\ x \in received /\ RestoreIndex(d.tag) = x.u
         /\ x.t = RestoreTag(d.tag) \/ (multiple /\ x.t <= RestoreTag(d.tag))
<1>1. received \subseteq Delivery /\ x \in received
  BY DEF Answer, IInv, TypeOK, TypeClient
<1>2. /\ d.tag = Tag(d.t, d.u) /\ d.t \in Nat /\ d.u \in Upstream
      /\ x.tag = Tag(x.t, x.u) /\ x.t \in Nat /\ x.u \in Upstream
  BY <1>1 DEF IInv, TagInv, Delivery, MsgTag
<1>3. RestoreIndex(d.tag) = d.u /\ RestoreTag(d.tag) = d.t
  BY <1>2, RestoreOfTag
<1>4. CASE x = d
  BY <1>1, <1>3, <1>4
<1>5. CASE x # d
  <2>1. multiple /\ x.tag <= d.tag
    BY <1>5, Zenon DEF Answer
  <2>2. N = 1
    BY <2>1, Zenon DEF Answer
  <2>3. d.u = 0 /\ x.u = 0 /\ x.t <= d.t
    BY <1>2, <2>1, <2>2 DEF Upstream, Tag
  <2>4. QED
    BY <1>1, <1>3, <2>1, <2>3
<1>6. QED
  BY <1>4, <1>5

\* Only answers make the client take a delivery to be answered.
LEMMA AnsweredByAnswer ==
  ASSUME [Next]_vars
  PROVE  \/ answered' = answered
         \/ \E d \in received, multiple \in BOOLEAN : Answer(d, multiple)
<1>1. CASE ClientNext
  BY <1>1
     DEF ClientNext, ClientAnswers, BasicAck, BasicNack, ChannelOpen, ChannelClose, BasicConsume,
         BasicGet, BasicCancel, clientVars
<1>2. CASE HandlerNext
  BY <1>2
     DEF HandlerNext, CloseUpstream, CloseDone, ConsumeUpstream, ConsumeOk, ConsumeStart,
         CancelUpstream, CancelDone, GetNothing, GetMessage, GetEmpty, HandlerFail, ProxyClose,
         clientVars
<1>3. CASE MainExit \/ ClientGone \/ UNCHANGED vars \/ \E u \in Upstream : BrokerCloseChannel(u)
  BY <1>3 DEF MainExit, ClientGone, BrokerCloseChannel, vars, clientVars
<1>4. CASE \E k \in Consumer, u \in Upstream :
             BrokerDeliver(k, u) \/ BrokerCancel(k, u) \/ GoNext(k, u)
  BY <1>4 DEF BrokerDeliver, BrokerCancel, GoNext, GoRecv, GoSend, GoEnd, clientVars
<1>5. QED
  BY <1>1, <1>2, <1>3, <1>4 DEF Next

\* The brokers wait for nothing the client takes to be answered.
LEMMA AnswerStep ==
  ASSUME IInv, UniqueInv, AnswerInv, N = 1 \/ ~Multiple, [Next]_vars
  PROVE  AnswerInv'
<1>0. /\ TypeLib /\ LoopInv /\ GoInv /\ received \subseteq Delivery /\ session \in Nat
      /\ received \subseteq received'
  BY ReceivedGrows, DeliveryAssumption DEF IInv, TypeOK, TypeMain, TypeClient
<1>1. ASSUME NEW d \in answered
      PROVE  /\ d.os \in Session /\ d.u \in Upstream /\ d.t \in Nat /\ d.s \in Nat
             /\ d.t <= last[d.os][d.u] /\ d.s <= session
  BY <1>0 DEF AnswerInv, UniqueInv, Delivery, MsgTag, Session
<1>2. ASSUME NEW d \in answered, NEW o \in Session, NEW v \in Upstream, session' = session,
             chOpen' = chOpen,
             unacked' = [unacked EXCEPT ![o][v] = @ \cup {last[o][v] + 1}]
      PROVE  Timely(d) /\ d.s = session' /\ chOpen'[session'][d.u] => d.t \notin unacked'[d.os][d.u]
  <2>1. last[o][v] \in Nat
    BY <1>0, DeliveryAssumption DEF TypeLib
  <2>2. d.os = o /\ d.u = v => d.t # last[o][v] + 1
    BY <1>1, <1>2, <2>1
  <2>3. d.t \in unacked'[d.os][d.u] => d.t \in unacked[d.os][d.u]
    BY <1>0, <1>1, <1>2, <2>2 DEF TypeLib
  <2>4. QED
    BY <1>2, <2>3 DEF AnswerInv
<1>3. ASSUME NEW d \in answered
      PROVE  Timely(d) /\ d.s = session' /\ chOpen'[session'][d.u] => d.t \notin unacked'[d.os][d.u]
  <2> DEFINE Goal == Timely(d) /\ d.s = session' /\ chOpen'[session'][d.u] => d.t \notin unacked'[d.os][d.u]
  <2>1. CASE Rests
    <3> SUFFICES ASSUME Timely(d), d.s = session', chOpen'[session'][d.u]
                 PROVE  d.t \notin unacked'[d.os][d.u]
      OBVIOUS
    <3>1. session' = session /\ UNCHANGED unacked
      BY <1>0, <1>1, <2>1 DEF Rests
    <3>2. d.os = session
      BY <3>1 DEF Timely
    <3>3. chOpen'[session][d.u] = chOpen[session][d.u]
      BY <1>0, <1>1, <2>1, <3>2 DEF Rests
    <3>4. chOpen[session][d.u]
      BY <3>1, <3>3
    <3>5. QED
      BY <3>1, <3>4 DEF AnswerInv
  <2>2. ASSUME NEW us \in SUBSET Upstream, Closes(us) PROVE Goal
    <3>1. session \in Session /\ session' = session
      BY <2>2 DEF Closes
    <3>2. chOpen'[session][d.u] => chOpen[session][d.u]
      BY <1>0, <1>1, <2>2, <3>1, ClosesEffect
    <3>3. unacked'[d.os][d.u] \subseteq unacked[d.os][d.u]
      BY <1>0, <1>1, <2>2, ClosesEffect
    <3>4. QED
      BY <3>1, <3>2, <3>3 DEF AnswerInv
  <2>3. CASE BasicConsume \/ ConsumeStart
    BY <2>3 DEF BasicConsume, ConsumeStart, libVars, AnswerInv
  <2>4. ASSUME NEW v \in Upstream, GetMessage(v) PROVE Goal
    BY <1>0, <1>2, <2>4 DEF GetMessage, LoopInv
  <2>5. ASSUME NEW k \in Consumer, NEW v \in Upstream, BrokerDeliver(k, v) PROVE Goal
    <3>1. consOf[k] \in Session
      BY <1>0, <2>5 DEF BrokerDeliver, GoInv
    <3>2. QED
      BY <1>2, <2>5, <3>1 DEF BrokerDeliver, mainVars
  <2>6. ASSUME NEW k \in Consumer, NEW v \in Upstream, GoRecv(k, v) \/ GoSend(k, v) \/ GoEnd(k, v)
        PROVE  Goal
    BY <2>6 DEF GoRecv, GoSend, GoEnd, libVars, mainVars, AnswerInv
  <2>7. ASSUME NEW a \in received, NEW multiple \in BOOLEAN, Settles(a, multiple) PROVE Goal
    <3>1. PICK c, v : unacked' = [unacked EXCEPT ![session][v] = @ \ c]
      BY <2>7 DEF Settles, AnswerSettles
    <3>2. unacked'[d.os][d.u] \subseteq unacked[d.os][d.u]
      BY <1>0, <1>1, <3>1 DEF TypeLib
    <3>3. UNCHANGED <<session, chOpen>>
      BY <2>7 DEF Settles, Answer, AnswerSettles
    <3>4. QED
      BY <3>2, <3>3 DEF AnswerInv
  <2>8. QED
    BY <2>1, <2>2, <2>3, <2>4, <2>5, <2>6, <2>7, StepMoves DEF Moves
<1>4. ASSUME NEW a \in received, NEW multiple \in BOOLEAN, Answer(a, multiple)
      PROVE  AnswerInv'
  <2> DEFINE v == RestoreIndex(a.tag)
             t == RestoreTag(a.tag)
  <2>1. /\ UNCHANGED <<session, received>> /\ session \in Session
        /\ AnswerLost(v) \/ AnswerSettles(a, v, t, multiple) \/ AnswerRefused(a, v, t)
    BY <1>0, <1>4, Zenon DEF Answer, LoopInv
  <2>2. ASSUME NEW x \in answered', x \notin answered, Timely(x), x.s = session,
               chOpen'[session][x.u], x.t \in unacked'[x.os][x.u]
        PROVE  FALSE
    <3>1. x \in received /\ v = x.u /\ (x.t = t \/ (multiple /\ x.t <= t))
      BY <1>4, <2>2, AnswerCovers
    <3>2. x.os = session /\ x.u \in Upstream
      BY <1>0, <2>2, <3>1 DEF Timely, Delivery
    <3>3. CASE AnswerLost(v)
      BY <2>2, <3>1, <3>3 DEF AnswerLost, libVars
    <3>4. CASE AnswerSettles(a, v, t, multiple)
      <4>1. unacked' = [unacked EXCEPT ![session][v] = @ \ Covered(v, t, multiple)]
        BY <3>4 DEF AnswerSettles
      <4>2. unacked'[session][v] = unacked[session][v] \ Covered(v, t, multiple)
        BY <1>0, <2>1, <3>1, <3>2, <4>1 DEF TypeLib
      <4>3. x.t \in unacked[session][v] /\ x.t \notin Covered(v, t, multiple)
        BY <2>2, <3>1, <3>2, <4>2
      <4>4. QED
        BY <3>1, <4>3, Zenon DEF Covered
    <3>5. CASE AnswerRefused(a, v, t)
      <4>1. chOpen' = [chOpen EXCEPT ![session] = [w \in Upstream |-> w \notin {v} /\ chOpen[session][w]]]
        BY <3>5 DEF AnswerRefused, CloseLib
      <4>2. chOpen'[session] = [w \in Upstream |-> w \notin {v} /\ chOpen[session][w]]
        BY <1>0, <2>1, <4>1 DEF TypeLib
      <4>3. chOpen'[session][x.u] = (x.u \notin {v} /\ chOpen[session][x.u])
        BY <3>2, <4>2
      <4>4. QED
        BY <2>2, <3>1, <4>3, Zenon
    <3>6. QED
      BY <2>1, <3>3, <3>4, <3>5
  <2>3. answered' \subseteq received'
    BY <1>4, <2>1 DEF Answer, AnswerInv
  <2>4. QED
    BY <1>3, <2>1, <2>2, <2>3 DEF AnswerInv, Timely
<1>5. CASE UNCHANGED answered
  BY <1>0, <1>3, <1>5 DEF AnswerInv, Timely
<1>6. QED
  BY <1>4, <1>5, AnsweredByAnswer

\* For any number of sessions, consumers and messages, the multiple flag settles exactly what
\* it covers when replyBasicAck's one upstream is all there is (or the client does not use
\* the flag): nothing it was not given, from a consumer that has the channel to itself, and
\* everything up to the tag it names.
THEOREM MultipleIsExact == N = 1 \/ ~Multiple => (Spec => []MultipleSettlesExactly)
<1> SUFFICES ASSUME N = 1 \/ ~Multiple PROVE Spec => []MultipleSettlesExactly
  OBVIOUS
<1>1. Init => UniqueInv /\ AnswerInv
  BY DEF Init, UniqueInv, AnswerInv, Holds, Queued, InHand
<1>2. IInv /\ StartInv /\ OkBeforeDelivery /\ OrderInv /\ UniqueInv /\ AnswerInv /\ [Next]_vars
        => (UniqueInv /\ AnswerInv)'
  BY UniqueStep, AnswerStep
<1>3. AnswerInv /\ MultipleSettlesSeen => MultipleSettlesExactly
  BY DEF AnswerInv, MultipleSettlesAll, MultipleSettlesExactly
<1>4. QED
  BY <1>1, <1>2, <1>3, WayAlways, MultipleNeedsDelivery, PTL DEF Spec

=============================================================================
