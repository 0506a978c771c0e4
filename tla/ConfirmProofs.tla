---------------------------- MODULE ConfirmProofs ----------------------------
(***************************************************************************)
(* Proofs about Confirm, for every number of upstreams, every buffer size  *)
(* and every bound.                                                        *)
(*                                                                         *)
(* ConfirmSound speaks of frames already written.  It is inductive only    *)
(* together with where the frames come from: the maps (TagInv), what a     *)
(* listener holds (HoldInv), how far each goroutine has got in the queue   *)
(* it reads (CountInv), and which session each confirmState belongs to     *)
(* (EpochInv).                                                             *)
(*                                                                         *)
(* TagsFollowClient adds the client's own count: a confirmState starts at  *)
(* zero (FreshInv), both sides count alike (SeqInv), and so does what has  *)
(* landed on the upstreams (LandedInv).  ConfirmConserved counts the       *)
(* places of one tag, the map, the hands of the main loop and of the       *)
(* listeners, and the frames written; no tag is in any of them before it   *)
(* is given out (BoundInv).                                                *)
(***************************************************************************)
EXTENDS Confirm, FiniteSetTheorems, TLAPS

\* Which session and confirmState the main loop is working on.
EpochInv ==
  /\ hasChan => session \in Session
  /\ pc \in {"select", "publish", "close"} => hasChan
  /\ pc = "publish" => i \in Upstream
  /\ pc = "close" => cs = NoEpoch
  /\ \A e \in Epoch : e <= epoch => epochOf[e] \in 1 .. session
  /\ \A e \in Epoch : e > epoch => tagMap[e] = {}
  /\ \A e \in Epoch, u \in Upstream : lpc[e][u] # "none" => e <= epoch
  /\ pc = "select" => epoch \in Epoch /\ epochOf[epoch] = session
  /\ cs # NoEpoch => hasChan /\ cs <= epoch /\ epochOf[cs] = session
  /\ cs # NoEpoch => \A u \in Upstream : confirming[session][u]
  /\ pc = "select" => \A u \in Upstream : u < i => confirming[session][u]

\* Each stage of a confirmation's way follows the one before it.
CountInv ==
  /\ \A s \in Session, u \in Upstream : Len(verdict[s][u]) <= Len(landed[s][u])
  /\ \A e \in Epoch, u \in Upstream : lpc[e][u] # "none" =>
       /\ got[e][u] <= pushed[e][u]
       /\ pushed[e][u] <= Len(verdict[epochOf[e]][u])
  /\ \A e \in Epoch, u \in Upstream : lpc[e][u] = "send" => got[e][u] >= 1

\* The publish numbered utag on e's channel to u is the one recorded as ctag.
Matches(e, u, utag, ctag) ==
  /\ utag \in 1 .. Len(landed[epochOf[e]][u])
  /\ Origin(e, u, utag).e = e
  /\ Origin(e, u, utag).ctag = ctag

\* A map entry belongs to a publish that has landed, or to the one under way.
TagInv ==
  ~closing => \A e \in Epoch : \A x \in tagMap[e] :
    \/ Matches(e, x.u, x.utag, x.ctag)
    \/ /\ pc = "publish" /\ e = cs /\ x.u = i
       /\ x.utag = Len(landed[session][i]) + 1
       /\ x.ctag = clientTag[e]

\* A listener about to send holds the tag of the publish it was told about.
HoldInv ==
  ~closing => \A e \in Epoch, u \in Upstream :
    lpc[e][u] = "send" => Matches(e, u, got[e][u], held[e][u])

\* What has been written was true then and stays true.
SentInv == ConfirmSound /\ \A r \in sent : r.e <= epoch

IInv == TypeOK /\ EpochInv /\ CountInv /\ TagInv /\ HoldInv /\ SentInv

\* The first states satisfy the invariant: nothing has been opened or sent.
LEMMA InitIInv == Init => IInv
<1> SUFFICES ASSUME Init PROVE IInv
  OBVIOUS
<1> USE ConfirmAssumption DEF Init, Upstream, Session, Epoch, NoEpoch
<1>c. hasChan \in BOOLEAN
  BY Zenon
<1>1. TypeMain /\ TypeState /\ TypeListen
  BY <1>c DEF TypeMain, TypeState, TypeListen
<1>a. TypeClient
  BY Zenon DEF TypeClient
<1>b. TypeLib
  BY DEF TypeLib
<1>2. EpochInv
  BY DEF EpochInv
<1>3. CountInv
  BY DEF CountInv
<1>4. TagInv /\ HoldInv /\ SentInv
  BY DEF TagInv, HoldInv, SentInv, ConfirmSound
<1>5. QED
  BY <1>1, <1>a, <1>b, <1>2, <1>3, <1>4 DEF IInv, TypeOK

\* The main loop's variables keep their types.
LEMMA TypeMainStep == TypeMain /\ [Next]_vars => TypeMain'
<1> SUFFICES ASSUME TypeMain, [Next]_vars PROVE TypeMain'
  OBVIOUS
<1>1. CASE ChannelOpen
  BY <1>1, ConfirmAssumption DEF ChannelOpen, TypeMain, Upstream, Session, Epoch
<1>2. CASE ConfirmSelect
  BY <1>2, ConfirmAssumption DEF ConfirmSelect, TypeMain, Upstream, Session, Epoch
<1>3. CASE SelectUpstream
  BY <1>3, ConfirmAssumption DEF SelectUpstream, TypeMain, Upstream, Session, Epoch
<1>4. CASE SelectFail
  BY <1>4, ConfirmAssumption DEF SelectFail, SendConnectionClose, TypeMain, Upstream, Session, Epoch
<1>5. CASE SelectDone
  BY <1>5, ConfirmAssumption DEF SelectDone, TypeMain, Upstream, Session, Epoch
<1>6. ASSUME NEW u \in Upstream, PublishRecord(u) PROVE TypeMain'
  BY <1>6, ConfirmAssumption DEF PublishRecord, RecordPublish, TypeMain, Upstream, Session, Epoch
<1>7. CASE PublishSend
  BY <1>7, ConfirmAssumption DEF PublishSend, TypeMain, Upstream, Session, Epoch
<1>8. CASE PublishFail
  BY <1>8, ConfirmAssumption DEF PublishFail, SendConnectionClose, TypeMain, Upstream, Session, Epoch
<1>9. CASE ChannelClose
  BY <1>9, ConfirmAssumption DEF ChannelClose, TypeMain, Upstream, Session, Epoch, NoEpoch
<1>10. CASE CloseUpstream
  BY <1>10, ConfirmAssumption DEF CloseUpstream, TypeMain, Upstream, Session, Epoch
<1>11. CASE CloseFail
  BY <1>11, ConfirmAssumption DEF CloseFail, TypeMain, Upstream, Session, Epoch
<1>12. CASE CloseDone
  <2>1. hasChan' \in BOOLEAN
    BY <1>12, Zenon DEF CloseDone
  <2>2. QED
    BY <1>12, <2>1, ConfirmAssumption DEF CloseDone, TypeMain
<1>13. CASE MainExit
  BY <1>13, ConfirmAssumption DEF MainExit, TypeMain, Upstream, Session, Epoch
<1>14. CASE ProxyClose
  BY <1>14, ConfirmAssumption DEF ProxyClose, TypeMain, Upstream, Session, Epoch
<1>15. CASE ConnClose
  BY <1>15, ConfirmAssumption DEF ConnClose, TypeMain, Upstream, Session, Epoch
<1>16. CASE UNCHANGED mainVars
  BY <1>16 DEF TypeMain, mainVars
<1>17. QED
  BY <1>1, <1>2, <1>3, <1>4, <1>5, <1>6, <1>7, <1>8, <1>9, <1>10, <1>11, <1>12, <1>13, <1>14, <1>15, <1>16
  DEF Next, MainNext, ListenNext, vars, ClientGone, BrokerConfirm, BrokerCloseChannel, ReaderPush, ListenRecv, ListenSend, ListenFail, ListenEnd, mainVars, stateVars, clientVars, libVars, listenVars

\* The confirmStates keep their types.
LEMMA TypeStateStep == TypeOK /\ EpochInv /\ [Next]_vars => TypeState'
<1> SUFFICES ASSUME TypeMain, TypeState, TypeLib, TypeListen, EpochInv, [Next]_vars PROVE TypeState'
  BY DEF TypeOK
<1>1. ASSUME NEW u \in Upstream, PublishRecord(u) PROVE TypeState'
  <2>1. CASE cs = NoEpoch
    BY <1>1, <2>1 DEF PublishRecord, TypeState, stateVars
  <2>2. CASE cs # NoEpoch
    <3>1. cs \in Epoch
      BY <2>2, ConfirmAssumption DEF TypeMain, Epoch, NoEpoch
    <3>2. RecordPublish(cs, u, Len(landed[session][u]) + 1)
      BY <1>1, <2>2 DEF PublishRecord
    <3>3. Len(landed[session][u]) + 1 \in Nat
      BY <1>1 DEF PublishRecord, EpochInv, TypeLib
    <3>4. [u |-> u, utag |-> Len(landed[session][u]) + 1, ctag |-> clientTag[cs] + 1] \in Entry
      BY <3>1, <3>3 DEF TypeState, Entry
    <3>5. QED
      BY <3>1, <3>2, <3>4 DEF RecordPublish, TypeState
  <2>3. QED
    BY <2>1, <2>2
<1>2. ASSUME NEW e \in Epoch, NEW u \in Upstream, ListenRecv(e, u) PROVE TypeState'
  BY <1>2, ConfirmAssumption DEF ListenRecv, Found, TypeMain, TypeState, TypeLib, Entry, Upstream, Session, Epoch, NoEpoch
<1>3. CASE UNCHANGED stateVars
  BY <1>3 DEF TypeState, stateVars
<1>4. QED
  BY <1>1, <1>2, <1>3
  DEF Next, MainNext, ListenNext, vars, ChannelOpen, ConfirmSelect, SelectUpstream, SelectFail, SendConnectionClose, SelectDone, PublishSend, PublishFail, ChannelClose, CloseUpstream, CloseFail, CloseDone, MainExit, ProxyClose, ConnClose, ClientGone, BrokerConfirm, BrokerCloseChannel, ReaderPush, ListenSend, ListenFail, ListenEnd, mainVars, stateVars, clientVars, libVars, listenVars

\* The client's side keeps its types.
LEMMA TypeClientStep == TypeOK /\ EpochInv /\ CountInv /\ [Next]_vars => TypeClient'
<1> SUFFICES ASSUME TypeOK, EpochInv, CountInv, [Next]_vars PROVE TypeClient'
  OBVIOUS
<1>1. CASE ChannelOpen
  BY <1>1, ConfirmAssumption DEF ChannelOpen, TypeClient, TypeOK
<1>2. CASE SelectFail
  BY <1>2, ConfirmAssumption DEF SelectFail, SendConnectionClose, TypeClient, TypeOK
<1>3. ASSUME NEW u \in Upstream, PublishRecord(u) PROVE TypeClient'
  BY <1>3, ConfirmAssumption DEF PublishRecord, RecordPublish, TypeClient, TypeOK
<1>4. CASE PublishFail
  BY <1>4, ConfirmAssumption DEF PublishFail, SendConnectionClose, TypeClient, TypeOK
<1>5. CASE ChannelClose
  BY <1>5, ConfirmAssumption DEF ChannelClose, TypeClient, TypeOK
<1>6. CASE ClientGone
  BY <1>6, ConfirmAssumption DEF ClientGone, TypeClient, TypeOK
<1>7. CASE ConnClose
  BY <1>7, ConfirmAssumption DEF ConnClose, TypeClient, TypeOK
<1>8. ASSUME NEW e \in Epoch, NEW u \in Upstream, ListenSend(e, u) PROVE TypeClient'
  <2> DEFINE r == [e |-> e, u |-> u, utag |-> got[e][u], ctag |-> held[e][u],
                    ack |-> verdict[epochOf[e]][u][got[e][u]],
                    session |-> session, seen |-> chanSeen, late |-> closing]
  <2>1. epochOf[e] \in Session
    BY <1>8 DEF ListenSend, EpochInv, TypeOK, TypeMain, Session, Epoch
  <2>2. got[e][u] \in 1 .. Len(verdict[epochOf[e]][u])
    <3>1. lpc[e][u] = "send"
      BY <1>8 DEF ListenSend
    <3>2. got[e][u] \in Nat /\ pushed[e][u] \in Nat
      BY <1>8 DEF TypeOK, TypeListen
    <3>3. Len(verdict[epochOf[e]][u]) \in Nat
      BY <1>8, <2>1 DEF TypeOK, TypeLib
    <3>4. QED
      BY <1>8, <3>1, <3>2, <3>3 DEF CountInv
  <2>3. verdict[epochOf[e]][u][got[e][u]] \in BOOLEAN
    BY <2>1, <2>2 DEF TypeOK, TypeLib
  <2>4. r \in Sent
    BY <2>3 DEF Sent, TypeOK, TypeListen, TypeMain, TypeClient
  <2>5. QED
    BY <1>8, <2>4 DEF ListenSend, TypeOK, TypeClient
<1>9. CASE UNCHANGED clientVars
  BY <1>9 DEF TypeOK, TypeClient, clientVars
<1>10. QED
  BY <1>1, <1>2, <1>3, <1>4, <1>5, <1>6, <1>7, <1>8, <1>9
  DEF Next, MainNext, ListenNext, vars, ConfirmSelect, SelectUpstream, SelectDone, PublishSend, CloseUpstream, CloseFail, CloseDone, MainExit, ProxyClose, BrokerConfirm, BrokerCloseChannel, ReaderPush, ListenRecv, ListenFail, ListenEnd, mainVars, stateVars, clientVars, libVars, listenVars

\* The upstream channels keep their types.
LEMMA TypeLibStep == TypeOK /\ EpochInv /\ [Next]_vars => TypeLib'
<1> SUFFICES ASSUME TypeOK, EpochInv, [Next]_vars PROVE TypeLib'
  OBVIOUS
<1>1. CASE ChannelOpen
  BY <1>1, ConfirmAssumption DEF ChannelOpen, TypeLib, TypeOK, Upstream, Session, Epoch
<1>2. CASE SelectUpstream
  BY <1>2, ConfirmAssumption DEF SelectUpstream, TypeLib, TypeOK, Upstream, Session, Epoch
<1>3. CASE PublishSend
  <2> DEFINE m == [e    |-> cs,
                    ctag |-> IF cs = NoEpoch THEN 0 ELSE clientTag[cs],
                    seq  |-> seqNo]
  <2>1. m \in Publish
    BY ConfirmAssumption DEF Publish, TypeOK, TypeMain, TypeState, TypeClient, Epoch, NoEpoch
  <2>2. session \in Session /\ i \in Upstream
    BY <1>3 DEF PublishSend, EpochInv
  <2>3. Append(landed[session][i], m) \in Seq(Publish)
    BY <2>1, <2>2 DEF TypeOK, TypeLib
  <2>4. landed' \in [Session -> [Upstream -> Seq(Publish)]]
    BY <1>3, <2>3 DEF PublishSend, TypeOK, TypeLib
  <2>5. QED
    BY <1>3, <2>4 DEF PublishSend, TypeOK, TypeLib
<1>4. CASE CloseUpstream
  BY <1>4, ConfirmAssumption DEF CloseUpstream, TypeLib, TypeOK, Upstream, Session, Epoch
<1>5. CASE ProxyClose
  BY <1>5, ConfirmAssumption DEF ProxyClose, TypeLib, TypeOK, Upstream, Session, Epoch
<1>6. ASSUME NEW s \in Session, NEW u \in Upstream, BrokerConfirm(s, u) PROVE TypeLib'
  <2>1. PICK ack \in BOOLEAN : verdict' = [verdict EXCEPT ![s][u] = Append(@, ack)]
    BY <1>6 DEF BrokerConfirm
  <2>2. Append(verdict[s][u], ack) \in Seq(BOOLEAN)
    BY <1>6, <2>1 DEF TypeOK, TypeLib
  <2>3. verdict' \in [Session -> [Upstream -> Seq(BOOLEAN)]]
    BY <1>6, <2>1, <2>2 DEF TypeOK, TypeLib
  <2>4. QED
    BY <1>6, <2>3 DEF BrokerConfirm, TypeOK, TypeLib
<1>7. ASSUME NEW s \in Session, NEW u \in Upstream, BrokerCloseChannel(s, u) PROVE TypeLib'
  BY <1>7, ConfirmAssumption DEF BrokerCloseChannel, TypeLib, TypeOK, Upstream, Session, Epoch
<1>8. CASE UNCHANGED libVars
  BY <1>8 DEF TypeOK, TypeLib, libVars
<1>9. QED
  BY <1>1, <1>2, <1>3, <1>4, <1>5, <1>6, <1>7, <1>8
  DEF Next, MainNext, ListenNext, vars, ConfirmSelect, SelectFail, SendConnectionClose, SelectDone, PublishFail, ChannelClose, CloseFail, CloseDone, MainExit, ConnClose, ClientGone, PublishRecord, ReaderPush, ListenRecv, ListenSend, ListenFail, ListenEnd, mainVars, stateVars, clientVars, libVars, listenVars

\* The listeners keep their types.
LEMMA TypeListenStep == TypeOK /\ EpochInv /\ [Next]_vars => TypeListen'
<1> SUFFICES ASSUME TypeOK, EpochInv, [Next]_vars PROVE TypeListen'
  OBVIOUS
<1>1. CASE SelectUpstream
  <2>1. session \in Session /\ i \in Upstream
    BY <1>1, ConfirmAssumption DEF SelectUpstream, TypeOK, TypeMain, EpochInv, Upstream
  <2>2. Len(verdict[session][i]) \in Nat
    BY <2>1 DEF TypeOK, TypeLib
  <2>3. QED
    BY <1>1, <2>2 DEF SelectUpstream, TypeOK, TypeListen
<1>2. ASSUME NEW e \in Epoch, NEW u \in Upstream, ReaderPush(e, u) PROVE TypeListen'
  BY <1>2, ConfirmAssumption DEF ReaderPush, TypeListen, TypeOK
<1>3. ASSUME NEW e \in Epoch, NEW u \in Upstream, ListenRecv(e, u) PROVE TypeListen'
  <2>1. \A x \in Found(e, u, got[e][u] + 1) : x.ctag \in Nat
    BY <1>3 DEF Found, TypeOK, TypeState, Entry
  <2>2. QED
    <3>1. got' \in [Epoch -> [Upstream -> Nat]] /\ pushed' = pushed
      BY <1>3 DEF ListenRecv, TypeOK, TypeListen
    <3>2. CASE Found(e, u, got[e][u] + 1) = {} /\ UNCHANGED <<lpc, held>>
      BY <3>1, <3>2 DEF TypeOK, TypeListen
    <3>3. CASE \E x \in Found(e, u, got[e][u] + 1) :
                 /\ held' = [held EXCEPT ![e][u] = x.ctag]
                 /\ lpc' = [lpc EXCEPT ![e][u] = "send"]
      BY <1>3, <2>1, <3>1, <3>3 DEF TypeOK, TypeListen
    <3>4. QED
      BY <1>3, <3>2, <3>3 DEF ListenRecv
<1>4. ASSUME NEW e \in Epoch, NEW u \in Upstream, ListenSend(e, u) PROVE TypeListen'
  BY <1>4, ConfirmAssumption DEF ListenSend, TypeListen, TypeOK
<1>5. ASSUME NEW e \in Epoch, NEW u \in Upstream, ListenFail(e, u) PROVE TypeListen'
  BY <1>5, ConfirmAssumption DEF ListenFail, TypeListen, TypeOK
<1>6. ASSUME NEW e \in Epoch, NEW u \in Upstream, ListenEnd(e, u) PROVE TypeListen'
  BY <1>6, ConfirmAssumption DEF ListenEnd, TypeListen, TypeOK
<1>7. CASE UNCHANGED listenVars
  BY <1>7 DEF TypeOK, TypeListen, listenVars
<1>8. QED
  BY <1>1, <1>2, <1>3, <1>4, <1>5, <1>6, <1>7
  DEF Next, MainNext, ListenNext, vars, ChannelOpen, ConfirmSelect, SelectFail, SendConnectionClose, SelectDone, PublishSend, PublishFail, ChannelClose, CloseUpstream, CloseFail, CloseDone, MainExit, ProxyClose, ConnClose, ClientGone, PublishRecord, BrokerConfirm, BrokerCloseChannel, mainVars, stateVars, clientVars, libVars, listenVars

\* The main loop keeps to one session and one confirmState at a time.
LEMMA EpochStep == IInv /\ [Next]_vars => EpochInv'
<1> SUFFICES ASSUME TypeMain, TypeState, TypeLib, TypeListen, EpochInv, [Next]_vars PROVE EpochInv'
  BY DEF IInv, TypeOK
<1> USE DEF mainVars, stateVars, clientVars, libVars, listenVars
<1>1. CASE ChannelOpen
  <2>1. cs = NoEpoch /\ session' \in Session
    <3>1. cs = NoEpoch
      BY <1>1 DEF ChannelOpen, EpochInv
    <3>2. session + 1 \in Session
      BY <1>1, ConfirmAssumption DEF ChannelOpen, TypeMain, Session
    <3>3. QED
      BY <1>1, <3>1, <3>2 DEF ChannelOpen
  <2>2. \A e \in Epoch : e <= epoch => epochOf[e] \in 1 .. session'
    BY <1>1 DEF ChannelOpen, EpochInv, TypeMain
  <2>3. QED
    BY <1>1, <2>1, <2>2 DEF ChannelOpen, EpochInv
<1>2. CASE ConfirmSelect
  <2>1. /\ session \in Session
        /\ epoch' \in Epoch
        /\ epochOf'[epoch'] = session
    <3>1. session \in Session /\ epoch + 1 \in Epoch
      BY <1>2, ConfirmAssumption DEF ConfirmSelect, EpochInv, TypeMain, Epoch
    <3>2. QED
      BY <1>2, <3>1 DEF ConfirmSelect, TypeMain
  <2>2. \A e \in Epoch : e <= epoch => epochOf'[e] = epochOf[e]
    BY <1>2 DEF ConfirmSelect, TypeMain, Epoch
  <2>3. \A e \in Epoch : e <= epoch' => e <= epoch \/ e = epoch'
    BY <1>2 DEF ConfirmSelect, TypeMain, Epoch
  <2>4. \A e \in Epoch : e <= epoch' => epochOf'[e] \in 1 .. session
    BY <2>1, <2>2, <2>3 DEF EpochInv, Session
  <2>5. /\ \A e \in Epoch : e > epoch' => e > epoch
        /\ \A e \in Epoch : e <= epoch => e <= epoch'
    BY <1>2 DEF ConfirmSelect, TypeMain, Epoch
  <2>6. cs # NoEpoch => cs \in Epoch
    BY DEF TypeMain, Epoch, NoEpoch
  <2>7. \A u \in Upstream : ~(u < 0)
    BY ConfirmAssumption DEF Upstream
  <2>8. QED
    BY <1>2, <2>1, <2>2, <2>4, <2>5, <2>6, <2>7 DEF ConfirmSelect, EpochInv
<1>3. CASE SelectUpstream
  <2>1. session \in Session /\ i \in Upstream /\ epoch \in Epoch
    BY <1>3, ConfirmAssumption DEF SelectUpstream, EpochInv, TypeMain, Upstream
  <2>2. \A e \in Epoch, u \in Upstream : lpc'[e][u] # "none" => e <= epoch
    BY <1>3, <2>1 DEF SelectUpstream, EpochInv, TypeMain, TypeListen, Epoch
  <2>3. /\ confirming'[session][i]
        /\ \A u \in Upstream : confirming[session][u] => confirming'[session][u]
    BY <1>3, <2>1 DEF SelectUpstream, TypeLib
  <2>4. \A u \in Upstream : u < i + 1 => u < i \/ u = i
    BY <2>1 DEF Upstream
  <2>5. QED
    BY <1>3, <2>1, <2>2, <2>3, <2>4 DEF SelectUpstream, EpochInv
<1>4. CASE SelectFail
  BY <1>4, ConfirmAssumption DEF SelectFail, SendConnectionClose, EpochInv, TypeMain, Upstream, Session, Epoch, NoEpoch
<1>5. CASE SelectDone
  BY <1>5, ConfirmAssumption DEF SelectDone, EpochInv, TypeMain, Upstream, Session, Epoch, NoEpoch
<1>6. CASE PublishSend
  BY <1>6, ConfirmAssumption DEF PublishSend, EpochInv, TypeMain, Upstream, Session, Epoch, NoEpoch
<1>7. CASE PublishFail
  BY <1>7, ConfirmAssumption DEF PublishFail, SendConnectionClose, EpochInv, TypeMain, Upstream, Session, Epoch, NoEpoch
<1>8. CASE ChannelClose
  BY <1>8, ConfirmAssumption DEF ChannelClose, EpochInv, TypeMain, Upstream, Session, Epoch, NoEpoch
<1>9. CASE CloseUpstream
  BY <1>9, ConfirmAssumption DEF CloseUpstream, EpochInv, TypeMain, Upstream, Session, Epoch, NoEpoch
<1>10. CASE CloseFail
  BY <1>10, ConfirmAssumption DEF CloseFail, EpochInv, TypeMain, Upstream, Session, Epoch, NoEpoch
<1>11. CASE CloseDone
  BY <1>11, ConfirmAssumption DEF CloseDone, EpochInv, TypeMain, Upstream, Session, Epoch, NoEpoch
<1>12. CASE MainExit
  BY <1>12, ConfirmAssumption DEF MainExit, EpochInv, TypeMain, Upstream, Session, Epoch, NoEpoch
<1>13. CASE ProxyClose
  BY <1>13, ConfirmAssumption DEF ProxyClose, EpochInv, TypeMain, Upstream, Session, Epoch, NoEpoch
<1>14. CASE ConnClose
  BY <1>14, ConfirmAssumption DEF ConnClose, EpochInv, TypeMain, Upstream, Session, Epoch, NoEpoch
<1>15. CASE ClientGone
  BY <1>15, ConfirmAssumption DEF ClientGone, EpochInv, TypeMain, Upstream, Session, Epoch, NoEpoch
<1>16. ASSUME NEW u \in Upstream, PublishRecord(u) PROVE EpochInv'
  <2>1. \A e \in Epoch : e > epoch => tagMap'[e] = {}
    BY <1>16, ConfirmAssumption
    DEF PublishRecord, RecordPublish, EpochInv, TypeMain, TypeState, Epoch, NoEpoch
  <2>2. QED
    BY <1>16, <2>1 DEF PublishRecord, EpochInv
<1>17. ASSUME NEW s \in Session, NEW u \in Upstream, BrokerConfirm(s, u) PROVE EpochInv'
  BY <1>17, ConfirmAssumption DEF BrokerConfirm, EpochInv, TypeMain, Upstream, Session, Epoch, NoEpoch
<1>18. ASSUME NEW s \in Session, NEW u \in Upstream, BrokerCloseChannel(s, u) PROVE EpochInv'
  BY <1>18, ConfirmAssumption DEF BrokerCloseChannel, EpochInv, TypeMain, Upstream, Session, Epoch, NoEpoch
<1>19. ASSUME NEW e \in Epoch, NEW u \in Upstream, ReaderPush(e, u) PROVE EpochInv'
  BY <1>19, ConfirmAssumption DEF ReaderPush, EpochInv, TypeMain, Upstream, Session, Epoch, NoEpoch
<1>20. ASSUME NEW e \in Epoch, NEW u \in Upstream, ListenRecv(e, u) PROVE EpochInv'
  <2>1. \A d \in Epoch : d > epoch => tagMap'[d] = {}
    BY <1>20 DEF ListenRecv, EpochInv, TypeState
  <2>2. e <= epoch
    BY <1>20 DEF ListenRecv, EpochInv
  <2>3. lpc' = lpc \/ lpc' = [lpc EXCEPT ![e][u] = "send"]
    BY <1>20 DEF ListenRecv
  <2>4. \A d \in Epoch, v \in Upstream : lpc'[d][v] # "none" => d <= epoch
    BY <1>20, <2>2, <2>3 DEF EpochInv, TypeListen
  <2>5. QED
    BY <1>20, <2>1, <2>4 DEF ListenRecv, EpochInv
<1>21. ASSUME NEW e \in Epoch, NEW u \in Upstream, ListenSend(e, u) PROVE EpochInv'
  BY <1>21, ConfirmAssumption DEF ListenSend, EpochInv, TypeMain, Upstream, Session, Epoch, NoEpoch
<1>22. ASSUME NEW e \in Epoch, NEW u \in Upstream, ListenFail(e, u) PROVE EpochInv'
  BY <1>22, ConfirmAssumption DEF ListenFail, EpochInv, TypeMain, Upstream, Session, Epoch, NoEpoch
<1>23. ASSUME NEW e \in Epoch, NEW u \in Upstream, ListenEnd(e, u) PROVE EpochInv'
  BY <1>23, ConfirmAssumption DEF ListenEnd, EpochInv, TypeMain, Upstream, Session, Epoch, NoEpoch
<1>24. CASE UNCHANGED vars
  BY <1>24 DEF vars, EpochInv
<1>25. QED
  BY <1>1, <1>2, <1>3, <1>4, <1>5, <1>6, <1>7, <1>8, <1>9, <1>10, <1>11, <1>12, <1>13, <1>14, <1>15, <1>16, <1>17, <1>18, <1>19, <1>20, <1>21, <1>22, <1>23, <1>24
  DEF Next, MainNext, ListenNext

\* No stage of a confirmation overtakes the one before it.
LEMMA CountStep == IInv /\ [Next]_vars => CountInv'
<1> SUFFICES ASSUME TypeMain, TypeState, TypeLib, TypeListen, EpochInv, CountInv, [Next]_vars PROVE CountInv'
  BY DEF IInv, TypeOK
<1> USE DEF mainVars, stateVars, clientVars, libVars, listenVars
<1>1. CASE ChannelOpen
  BY <1>1 DEF ChannelOpen, CountInv, EpochInv, TypeLib, TypeListen
<1>2. CASE ConfirmSelect
  <2>1. \A e \in Epoch, u \in Upstream : lpc[e][u] # "none" => epochOf'[e] = epochOf[e]
    BY <1>2 DEF ConfirmSelect, EpochInv, TypeMain, Epoch
  <2>2. QED
    BY <1>2, <2>1 DEF ConfirmSelect, CountInv
<1>3. CASE SelectUpstream
  <2>1. session \in Session /\ i \in Upstream /\ epoch \in Epoch
    BY <1>3, ConfirmAssumption DEF SelectUpstream, EpochInv, TypeMain, Upstream
  <2>2. epochOf[epoch] = session
    BY <1>3 DEF SelectUpstream, EpochInv
  <2>3. Len(verdict[session][i]) \in Nat
    BY <2>1 DEF TypeLib
  <2>4. ASSUME NEW e \in Epoch, NEW u \in Upstream
        PROVE  \/ e = epoch /\ u = i
               \/ lpc'[e][u] = lpc[e][u] /\ pushed'[e][u] = pushed[e][u] /\ got'[e][u] = got[e][u]
    BY <1>3, <2>1 DEF SelectUpstream, TypeListen
  <2>5. /\ lpc'[epoch][i] = "recv"
        /\ pushed'[epoch][i] = Len(verdict[session][i])
        /\ got'[epoch][i] = Len(verdict[session][i])
    BY <1>3, <2>1 DEF SelectUpstream, TypeListen
  <2>6. QED
    BY <1>3, <2>2, <2>3, <2>4, <2>5 DEF SelectUpstream, CountInv
<1>4. CASE SelectFail
  BY <1>4 DEF SelectFail, SendConnectionClose, CountInv, EpochInv, TypeLib, TypeListen
<1>5. CASE SelectDone
  BY <1>5 DEF SelectDone, CountInv, EpochInv, TypeLib, TypeListen
<1>6. CASE PublishSend
  BY <1>6 DEF PublishSend, CountInv, EpochInv, TypeLib, TypeListen
<1>7. CASE PublishFail
  BY <1>7 DEF PublishFail, SendConnectionClose, CountInv, EpochInv, TypeLib, TypeListen
<1>8. CASE ChannelClose
  BY <1>8 DEF ChannelClose, CountInv, EpochInv, TypeLib, TypeListen
<1>9. CASE CloseUpstream
  BY <1>9 DEF CloseUpstream, CountInv, EpochInv, TypeLib, TypeListen
<1>10. CASE CloseFail
  BY <1>10 DEF CloseFail, CountInv, EpochInv, TypeLib, TypeListen
<1>11. CASE CloseDone
  BY <1>11 DEF CloseDone, CountInv, EpochInv, TypeLib, TypeListen
<1>12. CASE MainExit
  BY <1>12 DEF MainExit, CountInv, EpochInv, TypeLib, TypeListen
<1>13. CASE ProxyClose
  BY <1>13 DEF ProxyClose, CountInv, EpochInv, TypeLib, TypeListen
<1>14. CASE ConnClose
  BY <1>14 DEF ConnClose, CountInv, EpochInv, TypeLib, TypeListen
<1>15. CASE ClientGone
  BY <1>15 DEF ClientGone, CountInv, EpochInv, TypeLib, TypeListen
<1>16. ASSUME NEW u \in Upstream, PublishRecord(u) PROVE CountInv'
  BY <1>16 DEF PublishRecord, RecordPublish, CountInv, EpochInv, TypeLib, TypeListen
<1>17. ASSUME NEW s \in Session, NEW u \in Upstream, BrokerConfirm(s, u) PROVE CountInv'
  <2>1. PICK ack \in BOOLEAN : verdict' = [verdict EXCEPT ![s][u] = Append(@, ack)]
    BY <1>17 DEF BrokerConfirm
  <2>2. Len(Append(verdict[s][u], ack)) = Len(verdict[s][u]) + 1
    BY <1>17 DEF TypeLib
  <2>3. Len(verdict[s][u]) \in Nat /\ Len(landed[s][u]) \in Nat
    BY <1>17 DEF TypeLib
  <2>4. ASSUME NEW t \in Session, NEW v \in Upstream
        PROVE  \/ t = s /\ v = u /\ Len(verdict'[t][v]) = Len(verdict[s][u]) + 1
               \/ verdict'[t][v] = verdict[t][v]
    BY <1>17, <2>1, <2>2 DEF TypeLib
  <2>5. \A t \in Session, v \in Upstream : Len(verdict'[t][v]) <= Len(landed[t][v])
    BY <1>17, <2>3, <2>4 DEF BrokerConfirm, CountInv
  <2>6. ASSUME NEW e \in Epoch, NEW v \in Upstream, lpc[e][v] # "none"
        PROVE  pushed[e][v] <= Len(verdict'[epochOf[e]][v])
    <3>1. epochOf[e] \in Session
      BY <2>6 DEF EpochInv, TypeMain, Session
    <3>2. pushed[e][v] \in Nat /\ pushed[e][v] <= Len(verdict[epochOf[e]][v])
      BY <2>6 DEF CountInv, TypeListen
    <3>3. QED
      BY <2>3, <2>4, <3>1, <3>2
  <2>7. QED
    BY <1>17, <2>5, <2>6 DEF BrokerConfirm, CountInv
<1>18. ASSUME NEW s \in Session, NEW u \in Upstream, BrokerCloseChannel(s, u) PROVE CountInv'
  BY <1>18 DEF BrokerCloseChannel, CountInv, EpochInv, TypeLib, TypeListen
<1>19. ASSUME NEW e \in Epoch, NEW u \in Upstream, ReaderPush(e, u) PROVE CountInv'
  <2>1. got[e][u] \in Nat /\ pushed[e][u] \in Nat /\ pushed[e][u] + 1 <= Len(verdict[epochOf[e]][u])
    <3>1. epochOf[e] \in Session
      BY <1>19 DEF ReaderPush, EpochInv, TypeMain, Session
    <3>2. Len(verdict[epochOf[e]][u]) \in Nat
      BY <1>19, <3>1 DEF TypeLib
    <3>3. QED
      BY <1>19, <3>2 DEF ReaderPush, TypeListen
  <2>2. ASSUME NEW d \in Epoch, NEW v \in Upstream
        PROVE  \/ d = e /\ v = u /\ pushed'[d][v] = pushed[e][u] + 1
               \/ pushed'[d][v] = pushed[d][v]
    BY <1>19 DEF ReaderPush, TypeListen
  <2>3. QED
    BY <1>19, <2>1, <2>2 DEF ReaderPush, CountInv
<1>20. ASSUME NEW e \in Epoch, NEW u \in Upstream, ListenRecv(e, u) PROVE CountInv'
  <2>1. lpc' = lpc \/ lpc' = [lpc EXCEPT ![e][u] = "send"]
    BY <1>20 DEF ListenRecv
  <2>2. /\ got[e][u] \in Nat /\ pushed[e][u] \in Nat
        /\ got[e][u] + 1 <= pushed[e][u] /\ got[e][u] + 1 >= 1
    BY <1>20 DEF ListenRecv, TypeListen
  <2>3. ASSUME NEW d \in Epoch, NEW v \in Upstream
        PROVE  \/ d = e /\ v = u /\ got'[d][v] = got[e][u] + 1
               \/ got'[d][v] = got[d][v] /\ lpc'[d][v] = lpc[d][v]
    BY <1>20, <2>1 DEF ListenRecv, TypeListen
  <2>4. lpc[e][u] = "recv"
    BY <1>20 DEF ListenRecv
  <2>5. QED
    BY <1>20, <2>2, <2>3, <2>4 DEF ListenRecv, CountInv
<1>21. ASSUME NEW e \in Epoch, NEW u \in Upstream, ListenSend(e, u) PROVE CountInv'
  BY <1>21 DEF ListenSend, CountInv, EpochInv, TypeLib, TypeListen
<1>22. ASSUME NEW e \in Epoch, NEW u \in Upstream, ListenFail(e, u) PROVE CountInv'
  BY <1>22 DEF ListenFail, CountInv, EpochInv, TypeLib, TypeListen
<1>23. ASSUME NEW e \in Epoch, NEW u \in Upstream, ListenEnd(e, u) PROVE CountInv'
  BY <1>23 DEF ListenEnd, CountInv, EpochInv, TypeLib, TypeListen
<1>24. CASE UNCHANGED vars
  BY <1>24 DEF vars, CountInv
<1>25. QED
  BY <1>1, <1>2, <1>3, <1>4, <1>5, <1>6, <1>7, <1>8, <1>9, <1>10, <1>11, <1>12, <1>13, <1>14, <1>15, <1>16, <1>17, <1>18, <1>19, <1>20, <1>21, <1>22, <1>23, <1>24
  DEF Next, MainNext, ListenNext

\* A confirmState never changes its session.
LEMMA EpochFixed ==
  IInv /\ [Next]_vars =>
    \A e \in Epoch : e <= epoch => epochOf'[e] = epochOf[e] /\ e <= epoch'
<1> SUFFICES ASSUME TypeMain, [Next]_vars
             PROVE  \A e \in Epoch : e <= epoch => epochOf'[e] = epochOf[e] /\ e <= epoch'
  BY DEF IInv, TypeOK
<1>1. CASE ConfirmSelect
  BY <1>1 DEF ConfirmSelect, TypeMain, Epoch
<1>2. CASE UNCHANGED <<epoch, epochOf>>
  BY <1>2
<1>3. QED
  BY <1>1, <1>2
  DEF Next, MainNext, ListenNext, PublishSend, mainVars, vars,
      ChannelOpen, SelectUpstream, SelectFail, SelectDone, PublishFail,
      ChannelClose, CloseUpstream, CloseFail, CloseDone, MainExit, ProxyClose, ConnClose,
      ClientGone, PublishRecord, BrokerConfirm, BrokerCloseChannel, ReaderPush,
      ListenRecv, ListenSend, ListenFail, ListenEnd, SendConnectionClose

\* The upstream channels only ever add to what they have numbered.
LEMMA LandedGrows ==
  IInv /\ [Next]_vars =>
    \A s \in Session, u \in Upstream : \A k \in 1 .. Len(landed[s][u]) :
      k \in 1 .. Len(landed'[s][u]) /\ landed'[s][u][k] = landed[s][u][k]
<1> DEFINE Goal == \A s \in Session, u \in Upstream : \A k \in 1 .. Len(landed[s][u]) :
                     k \in 1 .. Len(landed'[s][u]) /\ landed'[s][u][k] = landed[s][u][k]
<1> SUFFICES ASSUME TypeOK, EpochInv, [Next]_vars PROVE Goal
  BY DEF IInv
<1>1. CASE PublishSend
  <2> DEFINE m == [e    |-> cs,
                   ctag |-> IF cs = NoEpoch THEN 0 ELSE clientTag[cs],
                   seq  |-> seqNo]
  <2>1. session \in Session /\ i \in Upstream
    BY <1>1 DEF PublishSend, EpochInv
  <2>2. m \in Publish
    BY ConfirmAssumption DEF Publish, TypeOK, TypeMain, TypeState, TypeClient, Epoch, NoEpoch
  <2>3. landed' = landed \/ landed' = [landed EXCEPT ![session][i] = Append(@, m)]
    BY <1>1 DEF PublishSend
  <2> HIDE DEF m
  <2>4. /\ Len(Append(landed[session][i], m)) = Len(landed[session][i]) + 1
        /\ Len(landed[session][i]) \in Nat
        /\ \A k \in 1 .. Len(landed[session][i]) :
             Append(landed[session][i], m)[k] = landed[session][i][k]
    BY <2>1, <2>2 DEF TypeOK, TypeLib
  <2>5. CASE landed' = [landed EXCEPT ![session][i] = Append(@, m)]
    <3>1. ASSUME NEW s \in Session, NEW u \in Upstream
          PROVE  \/ s = session /\ u = i /\ landed'[s][u] = Append(landed[session][i], m)
                 \/ landed'[s][u] = landed[s][u]
      BY <2>1, <2>5 DEF TypeOK, TypeLib
    <3>2. QED
      BY <2>4, <3>1
  <2>6. QED
    BY <2>3, <2>5
<1>2. CASE UNCHANGED landed
  BY <1>2
<1>3. QED
  BY <1>1, <1>2
  DEF Next, MainNext, ListenNext, libVars, vars,
      ChannelOpen, ConfirmSelect, SelectUpstream, SelectFail, SelectDone, PublishFail,
      ChannelClose, CloseUpstream, CloseFail, CloseDone, MainExit, ProxyClose, ConnClose,
      ClientGone, PublishRecord, BrokerConfirm, BrokerCloseChannel, ReaderPush,
      ListenRecv, ListenSend, ListenFail, ListenEnd, SendConnectionClose

\* A broker's verdict is final.
LEMMA VerdictGrows ==
  IInv /\ [Next]_vars =>
    \A s \in Session, u \in Upstream : \A k \in 1 .. Len(verdict[s][u]) :
      k \in 1 .. Len(verdict'[s][u]) /\ verdict'[s][u][k] = verdict[s][u][k]
<1> DEFINE Goal == \A s \in Session, u \in Upstream : \A k \in 1 .. Len(verdict[s][u]) :
                     k \in 1 .. Len(verdict'[s][u]) /\ verdict'[s][u][k] = verdict[s][u][k]
<1> SUFFICES ASSUME TypeLib, [Next]_vars PROVE Goal
  BY DEF IInv, TypeOK
<1>1. ASSUME NEW s \in Session, NEW u \in Upstream, BrokerConfirm(s, u) PROVE Goal
  <2>1. PICK ack \in BOOLEAN : verdict' = [verdict EXCEPT ![s][u] = Append(@, ack)]
    BY <1>1 DEF BrokerConfirm
  <2>2. /\ Len(Append(verdict[s][u], ack)) = Len(verdict[s][u]) + 1
        /\ Len(verdict[s][u]) \in Nat
        /\ \A k \in 1 .. Len(verdict[s][u]) :
             Append(verdict[s][u], ack)[k] = verdict[s][u][k]
    BY <1>1 DEF TypeLib
  <2>3. QED
    BY <1>1, <2>1, <2>2 DEF TypeLib
<1>2. CASE UNCHANGED verdict
  BY <1>2
<1>3. QED
  BY <1>1, <1>2
  DEF Next, MainNext, ListenNext, PublishSend, libVars, vars,
      ChannelOpen, ConfirmSelect, SelectUpstream, SelectFail, SelectDone, PublishFail,
      ChannelClose, CloseUpstream, CloseFail, CloseDone, MainExit, ProxyClose, ConnClose,
      ClientGone, PublishRecord, BrokerCloseChannel, ReaderPush,
      ListenRecv, ListenSend, ListenFail, ListenEnd, SendConnectionClose

\* Once a publish has landed under a tag, it stays there.
LEMMA MatchesStable ==
  ASSUME IInv, [Next]_vars, NEW e \in Epoch, e <= epoch, NEW u \in Upstream,
         NEW utag, NEW ctag, Matches(e, u, utag, ctag)
  PROVE  Matches(e, u, utag, ctag)'
<1>1. epochOf'[e] = epochOf[e] /\ epochOf[e] \in Session
  BY EpochFixed DEF IInv, EpochInv, TypeOK, TypeMain, Session
<1>2. /\ utag \in 1 .. Len(landed'[epochOf[e]][u])
      /\ landed'[epochOf[e]][u][utag] = landed[epochOf[e]][u][utag]
  BY <1>1, LandedGrows DEF Matches
<1>3. QED
  BY <1>1, <1>2 DEF Matches, Origin

\* A step that leaves the publish under way alone and adds no entry keeps TagInv.
LEMMA TagQuiet ==
  ASSUME IInv, [Next]_vars, ~closing' => ~closing,
         \A e \in Epoch : tagMap'[e] \subseteq tagMap[e],
         pc # "publish" \/ UNCHANGED <<pc, i, cs, session, clientTag, landed>>
  PROVE  TagInv'
<1> SUFFICES ASSUME ~closing', NEW e \in Epoch, NEW x \in tagMap'[e]
             PROVE  \/ Matches(e, x.u, x.utag, x.ctag)'
                    \/ (/\ pc = "publish" /\ e = cs /\ x.u = i
                        /\ x.utag = Len(landed[session][i]) + 1
                        /\ x.ctag = clientTag[e])'
  BY DEF TagInv
<1>1. x \in tagMap[e] /\ ~closing
  OBVIOUS
<1>2. x.u \in Upstream
  BY <1>1 DEF IInv, TypeOK, TypeState, Entry
<1>3. e <= epoch
  BY <1>1 DEF IInv, EpochInv, TypeOK, TypeMain, Epoch
<1>4. CASE Matches(e, x.u, x.utag, x.ctag)
  BY <1>2, <1>3, <1>4, MatchesStable
<1>5. CASE ~Matches(e, x.u, x.utag, x.ctag)
  BY <1>1, <1>5 DEF IInv, TagInv
<1>6. QED
  BY <1>4, <1>5

\* Every step keeps the maps in agreement with what has landed.
LEMMA TagStep == IInv /\ [Next]_vars => TagInv'
<1> SUFFICES ASSUME IInv, [Next]_vars PROVE TagInv'
  OBVIOUS
<1>0. TypeMain /\ TypeState /\ TypeLib /\ TypeListen /\ TypeClient /\ EpochInv
  BY DEF IInv, TypeOK
<1>1. CASE SelectFail \/ PublishFail
  BY <1>1 DEF SelectFail, PublishFail, SendConnectionClose, TagInv
<1>2. ASSUME NEW u \in Upstream, PublishRecord(u) PROVE TagInv'
  <2>1. CASE cs = NoEpoch
    <3>1. tagMap' = tagMap /\ closing' = closing /\ pc # "publish"
      BY <1>2, <2>1 DEF PublishRecord, stateVars
    <3>2. QED
      BY <3>1, TagQuiet
  <2>2. CASE cs # NoEpoch
    <3> DEFINE n == Len(landed[session][u]) + 1
               new == [u |-> u, utag |-> n, ctag |-> clientTag[cs] + 1]
    <3>1. cs \in Epoch /\ session \in Session /\ epochOf[cs] = session
      BY <1>0, <2>2 DEF EpochInv, TypeMain, Epoch, NoEpoch
    <3>2. RecordPublish(cs, u, n)
      BY <1>2, <2>2 DEF PublishRecord
    <3>3. /\ pc = "idle" /\ pc' = "publish" /\ i' = u
          /\ UNCHANGED <<cs, session, landed, epochOf, closing, epoch>>
      BY <1>2 DEF PublishRecord, libVars
    <3>4. clientTag'[cs] = clientTag[cs] + 1
      BY <1>0, <3>1, <3>2 DEF RecordPublish, TypeState
    <3>5. ASSUME NEW e \in Epoch, NEW x \in tagMap'[e]
          PROVE  x \in tagMap[e] \/ (e = cs /\ x = new)
      BY <1>0, <3>1, <3>2 DEF RecordPublish, TypeState
    <3>6. ASSUME ~closing, NEW e \in Epoch, NEW x \in tagMap[e]
          PROVE  Matches(e, x.u, x.utag, x.ctag)'
      <4>1. Matches(e, x.u, x.utag, x.ctag)
        BY <3>3, <3>6 DEF IInv, TagInv
      <4>2. e <= epoch /\ x.u \in Upstream
        BY <1>0, <3>6 DEF EpochInv, TypeMain, TypeState, Epoch, Entry
      <4>3. QED
        BY <4>1, <4>2, MatchesStable
    <3>7. QED
      BY <3>1, <3>3, <3>4, <3>5, <3>6 DEF TagInv
  <2>3. QED
    BY <2>1, <2>2
<1>3. CASE PublishSend
  <2>1. CASE cs = NoEpoch
    <3>1. /\ tagMap' = tagMap /\ closing' = closing /\ pc' = "idle"
      BY <1>3 DEF PublishSend, stateVars, clientVars
    <3>2. SUFFICES ASSUME ~closing, NEW e \in Epoch, NEW x \in tagMap[e]
                   PROVE  Matches(e, x.u, x.utag, x.ctag)'
      BY <3>1 DEF TagInv
    <3>3. e <= epoch /\ x.u \in Upstream
      BY <1>0, <3>2 DEF EpochInv, TypeMain, TypeState, Epoch, Entry
    <3>4. e # cs
      BY <2>1 DEF Epoch, NoEpoch
    <3>5. Matches(e, x.u, x.utag, x.ctag)
      BY <3>2, <3>4 DEF IInv, TagInv
    <3>6. QED
      BY <3>3, <3>5, MatchesStable
  <2>2. CASE cs # NoEpoch
    <3> DEFINE m == [e |-> cs, ctag |-> clientTag[cs], seq |-> seqNo]
    <3>1. /\ cs \in Epoch /\ session \in Session /\ epochOf[cs] = session
          /\ i \in Upstream /\ confirming[session][i]
      BY <1>0, <1>3, <2>2 DEF PublishSend, EpochInv, TypeMain, Epoch, NoEpoch
    <3>2. landed' = [landed EXCEPT ![session][i] = Append(@, m)]
      BY <1>3, <2>2, <3>1 DEF PublishSend
    <3>3. m \in Publish
      BY <1>0, <3>1 DEF Publish, TypeState, TypeClient
    <3>4. UNCHANGED <<tagMap, closing, epochOf, cs, session, clientTag, epoch>> /\ pc' = "idle"
      BY <1>3 DEF PublishSend, stateVars, clientVars
    <3>5. landed'[session][i] = Append(landed[session][i], m)
      BY <1>0, <3>1, <3>2 DEF TypeLib
    <3>6. /\ Len(landed[session][i]) \in Nat
          /\ Len(landed'[session][i]) = Len(landed[session][i]) + 1
          /\ landed'[session][i][Len(landed[session][i]) + 1] = m
      BY <1>0, <3>1, <3>3, <3>5 DEF TypeLib
    <3>7. SUFFICES ASSUME ~closing, NEW e \in Epoch, NEW x \in tagMap[e]
                   PROVE  Matches(e, x.u, x.utag, x.ctag)'
      BY <3>4 DEF TagInv
    <3>8. e <= epoch /\ x.u \in Upstream
      BY <1>0, <3>7 DEF EpochInv, TypeMain, TypeState, Epoch, Entry
    <3>9. CASE Matches(e, x.u, x.utag, x.ctag)
      BY <3>8, <3>9, MatchesStable
    <3>10. CASE /\ e = cs /\ x.u = i
                /\ x.utag = Len(landed[session][i]) + 1
                /\ x.ctag = clientTag[e]
      <4>1. /\ epochOf'[e] = session
            /\ x.utag \in 1 .. Len(landed'[session][x.u])
            /\ landed'[session][x.u][x.utag] = m
        BY <3>1, <3>4, <3>6, <3>10
      <4>2. m.e = e /\ m.ctag = x.ctag
        BY <3>10
      <4>3. QED
        BY <4>1, <4>2 DEF Matches, Origin
    <3>11. QED
      BY <3>7, <3>9, <3>10 DEF IInv, TagInv
  <2>3. QED
    BY <2>1, <2>2
<1>4. ASSUME NEW e \in Epoch, NEW u \in Upstream, ListenRecv(e, u) PROVE TagInv'
  <2>1. \A d \in Epoch : tagMap'[d] \subseteq tagMap[d]
    BY <1>0, <1>4 DEF ListenRecv, TypeState
  <2>2. UNCHANGED <<pc, i, cs, session, clientTag, landed, closing>>
    BY <1>4 DEF ListenRecv, mainVars, clientVars, libVars
  <2>3. QED
    BY <2>1, <2>2, TagQuiet
<1>5. CASE /\ UNCHANGED <<tagMap, closing>>
           /\ pc # "publish" \/ UNCHANGED <<pc, i, cs, session, clientTag, landed>>
  BY <1>5, TagQuiet
<1>6. QED
  BY <1>1, <1>2, <1>3, <1>4, <1>5
  DEF Next, MainNext, ListenNext, vars, mainVars, stateVars, clientVars, libVars,
      ChannelOpen, ConfirmSelect, SelectUpstream, SelectDone, ChannelClose, CloseUpstream,
      CloseFail, CloseDone, MainExit, ProxyClose, ConnClose, ClientGone, BrokerConfirm,
      BrokerCloseChannel, ReaderPush, ListenSend, ListenFail, ListenEnd

\* Every step keeps what the listeners hold in agreement with what has landed.
LEMMA HoldStep == IInv /\ [Next]_vars => HoldInv'
<1> SUFFICES ASSUME IInv, [Next]_vars, ~closing',
                    NEW e \in Epoch, NEW u \in Upstream, lpc'[e][u] = "send",
                    NEW g, g = got'[e][u], NEW h, h = held'[e][u]
             PROVE  Matches(e, u, g, h)'
  BY DEF HoldInv, Matches, Origin
<1>0. TypeMain /\ TypeState /\ TypeLib /\ TypeListen /\ EpochInv /\ CountInv
  BY DEF IInv, TypeOK
<1>1. ASSUME e <= epoch, Matches(e, u, g, h)
      PROVE  Matches(e, u, g, h)'
  BY <1>1, MatchesStable
<1>2. CASE ~closing /\ lpc[e][u] = "send" /\ got'[e][u] = got[e][u] /\ held'[e][u] = held[e][u]
  BY <1>0, <1>1, <1>2 DEF IInv, HoldInv, EpochInv
<1>3. ASSUME NEW d \in Epoch, NEW v \in Upstream, ListenRecv(d, v)
      PROVE  Matches(e, u, g, h)'
  <2>1. CASE d # e \/ v # u
    <3>1. lpc'[e][u] = lpc[e][u] /\ got'[e][u] = got[e][u] /\ held'[e][u] = held[e][u]
      BY <1>0, <1>3, <2>1 DEF ListenRecv, TypeListen
    <3>2. ~closing
      BY <1>3 DEF ListenRecv, clientVars
    <3>3. QED
      BY <1>2, <3>1, <3>2
  <2>2. CASE d = e /\ v = u
    <3> DEFINE t == got[e][u] + 1
    <3>1. ~closing /\ lpc[e][u] = "recv" /\ got'[e][u] = t
      BY <1>0, <1>3, <2>2 DEF ListenRecv, clientVars, TypeListen
    <3>2. PICK x \in Found(e, u, t) : held' = [held EXCEPT ![e][u] = x.ctag]
      BY <1>3, <2>2, <3>1 DEF ListenRecv
    <3>3. x \in tagMap[e] /\ x.u = u /\ x.utag = t
      BY <3>2 DEF Found
    <3>4. held'[e][u] = x.ctag
      BY <1>0, <3>2 DEF TypeListen
    <3>5. e <= epoch /\ epochOf[e] \in Session
      BY <1>0, <3>1 DEF EpochInv, TypeMain, Session
    <3>6. t <= Len(landed[epochOf[e]][u])
      <4>1. t \in Nat /\ t <= pushed[e][u] /\ pushed[e][u] \in Nat
        BY <1>0, <1>3, <2>2 DEF ListenRecv, TypeListen
      <4>2. Len(landed[epochOf[e]][u]) \in Nat /\ Len(verdict[epochOf[e]][u]) \in Nat
        BY <1>0, <3>5 DEF TypeLib
      <4>3. /\ pushed[e][u] <= Len(verdict[epochOf[e]][u])
            /\ Len(verdict[epochOf[e]][u]) <= Len(landed[epochOf[e]][u])
        BY <1>0, <3>1, <3>5 DEF CountInv
      <4>4. QED
        BY <4>1, <4>2, <4>3
    <3>7. ~(/\ pc = "publish" /\ e = cs /\ u = i /\ t = Len(landed[session][i]) + 1)
      <4>1. SUFFICES ASSUME pc = "publish", e = cs, u = i PROVE t # Len(landed[session][i]) + 1
        OBVIOUS
      <4>2. epochOf[e] = session
        BY <1>0, <4>1 DEF EpochInv, Epoch, NoEpoch
      <4>3. Len(landed[session][i]) \in Nat /\ t \in Nat
        BY <1>0, <3>5, <4>1, <4>2 DEF TypeLib, TypeListen
      <4>4. QED
        BY <3>6, <4>1, <4>2, <4>3
    <3>8. Matches(e, u, t, x.ctag)
      BY <3>1, <3>3, <3>7 DEF IInv, TagInv
    <3>9. QED
      BY <1>1, <3>1, <3>4, <3>5, <3>8
  <2>3. QED
    BY <2>1, <2>2
<1>4. CASE SelectUpstream
  <2>1. epoch \in Epoch /\ i \in Upstream /\ session \in Session
    BY <1>0, <1>4, ConfirmAssumption DEF SelectUpstream, EpochInv, TypeMain, Upstream
  <2>2. lpc[e][u] = "send" /\ got'[e][u] = got[e][u] /\ held' = held
    BY <1>0, <1>4, <2>1 DEF SelectUpstream, TypeListen
  <2>3. ~closing
    BY <1>4 DEF SelectUpstream, clientVars
  <2>4. QED
    BY <1>2, <2>2, <2>3
<1>5. ASSUME NEW d \in Epoch, NEW v \in Upstream,
             ListenSend(d, v) \/ ListenFail(d, v) \/ ListenEnd(d, v)
      PROVE  Matches(e, u, g, h)'
  <2>1. d # e \/ v # u
    BY <1>0, <1>5 DEF ListenSend, ListenFail, ListenEnd, TypeListen
  <2>4. lpc[e][u] = "send" /\ held'[e][u] = held[e][u] /\ got' = got
    BY <1>0, <1>5, <2>1 DEF ListenSend, ListenFail, ListenEnd, TypeListen
  <2>2. ~closing
    BY <1>5 DEF ListenSend, ListenFail, ListenEnd, clientVars
  <2>3. QED
    BY <1>2, <2>4, <2>2
<1>6. CASE ~closing /\ UNCHANGED <<lpc, got, held>>
  BY <1>2, <1>6
<1>7. QED
  BY <1>3, <1>4, <1>5, <1>6
  DEF Next, MainNext, ListenNext, vars, listenVars, clientVars, ChannelOpen, ConfirmSelect,
      SelectFail, SelectDone, PublishRecord, PublishSend, PublishFail, SendConnectionClose,
      ChannelClose, CloseUpstream, CloseFail, CloseDone, MainExit, ProxyClose, ConnClose,
      ClientGone, BrokerConfirm, BrokerCloseChannel, ReaderPush

\* A frame that was true when it was written stays true, and so is a new one.
LEMMA SentStep == IInv /\ [Next]_vars => SentInv'
<1> SUFFICES ASSUME IInv, [Next]_vars PROVE SentInv'
  OBVIOUS
<1>0. TypeMain /\ TypeLib /\ TypeListen /\ TypeClient /\ EpochInv /\ CountInv
  BY DEF IInv, TypeOK
<1> DEFINE True(r) ==
             /\ r.utag \in 1 .. Len(verdict[epochOf[r.e]][r.u])
             /\ Matches(r.e, r.u, r.utag, r.ctag)
             /\ r.ack = verdict[epochOf[r.e]][r.u][r.utag]
<1>1. ASSUME NEW r \in Sent, r.e <= epoch, True(r) PROVE True(r)'
  <2>1. r.e \in Epoch /\ r.u \in Upstream
    BY DEF Sent
  <2>2. epochOf'[r.e] = epochOf[r.e] /\ epochOf[r.e] \in Session
    BY <1>0, <1>1, <2>1, EpochFixed DEF EpochInv, TypeMain, Session
  <2>3. Matches(r.e, r.u, r.utag, r.ctag)'
    BY <1>1, <2>1, MatchesStable
  <2>4. /\ r.utag \in 1 .. Len(verdict'[epochOf[r.e]][r.u])
        /\ verdict'[epochOf[r.e]][r.u][r.utag] = verdict[epochOf[r.e]][r.u][r.utag]
    BY <1>1, <2>1, <2>2, VerdictGrows
  <2>5. QED
    BY <1>1, <2>2, <2>3, <2>4
<1>2. ASSUME NEW r \in sent
      PROVE  r \in Sent /\ r.e <= epoch /\ r.e <= epoch' /\ (~r.late => True(r)')
  <2>1. r \in Sent /\ r.e \in Epoch
    BY <1>0 DEF TypeClient, Sent
  <2>2. r.e <= epoch /\ (~r.late => True(r))
    BY <1>2 DEF IInv, SentInv, ConfirmSound, Matches
  <2>3. r.e <= epoch'
    BY <2>1, <2>2, EpochFixed
  <2>4. QED
    BY <1>1, <2>1, <2>2, <2>3
<1>3. ASSUME \A r \in sent' : r.e <= epoch' /\ (~r.late => True(r)')
      PROVE  SentInv'
  BY <1>3 DEF SentInv, ConfirmSound, Matches
<1>4. CASE UNCHANGED sent
  BY <1>2, <1>3, <1>4
<1>5. ASSUME NEW e \in Epoch, NEW u \in Upstream, ListenSend(e, u) PROVE SentInv'
  <2>0. PICK r : r = [e |-> e, u |-> u, utag |-> got[e][u], ctag |-> held[e][u],
                      ack |-> verdict[epochOf[e]][u][got[e][u]],
                      session |-> session, seen |-> chanSeen, late |-> closing]
    OBVIOUS
  <2>1. sent' = sent \cup {r} /\ lpc[e][u] = "send"
    BY <1>5, <2>0 DEF ListenSend
  <2>2. e <= epoch /\ epochOf[e] \in Session
    BY <1>0, <2>1 DEF EpochInv, TypeMain, Session
  <2>3. got[e][u] \in 1 .. Len(verdict[epochOf[e]][u])
    <3>1. got[e][u] \in Nat /\ pushed[e][u] \in Nat
      BY <1>0 DEF TypeListen
    <3>2. Len(verdict[epochOf[e]][u]) \in Nat
      BY <1>0, <2>2 DEF TypeLib
    <3>3. QED
      BY <1>0, <2>1, <3>1, <3>2 DEF CountInv
  <2>4. verdict[epochOf[e]][u][got[e][u]] \in BOOLEAN
    BY <1>0, <2>2, <2>3 DEF TypeLib
  <2>5. r \in Sent
    BY <1>0, <2>0, <2>4 DEF Sent, TypeListen, TypeMain, TypeClient
  <2>6. /\ r.e = e /\ r.u = u /\ r.utag = got[e][u] /\ r.ctag = held[e][u]
        /\ r.ack = verdict[epochOf[e]][u][got[e][u]] /\ r.late = closing
    BY <2>0
  <2>7. ~r.late => True(r)
    BY <2>1, <2>3, <2>6 DEF IInv, HoldInv
  <2>8. r.e <= epoch' /\ (~r.late => True(r)')
    BY <1>1, <2>2, <2>5, <2>6, <2>7, EpochFixed
  <2>9. QED
    BY <1>2, <1>3, <2>1, <2>8
<1>6. QED
  BY <1>4, <1>5
  DEF Next, MainNext, ListenNext, vars, clientVars, ChannelOpen, ConfirmSelect,
      SelectUpstream, SelectFail, SelectDone, PublishRecord, PublishSend, PublishFail,
      SendConnectionClose, ChannelClose, CloseUpstream, CloseFail, CloseDone, MainExit,
      ProxyClose, ConnClose, ClientGone, BrokerConfirm, BrokerCloseChannel, ReaderPush,
      ListenRecv, ListenFail, ListenEnd

-----------------------------------------------------------------------------
\* The invariant holds throughout.
LEMMA Invariance == Spec => []IInv
<1>1. IInv /\ [Next]_vars => IInv'
  <2>1. IInv /\ [Next]_vars => TypeOK'
    BY TypeMainStep, TypeStateStep, TypeClientStep, TypeLibStep, TypeListenStep DEF IInv, TypeOK
  <2>2. QED
    BY <2>1, EpochStep, CountStep, TagStep, HoldStep, SentStep DEF IInv
<1>2. QED
  BY <1>1, InitIInv, PTL DEF Spec

\* The variables of the confirm machinery keep their types: in particular a frame is
\* only written for a verdict the broker has given (listenConfirm).
THEOREM ConfirmTypes == Spec => []TypeOK
<1>1. IInv => TypeOK
  BY DEF IInv
<1>2. QED
  BY <1>1, Invariance, PTL

\* Whatever the number of upstreams, the buffer size and the interleaving of the main
\* loop, the readers and the listeners: each Basic.Ack and Basic.Nack that listenConfirm
\* writes before Connection.Close names the publish the upstream's verdict is about.
THEOREM ConfirmSafe == Spec => []ConfirmSound
<1>1. IInv => ConfirmSound
  BY DEF IInv, SentInv
<1>2. QED
  BY <1>1, Invariance, PTL

-----------------------------------------------------------------------------
(* The client's own numbers.                                               *)

\* A confirmState that is not in use yet has counted nothing.
FreshInv ==
  /\ \A e \in Epoch : e > epoch => clientTag[e] = 0
  /\ pc = "select" => clientTag[epoch] = 0

\* The proxy and the client count alike, as long as the client selects confirm mode
\* once on a channel.
SeqInv ==
  /\ pc = "select" => cs = NoEpoch
  /\ cs # NoEpoch => clientTag[cs] = seqNo
  /\ hasChan /\ cs = NoEpoch /\ pc \in {"idle", "select", "publish"} => seqNo = 0

\* What has landed in confirm mode carries the same number twice.
LandedInv ==
  \A s \in Session, u \in Upstream : \A k \in 1 .. Len(landed[s][u]) :
    landed[s][u][k].e # NoEpoch => landed[s][u][k].seq = landed[s][u][k].ctag

\* Only PublishRecord counts.
LEMMA FreshStep == IInv /\ FreshInv /\ [Next]_vars => FreshInv'
<1> SUFFICES ASSUME TypeMain, TypeState, EpochInv, FreshInv, [Next]_vars PROVE FreshInv'
  BY DEF IInv, TypeOK
<1> USE ConfirmAssumption DEF FreshInv, TypeMain, TypeState, Epoch, NoEpoch
<1>1. CASE ConfirmSelect
  BY <1>1 DEF ConfirmSelect, stateVars
<1>2. ASSUME NEW u \in Upstream, PublishRecord(u) PROVE FreshInv'
  <2>1. /\ UNCHANGED epoch /\ pc' = "publish" /\ cs <= epoch
        /\ \/ clientTag' = clientTag
           \/ cs # 0 /\ clientTag' = [clientTag EXCEPT ![cs] = @ + 1]
    BY <1>2 DEF PublishRecord, RecordPublish, stateVars, EpochInv
  <2>2. QED
    BY <2>1
<1>3. CASE UNCHANGED <<epoch, clientTag>> /\ (pc' = "select" => pc = "select")
  BY <1>3
<1>4. QED
  BY <1>1, <1>2, <1>3
  DEF Next, MainNext, ListenNext, PublishSend, mainVars, stateVars, vars,
      ChannelOpen, SelectUpstream, SelectFail, SelectDone, PublishFail,
      ChannelClose, CloseUpstream, CloseFail, CloseDone, MainExit, ProxyClose, ConnClose,
      ClientGone, BrokerConfirm, BrokerCloseChannel, ReaderPush,
      ListenRecv, ListenSend, ListenFail, ListenEnd, SendConnectionClose

\* Client and proxy go on counting alike.
LEMMA SeqStep == ~ReSelect /\ IInv /\ FreshInv /\ SeqInv /\ [Next]_vars => SeqInv'
<1> SUFFICES ASSUME ~ReSelect, TypeMain, TypeState, TypeClient, EpochInv, FreshInv, SeqInv, [Next]_vars
             PROVE  SeqInv'
  BY DEF IInv, TypeOK
<1> USE ConfirmAssumption DEF SeqInv, TypeMain, TypeState, Epoch, NoEpoch
<1>1. CASE ChannelOpen
  BY <1>1 DEF ChannelOpen, EpochInv, stateVars
<1>2. CASE ConfirmSelect
  BY <1>2 DEF ConfirmSelect, stateVars, clientVars
<1>3. CASE SelectDone
  BY <1>3 DEF SelectDone, stateVars, clientVars, EpochInv, FreshInv
<1>4. ASSUME NEW u \in Upstream, PublishRecord(u) PROVE SeqInv'
  <2>1. /\ pc = "idle" /\ hasChan /\ UNCHANGED <<cs, hasChan>> /\ pc' = "publish"
        /\ \/ cs = 0 /\ UNCHANGED <<clientTag, seqNo>>
           \/ cs # 0 /\ clientTag' = [clientTag EXCEPT ![cs] = @ + 1] /\ seqNo' = seqNo + 1
    BY <1>4 DEF PublishRecord, RecordPublish, stateVars
  <2>2. QED
    BY <2>1
<1>5. CASE ChannelClose
  BY <1>5 DEF ChannelClose, stateVars
<1>6. CASE SelectFail \/ PublishFail
  BY <1>6 DEF SelectFail, PublishFail, SendConnectionClose, stateVars
<1>7. CASE CloseDone
  BY <1>7 DEF CloseDone, EpochInv, stateVars, clientVars
<1>8. CASE UNCHANGED <<cs, clientTag, seqNo, hasChan>> /\ (pc' = pc \/ pc' \notin {"idle", "select", "publish"})
  BY <1>8
<1>9. CASE PublishSend
  BY <1>9 DEF PublishSend, stateVars, clientVars
<1>10. QED
  BY <1>1, <1>2, <1>3, <1>4, <1>5, <1>6, <1>7, <1>8, <1>9
  DEF Next, MainNext, ListenNext, mainVars, stateVars, clientVars, vars, SelectUpstream,
      CloseUpstream, CloseFail, MainExit, ProxyClose, ConnClose,
      ClientGone, BrokerConfirm, BrokerCloseChannel, ReaderPush,
      ListenRecv, ListenSend, ListenFail, ListenEnd

\* A message lands under the number the client counted for it.
LEMMA LandedStep == IInv /\ SeqInv /\ LandedInv /\ [Next]_vars => LandedInv'
<1> SUFFICES ASSUME TypeOK, EpochInv, SeqInv, LandedInv, [Next]_vars PROVE LandedInv'
  BY DEF IInv
<1>1. CASE PublishSend
  <2> DEFINE m == [e    |-> cs,
                   ctag |-> IF cs = NoEpoch THEN 0 ELSE clientTag[cs],
                   seq  |-> seqNo]
             l == landed[session][i]
  <2>1. session \in Session /\ i \in Upstream
    BY <1>1 DEF PublishSend, EpochInv
  <2>2. m.e # NoEpoch => m.seq = m.ctag
    BY DEF SeqInv
  <2>3. landed' = landed \/ landed' = [landed EXCEPT ![session][i] = Append(@, m)]
    BY <1>1 DEF PublishSend
  <2> HIDE DEF m
  <2>4. l \in Seq(Publish)
    BY <2>1 DEF TypeOK, TypeLib
  <2>5. ASSUME NEW k \in 1 .. Len(Append(l, m))
        PROVE  Append(l, m)[k] = m \/ (k \in 1 .. Len(l) /\ Append(l, m)[k] = l[k])
    <3> HIDE DEF l
    <3>1. Len(l) \in Nat /\ k \in 1 .. Len(l) + 1
      BY <2>4
    <3>2. CASE k = Len(l) + 1
      BY <2>4, <3>1, <3>2
    <3>3. CASE k \in 1 .. Len(l)
      BY <2>4, <3>3
    <3>4. QED
      BY <3>1, <3>2, <3>3
  <2>6. CASE landed' = [landed EXCEPT ![session][i] = Append(@, m)]
    <3>1. ASSUME NEW s \in Session, NEW u \in Upstream
          PROVE  \/ s = session /\ u = i /\ landed'[s][u] = Append(l, m)
                 \/ landed'[s][u] = landed[s][u]
      BY <2>1, <2>6 DEF TypeOK, TypeLib
    <3>2. ASSUME NEW s \in Session, NEW u \in Upstream, NEW k \in 1 .. Len(landed'[s][u]),
                 landed'[s][u][k].e # NoEpoch
          PROVE  landed'[s][u][k].seq = landed'[s][u][k].ctag
      <4>1. CASE landed'[s][u] = landed[s][u]
        BY <3>2, <4>1 DEF LandedInv
      <4>2. CASE s = session /\ u = i /\ landed'[s][u] = Append(l, m)
        BY <2>2, <2>5, <3>2, <4>2 DEF LandedInv
      <4>3. QED
        BY <3>1, <4>1, <4>2
    <3>3. QED
      BY <3>2 DEF LandedInv
  <2>7. QED
    BY <2>3, <2>6 DEF LandedInv
<1>2. CASE UNCHANGED landed
  BY <1>2 DEF LandedInv
<1>3. QED
  BY <1>1, <1>2
  DEF Next, MainNext, ListenNext, libVars, vars,
      ChannelOpen, ConfirmSelect, SelectUpstream, SelectFail, SelectDone, PublishFail,
      ChannelClose, CloseUpstream, CloseFail, CloseDone, MainExit, ProxyClose, ConnClose,
      ClientGone, PublishRecord, BrokerConfirm, BrokerCloseChannel, ReaderPush,
      ListenRecv, ListenSend, ListenFail, ListenEnd, SendConnectionClose

\* For a client that sends Confirm.Select once on a channel, the number in each
\* confirmation is the one under which the client itself published the message
\* (RecordPublish), also after the channel was closed and opened again.
THEOREM ConfirmNumbers == ~ReSelect => (Spec => []TagsFollowClient)
<1> SUFFICES ASSUME ~ReSelect PROVE Spec => []TagsFollowClient
  OBVIOUS
<1>1. Init => IInv /\ FreshInv /\ SeqInv /\ LandedInv
  <2>1. Init => FreshInv /\ SeqInv /\ LandedInv
    BY ConfirmAssumption DEF Init, FreshInv, SeqInv, LandedInv, Session, Upstream, Epoch, NoEpoch
  <2>2. QED
    BY <2>1, InitIInv
<1>2. IInv /\ FreshInv /\ SeqInv /\ LandedInv /\ [Next]_vars => FreshInv' /\ SeqInv' /\ LandedInv'
  BY FreshStep, SeqStep, LandedStep
<1>3. ASSUME IInv, LandedInv PROVE TagsFollowClient
  <2> SUFFICES ASSUME NEW r \in sent, ~r.late PROVE Origin(r.e, r.u, r.utag).seq = r.ctag
    BY DEF TagsFollowClient
  <2>1. r.e \in Epoch /\ r.u \in Upstream /\ r.e # NoEpoch /\ r.e <= epoch
    BY <1>3, ConfirmAssumption DEF IInv, TypeOK, TypeClient, Sent, Epoch, NoEpoch, SentInv
  <2>2. epochOf[r.e] \in Session
    BY <1>3, <2>1 DEF IInv, EpochInv, TypeOK, TypeMain, Session
  <2>3. /\ r.utag \in 1 .. Len(landed[epochOf[r.e]][r.u])
        /\ Origin(r.e, r.u, r.utag).e = r.e /\ Origin(r.e, r.u, r.utag).ctag = r.ctag
    BY <1>3 DEF IInv, SentInv, ConfirmSound
  <2>4. QED
    BY <1>3, <2>1, <2>2, <2>3 DEF LandedInv, Origin
<1>4. QED
  BY <1>1, <1>2, <1>3, Invariance, PTL DEF Spec

-----------------------------------------------------------------------------
(* No confirmation is lost or doubled.                                     *)

\* The three places in which the tag n of confirmState e can be.
InMap(e, n) == {x \in tagMap[e] : x.ctag = n}
InHand(e, n) == {u \in Upstream : lpc[e][u] \in {"send", "failed"} /\ held[e][u] = n}
Written(e, n) == {r \in sent : r.e = e /\ r.ctag = n}

InOnePlace(e, n) ==
  Cardinality(InMap(e, n)) + Cardinality(InHand(e, n)) + Cardinality(Written(e, n)) = 1

\* No tag is anywhere before it has been given out.
BoundInv ==
  /\ \A e \in Epoch : IsFiniteSet(tagMap[e]) /\ \A x \in tagMap[e] : x.ctag <= clientTag[e]
  /\ \A e \in Epoch, u \in Upstream :
       lpc[e][u] \in {"send", "failed"} => held[e][u] <= clientTag[e]
  /\ IsFiniteSet(sent) /\ \A r \in sent : r.ctag <= clientTag[r.e]

\* No tag has been given out at the start.
LEMMA BoundInit == Init => BoundInv
  BY FS_EmptySet, ConfirmAssumption DEF Init, BoundInv, Epoch, Upstream

\* A tag is used once it has been given out, and not before.
LEMMA BoundStep == IInv /\ BoundInv /\ [Next]_vars => BoundInv'
<1> SUFFICES ASSUME TypeOK, BoundInv, [Next]_vars PROVE BoundInv'
  BY DEF IInv
<1>1. ASSUME NEW v \in Upstream, PublishRecord(v), cs # NoEpoch PROVE BoundInv'
  <2> DEFINE n == clientTag[cs] + 1
             utag == Len(landed[session][v]) + 1
             old == {x \in tagMap[cs] : x.u = v /\ x.utag = utag}
             new == [u |-> v, utag |-> utag, ctag |-> n]
  <2>1. /\ cs \in Epoch /\ UNCHANGED <<lpc, held, sent>>
        /\ clientTag' = [clientTag EXCEPT ![cs] = n]
        /\ tagMap' = [tagMap EXCEPT ![cs] = (@ \ old) \cup {new}]
    BY <1>1, ConfirmAssumption
       DEF PublishRecord, RecordPublish, listenVars, TypeOK, TypeMain, Epoch, NoEpoch
  <2>2. clientTag[cs] \in Nat /\ new.ctag = n /\ n \in Nat
    BY <2>1 DEF TypeOK, TypeState
  <2> HIDE DEF old, new, n
  <2>3. \A e \in Epoch : clientTag'[e] \in Nat /\ clientTag[e] <= clientTag'[e] /\ clientTag[e] \in Nat
    BY <2>1, <2>2 DEF TypeOK, TypeState, n
  <2>4. clientTag'[cs] = n
    BY <2>1 DEF TypeOK, TypeState
  <2>5. ASSUME NEW e \in Epoch
        PROVE  IsFiniteSet(tagMap'[e]) /\ \A x \in tagMap'[e] : x.ctag <= clientTag'[e]
    <3>1. CASE e # cs
      BY <2>1, <3>1 DEF BoundInv, TypeOK, TypeState
    <3>2. CASE e = cs
      <4>1. tagMap'[e] = (tagMap[e] \ old) \cup {new}
        BY <2>1, <3>2 DEF TypeOK, TypeState
      <4>2. IsFiniteSet(tagMap[e] \ old)
        BY FS_Difference DEF BoundInv
      <4>3. IsFiniteSet((tagMap[e] \ old) \cup {new})
        BY <4>2, FS_AddElement
      <4>4. ASSUME NEW x \in tagMap'[e] PROVE x.ctag <= clientTag'[e]
        <5>1. CASE x = new
          BY <2>2, <2>4, <3>2, <5>1
        <5>2. CASE x \in tagMap[e]
          <6>1. x.ctag \in Nat /\ x.ctag <= clientTag[e]
            BY <5>2 DEF BoundInv, TypeOK, TypeState, Entry
          <6>2. QED
            BY <2>3, <6>1
        <5>3. QED
          BY <4>1, <4>4, <5>1, <5>2
      <4>5. QED
        BY <4>1, <4>3, <4>4
    <3>3. QED
      BY <3>1, <3>2
  <2>6. ASSUME NEW e \in Epoch, NEW u \in Upstream, lpc[e][u] \in {"send", "failed"}
        PROVE  held[e][u] <= clientTag'[e]
    <3>1. held[e][u] \in Nat /\ held[e][u] <= clientTag[e]
      BY <2>6 DEF BoundInv, TypeOK, TypeListen
    <3>2. QED
      BY <2>3, <3>1
  <2>7. ASSUME NEW r \in sent PROVE r.ctag <= clientTag'[r.e]
    <3>1. r.ctag \in Nat /\ r.e \in Epoch /\ r.ctag <= clientTag[r.e]
      BY DEF BoundInv, TypeOK, TypeClient, Sent
    <3>2. QED
      BY <2>3, <3>1
  <2>8. QED
    BY <2>1, <2>5, <2>6, <2>7 DEF BoundInv
<1>2. ASSUME NEW d \in Epoch, NEW v \in Upstream, ListenRecv(d, v) PROVE BoundInv'
  <2> DEFINE hit == Found(d, v, got[d][v] + 1)
  <2>1. /\ UNCHANGED <<clientTag, sent>> /\ tagMap' = [tagMap EXCEPT ![d] = @ \ hit]
        /\ \/ UNCHANGED <<lpc, held>>
           \/ \E x \in hit : /\ held' = [held EXCEPT ![d][v] = x.ctag]
                             /\ lpc' = [lpc EXCEPT ![d][v] = "send"]
    BY <1>2 DEF ListenRecv, clientVars
  <2>2. hit \subseteq tagMap[d]
    BY DEF Found
  <2> HIDE DEF hit
  <2>3. ASSUME NEW e \in Epoch
        PROVE  IsFiniteSet(tagMap'[e]) /\ \A x \in tagMap'[e] : x.ctag <= clientTag'[e]
    <3>1. tagMap'[e] \subseteq tagMap[e]
      BY <2>1 DEF TypeOK, TypeState
    <3>2. QED
      BY <2>1, <3>1, FS_Subset DEF BoundInv
  <2>4. CASE UNCHANGED <<lpc, held>>
    BY <2>1, <2>3, <2>4 DEF BoundInv
  <2>5. ASSUME NEW x \in hit, held' = [held EXCEPT ![d][v] = x.ctag],
               lpc' = [lpc EXCEPT ![d][v] = "send"]
        PROVE  BoundInv'
    <3>1. x.ctag <= clientTag[d]
      BY <2>2 DEF BoundInv
    <3>2. ASSUME NEW e \in Epoch, NEW u \in Upstream, lpc'[e][u] \in {"send", "failed"}
          PROVE  held'[e][u] <= clientTag[e]
      <4>1. CASE e = d /\ u = v
        BY <2>5, <3>1, <4>1 DEF TypeOK, TypeListen
      <4>2. CASE ~(e = d /\ u = v)
        BY <2>5, <3>2, <4>2 DEF BoundInv, TypeOK, TypeListen
      <4>3. QED
        BY <4>1, <4>2
    <3>3. QED
      BY <2>1, <2>3, <3>2 DEF BoundInv
  <2>6. QED
    BY <2>1, <2>4, <2>5
<1>3. ASSUME NEW d \in Epoch, NEW v \in Upstream, ListenSend(d, v) PROVE BoundInv'
  <2>0. PICK r : r = [e |-> d, u |-> v, utag |-> got[d][v], ctag |-> held[d][v],
                      ack |-> verdict[epochOf[d]][v][got[d][v]],
                      session |-> session, seen |-> chanSeen, late |-> closing]
    OBVIOUS
  <2>1. /\ sent' = sent \cup {r} /\ UNCHANGED <<clientTag, tagMap>> /\ lpc[d][v] = "send"
        /\ lpc' = [lpc EXCEPT ![d][v] = "recv"] /\ held' = [held EXCEPT ![d][v] = 0]
    BY <1>3, <2>0 DEF ListenSend, stateVars
  <2>2. r.e = d /\ r.ctag = held[d][v]
    BY <2>0
  <2>3. IsFiniteSet(sent')
    BY <2>1, FS_AddElement DEF BoundInv
  <2>4. \A x \in sent' : x.ctag <= clientTag[x.e]
    BY <2>1, <2>2 DEF BoundInv
  <2>5. ASSUME NEW e \in Epoch, NEW u \in Upstream, lpc'[e][u] \in {"send", "failed"}
        PROVE  held'[e][u] <= clientTag[e]
    BY <2>1, <2>5 DEF BoundInv, TypeOK, TypeListen
  <2>6. QED
    BY <2>1, <2>3, <2>4, <2>5 DEF BoundInv
<1>4. ASSUME UNCHANGED <<clientTag, tagMap, sent, held>>,
             \A e \in Epoch, u \in Upstream :
               lpc'[e][u] \in {"send", "failed"} => lpc[e][u] \in {"send", "failed"}
      PROVE  BoundInv'
  BY <1>4 DEF BoundInv
<1>5. CASE SelectUpstream
  BY <1>4, <1>5 DEF SelectUpstream, TypeOK, TypeListen, stateVars, clientVars
<1>6. ASSUME NEW d \in Epoch, NEW v \in Upstream, ListenFail(d, v) \/ ListenEnd(d, v) PROVE BoundInv'
  <2>1. /\ UNCHANGED <<clientTag, tagMap, sent, held>>
        /\ \/ lpc[d][v] = "send" /\ lpc' = [lpc EXCEPT ![d][v] = "failed"]
           \/ lpc[d][v] = "recv" /\ lpc' = [lpc EXCEPT ![d][v] = "done"]
    BY <1>6 DEF ListenFail, ListenEnd, stateVars, clientVars
  <2>2. \A e \in Epoch, u \in Upstream :
          lpc'[e][u] \in {"send", "failed"} => lpc[e][u] \in {"send", "failed"}
    <3>1. CASE lpc[d][v] = "send" /\ lpc' = [lpc EXCEPT ![d][v] = "failed"]
      BY <3>1 DEF TypeOK, TypeListen
    <3>2. CASE lpc[d][v] = "recv" /\ lpc' = [lpc EXCEPT ![d][v] = "done"]
      BY <3>2 DEF TypeOK, TypeListen
    <3>3. QED
      BY <2>1, <3>1, <3>2
  <2>3. QED
    BY <1>4, <2>1, <2>2
<1>7. CASE UNCHANGED <<clientTag, tagMap, sent, held, lpc>>
  BY <1>4, <1>7
<1>8. ASSUME NEW v \in Upstream, PublishRecord(v), cs = NoEpoch PROVE BoundInv'
  BY <1>7, <1>8 DEF PublishRecord, stateVars, listenVars
<1>9. QED
  BY <1>1, <1>2, <1>3, <1>5, <1>6, <1>7, <1>8
  DEF Next, MainNext, ListenNext, vars, stateVars, clientVars, listenVars, ChannelOpen,
      ConfirmSelect, SelectFail, SelectDone, PublishSend, PublishFail, SendConnectionClose,
      ChannelClose, CloseUpstream, CloseFail, CloseDone, MainExit, ProxyClose, ConnClose,
      ClientGone, BrokerConfirm, BrokerCloseChannel, ReaderPush

\* The places are finite.
LEMMA PlacesFinite ==
  ASSUME BoundInv, NEW e \in Epoch, NEW n
  PROVE  /\ IsFiniteSet(InMap(e, n)) /\ Cardinality(InMap(e, n)) \in Nat
         /\ IsFiniteSet(InHand(e, n)) /\ Cardinality(InHand(e, n)) \in Nat
         /\ IsFiniteSet(Written(e, n)) /\ Cardinality(Written(e, n)) \in Nat
<1>1. InMap(e, n) \subseteq tagMap[e] /\ Written(e, n) \subseteq sent /\ InHand(e, n) \subseteq Upstream
  BY DEF InMap, Written, InHand
<1>2. IsFiniteSet(Upstream)
  BY FS_Interval, ConfirmAssumption DEF Upstream
<1>3. IsFiniteSet(InMap(e, n)) /\ IsFiniteSet(InHand(e, n)) /\ IsFiniteSet(Written(e, n))
  BY <1>1, <1>2, FS_Subset DEF BoundInv
<1>4. QED
  BY <1>3, FS_CardinalityType

\* LookupClientTag finds at most one entry: two entries for the same upstream tag would
\* be two names of the publish that landed under it.
LEMMA OneEntry ==
  ASSUME IInv, ~closing, NEW e \in Epoch, NEW x \in tagMap[e], NEW y \in tagMap[e],
         x.u = y.u, x.utag = y.utag, x.utag <= Len(landed[epochOf[e]][x.u])
  PROVE  x = y
<1>1. x \in Entry /\ y \in Entry
  BY DEF IInv, TypeOK, TypeState
<1>2. ASSUME NEW z \in tagMap[e], z.u = x.u, z.utag = x.utag
      PROVE  z.ctag = Origin(e, x.u, x.utag).ctag
  <2>1. CASE Matches(e, z.u, z.utag, z.ctag)
    BY <1>2, <2>1 DEF Matches
  <2>2. CASE /\ pc = "publish" /\ e = cs /\ z.u = i
             /\ z.utag = Len(landed[session][i]) + 1
    <3>1. epochOf[e] = session /\ session \in Session
      BY <2>2, ConfirmAssumption DEF IInv, EpochInv, Epoch, NoEpoch
    <3>2. Len(landed[session][i]) \in Nat
      BY <1>1, <1>2, <2>2, <3>1 DEF IInv, TypeOK, TypeLib, Entry
    <3>3. QED
      BY <1>2, <2>2, <3>1, <3>2
  <2>3. QED
    BY <2>1, <2>2 DEF IInv, TagInv
<1>3. x.ctag = y.ctag
  BY <1>2
<1>4. QED
  BY <1>1, <1>3 DEF Entry

\* Each step leaves a tag where it is or moves it to the next place.
LEMMA ConservedStep ==
  IInv /\ FreshInv /\ BoundInv /\ ConfirmConserved /\ [Next]_vars => ConfirmConserved'
<1> SUFFICES ASSUME IInv, FreshInv, BoundInv, ConfirmConserved, [Next]_vars, ~closing',
                    NEW e \in Epoch, NEW n \in 1 .. clientTag'[e]
             PROVE  InOnePlace(e, n)'
  BY DEF ConfirmConserved, InOnePlace, InMap, InHand, Written
<1>0. TypeMain /\ TypeState /\ TypeClient /\ TypeLib /\ TypeListen /\ EpochInv /\ CountInv
  BY DEF IInv, TypeOK
<1>1. ~closing
  BY DEF Next, MainNext, ListenNext, vars, clientVars, ChannelOpen, ConfirmSelect, SelectUpstream,
      SelectFail, SelectDone, PublishRecord, PublishSend, PublishFail, SendConnectionClose,
      ChannelClose, CloseUpstream, CloseFail, CloseDone, MainExit, ProxyClose, ConnClose,
      ClientGone, BrokerConfirm, BrokerCloseChannel, ReaderPush, ListenRecv, ListenSend,
      ListenFail, ListenEnd
<1>2. n \in 1 .. clientTag[e] => InOnePlace(e, n)
  BY <1>1 DEF ConfirmConserved, InOnePlace, InMap, InHand, Written
<1>3. ASSUME UNCHANGED clientTag, InMap(e, n)' = InMap(e, n), InHand(e, n)' = InHand(e, n),
             Written(e, n)' = Written(e, n)
      PROVE  InOnePlace(e, n)'
  BY <1>2, <1>3 DEF InOnePlace
<1>4. CASE UNCHANGED <<clientTag, tagMap, sent, lpc, held>>
  <2>1. InMap(e, n)' = InMap(e, n) /\ InHand(e, n)' = InHand(e, n) /\ Written(e, n)' = Written(e, n)
    BY <1>4 DEF InMap, InHand, Written
  <2>2. QED
    BY <1>3, <1>4, <2>1
<1>5. CASE SelectUpstream
  <2>1. /\ epoch \in Epoch /\ clientTag[epoch] = 0 /\ lpc' = [lpc EXCEPT ![epoch][i] = "recv"]
        /\ UNCHANGED <<clientTag, tagMap, sent, held>>
    BY <1>0, <1>5 DEF SelectUpstream, EpochInv, FreshInv, stateVars, clientVars
  <2>2. e # epoch
    BY <2>1
  <2>3. lpc'[e] = lpc[e]
    BY <1>0, <2>1, <2>2 DEF TypeListen
  <2>4. InMap(e, n)' = InMap(e, n) /\ InHand(e, n)' = InHand(e, n) /\ Written(e, n)' = Written(e, n)
    BY <2>1, <2>3 DEF InMap, InHand, Written
  <2>5. QED
    BY <1>3, <2>1, <2>4
<1>6. ASSUME NEW v \in Upstream, PublishRecord(v), cs # NoEpoch PROVE InOnePlace(e, n)'
  <2> DEFINE m == clientTag[cs] + 1
             utag == Len(landed[session][v]) + 1
             old == {x \in tagMap[cs] : x.u = v /\ x.utag = utag}
             new == [u |-> v, utag |-> utag, ctag |-> m]
  <2>1. /\ cs \in Epoch /\ UNCHANGED <<lpc, held, sent>> /\ pc = "idle"
        /\ session \in Session /\ epochOf[cs] = session
        /\ clientTag' = [clientTag EXCEPT ![cs] = m]
        /\ tagMap' = [tagMap EXCEPT ![cs] = (@ \ old) \cup {new}]
    BY <1>0, <1>6, ConfirmAssumption
       DEF PublishRecord, RecordPublish, listenVars, TypeMain, Epoch, NoEpoch, EpochInv
  <2>2. old = {}
    <3> SUFFICES ASSUME NEW x \in tagMap[cs], x.u = v, x.utag = utag PROVE FALSE
      OBVIOUS
    <3>1. Matches(cs, x.u, x.utag, x.ctag)
      BY <1>1, <2>1 DEF IInv, TagInv
    <3>2. Len(landed[session][v]) \in Nat
      BY <1>0, <2>1 DEF TypeLib
    <3>3. QED
      BY <2>1, <3>1, <3>2 DEF Matches
  <2>3. new.ctag = m /\ m \in Nat /\ clientTag[cs] \in Nat
    BY <1>0, <2>1 DEF TypeState
  <2> HIDE DEF new, old
  <2>4. InHand(e, n)' = InHand(e, n) /\ Written(e, n)' = Written(e, n)
    BY <2>1 DEF InHand, Written
  <2>5. CASE e # cs
    <3>1. tagMap'[e] = tagMap[e] /\ clientTag'[e] = clientTag[e]
      BY <1>0, <2>1, <2>5 DEF TypeState
    <3>2. InMap(e, n)' = InMap(e, n)
      BY <3>1 DEF InMap
    <3>3. QED
      BY <1>2, <2>4, <3>1, <3>2 DEF InOnePlace
  <2>6. CASE e = cs
    <3>1. tagMap'[e] = tagMap[e] \cup {new} /\ clientTag'[e] = m
      BY <1>0, <2>1, <2>2, <2>6 DEF TypeState
    <3>2. CASE n # m
      <4>1. n \in 1 .. clientTag[e]
        BY <2>3, <2>6, <3>1, <3>2
      <4>2. InMap(e, n)' = InMap(e, n)
        BY <2>3, <3>1, <3>2 DEF InMap
      <4>3. QED
        BY <1>2, <2>4, <4>1, <4>2 DEF InOnePlace
    <3>3. CASE n = m
      <4>1. \A x \in tagMap[e] : x.ctag # n
        <5>1. ASSUME NEW x \in tagMap[e] PROVE x.ctag # n
          <6>1. x.ctag \in Nat /\ x.ctag <= clientTag[e]
            BY <1>0 DEF BoundInv, TypeState, Entry
          <6>2. QED
            BY <2>3, <2>6, <3>3, <6>1
        <5>2. QED
          BY <5>1
      <4>2. InMap(e, n)' = {new}
        BY <2>3, <3>1, <3>3, <4>1 DEF InMap
      <4>3. InHand(e, n) = {}
        <5>1. ASSUME NEW u \in Upstream, lpc[e][u] \in {"send", "failed"} PROVE held[e][u] # n
          <6>1. held[e][u] \in Nat /\ held[e][u] <= clientTag[e]
            BY <1>0, <5>1 DEF BoundInv, TypeListen
          <6>2. QED
            BY <2>3, <2>6, <3>3, <6>1
        <5>2. QED
          BY <5>1 DEF InHand
      <4>4. Written(e, n) = {}
        <5>1. ASSUME NEW r \in sent, r.e = e PROVE r.ctag # n
          <6>1. r.ctag \in Nat /\ r.ctag <= clientTag[e]
            BY <1>0, <5>1 DEF BoundInv, TypeClient, Sent
          <6>2. QED
            BY <2>3, <2>6, <3>3, <6>1
        <5>2. QED
          BY <5>1 DEF Written
      <4>5. Cardinality({new}) = 1 /\ Cardinality({}) = 0
        BY FS_Singleton, FS_EmptySet
      <4>6. QED
        BY <2>4, <4>2, <4>3, <4>4, <4>5 DEF InOnePlace
    <3>4. QED
      BY <3>2, <3>3
  <2>7. QED
    BY <2>5, <2>6
<1>7. ASSUME NEW d \in Epoch, NEW v \in Upstream, ListenRecv(d, v) PROVE InOnePlace(e, n)'
  <2> DEFINE utag == got[d][v] + 1
             hit == Found(d, v, utag)
  <2>1. /\ UNCHANGED <<clientTag, sent>> /\ tagMap' = [tagMap EXCEPT ![d] = @ \ hit]
        /\ \/ hit = {} /\ UNCHANGED <<lpc, held>>
           \/ \E x \in hit : /\ held' = [held EXCEPT ![d][v] = x.ctag]
                             /\ lpc' = [lpc EXCEPT ![d][v] = "send"]
        /\ lpc[d][v] = "recv" /\ got[d][v] < pushed[d][v]
    BY <1>7 DEF ListenRecv, clientVars
  <2>2. Written(e, n)' = Written(e, n)
    BY <2>1 DEF Written
  <2>3. CASE hit = {} /\ UNCHANGED <<lpc, held>>
    <3>1. tagMap'[e] = tagMap[e]
      BY <1>0, <2>1, <2>3 DEF TypeState
    <3>2. InMap(e, n)' = InMap(e, n) /\ InHand(e, n)' = InHand(e, n)
      BY <2>3, <3>1 DEF InMap, InHand
    <3>3. QED
      BY <1>3, <2>1, <2>2, <3>2
  <2>4. ASSUME NEW x \in hit, held' = [held EXCEPT ![d][v] = x.ctag],
               lpc' = [lpc EXCEPT ![d][v] = "send"]
        PROVE  InOnePlace(e, n)'
    <3>1. x \in tagMap[d] /\ x.u = v /\ x.utag = utag
      BY DEF Found
    <3>2. utag <= Len(landed[epochOf[d]][v])
      <4>1. got[d][v] \in Nat /\ pushed[d][v] \in Nat
        BY <1>0 DEF TypeListen
      <4>2. d <= epoch /\ epochOf[d] \in Session
        BY <1>0, <2>1 DEF EpochInv, TypeMain, Session
      <4>3. Len(verdict[epochOf[d]][v]) \in Nat /\ Len(landed[epochOf[d]][v]) \in Nat
        BY <1>0, <4>2 DEF TypeLib
      <4>4. QED
        BY <1>0, <2>1, <4>1, <4>2, <4>3 DEF CountInv
    <3>3. hit = {x}
      <4>1. ASSUME NEW y \in hit PROVE y = x
        <5>1. y \in tagMap[d] /\ y.u = v /\ y.utag = utag
          BY DEF Found
        <5>2. QED
          BY <1>1, <3>1, <3>2, <5>1, OneEntry
      <4>2. QED
        BY <4>1
    <3> HIDE DEF hit, utag
    <3>4. /\ tagMap'[e] = IF e = d THEN tagMap[e] \ {x} ELSE tagMap[e]
          /\ \A u \in Upstream : lpc'[e][u] = IF e = d /\ u = v THEN "send" ELSE lpc[e][u]
          /\ \A u \in Upstream : held'[e][u] = IF e = d /\ u = v THEN x.ctag ELSE held[e][u]
      BY <1>0, <2>1, <2>4, <3>3 DEF TypeState, TypeListen
    <3>5. CASE e # d \/ x.ctag # n
      <4>1. InMap(e, n)' = InMap(e, n)
        BY <3>4, <3>5 DEF InMap
      <4>2. InHand(e, n)' = InHand(e, n)
        BY <2>1, <3>4, <3>5 DEF InHand
      <4>3. QED
        BY <1>3, <2>1, <2>2, <4>1, <4>2
    <3>6. CASE e = d /\ x.ctag = n
      <4>1. InMap(e, n)' = InMap(e, n) \ {x} /\ x \in InMap(e, n)
        BY <3>1, <3>4, <3>6 DEF InMap
      <4>2. InHand(e, n)' = InHand(e, n) \cup {v} /\ v \notin InHand(e, n)
        BY <2>1, <3>4, <3>6 DEF InHand
      <4>3. Cardinality(InMap(e, n)') = Cardinality(InMap(e, n)) - 1
        BY <4>1, PlacesFinite, FS_RemoveElement
      <4>4. Cardinality(InHand(e, n)') = Cardinality(InHand(e, n)) + 1
        BY <4>2, PlacesFinite, FS_AddElement
      <4>5. QED
        BY <1>2, <2>1, <2>2, <4>3, <4>4, PlacesFinite DEF InOnePlace
    <3>7. QED
      BY <3>5, <3>6
  <2>5. QED
    BY <2>1, <2>3, <2>4
<1>8. ASSUME NEW d \in Epoch, NEW v \in Upstream, ListenSend(d, v) PROVE InOnePlace(e, n)'
  <2>0. PICK r : r = [e |-> d, u |-> v, utag |-> got[d][v], ctag |-> held[d][v],
                      ack |-> verdict[epochOf[d]][v][got[d][v]],
                      session |-> session, seen |-> chanSeen, late |-> closing]
    OBVIOUS
  <2>1. /\ sent' = sent \cup {r} /\ UNCHANGED <<clientTag, tagMap>> /\ lpc[d][v] = "send"
        /\ lpc' = [lpc EXCEPT ![d][v] = "recv"] /\ held' = [held EXCEPT ![d][v] = 0]
    BY <1>8, <2>0 DEF ListenSend, stateVars
  <2>2. r.e = d /\ r.ctag = held[d][v]
    BY <2>0
  <2>3. InMap(e, n)' = InMap(e, n)
    BY <2>1 DEF InMap
  <2>4. /\ \A u \in Upstream : lpc'[e][u] = IF e = d /\ u = v THEN "recv" ELSE lpc[e][u]
        /\ \A u \in Upstream : ~(e = d /\ u = v) => held'[e][u] = held[e][u]
    BY <1>0, <2>1 DEF TypeListen
  <2>5. CASE e # d \/ held[d][v] # n
    <3>1. Written(e, n)' = Written(e, n)
      BY <2>1, <2>2, <2>5 DEF Written
    <3>2. InHand(e, n)' = InHand(e, n)
      BY <2>1, <2>4, <2>5 DEF InHand
    <3>3. QED
      BY <1>3, <2>1, <2>3, <3>1, <3>2
  <2>6. CASE e = d /\ held[d][v] = n
    <3>1. InHand(e, n)' = InHand(e, n) \ {v} /\ v \in InHand(e, n)
      BY <2>1, <2>4, <2>6 DEF InHand
    <3>2. Cardinality(InHand(e, n)') = Cardinality(InHand(e, n)) - 1
      BY <3>1, PlacesFinite, FS_RemoveElement
    <3>3. Cardinality(InHand(e, n)) # 0
      BY <3>1, PlacesFinite, FS_EmptySet
    <3>4. Cardinality(Written(e, n)) = 0
      BY <1>2, <2>1, <3>3, PlacesFinite DEF InOnePlace
    <3>5. Written(e, n) = {}
      BY <3>4, PlacesFinite, FS_EmptySet
    <3>6. Written(e, n)' = {r}
      BY <2>1, <2>2, <2>6, <3>5 DEF Written
    <3>7. Cardinality(Written(e, n)') = 1
      BY <3>6, FS_Singleton
    <3>8. QED
      BY <1>2, <2>1, <2>3, <3>2, <3>4, <3>7, PlacesFinite DEF InOnePlace
  <2>7. QED
    BY <2>5, <2>6
<1>9. ASSUME NEW d \in Epoch, NEW v \in Upstream, ListenFail(d, v) \/ ListenEnd(d, v)
      PROVE  InOnePlace(e, n)'
  <2>1. /\ UNCHANGED <<clientTag, tagMap, sent, held>>
        /\ \/ lpc[d][v] = "send" /\ lpc' = [lpc EXCEPT ![d][v] = "failed"]
           \/ lpc[d][v] = "recv" /\ lpc' = [lpc EXCEPT ![d][v] = "done"]
    BY <1>9 DEF ListenFail, ListenEnd, stateVars, clientVars
  <2>2. \A u \in Upstream : lpc'[e][u] \in {"send", "failed"} <=> lpc[e][u] \in {"send", "failed"}
    <3>1. CASE lpc[d][v] = "send" /\ lpc' = [lpc EXCEPT ![d][v] = "failed"]
      BY <1>0, <3>1 DEF TypeListen
    <3>2. CASE lpc[d][v] = "recv" /\ lpc' = [lpc EXCEPT ![d][v] = "done"]
      BY <1>0, <3>2 DEF TypeListen
    <3>3. QED
      BY <2>1, <3>1, <3>2
  <2>3. InMap(e, n)' = InMap(e, n) /\ InHand(e, n)' = InHand(e, n) /\ Written(e, n)' = Written(e, n)
    BY <2>1, <2>2 DEF InMap, InHand, Written
  <2>4. QED
    BY <1>3, <2>1, <2>3
<1>10. ASSUME NEW v \in Upstream, PublishRecord(v), cs = NoEpoch PROVE InOnePlace(e, n)'
  BY <1>4, <1>10 DEF PublishRecord, stateVars, listenVars
<1>11. QED
  BY <1>4, <1>5, <1>6, <1>7, <1>8, <1>9, <1>10
  DEF Next, MainNext, ListenNext, vars, stateVars, clientVars, listenVars, ChannelOpen,
      ConfirmSelect, SelectFail, SelectDone, PublishSend, PublishFail, SendConnectionClose,
      ChannelClose, CloseUpstream, CloseFail, CloseDone, MainExit, ProxyClose, ConnClose,
      ClientGone, BrokerConfirm, BrokerCloseChannel, ReaderPush

\* Until Connection.Close is sent, every tag that a confirmState has given out is in
\* exactly one place: its map, the hands of one listener, or among the frames written
\* (RecordPublish, LookupClientTag, listenConfirm).  No interleaving of the main loop
\* with the listeners of any number of upstreams loses a confirmation or doubles one.
THEOREM ConfirmsConserved == Spec => []ConfirmConserved
<1>1. Init => FreshInv /\ BoundInv /\ ConfirmConserved
  BY BoundInit, ConfirmAssumption DEF Init, FreshInv, ConfirmConserved, Epoch
<1>2. IInv /\ FreshInv /\ BoundInv /\ ConfirmConserved /\ [Next]_vars
        => FreshInv' /\ BoundInv' /\ ConfirmConserved'
  BY FreshStep, BoundStep, ConservedStep
<1>3. QED
  BY <1>1, <1>2, Invariance, PTL DEF Spec

=============================================================================
