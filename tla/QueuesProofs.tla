---------------------------- MODULE QueuesProofs ----------------------------
(***************************************************************************)
(* Proofs about Queues, for any number of clients, upstreams, queues and   *)
(* configured attributes: no queue is deleted that nobody asked to be      *)
(* deleted, a regular close leaves none of the queues it was to delete,    *)
(* and a declared queue is on every upstream.                              *)
(***************************************************************************)
EXTENDS Queues, TLAPS

-----------------------------------------------------------------------------
(* Connections.                                                            *)

PCs == {"new", "idle", "declare", "note", "delete", "closing", "destruct", "closed"}

ConnTypes ==
  /\ pc \in [Proxy -> PCs]
  /\ i \in [Proxy -> 0 .. N]
  /\ conn \in [Proxy -> [Upstream -> {"none", "up", "lost", "closed"}]]

\* ConnectToUpstreams goes from the first upstream to the last, and so does
\* Proxy.Close: neither meets a connection twice.
ConnInv ==
  \A p \in Proxy :
    /\ pc[p] = "new" => \A u \in Upstream : u >= i[p] => conn[p][u] = "none"
    /\ pc[p] \notin {"closing", "destruct", "closed"} => \A u \in Upstream : conn[p][u] # "closed"
    /\ pc[p] = "idle" => i[p] = 0
    /\ pc[p] \in {"note", "destruct"} => i[p] < N
    /\ pc[p] \in {"closing", "destruct"} => \A u \in Upstream : u >= i[p] => conn[p][u] # "closed"
    /\ pc[p] = "destruct" => conn[p][i[p]] # "none"

LinkInv == ConnTypes /\ ConnInv

\* Nobody is connected at the start.
LEMMA LinkInit == Init => LinkInv
  BY QueuesAssumption DEF Init, LinkInv, ConnTypes, ConnInv, PCs, Upstream

\* Steps that leave the connections alone.
Handles(p) ==
  \/ ConnectFail(p) \/ ConnectDone(p)
  \/ \E c \in Chan : ChannelOpen(p, c) \/ ChannelClose(p, c)
  \/ \E c \in Chan, q \in QName :
       QueueDelete(p, c, q) \/ \E flags \in Ask : QueueDeclare(p, c, q, flags)
  \/ DeclareUpstream(p) \/ DeclareNote(p) \/ DeclareFail(p)
  \/ DeleteUpstream(p) \/ DeleteFail(p) \/ RequestOk(p)
  \/ Leave(p) \/ CloseBegin(p) \/ CloseFail(p) \/ Destruct(p) \/ CloseDone(p)
  \/ \E u \in Upstream, c \in Chan : ChannelDies(p, u, c)

\* The handlers leave the connections alone.
LEMMA HandlesKeepsConn ==
  ASSUME LinkInv, NEW p \in Proxy, Handles(p)
  PROVE  ConnTypes' /\ ConnInv' /\ UNCHANGED conn
<1> USE QueuesAssumption DEF LinkInv, ConnTypes, ConnInv, PCs, Upstream
<1>1. CASE ConnectFail(p)
  BY <1>1 DEF ConnectFail, upVars
<1>2. CASE ConnectDone(p)
  BY <1>2 DEF ConnectDone, upVars
<1>3. ASSUME NEW c \in Chan, ChannelOpen(p, c)
      PROVE  ConnTypes' /\ ConnInv' /\ UNCHANGED conn
  <2>1. /\ pc[p] = "idle" /\ UNCHANGED <<i, conn>>
        /\ pc' = pc \/ pc' = [pc EXCEPT ![p] = "closing"]
    BY <1>3 DEF ChannelOpen
  <2>2. QED
    BY <2>1
<1>4. ASSUME NEW c \in Chan, ChannelClose(p, c)
      PROVE  ConnTypes' /\ ConnInv' /\ UNCHANGED conn
  BY <1>4 DEF ChannelClose, proxyVars
<1>5. ASSUME NEW c \in Chan, NEW q \in QName,
             QueueDelete(p, c, q) \/ \E flags \in Ask : QueueDeclare(p, c, q, flags)
      PROVE  ConnTypes' /\ ConnInv' /\ UNCHANGED conn
  <2>1. /\ pc[p] = "idle" /\ UNCHANGED <<i, conn>>
        /\ pc' = [pc EXCEPT ![p] = "delete"] \/ pc' = [pc EXCEPT ![p] = "declare"]
    BY <1>5 DEF QueueDelete, QueueDeclare, Request, upVars
  <2>2. QED
    BY <2>1
<1>6. CASE DeclareUpstream(p)
  BY <1>6 DEF DeclareUpstream
<1>7. CASE DeclareNote(p)
  BY <1>7 DEF DeclareNote
<1>8. CASE DeclareFail(p)
  BY <1>8 DEF DeclareFail, Ends
<1>9. CASE DeleteUpstream(p)
  BY <1>9 DEF DeleteUpstream, upVars
<1>10. CASE DeleteFail(p)
  BY <1>10 DEF DeleteFail, Ends
<1>11. CASE RequestOk(p)
  BY <1>11 DEF RequestOk, Ends, upVars
<1>12. CASE Leave(p)
  BY <1>12 DEF Leave, upVars
<1>13. CASE CloseBegin(p)
  BY <1>13 DEF CloseBegin
<1>14. CASE CloseFail(p)
  BY <1>14 DEF CloseFail, upVars
<1>15. CASE Destruct(p)
  BY <1>15 DEF Destruct, proxyVars
<1>16. CASE CloseDone(p)
  BY <1>16 DEF CloseDone, upVars
<1>17. ASSUME NEW u \in Upstream, NEW c \in Chan, ChannelDies(p, u, c)
       PROVE  ConnTypes' /\ ConnInv' /\ UNCHANGED conn
  BY <1>17 DEF ChannelDies
<1>18. QED
  BY <1>1, <1>2, <1>3, <1>4, <1>5, <1>6, <1>7, <1>8, <1>9, <1>10, <1>11, <1>12, <1>13, <1>14,
     <1>15, <1>16, <1>17 DEF Handles

\* Connections are made in order, and closed in order.
LEMMA LinkStep == LinkInv /\ [Next]_vars => LinkInv'
<1> SUFFICES ASSUME LinkInv, [Next]_vars PROVE LinkInv'
  OBVIOUS
<1> USE QueuesAssumption DEF LinkInv, ConnTypes, ConnInv, PCs, Upstream
<1>1. ASSUME NEW p \in Proxy, Handles(p) PROVE LinkInv'
  BY <1>1, HandlesKeepsConn
<1>2. ASSUME NEW p \in Proxy, ConnectUpstream(p) PROVE LinkInv'
  BY <1>2 DEF ConnectUpstream
<1>3. ASSUME NEW p \in Proxy, CloseConn(p) PROVE LinkInv'
  BY <1>3 DEF CloseConn
<1>4. ASSUME NEW p \in Proxy, NEW v \in Upstream, ConnDies(p, v) PROVE LinkInv'
  BY <1>4 DEF ConnDies
<1>5. CASE UNCHANGED vars
  BY <1>5 DEF vars, proxyVars, upVars
<1>6. QED
  BY <1>1, <1>2, <1>3, <1>4, <1>5 DEF Next, Handles

-----------------------------------------------------------------------------
(* Queues come and go.                                                     *)

QueueTypes ==
  /\ chan \in [Proxy -> [Upstream -> [Chan -> {"none", "open", "dead"}]]]
  /\ destruct \in [Proxy -> [Upstream -> Seq(QName)]]
  /\ queue \in [Upstream -> [QName -> QueueRec \cup {NoQueue}]]
  /\ wanted \subseteq QName
  /\ noted \in [Proxy -> [Upstream -> SUBSET QName]]
  /\ DOMAIN req = Proxy

\* The request in hand, and the channel that Upstream.Close has taken.
ReqInv ==
  \A p \in Proxy :
    /\ pc[p] \in {"declare", "note", "delete"} =>
         req[p].name \in Name \cup {p} /\ req[p].flags \subseteq Flag /\ req[p].chan \in Chan
    /\ pc[p] = "destruct" => req[p].chan \in Chan

\* A queue that a request is about to delete, or to be noted for deletion, is one whose
\* deletion some client has asked for, and so are the ones in Upstream.destruct.
AskInv ==
  /\ \A p \in Proxy :
       /\ pc[p] = "delete" => req[p].name \in wanted
       /\ pc[p] \in {"declare", "note"} /\ "autoDelete" \in req[p].flags => req[p].name \in wanted
  /\ \A p \in Proxy, u \in Upstream : \A k \in 1 .. Len(destruct[p][u]) :
       destruct[p][u][k] \in wanted \cup {p}

\* Queue q is to be deleted; it is gone, or is not the one p has made; some channel is
\* dead.
Listed(p, u, q) == \E k \in 1 .. Len(destruct[p][u]) : destruct[p][u][k] = q
Gone(p, u, q) == queue[u][q] = NoQueue \/ queue[u][q].by # p
Dead(p, u) == \E c \in Chan : chan[p][u][c] = "dead"

\* What p has noted at u is on its list, or is dealt with.
Kept(p, u, q) ==
  IF conn[p][u] = "closed"
  THEN Gone(p, u, q) \/ Dead(p, u)
  ELSE Listed(p, u, q) \/ (pc[p] = "destruct" /\ i[p] = u /\ (Gone(p, u, q) \/ Dead(p, u)))

\* What p has noted is on its list, until Upstream.Close has been at it.
CleanInv ==
  \A p \in Proxy, u \in Upstream : \A q \in noted[p][u] : Kept(p, u, q)

QueueInv == LinkInv /\ QueueTypes /\ ReqInv /\ AskInv /\ CleanInv

\* Nothing is asked for, noted or declared at the start.
LEMMA QueueInit == Init => QueueInv
<1> SUFFICES ASSUME Init PROVE QueueInv
  OBVIOUS
<1>1. QueueTypes
  BY DEF Init, QueueTypes
<1>2. ReqInv /\ AskInv /\ CleanInv
  BY DEF Init, ReqInv, AskInv, CleanInv
<1>3. QED
  BY <1>1, <1>2, LinkInit DEF QueueInv

\* What a declaration changes at the brokers.
LEMMA DeclaredEffect ==
  ASSUME QueueTypes, NEW p \in Proxy, NEW u \in Upstream, NEW q \in QName,
         NEW flags \in SUBSET Flag, req[p].flags \in SUBSET Flag
  PROVE  /\ Declared(p, u, q, flags) \in [Upstream -> [QName -> QueueRec \cup {NoQueue}]]
         /\ \A v \in Upstream, r \in QName :
              \/ Declared(p, u, q, flags)[v][r] = queue[v][r]
              \/ queue[v][r] = NoQueue /\ Declared(p, u, q, flags)[v][r].by = p
<1> DEFINE new == [flags |-> flags, by |-> p, asked |-> req[p].flags]
<1>1. new \in QueueRec /\ new.by = p
  BY DEF QueueRec
<1>2. Declared(p, u, q, flags) = IF queue[u][q] # NoQueue THEN queue
                                 ELSE [queue EXCEPT ![u][q] = new]
  BY DEF Declared
<1> HIDE DEF new
<1>3. QED
  BY <1>1, <1>2 DEF QueueTypes

\* What the end of a connection changes there.
LEMMA DroppedEffect ==
  ASSUME QueueTypes, NEW p \in Proxy, NEW u \in Upstream
  PROVE  /\ Dropped(p, u) \in [Upstream -> [QName -> QueueRec \cup {NoQueue}]]
         /\ \A v \in Upstream, r \in QName :
              \/ Dropped(p, u)[v][r] = queue[v][r]
              \/ /\ Dropped(p, u)[v][r] = NoQueue /\ v = u
                 /\ "exclusive" \in queue[v][r].flags /\ queue[v][r].by = p
  BY DEF QueueTypes, Dropped

\* The steps of proxy p, and of its upstreams.
Acts(p) ==
  Handles(p) \/ ConnectUpstream(p) \/ CloseConn(p) \/ \E u \in Upstream : ConnDies(p, u)

\* What a step of p does to the queues: it makes queues of its own while it declares,
\* and it deletes what it may.
LEMMA QueueEffect ==
  ASSUME QueueInv, NEW p \in Proxy, Acts(p)
  PROVE  /\ queue' \in [Upstream -> [QName -> QueueRec \cup {NoQueue}]]
         /\ \A v \in Upstream, r \in QName :
              \/ queue'[v][r] = queue[v][r]
              \/ pc[p] = "declare" /\ queue[v][r] = NoQueue /\ queue'[v][r].by = p
              \/ /\ queue'[v][r] = NoQueue
                 /\ \/ r \in wanted
                    \/ r = p /\ pc[p] = "destruct"
                    \/ "exclusive" \in queue[v][r].flags /\ queue[v][r].by = p /\ conn'[p][v] # "up"
<1> DEFINE Goal == /\ queue' \in [Upstream -> [QName -> QueueRec \cup {NoQueue}]]
                   /\ \A v \in Upstream, r \in QName :
                        \/ queue'[v][r] = queue[v][r]
                        \/ pc[p] = "declare" /\ queue[v][r] = NoQueue /\ queue'[v][r].by = p
                        \/ /\ queue'[v][r] = NoQueue
                           /\ \/ r \in wanted
                              \/ r = p /\ pc[p] = "destruct"
                              \/ /\ "exclusive" \in queue[v][r].flags /\ queue[v][r].by = p
                                 /\ conn'[p][v] # "up"
<1>1. CASE DeclareUpstream(p)
  <2> DEFINE u == i[p]
             q == req[p].name
  <2>1. /\ pc[p] = "declare" /\ u \in Upstream /\ q \in QName /\ req[p].flags \in SUBSET Flag
    BY <1>1, QueuesAssumption
       DEF DeclareUpstream, QueueInv, ReqInv, LinkInv, ConnTypes, Upstream, QName
  <2>2. QueueDeclareArgs(q, req[p].flags) \in SUBSET Flag
    BY <2>1, QueuesAssumption DEF QueueDeclareArgs
  <2>3. \E flags \in SUBSET Flag : queue' = Declared(p, u, q, flags)
    BY <1>1, <2>2 DEF DeclareUpstream, DeclareTryPassive, DeclareNormal
  <2>4. QED
    BY <2>1, <2>3, DeclaredEffect DEF QueueInv
<1>2. CASE DeleteUpstream(p)
  <2>1. /\ i[p] \in Upstream /\ req[p].name \in wanted
        /\ queue' = [queue EXCEPT ![i[p]][req[p].name] = NoQueue]
    BY <1>2, QueuesAssumption
       DEF DeleteUpstream, QueueInv, AskInv, LinkInv, ConnTypes, Upstream
  <2>2. QED
    BY <2>1 DEF QueueInv, QueueTypes
<1>3. CASE Destruct(p)
  <2> DEFINE u == i[p]
             q == Head(destruct[p][u])
  <2>1. u \in Upstream /\ destruct[p][u] \in Seq(QName) /\ destruct[p][u] # <<>>
    BY <1>3, QueuesAssumption
       DEF Destruct, QueueInv, LinkInv, ConnTypes, ConnInv, Upstream, QueueTypes
  <2>2. q = destruct[p][u][1] /\ 1 \in 1 .. Len(destruct[p][u])
    BY <2>1
  <2>3. q \in wanted \/ (q = p /\ pc[p] = "destruct")
    BY <1>3, <2>1, <2>2 DEF QueueInv, AskInv, Destruct
  <2>4. queue' = queue \/ queue' = [queue EXCEPT ![u][q] = NoQueue]
    BY <1>3 DEF Destruct
  <2>5. q \in QName
    BY <2>1
  <2> HIDE DEF u, q
  <2>6. CASE queue' = queue
    BY <2>6 DEF QueueInv, QueueTypes
  <2>7. CASE queue' = [queue EXCEPT ![u][q] = NoQueue]
    BY <2>1, <2>3, <2>5, <2>7 DEF QueueInv, QueueTypes
  <2>8. QED
    BY <2>4, <2>6, <2>7
<1>4. CASE CloseConn(p)
  <2>1. i[p] \in Upstream /\ queue' = Dropped(p, i[p]) /\ conn'[p][i[p]] # "up"
    BY <1>4, QueuesAssumption DEF CloseConn, QueueInv, LinkInv, ConnTypes, ConnInv, Upstream
  <2>2. QED
    BY <2>1, DroppedEffect DEF QueueInv
<1>5. ASSUME NEW u \in Upstream, ConnDies(p, u) PROVE Goal
  <2>1. queue' = Dropped(p, u) /\ conn'[p][u] # "up"
    BY <1>5 DEF ConnDies, QueueInv, LinkInv, ConnTypes
  <2>2. QED
    BY <2>1, DroppedEffect DEF QueueInv
<1>6. CASE UNCHANGED queue
  BY <1>6 DEF QueueInv, QueueTypes
<1>7. QED
  BY <1>1, <1>2, <1>3, <1>4, <1>5, <1>6
     DEF Acts, Handles, ConnectUpstream, ConnectFail, ConnectDone, ChannelOpen, ChannelClose,
         QueueDelete, QueueDeclare, Request, DeclareNote, DeclareFail, DeleteFail, RequestOk,
         Leave, CloseBegin, CloseFail, CloseDone, ChannelDies

\* One entry of a table of tables changes.
LEMMA CellEdit ==
  ASSUME NEW S, NEW T, NEW R, NEW f \in [S -> [T -> R]], NEW s \in S, NEW t \in T, NEW x \in R
  PROVE  /\ [f EXCEPT ![s][t] = x] \in [S -> [T -> R]]
         /\ \A a \in S, b \in T : [f EXCEPT ![s][t] = x][a][b] = IF a = s /\ b = t THEN x ELSE f[a][b]
<1> DEFINE row == [f[s] EXCEPT ![t] = x]
<1>1. row \in [T -> R] /\ \A b \in T : row[b] = IF b = t THEN x ELSE f[s][b]
  OBVIOUS
<1>2. [f EXCEPT ![s][t] = x] = [f EXCEPT ![s] = row]
  OBVIOUS
<1> HIDE DEF row
<1>3. QED
  BY <1>1, <1>2

\* A channel changes.
ChanStates == {"none", "open", "dead"}

\* What setting the state of one channel does to the others: nothing.
LEMMA ChanEdit ==
  ASSUME QueueTypes, NEW p \in Proxy, NEW u \in Upstream, NEW c \in Chan, NEW v \in ChanStates,
         chan' = [chan EXCEPT ![p][u][c] = v]
  PROVE  /\ chan' \in [Proxy -> [Upstream -> [Chan -> ChanStates]]]
         /\ \A a \in Proxy, b \in Upstream, d \in Chan :
              chan'[a][b][d] = IF a = p /\ b = u /\ d = c THEN v ELSE chan[a][b][d]
<1> DEFINE row == [chan[p][u] EXCEPT ![c] = v]
<1>0. chan \in [Proxy -> [Upstream -> [Chan -> ChanStates]]]
  BY DEF QueueTypes, ChanStates
<1>1. row \in [Chan -> ChanStates] /\ \A d \in Chan : row[d] = IF d = c THEN v ELSE chan[p][u][d]
  BY <1>0
<1> DEFINE mine == [chan[p] EXCEPT ![u] = row]
<1>2. chan' = [chan EXCEPT ![p] = mine]
  OBVIOUS
<1> HIDE DEF row
<1>3. /\ mine \in [Upstream -> [Chan -> ChanStates]]
      /\ \A b \in Upstream : mine[b] = IF b = u THEN row ELSE chan[p][b]
  BY <1>0, <1>1
<1> HIDE DEF mine
<1>4. chan' \in [Proxy -> [Upstream -> [Chan -> ChanStates]]]
  BY <1>0, <1>2, <1>3
<1>5. \A a \in Proxy : chan'[a] = IF a = p THEN mine ELSE chan[a]
  BY <1>0, <1>2
<1>6. QED
  BY <1>1, <1>3, <1>4, <1>5

\* The variables keep their types.
LEMMA QueueTypesStep ==
  ASSUME QueueInv, NEW p \in Proxy, Acts(p)
  PROVE  QueueTypes'
<1> USE QueuesAssumption DEF QueueTypes
<1>1. queue' \in [Upstream -> [QName -> QueueRec \cup {NoQueue}]]
  BY QueueEffect
<1>2. i[p] \in 0 .. N /\ (pc[p] \in {"note", "destruct"} => i[p] \in Upstream)
  BY DEF QueueInv, LinkInv, ConnTypes, ConnInv, Upstream
<1>3. CASE ConnectUpstream(p)
  BY <1>1, <1>3 DEF QueueInv, ConnectUpstream
<1>4. CASE ConnectFail(p) \/ ConnectDone(p) \/ Leave(p) \/ CloseFail(p) \/ CloseDone(p)
  BY <1>1, <1>4 DEF QueueInv, ConnectFail, ConnectDone, Leave, CloseFail, CloseDone, upVars
<1>5. ASSUME NEW c \in Chan, ChannelOpen(p, c) \/ ChannelClose(p, c) PROVE QueueTypes'
  <2>1. UNCHANGED <<destruct, wanted, noted, req>>
    BY <1>5 DEF ChannelOpen, ChannelClose, proxyVars
  <2>2. CASE ChannelOpen(p, c)
    <3> DEFINE opens == {u \in Upstream : \A v \in {w \in Upstream : conn[p][w] = "lost"} : u < v}
               rows == [u \in Upstream |-> IF u \in opens THEN [chan[p][u] EXCEPT ![c] = "open"]
                                                          ELSE chan[p][u]]
    <3>1. chan' = [chan EXCEPT ![p] = rows]
      BY <2>2 DEF ChannelOpen
    <3> HIDE DEF opens
    <3>2. rows \in [Upstream -> [Chan -> {"none", "open", "dead"}]]
      BY DEF QueueInv
    <3> HIDE DEF rows
    <3>3. QED
      BY <1>1, <2>1, <3>1, <3>2 DEF QueueInv
  <2>3. CASE ChannelClose(p, c)
    <3> DEFINE rows == [u \in Upstream |-> [chan[p][u] EXCEPT ![c] = "none"]]
    <3>1. chan' = [chan EXCEPT ![p] = rows]
      BY <2>3 DEF ChannelClose
    <3>2. rows \in [Upstream -> [Chan -> {"none", "open", "dead"}]]
      BY DEF QueueInv
    <3> HIDE DEF rows
    <3>3. QED
      BY <1>1, <2>1, <3>1, <3>2 DEF QueueInv
  <2>4. QED
    BY <1>5, <2>2, <2>3
<1>6. ASSUME NEW c \in Chan, NEW q \in QName,
             QueueDelete(p, c, q) \/ \E flags \in Ask : QueueDeclare(p, c, q, flags)
      PROVE  QueueTypes'
  <2>1. /\ UNCHANGED <<chan, destruct, noted>>
        /\ wanted' = wanted \/ wanted' = wanted \cup {q}
        /\ \E x : req' = [req EXCEPT ![p] = x]
    BY <1>6 DEF QueueDelete, QueueDeclare, Request, upVars
  <2>2. QED
    BY <1>1, <2>1 DEF QueueInv
<1>7. CASE DeclareUpstream(p) \/ DeclareFail(p) \/ DeleteUpstream(p) \/ DeleteFail(p)
  <2>1. pc[p] \in {"declare", "delete"} /\ i[p] \in Upstream /\ req[p].chan \in Chan
    BY <1>2, <1>7
       DEF DeclareUpstream, DeclareFail, DeleteUpstream, DeleteFail, QueueInv, ReqInv, Upstream
  <2>2. /\ UNCHANGED <<destruct, wanted, noted>>
        /\ chan' = chan \/ chan' = [chan EXCEPT ![p][i[p]][req[p].chan] = "dead"]
        /\ req' = req \/ req' = [req EXCEPT ![p] = Idle]
    BY <1>7 DEF DeclareUpstream, DeclareTryPassive, DeclareNormal, DeclareFail, DeleteUpstream,
                DeleteFail, Ends, upVars
  <2>3. chan' \in [Proxy -> [Upstream -> [Chan -> {"none", "open", "dead"}]]]
    <3>1. CASE chan' = chan
      BY <3>1 DEF QueueInv
    <3>2. CASE chan' = [chan EXCEPT ![p][i[p]][req[p].chan] = "dead"]
      BY <2>1, <3>2, ChanEdit DEF QueueInv, ChanStates
    <3>3. QED
      BY <2>2, <3>1, <3>2
  <2>4. QED
    BY <1>1, <2>1, <2>2, <2>3 DEF QueueInv
<1>8. CASE DeclareNote(p)
  <2>1. pc[p] = "note" /\ i[p] \in Upstream /\ req[p].name \in QName
    BY <1>2, <1>8 DEF DeclareNote, QueueInv, ReqInv, QName
  <2>2. /\ UNCHANGED <<chan, wanted, req>>
        /\ \/ UNCHANGED <<destruct, noted>>
           \/ /\ destruct' = [destruct EXCEPT ![p][i[p]] = Append(@, req[p].name)]
              /\ noted' = [noted EXCEPT ![p][i[p]] = @ \cup {req[p].name}]
    BY <1>8 DEF DeclareNote
  <2>3. destruct' \in [Proxy -> [Upstream -> Seq(QName)]]
    <3>1. Append(destruct[p][i[p]], req[p].name) \in Seq(QName)
      BY <2>1 DEF QueueInv
    <3>2. [destruct EXCEPT ![p][i[p]] = Append(@, req[p].name)] \in [Proxy -> [Upstream -> Seq(QName)]]
      BY <2>1, <3>1, CellEdit DEF QueueInv
    <3>3. QED
      BY <2>2, <3>2 DEF QueueInv
  <2>4. noted' \in [Proxy -> [Upstream -> SUBSET QName]]
    <3>1. noted[p][i[p]] \cup {req[p].name} \in SUBSET QName
      BY <2>1 DEF QueueInv
    <3>2. [noted EXCEPT ![p][i[p]] = @ \cup {req[p].name}] \in [Proxy -> [Upstream -> SUBSET QName]]
      BY <2>1, <3>1, CellEdit DEF QueueInv
    <3>3. QED
      BY <2>2, <3>2 DEF QueueInv
  <2>5. QED
    BY <1>1, <2>2, <2>3, <2>4 DEF QueueInv
<1>9. CASE RequestOk(p)
  BY <1>1, <1>9 DEF QueueInv, RequestOk, Ends, upVars
<1>10. CASE CloseBegin(p)
  <2>1. PICK c \in Chan : /\ chan' = [chan EXCEPT ![p][i[p]][c] = IF @ = "none" THEN "open" ELSE @]
                         /\ req' = [req EXCEPT ![p] = [chan |-> c]]
    BY <1>10 DEF CloseBegin
  <2>2. i[p] \in Upstream /\ UNCHANGED <<destruct, wanted, noted>>
    BY <1>2, <1>10 DEF CloseBegin, Upstream
  <2>3. QED
    BY <1>1, <2>1, <2>2 DEF QueueInv
<1>11. CASE Destruct(p)
  <2>1. pc[p] = "destruct" /\ i[p] \in Upstream /\ req[p].chan \in Chan
    BY <1>2, <1>11 DEF Destruct, QueueInv, ReqInv
  <2>2. /\ UNCHANGED <<wanted, noted, req>>
        /\ chan' = chan \/ chan' = [chan EXCEPT ![p][i[p]][req[p].chan] = "dead"]
        /\ destruct[p][i[p]] # <<>>
        /\ destruct' = [destruct EXCEPT ![p][i[p]] = Tail(@)]
    BY <1>11 DEF Destruct, proxyVars
  <2>3. Tail(destruct[p][i[p]]) \in Seq(QName)
    BY <2>1, <2>2 DEF QueueInv
  <2>4. chan' \in [Proxy -> [Upstream -> [Chan -> {"none", "open", "dead"}]]]
    <3>1. CASE chan' = chan
      BY <3>1 DEF QueueInv
    <3>2. CASE chan' = [chan EXCEPT ![p][i[p]][req[p].chan] = "dead"]
      BY <2>1, <3>2, ChanEdit DEF QueueInv, ChanStates
    <3>3. QED
      BY <2>2, <3>1, <3>2
  <2>5. QED
    BY <1>1, <2>1, <2>2, <2>3, <2>4 DEF QueueInv
<1>12. CASE CloseConn(p)
  BY <1>1, <1>12 DEF QueueInv, CloseConn
<1>13. ASSUME NEW u \in Upstream, NEW c \in Chan, ChannelDies(p, u, c) PROVE QueueTypes'
  BY <1>1, <1>13 DEF QueueInv, ChannelDies
<1>14. ASSUME NEW u \in Upstream, ConnDies(p, u) PROVE QueueTypes'
  BY <1>1, <1>14 DEF QueueInv, ConnDies
<1>15. QED
  BY <1>3, <1>4, <1>5, <1>6, <1>7, <1>8, <1>9, <1>10, <1>11, <1>12, <1>13, <1>14
     DEF Acts, Handles

\* A step of p leaves what belongs to another proxy alone.
LEMMA OthersAlone ==
  ASSUME QueueInv, NEW p \in Proxy, Acts(p), NEW o \in Proxy, o # p
  PROVE  /\ pc'[o] = pc[o] /\ i'[o] = i[o] /\ req'[o] = req[o] /\ conn'[o] = conn[o]
         /\ chan'[o] = chan[o] /\ destruct'[o] = destruct[o] /\ noted'[o] = noted[o]
<1> DEFINE Same == /\ pc'[o] = pc[o] /\ i'[o] = i[o] /\ req'[o] = req[o] /\ conn'[o] = conn[o]
                   /\ chan'[o] = chan[o] /\ destruct'[o] = destruct[o] /\ noted'[o] = noted[o]
<1> USE DEF QueueInv, QueueTypes, LinkInv, ConnTypes, upVars, proxyVars
<1>1. CASE ConnectUpstream(p) \/ ConnectFail(p) \/ ConnectDone(p) \/ Leave(p) \/ CloseFail(p) \/ CloseDone(p)
  BY <1>1 DEF ConnectUpstream, ConnectFail, ConnectDone, Leave, CloseFail, CloseDone
<1>2. ASSUME NEW c \in Chan, ChannelOpen(p, c) \/ ChannelClose(p, c) PROVE Same
  <2>1. CASE ChannelOpen(p, c)
    <3>1. /\ \E x : chan' = [chan EXCEPT ![p] = x]
          /\ pc' = pc \/ pc' = [pc EXCEPT ![p] = "closing"]
          /\ UNCHANGED <<i, req, conn, destruct, noted>>
      BY <2>1 DEF ChannelOpen
    <3>2. QED
      BY <3>1
  <2>2. CASE ChannelClose(p, c)
    BY <2>2 DEF ChannelClose
  <2>3. QED
    BY <1>2, <2>1, <2>2
<1>3. ASSUME NEW c \in Chan, NEW q \in QName,
             QueueDelete(p, c, q) \/ \E flags \in Ask : QueueDeclare(p, c, q, flags)
      PROVE  Same
  <2>1. /\ \E x : req' = [req EXCEPT ![p] = x]
        /\ \E x : pc' = [pc EXCEPT ![p] = x]
        /\ UNCHANGED <<i, conn, chan, destruct, noted>>
    BY <1>3 DEF QueueDelete, QueueDeclare, Request
  <2>2. QED
    BY <2>1
<1>4. CASE DeclareUpstream(p)
  <2>1. /\ chan' = chan \/ \E c : chan' = [chan EXCEPT ![p][i[p]][c] = "dead"]
        /\ pc' = [pc EXCEPT ![p] = "note"]
        /\ UNCHANGED <<i, req, conn, destruct, noted>>
    BY <1>4 DEF DeclareUpstream, DeclareTryPassive, DeclareNormal
  <2>2. QED
    BY <2>1
<1>5. CASE DeclareNote(p)
  BY <1>5 DEF DeclareNote
<1>6. CASE DeclareFail(p)
  BY <1>6 DEF DeclareFail, Ends
<1>7. CASE DeleteUpstream(p) \/ RequestOk(p)
  BY <1>7 DEF DeleteUpstream, RequestOk, Ends
<1>8. CASE DeleteFail(p)
  BY <1>8 DEF DeleteFail, Ends
<1>9. CASE CloseBegin(p)
  BY <1>9 DEF CloseBegin
<1>10. CASE Destruct(p)
  BY <1>10 DEF Destruct
<1>11. CASE CloseConn(p)
  BY <1>11 DEF CloseConn
<1>12. ASSUME NEW u \in Upstream, NEW c \in Chan, ChannelDies(p, u, c) PROVE Same
  BY <1>12 DEF ChannelDies
<1>13. ASSUME NEW u \in Upstream, ConnDies(p, u) PROVE Same
  BY <1>13 DEF ConnDies
<1>14. QED
  BY <1>1, <1>2, <1>3, <1>4, <1>5, <1>6, <1>7, <1>8, <1>9, <1>10, <1>11, <1>12, <1>13
     DEF Acts, Handles

\* The request in hand of p, and what it is to delete, after a step of its own.
OwnReq(p) ==
  /\ pc[p] \in {"declare", "note", "delete"} =>
       req[p].name \in Name \cup {p} /\ req[p].flags \subseteq Flag /\ req[p].chan \in Chan
  /\ pc[p] = "destruct" => req[p].chan \in Chan
  /\ pc[p] = "delete" => req[p].name \in wanted
  /\ pc[p] \in {"declare", "note"} /\ "autoDelete" \in req[p].flags => req[p].name \in wanted

OwnList(p) ==
  \A u \in Upstream : \A k \in 1 .. Len(destruct[p][u]) : destruct[p][u][k] \in wanted \cup {p}

\* What a proxy works on stays something its client asked for.
LEMMA OwnReqStep ==
  ASSUME QueueInv, NEW p \in Proxy, Acts(p)
  PROVE  OwnReq(p)' /\ wanted \subseteq wanted'
<1>0. /\ pc \in [Proxy -> PCs] /\ DOMAIN req = Proxy
      /\ OwnReq(p)
  BY DEF QueueInv, QueueTypes, LinkInv, ConnTypes, ReqInv, AskInv, OwnReq
<1> DEFINE Goal == OwnReq(p)' /\ wanted \subseteq wanted'
<1> USE DEF OwnReq, PCs, upVars, proxyVars
<1>1. CASE ConnectUpstream(p) \/ ConnectFail(p) \/ ConnectDone(p) \/ Leave(p) \/ CloseFail(p) \/ CloseDone(p)
  BY <1>0, <1>1 DEF ConnectUpstream, ConnectFail, ConnectDone, Leave, CloseFail, CloseDone
<1>2. ASSUME NEW c \in Chan, ChannelOpen(p, c) \/ ChannelClose(p, c) PROVE Goal
  <2>1. /\ pc[p] = "idle" /\ (pc' = pc \/ pc' = [pc EXCEPT ![p] = "closing"])
        /\ UNCHANGED <<req, wanted>>
    BY <1>2 DEF ChannelOpen, ChannelClose
  <2>2. QED
    BY <1>0, <2>1
<1>3. ASSUME NEW c \in Chan, NEW q \in QName, QueueDelete(p, c, q) PROVE Goal
  BY <1>0, <1>3 DEF QueueDelete, Request
<1>4. ASSUME NEW c \in Chan, NEW q \in QName, NEW flags \in Ask, QueueDeclare(p, c, q, flags)
      PROVE  Goal
  <2>1. flags \subseteq Flag
    BY QueuesAssumption
  <2>2. /\ q \in Name \cup {p}
        /\ req' = [req EXCEPT ![p] = [chan |-> c, name |-> q, flags |-> flags]]
        /\ pc' = [pc EXCEPT ![p] = "declare"]
        /\ wanted' = IF "autoDelete" \in flags THEN wanted \cup {q} ELSE wanted
    BY <1>4 DEF QueueDeclare, Request
  <2>3. req'[p].chan = c /\ req'[p].name = q /\ req'[p].flags = flags /\ pc'[p] = "declare"
    BY <1>0, <2>2
  <2>4. QED
    BY <2>1, <2>2, <2>3
<1>5. CASE DeclareUpstream(p)
  BY <1>0, <1>5 DEF DeclareUpstream
<1>6. CASE DeclareNote(p)
  BY <1>0, <1>6 DEF DeclareNote
<1>7. CASE DeclareFail(p) \/ DeleteFail(p) \/ RequestOk(p)
  BY <1>0, <1>7 DEF DeclareFail, DeleteFail, RequestOk, Ends
<1>8. CASE DeleteUpstream(p)
  BY <1>0, <1>8 DEF DeleteUpstream
<1>9. CASE CloseBegin(p)
  <2>1. PICK c \in Chan : req' = [req EXCEPT ![p] = [chan |-> c]]
    BY <1>9 DEF CloseBegin
  <2>2. pc' = [pc EXCEPT ![p] = "destruct"] /\ UNCHANGED wanted
    BY <1>9 DEF CloseBegin
  <2>3. QED
    BY <1>0, <2>1, <2>2
<1>10. CASE Destruct(p) \/ CloseConn(p)
  BY <1>0, <1>10 DEF Destruct, CloseConn
<1>11. ASSUME NEW u \in Upstream, ConnDies(p, u) \/ \E c \in Chan : ChannelDies(p, u, c) PROVE Goal
  BY <1>0, <1>11 DEF ConnDies, ChannelDies
<1>12. QED
  BY <1>1, <1>2, <1>3, <1>4, <1>5, <1>6, <1>7, <1>8, <1>9, <1>10, <1>11 DEF Acts, Handles

\* Upstream.destruct of p changes only where RegisterEmulatedAutoDeleteQueue or
\* CleanupAutoGeneratedQueue adds to its end, and where Upstream.Close takes its head.
LEMMA ListEffect ==
  ASSUME QueueInv, NEW p \in Proxy, Acts(p)
  PROVE  \/ UNCHANGED <<destruct, noted>>
         \/ /\ pc[p] = "note" /\ i[p] \in Upstream /\ req[p].name \in wanted \cup {p}
            /\ destruct' = [destruct EXCEPT ![p][i[p]] = Append(@, req[p].name)]
            /\ noted' = [noted EXCEPT ![p][i[p]] = @ \cup {req[p].name}]
         \/ /\ Destruct(p) /\ i[p] \in Upstream /\ destruct[p][i[p]] # <<>>
            /\ destruct' = [destruct EXCEPT ![p][i[p]] = Tail(@)]
            /\ UNCHANGED noted
<1>0. pc[p] \in {"note", "destruct"} => i[p] \in Upstream
  BY QueuesAssumption DEF QueueInv, LinkInv, ConnTypes, ConnInv, Upstream
<1>1. CASE DeclareNote(p)
  <2>1. pc[p] = "note" /\ i[p] \in Upstream
    BY <1>0, <1>1 DEF DeclareNote
  <2>2. \/ UNCHANGED <<destruct, noted>>
        \/ /\ req[p].name \in Proxy \/ "autoDelete" \in req[p].flags
           /\ destruct' = [destruct EXCEPT ![p][i[p]] = Append(@, req[p].name)]
           /\ noted' = [noted EXCEPT ![p][i[p]] = @ \cup {req[p].name}]
    BY <1>1 DEF DeclareNote, ShouldEmulateAutoDelete
  <2>3. /\ "autoDelete" \in req[p].flags => req[p].name \in wanted
        /\ req[p].name \in Proxy => req[p].name = p
    BY <2>1, QueuesAssumption DEF QueueInv, AskInv, ReqInv
  <2>4. QED
    BY <2>1, <2>2, <2>3
<1>2. CASE Destruct(p)
  BY <1>0, <1>2 DEF Destruct
<1>3. CASE UNCHANGED <<destruct, noted>>
  BY <1>3
<1>4. QED
  BY <1>1, <1>2, <1>3
     DEF Acts, Handles, ConnectUpstream, ConnectFail, ConnectDone, ChannelOpen, ChannelClose,
         QueueDelete, QueueDeclare, Request, DeclareUpstream, DeclareFail, DeleteUpstream,
         DeleteFail, RequestOk, Leave, CloseBegin, CloseFail, CloseConn, CloseDone, ChannelDies,
         ConnDies, upVars

\* What a proxy has on its list of emulated queues stays something its client asked
\* for.
LEMMA OwnListStep ==
  ASSUME QueueInv, NEW p \in Proxy, Acts(p)
  PROVE  OwnList(p)'
<1>0. OwnList(p) /\ wanted \subseteq wanted'
  BY OwnReqStep DEF QueueInv, AskInv, OwnList
<1>1. destruct \in [Proxy -> [Upstream -> Seq(QName)]]
  BY DEF QueueInv, QueueTypes
<1>2. CASE UNCHANGED destruct
  BY <1>0, <1>2 DEF OwnList
<1>3. ASSUME NEW w \in Upstream, NEW q \in wanted \cup {p},
             destruct' = [destruct EXCEPT ![p][w] = Append(@, q)]
      PROVE  OwnList(p)'
  <2>1. SUFFICES ASSUME NEW u \in Upstream, NEW k \in 1 .. Len(destruct'[p][u])
                 PROVE  destruct'[p][u][k] \in wanted \cup {p}
    BY <1>0 DEF OwnList
  <2>2. CASE u # w
    BY <1>0, <1>1, <1>3, <2>2 DEF OwnList
  <2>3. CASE u = w
    <3>1. destruct'[p][u] = Append(destruct[p][u], q) /\ destruct[p][u] \in Seq(QName)
      BY <1>1, <1>3, <2>3
    <3>2. k \in 1 .. Len(destruct[p][u]) + 1
      BY <3>1
    <3>3. destruct'[p][u][k] = IF k = Len(destruct[p][u]) + 1 THEN q ELSE destruct[p][u][k]
      BY <3>1, <3>2
    <3>4. Len(destruct[p][u]) \in Nat
      BY <3>1
    <3>5. k # Len(destruct[p][u]) + 1 => k \in 1 .. Len(destruct[p][u])
      BY <3>2, <3>4
    <3>6. QED
      BY <1>0, <3>3, <3>5 DEF OwnList
  <2>4. QED
    BY <2>2, <2>3
<1>4. ASSUME NEW w \in Upstream, destruct[p][w] # <<>>,
             destruct' = [destruct EXCEPT ![p][w] = Tail(@)]
      PROVE  OwnList(p)'
  <2>1. SUFFICES ASSUME NEW u \in Upstream, NEW k \in 1 .. Len(destruct'[p][u])
                 PROVE  destruct'[p][u][k] \in wanted \cup {p}
    BY <1>0 DEF OwnList
  <2>2. CASE u # w
    BY <1>0, <1>1, <1>4, <2>2 DEF OwnList
  <2>3. CASE u = w
    <3>1. destruct'[p][u] = Tail(destruct[p][u]) /\ destruct[p][u] \in Seq(QName)
      BY <1>1, <1>4, <2>3
    <3> DEFINE l == destruct[p][u]
    <3>0. l \in Seq(QName) /\ l # <<>> /\ k \in 1 .. Len(Tail(l))
      BY <1>4, <2>3, <3>1
    <3> HIDE DEF l
    <3>2. k \in 1 .. Len(l) - 1 /\ Tail(l)[k] = l[k + 1]
      BY <3>0
    <3> USE DEF l
    <3>3. k + 1 \in 1 .. Len(destruct[p][u])
      BY <3>1, <3>2
    <3>4. QED
      BY <1>0, <3>1, <3>2, <3>3 DEF OwnList
  <2>4. QED
    BY <2>2, <2>3
<1>5. QED
  BY <1>2, <1>3, <1>4, ListEffect

\* The steps of one proxy leave the others' requests and lists alone.
LEMMA ReqAskStep ==
  ASSUME QueueInv, NEW p \in Proxy, Acts(p)
  PROVE  ReqInv' /\ AskInv'
<1>1. OwnReq(p)' /\ OwnList(p)' /\ wanted \subseteq wanted'
  BY OwnReqStep, OwnListStep
<1>2. \A o \in Proxy : OwnReq(o) /\ OwnList(o)
  BY DEF QueueInv, ReqInv, AskInv, OwnReq, OwnList
<1>3. ASSUME NEW o \in Proxy PROVE OwnReq(o)' /\ OwnList(o)'
  <2>1. CASE o = p
    BY <1>1, <2>1
  <2>2. CASE o # p
    <3>1. pc'[o] = pc[o] /\ req'[o] = req[o] /\ destruct'[o] = destruct[o]
      BY <2>2, OthersAlone
    <3>2. QED
      BY <1>1, <1>2, <3>1 DEF OwnReq, OwnList
  <2>3. QED
    BY <2>1, <2>2
<1>4. QED
  BY <1>3 DEF ReqInv, AskInv, OwnReq, OwnList

-----------------------------------------------------------------------------
(* The clean-up.                                                           *)

\* A queue that is gone for p comes back only when p declares it.
LEMMA GoneStays ==
  ASSUME QueueInv, NEW p \in Proxy, Acts(p), NEW o \in Proxy, NEW u \in Upstream,
         NEW q \in QName, Gone(o, u, q), o = p => pc[p] # "declare"
  PROVE  Gone(o, u, q)'
  BY QueueEffect DEF Gone

\* A channel that is dead stays so while the main loop of p does not close it.
LEMMA DeadStays ==
  ASSUME QueueInv, NEW p \in Proxy, Acts(p), NEW u \in Upstream, Dead(p, u), pc[p] # "idle"
  PROVE  Dead(p, u)'
<1> DEFINE Goal == Dead(p, u)'
<1>0. /\ QueueTypes
      /\ i[p] \in 0 .. N /\ (pc[p] \in {"note", "destruct"} => i[p] \in Upstream)
      /\ pc[p] \in {"declare", "delete", "destruct"} => req[p].chan \in Chan
  BY QueuesAssumption DEF QueueInv, LinkInv, ConnTypes, ConnInv, Upstream, ReqInv
<1>1. PICK d \in Chan : chan[p][u][d] = "dead"
  BY DEF Dead
<1>2. ASSUME NEW w \in Upstream, NEW c \in Chan, chan' = [chan EXCEPT ![p][w][c] = "dead"]
      PROVE  Goal
  <2>1. chan'[p][u][d] = IF u = w /\ d = c THEN "dead" ELSE chan[p][u][d]
    BY <1>0, <1>2 DEF QueueTypes
  <2>2. QED
    BY <1>1, <2>1 DEF Dead
<1>3. CASE UNCHANGED chan
  BY <1>1, <1>3 DEF Dead
<1>4. CASE DeclareUpstream(p) \/ DeclareFail(p) \/ DeleteFail(p)
  <2>1. i[p] \in Upstream /\ req[p].chan \in Chan
    BY <1>0, <1>4, QueuesAssumption DEF DeclareUpstream, DeclareFail, DeleteFail, Upstream
  <2>2. chan' = chan \/ chan' = [chan EXCEPT ![p][i[p]][req[p].chan] = "dead"]
    BY <1>4 DEF DeclareUpstream, DeclareTryPassive, DeclareNormal, DeclareFail, DeleteFail
  <2>3. QED
    BY <1>2, <1>3, <2>1, <2>2
<1>5. CASE CloseBegin(p)
  <2>1. PICK c \in Chan : chan' = [chan EXCEPT ![p][i[p]][c] = IF @ = "none" THEN "open" ELSE @]
    BY <1>5 DEF CloseBegin
  <2>2. i[p] \in Upstream
    BY <1>0, <1>5, QueuesAssumption DEF CloseBegin, Upstream
  <2> DEFINE new == IF chan[p][i[p]][c] = "none" THEN "open" ELSE chan[p][i[p]][c]
  <2>3. new \in ChanStates /\ chan' = [chan EXCEPT ![p][i[p]][c] = new]
    BY <1>0, <2>1, <2>2 DEF QueueTypes, ChanStates
  <2>4. chan'[p][u][d] = IF u = i[p] /\ d = c THEN new ELSE chan[p][u][d]
    <3> HIDE DEF new
    <3>1. QED
      BY <1>0, <2>2, <2>3 DEF QueueTypes
  <2>5. QED
    BY <1>1, <2>4 DEF Dead
<1>6. CASE Destruct(p)
  <2>1. i[p] \in Upstream /\ req[p].chan \in Chan
    BY <1>0, <1>6 DEF Destruct
  <2>2. chan' = chan \/ chan' = [chan EXCEPT ![p][i[p]][req[p].chan] = "dead"]
    BY <1>6 DEF Destruct
  <2>3. QED
    BY <1>2, <1>3, <2>1, <2>2
<1>7. ASSUME NEW w \in Upstream, NEW c \in Chan, ChannelDies(p, w, c) PROVE Goal
  BY <1>2, <1>7 DEF ChannelDies
<1>8. ASSUME NEW w \in Upstream, ConnDies(p, w) PROVE Goal
  <2>1. chan' = [chan EXCEPT ![p][w] = [c \in Chan |-> IF chan[p][w][c] = "open" THEN "dead"
                                                       ELSE chan[p][w][c]]]
    BY <1>8 DEF ConnDies
  <2>2. chan'[p][u][d] = "dead"
    BY <1>0, <1>1, <2>1 DEF QueueTypes
  <2>3. QED
    BY <2>2 DEF Dead
<1>9. QED
  BY <1>3, <1>4, <1>5, <1>6, <1>7, <1>8
     DEF Acts, Handles, ConnectUpstream, ConnectFail, ConnectDone, ChannelOpen, ChannelClose,
         QueueDelete, QueueDeclare, Request, DeclareNote, DeleteUpstream, RequestOk, Leave,
         CloseFail, CloseConn, CloseDone, upVars

\* A noted queue stays noted until it is deleted or its connection is lost.
LEMMA CleanStep ==
  ASSUME QueueInv, NEW p \in Proxy, Acts(p)
  PROVE  CleanInv'
<1> SUFFICES ASSUME NEW o \in Proxy, NEW u \in Upstream, NEW q \in noted'[o][u]
             PROVE  Kept(o, u, q)'
  BY DEF CleanInv
<1>0. q \in QName /\ noted \in [Proxy -> [Upstream -> SUBSET QName]]
  BY QueueTypesStep DEF QueueInv, QueueTypes
<1>1. CASE o # p
  <2>1. /\ pc'[o] = pc[o] /\ i'[o] = i[o] /\ conn'[o] = conn[o] /\ chan'[o] = chan[o]
        /\ destruct'[o] = destruct[o] /\ noted'[o] = noted[o]
    BY <1>1, OthersAlone
  <2>2. Kept(o, u, q)
    BY <2>1 DEF QueueInv, CleanInv
  <2>3. Gone(o, u, q) => Gone(o, u, q)'
    BY <1>0, <1>1, GoneStays
  <2>4. (Dead(o, u)' <=> Dead(o, u)) /\ (Listed(o, u, q)' <=> Listed(o, u, q))
    BY <2>1 DEF Dead, Listed
  <2>5. QED
    BY <2>1, <2>2, <2>3, <2>4 DEF Kept
<1>2. CASE o = p
  <2> DEFINE Goal == Kept(p, u, q)'
  <2>0. /\ pc \in [Proxy -> PCs] /\ i \in [Proxy -> 0 .. N]
        /\ conn \in [Proxy -> [Upstream -> {"none", "up", "lost", "closed"}]]
        /\ pc[p] \notin {"closing", "destruct", "closed"} => conn[p][u] # "closed"
        /\ pc[p] \in {"note", "destruct"} => i[p] \in Upstream
        /\ pc[p] = "destruct" => conn[p][i[p]] # "closed" /\ req[p].chan \in Chan
    BY QueuesAssumption DEF QueueInv, ReqInv, LinkInv, ConnTypes, ConnInv, Upstream
  <2>1. q \in noted[p][u] => Kept(p, u, q)
    BY DEF QueueInv, CleanInv
  <2>2. /\ Gone(p, u, q) /\ pc[p] # "declare" => Gone(p, u, q)'
        /\ Dead(p, u) /\ pc[p] # "idle" => Dead(p, u)'
    BY <1>0, GoneStays, DeadStays
  <2>3. UNCHANGED destruct => (Listed(p, u, q)' <=> Listed(p, u, q))
    BY DEF Listed
  <2>4. ASSUME UNCHANGED <<destruct, noted>>, pc[p] \notin {"closing", "destruct", "closed"},
               conn'[p][u] # "closed"
        PROVE  Goal
    BY <1>2, <2>0, <2>1, <2>3, <2>4 DEF Kept
  <2>5. CASE ConnectUpstream(p)
    <3>1. conn'[p][u] # "closed"
      BY <2>0, <2>5 DEF ConnectUpstream
    <3>2. QED
      BY <1>2, <2>4, <2>5, <3>1 DEF ConnectUpstream
  <2>6. CASE \/ ConnectFail(p) \/ ConnectDone(p) \/ \E c \in Chan : ChannelOpen(p, c) \/ ChannelClose(p, c)
             \/ \E c \in Chan, r \in QName :
                  QueueDelete(p, c, r) \/ \E flags \in Ask : QueueDeclare(p, c, r, flags)
             \/ DeclareUpstream(p) \/ DeclareFail(p)
             \/ DeleteUpstream(p) \/ DeleteFail(p) \/ RequestOk(p) \/ Leave(p)
    <3>1. UNCHANGED <<destruct, noted, conn>> /\ pc[p] \notin {"closing", "destruct", "closed"}
      BY <2>6
         DEF ConnectFail, ConnectDone, ChannelOpen, ChannelClose, QueueDelete, QueueDeclare, Request,
             DeclareUpstream, DeclareFail, DeleteUpstream, DeleteFail, RequestOk, Leave, upVars
    <3>2. QED
      BY <1>2, <2>0, <2>4, <3>1
  <2>7. CASE DeclareNote(p)
    <3> DEFINE l == destruct[p][u]
               r == req[p].name
    <3>1. l \in Seq(QName) /\ conn[p][u] # "closed" /\ UNCHANGED conn /\ pc[p] = "note"
      BY <2>0, <2>7 DEF DeclareNote, QueueInv, QueueTypes
    <3>2. CASE UNCHANGED <<destruct, noted>>
      BY <1>2, <2>4, <3>1, <3>2
    <3>3. CASE /\ i[p] \in Upstream
               /\ destruct' = [destruct EXCEPT ![p][i[p]] = Append(@, req[p].name)]
               /\ noted' = [noted EXCEPT ![p][i[p]] = @ \cup {req[p].name}]
      <4>1. /\ noted'[p][u] = IF u = i[p] THEN noted[p][u] \cup {r} ELSE noted[p][u]
            /\ destruct'[p][u] = IF u = i[p] THEN Append(l, r) ELSE l
        BY <3>3 DEF QueueInv, QueueTypes
      <4>2. (Listed(p, u, q) \/ (u = i[p] /\ q = r)) => Listed(p, u, q)'
        <5>1. ASSUME NEW k \in 1 .. Len(l), l[k] = q
              PROVE  k \in 1 .. Len(Append(l, r)) /\ Append(l, r)[k] = q
          BY <3>1, <5>1
        <5>2. Len(l) + 1 \in 1 .. Len(Append(l, r)) /\ Append(l, r)[Len(l) + 1] = r
          BY <3>1
        <5> HIDE DEF l, r
        <5>3. QED
          BY <4>1, <5>1, <5>2 DEF Listed, l
      <4>3. q \in noted[p][u] => Listed(p, u, q)
        BY <2>1, <3>1 DEF Kept
      <4>4. QED
        BY <1>2, <3>1, <4>1, <4>2, <4>3 DEF Kept
    <3>4. QED
      BY <2>7, <3>1, <3>2, <3>3, ListEffect DEF Destruct
  <2>8. CASE CloseBegin(p) \/ CloseFail(p) \/ CloseDone(p)
    <3>1. pc[p] = "closing" /\ UNCHANGED <<destruct, noted, conn>>
      BY <2>8 DEF CloseBegin, CloseFail, CloseDone, upVars
    <3>2. QED
      BY <1>2, <2>1, <2>2, <2>3, <3>1 DEF Kept
  <2>9. CASE Destruct(p)
    <3> DEFINE w == i[p]
               l == destruct[p][w]
    <3>1. /\ pc[p] = "destruct" /\ w \in Upstream /\ req[p].chan \in Chan /\ l # <<>>
          /\ UNCHANGED <<noted, conn, pc, i>> /\ destruct' = [destruct EXCEPT ![p][w] = Tail(@)]
      BY <2>0, <2>9 DEF Destruct, proxyVars
    <3>2. l \in Seq(QName) /\ q \in noted[p][u]
      BY <1>2, <3>1 DEF QueueInv, QueueTypes
    <3>3. CASE u # w
      <4>1. destruct'[p][u] = destruct[p][u]
        BY <3>1, <3>3 DEF QueueInv, QueueTypes
      <4>2. Listed(p, u, q)' <=> Listed(p, u, q)
        BY <4>1 DEF Listed
      <4>3. QED
        BY <1>2, <2>1, <2>2, <3>1, <3>2, <3>3, <4>2 DEF Kept
    <3>4. CASE u = w
      <4>1. conn'[p][u] # "closed" /\ destruct'[p][u] = Tail(l)
        BY <2>0, <3>1, <3>4 DEF QueueInv, QueueTypes
      <4>2. CASE Gone(p, u, q) \/ Dead(p, u)
        BY <1>2, <2>2, <3>1, <3>4, <4>1, <4>2 DEF Kept
      <4>3. ASSUME NEW k \in 2 .. Len(l), l[k] = q PROVE Goal
        <5>1. k - 1 \in 1 .. Len(Tail(l)) /\ Tail(l)[k - 1] = q
          BY <3>1, <3>2, <4>3
        <5>2. Listed(p, u, q)'
          BY <4>1, <5>1 DEF Listed
        <5>3. QED
          BY <4>1, <5>2 DEF Kept
      <4>4. CASE Head(l) = q
        <5>1. \/ queue' = [queue EXCEPT ![w][q] = NoQueue]
              \/ chan' = [chan EXCEPT ![p][w][req[p].chan] = "dead"]
          BY <2>9, <4>4 DEF Destruct
        <5>2. CASE queue' = [queue EXCEPT ![w][q] = NoQueue]
          <6>1. queue'[u][q] = NoQueue
            BY <1>0, <3>1, <3>4, <5>2 DEF QueueInv, QueueTypes
          <6>2. QED
            BY <1>2, <3>1, <3>4, <4>1, <6>1 DEF Kept, Gone
        <5>3. CASE chan' = [chan EXCEPT ![p][w][req[p].chan] = "dead"]
          <6>1. chan'[p][u][req[p].chan] = "dead"
            BY <3>1, <3>4, <5>3 DEF QueueInv, QueueTypes
          <6>2. Dead(p, u)'
            BY <3>1, <6>1 DEF Dead
          <6>3. QED
            BY <1>2, <3>1, <3>4, <4>1, <6>2 DEF Kept
        <5>4. QED
          BY <5>1, <5>2, <5>3
      <4>5. Listed(p, u, q) => Head(l) = q \/ \E k \in 2 .. Len(l) : l[k] = q
        <5>1. ASSUME NEW k \in 1 .. Len(l), l[k] = q
              PROVE  Head(l) = q \/ k \in 2 .. Len(l)
          BY <3>1, <3>2, <5>1
        <5> HIDE DEF l
        <5>2. QED
          BY <3>4, <5>1 DEF Listed, l
      <4>6. QED
        BY <1>2, <2>1, <3>1, <3>2, <4>1, <4>2, <4>3, <4>4, <4>5 DEF Kept
    <3>5. QED
      BY <3>3, <3>4
  <2>10. CASE CloseConn(p)
    <3> DEFINE w == i[p]
    <3>1. /\ pc[p] = "destruct" /\ w \in Upstream /\ destruct[p][w] = <<>>
          /\ conn' = [conn EXCEPT ![p][w] = "closed"] /\ UNCHANGED <<destruct, noted, chan>>
      BY <2>0, <2>10 DEF CloseConn
    <3>2. CASE u # w
      <4>1. conn'[p][u] = conn[p][u]
        BY <2>0, <3>1, <3>2
      <4>2. QED
        BY <1>2, <2>1, <2>2, <2>3, <3>1, <3>2, <4>1 DEF Kept
    <3>3. CASE u = w
      <4>1. ~Listed(p, u, q)
        BY <3>1, <3>3 DEF Listed
      <4>2. conn'[p][u] = "closed"
        BY <2>0, <3>1, <3>3
      <4>3. Gone(p, u, q) \/ Dead(p, u)
        BY <1>2, <2>0, <2>1, <3>1, <3>3, <4>1 DEF Kept
      <4>4. QED
        BY <1>2, <2>2, <3>1, <4>2, <4>3 DEF Kept
    <3>4. QED
      BY <3>2, <3>3
  <2>11. ASSUME NEW v \in Upstream, ConnDies(p, v) \/ \E c \in Chan : ChannelDies(p, v, c)
         PROVE  Goal
    <3>1. UNCHANGED <<destruct, noted, pc, i>>
      BY <2>11 DEF ConnDies, ChannelDies
    <3>2. conn'[p][u] = "closed" <=> conn[p][u] = "closed"
      BY <2>0, <2>11 DEF ConnDies, ChannelDies
    <3>3. CASE pc[p] \in {"closing", "destruct", "closed"}
      BY <1>2, <2>1, <2>2, <2>3, <3>1, <3>2, <3>3 DEF Kept
    <3>4. CASE pc[p] \notin {"closing", "destruct", "closed"}
      BY <2>0, <2>4, <3>1, <3>2, <3>4
    <3>5. QED
      BY <3>3, <3>4
  <2>12. QED
    BY <1>2, <2>5, <2>6, <2>7, <2>8, <2>9, <2>10, <2>11 DEF Acts, Handles
<1>3. QED
  BY <1>1, <1>2

\* Every step of a proxy or a broker keeps the invariant.
LEMMA QueueStep == QueueInv /\ [Next]_vars => QueueInv'
<1> SUFFICES ASSUME QueueInv, [Next]_vars PROVE QueueInv'
  OBVIOUS
<1>0. LinkInv'
  BY LinkStep DEF QueueInv
<1>1. ASSUME NEW p \in Proxy, Acts(p) PROVE QueueInv'
  BY <1>0, <1>1, QueueTypesStep, ReqAskStep, CleanStep DEF QueueInv
<1>2. CASE UNCHANGED vars
  <2>1. QueueTypes' /\ ReqInv' /\ AskInv'
    BY <1>2 DEF vars, proxyVars, upVars, QueueInv, QueueTypes, ReqInv, AskInv
  <2>2. CleanInv'
    BY <1>2 DEF vars, proxyVars, upVars, QueueInv, CleanInv, Kept, Gone, Dead, Listed
  <2>3. QED
    BY <1>0, <2>1, <2>2 DEF QueueInv
<1>3. QED
  BY <1>1, <1>2 DEF Next, Acts, Handles

\* No step of any client makes a queue disappear whose name a client chose, unless the
\* queue is exclusive or some client had asked for that name to be deleted, by
\* Queue.Delete or by auto_delete (shouldEmulateAutoDelete, the functions of
\* Upstream.destruct).
THEOREM NothingElseDeleted == Spec => OnlyAskedFor
<1>1. ASSUME QueueInv, [Next]_vars
      PROVE  [\A u \in Upstream, q \in Name :
                queue[u][q] # NoQueue /\ queue'[u][q] = NoQueue
                  => q \in wanted \/ "exclusive" \in queue[u][q].flags]_vars
  <2>1. ASSUME NEW p \in Proxy, Acts(p), NEW u \in Upstream, NEW q \in Name,
               queue[u][q] # NoQueue, queue'[u][q] = NoQueue
        PROVE  q \in wanted \/ "exclusive" \in queue[u][q].flags
    <3>1. q \in QName /\ q \notin Proxy
      BY QueuesAssumption DEF QName
    <3>2. QED
      BY <1>1, <2>1, <3>1, QueueEffect
  <2>2. QED
    BY <1>1, <2>1 DEF Next, Acts, Handles
<1>2. QED
  BY <1>1, QueueInit, QueueStep, PTL DEF Spec, OnlyAskedFor

\* When a proxy has closed its connection to an upstream and none of its channels there
\* is dead, none of the queues it was to delete there is left as it had made it
\* (Upstream.Close, RegisterEmulatedAutoDeleteQueue, CleanupAutoGeneratedQueue),
\* whatever the other clients, the brokers and its own client did meanwhile.
THEOREM RegularCloseCleansUp == Spec => []CleanedUp
<1>1. QueueInv => CleanedUp
  BY DEF QueueInv, CleanInv, Kept, Gone, Dead, CleanedUp
<1>2. QED
  BY <1>1, QueueInit, QueueStep, PTL DEF Spec
-----------------------------------------------------------------------------
(* A queue that is declared is everywhere.                                 *)

\* The client of p has its queue at u, or has lost it as it may.
There(p, u, q) ==
  \/ queue[u][q] # NoQueue /\ Allows(p, u, q)
  \/ q \in wanted
  \/ conn[p][u] # "up"

\* The loop of replyQueueDeclare has been at u.
Passed(p, u) ==
  \/ pc[p] = "declare" /\ u < i[p]
  \/ pc[p] = "note" /\ u <= i[p]

\* Wherever the loop has been, the queue is there.
DeclInv ==
  \A p \in Proxy, u \in Upstream \ TryPassive : Passed(p, u) => There(p, u, req[p].name)

\* A queue that the client has stays while its proxy declares, whoever takes a step.
LEMMA ThereStays ==
  ASSUME QueueInv, NEW p \in Proxy, Acts(p), NEW o \in Proxy, pc[o] \in {"declare", "note"},
         NEW u \in Upstream, NEW q \in Name \cup {o}, There(o, u, q)
  PROVE  There(o, u, q)'
<1>1. q \in QName /\ (q = p => o = p)
  BY QueuesAssumption DEF QName
<1>2. q \in wanted => q \in wanted'
  BY OwnReqStep
<1>3. conn[o][u] # "up" => conn'[o][u] # "up"
  <2>1. CASE o # p
    BY <2>1, OthersAlone
  <2>2. CASE o = p
    <3>1. UNCHANGED conn \/ \E v \in Upstream : conn' = [conn EXCEPT ![p][v] = "lost"]
      <4>1. Handles(p) => UNCHANGED conn
        BY HandlesKeepsConn DEF QueueInv
      <4>2. ~ConnectUpstream(p) /\ ~CloseConn(p)
        BY <2>2 DEF ConnectUpstream, CloseConn
      <4>3. QED
        BY <4>1, <4>2 DEF Acts, ConnDies
    <3>2. QED
      BY <2>2, <3>1 DEF QueueInv, LinkInv, ConnTypes
  <2>3. QED
    BY <2>1, <2>2
<1>4. CASE q \in wanted \/ conn[o][u] # "up"
  BY <1>2, <1>3, <1>4 DEF There
<1>5. CASE queue[u][q] # NoQueue /\ Allows(o, u, q)
  <2>1. \/ queue'[u][q] = queue[u][q]
        \/ q \in wanted
        \/ q = p /\ pc[p] = "destruct"
        \/ "exclusive" \in queue[u][q].flags /\ queue[u][q].by = p /\ conn'[p][u] # "up"
    BY <1>1, <1>5, QueueEffect
  <2>2. CASE queue'[u][q] = queue[u][q]
    BY <1>5, <2>2 DEF There, Allows
  <2>3. CASE "exclusive" \in queue[u][q].flags /\ queue[u][q].by = p /\ conn'[p][u] # "up"
    BY <1>5, <2>3 DEF There, Allows
  <2>4. QED
    BY <1>1, <1>2, <2>1, <2>2, <2>3 DEF There
<1>6. QED
  BY <1>4, <1>5 DEF There

\* The answer of a broker puts the queue where the loop is; the other steps of the loop
\* keep where it has been.
LEMMA PassedStep ==
  ASSUME QueueInv, NEW p \in Proxy, Acts(p), NEW u \in Upstream \ TryPassive, Passed(p, u)'
  PROVE  \/ Passed(p, u) /\ req'[p] = req[p]
         \/ There(p, u, req[p].name)'
<1> DEFINE Goal == \/ Passed(p, u) /\ req'[p] = req[p]
                   \/ There(p, u, req[p].name)'
<1>0. /\ pc \in [Proxy -> PCs] /\ i \in [Proxy -> 0 .. N] /\ N \in Nat
      /\ pc[p] = "idle" => i[p] = 0
  BY QueuesAssumption DEF QueueInv, LinkInv, ConnTypes, ConnInv
<1>1. CASE DeclareUpstream(p)
  <2> DEFINE q == req[p].name
             flags == QueueDeclareArgs(q, req[p].flags)
  <2>1. /\ pc[p] = "declare" /\ pc'[p] = "note" /\ UNCHANGED <<i, req>>
    BY <1>0, <1>1 DEF DeclareUpstream
  <2>2. CASE u # i[p]
    BY <1>0, <2>1, <2>2 DEF Passed, Upstream
  <2>3. CASE u = i[p]
    <3>1. /\ queue[u][q] = NoQueue \/ Accepts(p, u, q, flags)
          /\ queue' = Declared(p, u, q, flags)
      BY <1>1, <2>3 DEF DeclareUpstream, DeclareTryPassive, DeclareNormal
    <3>2. q \in QName
      BY <2>1 DEF QueueInv, ReqInv, QName
    <3> DEFINE new == [flags |-> flags, by |-> p, asked |-> req[p].flags]
    <3>3. CASE queue[u][q] = NoQueue
      <4>1. queue' = [queue EXCEPT ![u][q] = new]
        BY <3>1, <3>3 DEF Declared
      <4>2. new.by = p /\ new # NoQueue
        BY DEF NoQueue
      <4> HIDE DEF new
      <4>3. queue'[u][q] = new
        BY <3>2, <4>1 DEF QueueInv, QueueTypes
      <4> HIDE DEF q
      <4>4. There(p, u, q)'
        BY <2>1, <4>2, <4>3 DEF There, Allows, q
      <4>5. QED
        BY <2>1, <4>4 DEF q
    <3>4. CASE queue[u][q] # NoQueue
      <4>1. queue' = queue /\ Allows(p, u, q)
        BY <3>1, <3>4 DEF Declared, Accepts
      <4>2. There(p, u, req[p].name)'
        BY <2>1, <3>4, <4>1 DEF There, Allows
      <4>3. QED
        BY <4>2
    <3>5. QED
      BY <3>3, <3>4
  <2>4. QED
    BY <2>2, <2>3
<1>2. CASE DeclareNote(p)
  <2>1. pc[p] = "note" /\ pc'[p] = "declare" /\ i'[p] = i[p] + 1 /\ UNCHANGED req
    BY <1>0, <1>2 DEF DeclareNote
  <2>2. QED
    BY <1>0, <2>1 DEF Passed, Upstream
<1>3. ASSUME NEW c \in Chan, NEW q \in QName,
             QueueDelete(p, c, q) \/ \E flags \in Ask : QueueDeclare(p, c, q, flags)
      PROVE  FALSE
  <2>1. /\ pc[p] = "idle" /\ UNCHANGED i
        /\ pc'[p] = "delete" \/ pc'[p] = "declare"
    BY <1>0, <1>3 DEF QueueDelete, QueueDeclare, Request
  <2>2. QED
    BY <1>0, <2>1 DEF Passed, Upstream
<1>4. ASSUME NEW v \in Upstream, ConnDies(p, v) \/ \E c \in Chan : ChannelDies(p, v, c)
      PROVE  Goal
  BY <1>4 DEF ConnDies, ChannelDies, Passed
<1>5. CASE \E c \in Chan : ChannelOpen(p, c) \/ ChannelClose(p, c)
  <2>1. pc'[p] \in {"idle", "closing"}
    BY <1>0, <1>5 DEF ChannelOpen, ChannelClose, proxyVars
  <2>2. QED
    BY <2>1 DEF Passed
<1>6. CASE \/ ConnectUpstream(p) \/ ConnectFail(p) \/ ConnectDone(p)
           \/ DeclareFail(p) \/ DeleteUpstream(p) \/ DeleteFail(p) \/ RequestOk(p)
           \/ Leave(p) \/ CloseBegin(p) \/ CloseFail(p) \/ Destruct(p) \/ CloseDone(p)
           \/ CloseConn(p)
  <2>1. pc'[p] \notin {"declare", "note"}
    BY <1>0, <1>6
       DEF ConnectUpstream, ConnectFail, ConnectDone, DeclareFail, DeleteUpstream, DeleteFail,
           RequestOk, Ends, Leave, CloseBegin, CloseFail, Destruct, CloseDone, CloseConn, proxyVars
  <2>2. QED
    BY <2>1 DEF Passed
<1>7. QED
  BY <1>1, <1>2, <1>3, <1>4, <1>5, <1>6 DEF Acts, Handles

\* When the client is told Queue.Declare-Ok, its queue is on every upstream without
\* try_passive and it may use it, unless some client has had that name deleted or the
\* connection there is lost (replyQueueDeclare), for any number of clients that declare,
\* delete and leave meanwhile.
THEOREM DeclareOkEverywhere == Spec => []DeclaredEverywhere
<1>1. Init => DeclInv
  BY DEF Init, DeclInv, Passed
<1>2. ASSUME QueueInv, DeclInv, [Next]_vars PROVE DeclInv'
  <2>1. ASSUME NEW p \in Proxy, Acts(p), NEW o \in Proxy, NEW u \in Upstream \ TryPassive, Passed(o, u)'
        PROVE  There(o, u, req[o].name)'
    <3>1. \/ Passed(o, u) /\ req'[o] = req[o]
          \/ o = p /\ There(o, u, req[o].name)'
      <4>1. CASE o = p
        BY <1>2, <2>1, <4>1, PassedStep
      <4>2. CASE o # p
        BY <1>2, <2>1, <4>2, OthersAlone DEF Passed
      <4>3. QED
        BY <4>1, <4>2
    <3>2. CASE Passed(o, u) /\ req'[o] = req[o]
      <4>1. There(o, u, req[o].name)
        BY <1>2, <3>2 DEF DeclInv
      <4>2. pc[o] \in {"declare", "note"} /\ req[o].name \in Name \cup {o}
        BY <1>2, <3>2 DEF Passed, QueueInv, ReqInv
      <4>3. ASSUME NEW r \in Name \cup {o}, There(o, u, r), req'[o].name = r
            PROVE  There(o, u, req[o].name)'
        <5>1. There(o, u, r)'
          BY <1>2, <2>1, <4>2, <4>3, ThereStays
        <5>2. QED
          BY <4>3, <5>1 DEF There, Allows
      <4>4. QED
        BY <3>2, <4>1, <4>2, <4>3
    <3>3. QED
      BY <3>1, <3>2
  <2>2. CASE UNCHANGED vars
    BY <1>2, <2>2 DEF vars, proxyVars, upVars, DeclInv, Passed, There, Allows
  <2>3. QED
    BY <1>2, <2>1, <2>2 DEF Next, Acts, Handles, DeclInv, There
<1>3. QueueInv /\ DeclInv => DeclaredEverywhere
  <2> SUFFICES ASSUME QueueInv, DeclInv, NEW p \in Proxy, NEW u \in Upstream \ TryPassive,
                      pc[p] = "declare", i[p] = N
               PROVE  There(p, u, req[p].name)
    BY DEF DeclaredEverywhere, There
  <2>1. Passed(p, u)
    BY QueuesAssumption DEF Passed, Upstream
  <2> QED
    BY <2>1 DEF DeclInv
<1>4. QED
  BY <1>1, <1>2, <1>3, QueueInit, QueueStep, PTL DEF Spec
=============================================================================
