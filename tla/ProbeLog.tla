------------------------------ MODULE ProbeLog ------------------------------
(***************************************************************************)
(* The probe logs of proxies: the ring and the channel that every          *)
(* goroutine of a proxy writes to (Proxy.probeLog), the ring's move to the *)
(* LRU of finished proxies (UnregisterProxy), and the requests that read   *)
(* them (apiProbeLogHandler).                                              *)
(***************************************************************************)
EXTENDS Integers, Sequences, FiniteSets

CONSTANTS
  Proxy,       \* connections
  Goroutine,   \* of a proxy, that call probeLog
  Stream,      \* requests for a probe log; two of one proxy share what its channel holds
  BufferSize,  \* ProbeLogBufferSize, and the capacity of probeChan
  Retained,    \* ProbeLogRetentionSize
  MaxLog       \* bound: by proxy, its entries

ASSUME ProbeAssumption ==
  /\ IsFiniteSet(Goroutine)
  /\ "none" \notin Proxy         \* no proxy has the id of no request
  /\ BufferSize \in Nat \ {0} /\ Retained \in Nat \ {0}
  /\ \A p \in Proxy : MaxLog[p] \in Nat

VARIABLES
  stage,      \* by proxy: "new", "active" in activeProxies, "moving", "gone" into the LRU
  known,      \* proxies that were in activeProxies, so that their ids may be asked for
  logged,     \* by proxy: how many entries came to its ring, of which the latest are there
  probeChan,  \* by proxy: what is in its channel
  job,        \* by proxy and goroutine: the entry it is sending, and how far it is
  lru,        \* retainedProbeLogs, the least recently used first
  evicted,    \* the proxies that fell out of it
  stream      \* by request: where its handler is, and what it has written live

probeVars == <<stage, known, logged, probeChan, job, lru, evicted, stream>>

Idle == [step |-> "idle", entry |-> <<>>]
NoStream == [at |-> "none", id |-> "none", active |-> FALSE, miss |-> "none", live |-> <<>>]

ProbeInit ==
  /\ stage = [p \in Proxy |-> "new"]
  /\ known = {}
  /\ logged = [p \in Proxy |-> 0]
  /\ probeChan = [p \in Proxy |-> <<>>]
  /\ job = [p \in Proxy |-> [g \in Goroutine |-> Idle]]
  /\ lru = <<>> /\ evicted = {}
  /\ stream = [s \in Stream |-> NoStream]

(***************************************************************************)
(* Proxy.probeLog: the ring first, then the channel; if that is full an    *)
(* old entry is taken out and the new one is tried once more.  Goroutines  *)
(* of a proxy may still log after its connection has ended.                *)
(***************************************************************************)
ChanRoom(p) == Len(probeChan[p]) < BufferSize
InRing(p) == IF logged[p] < BufferSize THEN logged[p] ELSE BufferSize
Step(p, g, step) == job' = [job EXCEPT ![p][g].step = step]
Done(p, g) == job' = [job EXCEPT ![p][g] = Idle]
Put(p, g) == probeChan' = [probeChan EXCEPT ![p] = Append(@, job[p][g].entry)]

Log(p, g) ==
  LET e == <<g, logged[p] + 1>> IN
  /\ job[p][g] = Idle /\ logged[p] < MaxLog[p]
  /\ logged' = [logged EXCEPT ![p] = @ + 1]
  /\ job' = [job EXCEPT ![p][g] = [step |-> "send", entry |-> e]]
  /\ UNCHANGED <<stage, known, probeChan, lru, evicted, stream>>

LogSend(p, g) ==
  /\ job[p][g].step = "send"
  /\ IF ChanRoom(p) THEN Put(p, g) /\ Done(p, g) ELSE Step(p, g, "discard") /\ UNCHANGED probeChan
  /\ UNCHANGED <<stage, known, logged, lru, evicted, stream>>

LogDiscard(p, g) ==
  /\ job[p][g].step = "discard"
  /\ probeChan' = [probeChan EXCEPT ![p] = IF @ = <<>> THEN @ ELSE Tail(@)]
  /\ Step(p, g, "again")
  /\ UNCHANGED <<stage, known, logged, lru, evicted, stream>>

\* Mutant of LogAgain: there is no second attempt.
LogAgainNot(p, g) ==
  /\ job[p][g].step = "again" /\ Done(p, g)
  /\ UNCHANGED <<stage, known, logged, probeChan, lru, evicted, stream>>

LogAgain(p, g) ==
  /\ job[p][g].step = "again" /\ Done(p, g)
  /\ IF ChanRoom(p) THEN Put(p, g) ELSE UNCHANGED probeChan
  /\ UNCHANGED <<stage, known, logged, lru, evicted, stream>>

(***************************************************************************)
(* The registry                                                            *)
(***************************************************************************)
RegisterProxy(p) ==
  /\ stage[p] = "new"
  /\ stage' = [stage EXCEPT ![p] = "active"]
  /\ known' = known \union {p}
  /\ UNCHANGED <<logged, probeChan, job, lru, evicted, stream>>

\* UnregisterProxy, first half; it is called for a proxy whose handshake failed as well
UnregisterDelete(p) ==
  /\ stage[p] \in {"new", "active"}
  /\ stage' = [stage EXCEPT ![p] = "moving"]
  /\ UNCHANGED <<known, logged, probeChan, job, lru, evicted, stream>>

\* Mutant of UnregisterRetain: a ring without entries is not retained.
UnregisterRetainLogged(p) ==
  LET full == Len(lru) = Retained IN
  /\ stage[p] = "moving"
  /\ stage' = [stage EXCEPT ![p] = "gone"]
  /\ IF InRing(p) = 0 THEN UNCHANGED <<lru, evicted>>
     ELSE /\ lru' = Append(IF full THEN Tail(lru) ELSE lru, p)
          /\ evicted' = IF full THEN evicted \union {Head(lru)} ELSE evicted
  /\ UNCHANGED <<known, logged, probeChan, job, stream>>

\* Second half: MarkInactive, and the LRU takes the ring and may drop another
UnregisterRetain(p) ==
  LET full == Len(lru) = Retained IN
  /\ stage[p] = "moving"
  /\ stage' = [stage EXCEPT ![p] = "gone"]
  /\ lru' = Append(IF full THEN Tail(lru) ELSE lru, p)
  /\ evicted' = IF full THEN evicted \union {Head(lru)} ELSE evicted
  /\ UNCHANGED <<known, logged, probeChan, job, stream>>

(***************************************************************************)
(* apiProbeLogHandler                                                      *)
(***************************************************************************)
Goes(s, at) == stream' = [stream EXCEPT ![s].at = at]

Request(s, p) ==
  /\ stream[s].at = "none" /\ p \in known
  /\ stream' = [stream EXCEPT ![s].at = "load", ![s].id = p]
  /\ UNCHANGED <<stage, known, logged, probeChan, job, lru, evicted>>

Active(p) == stage[p] = "active"

LoadActive(s) ==
  LET p == stream[s].id IN
  /\ stream[s].at = "load"
  /\ stream' = [stream EXCEPT ![s].active = Active(p), ![s].at = "lookup"]
  /\ UNCHANGED <<stage, known, logged, probeChan, job, lru, evicted>>

\* GetProbeLogBuffer: activeProxies once more, then the LRU, where finding is using
Lookup(s) ==
  LET p == stream[s].id IN
  /\ stream[s].at = "lookup"
  /\ stream' = [stream EXCEPT ![s].at = IF stage[p] = "active" THEN "replay" ELSE "retained",
                              ![s].miss = stage[p]]
  /\ UNCHANGED <<stage, known, logged, probeChan, job, lru, evicted>>

LookupRetained(s) ==
  LET p == stream[s].id
  IN /\ stream[s].at = "retained"
     /\ \/ \E i \in DOMAIN lru :
             /\ lru[i] = p
             /\ lru' = SubSeq(lru, 1, i - 1) \o SubSeq(lru, i + 1, Len(lru)) \o <<p>>
             /\ Goes(s, "replay")
        \/ /\ \A i \in DOMAIN lru : lru[i] # p
           /\ lru' = lru
           /\ Goes(s, "notFound")
     /\ UNCHANGED <<stage, known, logged, probeChan, job, evicted>>

\* GetLogs, whose entries are written; of a proxy that was not active proxy_ended follows
WriteBuffered(s) ==
  /\ stream[s].at = "replay"
  /\ Goes(s, IF stream[s].active THEN "live" ELSE "ended")
  /\ UNCHANGED <<stage, known, logged, probeChan, job, lru, evicted>>

\* The loop: the channel is never closed, so that only the end of the request ends it
WriteLive(s) ==
  LET p == stream[s].id IN
  /\ stream[s].at = "live" /\ probeChan[p] # <<>>
  /\ stream' = [stream EXCEPT ![s].live = Append(@, Head(probeChan[p]))]
  /\ probeChan' = [probeChan EXCEPT ![p] = Tail(@)]
  /\ UNCHANGED <<stage, known, logged, job, lru, evicted>>

StreamEnds(s) ==
  /\ stream[s].at = "live"
  /\ Goes(s, "closed")
  /\ UNCHANGED <<stage, known, logged, probeChan, job, lru, evicted>>

Handler(s) == LoadActive(s) \/ Lookup(s) \/ LookupRetained(s) \/ WriteBuffered(s) \/ WriteLive(s)

ProbeNext ==
  \/ \E p \in Proxy :
       \/ \E g \in Goroutine : Log(p, g) \/ LogSend(p, g) \/ LogDiscard(p, g) \/ LogAgain(p, g)
       \/ RegisterProxy(p) \/ UnregisterDelete(p) \/ UnregisterRetain(p)
  \/ \E s \in Stream :
       (\E p \in Proxy : Request(s, p)) \/ Handler(s) \/ StreamEnds(s)

ProbeSpec == ProbeInit /\ [][ProbeNext]_probeVars

\* Handlers and the end of a connection run on
ProbeFairness ==
  /\ \A s \in Stream : WF_probeVars(Handler(s))
  /\ \A p \in Proxy : WF_probeVars(UnregisterRetain(p))

(***************************************************************************)
(* Properties                                                              *)
(***************************************************************************)
\* What a stream is sent live of a proxy has no entry twice, and the entries of one goroutine are
\* in order there and in the channel behind, whatever was discarded in between.  (What the stream
\* was sent of the ring before may come again.)
LiveInOrder ==
  \A s \in Stream :
    LET sent == stream[s].live \o (IF stream[s].id \in Proxy THEN probeChan[stream[s].id] ELSE <<>>)
    IN \A i, j \in DOMAIN sent : i < j /\ sent[i][1] = sent[j][1] => sent[i][2] < sent[j][2]

\* Goroutines that discard old entries for new ones at the same time do not thin out the channel:
\* at rest it holds as many entries as it can, as long as nobody reads it
DiscardsReplaced ==
  \A p \in Proxy :
    (/\ \A g \in Goroutine : job[p][g] = Idle
     /\ \A s \in Stream : stream[s].id = p => stream[s].live = <<>>)
      => Len(probeChan[p]) = InRing(p)

\* Together: making room for new entries (Proxy.probeLog) neither reorders nor repeats the entries
\* of a goroutine, and each entry it takes out is made up for by one that is put in.  Which ones
\* remain is not promised: a goroutine whose place another one has filled drops its own
ChannelOrderly == LiveInOrder /\ DiscardsReplaced

\* proxy_ended is told of a proxy that is no longer active and will not be again
EndedTruly == \A s \in Stream : stream[s].at = "ended" => stage[stream[s].id] \in {"moving", "gone"}

\* A proxy that was listed is not found only if it fell out of the LRU, or if the lookup met it
\* on the way there
FoundUnlessMoving ==
  \A s \in Stream : stream[s].at = "notFound" => stream[s].id \in evicted \/ stream[s].miss = "moving"

\* Together: what a request is told of a proxy is true
ToldTruly == EndedTruly /\ FoundUnlessMoving

\* A stream asked for after the proxy has ended shows what is left and ends
EndedProxyEndsStream ==
  \A s \in Stream, p \in Proxy :
    (stream[s].at = "load" /\ stream[s].id = p /\ stage[p] \in {"moving", "gone"})
      ~> stream[s].at \in {"ended", "notFound"}

=============================================================================
