----------------------------- MODULE LogProofs -----------------------------
(***************************************************************************)
(* Proofs about the server log (LogBuffer) and the probe logs (ProbeLog),  *)
(* for any number of requests, proxies and goroutines and for every size   *)
(* of the buffers and channels: a request that follows the log misses      *)
(* nothing but what found its channel full, a request for a probe log is   *)
(* told the truth of its proxy, and goroutines that make room in a probe   *)
(* channel at once keep the order of their entries and the channel full.   *)
(***************************************************************************)
EXTENDS LogBuffer, ProbeLog, SequenceTheorems, FiniteSetTheorems, TLAPS

-----------------------------------------------------------------------------
(* The server log: what a request gets.                                    *)

\* Adding to the second of two sequences.
LEMMA ConcatAppend ==
  ASSUME NEW s \in Seq(Nat), NEW t \in Seq(Nat), NEW e \in Nat
  PROVE  s \o Append(t, e) = Append(s \o t, e)
OBVIOUS

\* Moving the first element of the second sequence to the end of the first.
LEMMA ConcatMove ==
  ASSUME NEW s \in Seq(Nat), NEW t \in Seq(Nat), t # <<>>
  PROVE  Append(s, Head(t)) \o Tail(t) = s \o t
OBVIOUS

\* What is in a sequence with one more element.
LEMMA AppendHas ==
  ASSUME NEW g \in Seq(Nat), NEW e \in Nat
  PROVE  /\ Append(g, e) \in Seq(Nat)
         /\ DOMAIN Append(g, e) = 1 .. Len(g) + 1 /\ DOMAIN g = 1 .. Len(g) /\ Len(g) \in Nat
         /\ Append(g, e)[Len(g) + 1] = e
         /\ \A i \in 1 .. Len(g) : Append(g, e)[i] = g[i] /\ g[i] \in Nat
         /\ Elements(Append(g, e)) = Elements(g) \union {e}
<1>1. /\ Append(g, e) \in Seq(Nat)
      /\ DOMAIN Append(g, e) = 1 .. Len(g) + 1 /\ DOMAIN g = 1 .. Len(g) /\ Len(g) \in Nat
      /\ Append(g, e)[Len(g) + 1] = e
      /\ \A i \in 1 .. Len(g) : Append(g, e)[i] = g[i] /\ g[i] \in Nat
  OBVIOUS
<1>2. \A i : i \in 1 .. Len(g) + 1 <=> i \in 1 .. Len(g) \/ i = Len(g) + 1
  BY <1>1
<1>3. Elements(Append(g, e)) = Elements(g) \union {e}
  BY <1>1, <1>2, Zenon DEF Elements
<1>4. QED
  BY <1>1, <1>3

\* The order is kept by an entry that is later than the ones of its kind.
LEMMA AppendOrdered ==
  ASSUME NEW g \in Seq(Nat), NEW n \in Nat, NEW e \in Nat, OrderedUpTo(g, n),
         \A i \in 1 .. Len(g) : (g[i] <= n <=> e <= n) => g[i] < e
  PROVE  OrderedUpTo(Append(g, e), n)
<1> DEFINE h == Append(g, e)
<1>1. /\ DOMAIN h = 1 .. Len(g) + 1 /\ Len(g) \in Nat /\ DOMAIN g = 1 .. Len(g)
      /\ h[Len(g) + 1] = e /\ \A i \in 1 .. Len(g) : h[i] = g[i]
  BY AppendHas
<1> HIDE DEF h
<1>2. ASSUME NEW i \in DOMAIN h, NEW j \in DOMAIN h, i < j, h[i] <= n <=> h[j] <= n
      PROVE  h[i] < h[j]
  <2>1. i \in 1 .. Len(g) /\ h[i] = g[i]
    BY <1>1, <1>2
  <2>2. CASE j = Len(g) + 1
    BY <1>1, <1>2, <2>1, <2>2
  <2>3. CASE j \in 1 .. Len(g)
    BY <1>1, <1>2, <2>1, <2>3 DEF OrderedUpTo
  <2>4. QED
    BY <1>1, <2>2, <2>3
<1>3. QED
  BY <1>2 DEF OrderedUpTo, h

\* What a request has been sent.
Got(l) == shown[l] \o logChan[l]

FollowTypes ==
  /\ added \in Nat /\ entries \in Seq(Nat)
  /\ ctx \in [Listener -> {"none", "live", "done"}]
  /\ from \in [Listener -> Nat]
  /\ recent \in [Listener -> Seq(Nat)]
  /\ logChan \in [Listener -> Seq(Nat)]
  /\ shown \in [Listener -> Seq(Nat)]
  /\ skipped \in [Listener -> SUBSET Nat]

\* s holds the numbers up to n, from where it starts.
EndsAt(s, n) == Len(s) <= n /\ \A i \in 1 .. Len(s) : s[i] = n - Len(s) + i

\* The buffer holds the latest entries, as many as it can.
EntriesInv ==
  /\ EndsAt(entries, added)
  /\ Len(entries) <= MaxSize
  /\ Len(entries) < added => Len(entries) = MaxSize

\* The request has what it has got in order, and what is to be replayed comes next.
FollowedBy(l) ==
  /\ from[l] <= added
  /\ EndsAt(recent[l], from[l])
  /\ OrderedUpTo(Got(l), from[l])
  /\ \A i \in 1 .. Len(Got(l)) :
       Got(l)[i] <= added /\ (Got(l)[i] <= from[l] => Got(l)[i] <= from[l] - Len(recent[l]))

\* Nothing the request is entitled to is missing.
Complete(l) ==
  {e \in 1 .. added : e + MaxSize > from[l]}
    \subseteq Elements(Got(l)) \union Elements(recent[l]) \union skipped[l]

FollowInv ==
  /\ FollowTypes /\ EntriesInv
  /\ \A l \in Listener :
       /\ ctx[l] = "none" =>
            shown[l] = <<>> /\ logChan[l] = <<>> /\ recent[l] = <<>> /\ l \notin listeners
       /\ ctx[l] = "live" => l \in listeners
       /\ FollowedBy(l)
       /\ ctx[l] = "live" => Complete(l)

\* Add: an entry goes to the end of the buffer, and of a channel that has room.
LEMMA FollowAdd == FollowInv /\ Add => FollowInv'
<1> SUFFICES ASSUME FollowInv, Add PROVE FollowInv'
  OBVIOUS
<1> DEFINE e == added + 1
<1>1. /\ entries' = Latest(Append(entries, e), MaxSize) /\ added' = e
      /\ logChan' = [l \in Listener |->
           IF l \in listeners /\ Room(l) THEN Append(logChan[l], e) ELSE logChan[l]]
      /\ skipped' = [l \in Listener |->
           IF l \in listeners /\ ~Room(l) THEN skipped[l] \union {e} ELSE skipped[l]]
      /\ UNCHANGED <<listeners, ctx, from, recent, shown>>
  BY DEF Add, AddEntry
<1>2. FollowTypes /\ EntriesInv /\ e \in Nat /\ added \in Nat /\ e = added + 1
  BY DEF FollowInv, FollowTypes
<1> HIDE DEF e
<1>3. entries' \in Seq(Nat) /\ EntriesInv'
  <2> DEFINE a == Append(entries, e)
             n == Len(entries)
  <2>1. n \in Nat /\ n <= added /\ n <= MaxSize /\ entries \in Seq(Nat)
        /\ \A i \in 1 .. n : entries[i] = added - n + i
    BY <1>2 DEF FollowTypes, EntriesInv, EndsAt
  <2>2. /\ a \in Seq(Nat) /\ Len(a) = n + 1 /\ a[n + 1] = e
        /\ \A i \in 1 .. n : a[i] = entries[i]
        /\ entries' = Latest(a, MaxSize)
    BY <1>1, <1>2, <2>1
  <2> HIDE DEF a, n
  <2>3. \A i \in 1 .. n + 1 : a[i] = e - (n + 1) + i
    BY <1>2, <2>1, <2>2
  <2>4. CASE n + 1 > MaxSize
    <3>1. n = MaxSize /\ MaxSize \in Nat \ {0}
      BY <2>1, <2>4, LogAssumption
    <3>2. entries' = SubSeq(a, 2, n + 1)
      <4>1. entries' = SubSeq(a, Len(a) - MaxSize + 1, Len(a))
        BY <2>2, <2>4 DEF Latest
      <4>2. Len(a) - MaxSize + 1 = 2
        BY <2>1, <2>2, <3>1
      <4>3. QED
        BY <2>2, <4>1, <4>2
    <3>3. /\ entries' \in Seq(Nat) /\ Len(entries') = n
          /\ \A i \in 1 .. n : entries'[i] = a[i + 1]
      BY <2>1, <2>2, <3>1, <3>2
    <3>4. ASSUME NEW i \in 1 .. n PROVE entries'[i] = e - n + i
      <4>1. i + 1 \in 1 .. n + 1 /\ entries'[i] = a[i + 1]
        BY <2>1, <3>3
      <4>2. a[i + 1] = e - (n + 1) + (i + 1)
        BY <2>3, <4>1
      <4>3. QED
        BY <1>2, <2>1, <4>1, <4>2
    <3>5. QED
      <4>1. Len(entries') <= added'
        BY <1>1, <1>2, <2>1, <3>3
      <4>2. QED
        BY <1>1, <3>1, <3>3, <3>4, <4>1 DEF EntriesInv, EndsAt
  <2>5. CASE n + 1 <= MaxSize
    <3>1. entries' = a
      BY <2>1, <2>2, <2>5, LogAssumption DEF Latest
    <3>2. n = added
      BY <1>2, <2>1, <2>5, LogAssumption DEF EntriesInv, n
    <3>3. QED
      BY <1>1, <1>2, <2>1, <2>2, <2>3, <2>5, <3>1, <3>2 DEF EntriesInv, EndsAt
  <2>6. QED
    BY <2>1, <2>4, <2>5, LogAssumption
<1>4. ASSUME NEW l \in Listener
      PROVE  /\ logChan'[l] \in Seq(Nat) /\ skipped'[l] \in SUBSET Nat
             /\ ctx[l] = "none" => logChan'[l] = <<>>
             /\ FollowedBy(l)'
             /\ ctx[l] = "live" => Complete(l)'
  <2>1. /\ shown[l] \in Seq(Nat) /\ logChan[l] \in Seq(Nat) /\ recent[l] \in Seq(Nat)
        /\ from[l] \in Nat /\ skipped[l] \in SUBSET Nat
        /\ Got(l) \in Seq(Nat)
    BY <1>2 DEF FollowTypes, Got
  <2>2. FollowedBy(l) /\ (ctx[l] = "none" => logChan[l] = <<>> /\ l \notin listeners)
        /\ (ctx[l] = "live" => Complete(l) /\ l \in listeners)
    BY DEF FollowInv
  <2>3. from[l] < e /\ UNCHANGED <<from[l], recent[l], shown[l]>>
    BY <1>1, <1>2, <2>1, <2>2 DEF FollowedBy
  <2>4. ASSUME NEW f \in 1 .. e, f # e PROVE f \in 1 .. added
    BY <1>2, <2>4
  <2>5. CASE l \in listeners /\ Room(l)
    <3>1. logChan'[l] = Append(logChan[l], e) /\ skipped'[l] = skipped[l]
      BY <1>1, <2>5
    <3>2. Got(l)' = Append(Got(l), e)
      <4>1. shown[l] \o Append(logChan[l], e) = Append(shown[l] \o logChan[l], e)
        BY <1>2, <2>1, ConcatAppend, Zenon
      <4>2. QED
        BY <2>3, <3>1, <4>1, Zenon DEF Got
    <3>3. OrderedUpTo(Append(Got(l), e), from[l])
      <4>1. OrderedUpTo(Got(l), from[l]) /\ \A i \in 1 .. Len(Got(l)) : Got(l)[i] <= added
        BY <2>2 DEF FollowedBy
      <4>2. \A i \in 1 .. Len(Got(l)) : Got(l)[i] < e
        BY <1>2, <2>1, <4>1
      <4>3. QED
        BY <1>2, <2>1, <4>1, <4>2, AppendOrdered
    <3>4. FollowedBy(l)'
      <4> DEFINE g == Got(l)
                 h == Append(g, e)
      <4>1. /\ Len(h) = Len(g) + 1 /\ Len(g) \in Nat /\ h[Len(g) + 1] = e
            /\ \A i \in 1 .. Len(g) : h[i] = g[i] /\ g[i] \in Nat
        BY <1>2, <2>1
      <4>2. /\ EndsAt(recent[l], from[l])
            /\ \A i \in 1 .. Len(g) :
                 g[i] <= added /\ (g[i] <= from[l] => g[i] <= from[l] - Len(recent[l]))
        BY <2>2 DEF FollowedBy
      <4> HIDE DEF g, h
      <4>3. \A i \in 1 .. Len(h) :
              h[i] <= e /\ (h[i] <= from[l] => h[i] <= from[l] - Len(recent[l]))
        <5>1. ASSUME NEW i \in 1 .. Len(h)
              PROVE  h[i] <= e /\ (h[i] <= from[l] => h[i] <= from[l] - Len(recent[l]))
          <6>1. CASE i = Len(g) + 1
            BY <1>2, <2>1, <2>3, <4>1, <6>1
          <6>2. CASE i \in 1 .. Len(g)
            BY <1>2, <2>1, <4>1, <4>2, <6>2
          <6>3. QED
            BY <4>1, <6>1, <6>2
        <5>2. QED
          BY <5>1
      <4>4. QED
        BY <1>1, <1>2, <2>1, <2>3, <3>2, <3>3, <4>2, <4>3 DEF FollowedBy, g, h
    <3>5. ctx[l] = "live" => Complete(l)'
      <4>1. Elements(Got(l)') = Elements(Got(l)) \union {e}
        BY <1>2, <2>1, <3>2, AppendHas
      <4>2. QED
        BY <1>1, <2>2, <2>3, <2>4, <3>1, <4>1 DEF Complete
    <3>6. QED
      BY <1>2, <2>1, <2>2, <2>5, <3>1, <3>4, <3>5
  <2>6. CASE ~(l \in listeners /\ Room(l))
    <3>1. logChan'[l] = logChan[l] /\ Got(l)' = Got(l)
      BY <1>1, <2>3, <2>6 DEF Got
    <3>2. skipped'[l] = IF l \in listeners THEN skipped[l] \union {e} ELSE skipped[l]
      BY <1>1, <2>6
    <3>3. FollowedBy(l)'
      <4>1. \A i \in 1 .. Len(Got(l)) : Got(l)[i] <= e
        BY <1>2, <2>1, <2>2 DEF FollowedBy
      <4>2. QED
        BY <1>1, <1>2, <2>1, <2>2, <2>3, <3>1, <4>1 DEF FollowedBy
    <3>4. ctx[l] = "live" => Complete(l)'
      BY <1>1, <2>2, <2>3, <2>4, <3>1, <3>2 DEF Complete
    <3>5. QED
      BY <1>2, <2>1, <2>2, <3>1, <3>2, <3>3, <3>4
  <2>7. QED
    BY <2>5, <2>6
<1>5. FollowTypes'
  <2>1. logChan' \in [Listener -> Seq(Nat)] /\ skipped' \in [Listener -> SUBSET Nat]
    BY <1>1, <1>4
  <2>2. QED
    BY <1>1, <1>2, <1>3, <2>1 DEF FollowTypes
<1>6. QED
  BY <1>1, <1>3, <1>4, <1>5 DEF FollowInv

\* The other steps of a request: each changes one request only.
LEMMA FollowOne ==
  ASSUME FollowInv, NEW l \in Listener,
         Subscribe(l) \/ Replay(l) \/ RequestEnds(l) \/ Unsubscribe(l) \/ Show(l) \/ HandlerReturns(l),
         FollowTypes',
         \A k \in Listener \ {l} : k \in listeners' <=> k \in listeners,
         /\ ctx'[l] = "none" =>
              shown'[l] = <<>> /\ logChan'[l] = <<>> /\ recent'[l] = <<>> /\ l \notin listeners'
         /\ ctx'[l] = "live" => l \in listeners'
         /\ FollowedBy(l)'
         /\ ctx'[l] = "live" => Complete(l)'
  PROVE  FollowInv'
<1>1. FollowTypes /\ UNCHANGED <<added, entries>>
  BY DEF FollowInv, Subscribe, Joins, Replay, RequestEnds, Unsubscribe, Show, HandlerReturns
<1>2. ASSUME NEW k \in Listener, k # l
      PROVE  /\ ctx'[k] = ctx[k] /\ from'[k] = from[k] /\ recent'[k] = recent[k]
             /\ logChan'[k] = logChan[k] /\ shown'[k] = shown[k] /\ skipped'[k] = skipped[k]
  BY <1>1, <1>2
     DEF FollowTypes, Subscribe, Joins, Replay, RequestEnds, Unsubscribe, Show, HandlerReturns
<1>3. ASSUME NEW k \in Listener, k # l
      PROVE  /\ ctx'[k] = "none" =>
                  shown'[k] = <<>> /\ logChan'[k] = <<>> /\ recent'[k] = <<>> /\ k \notin listeners'
             /\ ctx'[k] = "live" => k \in listeners'
             /\ FollowedBy(k)'
             /\ ctx'[k] = "live" => Complete(k)'
  <2>1. Got(k)' = Got(k)
    BY <1>2, <1>3 DEF Got
  <2>2. FollowedBy(k)' <=> FollowedBy(k)
    BY <1>1, <1>2, <1>3, <2>1 DEF FollowedBy
  <2>3. Complete(k)' <=> Complete(k)
    BY <1>1, <1>2, <1>3, <2>1 DEF Complete
  <2>4. QED
    BY <1>2, <1>3, <2>2, <2>3 DEF FollowInv
<1>4. EntriesInv'
  BY <1>1 DEF FollowInv, EntriesInv
<1>5. QED
  BY <1>3, <1>4 DEF FollowInv

\* A request keeps what it has got and gets what is next.
LEMMA FollowStep == FollowInv /\ [LogNext]_logVars => FollowInv'
<1> SUFFICES ASSUME FollowInv, [LogNext]_logVars PROVE FollowInv'
  OBVIOUS
<1>0. FollowTypes /\ EntriesInv
  BY DEF FollowInv
<1>1. ASSUME NEW l \in Listener
      PROVE  /\ shown[l] \in Seq(Nat) /\ logChan[l] \in Seq(Nat) /\ recent[l] \in Seq(Nat)
             /\ from[l] \in Nat /\ added \in Nat /\ Got(l) \in Seq(Nat)
             /\ FollowedBy(l) /\ (ctx[l] = "live" => Complete(l) /\ l \in listeners)
             /\ ctx[l] = "none" =>
                  shown[l] = <<>> /\ logChan[l] = <<>> /\ recent[l] = <<>> /\ l \notin listeners
  BY <1>0 DEF FollowInv, FollowTypes, Got
<1>2. ASSUME NEW l \in Listener, Subscribe(l) PROVE FollowInv'
  <2>1. /\ ctx' = [ctx EXCEPT ![l] = "live"] /\ ctx[l] = "none"
        /\ listeners' = listeners \union {l}
        /\ from' = [from EXCEPT ![l] = added]
        /\ recent' = [recent EXCEPT ![l] = entries]
        /\ UNCHANGED <<added, entries, logChan, shown, skipped>>
    BY <1>2 DEF Subscribe, Joins
  <2>2. FollowTypes'
    BY <1>0, <2>1 DEF FollowTypes
  <2>3. ctx'[l] = "live" /\ from'[l] = added /\ recent'[l] = entries /\ Got(l)' = <<>>
    BY <1>0, <1>1, <2>1 DEF FollowTypes, Got
  <2>4. FollowedBy(l)'
    BY <1>0, <1>1, <2>1, <2>3 DEF FollowedBy, OrderedUpTo, EntriesInv
  <2>5. Complete(l)'
    <3> DEFINE n == Len(entries)
    <3>1. /\ n \in Nat /\ n <= added /\ added \in Nat /\ (n < added => n = MaxSize)
          /\ \A i \in 1 .. n : entries[i] = added - n + i /\ DOMAIN entries = 1 .. n
      BY <1>0 DEF FollowTypes, EntriesInv, EndsAt
    <3> HIDE DEF n
    <3>2. ASSUME NEW f \in 1 .. added, f + MaxSize > added PROVE f \in Elements(entries)
      <4>1. f - (added - n) \in 1 .. n
        BY <3>1, <3>2, LogAssumption
      <4>2. DOMAIN entries = 1 .. n /\ entries[f - (added - n)] = f
        BY <3>1, <4>1
      <4>3. QED
        BY <4>1, <4>2 DEF Elements
    <3>3. QED
      BY <2>1, <2>3, <3>2 DEF Complete
  <2>6. QED
    BY <1>2, <2>1, <2>2, <2>3, <2>4, <2>5, FollowOne
<1>3. ASSUME NEW l \in Listener, Replay(l) PROVE FollowInv'
  <2> DEFINE r == recent[l]
             h == Head(r)
             n == Len(r)
  <2>1. /\ r # <<>> /\ r \in Seq(Nat) /\ h \in Nat /\ Tail(r) \in Seq(Nat) /\ n \in Nat /\ n >= 1
        /\ Len(Tail(r)) = n - 1 /\ h = r[1]
        /\ \A i \in 1 .. n - 1 : Tail(r)[i] = r[i + 1]
    BY <1>1, <1>3 DEF Replay
  <2>2. UNCHANGED <<added, entries, listeners, ctx, from, shown, skipped>>
    BY <1>3 DEF Replay
  <2>3. /\ n <= from[l] /\ \A i \in 1 .. n : r[i] = from[l] - n + i
        /\ from[l] <= added /\ OrderedUpTo(Got(l), from[l])
        /\ \A i \in 1 .. Len(Got(l)) :
             Got(l)[i] <= added /\ (Got(l)[i] <= from[l] => Got(l)[i] <= from[l] - n)
    BY <1>1 DEF FollowedBy, EndsAt
  <2>4. CASE UNCHANGED <<logChan, recent>>
    BY <1>1, <1>3, <2>2, <2>4, <1>0, FollowOne
       DEF FollowTypes, FollowedBy, Complete, Got
  <2>5. CASE logChan' = logChan /\ recent' = [recent EXCEPT ![l] = <<>>] /\ ctx[l] = "done"
    <3>1. recent'[l] = <<>> /\ FollowTypes' /\ Got(l)' = Got(l)
      BY <1>0, <2>2, <2>5 DEF FollowTypes, Got
    <3>2. FollowedBy(l)'
      BY <1>1, <2>2, <2>3, <3>1 DEF FollowedBy, EndsAt
    <3>3. QED
      BY <1>3, <2>2, <2>5, <3>1, <3>2, FollowOne
  <2>6. CASE /\ logChan' = [logChan EXCEPT ![l] = Append(@, h)]
             /\ recent' = [recent EXCEPT ![l] = Tail(@)]
    <3>1. logChan'[l] = Append(logChan[l], h) /\ recent'[l] = Tail(r) /\ FollowTypes'
      BY <1>0, <1>1, <2>1, <2>2, <2>6 DEF FollowTypes
    <3>2. Got(l)' = Append(Got(l), h)
      <4>1. shown[l] \o Append(logChan[l], h) = Append(shown[l] \o logChan[l], h)
        <5>1. shown[l] \in Seq(Nat) /\ logChan[l] \in Seq(Nat) /\ h \in Nat
          BY <1>1, <2>1
        <5>2. QED
          BY <5>1, ConcatAppend, Zenon
      <4>2. shown'[l] = shown[l]
        BY <2>2
      <4>3. QED
        BY <3>1, <4>1, <4>2, Zenon DEF Got
    <3>3. h = from[l] - n + 1
      BY <2>1, <2>3
    <3>4. FollowedBy(l)'
      <4> DEFINE g == Got(l)
                 k == Append(g, h)
      <4>1. /\ Len(k) = Len(g) + 1 /\ Len(g) \in Nat /\ k[Len(g) + 1] = h
            /\ \A i \in 1 .. Len(g) : k[i] = g[i] /\ g[i] \in Nat
        BY <1>1, <2>1
      <4>2. OrderedUpTo(k, from[l])
        <5>1. \A i \in 1 .. Len(g) : (g[i] <= from[l] <=> h <= from[l]) => g[i] < h
          BY <1>1, <2>1, <2>3, <3>3, <4>1
        <5>2. QED
          BY <1>1, <2>1, <2>3, <5>1, AppendOrdered
      <4> HIDE DEF g, k
      <4>3. ASSUME NEW i \in 1 .. Len(k)
            PROVE  k[i] <= added /\ (k[i] <= from[l] => k[i] <= from[l] - (n - 1))
        <5>1. CASE i = Len(g) + 1
          BY <1>1, <2>1, <2>3, <3>3, <4>1, <5>1
        <5>2. CASE i \in 1 .. Len(g)
          <6>1. /\ k[i] = g[i] /\ g[i] \in Nat
                /\ g[i] <= added /\ (g[i] <= from[l] => g[i] <= from[l] - n)
            BY <2>3, <4>1, <5>2 DEF g
          <6>2. from[l] \in Nat /\ n \in Nat /\ from[l] - n <= from[l] - (n - 1)
            BY <1>1, <2>1
          <6> HIDE DEF n, r, h
          <6>3. QED
            BY <6>1, <6>2
        <5>3. QED
          BY <4>1, <5>1, <5>2
      <4>4. EndsAt(Tail(r), from[l])
        <5>1. ASSUME NEW i \in 1 .. n - 1 PROVE Tail(r)[i] = from[l] - (n - 1) + i
          <6>1. i + 1 \in 1 .. n /\ Tail(r)[i] = r[i + 1]
            BY <2>1
          <6>2. r[i + 1] = from[l] - n + (i + 1)
            BY <2>3, <6>1
          <6>3. from[l] \in Nat /\ n \in Nat
            BY <1>1, <2>1
          <6> HIDE DEF n, r, h
          <6>4. from[l] - n + (i + 1) = from[l] - (n - 1) + i
            BY <6>3
          <6>5. QED
            BY <6>1, <6>2, <6>4
        <5>2. QED
          BY <1>1, <2>1, <2>3, <5>1 DEF EndsAt
      <4>5. Got(l)' = k /\ Len(recent'[l]) = n - 1
        BY <2>1, <3>1, <3>2 DEF g, k
      <4>6. QED
        BY <2>2, <2>3, <3>1, <4>2, <4>3, <4>4, <4>5 DEF FollowedBy
    <3>5. ctx[l] = "live" => Complete(l)'
      <4>1. Elements(Got(l)') = Elements(Got(l)) \union {h}
        BY <1>1, <2>1, <3>2, AppendHas
      <4>2. Elements(r) \subseteq Elements(Tail(r)) \union {h}
        <5>1. ASSUME NEW i \in 1 .. n, i # 1
              PROVE  i - 1 \in 1 .. n - 1 /\ Tail(r)[i - 1] = r[i]
          BY <2>1, <5>1
        <5>2. DOMAIN r = 1 .. n /\ DOMAIN Tail(r) = 1 .. n - 1
          BY <2>1
        <5>3. QED
          BY <2>1, <5>1, <5>2 DEF Elements
      <4>3. QED
        BY <1>1, <2>2, <3>1, <4>1, <4>2 DEF Complete
    <3>6. QED
      <4>1. ctx[l] # "none"
        BY <1>1, <2>1
      <4>2. QED
        BY <1>1, <1>3, <2>2, <3>1, <3>4, <3>5, <4>1, FollowOne
  <2>7. QED
    BY <1>3, <2>4, <2>5, <2>6 DEF Replay
<1>4. ASSUME NEW l \in Listener, RequestEnds(l) PROVE FollowInv'
  <2>1. /\ ctx' = [ctx EXCEPT ![l] = "done"]
        /\ UNCHANGED <<added, entries, listeners, from, recent, logChan, shown, skipped>>
    BY <1>4 DEF RequestEnds
  <2>2. FollowTypes' /\ ctx'[l] = "done" /\ FollowedBy(l)'
    BY <1>0, <1>1, <2>1 DEF FollowTypes, FollowedBy, Got
  <2>3. QED
    BY <1>4, <2>1, <2>2, FollowOne
<1>5. ASSUME NEW l \in Listener, Unsubscribe(l) PROVE FollowInv'
  <2>1. /\ ctx[l] = "done" /\ listeners' = listeners \ {l}
        /\ UNCHANGED <<added, entries, ctx, from, recent, logChan, shown, skipped>>
    BY <1>5 DEF Unsubscribe
  <2>2. FollowTypes' /\ FollowedBy(l)'
    BY <1>0, <1>1, <2>1 DEF FollowTypes, FollowedBy, Got
  <2>3. QED
    BY <1>5, <2>1, <2>2, FollowOne
<1>6. ASSUME NEW l \in Listener, Show(l) PROVE FollowInv'
  <2>1. /\ logChan[l] # <<>>
        /\ shown' = [shown EXCEPT ![l] = Append(@, Head(logChan[l]))]
        /\ logChan' = [logChan EXCEPT ![l] = Tail(@)]
        /\ UNCHANGED <<added, entries, listeners, ctx, from, recent, skipped>>
    BY <1>6 DEF Show
  <2>2. Head(logChan[l]) \in Nat /\ Tail(logChan[l]) \in Seq(Nat)
        /\ Append(shown[l], Head(logChan[l])) \in Seq(Nat)
    BY <1>1, <2>1
  <2>3. /\ FollowTypes' /\ shown'[l] = Append(shown[l], Head(logChan[l]))
        /\ logChan'[l] = Tail(logChan[l])
    BY <1>0, <2>1, <2>2 DEF FollowTypes
  <2>4. Got(l)' = Got(l)
    <3>1. Append(shown[l], Head(logChan[l])) \o Tail(logChan[l]) = shown[l] \o logChan[l]
      BY <1>1, <2>1, ConcatMove, Zenon
    <3>2. QED
      BY <2>3, <3>1, Zenon DEF Got
  <2>5. FollowedBy(l)' /\ (ctx[l] = "live" => Complete(l)')
    BY <1>1, <2>1, <2>4 DEF FollowedBy, Complete
  <2>6. ctx[l] # "none"
    BY <1>1, <2>1
  <2>7. QED
    BY <1>1, <1>6, <2>1, <2>3, <2>5, <2>6, FollowOne
<1>7. ASSUME NEW l \in Listener, HandlerReturns(l) PROVE FollowInv'
  BY <1>0, <1>1, <1>7, FollowOne DEF HandlerReturns, FollowTypes, FollowedBy, Complete, Got
<1>8. CASE UNCHANGED logVars
  BY <1>8 DEF logVars, FollowInv, FollowTypes, EntriesInv, FollowedBy, Complete, Got
<1>9. QED
  BY <1>2, <1>3, <1>4, <1>5, <1>6, <1>7, <1>8, FollowAdd DEF LogNext

\* Whatever the size of the buffer and of the channels and whoever is slow: a request that
\* follows the server's log gets the entries that were in the buffer when it subscribed
\* and those added since, except the ones that found its channel full; none of them twice,
\* and the old ones and the new ones each in order.
THEOREM LogIsFollowed == LogSpec => []LogFollowed
<1>1. LogInit => FollowInv
  BY LogAssumption
     DEF LogInit, FollowInv, FollowTypes, EntriesInv, EndsAt, FollowedBy, Complete, Got, OrderedUpTo
<1>2. FollowInv => LogFollowed
  BY DEF FollowInv, LogFollowed, FollowedBy, Complete, Got
<1>3. QED
  BY <1>1, <1>2, FollowStep, PTL DEF LogSpec

-----------------------------------------------------------------------------
(* The probe logs: what a request is told.                                 *)

\* What stays of a sequence of proxies whose k-th goes to the end: all of it.
LEMMA MoveKeeps ==
  ASSUME NEW q \in Seq(Proxy), NEW k \in 1 .. Len(q)
  PROVE  LET r == SubSeq(q, 1, k - 1) \o SubSeq(q, k + 1, Len(q)) \o <<q[k]>>
         IN r \in Seq(Proxy) /\ Elements(q) \subseteq Elements(r)
<1> DEFINE a == SubSeq(q, 1, k - 1)
           b == SubSeq(q, k + 1, Len(q))
           m == Len(q)
           z == <<q[k]>>
           c == a \o b
           r == c \o z
<1>1. m \in Nat /\ DOMAIN q = 1 .. m /\ k \in 1 .. m /\ k \in Int
      /\ \A i \in 1 .. m : q[i] \in Proxy
  OBVIOUS
<1>2. a \in Seq(Proxy) /\ Len(a) = k - 1 /\ \A i \in 1 .. k - 1 : a[i] = q[i]
  <2>1. \A i \in 1 .. k - 1 : q[i] \in Proxy
    BY <1>1
  <2> HIDE DEF m
  <2>2. k - 1 \in Int /\ 1 \in Int
    BY <1>1
  <2>3. /\ a \in Seq(Proxy) /\ Len(a) = IF 1 <= k - 1 THEN k - 1 - 1 + 1 ELSE 0
        /\ \A i \in 1 .. k - 1 - 1 + 1 : a[i] = q[1 + i - 1]
    BY <2>1, <2>2, SubSeqProperties
  <2> HIDE DEF a
  <2>4. QED
    BY <1>1, <2>3
<1>3. b \in Seq(Proxy) /\ Len(b) = m - k /\ \A i \in 1 .. m - k : b[i] = q[k + i]
  <2>1. \A i \in k + 1 .. m : q[i] \in Proxy
    BY <1>1
  <2>2. k + 1 \in Int /\ m \in Int
    BY <1>1
  <2>3. /\ b \in Seq(Proxy) /\ Len(b) = IF k + 1 <= m THEN m - (k + 1) + 1 ELSE 0
        /\ \A i \in 1 .. m - (k + 1) + 1 : b[i] = q[k + 1 + i - 1]
    BY <2>1, <2>2, SubSeqProperties
  <2> HIDE DEF b, m
  <2>4. QED
    BY <1>1, <2>3
<1>4. z \in Seq(Proxy) /\ Len(z) = 1 /\ z[1] = q[k]
  BY <1>1
<1> HIDE DEF a, b, m, z
<1>5. /\ c \in Seq(Proxy) /\ Len(c) = Len(a) + Len(b)
      /\ \A i \in 1 .. Len(a) + Len(b) : c[i] = IF i <= Len(a) THEN a[i] ELSE b[i - Len(a)]
  BY <1>2, <1>3, ConcatProperties, Zenon
<1> HIDE DEF c
<1>6. /\ r \in Seq(Proxy) /\ Len(r) = Len(c) + Len(z)
      /\ \A i \in 1 .. Len(c) + Len(z) : r[i] = IF i <= Len(c) THEN c[i] ELSE z[i - Len(c)]
  <2>1. /\ c \o z \in Seq(Proxy) /\ Len(c \o z) = Len(c) + Len(z)
        /\ \A i \in 1 .. Len(c) + Len(z) :
             (c \o z)[i] = IF i <= Len(c) THEN c[i] ELSE z[i - Len(c)]
    <3>1. c \in Seq(Proxy) /\ z \in Seq(Proxy)
      BY <1>4, <1>5
    <3>2. QED
      BY <3>1, ConcatProperties, Zenon
  <2>2. QED
    BY <2>1, Zenon DEF r
<1> HIDE DEF r
<1>7. Len(r) = m /\ DOMAIN r = 1 .. m /\ Len(c) = m - 1
  BY <1>1, <1>2, <1>3, <1>4, <1>5, <1>6
<1>8. ASSUME NEW i \in 1 .. m PROVE \E j \in 1 .. m : r[j] = q[i]
  <2>1. CASE i = k
    <3>1. m \in 1 .. m /\ r[m] = z[1]
      BY <1>1, <1>4, <1>6, <1>7
    <3>2. QED
      BY <1>4, <2>1, <3>1
  <2>2. CASE i < k
    <3>1. i \in 1 .. k - 1 /\ i \in 1 .. m
      BY <1>1, <2>2
    <3>2. r[i] = c[i]
      BY <1>1, <1>4, <1>6, <1>7, <2>2
    <3>3. c[i] = a[i]
      BY <1>1, <1>2, <1>3, <1>5, <2>2
    <3>4. QED
      BY <1>2, <3>1, <3>2, <3>3
  <2>3. CASE i > k
    <3>1. i - 1 \in 1 .. m /\ i - k \in 1 .. m - k
      BY <1>1, <2>3
    <3>2. r[i - 1] = c[i - 1] /\ c[i - 1] = b[i - k] /\ b[i - k] = q[i]
      <4>1. r[i - 1] = c[i - 1]
        BY <1>1, <1>4, <1>6, <1>7, <2>3
      <4>2. c[i - 1] = b[i - 1 - (k - 1)]
        BY <1>1, <1>2, <1>3, <1>5, <2>3
      <4>3. i - 1 - (k - 1) = i - k /\ k + (i - k) = i
        BY <1>1, <2>3
      <4>4. QED
        BY <1>3, <3>1, <4>1, <4>2, <4>3
    <3>3. QED
      BY <3>1, <3>2
  <2>4. QED
    BY <1>1, <2>1, <2>2, <2>3
<1>9. Elements(q) \subseteq Elements(r)
  <2>1. ASSUME NEW e \in Elements(q) PROVE e \in Elements(r)
    <3>1. PICK i \in 1 .. m : e = q[i]
      BY <1>1 DEF Elements
    <3>2. PICK j \in 1 .. m : r[j] = q[i]
      BY <1>8
    <3>3. QED
      BY <1>7, <3>1, <3>2 DEF Elements
  <2>2. QED
    BY <2>1
<1>10. QED
  BY <1>6, <1>9 DEF a, b, c, r, z, m

\* What stays of the LRU when a ring comes to it: all but the oldest, and that only if it is full.
LEMMA RetainKeeps ==
  ASSUME NEW q \in Seq(Proxy), NEW p \in Proxy, NEW full \in BOOLEAN, full => Len(q) # 0
  PROVE  LET r == Append(IF full THEN Tail(q) ELSE q, p)
         IN /\ r \in Seq(Proxy) /\ p \in Elements(r)
            /\ Elements(q) \subseteq Elements(r) \union (IF full THEN {Head(q)} ELSE {})
<1> DEFINE a == IF full THEN Tail(q) ELSE q
           r == Append(a, p)
<1>1. Len(q) \in Nat /\ DOMAIN q = 1 .. Len(q)
  OBVIOUS
<1>2. a \in Seq(Proxy)
  BY <1>1
<1>3. ASSUME NEW i \in 1 .. Len(q), ~(full /\ i = 1) PROVE \E j \in 1 .. Len(a) : a[j] = q[i]
  <2>1. CASE full
    <3>1. Len(a) = Len(q) - 1 /\ i - 1 \in 1 .. Len(a) /\ a[i - 1] = q[i]
      BY <1>1, <1>3, <2>1
    <3>2. QED
      BY <3>1
  <2>2. CASE ~full
    BY <1>1, <2>2
  <2>3. QED
    BY <2>1, <2>2
<1>4. full => Head(q) = q[1]
  BY <1>1
<1> HIDE DEF a
<1>5. /\ r \in Seq(Proxy) /\ Len(r) = Len(a) + 1 /\ Len(a) \in Nat /\ DOMAIN r = 1 .. Len(a) + 1
      /\ r[Len(a) + 1] = p /\ \A i \in 1 .. Len(a) : r[i] = a[i]
  BY <1>2
<1> HIDE DEF r
<1>6. p \in Elements(r)
  <2>1. Len(a) + 1 \in DOMAIN r
    BY <1>5
  <2>2. QED
    BY <1>5, <2>1 DEF Elements
<1>7. ASSUME NEW i \in 1 .. Len(q), ~(full /\ i = 1) PROVE q[i] \in Elements(r)
  <2>1. PICK j \in 1 .. Len(a) : a[j] = q[i]
    BY <1>3, <1>7
  <2>2. j \in DOMAIN r /\ r[j] = q[i]
    BY <1>5, <2>1
  <2>3. QED
    BY <2>2 DEF Elements
<1>8. Elements(q) \subseteq Elements(r) \union (IF full THEN {Head(q)} ELSE {})
  BY <1>1, <1>4, <1>7 DEF Elements
<1>9. QED
  BY <1>5, <1>6, <1>8 DEF a, r

Over(p) == stage[p] \in {"moving", "gone"}

\* The connection of a known proxy has come past its start, and its ring is in the LRU, once it
\* has moved there, until it is evicted.
RetainInv ==
  /\ DOMAIN stage = Proxy
  /\ \A p \in Proxy : stage[p] \in {"new", "active", "moving", "gone"}
  /\ known \subseteq Proxy /\ \A p \in known : stage[p] # "new"
  /\ lru \in Seq(Proxy)
  /\ \A p \in Proxy : stage[p] = "gone" => p \in evicted \union Elements(lru)

\* What a handler has read of a proxy is still true of it where it matters: an end is final,
\* and only a lookup between the two halves of UnregisterProxy may miss a ring that is there.
ReadTruly(s) ==
  LET r == stream[s] IN
  /\ DOMAIN r = {"at", "id", "active", "miss", "live"}
  /\ r.at # "none" => r.id \in known
  /\ r.active \in BOOLEAN
  /\ (r.at \in {"lookup", "retained", "replay"} /\ r.active = FALSE) => Over(r.id)
  /\ r.at = "ended" => Over(r.id)
  /\ r.at = "retained" => r.miss = "moving" \/ (r.miss = "gone" /\ stage[r.id] = "gone")
  /\ r.at = "notFound" => r.id \in evicted \/ r.miss = "moving"

ToldInv == RetainInv /\ DOMAIN stream = Stream /\ \A s \in Stream : ReadTruly(s)

\* What was read stays true as the registry goes on.
LEMMA ReadStays ==
  ASSUME NEW s \in Stream, ReadTruly(s), known \subseteq Proxy, known \subseteq known',
         \A p \in Proxy : (Over(p) => Over(p)') /\ (stage[p] = "gone" => stage'[p] = "gone"),
         evicted \subseteq evicted', stream'[s] = stream[s]
  PROVE  ReadTruly(s)'
<1> DEFINE r == stream[s]
<1>1. stream'[s] = r
  OBVIOUS
<1>2. r.at # "none" => r.id \in Proxy
  BY DEF ReadTruly
<1>3. QED
  BY <1>1, <1>2 DEF ReadTruly

\* Goroutines that log, and the halves of UnregisterProxy, leave what was read true.
LEMMA ToldRegistry ==
  ASSUME ToldInv, NEW p \in Proxy,
         \/ \E g \in Goroutine : Log(p, g) \/ LogSend(p, g) \/ LogDiscard(p, g) \/ LogAgain(p, g)
         \/ RegisterProxy(p) \/ UnregisterDelete(p) \/ UnregisterRetain(p)
  PROVE  ToldInv'
<1>1. RetainInv /\ DOMAIN stream = Stream /\ \A s \in Stream : ReadTruly(s)
  BY DEF ToldInv
<1>2. stream' = stream
  BY DEF Log, LogSend, LogDiscard, LogAgain, RegisterProxy, UnregisterDelete, UnregisterRetain
<1>3. CASE \E g \in Goroutine : Log(p, g) \/ LogSend(p, g) \/ LogDiscard(p, g) \/ LogAgain(p, g)
  <2>1. UNCHANGED <<stage, known, lru, evicted>>
    BY <1>3 DEF Log, LogSend, LogDiscard, LogAgain
  <2>2. QED
    BY <1>1, <1>2, <2>1 DEF ToldInv, RetainInv, ReadTruly, Over
<1>4. CASE RegisterProxy(p)
  <2>1. /\ stage[p] = "new" /\ stage' = [stage EXCEPT ![p] = "active"]
        /\ known' = known \union {p} /\ UNCHANGED <<lru, evicted>>
    BY <1>4 DEF RegisterProxy
  <2>2. RetainInv'
    BY <1>1, <2>1 DEF RetainInv
  <2>3. \A q \in Proxy : (Over(q) => Over(q)') /\ (stage[q] = "gone" => stage'[q] = "gone")
    BY <1>1, <2>1 DEF RetainInv, Over
  <2>4. QED
    BY <1>1, <1>2, <2>1, <2>2, <2>3, ReadStays DEF ToldInv, RetainInv
<1>5. CASE UnregisterDelete(p)
  <2>1. /\ stage[p] \in {"new", "active"} /\ stage' = [stage EXCEPT ![p] = "moving"]
        /\ UNCHANGED <<known, lru, evicted>>
    BY <1>5 DEF UnregisterDelete
  <2>2. RetainInv'
    BY <1>1, <2>1 DEF RetainInv
  <2>3. \A q \in Proxy : (Over(q) => Over(q)') /\ (stage[q] = "gone" => stage'[q] = "gone")
    BY <1>1, <2>1 DEF RetainInv, Over
  <2>4. QED
    BY <1>1, <1>2, <2>1, <2>2, <2>3, ReadStays DEF ToldInv, RetainInv
<1>6. CASE UnregisterRetain(p)
  <2> DEFINE full == Len(lru) = Retained
  <2>1. /\ stage[p] = "moving" /\ stage' = [stage EXCEPT ![p] = "gone"]
        /\ lru' = Append(IF full THEN Tail(lru) ELSE lru, p)
        /\ evicted' = (IF full THEN evicted \union {Head(lru)} ELSE evicted)
        /\ known' = known
    BY <1>6 DEF UnregisterRetain
  <2>2. full \in BOOLEAN /\ (full => Len(lru) # 0)
    BY ProbeAssumption
  <2> HIDE DEF full
  <2>3. /\ lru' \in Seq(Proxy) /\ p \in Elements(lru')
        /\ Elements(lru) \subseteq Elements(lru') \union (IF full THEN {Head(lru)} ELSE {})
    BY <1>1, <2>1, <2>2, RetainKeeps DEF RetainInv
  <2>4. RetainInv'
    BY <1>1, <2>1, <2>3 DEF RetainInv
  <2>5. \A q \in Proxy : (Over(q) => Over(q)') /\ (stage[q] = "gone" => stage'[q] = "gone")
    BY <1>1, <2>1 DEF RetainInv, Over
  <2>6. QED
    BY <1>1, <1>2, <2>1, <2>4, <2>5, ReadStays DEF ToldInv, RetainInv
<1>7. QED
  BY <1>3, <1>4, <1>5, <1>6

\* The steps of a request: each reads what is true then, and ReadTruly keeps of it what stays.
LEMMA ToldRequest ==
  ASSUME ToldInv, NEW s \in Stream,
         (\E p \in Proxy : Request(s, p)) \/ Handler(s) \/ StreamEnds(s)
  PROVE  ToldInv'
<1>1. /\ RetainInv /\ DOMAIN stream = Stream /\ \A t \in Stream : ReadTruly(t)
      /\ stream[s].at # "none" => stream[s].id \in Proxy
  BY DEF ToldInv, RetainInv, ReadTruly
<1>2. UNCHANGED <<stage, known, evicted>>
  BY DEF Request, Handler, LoadActive, Lookup, LookupRetained, WriteBuffered, WriteLive, StreamEnds
<1>3. DOMAIN stream' = Stream /\ \A t \in Stream \ {s} : stream'[t] = stream[t]
  BY <1>1 DEF Request, Handler, LoadActive, Lookup, LookupRetained, WriteBuffered, WriteLive,
              StreamEnds, Goes
<1>4. RetainInv' /\ (ReadTruly(s)' => ToldInv')
  <2>1. RetainInv'
    <3>1. CASE lru' = lru
      BY <1>1, <1>2, <3>1 DEF RetainInv
    <3>2. CASE LookupRetained(s) /\ lru' # lru
      <4>1. PICK i \in DOMAIN lru :
              lru' = SubSeq(lru, 1, i - 1) \o SubSeq(lru, i + 1, Len(lru)) \o <<lru[i]>>
        BY <3>2 DEF LookupRetained
      <4>2. i \in 1 .. Len(lru) /\ lru \in Seq(Proxy)
        BY <1>1 DEF RetainInv
      <4>3. lru' \in Seq(Proxy) /\ Elements(lru) \subseteq Elements(lru')
        BY <4>1, <4>2, MoveKeeps
      <4>4. QED
        BY <1>1, <1>2, <4>3 DEF RetainInv
    <3>3. QED
      BY <3>1, <3>2 DEF Request, Handler, LoadActive, Lookup, WriteBuffered, WriteLive, StreamEnds
  <2>2. \A q \in Proxy : (Over(q) => Over(q)') /\ (stage[q] = "gone" => stage'[q] = "gone")
    BY <1>2 DEF Over
  <2>3. \A t \in Stream \ {s} : ReadTruly(t)'
    BY <1>1, <1>2, <1>3, <2>2, ReadStays DEF RetainInv
  <2>4. QED
    BY <1>3, <2>1, <2>3 DEF ToldInv
<1> DEFINE r == stream[s]
<1>5. DOMAIN r = {"at", "id", "active", "miss", "live"}
  BY <1>1 DEF ReadTruly
<1>6. ASSUME NEW p \in Proxy, Request(s, p) PROVE ReadTruly(s)'
  <2>1. p \in known /\ stream'[s] = [[r EXCEPT !.at = "load"] EXCEPT !.id = p]
    BY <1>1, <1>6 DEF Request
  <2> DEFINE q == stream'[s]
  <2>2. /\ q.at = "load" /\ q.id = p /\ q.active = r.active /\ r.active \in BOOLEAN
        /\ DOMAIN q = {"at", "id", "active", "miss", "live"}
    BY <1>1, <1>5, <2>1 DEF ReadTruly
  <2>3. QED
    BY <1>2, <2>1, <2>2 DEF ReadTruly
<1>7. CASE LoadActive(s)
  <2>1. r.at = "load" /\ stream'[s] = [[r EXCEPT !.active = Active(r.id)] EXCEPT !.at = "lookup"]
    BY <1>1, <1>7 DEF LoadActive
  <2>2. r.id \in known /\ Active(r.id) \in BOOLEAN /\ (Active(r.id) = FALSE => Over(r.id))
    BY <1>1, <1>2, <2>1 DEF ReadTruly, RetainInv, Over, Active
  <2> DEFINE q == stream'[s]
  <2>3. /\ q.at = "lookup" /\ q.id = r.id /\ q.active = Active(r.id)
        /\ DOMAIN q = {"at", "id", "active", "miss", "live"}
    BY <1>5, <2>1
  <2>4. QED
    BY <1>2, <1>4, <2>2, <2>3 DEF ReadTruly, Over
<1>8. CASE Lookup(s)
  <2>1. r.at = "lookup"
        /\ stream'[s] = [[r EXCEPT !.at = IF stage[r.id] = "active" THEN "replay" ELSE "retained"]
                            EXCEPT !.miss = stage[r.id]]
    BY <1>1, <1>8 DEF Lookup
  <2>2. r.id \in known /\ stage[r.id] \in {"active", "moving", "gone"} /\ r.active \in BOOLEAN /\ (r.active = FALSE => Over(r.id))
    BY <1>1, <2>1 DEF ReadTruly, RetainInv
  <2> DEFINE q == stream'[s]
  <2>3. /\ q.at = (IF stage[r.id] = "active" THEN "replay" ELSE "retained")
        /\ q.id = r.id /\ q.miss = stage[r.id] /\ q.active = r.active
        /\ DOMAIN q = {"at", "id", "active", "miss", "live"}
    BY <1>5, <2>1
  <2>4. QED
    BY <1>2, <1>4, <2>2, <2>3 DEF ReadTruly, Over
<1>9. CASE LookupRetained(s)
  <2>1. r.at = "retained"
        /\ \/ stream'[s] = [r EXCEPT !.at = "replay"]
           \/ /\ stream'[s] = [r EXCEPT !.at = "notFound"]
              /\ \A i \in DOMAIN lru : lru[i] # r.id
    BY <1>1, <1>9 DEF LookupRetained, Goes
  <2>2. /\ r.id \in known /\ r.id \in Proxy /\ r.active \in BOOLEAN /\ (r.active = FALSE => Over(r.id))
        /\ r.miss = "moving" \/ stage[r.id] = "gone"
    BY <1>1, <2>1 DEF ReadTruly, RetainInv
  <2>3. r.id \notin Elements(lru) => (r.id \in evicted \/ r.miss = "moving")
    BY <1>1, <2>2 DEF RetainInv
  <2> DEFINE q == stream'[s]
  <2>4. CASE stream'[s] = [r EXCEPT !.at = "replay"]
    <3>1. /\ q.at = "replay" /\ q.id = r.id /\ q.active = r.active
          /\ DOMAIN q = {"at", "id", "active", "miss", "live"}
      BY <1>5, <2>4
    <3>2. QED
      BY <1>2, <1>4, <2>2, <3>1 DEF ReadTruly, Over
  <2>5. CASE stream'[s] = [r EXCEPT !.at = "notFound"] /\ \A i \in DOMAIN lru : lru[i] # r.id
    <3>1. r.id \notin Elements(lru)
      BY <2>5 DEF Elements
    <3>2. /\ q.at = "notFound" /\ q.id = r.id /\ q.active = r.active /\ q.miss = r.miss
          /\ DOMAIN q = {"at", "id", "active", "miss", "live"}
      BY <1>5, <2>5
    <3>3. QED
      BY <1>2, <1>4, <2>2, <2>3, <3>1, <3>2 DEF ReadTruly
  <2>6. QED
    BY <2>1, <2>4, <2>5
<1>10. CASE WriteBuffered(s)
  <2>1. r.at = "replay" /\ stream'[s] = [r EXCEPT !.at = IF r.active THEN "live" ELSE "ended"]
    BY <1>1, <1>10 DEF WriteBuffered, Goes
  <2>2. r.id \in known /\ r.active \in BOOLEAN /\ (r.active = FALSE => Over(r.id))
    BY <1>1, <2>1 DEF ReadTruly
  <2> DEFINE q == stream'[s]
  <2>3. CASE r.active = TRUE
    <3>1. /\ q.at = "live" /\ q.id = r.id /\ q.active = r.active
          /\ DOMAIN q = {"at", "id", "active", "miss", "live"}
      BY <1>5, <2>1, <2>3
    <3>2. QED
      BY <1>2, <1>4, <2>2, <3>1 DEF ReadTruly
  <2>4. CASE r.active = FALSE
    <3>1. /\ q.at = "ended" /\ q.id = r.id /\ q.active = r.active
          /\ DOMAIN q = {"at", "id", "active", "miss", "live"}
      BY <1>5, <2>1, <2>4
    <3>2. QED
      BY <1>2, <1>4, <2>2, <2>4, <3>1 DEF ReadTruly, Over
  <2>5. QED
    BY <2>2, <2>3, <2>4
<1>11. CASE WriteLive(s) \/ StreamEnds(s)
  <2>1. r.at = "live" /\ \/ stream'[s] = [r EXCEPT !.live = Append(@, Head(probeChan[r.id]))]
                         \/ stream'[s] = [r EXCEPT !.at = "closed"]
    BY <1>1, <1>11 DEF WriteLive, StreamEnds, Goes
  <2>2. r.id \in known /\ r.active \in BOOLEAN
    BY <1>1, <2>1 DEF ReadTruly
  <2> DEFINE q == stream'[s]
  <2>3. /\ q.at \in {"live", "closed"} /\ q.id = r.id /\ q.active = r.active
        /\ DOMAIN q = {"at", "id", "active", "miss", "live"}
    BY <1>5, <2>1
  <2>4. QED
    BY <1>2, <1>4, <2>2, <2>3 DEF ReadTruly
<1>12. QED
  BY <1>4, <1>6, <1>7, <1>8, <1>9, <1>10, <1>11 DEF Handler

\* However requests race the end of a proxy and each other in the LRU: one is told proxy_ended
\* only of a proxy that has ended, and a proxy that was listed is not found only if it was
\* evicted or if the lookup came between the two halves of UnregisterProxy.
THEOREM RequestToldTruly == ProbeSpec => []ToldTruly
<1>1. ProbeInit => ToldInv
  <2>1. <<>> \in Seq(Proxy)
    OBVIOUS
  <2>2. /\ NoStream.at = "none" /\ NoStream.active \in BOOLEAN
        /\ DOMAIN NoStream = {"at", "id", "active", "miss", "live"}
    BY DEF NoStream
  <2>3. ASSUME ProbeInit, NEW s \in Stream PROVE ReadTruly(s)
    <3>1. stream[s] = NoStream
      BY <2>3 DEF ProbeInit
    <3>2. QED
      BY <2>2, <3>1 DEF ReadTruly
  <2>4. QED
    BY <2>1, <2>3 DEF ProbeInit, ToldInv, RetainInv
<1>2. ToldInv /\ [ProbeNext]_probeVars => ToldInv'
  <2>1. ToldInv /\ ProbeNext => ToldInv'
    BY ToldRegistry, ToldRequest DEF ProbeNext
  <2>2. ToldInv /\ UNCHANGED probeVars => ToldInv'
    BY DEF probeVars, ToldInv, RetainInv, ReadTruly, Over
  <2>3. QED
    BY <2>1, <2>2
<1>3. ToldInv => ToldTruly
  BY DEF ToldInv, ReadTruly, Over, ToldTruly, EndedTruly, FoundUnlessMoving
<1>4. QED
  BY <1>1, <1>2, <1>3, PTL DEF ProbeSpec

-----------------------------------------------------------------------------
(* The probe logs: the order of what a request is sent live.               *)

Entries == Goroutine \X Nat

\* Of two entries of one goroutine the first is the older.
Older(x, y) == x[1] = y[1] => x[2] < y[2]
InOrder(q) == \A i, j \in DOMAIN q : i < j => Older(q[i], q[j])

\* An entry that is newer than the others of its goroutine may follow.
LEMMA AppendInOrder ==
  ASSUME NEW q \in Seq(Entries), NEW e \in Entries, InOrder(q),
         \A x \in Elements(q) : Older(x, e)
  PROVE  /\ Append(q, e) \in Seq(Entries) /\ InOrder(Append(q, e))
         /\ Elements(Append(q, e)) = Elements(q) \union {e}
<1> DEFINE r == Append(q, e)
<1>1. /\ r \in Seq(Entries) /\ DOMAIN r = 1 .. Len(q) + 1 /\ DOMAIN q = 1 .. Len(q) /\ Len(q) \in Nat
      /\ r[Len(q) + 1] = e /\ \A i \in 1 .. Len(q) : r[i] = q[i]
  OBVIOUS
<1> HIDE DEF r
<1>2. 1 .. Len(q) + 1 = (1 .. Len(q)) \union {Len(q) + 1}
  BY <1>1
<1>3. Elements(r) = Elements(q) \union {e}
  <2>1. \A i \in DOMAIN q : i \in DOMAIN r /\ r[i] = q[i]
    BY <1>1, <1>2
  <2>2. Len(q) + 1 \in DOMAIN r /\ r[Len(q) + 1] = e
    BY <1>1, <1>2
  <2>3. \A i \in DOMAIN r : i \in DOMAIN q \/ i = Len(q) + 1
    BY <1>1, <1>2
  <2>4. QED
    BY <2>1, <2>2, <2>3, Zenon DEF Elements
<1>4. ASSUME NEW i \in DOMAIN r, NEW j \in DOMAIN r, i < j PROVE Older(r[i], r[j])
  <2>1. i \in 1 .. Len(q) /\ r[i] = q[i]
    BY <1>1, <1>4
  <2>2. CASE j = Len(q) + 1
    <3>1. q[i] \in Elements(q)
      BY <1>1, <2>1 DEF Elements
    <3>2. QED
      BY <1>1, <2>1, <2>2, <3>1
  <2>3. CASE j \in 1 .. Len(q)
    BY <1>1, <1>4, <2>1, <2>3 DEF InOrder
  <2>4. QED
    BY <1>1, <2>2, <2>3
<1>5. QED
  BY <1>1, <1>3, <1>4 DEF r, InOrder

\* The first of a sequence in order is older than the others of its goroutine.
LEMMA TailInOrder ==
  ASSUME NEW q \in Seq(Entries), q # <<>>, InOrder(q)
  PROVE  /\ Tail(q) \in Seq(Entries) /\ InOrder(Tail(q)) /\ Head(q) \in Entries
         /\ Elements(q) = Elements(Tail(q)) \union {Head(q)}
         /\ \A x \in Elements(Tail(q)) : Older(Head(q), x)
<1> DEFINE r == Tail(q)
           n == Len(q)
<1>1. /\ r \in Seq(Entries) /\ n \in Nat \ {0} /\ DOMAIN q = 1 .. n /\ DOMAIN r = 1 .. n - 1
      /\ \A i \in 1 .. n - 1 : r[i] = q[i + 1]
      /\ Head(q) = q[1] /\ q[1] \in Entries
  OBVIOUS
<1> HIDE DEF r, n
<1>2. ASSUME NEW i \in 1 .. n - 1, NEW j \in 1 .. n - 1, i < j PROVE Older(r[i], r[j])
  <2>1. i + 1 \in 1 .. n /\ j + 1 \in 1 .. n /\ i + 1 < j + 1
    BY <1>1, <1>2
  <2>2. QED
    BY <1>1, <2>1 DEF InOrder
<1>3. ASSUME NEW i \in 1 .. n - 1 PROVE r[i] \in Elements(q) /\ Older(q[1], r[i])
  <2>1. i + 1 \in 1 .. n /\ 1 \in 1 .. n /\ 1 < i + 1
    BY <1>1
  <2>2. QED
    BY <1>1, <2>1 DEF InOrder, Elements
<1>4. Elements(q) = Elements(r) \union {q[1]}
  <2>1. ASSUME NEW i \in 1 .. n, i # 1 PROVE q[i] \in Elements(r)
    <3>1. i - 1 \in 1 .. n - 1 /\ (i - 1) + 1 = i
      BY <1>1, <2>1
    <3>2. r[i - 1] = q[i]
      BY <1>1, <3>1
    <3>3. QED
      BY <1>1, <3>1, <3>2 DEF Elements
  <2>2. q[1] \in Elements(q)
    BY <1>1 DEF Elements
  <2>3. Elements(r) \subseteq Elements(q)
    BY <1>1, <1>3 DEF Elements
  <2>4. ASSUME NEW x \in Elements(q) PROVE x \in Elements(r) \union {q[1]}
    BY <1>1, <2>1 DEF Elements
  <2>5. QED
    BY <2>2, <2>3, <2>4
<1>5. \A x \in Elements(r) : Older(q[1], x)
  BY <1>1, <1>3 DEF Elements
<1>6. QED
  BY <1>1, <1>2, <1>4, <1>5 DEF r, InOrder

\* Two sequences in order, the entries of the first before those of the second.
LEMMA ConcatInOrder ==
  ASSUME NEW s \in Seq(Entries), NEW t \in Seq(Entries), InOrder(s), InOrder(t),
         \A x \in Elements(s), y \in Elements(t) : Older(x, y)
  PROVE  InOrder(s \o t)
<1> DEFINE r == s \o t
           m == Len(s)
           n == Len(t)
<1>1. /\ m \in Nat /\ n \in Nat /\ DOMAIN s = 1 .. m /\ DOMAIN t = 1 .. n /\ DOMAIN r = 1 .. m + n
      /\ \A i \in 1 .. m + n : r[i] = IF i <= m THEN s[i] ELSE t[i - m]
  OBVIOUS
<1> HIDE DEF r, m, n
<1>2. ASSUME NEW i \in 1 .. m + n, NEW j \in 1 .. m + n, i < j PROVE Older(r[i], r[j])
  <2>1. CASE j <= m
    BY <1>1, <1>2, <2>1 DEF InOrder
  <2>2. CASE i > m
    <3>1. i - m \in 1 .. n /\ j - m \in 1 .. n /\ i - m < j - m
      BY <1>1, <1>2, <2>2
    <3>2. r[i] = t[i - m] /\ r[j] = t[j - m]
      BY <1>1, <1>2, <2>2
    <3>3. QED
      BY <1>1, <3>1, <3>2 DEF InOrder
  <2>3. CASE i <= m /\ j > m
    <3>1. i \in 1 .. m /\ j - m \in 1 .. n /\ r[i] = s[i] /\ r[j] = t[j - m]
      BY <1>1, <1>2, <2>3
    <3>2. s[i] \in Elements(s) /\ t[j - m] \in Elements(t)
      BY <1>1, <3>1 DEF Elements
    <3>3. QED
      BY <3>1, <3>2
  <2>4. QED
    BY <1>1, <2>1, <2>2, <2>3
<1>3. QED
  BY <1>1, <1>2 DEF r, InOrder

\* What has come out of probeLog: what is in the channel and what requests were sent of it.
Sent(p) == Elements(probeChan[p])
             \union UNION {Elements(stream[s].live) : s \in {t \in Stream : stream[t].id = p}}

\* The fields of the jobs and of the requests, and the entries in them.
SendTypes ==
  /\ DOMAIN logged = Proxy /\ \A p \in Proxy : logged[p] \in Nat
  /\ DOMAIN probeChan = Proxy /\ \A p \in Proxy : probeChan[p] \in Seq(Entries)
  /\ DOMAIN job = Proxy
  /\ \A p \in Proxy : DOMAIN job[p] = Goroutine
  /\ \A p \in Proxy, g \in Goroutine : DOMAIN job[p][g] = {"step", "entry"}
  /\ known \subseteq Proxy
  /\ DOMAIN stream = Stream
  /\ \A s \in Stream : /\ DOMAIN stream[s] = {"at", "id", "active", "miss", "live"}
                       /\ stream[s].live \in Seq(Entries)
                       /\ stream[s].id \in Proxy \union {"none"}
                       /\ stream[s].at = "none" => stream[s].live = <<>> /\ stream[s].id = "none"
                       /\ stream[s].at # "none" => stream[s].id \in Proxy

\* No entry is sent that was not logged, and the one a goroutine is sending is its latest.
LatestInv ==
  \A p \in Proxy :
    /\ \A x \in Sent(p) : x[2] <= logged[p]
    /\ \A g \in Goroutine : job[p][g].step # "idle" =>
         LET e == job[p][g].entry IN
         /\ e \in Entries /\ e[1] = g /\ e[2] <= logged[p]
         /\ \A x \in Sent(p) : Older(x, e)

\* The entries of a goroutine are in order in the channel, in what a request was sent, and
\* from the one to the other.
LiveInv ==
  /\ \A p \in Proxy : InOrder(probeChan[p])
  /\ \A s \in Stream :
       /\ InOrder(stream[s].live)
       /\ stream[s].id \in Proxy =>
            \A x \in Elements(stream[s].live), y \in Elements(probeChan[stream[s].id]) : Older(x, y)

SendInv == SendTypes /\ LatestInv /\ LiveInv

\* What was sent are entries.
LEMMA SentEntries ==
  ASSUME SendTypes, NEW p \in Proxy, NEW x \in Sent(p)
  PROVE  x \in Entries
<1>1. \A q \in Seq(Entries) : Elements(q) \subseteq Entries
  BY DEF Elements
<1>2. QED
  BY <1>1 DEF Sent, SendTypes

\* probeLog: the entry is newer than all that were sent before, and stays so for its goroutine
\* until it is sent or given up.
LEMMA SendLog == ASSUME SendInv, NEW p \in Proxy, NEW g \in Goroutine, Log(p, g) PROVE SendInv'
<1> DEFINE e == <<g, logged[p] + 1>>
<1>1. SendTypes /\ LatestInv /\ LiveInv
  BY DEF SendInv
<1>2. /\ logged' = [logged EXCEPT ![p] = @ + 1]
      /\ job' = [job EXCEPT ![p] = [job[p] EXCEPT ![g] = [step |-> "send", entry |-> e]]]
      /\ UNCHANGED <<known, probeChan, stream>>
  BY DEF Log
<1>3. /\ DOMAIN logged' = Proxy /\ logged'[p] = logged[p] + 1 /\ logged[p] \in Nat
      /\ \A q \in Proxy \ {p} : logged'[q] = logged[q]
  BY <1>1, <1>2 DEF SendTypes
<1>4. /\ DOMAIN job' = Proxy /\ DOMAIN job'[p] = Goroutine
      /\ job'[p][g] = [step |-> "send", entry |-> e]
      /\ \A h \in Goroutine \ {g} : job'[p][h] = job[p][h]
      /\ \A q \in Proxy \ {p} : job'[q] = job[q]
  BY <1>1, <1>2 DEF SendTypes
<1>5. SendTypes'
  <2>1. \A q \in Proxy : DOMAIN job'[q] = Goroutine
    BY <1>1, <1>4 DEF SendTypes
  <2>2. \A q \in Proxy, h \in Goroutine : DOMAIN job'[q][h] = {"step", "entry"}
    <3>1. DOMAIN [step |-> "send", entry |-> e] = {"step", "entry"}
      OBVIOUS
    <3>2. ASSUME NEW q \in Proxy, NEW h \in Goroutine PROVE DOMAIN job'[q][h] = {"step", "entry"}
      <4>1. CASE q = p /\ h = g
        BY <1>4, <3>1, <4>1
      <4>2. CASE ~(q = p /\ h = g)
        BY <1>1, <1>4, <4>2 DEF SendTypes
      <4>3. QED
        BY <4>1, <4>2
    <3>3. QED
      BY <3>2
  <2>3. \A q \in Proxy : logged'[q] \in Nat
    BY <1>1, <1>3 DEF SendTypes
  <2>4. QED
    BY <1>1, <1>2, <1>3, <1>4, <2>1, <2>2, <2>3 DEF SendTypes
<1>6. \A q \in Proxy : Sent(q)' = Sent(q)
  BY <1>2 DEF Sent
<1>7. ASSUME NEW q \in Proxy, NEW x \in Sent(q) PROVE x \in Entries /\ x[2] <= logged[q]
  BY <1>1, <1>7, SentEntries DEF LatestInv
<1>8. LatestInv'
  <2>1. ASSUME NEW q \in Proxy PROVE /\ \A x \in Sent(q)' : x[2] <= logged'[q]
                                     /\ logged[q] <= logged'[q]
    <3>1. logged[q] \in Nat /\ logged'[q] \in Nat /\ logged[q] <= logged'[q]
      BY <1>1, <1>3 DEF SendTypes
    <3>2. ASSUME NEW x \in Sent(q) PROVE x[2] <= logged'[q]
      <4>1. x[2] \in Nat /\ x[2] <= logged[q]
        BY <1>7 DEF Entries
      <4>2. QED
        BY <3>1, <4>1
    <3>3. QED
      BY <1>6, <3>1, <3>2
  <2>2. ASSUME NEW q \in Proxy, NEW h \in Goroutine, job'[q][h].step # "idle"
        PROVE  LET f == job'[q][h].entry IN
               /\ f \in Entries /\ f[1] = h /\ f[2] <= logged'[q]
               /\ \A x \in Sent(q) : Older(x, f)
    <3>1. CASE q = p /\ h = g
      <4>1. job'[q][h].entry = e /\ e \in Entries /\ e[1] = h /\ e[2] = logged[p] + 1
        BY <1>3, <1>4, <3>1 DEF Entries
      <4>2. e[2] <= logged'[q]
        BY <1>3, <3>1, <4>1
      <4>3. ASSUME NEW x \in Sent(q) PROVE Older(x, e)
        <5>1. x[2] \in Nat /\ x[2] <= logged[p]
          BY <1>7, <3>1 DEF Entries
        <5>2. QED
          BY <1>3, <4>1, <5>1 DEF Older
      <4>4. QED
        BY <4>1, <4>2, <4>3
    <3>2. CASE ~(q = p /\ h = g)
      <4>1. job'[q][h] = job[q][h]
        BY <1>4, <3>2
      <4> DEFINE f == job[q][h].entry
      <4>2. f \in Entries /\ f[1] = h /\ f[2] <= logged[q] /\ \A x \in Sent(q) : Older(x, f)
        BY <1>1, <2>2, <4>1 DEF LatestInv
      <4>3. f[2] <= logged'[q]
        <5>1. f[2] \in Nat /\ logged[q] \in Nat /\ logged'[q] \in Nat
          BY <1>1, <1>5, <4>2 DEF Entries, SendTypes
        <5>2. QED
          BY <2>1, <4>2, <5>1
      <4>4. QED
        BY <4>1, <4>2, <4>3
    <3>3. QED
      BY <3>1, <3>2
  <2>3. QED
    BY <1>6, <2>1, <2>2 DEF LatestInv
<1>9. LiveInv'
  BY <1>1, <1>2 DEF LiveInv
<1>10. QED
  BY <1>5, <1>8, <1>9 DEF SendInv

JobBecomes(p, g, v) == job' = [job EXCEPT ![p] = [job[p] EXCEPT ![g] = v]]

\* A step of one goroutine leaves the jobs of the others alone.
LEMMA JobStep ==
  ASSUME SendTypes, NEW p \in Proxy, NEW g \in Goroutine, NEW v, DOMAIN v = {"step", "entry"},
         JobBecomes(p, g, v)
  PROVE  /\ DOMAIN job' = Proxy
         /\ \A q \in Proxy : DOMAIN job'[q] = Goroutine
         /\ \A q \in Proxy, h \in Goroutine : DOMAIN job'[q][h] = {"step", "entry"}
         /\ job'[p][g] = v
         /\ \A q \in Proxy, h \in Goroutine : ~(q = p /\ h = g) => job'[q][h] = job[q][h]
<1>1. /\ DOMAIN job' = Proxy /\ DOMAIN job'[p] = Goroutine /\ job'[p][g] = v
      /\ \A h \in Goroutine \ {g} : job'[p][h] = job[p][h]
      /\ \A q \in Proxy \ {p} : job'[q] = job[q]
  BY DEF SendTypes, JobBecomes
<1>2. \A q \in Proxy, h \in Goroutine : ~(q = p /\ h = g) => job'[q][h] = job[q][h]
  BY <1>1
<1>3. ASSUME NEW q \in Proxy, NEW h \in Goroutine PROVE DOMAIN job'[q][h] = {"step", "entry"}
  <2>1. CASE q = p /\ h = g
    BY <1>1, <2>1
  <2>2. CASE ~(q = p /\ h = g)
    BY <1>2, <2>2 DEF SendTypes
  <2>3. QED
    BY <2>1, <2>2
<1>4. \A q \in Proxy : DOMAIN job'[q] = Goroutine
  BY <1>1 DEF SendTypes
<1>5. QED
  BY <1>1, <1>2, <1>3, <1>4

\* A step that sends nothing keeps the entries that are being sent the latest.
LEMMA LatestStays ==
  ASSUME SendInv, logged' = logged, \A q \in Proxy : Sent(q)' \subseteq Sent(q),
         \A q \in Proxy, h \in Goroutine : job'[q][h].step # "idle" =>
           job[q][h].step # "idle" /\ job'[q][h].entry = job[q][h].entry
  PROVE  LatestInv'
<1>1. LatestInv
  BY DEF SendInv
<1>2. ASSUME NEW q \in Proxy, NEW x \in Sent(q)' PROVE x[2] <= logged'[q]
  BY <1>1 DEF LatestInv
<1>3. ASSUME NEW q \in Proxy, NEW h \in Goroutine, job'[q][h].step # "idle"
      PROVE  LET f == job'[q][h].entry IN
             /\ f \in Entries /\ f[1] = h /\ f[2] <= logged'[q]
             /\ \A x \in Sent(q)' : Older(x, f)
  <2>1. job[q][h].step # "idle" /\ job'[q][h].entry = job[q][h].entry
    BY <1>3
  <2> DEFINE f == job[q][h].entry
  <2>2. f \in Entries /\ f[1] = h /\ f[2] <= logged[q] /\ \A x \in Sent(q) : Older(x, f)
    BY <1>1, <2>1 DEF LatestInv
  <2>3. QED
    BY <2>1, <2>2
<1>4. QED
  BY <1>2, <1>3 DEF LatestInv

\* An entry that comes into the channel follows all of its goroutine.
LEMMA SendPut ==
  ASSUME SendInv, NEW p \in Proxy, NEW g \in Goroutine,
         job[p][g].step # "idle", Put(p, g), Done(p, g), UNCHANGED <<known, logged, stream>>
  PROVE  SendInv'
<1> DEFINE e == job[p][g].entry
           c == probeChan[p]
<1>1. SendTypes /\ LatestInv /\ LiveInv
  BY DEF SendInv
<1>2. e \in Entries /\ e[1] = g /\ e[2] <= logged[p] /\ \A x \in Sent(p) : Older(x, e)
  BY <1>1 DEF LatestInv
<1>3. c \in Seq(Entries) /\ InOrder(c) /\ \A x \in Elements(c) : Older(x, e)
  BY <1>1, <1>2 DEF SendTypes, LiveInv, Sent
<1>4. /\ Append(c, e) \in Seq(Entries) /\ InOrder(Append(c, e))
      /\ Elements(Append(c, e)) = Elements(c) \union {e}
  <2> HIDE DEF c, e
  <2>1. QED
    BY <1>2, <1>3, AppendInOrder
<1>5. /\ DOMAIN probeChan' = Proxy /\ probeChan'[p] = Append(c, e)
      /\ \A q \in Proxy \ {p} : probeChan'[q] = probeChan[q]
  BY <1>1 DEF SendTypes, Put
<1>6. /\ DOMAIN job' = Proxy
      /\ \A q \in Proxy : DOMAIN job'[q] = Goroutine
      /\ \A q \in Proxy, h \in Goroutine : DOMAIN job'[q][h] = {"step", "entry"}
      /\ job'[p][g] = Idle
      /\ \A q \in Proxy, h \in Goroutine : ~(q = p /\ h = g) => job'[q][h] = job[q][h]
  <2>1. DOMAIN Idle = {"step", "entry"} /\ JobBecomes(p, g, Idle)
    BY DEF Idle, Done, JobBecomes
  <2>2. QED
    BY <1>1, <2>1, JobStep
<1> HIDE DEF c, e
<1>7. SendTypes'
  <2>1. \A q \in Proxy : probeChan'[q] \in Seq(Entries)
    BY <1>1, <1>4, <1>5 DEF SendTypes
  <2>2. QED
    BY <1>1, <1>5, <1>6, <2>1 DEF SendTypes
<1>8. Sent(p)' = Sent(p) \union {e} /\ \A q \in Proxy \ {p} : Sent(q)' = Sent(q)
  <2>1. Elements(probeChan'[p]) = Elements(probeChan[p]) \union {e}
    BY <1>4, <1>5 DEF c
  <2>2. Sent(p)' = Sent(p) \union {e}
    <3> DEFINE w == UNION {Elements(stream[s].live) : s \in {t \in Stream : stream[t].id = p}}
    <3>1. Sent(p) = Elements(probeChan[p]) \union w /\ Sent(p)' = Elements(probeChan'[p]) \union w
      BY DEF Sent
    <3> HIDE DEF w
    <3>2. QED
      BY <2>1, <3>1
  <2>3. \A q \in Proxy \ {p} : Sent(q)' = Sent(q)
    BY <1>5 DEF Sent
  <2>4. QED
    BY <2>2, <2>3
<1>9. LatestInv'
  <2>1. ASSUME NEW q \in Proxy, NEW x \in Sent(q)' PROVE x[2] <= logged'[q]
    BY <1>1, <1>2, <1>8 DEF LatestInv
  <2>2. ASSUME NEW q \in Proxy, NEW h \in Goroutine, job'[q][h].step # "idle"
        PROVE  LET f == job'[q][h].entry IN
               /\ f \in Entries /\ f[1] = h /\ f[2] <= logged'[q]
               /\ \A x \in Sent(q)' : Older(x, f)
    <3>1. ~(q = p /\ h = g)
      BY <1>6, <2>2 DEF Idle
    <3>2. job'[q][h] = job[q][h]
      BY <1>6, <3>1
    <3> DEFINE f == job[q][h].entry
    <3>3. f \in Entries /\ f[1] = h /\ f[2] <= logged[q] /\ \A x \in Sent(q) : Older(x, f)
      BY <1>1, <2>2, <3>2 DEF LatestInv
    <3>4. q = p => Older(e, f)
      BY <1>2, <3>1, <3>3 DEF Older
    <3>5. QED
      BY <1>8, <3>2, <3>3, <3>4
  <2>3. QED
    BY <2>1, <2>2 DEF LatestInv
<1>10. LiveInv'
  <2>1. \A q \in Proxy : InOrder(probeChan'[q])
    BY <1>1, <1>4, <1>5 DEF LiveInv
  <2>2. ASSUME NEW s \in Stream, stream[s].id \in Proxy,
               NEW x \in Elements(stream[s].live), NEW y \in Elements(probeChan'[stream[s].id])
        PROVE  Older(x, y)
    <3>1. CASE y \in Elements(probeChan[stream[s].id])
      BY <1>1, <2>2, <3>1 DEF LiveInv
    <3>2. CASE stream[s].id = p /\ y = e
      <4>1. x \in Sent(p)
        BY <2>2, <3>2 DEF Sent
      <4>2. QED
        BY <1>2, <3>2, <4>1
    <3>3. QED
      BY <1>4, <1>5, <2>2, <3>1, <3>2 DEF c
  <2>3. QED
    BY <1>1, <2>1, <2>2 DEF LiveInv
<1>11. QED
  BY <1>7, <1>9, <1>10 DEF SendInv

\* The steps of probeLog after the ring.
LEMMA SendChan ==
  ASSUME SendInv, NEW p \in Proxy, NEW g \in Goroutine,
         LogSend(p, g) \/ LogDiscard(p, g) \/ LogAgain(p, g)
  PROVE  SendInv'
<1> DEFINE c == probeChan[p]
<1>1. /\ SendTypes /\ LatestInv /\ LiveInv
      /\ UNCHANGED <<known, logged, stream>> /\ job[p][g].step # "idle"
  BY DEF SendInv, LogSend, LogDiscard, LogAgain
<1>2. CASE Put(p, g) /\ Done(p, g)
  BY <1>1, <1>2, SendPut
<1>3. CASE /\ \/ probeChan' = probeChan \/ probeChan' = [probeChan EXCEPT ![p] = c]
              \/ probeChan' = [probeChan EXCEPT ![p] = Tail(c)] /\ c # <<>>
           /\ Done(p, g) \/ \E t \in {"discard", "again"} : Step(p, g, t)
  <2>1. PICK v : /\ DOMAIN v = {"step", "entry"}
                 /\ v = Idle \/ v.entry = job[p][g].entry
                 /\ JobBecomes(p, g, v)
    <3>1. CASE Done(p, g)
      <4>1. DOMAIN Idle = {"step", "entry"} /\ JobBecomes(p, g, Idle)
        BY <3>1 DEF Idle, Done, JobBecomes
      <4>2. QED
        BY <4>1
    <3>2. ASSUME NEW t \in {"discard", "again"}, Step(p, g, t)
          PROVE  \E v : /\ DOMAIN v = {"step", "entry"} /\ v.entry = job[p][g].entry
                        /\ JobBecomes(p, g, v)
      <4> DEFINE v == [job[p][g] EXCEPT !.step = t]
      <4>1. DOMAIN v = {"step", "entry"} /\ v.entry = job[p][g].entry
        BY <1>1 DEF SendTypes
      <4>2. JobBecomes(p, g, v)
        BY <3>2 DEF Step, JobBecomes
      <4>3. QED
        BY <4>1, <4>2
    <3>3. QED
      BY <1>3, <3>1, <3>2
  <2>2. /\ DOMAIN job' = Proxy
        /\ \A q \in Proxy : DOMAIN job'[q] = Goroutine
        /\ \A q \in Proxy, h \in Goroutine : DOMAIN job'[q][h] = {"step", "entry"}
        /\ job'[p][g] = v
        /\ \A q \in Proxy, h \in Goroutine : ~(q = p /\ h = g) => job'[q][h] = job[q][h]
    BY <1>1, <2>1, JobStep
  <2>3. ASSUME NEW q \in Proxy, NEW h \in Goroutine, job'[q][h].step # "idle"
        PROVE  job[q][h].step # "idle" /\ job'[q][h].entry = job[q][h].entry
    <3>1. CASE q = p /\ h = g
      <4>1. v # Idle
        BY <2>2, <2>3, <3>1 DEF Idle
      <4>2. QED
        BY <1>1, <2>1, <2>2, <3>1, <4>1
    <3>2. CASE ~(q = p /\ h = g)
      BY <2>2, <2>3, <3>2
    <3>3. QED
      BY <3>1, <3>2
  <2>4. /\ DOMAIN probeChan' = Proxy
        /\ \A q \in Proxy : /\ probeChan'[q] \in Seq(Entries) /\ InOrder(probeChan'[q])
                            /\ Elements(probeChan'[q]) \subseteq Elements(probeChan[q])
    <3>1. CASE probeChan' = probeChan \/ probeChan' = [probeChan EXCEPT ![p] = c]
      BY <1>1, <3>1 DEF SendTypes, LiveInv
    <3>2. CASE probeChan' = [probeChan EXCEPT ![p] = Tail(c)] /\ c # <<>>
      <4>1. c \in Seq(Entries) /\ InOrder(c)
        BY <1>1 DEF SendTypes, LiveInv
      <4>2. /\ DOMAIN probeChan' = Proxy /\ probeChan'[p] = Tail(c)
            /\ \A q \in Proxy \ {p} : probeChan'[q] = probeChan[q]
        BY <1>1, <3>2 DEF SendTypes
      <4>3. /\ Tail(c) \in Seq(Entries) /\ InOrder(Tail(c))
            /\ Elements(Tail(c)) \subseteq Elements(c)
        <5> HIDE DEF c
        <5>1. QED
          BY <3>2, <4>1, TailInOrder
      <4>4. QED
        BY <1>1, <4>2, <4>3 DEF SendTypes, LiveInv
    <3>3. QED
      BY <1>3, <3>1, <3>2
  <2>5. SendTypes'
    BY <1>1, <2>2, <2>4 DEF SendTypes
  <2>6. \A q \in Proxy : Sent(q)' \subseteq Sent(q)
    BY <1>1, <2>4 DEF Sent
  <2>7. LiveInv'
    BY <1>1, <2>4 DEF LiveInv
  <2>8. QED
    BY <1>1, <2>3, <2>5, <2>6, <2>7, LatestStays DEF SendInv
<1>4. QED
  <2>1. CASE LogSend(p, g)
    BY <1>2, <1>3, <2>1 DEF LogSend
  <2>2. CASE LogDiscard(p, g)
    <3>1. \/ probeChan' = [probeChan EXCEPT ![p] = c]
          \/ (probeChan' = [probeChan EXCEPT ![p] = Tail(c)] /\ c # <<>>)
      <4>1. CASE c = <<>>
        BY <2>2, <4>1 DEF LogDiscard
      <4>2. CASE c # <<>>
        BY <2>2, <4>2 DEF LogDiscard
      <4>3. QED
        BY <4>1, <4>2
    <3>2. QED
      BY <1>3, <2>2, <3>1 DEF LogDiscard
  <2>3. CASE LogAgain(p, g)
    BY <1>2, <1>3, <2>3 DEF LogAgain
  <2>4. QED
    BY <2>1, <2>2, <2>3

\* A step of a request other than WriteLive changes neither what it was sent nor, once it is
\* under way, of which proxy.
LEMMA RequestKeeps ==
  ASSUME SendTypes, NEW s \in Stream, ~WriteLive(s),
         (\E p \in Proxy : Request(s, p)) \/ Handler(s) \/ StreamEnds(s)
  PROVE  LET r == stream[s]
             q == stream'[s]
         IN /\ probeChan' = probeChan /\ q.live = r.live /\ q.at # "none" /\ q.id \in Proxy
            /\ DOMAIN q = {"at", "id", "active", "miss", "live"}
            /\ q.id = r.id \/ (r.at = "none" /\ r.live = <<>>)
<1> DEFINE r == stream[s]
           q == stream'[s]
<1>1. /\ DOMAIN r = {"at", "id", "active", "miss", "live"} /\ r.live \in Seq(Entries)
      /\ r.at = "none" => r.live = <<>> /\ r.id = "none"
      /\ r.at # "none" => r.id \in Proxy
  BY DEF SendTypes
<1>2. ASSUME NEW p \in Proxy, Request(s, p)
      PROVE  /\ probeChan' = probeChan /\ r.at = "none"
             /\ q = [[r EXCEPT !.at = "load"] EXCEPT !.id = p]
  BY <1>2 DEF Request, SendTypes
<1>3. CASE LoadActive(s) \/ Lookup(s)
  <2>1. /\ probeChan' = probeChan /\ r.at # "none"
        /\ \/ q = [[r EXCEPT !.active = Active(r.id)] EXCEPT !.at = "lookup"]
           \/ q = [[r EXCEPT !.at = IF stage[r.id] = "active" THEN "replay" ELSE "retained"]
                     EXCEPT !.miss = stage[r.id]]
    BY <1>3 DEF LoadActive, Lookup, SendTypes
  <2>2. QED
    BY <1>1, <2>1
<1>4. CASE LookupRetained(s) \/ WriteBuffered(s) \/ StreamEnds(s)
  <2>1. /\ probeChan' = probeChan /\ r.at # "none"
        /\ \E a \in {"replay", "notFound", "live", "ended", "closed"} : q = [r EXCEPT !.at = a]
    <3>1. CASE LookupRetained(s)
      BY <3>1 DEF LookupRetained, Goes, SendTypes
    <3>2. CASE WriteBuffered(s)
      <4>1. q = [r EXCEPT !.at = IF r.active THEN "live" ELSE "ended"]
            /\ probeChan' = probeChan /\ r.at # "none"
        BY <3>2 DEF WriteBuffered, Goes, SendTypes
      <4>2. CASE r.active
        BY <4>1, <4>2
      <4>3. CASE ~r.active
        BY <4>1, <4>3
      <4>4. QED
        BY <4>2, <4>3
    <3>3. CASE StreamEnds(s)
      BY <3>3 DEF StreamEnds, Goes, SendTypes
    <3>4. QED
      BY <1>4, <3>1, <3>2, <3>3
  <2>2. QED
    BY <1>1, <2>1
<1>5. CASE \E p \in Proxy : Request(s, p)
  BY <1>1, <1>2, <1>5
<1>6. QED
  BY <1>3, <1>4, <1>5 DEF Handler

\* The steps of a request: what it is sent comes from the head of the channel, so that it is
\* older than what is left there, and newer than what it was sent before.
LEMMA SendRequest ==
  ASSUME SendInv, NEW s \in Stream,
         (\E p \in Proxy : Request(s, p)) \/ Handler(s) \/ StreamEnds(s)
  PROVE  SendInv'
<1> DEFINE r == stream[s]
           q == stream'[s]
<1>1. /\ SendTypes /\ LatestInv /\ LiveInv
      /\ UNCHANGED <<known, logged, job>>
  BY DEF SendInv, Request, Handler, LoadActive, Lookup, LookupRetained, WriteBuffered, WriteLive,
         StreamEnds
<1>2. DOMAIN stream' = Stream /\ \A t \in Stream \ {s} : stream'[t] = stream[t]
  BY <1>1 DEF SendTypes, Request, Handler, LoadActive, Lookup, LookupRetained, WriteBuffered,
              WriteLive, StreamEnds, Goes
<1>3. /\ DOMAIN r = {"at", "id", "active", "miss", "live"} /\ r.live \in Seq(Entries)
      /\ r.at = "none" => r.live = <<>> /\ r.id = "none"
      /\ r.at # "none" => r.id \in Proxy
  BY <1>1 DEF SendTypes
<1>4. CASE WriteLive(s)
  <2> DEFINE p == r.id
             c == probeChan[r.id]
  <2>1. /\ r.at = "live" /\ c # <<>> /\ q = [r EXCEPT !.live = Append(r.live, Head(c))]
        /\ probeChan' = [probeChan EXCEPT ![r.id] = Tail(c)]
    BY <1>1, <1>4 DEF WriteLive, SendTypes
  <2>2. /\ r.id \in Proxy /\ q.at = "live" /\ q.id = r.id /\ q.live = Append(r.live, Head(c))
        /\ DOMAIN q = {"at", "id", "active", "miss", "live"}
    BY <1>3, <2>1
  <2>3. c \in Seq(Entries) /\ InOrder(c) /\ InOrder(r.live)
        /\ \A x \in Elements(r.live), y \in Elements(c) : Older(x, y)
    BY <1>1, <2>2 DEF SendTypes, LiveInv
  <2>4. /\ Tail(c) \in Seq(Entries) /\ InOrder(Tail(c)) /\ Head(c) \in Entries
        /\ Elements(c) = Elements(Tail(c)) \union {Head(c)}
        /\ \A x \in Elements(Tail(c)) : Older(Head(c), x)
    <3> HIDE DEF c
    <3>1. QED
      BY <2>1, <2>3, TailInOrder
  <2>5. /\ q.live \in Seq(Entries) /\ InOrder(q.live)
        /\ Elements(q.live) = Elements(r.live) \union {Head(c)}
    <3> DEFINE l == r.live
               e == Head(c)
    <3>1. l \in Seq(Entries) /\ e \in Entries /\ InOrder(l) /\ \A x \in Elements(l) : Older(x, e)
      BY <1>3, <2>3, <2>4
    <3> HIDE DEF l, e
    <3>2. /\ Append(l, e) \in Seq(Entries) /\ InOrder(Append(l, e))
          /\ Elements(Append(l, e)) = Elements(l) \union {e}
      BY <3>1, AppendInOrder
    <3>3. QED
      BY <2>2, <3>2 DEF l, e
  <2>6. /\ DOMAIN probeChan' = Proxy /\ probeChan'[r.id] = Tail(c)
        /\ \A o \in Proxy \ {r.id} : probeChan'[o] = probeChan[o]
    BY <1>1, <2>1, <2>2 DEF SendTypes
  <2>7. \A o \in Proxy : /\ probeChan'[o] \in Seq(Entries) /\ InOrder(probeChan'[o])
                         /\ Elements(probeChan'[o]) \subseteq Elements(probeChan[o])
    BY <1>1, <2>4, <2>6 DEF SendTypes, LiveInv
  <2>8. SendTypes'
    BY <1>1, <1>2, <2>2, <2>5, <2>6, <2>7 DEF SendTypes
  <2>9. ASSUME NEW o \in Proxy, NEW x \in Sent(o)' PROVE x \in Sent(o)
    <3>1. CASE x \in Elements(probeChan'[o])
      BY <2>7, <3>1 DEF Sent
    <3>2. ASSUME NEW t \in Stream, stream'[t].id = o, x \in Elements(stream'[t].live)
          PROVE  x \in Sent(o)
      <4>1. CASE t = s
        <5>1. o = r.id /\ (x \in Elements(r.live) \/ x \in Elements(c))
          BY <2>2, <2>4, <2>5, <3>2, <4>1
        <5>2. QED
          BY <5>1 DEF Sent
      <4>2. CASE t # s
        <5>1. stream[t].id = o /\ x \in Elements(stream[t].live)
          BY <1>2, <3>2, <4>2
        <5>2. QED
          BY <5>1 DEF Sent
      <4>3. QED
        BY <4>1, <4>2
    <3>3. QED
      BY <2>9, <3>1, <3>2 DEF Sent
  <2>10. LatestInv'
    BY <1>1, <2>9, LatestStays
  <2>11. LiveInv'
    <3>1. ASSUME NEW t \in Stream, t # s
          PROVE  /\ InOrder(stream'[t].live)
                 /\ stream'[t].id \in Proxy =>
                      \A x \in Elements(stream'[t].live), y \in Elements(probeChan'[stream'[t].id]) :
                        Older(x, y)
      BY <1>1, <1>2, <2>7, <3>1 DEF LiveInv
    <3>2. \A x \in Elements(q.live), y \in Elements(probeChan'[q.id]) : Older(x, y)
      BY <2>2, <2>3, <2>4, <2>5, <2>6
    <3>3. QED
      BY <2>5, <2>7, <3>1, <3>2 DEF LiveInv
  <2>12. QED
    BY <2>8, <2>10, <2>11 DEF SendInv
<1>5. CASE ~WriteLive(s)
  <2>1. /\ probeChan' = probeChan /\ q.live = r.live /\ q.at # "none" /\ q.id \in Proxy
        /\ DOMAIN q = {"at", "id", "active", "miss", "live"}
        /\ q.id = r.id \/ r.live = <<>>
    BY <1>1, <1>5, RequestKeeps
  <2>2. SendTypes'
    <3>1. ASSUME NEW t \in Stream
          PROVE  /\ DOMAIN stream'[t] = {"at", "id", "active", "miss", "live"}
                 /\ stream'[t].live \in Seq(Entries)
                 /\ stream'[t].id \in Proxy \union {"none"}
                 /\ stream'[t].at = "none" => stream'[t].live = <<>> /\ stream'[t].id = "none"
                 /\ stream'[t].at # "none" => stream'[t].id \in Proxy
      <4>1. CASE t = s
        BY <1>1, <2>1, <4>1 DEF SendTypes
      <4>2. CASE t # s
        <5>1. stream'[t] = stream[t]
          BY <1>2, <4>2
        <5>2. QED
          BY <1>1, <5>1 DEF SendTypes
      <4>3. QED
        BY <4>1, <4>2
    <3>2. QED
      BY <1>1, <1>2, <1>3, <2>1, <3>1 DEF SendTypes
  <2>3. Elements(<<>>) = {}
    BY DEF Elements
  <2>4. \A o \in Proxy : Sent(o)' \subseteq Sent(o)
    <3>1. ASSUME NEW o \in Proxy, NEW t \in Stream, stream'[t].id = o,
                 NEW x \in Elements(stream'[t].live)
          PROVE  stream[t].id = o /\ x \in Elements(stream[t].live)
      BY <1>2, <2>1, <2>3, <3>1
    <3>2. QED
      BY <2>1, <3>1 DEF Sent
  <2>5. LatestInv'
    BY <1>1, <2>4, LatestStays
  <2>6. LiveInv'
    BY <1>1, <1>2, <2>1, <2>3 DEF LiveInv
  <2>7. QED
    BY <2>2, <2>5, <2>6 DEF SendInv
<1>6. QED
  BY <1>4, <1>5

\* The whole of what is proved of the order.
LEMMA SendStep == SendInv /\ [ProbeNext]_probeVars => SendInv'
<1> SUFFICES ASSUME SendInv, [ProbeNext]_probeVars PROVE SendInv'
  OBVIOUS
<1>1. ASSUME UNCHANGED <<logged, probeChan, job, stream>>, known' \subseteq Proxy PROVE SendInv'
  <2>1. SendTypes'
    BY <1>1 DEF SendInv, SendTypes
  <2>2. LatestInv'
    BY <1>1, LatestStays DEF Sent
  <2>3. LiveInv'
    BY <1>1 DEF SendInv, LiveInv
  <2>4. QED
    BY <2>1, <2>2, <2>3 DEF SendInv
<1>2. ASSUME NEW p \in Proxy, RegisterProxy(p) \/ UnregisterDelete(p) \/ UnregisterRetain(p)
      PROVE  SendInv'
  BY <1>1, <1>2 DEF SendInv, SendTypes, RegisterProxy, UnregisterDelete, UnregisterRetain
<1>3. CASE UNCHANGED probeVars
  BY <1>1, <1>3 DEF probeVars, SendInv, SendTypes
<1>4. QED
  BY <1>2, <1>3, SendLog, SendChan, SendRequest DEF ProbeNext

\* Nothing was logged, sent or asked for.
LEMMA SendInit == ProbeInit => SendInv
<1> SUFFICES ASSUME ProbeInit PROVE SendInv
  OBVIOUS
<1>1. /\ NoStream.at = "none" /\ NoStream.id = "none" /\ NoStream.live = <<>>
      /\ DOMAIN NoStream = {"at", "id", "active", "miss", "live"}
      /\ Idle.step = "idle" /\ DOMAIN Idle = {"step", "entry"}
  BY DEF NoStream, Idle
<1>2. /\ DOMAIN job = Proxy /\ \A p \in Proxy : DOMAIN job[p] = Goroutine
      /\ \A p \in Proxy, g \in Goroutine : job[p][g] = Idle
      /\ DOMAIN stream = Stream /\ \A s \in Stream : stream[s] = NoStream
      /\ DOMAIN probeChan = Proxy /\ \A p \in Proxy : probeChan[p] = <<>>
      /\ DOMAIN logged = Proxy /\ \A p \in Proxy : logged[p] = 0
      /\ known = {}
  BY DEF ProbeInit
<1>3. <<>> \in Seq(Entries) /\ Elements(<<>>) = {} /\ InOrder(<<>>)
  BY DEF Elements, InOrder
<1>4. SendTypes
  <2>1. ASSUME NEW s \in Stream
        PROVE  /\ DOMAIN stream[s] = {"at", "id", "active", "miss", "live"}
               /\ stream[s].live = <<>> /\ stream[s].id = "none" /\ stream[s].at = "none"
    <3>1. stream[s] = NoStream
      BY <1>2
    <3>2. QED
      BY <1>1, <3>1
  <2>2. \A p \in Proxy, g \in Goroutine : DOMAIN job[p][g] = {"step", "entry"}
    BY <1>1, <1>2
  <2>3. \A p \in Proxy : logged[p] \in Nat
    BY <1>2
  <2>4. QED
    BY <1>2, <1>3, <2>1, <2>2, <2>3 DEF SendTypes
<1>5. \A p \in Proxy : Sent(p) = {}
  BY <1>1, <1>2, <1>3 DEF Sent
<1>6. QED
  BY <1>1, <1>2, <1>3, <1>4, <1>5, ProbeAssumption DEF SendInv, LatestInv, LiveInv

\* The invariant gives the order across what was sent and what the channel holds.
LEMMA SendOrders == SendInv => LiveInOrder
<1> SUFFICES ASSUME SendInv, NEW s \in Stream
             PROVE  LET sent == stream[s].live
                                  \o (IF stream[s].id \in Proxy THEN probeChan[stream[s].id] ELSE <<>>)
                    IN InOrder(sent)
  BY DEF LiveInOrder, InOrder, Older
<1> DEFINE l == stream[s].live
           c == IF stream[s].id \in Proxy THEN probeChan[stream[s].id] ELSE <<>>
<1>1. <<>> \in Seq(Entries) /\ Elements(<<>>) = {} /\ InOrder(<<>>)
  BY DEF Elements, InOrder
<1>2. /\ l \in Seq(Entries) /\ c \in Seq(Entries) /\ InOrder(l) /\ InOrder(c)
      /\ \A x \in Elements(l), y \in Elements(c) : Older(x, y)
  BY <1>1 DEF SendInv, SendTypes, LiveInv
<1> HIDE DEF l, c
<1>3. InOrder(l \o c)
  BY <1>2, ConcatInOrder
<1>4. QED
  BY <1>3 DEF l, c

-----------------------------------------------------------------------------
(* The probe logs: how many entries the channel holds.                     *)

Doing(p, step) == {g \in Goroutine : job[p][g].step = step}
Count(p, step) == Cardinality(Doing(p, step))

\* Nobody has read the channel of the proxy.
Unread(p) == \A s \in Stream : stream[s].id = p => stream[s].live = <<>>

\* The entries on their way are counted with those in the channel: together they are no more
\* than were logged, and as many as the channel can hold or were logged.  A goroutine is about
\* to discard only if the channel would be full with what others have made room for.
Balanced(p) ==
  LET c == Len(probeChan[p])
      s == Count(p, "send")
      d == Count(p, "discard")
      a == Count(p, "again")
  IN /\ c <= BufferSize
     /\ c + s + d + a <= logged[p]
     /\ c + s + d + a >= BufferSize \/ c + s + d + a = logged[p]
     /\ d > 0 => c + a >= BufferSize

CountInv == SendInv /\ \A p \in Proxy : Unread(p) => Balanced(p)

\* The goroutines at a step are finitely many.
LEMMA CountNat == ASSUME NEW p \in Proxy, NEW a PROVE IsFiniteSet(Doing(p, a)) /\ Count(p, a) \in Nat
<1>1. IsFiniteSet(Doing(p, a))
  BY ProbeAssumption, FS_Subset DEF Doing
<1>2. QED
  BY <1>1, FS_CardinalityType DEF Count

\* One goroutine that leaves a step is one less there.
LEMMA CountLeaves ==
  ASSUME SendTypes, NEW p \in Proxy, NEW g \in Goroutine, NEW v, JobBecomes(p, g, v),
         DOMAIN v = {"step", "entry"}, NEW a, job[p][g].step = a, v.step # a
  PROVE  Count(p, a)' = Count(p, a) - 1 /\ Count(p, a) > 0
<1>1. /\ job'[p][g] = v /\ \A h \in Goroutine : h # g => job'[p][h] = job[p][h]
  BY JobStep
<1>2. Doing(p, a)' = Doing(p, a) \ {g} /\ g \in Doing(p, a)
  BY <1>1 DEF Doing
<1>3. IsFiniteSet(Doing(p, a)) /\ Count(p, a) \in Nat
  BY CountNat
<1>4. Cardinality(Doing(p, a) \ {g}) = Cardinality(Doing(p, a)) - 1
  BY <1>2, <1>3, FS_RemoveElement
<1>5. Cardinality(Doing(p, a) \ {g}) \in Nat
  BY <1>3, FS_RemoveElement, FS_CardinalityType
<1>6. QED
  BY <1>2, <1>3, <1>4, <1>5 DEF Count

\* One that comes to a step is one more there.
LEMMA CountEnters ==
  ASSUME SendTypes, NEW p \in Proxy, NEW g \in Goroutine, NEW v, JobBecomes(p, g, v),
         DOMAIN v = {"step", "entry"}, NEW a, job[p][g].step # a, v.step = a
  PROVE  Count(p, a)' = Count(p, a) + 1
<1>1. /\ job'[p][g] = v /\ \A h \in Goroutine : h # g => job'[p][h] = job[p][h]
  BY JobStep
<1>2. Doing(p, a)' = Doing(p, a) \union {g} /\ g \notin Doing(p, a)
  BY <1>1 DEF Doing
<1>3. IsFiniteSet(Doing(p, a))
  BY CountNat
<1>4. QED
  BY <1>2, <1>3, FS_AddElement DEF Count

\* A step that it neither leaves nor comes to has as many as before.
LEMMA CountStays ==
  ASSUME SendTypes, NEW p \in Proxy, NEW g \in Goroutine, NEW v, JobBecomes(p, g, v),
         DOMAIN v = {"step", "entry"}, NEW a, job[p][g].step # a, v.step # a
  PROVE  Count(p, a)' = Count(p, a)
<1>1. /\ job'[p][g] = v /\ \A h \in Goroutine : h # g => job'[p][h] = job[p][h]
  BY JobStep
<1>2. Doing(p, a)' = Doing(p, a)
  BY <1>1 DEF Doing
<1>3. QED
  BY <1>2 DEF Count

\* The steps of probeLog keep the balance: an entry in the channel is exchanged for one on its
\* way, and one is given up only when the channel is full.
LEMMA CountLog ==
  ASSUME CountInv, NEW p \in Proxy, NEW g \in Goroutine, Unread(p)',
         Log(p, g) \/ LogSend(p, g) \/ LogDiscard(p, g) \/ LogAgain(p, g)
  PROVE  Balanced(p)'
<1> DEFINE c == Len(probeChan[p])
           s == Count(p, "send")
           d == Count(p, "discard")
           a == Count(p, "again")
           cc == Len(probeChan'[p])
           ss == Count(p, "send")'
           dd == Count(p, "discard")'
           aa == Count(p, "again")'
           n == logged[p]
           nn == logged'[p]
           B == BufferSize
<1>1. SendTypes /\ stream' = stream
  BY DEF CountInv, SendInv, Log, LogSend, LogDiscard, LogAgain
<1>2. Balanced(p)
  BY <1>1 DEF CountInv, Unread
<1>3. /\ c \in Nat /\ s \in Nat /\ d \in Nat /\ a \in Nat /\ n \in Nat /\ B \in Nat /\ B > 0
  BY <1>1, CountNat, ProbeAssumption DEF SendTypes
<1>0. probeChan[p] \in Seq(Entries)
  BY <1>1 DEF SendTypes
<1>4. /\ c <= B /\ c + s + d + a <= n
      /\ d > 0 => c + a >= B
      /\ c + s + d + a >= B \/ c + s + d + a = n
  BY <1>2 DEF Balanced
<1>5. DOMAIN Idle = {"step", "entry"} /\ Idle.step = "idle"
  BY DEF Idle
<1>6. SUFFICES /\ cc <= B
               /\ cc + ss + dd + aa <= nn
               /\ cc + ss + dd + aa >= B \/ cc + ss + dd + aa = nn
               /\ dd > 0 => cc + aa >= B
  BY DEF Balanced
<1>7. CASE Log(p, g)
  <2> DEFINE v == [step |-> "send", entry |-> <<g, logged[p] + 1>>]
  <2>1. /\ JobBecomes(p, g, v) /\ job[p][g] = Idle /\ nn = n + 1 /\ cc = c
        /\ DOMAIN v = {"step", "entry"} /\ v.step = "send"
    BY <1>1, <1>7 DEF Log, JobBecomes, SendTypes
  <2>2. job[p][g].step = "idle"
    BY <1>5, <2>1
  <2> HIDE DEF v
  <2>3. ss = s + 1 /\ dd = d /\ aa = a
    BY <1>1, <2>1, <2>2, CountEnters, CountStays
  <2> HIDE DEF c, s, d, a, cc, ss, dd, aa, n, nn, B
  <2>4. nn = n + 1 /\ cc = c
    BY <2>1
  <2>5. QED
    BY <1>3, <1>4, <2>3, <2>4
<1>8. CASE LogSend(p, g) /\ ChanRoom(p)
  <2>1. /\ JobBecomes(p, g, Idle) /\ job[p][g].step = "send" /\ nn = n /\ c < B
        /\ probeChan'[p] = Append(probeChan[p], job[p][g].entry)
    BY <1>1, <1>8 DEF LogSend, Put, Done, ChanRoom, JobBecomes, SendTypes
  <2>2. cc = c + 1 /\ nn = n /\ c < B
    BY <1>0, <1>3, <2>1
  <2>3. ss = s - 1 /\ dd = d /\ aa = a
    BY <1>1, <1>5, <2>1, CountLeaves, CountStays
  <2> HIDE DEF c, s, d, a, cc, ss, dd, aa, n, nn, B
  <2>4. QED
    BY <1>3, <1>4, <2>2, <2>3
<1>9. CASE LogSend(p, g) /\ ~ChanRoom(p)
  <2> DEFINE v == [job[p][g] EXCEPT !.step = "discard"]
  <2>1. /\ JobBecomes(p, g, v) /\ job[p][g].step = "send" /\ nn = n /\ cc = c /\ ~(c < B)
        /\ DOMAIN v = {"step", "entry"} /\ v.step = "discard"
    BY <1>1, <1>9 DEF LogSend, Step, ChanRoom, JobBecomes, SendTypes
  <2> HIDE DEF v
  <2>2. ss = s - 1 /\ dd = d + 1 /\ aa = a
    BY <1>1, <2>1, CountLeaves, CountEnters, CountStays
  <2> HIDE DEF c, s, d, a, cc, ss, dd, aa, n, nn, B
  <2>3. nn = n /\ cc = c /\ ~(c < B)
    BY <2>1
  <2>4. QED
    BY <1>3, <1>4, <2>2, <2>3
<1>10. CASE LogDiscard(p, g)
  <2> DEFINE v == [job[p][g] EXCEPT !.step = "again"]
  <2>1. /\ JobBecomes(p, g, v) /\ job[p][g].step = "discard" /\ nn = n
        /\ DOMAIN v = {"step", "entry"} /\ v.step = "again"
        /\ probeChan'[p] = IF probeChan[p] = <<>> THEN probeChan[p] ELSE Tail(probeChan[p])
    BY <1>1, <1>10 DEF LogDiscard, Step, JobBecomes, SendTypes
  <2>2. nn = n /\ ((c = 0 /\ cc = 0) \/ (c > 0 /\ cc = c - 1))
    BY <1>0, <1>3, <2>1
  <2> HIDE DEF v
  <2>3. ss = s /\ dd = d - 1 /\ d > 0 /\ aa = a + 1
    BY <1>1, <2>1, CountLeaves, CountEnters, CountStays
  <2> HIDE DEF c, s, d, a, cc, ss, dd, aa, n, nn, B
  <2>4. QED
    BY <1>3, <1>4, <2>2, <2>3
<1>11. CASE LogAgain(p, g)
  <2>1. /\ JobBecomes(p, g, Idle) /\ job[p][g].step = "again" /\ nn = n
        /\ IF c < B THEN probeChan'[p] = Append(probeChan[p], job[p][g].entry)
           ELSE probeChan'[p] = probeChan[p]
    BY <1>1, <1>11 DEF LogAgain, Put, Done, ChanRoom, JobBecomes, SendTypes
  <2>2. nn = n /\ ((c < B /\ cc = c + 1) \/ (~(c < B) /\ cc = c))
    BY <1>0, <1>3, <2>1
  <2>3. ss = s /\ dd = d /\ aa = a - 1 /\ a > 0
    BY <1>1, <1>5, <2>1, CountLeaves, CountStays
  <2> HIDE DEF c, s, d, a, cc, ss, dd, aa, n, nn, B
  <2>4. QED
    BY <1>3, <1>4, <2>2, <2>3
<1>12. QED
  BY <1>7, <1>8, <1>9, <1>10, <1>11

\* What a request does leaves the channel as it is, or it has read it.
LEMMA CountStep == CountInv /\ [ProbeNext]_probeVars => CountInv'
<1> SUFFICES ASSUME CountInv, [ProbeNext]_probeVars PROVE CountInv'
  OBVIOUS
<1>1. SendInv /\ SendTypes /\ SendInv'
  BY SendStep DEF CountInv, SendInv
<1>2. SUFFICES ASSUME NEW p \in Proxy, Unread(p)' PROVE Balanced(p)'
  BY <1>1 DEF CountInv
<1>3. ASSUME job'[p] = job[p], probeChan'[p] = probeChan[p], logged'[p] = logged[p], Unread(p)
      PROVE  Balanced(p)'
  <2>1. Balanced(p)
    BY <1>3 DEF CountInv
  <2>2. \A a : Count(p, a)' = Count(p, a)
    BY <1>3 DEF Count, Doing
  <2>3. QED
    BY <1>3, <2>1, <2>2 DEF Balanced
<1>4. ASSUME NEW q \in Proxy, NEW g \in Goroutine,
             Log(q, g) \/ LogSend(q, g) \/ LogDiscard(q, g) \/ LogAgain(q, g)
      PROVE  Balanced(p)'
  <2>1. CASE q = p
    BY <1>2, <1>4, <2>1, CountLog
  <2>2. CASE q # p
    <3>1. /\ job'[p] = job[p] /\ probeChan'[p] = probeChan[p] /\ logged'[p] = logged[p]
          /\ stream' = stream
      BY <1>1, <1>4, <2>2 DEF SendTypes, Log, LogSend, LogDiscard, LogAgain, Put, Done, Step
    <3>2. QED
      BY <1>2, <1>3, <3>1 DEF Unread
  <2>3. QED
    BY <2>1, <2>2
<1>5. ASSUME NEW q \in Proxy, RegisterProxy(q) \/ UnregisterDelete(q) \/ UnregisterRetain(q)
      PROVE  Balanced(p)'
  BY <1>2, <1>3, <1>5 DEF Unread, RegisterProxy, UnregisterDelete, UnregisterRetain
<1>6. ASSUME NEW s \in Stream, (\E q \in Proxy : Request(s, q)) \/ Handler(s) \/ StreamEnds(s)
      PROVE  Balanced(p)'
  <2> DEFINE r == stream[s]
             q == stream'[s]
  <2>1. /\ UNCHANGED <<job, logged>> /\ DOMAIN stream' = Stream
        /\ \A t \in Stream \ {s} : stream'[t] = stream[t]
    BY <1>1, <1>6 DEF SendTypes, Request, Handler, LoadActive, Lookup, LookupRetained,
                      WriteBuffered, WriteLive, StreamEnds, Goes
  <2>2. /\ DOMAIN r = {"at", "id", "active", "miss", "live"} /\ r.live \in Seq(Entries)
        /\ r.at = "none" => r.live = <<>> /\ r.id = "none"
        /\ r.at # "none" => r.id \in Proxy
    BY <1>1 DEF SendTypes
  <2>3. CASE WriteLive(s)
    <3>1. /\ r.at = "live" /\ q = [r EXCEPT !.live = Append(r.live, Head(probeChan[r.id]))]
          /\ probeChan' = [probeChan EXCEPT ![r.id] = Tail(probeChan[r.id])]
          /\ probeChan[r.id] # <<>> /\ probeChan[r.id] \in Seq(Entries)
      BY <1>1, <2>2, <2>3 DEF WriteLive, SendTypes
    <3>2. q.live # <<>> /\ q.id = r.id
      <4>1. Append(r.live, Head(probeChan[r.id])) # <<>>
        BY <2>2, <3>1
      <4>2. QED
        BY <2>2, <3>1, <4>1
    <3>3. r.id # p
      BY <1>2, <3>2 DEF Unread
    <3>4. probeChan'[p] = probeChan[p]
      BY <1>1, <3>1, <3>3 DEF SendTypes
    <3>5. Unread(p)
      BY <1>2, <2>1, <3>3 DEF Unread
    <3>6. QED
      BY <1>3, <2>1, <3>4, <3>5
  <2>4. CASE ~WriteLive(s)
    <3>1. probeChan' = probeChan
      BY <1>6, <2>4 DEF Request, Handler, LoadActive, Lookup, LookupRetained, WriteBuffered, StreamEnds
    <3>2. r.id = p => r.live = <<>>
      <4>1. CASE r.at = "none"
        BY <2>2, <4>1
      <4>2. CASE r.at # "none"
        <5>1. q.id = r.id /\ q.live = r.live
          BY <1>1, <1>6, <2>2, <2>4, <4>2, RequestKeeps
        <5>2. QED
          BY <1>2, <5>1 DEF Unread
      <4>3. QED
        BY <4>1, <4>2
    <3>3. Unread(p)
      BY <1>2, <2>1, <3>2 DEF Unread
    <3>4. QED
      BY <1>3, <2>1, <3>1, <3>3
  <2>5. QED
    BY <2>3, <2>4
<1>7. CASE UNCHANGED probeVars
  BY <1>2, <1>3, <1>7 DEF probeVars, Unread
<1>8. QED
  BY <1>4, <1>5, <1>6, <1>7 DEF ProbeNext

\* However many goroutines log at once, discard old entries for new ones and try again, and
\* whatever requests read of the channel meanwhile: what a request is sent live has no entry
\* twice and those of one goroutine in their order, and a channel that nobody reads holds as
\* many entries as it can once the goroutines are through.  Which of the entries these are is
\* not said, nor that none of them was sent of the ring before.
THEOREM ProbeChannelOrderly == ProbeSpec => []ChannelOrderly
<1>1. ProbeInit => CountInv
  <2> SUFFICES ASSUME ProbeInit, NEW p \in Proxy PROVE Balanced(p)
    BY SendInit DEF CountInv
  <2>1. ASSUME NEW a, a # "idle" PROVE Count(p, a) = 0
    <3>1. \A g \in Goroutine : job[p][g].step = "idle"
      BY DEF ProbeInit, Idle
    <3>2. Doing(p, a) = {}
      BY <2>1, <3>1 DEF Doing
    <3>3. QED
      BY <3>2, FS_EmptySet DEF Count
  <2>2. Count(p, "send") = 0 /\ Count(p, "discard") = 0 /\ Count(p, "again") = 0
    BY <2>1
  <2>3. Len(probeChan[p]) = 0 /\ logged[p] = 0
    BY DEF ProbeInit
  <2>4. QED
    BY <2>2, <2>3, ProbeAssumption DEF Balanced
<1>2. CountInv => ChannelOrderly
  <2>1. ASSUME CountInv, NEW p \in Proxy, \A g \in Goroutine : job[p][g] = Idle, Unread(p)
        PROVE  Len(probeChan[p]) = InRing(p)
    <3>1. ASSUME NEW a, a # "idle" PROVE Count(p, a) = 0
      <4>1. Doing(p, a) = {}
        BY <2>1, <3>1 DEF Doing, Idle
      <4>2. QED
        BY <4>1, FS_EmptySet DEF Count
    <3>2. Count(p, "send") = 0 /\ Count(p, "discard") = 0 /\ Count(p, "again") = 0
      BY <3>1
    <3>3. Balanced(p) /\ Len(probeChan[p]) \in Nat /\ logged[p] \in Nat
      BY <2>1 DEF CountInv, SendInv, SendTypes
    <3>4. QED
      BY <3>2, <3>3, ProbeAssumption DEF Balanced, InRing
  <2>2. QED
    BY <2>1, SendOrders DEF CountInv, ChannelOrderly, DiscardsReplaced, Unread
<1>3. QED
  BY <1>1, <1>2, CountStep, PTL DEF ProbeSpec

=============================================================================
