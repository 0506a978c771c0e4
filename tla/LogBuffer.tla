----------------------------- MODULE LogBuffer -----------------------------
(***************************************************************************)
(* The server's own log (log_buffer.go) and the requests that follow it    *)
(* (apiServerLogsHandler).  A subscriber gets a channel, the goroutine     *)
(* that replays recent entries into it, the goroutine that waits for the   *)
(* end of the request to unsubscribe it, and the handler that reads.       *)
(* Entries are numbered in the order of Add.                               *)
(***************************************************************************)
EXTENDS Integers, Sequences

CONSTANTS
  Listener,   \* the requests
  MaxSize,    \* LogBuffer.maxSize
  ChanSize,   \* capacity of a listener's channel, below maxSize
  MaxAdd      \* bound: entries added

ASSUME LogAssumption == MaxSize \in Nat \ {0} /\ ChanSize \in Nat \ {0} /\ MaxAdd \in Nat

VARIABLES
  added,      \* how many entries there were
  entries,    \* LogBuffer.entries
  listeners,  \* the keys of LogBuffer.listeners
  ctx,        \* by listener: its request
  from,       \* by listener: how many entries there were when it subscribed
  recent,     \* by listener: recentEntries it is still to be sent
  logChan,    \* by listener: what is in its channel
  closed,     \* the listeners whose channel is closed
  shown,      \* by listener: what its handler has written
  skipped,    \* by listener: the entries that found its channel full
  handling,   \* the listeners whose handler runs
  panicked    \* who sent on a closed channel, which ends the process: "no", "Add", "Subscribe"

logVars == <<added, entries, listeners, ctx, from, recent, logChan, closed, shown, skipped,
             handling, panicked>>

LogInit ==
  /\ added = 0 /\ entries = <<>> /\ listeners = {}
  /\ ctx = [l \in Listener |-> "none"]
  /\ from = [l \in Listener |-> 0]
  /\ recent = [l \in Listener |-> <<>>]
  /\ logChan = [l \in Listener |-> <<>>]
  /\ closed = {}
  /\ shown = [l \in Listener |-> <<>>]
  /\ skipped = [l \in Listener |-> {}]
  /\ handling = {}
  /\ panicked = "no"

Latest(s, n) == IF Len(s) > n THEN SubSeq(s, Len(s) - n + 1, Len(s)) ELSE s
Room(l) == Len(logChan[l]) < ChanSize

\* ServerLogHandler.Handle, LogBuffer.Add: a channel that is full is passed over
AddEntry(e) ==
  /\ entries' = Latest(Append(entries, e), MaxSize)
  /\ added' = e
  /\ logChan' = [l \in Listener |->
                   IF l \in listeners /\ Room(l) THEN Append(logChan[l], e) ELSE logChan[l]]
  /\ skipped' = [l \in Listener |->
                   IF l \in listeners /\ ~Room(l) THEN skipped[l] \union {e} ELSE skipped[l]]
  /\ panicked' = IF listeners \intersect closed # {} THEN "Add" ELSE panicked

Add ==
  /\ added < MaxAdd
  /\ AddEntry(added + 1)
  /\ UNCHANGED <<listeners, ctx, from, recent, closed, shown, handling>>

Joins(l) ==
  /\ ctx[l] = "none"
  /\ ctx' = [ctx EXCEPT ![l] = "live"]
  /\ listeners' = listeners \union {l}
  /\ from' = [from EXCEPT ![l] = added]
  /\ recent' = [recent EXCEPT ![l] = entries]
  /\ handling' = handling \union {l}

\* Mutant of Subscribe: the entries are copied, and the listener is entered, under two locks.
SubscribeTwice(l) ==
  /\ Joins(l)
  /\ \/ UNCHANGED <<added, entries, logChan, skipped, panicked>>
     \/ added < MaxAdd /\ AddEntry(added + 1)
  /\ UNCHANGED <<closed, shown>>

\* apiServerLogsHandler, LogBuffer.Subscribe
Subscribe(l) == Joins(l) /\ UNCHANGED <<added, entries, logChan, closed, shown, skipped, panicked>>

\* The goroutine that replays.  Its select may choose the channel although the request is over,
\* and the channel may be closed by then.
Replay(l) ==
  /\ recent[l] # <<>>
  /\ \/ /\ l \notin closed /\ Room(l)
        /\ logChan' = [logChan EXCEPT ![l] = Append(@, Head(recent[l]))]
        /\ recent' = [recent EXCEPT ![l] = Tail(@)]
        /\ UNCHANGED panicked
     \/ /\ ctx[l] = "done"
        /\ recent' = [recent EXCEPT ![l] = <<>>]
        /\ UNCHANGED <<logChan, panicked>>
     \/ /\ l \in closed
        /\ panicked' = "Subscribe"
        /\ UNCHANGED <<logChan, recent>>
  /\ UNCHANGED <<added, entries, listeners, ctx, from, closed, shown, skipped, handling>>

RequestEnds(l) ==
  /\ ctx[l] = "live"
  /\ ctx' = [ctx EXCEPT ![l] = "done"]
  /\ UNCHANGED <<added, entries, listeners, from, recent, logChan, closed, shown, skipped, handling, panicked>>

Unsubscribe(l) ==
  /\ ctx[l] = "done" /\ l \in listeners
  /\ closed' = closed \union {l}
  /\ listeners' = listeners \ {l}
  /\ UNCHANGED <<added, entries, ctx, from, recent, logChan, shown, skipped, handling, panicked>>

\* Mutant of Show: the handler runs once everything was replayed.
ShowAfter(l) ==
  /\ l \in handling /\ logChan[l] # <<>> /\ recent[l] = <<>>
  /\ shown' = [shown EXCEPT ![l] = Append(@, Head(logChan[l]))]
  /\ logChan' = [logChan EXCEPT ![l] = Tail(@)]
  /\ UNCHANGED <<added, entries, listeners, ctx, from, recent, closed, skipped, handling, panicked>>

\* The handler's select: an entry, or the end
Show(l) ==
  /\ l \in handling /\ logChan[l] # <<>>
  /\ shown' = [shown EXCEPT ![l] = Append(@, Head(logChan[l]))]
  /\ logChan' = [logChan EXCEPT ![l] = Tail(@)]
  /\ UNCHANGED <<added, entries, listeners, ctx, from, recent, closed, skipped, handling, panicked>>

HandlerReturns(l) ==
  /\ l \in handling
  /\ ctx[l] = "done" \/ (l \in closed /\ logChan[l] = <<>>)
  /\ handling' = handling \ {l}
  /\ UNCHANGED <<added, entries, listeners, ctx, from, recent, logChan, closed, shown, skipped, panicked>>

LogNext ==
  /\ panicked = "no"
  /\ \/ Add
     \/ \E l \in Listener :
          \/ Subscribe(l) \/ Replay(l) \/ RequestEnds(l) \/ Unsubscribe(l)
          \/ Show(l) \/ HandlerReturns(l)

LogSpec == LogInit /\ [][LogNext]_logVars

\* The goroutines run; of a select that is ready again and again every case is chosen in the end
LogFairness ==
  \A l \in Listener :
    /\ WF_logVars(panicked = "no" /\ Replay(l))
    /\ WF_logVars(panicked = "no" /\ Unsubscribe(l))
    /\ WF_logVars(panicked = "no" /\ (Show(l) \/ HandlerReturns(l)))
    /\ SF_logVars(panicked = "no" /\ HandlerReturns(l))

(***************************************************************************)
(* Properties                                                              *)
(***************************************************************************)
\* The entries up to n are in order in s, and so are the later ones
OrderedUpTo(s, n) == \A i, j \in DOMAIN s : i < j /\ (s[i] <= n <=> s[j] <= n) => s[i] < s[j]
Elements(s) == {s[i] : i \in DOMAIN s}

\* A request that follows the log gets every entry that was in the buffer when it subscribed and
\* every one added since, unless that found its channel full; none twice; the old ones and the
\* new ones each in order
LogFollowed ==
  \A l \in Listener :
    LET got == shown[l] \o logChan[l]
    IN /\ OrderedUpTo(got, from[l])
       /\ ctx[l] = "live" =>
            {e \in 1..added : e + MaxSize > from[l]}
              \subseteq Elements(got) \union Elements(recent[l]) \union skipped[l]

\* The buffer holds more than a channel does, yet the replay gets through while the request lasts
ReplayCompletes == \A l \in Listener : recent[l] # <<>> ~> (recent[l] = <<>> \/ panicked # "no")

\* After a request nothing of it is left: no entry in the map, no goroutine
RequestsLeaveNothing ==
  \A l \in Listener :
    ctx[l] = "done" ~> (panicked # "no" \/ (l \notin listeners /\ recent[l] = <<>> /\ l \notin handling))

=============================================================================
