------------------------------- MODULE Streams -------------------------------
(***************************************************************************)
(* What is streamed: the in-memory Broadcaster (proxy/handler.go), the     *)
(* goroutines that emit events through it (emitEvent of the failover       *)
(* engine and of the poller, SelectAccount of the dashboard), the          *)
(* dashboards that follow them (web/api.go, HandleEvents), and the         *)
(* proxied SSE streams whose token usage is captured on the way            *)
(* (sse_interceptor.go) and emitted too.                                   *)
(*                                                                         *)
(* An alert is an event that is broadcast and then stored; the event of a  *)
(* proxied stream is broadcast after the stream's usage has been stored.   *)
(***************************************************************************)
EXTENDS Naturals, Sequences, FiniteSets

CONSTANTS
  Alert, Stream,   \* events by emitEvent, and proxied streams (each emits one event)
  Client,          \* dashboards on /api/events
  BufferSize,      \* of a subscriber's channel
  Recent,          \* limit of ListRecent
  MaxUsage         \* usage chunks per stream (bound)

ASSUME StreamsAssumption ==
  /\ Alert \cap Stream = {}
  /\ BufferSize \in Nat \ {0} /\ Recent \in Nat /\ MaxUsage \in Nat

Event == Alert \cup Stream

VARIABLES
  emitter,      \* the goroutine that emits the event
  todo,         \* the subscribers its Broadcast has not served yet
  subscribers,  \* channels registered with the Broadcaster
  channel,      \* what is in them
  closed,       \* channels closed by unsubscribe
  follower,     \* HandleEvents of each dashboard
  gone,         \* contexts that are done: the dashboard, or the stream's client, has left
  shown,        \* what has been written to each dashboard
  stored,       \* proxy_events, in order of insertion
  reader,       \* StreamAndInterceptSSE of each stream
  captured,     \* capturedUsage: the number of the usage chunk, 0 is nil
  lastUsage,    \* history: the last usage chunk upstream has delivered
  recorded,     \* token_metrics: the usage stored for the stream
  failed        \* events whose Record returned an error

board   == <<subscribers, channel, closed>>
dash    == <<follower, shown>>
capture == <<reader, captured, lastUsage>>
vars    == <<emitter, todo, board, dash, gone, stored, capture, recorded, failed>>

TypeOK ==
  /\ emitter \in [Event -> {"idle", "broadcast", "sending", "record", "done"}]
  /\ todo \in [Event -> SUBSET Client]
  /\ subscribers \subseteq Client /\ closed \subseteq Client
  /\ channel \in [Client -> Seq(Event)] /\ \A c \in Client : Len(channel[c]) <= BufferSize
  /\ follower \in [Client -> {"off", "list", "subscribe", "live", "leave", "ended"}]
  /\ gone \subseteq Client \cup Stream
  /\ shown \in [Client -> Seq(Event)]
  /\ stored \in Seq(Alert)
  /\ reader \in [Stream -> {"check", "read", "write", "ended"}]
  /\ captured \in [Stream -> 0..MaxUsage] /\ lastUsage \in [Stream -> 0..MaxUsage]
  /\ recorded \in [Stream -> 0..MaxUsage]
  /\ failed \subseteq Event

Init ==
  /\ emitter = [e \in Event |-> "idle"] /\ todo = [e \in Event |-> {}]
  /\ subscribers = {} /\ channel = [c \in Client |-> <<>>] /\ closed = {}
  /\ follower = [c \in Client |-> "off"] /\ shown = [c \in Client |-> <<>>]
  /\ gone = {} /\ stored = <<>>
  /\ reader = [s \in Stream |-> "check"]
  /\ captured = [s \in Stream |-> 0] /\ lastUsage = [s \in Stream |-> 0]
  /\ recorded = [s \in Stream |-> 0] /\ failed = {}

-----------------------------------------------------------------------------
(* Emitters *)

\* Mutant of Order: alerts are stored before they are broadcast.
RecordFirst(e) == <<"record", "broadcast">>

\* What the emitter of e does, in this order.
Order(e) == IF e \in Alert THEN <<"broadcast", "record">> ELSE <<"record", "broadcast">>

After(e, step) == IF step = Order(e)[1] THEN Order(e)[2] ELSE "done"

\* Something happens that is worth an alert.
Emit(e) ==
  /\ e \in Alert /\ emitter[e] = "idle"
  /\ emitter' = [emitter EXCEPT ![e] = Order(e)[1]]
  /\ UNCHANGED <<todo, board, dash, gone, stored, capture, recorded, failed>>

\* Broadcast takes the read lock: nobody comes or goes until it is done.
BeginBroadcast(e) ==
  /\ emitter[e] = "broadcast"
  /\ emitter' = [emitter EXCEPT ![e] = "sending"]
  /\ todo' = [todo EXCEPT ![e] = subscribers]
  /\ UNCHANGED <<board, dash, gone, stored, capture, recorded, failed>>

HasRoom(c) == Len(channel[c]) < BufferSize

\* Mutant of Send: it waits for room.
SendBlocks(e, c) ==
  /\ emitter[e] = "sending" /\ c \in todo[e] /\ HasRoom(c)
  /\ channel' = [channel EXCEPT ![c] = Append(@, e)]
  /\ todo' = [todo EXCEPT ![e] = @ \ {c}]
  /\ UNCHANGED <<emitter, subscribers, closed, dash, gone, stored, capture, recorded, failed>>

\* A channel without room: the event is dropped.
Send(e, c) ==
  /\ emitter[e] = "sending" /\ c \in todo[e]
  /\ channel' = IF HasRoom(c) THEN [channel EXCEPT ![c] = Append(@, e)] ELSE channel
  /\ todo' = [todo EXCEPT ![e] = @ \ {c}]
  /\ UNCHANGED <<emitter, subscribers, closed, dash, gone, stored, capture, recorded, failed>>

EndBroadcast(e) ==
  /\ emitter[e] = "sending" /\ todo[e] = {}
  /\ emitter' = [emitter EXCEPT ![e] = After(e, "broadcast")]
  /\ UNCHANGED <<todo, board, dash, gone, stored, capture, recorded, failed>>

\* Record fails when the account is gone (a foreign key), when the database is busy for
\* the 3 (5) seconds of the emitter's own context, or when it has been closed.
RecordFails(e) ==
  /\ emitter[e] = "record"
  /\ failed' = failed \cup {e}
  /\ emitter' = [emitter EXCEPT ![e] = After(e, "record")]
  /\ UNCHANGED <<todo, board, dash, gone, stored, capture, recorded>>

RecordEvent(e) ==
  /\ e \in Alert /\ emitter[e] = "record"
  /\ stored' = Append(stored, e)
  /\ emitter' = [emitter EXCEPT ![e] = After(e, "record")]
  /\ UNCHANGED <<todo, board, dash, gone, capture, recorded, failed>>

\* Mutant of RecordUsage: it runs under the request's context.
RecordUsageInRequest(s) ==
  /\ emitter[s] = "record"
  /\ recorded' = IF s \in gone THEN recorded ELSE [recorded EXCEPT ![s] = captured[s]]
  /\ emitter' = [emitter EXCEPT ![s] = After(s, "record")]
  /\ UNCHANGED <<todo, board, dash, gone, stored, capture, failed>>

RecordUsage(s) ==
  /\ emitter[s] = "record"
  /\ recorded' = [recorded EXCEPT ![s] = captured[s]]
  /\ emitter' = [emitter EXCEPT ![s] = After(s, "record")]
  /\ UNCHANGED <<todo, board, dash, gone, stored, capture, failed>>

Emitter(e) ==
  \/ BeginBroadcast(e) \/ EndBroadcast(e) \/ RecordFails(e) \/ RecordEvent(e)
  \/ \E c \in Client : Send(e, c)
  \/ e \in Stream /\ RecordUsage(e)

-----------------------------------------------------------------------------
(* Dashboards *)

Follows(c, from, to) == follower[c] = from /\ follower' = [follower EXCEPT ![c] = to]

NobodySends == \A e \in Event : emitter[e] # "sending"

Connect(c) ==
  /\ Follows(c, "off", "list")
  /\ UNCHANGED <<emitter, todo, board, gone, shown, stored, capture, recorded, failed>>

Newest == SubSeq(stored, IF Len(stored) > Recent THEN Len(stored) - Recent + 1 ELSE 1, Len(stored))

\* ListRecent, oldest first; it fails when the dashboard has left.
List(c) ==
  /\ Follows(c, "list", "subscribe")
  /\ shown' = IF c \in gone THEN shown ELSE [shown EXCEPT ![c] = Newest]
  /\ UNCHANGED <<emitter, todo, board, gone, stored, capture, recorded, failed>>

\* Under the write lock.
Subscribe(c) ==
  /\ Follows(c, "subscribe", "live") /\ NobodySends
  /\ subscribers' = subscribers \cup {c}
  /\ UNCHANGED <<emitter, todo, channel, closed, gone, shown, stored, capture, recorded,
                 failed>>

Show(c) ==
  /\ follower[c] = "live" /\ channel[c] # <<>>
  /\ shown' = [shown EXCEPT ![c] = Append(@, Head(channel[c]))]
  /\ channel' = [channel EXCEPT ![c] = Tail(@)]
  /\ UNCHANGED <<emitter, todo, subscribers, closed, follower, gone, stored, capture,
                 recorded, failed>>

Leave(c) ==
  /\ c \in gone /\ Follows(c, "live", "leave")
  /\ UNCHANGED <<emitter, todo, board, gone, shown, stored, capture, recorded, failed>>

\* Mutant of Unsubscribe: without the lock.
UnsubscribeUnlocked(c) ==
  /\ Follows(c, "leave", "ended")
  /\ subscribers' = subscribers \ {c} /\ closed' = closed \cup {c}
  /\ UNCHANGED <<emitter, todo, channel, gone, shown, stored, capture, recorded, failed>>

\* Under the write lock: the channel is removed and closed.
Unsubscribe(c) ==
  /\ Follows(c, "leave", "ended") /\ NobodySends
  /\ subscribers' = subscribers \ {c} /\ closed' = closed \cup {c}
  /\ UNCHANGED <<emitter, todo, channel, gone, shown, stored, capture, recorded, failed>>

-----------------------------------------------------------------------------
(* Proxied streams *)

Reads(s, from, to) == reader[s] = from /\ reader' = [reader EXCEPT ![s] = to]

\* The deferred function: a goroutine with a context of its own, if there is usage.
Finish(s, from) ==
  /\ Reads(s, from, "ended")
  /\ emitter' = [emitter EXCEPT ![s] = IF captured[s] # 0 THEN Order(s)[1] ELSE "done"]
  /\ UNCHANGED <<todo, board, dash, gone, stored, captured, lastUsage, recorded, failed>>

StillThere(s) ==
  /\ s \notin gone /\ Reads(s, "check", "read")
  /\ UNCHANGED <<emitter, todo, board, dash, gone, stored, captured, lastUsage, recorded,
                 failed>>

\* A line comes, and its usage is captured before it is written.
ReadLine(s) ==
  /\ Reads(s, "read", "write")
  /\ \/ UNCHANGED <<captured, lastUsage>>
     \/ /\ lastUsage[s] < MaxUsage
        /\ lastUsage' = [lastUsage EXCEPT ![s] = @ + 1]
        /\ captured' = [captured EXCEPT ![s] = lastUsage[s] + 1]
  /\ UNCHANGED <<emitter, todo, board, dash, gone, stored, recorded, failed>>

WriteLine(s) ==
  /\ Reads(s, "write", "check")
  /\ UNCHANGED <<emitter, todo, board, dash, gone, stored, captured, lastUsage, recorded,
                 failed>>

\* The client has left, upstream ends or fails, or the write fails.
StreamEnds(s) ==
  \/ s \in gone /\ Finish(s, "check")
  \/ Finish(s, "read")
  \/ s \in gone /\ Finish(s, "write")

Intercept(s) == StillThere(s) \/ ReadLine(s) \/ WriteLine(s) \/ StreamEnds(s)

-----------------------------------------------------------------------------
\* A browser or a proxied client closes its connection.
Disconnect(x) ==
  /\ x \notin gone /\ gone' = gone \cup {x}
  /\ UNCHANGED <<emitter, todo, board, dash, stored, capture, recorded, failed>>

Next ==
  \/ \E e \in Event : Emit(e) \/ Emitter(e)
  \/ \E c \in Client :
       Connect(c) \/ List(c) \/ Subscribe(c) \/ Show(c) \/ Leave(c) \/ Unsubscribe(c)
  \/ \E s \in Stream : Intercept(s)
  \/ \E x \in Client \cup Stream : Disconnect(x)

Spec == Init /\ [][Next]_vars

\* Emitters run, and so does the reader of a stream whose client has left: its context
\* ends the read. No dashboard need ever read, and no upstream need ever send.
FairSpec ==
  /\ Spec
  /\ \A e \in Event : WF_vars(Emitter(e))
  /\ \A s \in Stream : WF_vars(s \in gone /\ Intercept(s))

-----------------------------------------------------------------------------
\* No event is sent on a channel that a leaving dashboard has closed (the program would
\* panic), whatever Broadcasts are under way when it leaves.
NeverSendsOnClosed == \A e \in Event : todo[e] \subseteq subscribers \ closed

\* An event reaches a dashboard by the history or by its channel, never by both: what a
\* dashboard lists is stored, what is stored has been broadcast, and it subscribes after.
ShownAtMostOnce ==
  \A c \in Client : \A i, j \in 1..Len(shown[c]) : i # j => shown[c][i] # shown[c][j]

\* A Broadcast ends (the engine emits under its mutex), though no dashboard ever reads.
BroadcastEnds == \A e \in Event : emitter[e] = "sending" ~> emitter[e] # "sending"

\* Once a stream has ended or its client has left, the last usage that upstream has
\* delivered is recorded, unless the database refuses it: also when the line that
\* carried it was never written.
TokensRecorded ==
  \A s \in Stream :
    lastUsage[s] # 0 /\ (s \in gone \/ reader[s] = "ended")
      ~> recorded[s] = lastUsage[s] \/ s \in failed
=============================================================================
