---------------------------- MODULE Streams_proofs ----------------------------
(***************************************************************************)
(* The event stream, for any events, proxied streams and dashboards, and   *)
(* channels of any size.                                                   *)
(***************************************************************************)
EXTENDS Streams, TLAPS

\* What the Broadcaster's lock protects; a stream emits after it has ended.
BoardOK ==
  /\ \A e \in Event : todo[e] # {} => emitter[e] = "sending"
  /\ \A e \in Event : todo[e] \subseteq subscribers
  /\ \A c \in subscribers : follower[c] \in {"live", "leave"}
  /\ \A c \in closed : follower[c] = "ended"
  /\ \A s \in Stream : reader[s] # "ended" => emitter[s] = "idle"

\* e is past its Broadcast, as far as c is concerned.
Past(e, c) ==
  /\ emitter[e] \in {"sending", "done"} \/ (e \in Alert /\ emitter[e] = "record")
  /\ c \notin todo[e]

Distinct(s) == \A i, j \in 1..Len(s) : i # j => s[i] # s[j]

StoredOK ==
  /\ Distinct(stored)
  /\ \A i \in 1..Len(stored) : emitter[stored[i]] = "done"

\* What c is shown and what waits for it is past its Broadcast, and nothing is in both.
Seen(c) ==
  /\ follower[c] \in {"off", "list"} => shown[c] = <<>>
  /\ follower[c] \in {"off", "list", "subscribe"} => channel[c] = <<>>
  /\ Distinct(shown[c]) /\ Distinct(channel[c])
  /\ \A i \in 1..Len(shown[c]) : Past(shown[c][i], c)
  /\ \A i \in 1..Len(channel[c]) : Past(channel[c][i], c)
  /\ \A i \in 1..Len(shown[c]), j \in 1..Len(channel[c]) : shown[c][i] # channel[c][j]

SeenOK == \A c \in Client : Seen(c)

IInv == TypeOK /\ BoardOK /\ StoredOK /\ SeenOK

-----------------------------------------------------------------------------
LEMMA Orders ==
  /\ \A e \in Alert : After(e, "broadcast") = "record" /\ After(e, "record") = "done"
                      /\ Order(e)[1] = "broadcast"
  /\ \A e \in Stream : After(e, "record") = "broadcast" /\ After(e, "broadcast") = "done"
                       /\ Order(e)[1] = "record"
BY StreamsAssumption DEF After, Order

LEMMA InitOK == Init => IInv
BY StreamsAssumption
   DEF Init, IInv, TypeOK, BoardOK, StoredOK, SeenOK, Seen, Distinct, Event

LEMMA TypeStep == TypeOK /\ [Next]_vars => TypeOK'
<1> SUFFICES ASSUME TypeOK, [Next]_vars PROVE TypeOK'
  OBVIOUS
<1> USE StreamsAssumption, Orders DEF TypeOK, Event
<1>1. CASE UNCHANGED vars
  BY <1>1 DEF vars, board, dash, capture
<1>2. ASSUME NEW e \in Event, Emit(e) PROVE TypeOK'
  BY <1>2 DEF Emit, board, dash, capture
<1>3. ASSUME NEW e \in Event, Emitter(e) PROVE TypeOK'
  <2>1. CASE BeginBroadcast(e)
    BY <2>1 DEF BeginBroadcast, board, dash, capture
  <2>2. CASE EndBroadcast(e)
    BY <2>2 DEF EndBroadcast, board, dash, capture
  <2>3. CASE RecordFails(e)
    BY <2>3 DEF RecordFails, board, dash, capture
  <2>4. CASE RecordEvent(e)
    BY <2>4 DEF RecordEvent, board, dash, capture
  <2>5. ASSUME NEW c \in Client, Send(e, c) PROVE TypeOK'
    <3>1. CASE HasRoom(c)
      <4>1. Append(channel[c], e) \in Seq(Event) /\ Len(Append(channel[c], e)) = Len(channel[c]) + 1
        OBVIOUS
      <4>2. Len(channel[c]) + 1 <= BufferSize
        BY <3>1 DEF HasRoom
      <4>3. channel' = [channel EXCEPT ![c] = Append(channel[c], e)]
        BY <2>5, <3>1 DEF Send
      <4> QED
        BY <2>5, <4>1, <4>2, <4>3 DEF Send, dash, capture
    <3>2. CASE ~HasRoom(c)
      BY <2>5, <3>2 DEF Send, dash, capture
    <3> QED
      BY <3>1, <3>2
  <2>6. CASE e \in Stream /\ RecordUsage(e)
    BY <2>6 DEF RecordUsage, board, dash, capture
  <2> QED
    BY <1>3, <2>1, <2>2, <2>3, <2>4, <2>5, <2>6 DEF Emitter
<1>4. ASSUME NEW c \in Client,
             Connect(c) \/ List(c) \/ Subscribe(c) \/ Show(c) \/ Leave(c) \/ Unsubscribe(c)
      PROVE  TypeOK'
  <2>1. CASE Connect(c)
    BY <2>1 DEF Connect, Follows, board, capture
  <2>2. CASE List(c)
    <3>1. Newest \in Seq(Event)
      BY DEF Newest
    <3> QED
      BY <2>2, <3>1 DEF List, Follows, board, capture
  <2>3. CASE Subscribe(c)
    BY <2>3 DEF Subscribe, Follows, capture
  <2>4. CASE Show(c)
    BY <2>4 DEF Show, capture
  <2>5. CASE Leave(c)
    BY <2>5 DEF Leave, Follows, board, capture
  <2>6. CASE Unsubscribe(c)
    BY <2>6 DEF Unsubscribe, Follows, capture
  <2> QED
    BY <1>4, <2>1, <2>2, <2>3, <2>4, <2>5, <2>6
<1>5. ASSUME NEW s \in Stream, Intercept(s) PROVE TypeOK'
  <2>1. CASE StillThere(s)
    BY <2>1 DEF StillThere, Reads, board, dash
  <2>2. CASE ReadLine(s)
    <3>1. reader' = [reader EXCEPT ![s] = "write"]
      BY <2>2 DEF ReadLine, Reads
    <3>2. CASE UNCHANGED <<captured, lastUsage>>
      BY <2>2, <3>1, <3>2 DEF ReadLine, board, dash
    <3>3. CASE lastUsage[s] < MaxUsage /\ lastUsage' = [lastUsage EXCEPT ![s] = lastUsage[s] + 1]
               /\ captured' = [captured EXCEPT ![s] = lastUsage[s] + 1]
      <4>1. lastUsage[s] + 1 \in 0..MaxUsage
        BY <3>3
      <4> QED
        BY <2>2, <3>1, <3>3, <4>1 DEF ReadLine, board, dash
    <3> QED
      BY <2>2, <3>2, <3>3 DEF ReadLine
  <2>3. CASE WriteLine(s)
    BY <2>3 DEF WriteLine, Reads, board, dash
  <2>4. CASE StreamEnds(s)
    <3>1. PICK from \in {"check", "read", "write"} : Finish(s, from)
      BY <2>4 DEF StreamEnds
    <3>2. PICK step \in {"record", "done"} : emitter' = [emitter EXCEPT ![s] = step]
      BY <3>1 DEF Finish
    <3> QED
      BY <3>1, <3>2 DEF Finish, Reads, board, dash
  <2> QED
    BY <1>5, <2>1, <2>2, <2>3, <2>4 DEF Intercept
<1>6. ASSUME NEW x \in Client \cup Stream, Disconnect(x) PROVE TypeOK'
  BY <1>6 DEF Disconnect, board, dash, capture
<1> QED
  BY <1>1, <1>2, <1>3, <1>4, <1>5, <1>6 DEF Next

\* The Broadcaster's lock keeps dashboards from coming or going during a Broadcast.
LEMMA BoardStep == TypeOK /\ BoardOK /\ [Next]_vars => BoardOK'
<1> SUFFICES ASSUME TypeOK, BoardOK, [Next]_vars PROVE BoardOK'
  OBVIOUS
<1> USE Orders DEF TypeOK, BoardOK, Event, capture
<1>1. CASE UNCHANGED vars
  BY <1>1 DEF vars, board, dash
<1>2. ASSUME NEW e \in Event, Emit(e) PROVE BoardOK'
  BY <1>2 DEF Emit, board, dash
<1>3. ASSUME NEW e \in Event, Emitter(e) PROVE BoardOK'
  <2>1. CASE BeginBroadcast(e)
    BY <2>1 DEF BeginBroadcast, board, dash
  <2>2. CASE EndBroadcast(e)
    BY <2>2 DEF EndBroadcast, board, dash
  <2>3. CASE RecordFails(e)
    BY <2>3 DEF RecordFails, board, dash
  <2>4. CASE RecordEvent(e)
    BY <2>4 DEF RecordEvent, board, dash
  <2>5. ASSUME NEW c \in Client, Send(e, c) PROVE BoardOK'
    BY <2>5 DEF Send, dash
  <2>6. CASE e \in Stream /\ RecordUsage(e)
    BY <2>6 DEF RecordUsage, board, dash
  <2> QED
    BY <1>3, <2>1, <2>2, <2>3, <2>4, <2>5, <2>6 DEF Emitter
<1>4. ASSUME NEW c \in Client,
             Connect(c) \/ List(c) \/ Subscribe(c) \/ Show(c) \/ Leave(c) \/ Unsubscribe(c)
      PROVE  BoardOK'
  <2>1. CASE Connect(c)
    BY <2>1 DEF Connect, Follows, board
  <2>2. CASE List(c)
    BY <2>2 DEF List, Follows, board
  <2>3. CASE Subscribe(c)
    BY <2>3 DEF Subscribe, Follows
  <2>4. CASE Show(c)
    BY <2>4 DEF Show
  <2>5. CASE Leave(c)
    BY <2>5 DEF Leave, Follows, board
  <2>6. CASE Unsubscribe(c)
    BY <2>6 DEF Unsubscribe, Follows, NobodySends
  <2> QED
    BY <1>4, <2>1, <2>2, <2>3, <2>4, <2>5, <2>6
<1>5. ASSUME NEW s \in Stream, Intercept(s) PROVE BoardOK'
  <2>1. CASE StillThere(s) \/ ReadLine(s) \/ WriteLine(s)
    BY <2>1 DEF StillThere, ReadLine, WriteLine, Reads, board, dash
  <2>2. CASE StreamEnds(s)
    <3>1. PICK from \in {"check", "read", "write"} : Finish(s, from)
      BY <2>2 DEF StreamEnds
    <3>2. emitter[s] = "idle" /\ \A e \in Event \ {s} : emitter'[e] = emitter[e]
      BY <3>1 DEF Finish, Reads
    <3> QED
      BY <3>1, <3>2 DEF Finish, Reads, board, dash
  <2> QED
    BY <1>5, <2>1, <2>2 DEF Intercept
<1>6. ASSUME NEW x \in Client \cup Stream, Disconnect(x) PROVE BoardOK'
  BY <1>6 DEF Disconnect, board, dash
<1> QED
  BY <1>1, <1>2, <1>3, <1>4, <1>5, <1>6 DEF Next

-----------------------------------------------------------------------------
\* An emitter only moves forward.
LEMMA EmitterStep ==
  ASSUME TypeOK, BoardOK, [Next]_vars
  PROVE  /\ \A e \in Event : emitter[e] = "done" => emitter'[e] = "done"
         /\ \A e \in Event, c \in Client : Past(e, c) => Past(e, c)'
<1> USE Orders DEF TypeOK, BoardOK, Event, Past
<1>1. CASE UNCHANGED vars
  BY <1>1 DEF vars
<1>2. ASSUME NEW x \in Event, Emit(x)
      PROVE  /\ \A e \in Event : emitter[e] = "done" => emitter'[e] = "done"
             /\ \A e \in Event, c \in Client : Past(e, c) => Past(e, c)'
  BY <1>2 DEF Emit
<1>3. ASSUME NEW x \in Event, Emitter(x)
      PROVE  /\ \A e \in Event : emitter[e] = "done" => emitter'[e] = "done"
             /\ \A e \in Event, c \in Client : Past(e, c) => Past(e, c)'
  <2>1. CASE BeginBroadcast(x)
    BY <2>1 DEF BeginBroadcast
  <2>2. CASE EndBroadcast(x)
    BY <2>2 DEF EndBroadcast
  <2>3. CASE RecordFails(x)
    BY <2>3 DEF RecordFails
  <2>4. CASE RecordEvent(x)
    BY <2>4 DEF RecordEvent
  <2>5. ASSUME NEW c \in Client, Send(x, c)
        PROVE  emitter' = emitter /\ \A e \in Event : todo'[e] \subseteq todo[e]
    BY <2>5 DEF Send
  <2>6. CASE x \in Stream /\ RecordUsage(x)
    BY <2>6 DEF RecordUsage
  <2> QED
    BY <1>3, <2>1, <2>2, <2>3, <2>4, <2>5, <2>6 DEF Emitter
<1>4. ASSUME NEW x \in Client,
             Connect(x) \/ List(x) \/ Subscribe(x) \/ Show(x) \/ Leave(x) \/ Unsubscribe(x)
      PROVE  UNCHANGED <<emitter, todo>>
  BY <1>4 DEF Connect, List, Subscribe, Show, Leave, Unsubscribe
<1>5. ASSUME NEW x \in Stream, Intercept(x)
      PROVE  todo' = todo /\ \A e \in Event : emitter'[e] # emitter[e] => emitter[e] = "idle"
  <2>1. CASE StillThere(x) \/ ReadLine(x) \/ WriteLine(x)
    BY <2>1 DEF StillThere, ReadLine, WriteLine
  <2>2. CASE StreamEnds(x)
    <3>1. PICK from \in {"check", "read", "write"} : Finish(x, from)
      BY <2>2 DEF StreamEnds
    <3> QED
      BY <3>1 DEF Finish, Reads
  <2> QED
    BY <1>5, <2>1, <2>2 DEF Intercept
<1>6. ASSUME NEW x \in Client \cup Stream, Disconnect(x) PROVE UNCHANGED <<emitter, todo>>
  BY <1>6 DEF Disconnect
<1> QED
  BY <1>1, <1>2, <1>3, <1>4, <1>5, <1>6 DEF Next

\* Steps that store nothing.
LEMMA SameStored ==
  ASSUME TypeOK, BoardOK, StoredOK, [Next]_vars, stored' = stored
  PROVE  StoredOK'
BY EmitterStep DEF StoredOK, Distinct, TypeOK, Event

LEMMA StoredStep ==
  ASSUME TypeOK, BoardOK, StoredOK, [Next]_vars
  PROVE  StoredOK'
<1>1. ASSUME NEW e \in Event, RecordEvent(e) PROVE StoredOK'
  <2>1. e \in Alert /\ emitter[e] = "record" /\ stored' = Append(stored, e) /\ emitter'[e] = "done"
    BY <1>1, Orders DEF RecordEvent, TypeOK, Event
  <2>2. /\ Len(stored') = Len(stored) + 1 /\ stored'[Len(stored) + 1] = e
        /\ \A i \in 1..Len(stored) : stored'[i] = stored[i] /\ stored[i] \in Alert
    BY <2>1 DEF TypeOK
  <2>3. \A i \in 1..Len(stored) : stored[i] # e /\ emitter'[stored[i]] = "done"
    BY <2>1, <2>2, EmitterStep DEF StoredOK, Event
  <2>4. \A i \in 1..Len(stored') : i \in 1..Len(stored) \/ i = Len(stored) + 1
    BY <2>2 DEF TypeOK
  <2> QED
    BY <2>1, <2>2, <2>3, <2>4 DEF StoredOK, Distinct
<1>2. CASE \A e \in Event : ~RecordEvent(e)
  <2>1. stored' = stored
    BY <1>2 DEF Next, vars, Emit, Emitter, BeginBroadcast, EndBroadcast, RecordFails, Send,
                RecordUsage, Connect, List, Subscribe, Show, Leave, Unsubscribe, Intercept,
                StillThere, ReadLine, WriteLine, StreamEnds, Finish, Disconnect, capture
  <2> QED
    BY <2>1, SameStored
<1> QED
  BY <1>1, <1>2

-----------------------------------------------------------------------------
\* Where the lists of c are, and stay.
LEMMA SameSeen ==
  ASSUME TypeOK, BoardOK, [Next]_vars, NEW c \in Client, Seen(c),
         shown'[c] = shown[c], channel'[c] = channel[c],
         follower'[c] \in {"off", "list"} => follower[c] \in {"off", "list"},
         follower'[c] \in {"off", "list", "subscribe"}
           => follower[c] \in {"off", "list", "subscribe"}
  PROVE  Seen(c)'
<1>1. /\ \A i \in 1..Len(shown[c]) : shown[c][i] \in Event
      /\ \A i \in 1..Len(channel[c]) : channel[c][i] \in Event
  BY DEF TypeOK
<1>2. \A e \in Event : Past(e, c) => Past(e, c)'
  BY EmitterStep
<1>3. /\ \A i \in 1..Len(shown'[c]) : Past(shown[c][i], c)'
      /\ \A i \in 1..Len(channel'[c]) : Past(channel[c][i], c)'
  BY <1>1, <1>2 DEF Seen, Past
<1> QED
  BY <1>3 DEF Seen, Distinct, Past

\* A Broadcast queues its event once.
LEMMA SendSeen ==
  ASSUME TypeOK, BoardOK, [Next]_vars, NEW e \in Event, NEW c \in Client, Seen(c),
         Send(e, c), HasRoom(c)
  PROVE  Seen(c)'
<1>1. /\ shown' = shown /\ follower' = follower
      /\ channel'[c] = Append(channel[c], e)
      /\ emitter' = emitter /\ emitter[e] = "sending"
      /\ c \in todo[e] /\ c \notin todo'[e]
  BY DEF Send, TypeOK, dash
<1>2. /\ Len(channel'[c]) = Len(channel[c]) + 1 /\ channel'[c][Len(channel[c]) + 1] = e
      /\ \A i \in 1..Len(channel[c]) : channel'[c][i] = channel[c][i] /\ channel[c][i] \in Event
      /\ \A i \in 1..Len(shown[c]) : shown[c][i] \in Event
      /\ Len(channel[c]) \in Nat
  BY <1>1 DEF TypeOK
<1>3. \A i \in 1..Len(channel'[c]) : i \in 1..Len(channel[c]) \/ i = Len(channel[c]) + 1
  BY <1>2
<1>4. ~Past(e, c) /\ Past(e, c)'
  BY <1>1 DEF Past
<1>5. follower[c] \in {"live", "leave"}
  BY <1>1 DEF BoardOK
<1>6. /\ \A i \in 1..Len(shown[c]) : shown[c][i] # e
      /\ \A i \in 1..Len(channel[c]) : channel[c][i] # e
  BY <1>4 DEF Seen
<1>7. \A x \in Event : Past(x, c) => Past(x, c)'
  BY EmitterStep
<1>8. \A i \in 1..Len(shown'[c]) : Past(shown[c][i], c)'
  BY <1>1, <1>2, <1>7 DEF Seen, Past
<1>9. \A i \in 1..Len(channel'[c]) : Past(channel[c][i], c)'
  <2> SUFFICES ASSUME NEW i \in 1..Len(channel'[c]) PROVE Past(channel[c][i], c)'
    OBVIOUS
  <2>1. CASE i \in 1..Len(channel[c])
    BY <1>2, <1>7, <2>1 DEF Seen, Past
  <2>2. CASE i = Len(channel[c]) + 1
    BY <1>2, <1>4, <2>2 DEF Past
  <2> QED
    BY <1>3, <2>1, <2>2
<1>10. Distinct(channel'[c])
  BY <1>2, <1>3, <1>6 DEF Seen, Distinct
<1> QED
  BY <1>1, <1>2, <1>3, <1>5, <1>6, <1>8, <1>9, <1>10 DEF Seen, Distinct, Past

\* The oldest waiting event moves from the channel to the dashboard.
LEMMA ShowSeen ==
  ASSUME TypeOK, BoardOK, [Next]_vars, NEW c \in Client, Seen(c), Show(c)
  PROVE  Seen(c)'
<1> DEFINE e == channel[c][1]
<1>1. /\ shown'[c] = Append(shown[c], Head(channel[c]))
      /\ channel'[c] = Tail(channel[c])
      /\ channel[c] # <<>> /\ channel[c] \in Seq(Event) /\ shown[c] \in Seq(Event)
      /\ follower'[c] = "live"
      /\ emitter' = emitter /\ todo' = todo
  BY DEF Show, TypeOK
<1>2. /\ Len(channel'[c]) = Len(channel[c]) - 1
      /\ \A i \in 1..Len(channel'[c]) : channel'[c][i] = channel[c][i + 1]
      /\ 1 \in 1..Len(channel[c])
      /\ Len(channel[c]) \in Nat
  BY <1>1
<1>3. /\ Len(shown'[c]) = Len(shown[c]) + 1 /\ shown'[c][Len(shown[c]) + 1] = e
      /\ \A i \in 1..Len(shown[c]) : shown'[c][i] = shown[c][i]
      /\ Len(shown[c]) \in Nat
  BY <1>1
<1>4. \A i \in 1..Len(shown'[c]) : i \in 1..Len(shown[c]) \/ i = Len(shown[c]) + 1
  BY <1>3
<1>5. \A i \in 1..Len(channel'[c]) : i + 1 \in 1..Len(channel[c]) /\ i + 1 # 1
  BY <1>2
<1>6. /\ \A i \in 1..Len(shown[c]) : Past(shown[c][i], c)
      /\ \A i \in 1..Len(channel[c]) : Past(channel[c][i], c)
      /\ \A i \in 1..Len(shown[c]), j \in 1..Len(channel[c]) : shown[c][i] # channel[c][j]
      /\ \A i, j \in 1..Len(shown[c]) : i # j => shown[c][i] # shown[c][j]
      /\ \A i, j \in 1..Len(channel[c]) : i # j => channel[c][i] # channel[c][j]
  BY DEF Seen, Distinct
<1>7. \A x : Past(x, c) => Past(x, c)'
  BY <1>1 DEF Past
<1>8. Distinct(shown'[c])
  BY <1>2, <1>3, <1>4, <1>6 DEF Distinct
<1>9. Distinct(channel'[c])
  <2> SUFFICES ASSUME NEW i \in 1..Len(channel'[c]), NEW j \in 1..Len(channel'[c]), i # j
               PROVE  channel'[c][i] # channel'[c][j]
    BY DEF Distinct
  <2>1. i + 1 # j + 1 /\ i + 1 \in 1..Len(channel[c]) /\ j + 1 \in 1..Len(channel[c])
    BY <1>5
  <2> QED
    BY <1>2, <1>6, <2>1
<1>10. \A i \in 1..Len(shown'[c]) : Past(shown[c][i], c)'
  BY <1>2, <1>3, <1>4, <1>6, <1>7 DEF Past
<1>11. \A i \in 1..Len(channel'[c]) : Past(channel[c][i], c)'
  BY <1>2, <1>5, <1>6, <1>7 DEF Past
<1>12. \A i \in 1..Len(shown'[c]), j \in 1..Len(channel'[c]) : shown'[c][i] # channel'[c][j]
  BY <1>2, <1>3, <1>4, <1>5, <1>6
<1> QED
  BY <1>1, <1>8, <1>9, <1>10, <1>11, <1>12 DEF Seen, Past

\* What is listed is stored, so its emitter is done, and has no c to serve.
LEMMA ListSeen ==
  ASSUME TypeOK, BoardOK, StoredOK, [Next]_vars, NEW c \in Client, Seen(c), List(c)
  PROVE  Seen(c)'
<1>1. /\ follower[c] = "list" /\ follower'[c] = "subscribe"
      /\ channel'[c] = <<>> /\ shown[c] = <<>>
      /\ emitter' = emitter /\ todo' = todo
      /\ shown'[c] = shown[c] \/ shown'[c] = Newest
  BY DEF List, Follows, Seen, TypeOK, board
<1>2. CASE shown'[c] = <<>>
  BY <1>1, <1>2 DEF Seen, Distinct
<1>3. CASE shown'[c] = Newest
  <2> DEFINE first == IF Len(stored) > Recent THEN Len(stored) - Recent + 1 ELSE 1
  <2>1. first \in Nat \ {0} /\ Len(stored) \in Nat /\ stored \in Seq(Alert)
    BY StreamsAssumption DEF TypeOK
  <2>2. /\ Len(Newest) \in Nat
        /\ \A i \in 1..Len(Newest) :
             Newest[i] = stored[i + first - 1] /\ i + first - 1 \in 1..Len(stored)
    BY <2>1 DEF Newest
  <2>3. \A i \in 1..Len(stored) : Past(stored[i], c)
    <3> SUFFICES ASSUME NEW i \in 1..Len(stored) PROVE Past(stored[i], c)
      OBVIOUS
    <3>1. emitter[stored[i]] = "done" /\ stored[i] \in Event
      BY DEF StoredOK, TypeOK, Event
    <3>2. todo[stored[i]] = {}
      BY <3>1 DEF BoardOK
    <3> QED
      BY <1>1, <3>1, <3>2 DEF Past
  <2>4. Distinct(Newest)
    <3> SUFFICES ASSUME NEW i \in 1..Len(Newest), NEW j \in 1..Len(Newest), i # j
                 PROVE  Newest[i] # Newest[j]
      BY DEF Distinct
    <3> HIDE DEF first
    <3>1. i + first - 1 # j + first - 1
      BY <2>1, <2>2
    <3> QED
      BY <2>2, <3>1 DEF StoredOK, Distinct
  <2>5. \A i \in 1..Len(Newest) : Past(Newest[i], c)
    <3> HIDE DEF first
    <3> QED
      BY <2>2, <2>3
  <2> HIDE DEF first
  <2> QED
    BY <1>1, <1>3, <2>4, <2>5 DEF Seen, Distinct, Past
<1> QED
  BY <1>1, <1>2, <1>3

\* The other steps leave both lists of a dashboard alone.
LEMMA OtherSeen ==
  ASSUME TypeOK, BoardOK, [Next]_vars, NEW c \in Client, Seen(c),
         ~Show(c), ~List(c), \A e \in Event : ~(Send(e, c) /\ HasRoom(c))
  PROVE  Seen(c)'
<1> DEFINE Same == /\ shown'[c] = shown[c] /\ channel'[c] = channel[c]
                   /\ follower'[c] \in {"off", "list"} => follower[c] \in {"off", "list"}
                   /\ follower'[c] \in {"off", "list", "subscribe"}
                        => follower[c] \in {"off", "list", "subscribe"}
<1>1. CASE UNCHANGED vars
  BY <1>1, SameSeen DEF vars, board, dash
<1>2. ASSUME NEW e \in Event, Emit(e) PROVE Same
  BY <1>2 DEF Emit, board, dash
<1>3. ASSUME NEW e \in Event, Emitter(e) PROVE Same
  <2>1. ASSUME NEW d \in Client, Send(e, d) PROVE Same
    BY <2>1 DEF Send, dash, TypeOK
  <2>2. ASSUME \A d \in Client : ~Send(e, d) PROVE Same
    BY <1>3, <2>2 DEF Emitter, BeginBroadcast, EndBroadcast, RecordFails, RecordEvent,
                      RecordUsage, board, dash
  <2> QED
    BY <2>1, <2>2
<1>4. ASSUME NEW d \in Client,
             Connect(d) \/ List(d) \/ Subscribe(d) \/ Show(d) \/ Leave(d) \/ Unsubscribe(d)
      PROVE  Same
  <2>1. CASE Connect(d)
    BY <2>1 DEF Connect, Follows, board, TypeOK
  <2>2. CASE List(d)
    BY <2>2 DEF List, Follows, board, TypeOK
  <2>3. CASE Subscribe(d)
    BY <2>3 DEF Subscribe, Follows, TypeOK
  <2>4. CASE Show(d)
    BY <2>4 DEF Show, TypeOK
  <2>5. CASE Leave(d)
    BY <2>5 DEF Leave, Follows, board, TypeOK
  <2>6. CASE Unsubscribe(d)
    BY <2>6 DEF Unsubscribe, Follows, TypeOK
  <2> QED
    BY <1>4, <2>1, <2>2, <2>3, <2>4, <2>5, <2>6
<1>5. ASSUME NEW s \in Stream, Intercept(s) PROVE Same
  <2>1. CASE StillThere(s) \/ ReadLine(s) \/ WriteLine(s)
    BY <2>1 DEF StillThere, ReadLine, WriteLine, board, dash
  <2>2. CASE StreamEnds(s)
    BY <2>2 DEF StreamEnds, Finish, board, dash
  <2> QED
    BY <1>5, <2>1, <2>2 DEF Intercept
<1>6. ASSUME NEW x \in Client \cup Stream, Disconnect(x) PROVE Same
  BY <1>6 DEF Disconnect, board, dash
<1>7. CASE Next
  <2>1. Same
    BY <1>2, <1>3, <1>4, <1>5, <1>6, <1>7 DEF Next
  <2> QED
    BY <2>1, SameSeen
<1> QED
  BY <1>1, <1>7

LEMMA SeenStep ==
  ASSUME TypeOK, BoardOK, StoredOK, SeenOK, [Next]_vars
  PROVE  SeenOK'
BY SendSeen, ShowSeen, ListSeen, OtherSeen DEF SeenOK

LEMMA Inductive == IInv /\ [Next]_vars => IInv'
BY TypeStep, BoardStep, StoredStep, SeenStep DEF IInv

LEMMA Invariant == Spec => []IInv
BY InitOK, Inductive, PTL DEF Spec

-----------------------------------------------------------------------------
\* The variables of emitters, dashboards and streams keep their types; in particular no
\* channel ever holds more than its buffer.
THEOREM TypeCorrect == Spec => []TypeOK
BY Invariant, PTL DEF IInv

\* No Broadcast ever sends on a channel that Unsubscribe has closed.
THEOREM NoSendOnClosed == Spec => []NeverSendsOnClosed
<1>1. IInv => NeverSendsOnClosed
  BY DEF IInv, BoardOK, NeverSendsOnClosed
<1> QED
  BY <1>1, Invariant, PTL

\* No dashboard is shown an event twice, however history and live events meet.
THEOREM ShownOnce == Spec => []ShownAtMostOnce
<1>1. IInv => ShownAtMostOnce
  BY DEF IInv, SeenOK, Seen, Distinct, ShownAtMostOnce
<1> QED
  BY <1>1, Invariant, PTL
=============================================================================
