---------------------------- MODULE SessionStream ----------------------------
(***************************************************************************)
(* The standing SSE stream of one HTTP session, from the StreamState of    *)
(* the server to the stream manager of HttpClientTransport.  Messages that *)
(* no POST waits for become numbered events.  The server keeps the last    *)
(* ones for replay and queues each on the stream that is installed; the    *)
(* client opens one GET after another and names the last event it saw.     *)
(*                                                                         *)
(* An event is its number.  A GET is its place in the client's sequence of *)
(* GETs; the stream it installs has the same number.  A GET the client     *)
(* gave up can still arrive, even after a later one.  The session lives as *)
(* long as the model runs; HttpSessions has the end of sessions.           *)
(***************************************************************************)
EXTENDS Naturals, Sequences

CONSTANTS ReplayCapacity,  \* SSE_REPLAY_CAPACITY
          StreamCapacity,  \* what the channel of SSE_STREAM_CAPACITY can hold
          WireCapacity,    \* bound on the events between the channel and the client
          MaxEvents,       \* bound on the events
          MaxStreams,      \* bound on the GETs of the client
          MaxFailures      \* bound on the connections that break

\* attach_stream relies on the first: what it replays fits the new channel.
ASSUME CapacityAssumption ==
  /\ {ReplayCapacity, StreamCapacity, WireCapacity} \subseteq Nat \ {0}
  /\ ReplayCapacity <= StreamCapacity
ASSUME BoundAssumption ==
  /\ {MaxEvents, MaxFailures} \subseteq Nat
  /\ MaxStreams \in Nat \ {0}

VARIABLES
  \* StreamState
  lastId,     \* last_id
  replay,     \* replay
  tx,         \* the GET whose stream is installed, 0 for None
  \* the receivers that handle_get returned
  queue,      \* the events queued on each stream
  receiver,   \* whether the response of a GET still holds its receiver
  \* the client
  get,        \* the last GET it sent
  asked,      \* the Last-Event-ID of each GET, 0 for none
  status,     \* what became of each GET
  client,     \* connect_sse
  wire,       \* events on their way to the client
  lastSeen,   \* last_event_id, 0 for None
  failures,   \* connections that broke
  \* history
  received,   \* the events the client read
  attachedAt  \* lastId when the stream of a GET was installed

serverVars == <<lastId, replay, tx, queue, receiver>>
clientVars == <<get, asked, client, wire, lastSeen, failures>>
streamVars == <<serverVars, clientVars, status, received, attachedAt>>

Streams == 1..MaxStreams
Events  == 1..MaxEvents

StreamTypeOK ==
  /\ lastId \in 0..MaxEvents
  /\ replay \in Seq(Events) /\ Len(replay) <= ReplayCapacity
  /\ tx \in 0..MaxStreams
  /\ queue \in [Streams -> Seq(Events)]
  /\ \A n \in Streams : Len(queue[n]) <= StreamCapacity
  /\ receiver \in [Streams -> BOOLEAN]
  /\ get \in 0..MaxStreams
  /\ asked \in [Streams -> 0..MaxEvents]
  /\ status \in [Streams -> {"unsent", "flying", "attached"}]
  /\ client \in {"away", "asking", "reading"}
  /\ wire \in Seq(Events)
  /\ lastSeen \in 0..MaxEvents
  /\ failures \in 0..MaxFailures
  /\ received \in Seq(Events)
  /\ attachedAt \in [Streams -> 0..MaxEvents]

StreamInit ==
  /\ lastId = 0 /\ replay = <<>> /\ tx = 0
  /\ queue = [n \in Streams |-> <<>>]
  /\ receiver = [n \in Streams |-> FALSE]
  /\ get = 0
  /\ asked = [n \in Streams |-> 0]
  /\ status = [n \in Streams |-> "unsent"]
  /\ client = "away"
  /\ wire = <<>> /\ lastSeen = 0 /\ failures = 0
  /\ received = <<>>
  /\ attachedAt = [n \in Streams |-> 0]

\* The client is there and the GET it waits for or reads is n.
Current(n) == n = get /\ client # "away"

-----------------------------------------------------------------------------
(* The operations of StreamState, each under its lock.                     *)

\* try_send on the stream n succeeds.
Accepts(n) == receiver[n] /\ Len(queue[n]) < StreamCapacity

(* Deviations: the operation with one plausible mistake each.  No          *)
(* specification uses them; they show that the properties can fail.        *)

ReplayedAgain(last) ==      \* Replayed: repeats the last event
  IF last = 0 THEN <<>>
  ELSE LET old == CHOOSE k \in 0..Len(replay) :
                    \A i \in 1..Len(replay) : i <= k <=> replay[i] < last
       IN  SubSeq(replay, old + 1, Len(replay))

RememberUnsent(e) ==        \* Remember: retains only what no stream accepts
  IF tx # 0 /\ Accepts(tx) THEN replay
  ELSE LET all == Append(replay, e)
       IN  IF Len(all) > ReplayCapacity THEN Tail(all) ELSE all

RememberAll(e) == Append(replay, e)   \* Remember: never drops the oldest

\* The replay buffer with one more event: a full one loses its oldest.
Remember(e) ==
  LET all == Append(replay, e)
  IN  IF Len(all) > ReplayCapacity THEN Tail(all) ELSE all

\* The events a new stream starts with: what is retained and newer than the
\* last event the client saw, or nothing when the client names none.  The
\* buffer is ascending, so what is newer is what follows the old ones.
Replayed(last) ==
  IF last = 0 THEN <<>>
  ELSE LET old == CHOOSE k \in 0..Len(replay) :
                    \A i \in 1..Len(replay) : i <= k <=> replay[i] <= last
       IN  SubSeq(replay, old + 1, Len(replay))

\* Another deviation, of SendToStream: a full stream stays installed.
SendKeepsStream ==
  /\ lastId < MaxEvents
  /\ lastId' = lastId + 1
  /\ replay' = Remember(lastId + 1)
  /\ queue' = IF tx # 0 /\ Accepts(tx)
              THEN [queue EXCEPT ![tx] = Append(@, lastId + 1)] ELSE queue
  /\ UNCHANGED <<tx, receiver, clientVars, status, received, attachedAt>>

\* send_to_stream, for a message that deliver routes to no POST.
SendToStream ==
  /\ lastId < MaxEvents
  /\ lastId' = lastId + 1
  /\ replay' = Remember(lastId + 1)
  /\ IF tx # 0 /\ Accepts(tx)
     THEN queue' = [queue EXCEPT ![tx] = Append(@, lastId + 1)] /\ UNCHANGED tx
     ELSE tx' = 0 /\ UNCHANGED queue
  /\ UNCHANGED <<receiver, clientVars, status, received, attachedAt>>

\* handle_get reaches attach_stream: the stream of n replaces any other.
AttachStream(n) ==
  /\ status[n] = "flying"
  /\ status' = [status EXCEPT ![n] = "attached"]
  /\ queue' = [queue EXCEPT ![n] = Replayed(asked[n])]
  /\ receiver' = [receiver EXCEPT ![n] = TRUE]
  /\ tx' = n
  /\ attachedAt' = [attachedAt EXCEPT ![n] = lastId]
  /\ UNCHANGED <<lastId, replay, clientVars, received>>

\* stream_alive, when the session cleanup finds a consumer that went away.
ClearStream ==
  /\ tx # 0 /\ ~receiver[tx]
  /\ tx' = 0
  /\ UNCHANGED <<lastId, replay, queue, receiver, clientVars, status, received,
                 attachedAt>>

\* The HTTP server notices that nobody reads the response of n and drops it.
ReceiverDropped(n) ==
  /\ receiver[n] /\ ~Current(n)
  /\ receiver' = [receiver EXCEPT ![n] = FALSE]
  /\ queue' = [queue EXCEPT ![n] = <<>>]
  /\ UNCHANGED <<lastId, replay, tx, clientVars, status, received, attachedAt>>

-----------------------------------------------------------------------------
(* The client: run_sse_manager calls connect_sse again and again.          *)

\* Send the next GET with the last event id.
Ask ==
  /\ client = "away" /\ get < MaxStreams
  /\ client' = "asking"
  /\ get' = get + 1
  /\ asked' = [asked EXCEPT ![get + 1] = lastSeen]
  /\ status' = [status EXCEPT ![get + 1] = "flying"]
  /\ wire' = <<>>
  /\ UNCHANGED <<serverVars, lastSeen, failures, received, attachedAt>>

\* The response of the GET has begun.
Opened ==
  /\ client = "asking" /\ status[get] = "attached"
  /\ client' = "reading"
  /\ UNCHANGED <<serverVars, status, get, asked, wire, lastSeen, failures,
                 received, attachedAt>>

\* The HTTP server takes an event from the receiver and writes it.
Write ==
  /\ client # "away" /\ receiver[get] /\ queue[get] # <<>>
  /\ Len(wire) < WireCapacity
  /\ wire' = Append(wire, Head(queue[get]))
  /\ queue' = [queue EXCEPT ![get] = Tail(@)]
  /\ UNCHANGED <<lastId, replay, tx, receiver, get, asked, client, lastSeen,
                 failures, status, received, attachedAt>>

\* connect_sse handles one event.
Read ==
  /\ client = "reading" /\ wire # <<>>
  /\ lastSeen' = Head(wire)
  /\ received' = Append(received, Head(wire))
  /\ wire' = Tail(wire)
  /\ UNCHANGED <<serverVars, get, asked, client, failures, status, attachedAt>>

\* The stream ends: its sender is gone and everything queued was read.
End ==
  /\ client = "reading" /\ wire = <<>> /\ queue[get] = <<>> /\ tx # get
  /\ client' = "away"
  /\ receiver' = [receiver EXCEPT ![get] = FALSE]
  /\ UNCHANGED <<lastId, replay, tx, queue, get, asked, wire, lastSeen, failures,
                 status, received, attachedAt>>

\* The connection of the GET breaks, before or after its response began.
Break ==
  /\ client # "away" /\ failures < MaxFailures
  /\ client' = "away"
  /\ failures' = failures + 1
  /\ wire' = <<>>
  /\ UNCHANGED <<serverVars, get, asked, lastSeen, status, received, attachedAt>>

StreamNext ==
  \/ SendToStream
  \/ \E n \in Streams : AttachStream(n)
  \/ ClearStream
  \/ \E n \in Streams : ReceiverDropped(n)
  \/ Ask
  \/ Opened
  \/ Write
  \/ Read
  \/ End
  \/ Break

StreamSpec == StreamInit /\ [][StreamNext]_streamVars

\* The GET the client waits for arrives, the HTTP server writes, and the
\* manager of the client reads and reconnects.  Nothing obliges a GET that was
\* given up to arrive, an event to be sent or a connection to break.
AttachCurrent == client = "asking" /\ AttachStream(get)

StreamFairness ==
  /\ WF_streamVars(AttachCurrent)
  /\ WF_streamVars(Opened)
  /\ WF_streamVars(Write)
  /\ WF_streamVars(Read)
  /\ WF_streamVars(End)
  /\ WF_streamVars(Ask)

StreamFairSpec == StreamSpec /\ StreamFairness

-----------------------------------------------------------------------------

\* An event may be missing at the client only when a GET was answered too late
\* to replay it, or was sent before the client knew any event.
Forgotten(e) ==
  \E n \in Streams :
    /\ status[n] = "attached" /\ e <= attachedAt[n]
    /\ asked[n] = 0 \/ e + ReplayCapacity <= attachedAt[n]

\* The client reads every event at most once and in the order of their
\* numbers, across streams that replace each other and replays that overlap
\* what was in flight (send_to_stream, attach_stream).
InOrderOnce ==
  \A i, j \in 1..Len(received) : i < j => received[i] < received[j]

\* Up to the last event it read, the client misses only events that had left
\* the replay buffer, or that no Last-Event-ID asked for.
NoSilentLoss ==
  \A e \in 1..lastSeen :
    \/ \E i \in 1..Len(received) : received[i] = e
    \/ Forgotten(e)

\* A client that has read something catches up with every event, whatever
\* breaks on the way: a stalled stream is dropped so that it reconnects.
CatchesUp ==
  \A e \in Events : (lastSeen # 0 /\ lastId >= e) ~> lastSeen >= e

\* What the comments say of reconnecting: the server replays missed events by
\* Last-Event-ID.  Only events sent after a stream was installed count, and
\* none that left the replay buffer.
MissedEventsAreReplayed ==
  \A e \in 1..lastSeen :
    (\E n \in Streams : status[n] = "attached" /\ attachedAt[n] < e)
      => \/ \E i \in 1..Len(received) : received[i] = e
         \/ \E n \in Streams : e + ReplayCapacity <= attachedAt[n]
=============================================================================
