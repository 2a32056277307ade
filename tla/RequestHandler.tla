--------------------------- MODULE RequestHandler ---------------------------
(***************************************************************************)
(* The outbound half of a connection: RequestHandler correlates the        *)
(* requests a peer sends with the responses it receives, gives each one a  *)
(* deadline, tells the other side about a request it abandoned, and wakes  *)
(* every request when the transport shuts down.  The module also drives    *)
(* the handler the way Client does: connect, disconnect, drop, and the     *)
(* message loop that dispatches responses and forwards the notices.        *)
(*                                                                         *)
(* The tasks that send requests, the message loop and the owner of the     *)
(* client run on different threads.  A step of the model is a stretch of   *)
(* code between two points where another thread can observe the state.     *)
(* Connect, Disconnect and DropClient take `&mut self` (or the client      *)
(* itself), so none of them overlaps a request that is still in its send;  *)
(* a request that waits for its response owns only the handler and can     *)
(* outlive any number of connections.                                      *)
(***************************************************************************)
EXTENDS Naturals, Sequences

CONSTANTS Requests,        \* the calls of request_pending_with_timeout
          Nobody,          \* no request
          MaxId,           \* bound on the request counter
          MaxConnections   \* bound on the calls of Client::connect

ASSUME RequestAssumption ==
  Requests \cap {Nobody, "none", "open", "closed"} = {}
ASSUME BoundAssumption == MaxId \in Nat \ {0} /\ MaxConnections \in Nat \ {0}

VARIABLES
  \* RequestHandlerInner
  nextId,          \* next_request_id
  slots,           \* pending_requests: whose response sender is under an id
  transport,       \* transport_tx: the connection it writes to, 0 for None
  cancellations,   \* the connection whose notice queue is installed, 0 for None
  shuttingDown,    \* shutting_down
  \* one OutboundRequest per member of Requests
  pc,              \* where its future is
  id,              \* its request id, 0 before it starts
  timed,           \* whether it has a deadline
  cancel,          \* the connection its notice would go to, 0 for None
  sink,            \* the connection it writes to, 0 for none
  chan,            \* its oneshot; a value is the request the answer was made for
  outcome,         \* how its caller sees it end
  \* the connections
  conn,            \* connections made so far; the last one is the current one
  loop,            \* message loop of the current connection
  owner,           \* progress of the owner of the client
  holder,          \* the request that holds the lock of the current sink
  notices,         \* cancel_rx of the current loop
  seen             \* what was written to a transport about each request

handlerVars == <<nextId, slots, transport, cancellations, shuttingDown>>
requestVars == <<pc, id, timed, cancel, sink, chan, outcome>>
connVars    == <<conn, loop, owner, holder, notices, seen>>
vars        == <<handlerVars, requestVars, connVars>>

Ids   == 1..MaxId
Conns == 0..MaxConnections

\* The caller still borrows the client: the request is not through its send.
InSend(r) == pc[r] \in {"started", "sending", "flushing"}

\* The future of the request exists and nothing has decided its outcome.
Live(r) == InSend(r) \/ pc[r] = "waiting"

GivenUp  == {"timeout", "abandoned"}
Outcomes == {"none", "response", "disconnected", "protocol", "failed"} \cup GivenUp
Message  == [kind : {"request", "cancelled"}, conn : Conns]

TypeOK ==
  /\ nextId \in 1..(MaxId + 1)
  /\ slots \in [Ids -> Requests \cup {Nobody}]
  /\ transport \in Conns
  /\ cancellations \in Conns
  /\ shuttingDown \in BOOLEAN
  /\ pc \in [Requests -> {"idle", "started", "sending", "flushing", "waiting",
                          "drop", "notify", "done"}]
  /\ id \in [Requests -> 0..MaxId]
  /\ timed \in [Requests -> BOOLEAN]
  /\ cancel \in [Requests -> Conns]
  /\ sink \in [Requests -> Conns]
  /\ chan \in [Requests -> Requests \cup {"none", "open", "closed"}]
  /\ outcome \in [Requests -> Outcomes]
  /\ conn \in Conns
  /\ loop \in {"none", "running", "forwarding", "flagged", "detached", "stopped"}
  /\ owner \in {"free", "flagged", "detached", "stopping", "gone"}
  /\ holder \in Requests \cup {Nobody}
  /\ notices \in Seq(Requests)
  /\ seen \in [Requests -> Seq(Message)]

Init ==
  /\ nextId = 1
  /\ slots = [i \in Ids |-> Nobody]
  /\ transport = 0
  /\ cancellations = 0
  /\ shuttingDown = FALSE
  /\ pc = [r \in Requests |-> "idle"]
  /\ id = [r \in Requests |-> 0]
  /\ timed \in [Requests -> BOOLEAN]
  /\ cancel = [r \in Requests |-> 0]
  /\ sink = [r \in Requests |-> 0]
  /\ chan = [r \in Requests |-> "none"]
  /\ outcome = [r \in Requests |-> "none"]
  /\ conn = 0
  /\ loop = "none"
  /\ owner = "free"
  /\ holder = Nobody
  /\ notices = <<>>
  /\ seen = [r \in Requests |-> <<>>]

\* The future of the request ends with the outcome o and is about to drop.
Finish(r, o) ==
  /\ outcome' = [outcome EXCEPT ![r] = o]
  /\ pc' = [pc EXCEPT ![r] = "drop"]
  /\ holder' = IF holder = r THEN Nobody ELSE holder

-----------------------------------------------------------------------------
(* Deviations: each is the action named in its comment with one plausible  *)
(* mistake.  No specification uses them; they show that the properties     *)
(* below can fail.                                                         *)

\* SendFails without its early end: the notice outlives the failed send.
SendFailsKeepsNotice(r) ==
  /\ pc[r] \in {"sending", "flushing"}
  /\ Finish(r, "failed")
  /\ UNCHANGED <<handlerVars, id, timed, cancel, sink, chan, conn, loop, owner, notices, seen>>

\* CloneTransport that trusts a transport cloned earlier to be alive still.
CloneStaleTransport(r) ==
  /\ pc[r] = "started" /\ conn # 0
  /\ sink' = [sink EXCEPT ![r] = conn]
  /\ pc' = [pc EXCEPT ![r] = "sending"]
  /\ UNCHANGED <<handlerVars, id, timed, cancel, chan, outcome, connVars>>

\* Expire that covers the send but not the wait.
ExpireInSendOnly(r) ==
  /\ timed[r] /\ pc[r] \in {"sending", "flushing"}
  /\ Finish(r, "timeout")
  /\ UNCHANGED <<handlerVars, id, timed, cancel, sink, chan, conn, loop, owner, notices, seen>>

\* ReleaseSlot that leaves the slot to a later cleanup.
ReleaseNothing(r) ==
  /\ pc[r] = "drop"
  /\ pc' = [pc EXCEPT ![r] = "done"]
  /\ UNCHANGED <<handlerVars, id, timed, cancel, sink, chan, outcome, connVars>>

\* ReleaseSlot that notifies whether or not the slot was still there.
ReleaseAlwaysNotifies(r) ==
  /\ pc[r] = "drop"
  /\ slots' = [slots EXCEPT ![id[r]] = Nobody]
  /\ chan' = [chan EXCEPT ![r] = IF slots[id[r]] = r THEN "closed" ELSE @]
  /\ pc' = [pc EXCEPT ![r] = IF cancel[r] # 0 THEN "notify" ELSE "done"]
  /\ UNCHANGED <<nextId, transport, cancellations, shuttingDown,
                 id, timed, cancel, sink, outcome, connVars>>

\* Notify that uses the queue installed now, not the one it captured.
NotifyCurrentConnection(r) ==
  /\ pc[r] = "notify"
  /\ notices' = IF cancellations # 0 THEN Append(notices, r) ELSE notices
  /\ pc' = [pc EXCEPT ![r] = "done"]
  /\ UNCHANGED <<handlerVars, id, timed, cancel, sink, chan, outcome, conn, loop, owner, holder, seen>>

\* Notify that shares a bounded queue and drops the notice when it is full.
NotifyBounded(r) ==
  /\ pc[r] = "notify"
  /\ notices' = IF ~shuttingDown /\ cancel[r] = conn /\ notices = <<>> /\ loop = "running"
                THEN Append(notices, r) ELSE notices
  /\ cancel' = [cancel EXCEPT ![r] = 0]
  /\ pc' = [pc EXCEPT ![r] = "done"]
  /\ UNCHANGED <<handlerVars, id, timed, sink, chan, outcome, conn, loop, owner, holder, seen>>

\* Dispatch that loses an answer which overtakes the end of the send.
DispatchToWaiterOnly(q) ==
  /\ loop = "running"
  /\ \E k \in DOMAIN seen[q] : seen[q][k].kind = "request"
  /\ LET r == slots[id[q]] IN
       /\ r # Nobody
       /\ slots' = [slots EXCEPT ![id[q]] = Nobody]
       /\ chan' = IF pc[r] = "waiting" THEN [chan EXCEPT ![r] = q] ELSE chan
  /\ UNCHANGED <<nextId, transport, cancellations, shuttingDown,
                 pc, id, timed, cancel, sink, outcome, connVars>>

\* Connect that starts the request counter again.
ConnectResetsIds ==
  /\ owner = "free" /\ conn < MaxConnections
  /\ loop \in {"none", "running", "stopped"}
  /\ nextId' = 1
  /\ conn' = conn + 1
  /\ transport' = conn + 1
  /\ shuttingDown' = FALSE
  /\ cancellations' = conn + 1
  /\ loop' = "running"
  /\ notices' = <<>>
  /\ UNCHANGED <<slots, requestVars, owner, holder, seen>>

\* Connect without its bound.
ConnectUnbounded ==
  /\ owner = "free"
  /\ conn' = conn + 1
  /\ transport' = conn + 1
  /\ UNCHANGED <<nextId, slots, cancellations, shuttingDown, requestVars,
                 loop, owner, holder, notices, seen>>

-----------------------------------------------------------------------------
(* One outbound request                                                    *)

\* request_pending_with_timeout clones the installed notice sender and
\* OutboundRequest::start takes an id and stores the slot.
Start(r) ==
  /\ pc[r] = "idle" /\ owner = "free"
  /\ nextId \in Ids
  /\ id' = [id EXCEPT ![r] = nextId]
  /\ nextId' = nextId + 1
  /\ slots' = [slots EXCEPT ![nextId] = r]
  /\ chan' = [chan EXCEPT ![r] = "open"]
  /\ cancel' = [cancel EXCEPT ![r] = cancellations]
  /\ pc' = [pc EXCEPT ![r] = "started"]
  /\ UNCHANGED <<transport, cancellations, shuttingDown, timed, sink, outcome, connVars>>

\* send_message refuses when the handler is shutting down or has no
\* transport, and clones the transport otherwise.  The first poll of the send
\* runs this far, before any deadline and before the caller can drop it.
Refused(r) ==
  /\ pc[r] = "started"
  /\ shuttingDown \/ transport = 0
  /\ cancel' = [cancel EXCEPT ![r] = 0]
  /\ Finish(r, "failed")
  /\ UNCHANGED <<handlerVars, id, timed, sink, chan, conn, loop, owner, notices, seen>>

CloneTransport(r) ==
  /\ pc[r] = "started"
  /\ ~shuttingDown /\ transport # 0
  /\ sink' = [sink EXCEPT ![r] = transport]
  /\ pc' = [pc EXCEPT ![r] = "sending"]
  /\ UNCHANGED <<handlerVars, id, timed, cancel, chan, outcome, connVars>>

\* The sink accepts the message under its lock.  From here on it reaches the
\* other side even when the caller drops the send: the next writer flushes it.
Buffer(r) ==
  /\ pc[r] = "sending" /\ holder = Nobody
  /\ holder' = r
  /\ seen' = [seen EXCEPT ![r] = Append(@, [kind |-> "request", conn |-> sink[r]])]
  /\ pc' = [pc EXCEPT ![r] = "flushing"]
  /\ UNCHANGED <<handlerVars, id, timed, cancel, sink, chan, outcome, conn, loop, owner, notices>>

Flushed(r) ==
  /\ pc[r] = "flushing"
  /\ holder' = Nobody
  /\ pc' = [pc EXCEPT ![r] = "waiting"]
  /\ UNCHANGED <<handlerVars, id, timed, cancel, sink, chan, outcome, conn, loop, owner, notices, seen>>

\* The transport fails during the send: there is no request to cancel.
SendFails(r) ==
  /\ \/ pc[r] = "sending" /\ holder = Nobody
     \/ pc[r] = "flushing"
  /\ cancel' = [cancel EXCEPT ![r] = 0]
  /\ Finish(r, "failed")
  /\ UNCHANGED <<handlerVars, id, timed, sink, chan, conn, loop, owner, notices, seen>>

\* The deadline passes.  timeout_at polls the response first, so a response
\* (or a closed channel) that is already there wins.
Expire(r) ==
  /\ timed[r]
  /\ \/ pc[r] \in {"sending", "flushing"}
     \/ pc[r] = "waiting" /\ chan[r] = "open"
  /\ Finish(r, "timeout")
  /\ UNCHANGED <<handlerVars, id, timed, cancel, sink, chan, conn, loop, owner, notices, seen>>

\* The caller drops the future, or wait_cancellable (biased) sees its cancel
\* future first.
Abandon(r) ==
  /\ pc[r] \in {"sending", "flushing", "waiting"}
  /\ Finish(r, "abandoned")
  /\ UNCHANGED <<handlerVars, id, timed, cancel, sink, chan, conn, loop, owner, notices, seen>>

\* OutboundRequest::response wakes up with a response or a closed channel.
Receive(r) ==
  /\ pc[r] = "waiting" /\ chan[r] # "open"
  /\ cancel' = [cancel EXCEPT ![r] = 0]
  /\ Finish(r, IF chan[r] # "closed" THEN "response"
               ELSE IF shuttingDown THEN "disconnected" ELSE "protocol")
  /\ UNCHANGED <<handlerVars, id, timed, sink, chan, conn, loop, owner, notices, seen>>

\* Drop for OutboundRequest takes the slot out of the map; only a request
\* that still owned it, and still has a notice to send, goes on.
ReleaseSlot(r) ==
  /\ pc[r] = "drop"
  /\ slots' = [slots EXCEPT ![id[r]] = Nobody]
  /\ chan' = [chan EXCEPT ![r] = IF slots[id[r]] = r THEN "closed" ELSE @]
  /\ pc' = [pc EXCEPT ![r] = IF slots[id[r]] # Nobody /\ cancel[r] # 0
                             THEN "notify" ELSE "done"]
  /\ UNCHANGED <<nextId, transport, cancellations, shuttingDown,
                 id, timed, cancel, sink, outcome, connVars>>

\* ... to the queue it captured, unless the connection is closing.  A queue
\* whose loop is gone refuses the notice.
Notify(r) ==
  /\ pc[r] = "notify"
  /\ notices' = IF ~shuttingDown /\ cancel[r] = conn /\ loop \in {"running", "forwarding"}
                THEN Append(notices, r) ELSE notices
  /\ cancel' = [cancel EXCEPT ![r] = 0]
  /\ pc' = [pc EXCEPT ![r] = "done"]
  /\ UNCHANGED <<handlerVars, id, timed, sink, chan, outcome, conn, loop, owner, holder, seen>>

-----------------------------------------------------------------------------
(* The message loop of the current connection                              *)

\* dispatch_response removes the slot of the id and completes its oneshot.
\* The other side may answer late, twice, or on another connection: q is the
\* request it answers.
Dispatch(q) ==
  /\ loop = "running"
  /\ \E k \in DOMAIN seen[q] : seen[q][k].kind = "request"
  /\ LET r == slots[id[q]] IN
       IF r = Nobody THEN UNCHANGED <<slots, chan>>
       ELSE /\ slots' = [slots EXCEPT ![id[q]] = Nobody]
            /\ chan' = [chan EXCEPT ![r] = q]
  /\ UNCHANGED <<nextId, transport, cancellations, shuttingDown,
                 pc, id, timed, cancel, sink, outcome, connVars>>

\* cancel_rx yields a notice and the loop waits for the sink.
TakeNotice ==
  /\ loop = "running" /\ notices # <<>>
  /\ loop' = "forwarding"
  /\ UNCHANGED <<handlerVars, requestVars, conn, owner, holder, notices, seen>>

ForwardNotice ==
  /\ loop = "forwarding" /\ holder = Nobody
  /\ LET r == Head(notices) IN
       seen' = [seen EXCEPT ![r] = Append(@, [kind |-> "cancelled", conn |-> conn])]
  /\ notices' = Tail(notices)
  /\ loop' = "running"
  /\ UNCHANGED <<handlerVars, requestVars, conn, owner, holder>>

\* End of the stream, a read error, or a failed write: the loop breaks into
\* RequestHandler::shutdown, which first raises the flag ...
LoopBreaks ==
  /\ \/ loop = "running"
     \/ loop = "forwarding" /\ holder = Nobody
  /\ loop' = "flagged"
  /\ shuttingDown' = TRUE
  /\ UNCHANGED <<nextId, slots, transport, cancellations, requestVars,
                 conn, owner, holder, notices, seen>>

\* ... then takes the transport and the notice queue away ...
Detach ==
  /\ transport' = 0
  /\ cancellations' = 0
  /\ UNCHANGED <<nextId, slots, shuttingDown, requestVars>>

\* ... and last drops every stored sender.
ClearSlots ==
  /\ slots' = [i \in Ids |-> Nobody]
  /\ chan' = [r \in Requests |-> IF \E i \in Ids : slots[i] = r THEN "closed" ELSE chan[r]]
  /\ UNCHANGED <<nextId, transport, cancellations, shuttingDown,
                 pc, id, timed, cancel, sink, outcome>>

LoopDetaches ==
  /\ loop = "flagged"
  /\ Detach
  /\ loop' = "detached"
  /\ UNCHANGED <<conn, owner, holder, notices, seen>>

LoopClears ==
  /\ loop = "detached"
  /\ ClearSlots
  /\ loop' = "stopped"
  /\ notices' = <<>>
  /\ UNCHANGED <<conn, owner, holder, seen>>

-----------------------------------------------------------------------------
(* The owner of the client                                                 *)

NoBorrow == \A r \in Requests : ~InSend(r)

\* The task can be aborted at an await, never inside shutdown.
CanAbort == loop \in {"none", "running", "forwarding", "stopped"}

AbortLoop ==
  /\ loop' = IF loop = "none" THEN "none" ELSE "stopped"
  /\ notices' = <<>>

\* Client::connect: a prior loop is aborted and awaited, then the transport
\* and the notice queue of the new connection are installed and its loop is
\* spawned.
Connect ==
  /\ owner = "free" /\ NoBorrow /\ CanAbort
  /\ conn < MaxConnections
  /\ conn' = conn + 1
  /\ transport' = conn + 1
  /\ shuttingDown' = FALSE
  /\ cancellations' = conn + 1
  /\ loop' = "running"
  /\ notices' = <<>>
  /\ holder' = Nobody
  /\ UNCHANGED <<nextId, slots, requestVars, owner, seen>>

\* Client::disconnect runs shutdown and then stops the loop.
DisconnectFlags ==
  /\ owner = "free" /\ NoBorrow
  /\ owner' = "flagged"
  /\ shuttingDown' = TRUE
  /\ UNCHANGED <<nextId, slots, transport, cancellations, requestVars,
                 conn, loop, holder, notices, seen>>

DisconnectDetaches ==
  /\ owner = "flagged"
  /\ Detach
  /\ owner' = "detached"
  /\ UNCHANGED <<conn, loop, holder, notices, seen>>

DisconnectClears ==
  /\ owner = "detached"
  /\ ClearSlots
  /\ owner' = "stopping"
  /\ UNCHANGED <<conn, loop, holder, notices, seen>>

DisconnectStops ==
  /\ owner = "stopping" /\ CanAbort
  /\ AbortLoop
  /\ owner' = "free"
  /\ UNCHANGED <<handlerVars, requestVars, conn, holder, seen>>

\* Dropping the client aborts its loop through AbortOnDrop and nothing else.
DropClient ==
  /\ owner = "free" /\ NoBorrow /\ CanAbort
  /\ AbortLoop
  /\ owner' = "gone"
  /\ UNCHANGED <<handlerVars, requestVars, conn, holder, seen>>

-----------------------------------------------------------------------------
RequestStep(r) ==
  \/ Start(r) \/ Refused(r) \/ CloneTransport(r) \/ Buffer(r) \/ Flushed(r)
  \/ SendFails(r) \/ Expire(r) \/ Abandon(r) \/ Receive(r)
  \/ ReleaseSlot(r) \/ Notify(r)

LoopStep ==
  \/ \E q \in Requests : Dispatch(q)
  \/ TakeNotice \/ ForwardNotice \/ LoopBreaks \/ LoopDetaches \/ LoopClears

OwnerStep ==
  \/ Connect \/ DisconnectFlags \/ DisconnectDetaches \/ DisconnectClears
  \/ DisconnectStops \/ DropClient

Next == (\E r \in Requests : RequestStep(r)) \/ LoopStep \/ OwnerStep

Spec == Init /\ [][Next]_vars

\* The scheduler runs every ready task, tokio's mutex is fair, timers fire and
\* the other side keeps reading.  Nothing obliges it to answer, a caller to
\* give up, a transport to fail or an owner to act.
Fairness ==
  /\ \A r \in Requests :
       /\ WF_vars(Refused(r) \/ CloneTransport(r))
       /\ SF_vars(Buffer(r))
       /\ WF_vars(Flushed(r))
       /\ WF_vars(Expire(r))
       /\ WF_vars(Receive(r))
       /\ WF_vars(ReleaseSlot(r))
       /\ WF_vars(Notify(r))
  /\ WF_vars(TakeNotice)
  /\ SF_vars(ForwardNotice)
  /\ WF_vars(LoopDetaches)
  /\ WF_vars(LoopClears)
  /\ WF_vars(DisconnectDetaches)
  /\ WF_vars(DisconnectClears)
  /\ WF_vars(DisconnectStops)

FairSpec == Spec /\ Fairness

-----------------------------------------------------------------------------
Sent(r) == \E k \in DOMAIN seen[r] : seen[r][k].kind = "request"
Told(r) == \E k \in DOMAIN seen[r] : seen[r][k].kind = "cancelled"
Queued(r) == \E k \in DOMAIN notices : notices[k] = r

\* A slot belongs to a request that is still there to release it, so no
\* sequence of timeouts, drops, answers and reconnections leaks an entry of
\* pending_requests.
NoSlotLeaks ==
  \A i \in Ids : slots[i] # Nobody =>
    LET r == slots[i] IN id[r] = i /\ chan[r] = "open" /\ (Live(r) \/ pc[r] = "drop")

\* A caller that still waits on an open oneshot has its sender in the map:
\* whatever interleaving of start, shutdown and reconnect happened, an answer
\* or a shutdown can still reach it.
NoOrphanedWait ==
  \A r \in Requests : Live(r) /\ chan[r] = "open" => slots[id[r]] = r

\* Late, duplicated and cross-connection answers never complete a request
\* other than the one they were made for.
AnswersItsRequest ==
  \A r \in Requests : chan[r] \in Requests => chan[r] = r

\* Only a request that was given up before any answer reached it has a
\* notice: one that was answered, failed to send or was woken by a shutdown
\* never has.
NoticeOnlyForAbandoned ==
  \A r \in Requests : Queued(r) \/ Told(r) => outcome[r] \in GivenUp /\ chan[r] = "closed"

\* The other side never hears of a request after it heard that it was
\* abandoned, hears each at most once, and both on the same connection,
\* although different tasks write the two messages.  (A request dropped before
\* its sink accepted it is only abandoned.)
NoticeFollowsRequest ==
  \A r \in Requests : \A j, k \in DOMAIN seen[r] :
    /\ seen[r][j].conn = seen[r][k].conn
    /\ j < k => seen[r][j].kind = "request" /\ seen[r][k].kind = "cancelled"

\* A request with a deadline settles, whatever the other side, the transport
\* and the owner do.
DeadlineSettles ==
  \A r \in Requests : (timed[r] /\ pc[r] = "started") ~> (pc[r] = "done")

\* A shutdown wakes every request that waits, with or without a deadline, even
\* one that stored its slot while the shutdown was running.
ShutdownWakes ==
  \A r \in Requests : (Live(r) /\ shuttingDown) ~> ~Live(r)

\* A request given up on a working connection is cancelled on the other side,
\* unless an answer or the end of the connection comes first.
AbandonedIsTold ==
  \A r \in Requests : \A c \in Conns \ {0} :
    (pc[r] = "drop" /\ chan[r] = "open" /\ cancel[r] = c)
      ~> (Told(r) \/ chan[r] = r \/ shuttingDown \/ conn # c \/ loop = "stopped")

\* without_request_timeout (client.rs:209): "Transport shutdown and
\* cancellation still complete a pending request", for a transport that was
\* replaced by a new connection or dropped with its client.
EndOfTransportCompletes ==
  \A r \in Requests :
    (pc[r] = "waiting" /\ (owner = "gone" \/ sink[r] # conn)) ~> (pc[r] # "waiting")

-----------------------------------------------------------------------------
(* The lifecycle of a request is decided by who takes its slot out of      *)
(* pending_requests: an answer, a shutdown, or its own drop.               *)

StatusOf(r) == CASE chan[r] = "none"   -> "unsent"
                 [] chan[r] = "open"   -> "open"
                 [] chan[r] = "closed" -> "closed"
                 [] OTHER              -> "answered"

ResultOf(r) == CASE outcome[r] = "none"     -> "none"
                 [] outcome[r] = "response" -> "response"
                 [] outcome[r] \in GivenUp  -> "given_up"
                 [] OTHER                   -> "error"

Lifecycle == INSTANCE RequestLifecycle WITH
  status <- [r \in Requests |-> StatusOf(r)],
  result <- [r \in Requests |-> ResultOf(r)],
  told   <- {r \in Requests : Told(r)}

\* The handler implements the lifecycle: answer, shutdown, timeout and drop
\* race for a request and exactly one of them settles it.
ImplementsLifecycle == Lifecycle!Spec

=============================================================================
