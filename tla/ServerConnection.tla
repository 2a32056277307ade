-------------------------- MODULE ServerConnection --------------------------
(***************************************************************************)
(* One connection of a server: the loop that ServerHandle::new spawns, the *)
(* tasks that run its request handlers, and the queues between them.       *)
(*                                                                         *)
(* The loop polls, in random order, the stop token, the stream of the      *)
(* client, the queue of emitted notifications, the outbound queue and the  *)
(* queue of cancellation notices.  It runs the initialize, on_connect and  *)
(* notification handlers and every write inside the branch it chose, and   *)
(* looks at nothing else meanwhile.  Each request gets a task of its own,  *)
(* on another thread.  A step of the model is a stretch of code between    *)
(* two points where another task can observe the state.                    *)
(*                                                                         *)
(* The client sends each request with an id of its own and cancels only    *)
(* requests it sent.  What the server asks of the client is RequestHandler;*)
(* here a handler only leaves behind the notice of a question it gave up.  *)
(***************************************************************************)
EXTENDS Naturals, Sequences

CONSTANTS Requests,            \* requests of the client
          Notes,               \* notifications of the server
          Gated,               \* those that need a negotiated capability
          Server,              \* emitter of a notification outside any request
          Nobody,              \* no emitter
          MayPanic,            \* requests whose handler may panic
          NotificationBuffer,  \* SERVER_NOTIFICATION_BUFFER
          OutboundBuffer       \* SERVER_RESPONSE_BUFFER

ASSUME NamesAssumption ==
  /\ Gated \subseteq Notes /\ MayPanic \subseteq Requests
  /\ Nobody \notin Requests \cup {Server} /\ Server \notin Requests
ASSUME BufferAssumption ==
  NotificationBuffer \in Nat \ {0} /\ OutboundBuffer \in Nat \ {0}

VARIABLES
  \* the loop
  lp,            \* where it is
  item,          \* what it writes, Suppressed between writes
  initialized,   \* initialized
  disconnected,  \* client_disconnected
  capable,       \* capabilities permit the gated notifications
  stopRequested, \* shutdown_token is cancelled
  closed,        \* connection_closed is cancelled, requests are shut down
  \* the request tasks
  task,          \* progress of the task of a request
  inFlight,      \* InFlight: the requests a cancellation can reach
  cancelled,     \* the requests whose token is cancelled
  suppressed,    \* the requests that finished cancelled
  count,         \* in_flight_requests
  abandoned,     \* the requests whose handler gave up a question
  \* the queues
  emitter,       \* who emitted a notification
  noteQ,         \* notification_rx
  outQ,          \* outbound_rx
  noticeQ,       \* cancel_rx
  wire           \* what was sent to the client

loopVars  == <<lp, item, initialized, disconnected, capable, stopRequested, closed>>
taskVars  == <<task, inFlight, cancelled, suppressed, count, abandoned>>
queueVars == <<emitter, noteQ, outQ, noticeQ, wire>>
vars      == <<loopVars, taskVars, queueVars>>

Response(r)   == [kind |-> "response", of |-> r]
Notice(r)     == [kind |-> "notice", of |-> r]
Note(n)       == [kind |-> "notification", of |-> n]
Initialized   == [kind |-> "initialized", of |-> Nobody]
\* None: wakes the loop and is not sent
Suppressed    == [kind |-> "suppressed", of |-> Nobody]
\* a parse error, a second initialize or a failed one
ErrorResponse == [kind |-> "error", of |-> Nobody]

Outbound == {Response(r) : r \in Requests} \cup {Note(n) : n \in Notes} \cup {Suppressed}
Items    == Outbound \cup {Notice(r) : r \in Requests} \cup {Initialized, ErrorResponse}

TypeOK ==
  /\ lp \in {"ready", "initializing", "connecting", "notifying", "writing",
             "checking", "closing", "shutdown", "stopped"}
  /\ item \in Items
  /\ initialized \in BOOLEAN /\ disconnected \in BOOLEAN /\ capable \in BOOLEAN
  /\ stopRequested \in BOOLEAN /\ closed \in BOOLEAN
  /\ task \in [Requests -> {"none", "running", "finished", "counted", "done", "panicked"}]
  /\ inFlight \subseteq Requests /\ cancelled \subseteq Requests
  /\ suppressed \subseteq Requests /\ abandoned \subseteq Requests
  /\ count \in Nat
  /\ emitter \in [Notes -> Requests \cup {Server, Nobody}]
  /\ noteQ \in Seq(Notes) /\ Len(noteQ) <= NotificationBuffer
  /\ outQ \in Seq(Outbound) /\ Len(outQ) <= OutboundBuffer
  /\ noticeQ \in Seq(Requests)
  /\ wire \in Seq(Items)

Init ==
  /\ lp = "ready" /\ item = Suppressed
  /\ initialized = FALSE /\ disconnected = FALSE /\ capable = FALSE
  /\ stopRequested = FALSE /\ closed = FALSE
  /\ task = [r \in Requests |-> "none"]
  /\ inFlight = {} /\ cancelled = {} /\ suppressed = {} /\ abandoned = {}
  /\ count = 0
  /\ emitter = [n \in Notes |-> Nobody]
  /\ noteQ = <<>> /\ outQ = <<>> /\ noticeQ = <<>> /\ wire = <<>>

\* A branch of the loop ends: only a loop whose client is gone has anything
\* to check before the next one.
NextBranch == lp' = IF disconnected THEN "checking" ELSE "ready"

Writes(i) == lp' = "writing" /\ item' = i

-----------------------------------------------------------------------------
(* Deviations: each is the definition named in its comment with one        *)
(* plausible mistake.  No specification uses them; they show that the      *)
(* properties below can fail.                                              *)

\* Finish that checks the token but leaves its entry to be cancelled later.
FinishKeepsEntry(r) ==
  /\ task[r] = "running"
  /\ task' = [task EXCEPT ![r] = "finished"]
  /\ suppressed' = IF r \in cancelled THEN suppressed \cup {r} ELSE suppressed
  /\ UNCHANGED <<loopVars, inFlight, cancelled, count, abandoned, queueVars>>

\* TakeNotification without the gate.
TakeNotificationUngated ==
  /\ lp = "ready" /\ noteQ # <<>>
  /\ noteQ' = Tail(noteQ)
  /\ outQ' = IF Len(outQ) < OutboundBuffer THEN Append(outQ, Note(Head(noteQ))) ELSE outQ
  /\ lp' = IF disconnected THEN "checking" ELSE "ready"
  /\ UNCHANGED <<item, initialized, disconnected, capable, stopRequested, closed,
                 taskVars, emitter, noticeQ, wire>>

\* TakeNotification that waits for room in the queue only the loop empties.
TakeNotificationWaits ==
  /\ lp = "ready" /\ noteQ # <<>>
  /\ noteQ' = Tail(noteQ)
  /\ IF Len(outQ) < OutboundBuffer
     THEN outQ' = Append(outQ, Note(Head(noteQ)))
          /\ lp' = IF disconnected THEN "checking" ELSE "ready"
     ELSE outQ' = outQ /\ lp' = "waiting"
  /\ UNCHANGED <<item, initialized, disconnected, capable, stopRequested, closed,
                 taskVars, emitter, noticeQ, wire>>

\* Check that looks at the outbound queue only.
CheckOutboundOnly ==
  /\ lp = "checking"
  /\ lp' = IF outQ = <<>> THEN "closing" ELSE "ready"
  /\ UNCHANGED <<item, initialized, disconnected, capable, stopRequested, closed,
                 taskVars, queueVars>>

\* Queue that has nothing to say about a suppressed response.
QueueResponsesOnly(r) ==
  /\ task[r] = "counted"
  /\ lp = "stopped" \/ Len(outQ) < OutboundBuffer
  /\ outQ' = IF lp = "stopped" \/ r \in suppressed THEN outQ ELSE Append(outQ, Response(r))
  /\ task' = [task EXCEPT ![r] = "done"]
  /\ UNCHANGED <<loopVars, inFlight, cancelled, suppressed, count, abandoned,
                 emitter, noteQ, noticeQ, wire>>

\* Queue that does not wait for room.
QueueOverfull(r) ==
  /\ task[r] = "counted"
  /\ outQ' = IF lp = "stopped" THEN outQ
             ELSE Append(outQ, IF r \in suppressed THEN Suppressed ELSE Response(r))
  /\ task' = [task EXCEPT ![r] = "done"]
  /\ UNCHANGED <<loopVars, inFlight, cancelled, suppressed, count, abandoned,
                 emitter, noteQ, noticeQ, wire>>

\* StopSignal that a loop draining for a lost client ignores.
StopSignalUnlessDraining ==
  /\ lp = "ready" /\ stopRequested /\ ~disconnected
  /\ lp' = "closing"
  /\ UNCHANGED <<item, initialized, disconnected, capable, stopRequested, closed,
                 taskVars, queueVars>>

-----------------------------------------------------------------------------
(* The stream of the client                                                *)

Reads == lp = "ready" /\ ~disconnected

\* A second initialize is a protocol error; the first runs in the loop.
ReadInitialize ==
  /\ Reads
  /\ IF initialized THEN Writes(ErrorResponse) ELSE lp' = "initializing" /\ item' = item
  /\ UNCHANGED <<initialized, disconnected, capable, stopRequested, closed,
                 taskVars, queueVars>>

\* handle_initialize_request: the capabilities are those of the response of
\* the handler.  A failed one changes nothing, and the client may try again.
HandleInitialize ==
  /\ lp = "initializing"
  /\ \/ capable' \in BOOLEAN /\ lp' = "connecting" /\ item' = item
     \/ capable' = capable /\ Writes(ErrorResponse)
  /\ UNCHANGED <<initialized, disconnected, stopRequested, closed, taskVars, queueVars>>

\* on_connect runs before the response is sent; when it fails, the connection
\* ends without one.
OnConnect ==
  /\ lp = "connecting"
  /\ \/ initialized' = TRUE /\ Writes(Initialized)
     \/ lp' = "closing" /\ UNCHANGED <<initialized, item>>
  /\ UNCHANGED <<disconnected, capable, stopRequested, closed, taskVars, queueVars>>

\* The request counts as in flight, and can be cancelled, before its task runs.
ReadRequest(r) ==
  /\ Reads /\ task[r] = "none"
  /\ count' = count + 1
  /\ inFlight' = inFlight \cup {r}
  /\ task' = [task EXCEPT ![r] = "running"]
  /\ UNCHANGED <<loopVars, cancelled, suppressed, abandoned, queueVars>>

\* mark_cancelled cancels a token that is in flight and ignores any other;
\* then the handler sees the notification.
ReadCancelled(r) ==
  /\ Reads /\ task[r] # "none"
  /\ cancelled' = cancelled \cup ({r} \cap inFlight)
  /\ lp' = "notifying"
  /\ UNCHANGED <<item, initialized, disconnected, capable, stopRequested, closed,
                 task, inFlight, suppressed, count, abandoned, queueVars>>

ReadNotification ==
  /\ Reads
  /\ lp' = "notifying"
  /\ UNCHANGED <<item, initialized, disconnected, capable, stopRequested, closed,
                 taskVars, queueVars>>

NotificationHandled ==
  /\ lp = "notifying"
  /\ NextBranch
  /\ UNCHANGED <<item, initialized, disconnected, capable, stopRequested, closed,
                 taskVars, queueVars>>

\* A malformed line is answered and the connection goes on.
ReadMalformed ==
  /\ Reads
  /\ Writes(ErrorResponse)
  /\ UNCHANGED <<initialized, disconnected, capable, stopRequested, closed,
                 taskVars, queueVars>>

ReadFails ==
  /\ Reads
  /\ lp' = "closing"
  /\ UNCHANGED <<item, initialized, disconnected, capable, stopRequested, closed,
                 taskVars, queueVars>>

\* The end of the stream: the client may still read.
ReadEnd ==
  /\ Reads
  /\ closed' = TRUE
  /\ disconnected' = TRUE
  /\ lp' = "checking"
  /\ UNCHANGED <<item, initialized, capable, stopRequested, taskVars, queueVars>>

-----------------------------------------------------------------------------
(* The other branches                                                      *)

Permitted(n) == n \notin Gated \/ capable

\* A notification joins the outbound queue behind the responses in it, and is
\* dropped when that queue is full.
TakeNotification ==
  /\ lp = "ready" /\ noteQ # <<>>
  /\ noteQ' = Tail(noteQ)
  /\ outQ' = IF Permitted(Head(noteQ)) /\ Len(outQ) < OutboundBuffer
             THEN Append(outQ, Note(Head(noteQ))) ELSE outQ
  /\ NextBranch
  /\ UNCHANGED <<item, initialized, disconnected, capable, stopRequested, closed,
                 taskVars, emitter, noticeQ, wire>>

TakeOutbound ==
  /\ lp = "ready" /\ outQ # <<>>
  /\ outQ' = Tail(outQ)
  /\ IF Head(outQ) = Suppressed THEN NextBranch /\ item' = item ELSE Writes(Head(outQ))
  /\ UNCHANGED <<initialized, disconnected, capable, stopRequested, closed,
                 taskVars, emitter, noteQ, noticeQ, wire>>

TakeNotice ==
  /\ lp = "ready" /\ noticeQ # <<>>
  /\ noticeQ' = Tail(noticeQ)
  /\ Writes(Notice(Head(noticeQ)))
  /\ UNCHANGED <<initialized, disconnected, capable, stopRequested, closed,
                 taskVars, emitter, noteQ, outQ, wire>>

\* The branch sends its item; error responses leave no trace in wire.
Write ==
  /\ lp = "writing"
  /\ wire' = IF item = ErrorResponse THEN wire ELSE Append(wire, item)
  /\ item' = Suppressed
  /\ NextBranch
  /\ UNCHANGED <<initialized, disconnected, capable, stopRequested, closed,
                 taskVars, emitter, noteQ, outQ, noticeQ>>

WriteFails ==
  /\ lp = "writing"
  /\ item' = Suppressed
  /\ lp' = "closing"
  /\ UNCHANGED <<initialized, disconnected, capable, stopRequested, closed,
                 taskVars, queueVars>>

StopSignal ==
  /\ lp = "ready" /\ stopRequested
  /\ lp' = "closing"
  /\ UNCHANGED <<item, initialized, disconnected, capable, stopRequested, closed,
                 taskVars, queueVars>>

\* Without its client the loop goes on until nothing seems left to send.
Check ==
  /\ lp = "checking"
  /\ lp' = IF count = 0 /\ outQ = <<>> /\ noticeQ = <<>> THEN "closing" ELSE "ready"
  /\ UNCHANGED <<item, initialized, disconnected, capable, stopRequested, closed,
                 taskVars, queueVars>>

\* Every way out of the loop shuts the questions to the client down, runs
\* on_shutdown and drops the receivers.
CloseRequests ==
  /\ lp = "closing"
  /\ closed' = TRUE
  /\ lp' = "shutdown"
  /\ UNCHANGED <<item, initialized, disconnected, capable, stopRequested,
                 taskVars, queueVars>>

OnShutdown ==
  /\ lp = "shutdown"
  /\ lp' = "stopped"
  /\ UNCHANGED <<item, initialized, disconnected, capable, stopRequested, closed,
                 taskVars, queueVars>>

-----------------------------------------------------------------------------
(* The task of a request                                                   *)

\* InFlight::finish: the check of the token and its removal are one step.
Finish(r) ==
  /\ task[r] = "running"
  /\ task' = [task EXCEPT ![r] = "finished"]
  /\ inFlight' = inFlight \ {r}
  /\ suppressed' = IF r \in cancelled THEN suppressed \cup {r} ELSE suppressed
  /\ UNCHANGED <<loopVars, cancelled, count, abandoned, queueVars>>

Discount(r) ==
  /\ task[r] = "finished"
  /\ count' = count - 1
  /\ task' = [task EXCEPT ![r] = "counted"]
  /\ UNCHANGED <<loopVars, inFlight, cancelled, suppressed, abandoned, queueVars>>

\* The task queues one item, and waits for room; a loop that is gone refuses it.
Queue(r) ==
  /\ task[r] = "counted"
  /\ lp = "stopped" \/ Len(outQ) < OutboundBuffer
  /\ outQ' = IF lp = "stopped" THEN outQ
             ELSE Append(outQ, IF r \in suppressed THEN Suppressed ELSE Response(r))
  /\ task' = [task EXCEPT ![r] = "done"]
  /\ UNCHANGED <<loopVars, inFlight, cancelled, suppressed, count, abandoned,
                 emitter, noteQ, noticeQ, wire>>

\* A panic ends the task at once.
Panic(r) ==
  /\ r \in MayPanic /\ task[r] = "running"
  /\ task' = [task EXCEPT ![r] = "panicked"]
  /\ UNCHANGED <<loopVars, inFlight, cancelled, suppressed, count, abandoned, queueVars>>

\* The handler stops waiting for an answer of the client: RequestHandler
\* queues one notice, unless it is shut down.
AbandonQuestion(r) ==
  /\ task[r] = "running" /\ r \notin abandoned /\ ~closed
  /\ abandoned' = abandoned \cup {r}
  /\ noticeQ' = Append(noticeQ, r)
  /\ UNCHANGED <<loopVars, task, inFlight, cancelled, suppressed, count,
                 emitter, noteQ, outQ, wire>>

\* ServerCtx::notify of a running handler, or send_server_notification of the
\* handle; a full queue refuses.
Emit(n, e) ==
  /\ emitter[n] = Nobody /\ lp # "stopped"
  /\ e \in {Server} \cup {r \in Requests : task[r] = "running"}
  /\ Len(noteQ) < NotificationBuffer
  /\ noteQ' = Append(noteQ, n)
  /\ emitter' = [emitter EXCEPT ![n] = e]
  /\ UNCHANGED <<loopVars, taskVars, outQ, noticeQ, wire>>

\* ServerHandle::stop, signal_stop, or the drop of the handle.
RequestStop ==
  /\ ~stopRequested
  /\ stopRequested' = TRUE
  /\ UNCHANGED <<lp, item, initialized, disconnected, capable, closed,
                 taskVars, queueVars>>

-----------------------------------------------------------------------------
ReadStep ==
  \/ ReadInitialize \/ HandleInitialize \/ OnConnect
  \/ ReadNotification \/ NotificationHandled
  \/ ReadMalformed \/ ReadFails \/ ReadEnd
  \/ \E r \in Requests : ReadRequest(r) \/ ReadCancelled(r)

BranchStep ==
  \/ TakeNotification \/ TakeOutbound \/ TakeNotice \/ Write \/ WriteFails
  \/ StopSignal \/ Check \/ CloseRequests \/ OnShutdown

TaskStep(r) ==
  Finish(r) \/ Discount(r) \/ Queue(r) \/ Panic(r) \/ AbandonQuestion(r)

Next ==
  \/ ReadStep \/ BranchStep \/ RequestStop
  \/ \E r \in Requests : TaskStep(r)
  \/ \E n \in Notes, e \in Requests \cup {Server} : Emit(n, e)

Spec == Init /\ [][Next]_vars

\* The scheduler runs every ready task, and select! picks among the ready branches
\* at random.  The client owes nothing.
Fairness ==
  /\ WF_vars(Check) /\ WF_vars(CloseRequests)
  /\ SF_vars(TakeNotification) /\ SF_vars(TakeOutbound) /\ SF_vars(TakeNotice)
  /\ SF_vars(StopSignal)
  /\ \A r \in Requests : WF_vars(Discount(r)) /\ SF_vars(Queue(r))

FairSpec == Spec /\ Fairness

\* What the loop awaits inside a branch: a write to the client, and the handlers
\* that run in the loop.  No timeout ends these waits, and no token is polled.
Awaited ==
  HandleInitialize \/ OnConnect \/ NotificationHandled \/ OnShutdown \/ Write \/ WriteFails

\* Each of them ends: the client reads what is written or breaks the connection,
\* and the handlers in the loop return.
AwaitsEnd == WF_vars(Awaited)

\* The handlers of requests return, which nothing but themselves guarantees.
HandlersReturn == \A r \in Requests : WF_vars(Finish(r))

-----------------------------------------------------------------------------
OnWire(i) == \E k \in DOMAIN wire : wire[k] = i

\* A cancellation that came before the end of the handler suppresses the
\* response for good, one that came after changes nothing (context.rs:48-54),
\* and no request is answered twice.
CancelSuppresses ==
  /\ \A r \in cancelled : ~OnWire(Response(r))
  /\ \A j, k \in DOMAIN wire : wire[j].kind = "response" /\ wire[j] = wire[k] => j = k

\* A gated notification reaches a client only after it was told, in the
\* response to its initialize, of the capability (server.rs:625).
GatedAfterInitialize ==
  \A k \in DOMAIN wire :
    wire[k].kind = "notification" /\ wire[k].of \in Gated =>
      \E j \in 1..(k - 1) : wire[j] = Initialized

\* A loop that leaves because its client is gone leaves no handler running,
\* and told the client of every question that was given up.
DrainLeavesNothing ==
  [][lp = "checking" /\ lp' = "closing" =>
       \A r \in Requests :
         /\ task[r] \notin {"running", "finished"}
         /\ r \in abandoned => OnWire(Notice(r))]_vars

\* Every request queues one item, which wakes a draining loop, so a loop
\* without its client ends when its handlers do (server.rs:927).
DrainEnds ==
  AwaitsEnd /\ HandlersReturn =>
    (disconnected ~> lp = "stopped" \/ \E r \in Requests : task[r] = "panicked")

\* stop() ends although handlers of requests never return, as long as the loop is
\* not held inside a branch: it does not end while a handler in the loop runs or
\* the client leaves a write unread (server.rs:652).
StopEnds == AwaitsEnd => (stopRequested ~> lp = "stopped")

\* A request is answered, unless it was cancelled or the connection ends:
\* the loop is the only reader of its own queue and never waits for room in it.
Answered ==
  AwaitsEnd /\ HandlersReturn =>
    \A r \in Requests :
      (task[r] = "running") ~> (\/ OnWire(Response(r)) \/ r \in cancelled \/ task[r] = "panicked"
                                \/ lp \in {"closing", "shutdown", "stopped"})

\* server.rs:478: "request responses ... and gated notifications, in FIFO
\* order so a notification emitted before a response is sent before it".
NotificationBeforeResponse ==
  \A j, k \in DOMAIN wire :
    wire[j].kind = "response" /\ wire[k].kind = "notification"
      /\ emitter[wire[k].of] = wire[j].of => k < j

\* tests/inflight_disconnect.rs:150: "server must send the in-flight response
\* after client EOF".
ResponsesSurviveEOF ==
  [][lp = "checking" /\ lp' = "closing" =>
       \A r \in Requests :
         task[r] # "none" /\ r \notin cancelled => OnWire(Response(r))]_vars

=============================================================================
