---------------------------- MODULE HttpSessions ----------------------------
(***************************************************************************)
(* The sessions of the HTTP server: the table of sessions, the POSTs that  *)
(* wait for their responses, inactivity expiry and the end of the server.  *)
(*                                                                         *)
(* A POST carries an initialize request, another request, the cancellation *)
(* of one, or a message that only passes through: another notification, or *)
(* the response to a request of the server.  A session has the name of the *)
(* POST that created it.  POSTs, session loops, the cleanup task and the   *)
(* shutdown watchdog run on different threads.  Of the loop of a session   *)
(* the module keeps what the HTTP side can tell: it takes messages,        *)
(* answers requests unless they are cancelled, and stops (ServerConnection *)
(* has the rest).  The events of the SSE stream are in SessionStream.      *)
(***************************************************************************)
EXTENDS Naturals, Sequences, FiniteSets

CONSTANTS Inits,           \* POSTs of initialize requests, and their sessions
          Calls,           \* POSTs of other requests
          Cancels,         \* POSTs of cancellations
          Notes,           \* POSTs of other notifications and of responses
          Target,          \* the request each cancellation is about
          Nobody,          \* no session
          MaxSessions,     \* MAX_SESSIONS
          IncomingBuffer,  \* SESSION_INCOMING_BUFFER
          Embedded         \* into_router instead of serve: the host listens

Posts == Inits \cup Calls \cup Cancels \cup Notes

ASSUME PostAssumption ==
  /\ Inits \cap Calls = {} /\ Inits \cap Cancels = {} /\ Calls \cap Cancels = {}
  /\ Notes \cap (Inits \cup Calls \cup Cancels) = {}
  /\ Nobody \notin Posts
  /\ Target \in [Cancels -> Calls]
ASSUME LimitAssumption ==
  /\ MaxSessions \in Nat /\ IncomingBuffer \in Nat \ {0} /\ Embedded \in BOOLEAN

VARIABLES
  \* HttpServerState and its tasks
  table,      \* sessions
  shutdown,   \* whether the shutdown token was cancelled
  watchdog,   \* spawn_shutdown_watchdog
  cleaning,   \* spawn_session_cleanup still runs
  expired,    \* the sessions it collected
  listener,   \* the task of serve, or the host
  \* HttpSession
  idle,       \* sessions whose last activity is longer ago than SESSION_TIMEOUT
  token,      \* sessions told to stop by signal_stop
  inbox,      \* incoming_tx: what the loop has still to take
  parked,     \* the POSTs whose message was one too many for it
  pending,    \* routes.pending
  stream,     \* sessions with an SSE stream that is read
  \* the loop of each session
  loop,       \* "none" before it is created
  serving,    \* requests with a handler
  \* one handler of handle_post per POST
  pc,         \* where it is
  session,    \* the session it has a clone of
  chan,       \* its oneshot
  result,     \* what it responds
  \* history
  early       \* cancellations handled before the POST of their target

tableVars   == <<table, shutdown, watchdog, cleaning, expired, listener>>
sessionVars == <<idle, token, inbox, parked, pending, stream>>
postVars    == <<pc, session, chan, result, early>>
vars == <<tableVars, sessionVars, loop, serving, postVars>>

TypeOK ==
  /\ table \subseteq Inits
  /\ shutdown \in BOOLEAN
  /\ watchdog \in {"waiting", "signalled", "done"}
  /\ cleaning \in BOOLEAN /\ expired \subseteq Inits
  /\ listener \in {"serving", "closed", "ended"}
  /\ idle \subseteq Inits /\ token \subseteq Inits /\ stream \subseteq Inits
  /\ inbox \in [Inits -> Seq(Posts)] /\ parked \in [Inits -> Seq(Posts)]
  /\ \A s \in Inits : Len(inbox[s]) <= IncomingBuffer + Len(parked[s])
  /\ pending \in [Inits -> SUBSET (Inits \cup Calls)]
  /\ loop \in [Inits -> {"none", "running", "ended"}]
  /\ serving \subseteq Calls
  /\ pc \in [Posts -> {"new", "checked", "forwarding", "flushing", "waiting",
                        "done"}]
  /\ session \in [Posts -> Inits \cup {Nobody}]
  /\ chan \in [Posts -> {"none", "open", "result", "error", "closed"}]
  /\ result \in [Posts -> {"none", "response", "failed", "accepted", "notfound",
                           "refused", "gone"}]
  /\ early \subseteq Cancels

Init ==
  /\ table = {} /\ shutdown = FALSE /\ watchdog = "waiting"
  /\ cleaning = TRUE /\ expired = {}
  /\ listener = "serving"
  /\ idle = {} /\ token = {} /\ stream = {}
  /\ inbox = [s \in Inits |-> <<>>] /\ parked = [s \in Inits |-> <<>>]
  /\ pending = [s \in Inits |-> {}]
  /\ loop = [s \in Inits |-> "none"]
  /\ serving = {}
  /\ pc = [p \in Posts |-> "new"]
  /\ session = [p \in Posts |-> Nobody]
  /\ chan = [p \in Posts |-> "none"]
  /\ result = [p \in Posts |-> "none"]
  /\ early = {}

InSession(p) == pc[p] \in {"forwarding", "flushing", "waiting"}
Active(p)    == pc[p] = "checked" \/ InSession(p)

\* The POST p has a clone of the session s, and with it of its routes.
Holds(p, s) == InSession(p) /\ session[p] = s

\* The HttpSession of s exists: the ServerHandle in it is not dropped.
Held(s) == s \in table \/ \E p \in Posts : Holds(p, s)

-----------------------------------------------------------------------------
(* Deviations: the definition named in the comment with one plausible      *)
(* mistake.  No specification uses them; they show that the properties can *)
(* fail.                                                                   *)

StoppedBySignal(s) == s \in token               \* Stopped: handles leak loops

RemoveNothing(s) == UNCHANGED <<table, token>>   \* RemoveSession: forgotten

ReleaseNothing(k, s) == UNCHANGED <<pending, chan>>   \* Release: keeps the POST

DeliverNothing(p, kind) ==                       \* Deliver: drops the sender
  LET s == session[p]
  IN  /\ pending' = [pending EXCEPT ![s] = @ \ {p}]
      /\ chan' = [chan EXCEPT ![p] =
                    IF p \in pending[s] /\ @ = "open" /\ p \in Calls
                    THEN "closed"
                    ELSE IF p \in pending[s] /\ @ = "open" THEN kind ELSE @]

HasRoomForOne(s) == Len(inbox[s]) <= IncomingBuffer   \* HasRoom: off by one

-----------------------------------------------------------------------------
(* Operations shared by several handlers.                                  *)

\* The token of the loop is cancelled: signal_stop, or the handle was dropped.
Stopped(s) == s \in token \/ ~Held(s)

\* remove_session: whoever finds the session in the table stops it.
RemoveSession(s) ==
  /\ table' = table \ {s}
  /\ token' = IF s \in table THEN token \cup {s} ELSE token

\* deliver: the response goes to the POST that waits for it.  Without one it
\* becomes an event of the SSE stream; to a client that hung up it is lost.
Deliver(p, kind) ==
  LET s == session[p]
  IN  /\ pending' = [pending EXCEPT ![s] = @ \ {p}]
      /\ chan' = [chan EXCEPT ![p] =
                    IF p \in pending[s] /\ @ = "open" THEN kind ELSE @]

\* A cancellation drops the sender of the POST that waits for its target.
Release(k, s) ==
  LET t == Target[k]
  IN  /\ pending' = [pending EXCEPT ![s] = @ \ {t}]
      /\ chan' = [chan EXCEPT ![t] =
                    IF t \in pending[s] /\ @ = "open" THEN "closed" ELSE @]

-----------------------------------------------------------------------------
(* handle_post.                                                            *)

\* The channel does not park the sender of one more message.
HasRoom(s) == Len(inbox[s]) < IncomingBuffer

Done(p, r) ==
  /\ pc' = [pc EXCEPT ![p] = "done"]
  /\ result' = [result EXCEPT ![p] = r]

\* handle_initialize_post tests the limit, ...
CheckLimit(p) ==
  /\ pc[p] = "new" /\ listener = "serving"
  /\ IF Cardinality(table) >= MaxSessions
     THEN Done(p, "refused")
     ELSE pc' = [pc EXCEPT ![p] = "checked"] /\ UNCHANGED result
  /\ UNCHANGED <<tableVars, sessionVars, loop, serving, session, chan, early>>

\* ... creates the session with its loop, and enters it in the table.
CreateSession(p) ==
  /\ pc[p] = "checked"
  /\ table' = table \cup {p}
  /\ loop' = [loop EXCEPT ![p] = "running"]
  /\ pending' = [pending EXCEPT ![p] = {p}]
  /\ pc' = [pc EXCEPT ![p] = "forwarding"]
  /\ session' = [session EXCEPT ![p] = p]
  /\ chan' = [chan EXCEPT ![p] = "open"]
  /\ UNCHANGED <<shutdown, watchdog, cleaning, expired, listener, idle, token,
                 inbox, parked, stream, serving, result, early>>

\* A request for a session that its client was told of: look it up, touch it
\* and register the POST.
LookUp(p, s) ==
  /\ pc[p] = "new" /\ listener = "serving" /\ result[s] = "response"
  /\ session' = [session EXCEPT ![p] = s]
  /\ IF s \notin table
     THEN Done(p, "notfound") /\ UNCHANGED <<idle, pending, chan>>
     ELSE /\ pc' = [pc EXCEPT ![p] = "forwarding"]
          /\ idle' = idle \ {s}
          /\ pending' = [pending EXCEPT ![s] = @ \cup {p}]
          /\ chan' = [chan EXCEPT ![p] = "open"]
          /\ UNCHANGED result
  /\ UNCHANGED <<tableVars, token, inbox, parked, stream, loop, serving,
                 early>>

\* The same for a cancellation.  Its client posts it from another task than the
\* request, so it may well be handled before the POST of its target.
LookUpCancel(k, s) ==
  /\ pc[k] = "new" /\ listener = "serving" /\ result[s] = "response"
  /\ session' = [session EXCEPT ![k] = s]
  /\ IF s \notin table
     THEN Done(k, "notfound") /\ UNCHANGED <<idle, pending, chan, early>>
     ELSE /\ pc' = [pc EXCEPT ![k] = "forwarding"]
          /\ idle' = idle \ {s}
          /\ Release(k, s)
          /\ early' = IF pc[Target[k]] = "new" THEN early \cup {k} ELSE early
          /\ UNCHANGED result
  /\ UNCHANGED <<tableVars, token, inbox, parked, stream, loop, serving>>

\* A message that passes through, for a session that its client was told of.
LookUpNote(n, s) ==
  /\ pc[n] = "new" /\ listener = "serving" /\ result[s] = "response"
  /\ session' = [session EXCEPT ![n] = s]
  /\ IF s \notin table
     THEN Done(n, "notfound") /\ UNCHANGED idle
     ELSE /\ pc' = [pc EXCEPT ![n] = "forwarding"]
          /\ idle' = idle \ {s}
          /\ UNCHANGED result
  /\ UNCHANGED <<tableVars, token, inbox, parked, pending, stream, loop, serving,
                 chan, early>>

\* What a POST does once forward is over.
Forwarded(p) ==
  IF p \in Cancels \cup Notes
  THEN Done(p, "accepted")
  ELSE pc' = [pc EXCEPT ![p] = "waiting"] /\ UNCHANGED result

\* forward, to a loop that runs.  The channel takes one message of every sender,
\* and every POST has a sender of its own: when the buffer was full the message
\* is in all the same, and the POST waits until the loop took one for it.
Forward(p) ==
  /\ pc[p] = "forwarding"
  /\ LET s == session[p]
     IN  /\ loop[s] = "running"
         /\ inbox' = [inbox EXCEPT ![s] = Append(@, p)]
         /\ IF HasRoom(s)
            THEN Forwarded(p) /\ UNCHANGED parked
            ELSE /\ parked' = [parked EXCEPT ![s] = Append(@, p)]
                 /\ pc' = [pc EXCEPT ![p] = "flushing"]
                 /\ UNCHANGED result
  /\ UNCHANGED <<tableVars, idle, token, pending, stream, loop, serving,
                 session, chan, early>>

\* The POST was unparked.  A channel that was closed counts as flushed.
Flush(p) ==
  /\ pc[p] = "flushing"
  /\ \A i \in 1..Len(parked[session[p]]) : parked[session[p]][i] # p
  /\ Forwarded(p)
  /\ UNCHANGED <<tableVars, sessionVars, loop, serving, session, chan, early>>

\* forward, to a loop that has ended.  Only a request removes the session then.
ForwardFails(p) ==
  /\ pc[p] = "forwarding" /\ loop[session[p]] = "ended"
  /\ IF p \in Calls
     THEN Done(p, "notfound") /\ RemoveSession(session[p])
     ELSE Forwarded(p) /\ UNCHANGED <<table, token>>
  /\ UNCHANGED <<shutdown, watchdog, cleaning, expired, listener, idle, inbox,
                 parked, pending, stream, loop, serving, session, chan, early>>

\* The POST learns what became of its sender.  A failed initialize removes its
\* session.
Respond(p) ==
  /\ pc[p] = "waiting"
  /\ \/ chan[p] = "result" /\ Done(p, "response") /\ UNCHANGED <<table, token>>
     \/ chan[p] = "closed" /\ Done(p, "accepted") /\ UNCHANGED <<table, token>>
     \/ chan[p] = "error" /\ Done(p, "failed") /\ RemoveSession(p)
  /\ UNCHANGED <<shutdown, watchdog, cleaning, expired, listener, idle, inbox,
                 parked, pending, stream, loop, serving, session, chan, early>>

\* The client closes the connection and the handler is dropped where it waits.
HangUp(p) ==
  /\ InSession(p)
  /\ Done(p, "gone")
  /\ chan' = [chan EXCEPT ![p] = "closed"]
  /\ UNCHANGED <<tableVars, sessionVars, loop, serving, session, early>>

-----------------------------------------------------------------------------
(* The loop of a session, as ServerConnection has it in full.              *)

TakeNext(s) ==
  /\ loop[s] = "running" /\ inbox[s] # <<>>
  /\ inbox' = [inbox EXCEPT ![s] = Tail(@)]
  /\ parked' = [parked EXCEPT ![s] = IF @ = <<>> THEN @ ELSE Tail(@)]

\* A request gets a handler; a cancellation suppresses the response to a request
\* that has one in this loop.
Take(s) ==
  /\ TakeNext(s)
  /\ LET p == Head(inbox[s])
     IN  \/ p \in Calls /\ serving' = serving \cup {p}
         \/ /\ p \in Cancels
            /\ serving' = {c \in serving : ~(c = Target[p] /\ session[c] = s)}
         \/ p \in Notes /\ UNCHANGED serving
  /\ UNCHANGED <<tableVars, idle, token, pending, stream, loop, postVars>>

\* initialize is answered in the loop, with a result or an error.
TakeInitialize(s) ==
  /\ TakeNext(s) /\ Head(inbox[s]) = s
  /\ \E kind \in {"result", "error"} : Deliver(s, kind)
  /\ UNCHANGED <<tableVars, idle, token, stream, loop, serving, pc, session,
                 result, early>>

\* The end of the loop: what it has not answered stays unanswered.
EndLoop(s) ==
  /\ loop' = [loop EXCEPT ![s] = "ended"]
  /\ inbox' = [inbox EXCEPT ![s] = <<>>]
  /\ parked' = [parked EXCEPT ![s] = <<>>]
  /\ serving' = {p \in serving : session[p] # s}
  /\ UNCHANGED <<tableVars, idle, token, pending, stream, postVars>>

\* on_connect fails or the initialize handler panics.
FailInitialize(s) ==
  /\ loop[s] = "running" /\ inbox[s] # <<>> /\ Head(inbox[s]) = s
  /\ EndLoop(s)

StopLoop(s) ==
  /\ loop[s] = "running" /\ Stopped(s)
  /\ EndLoop(s)

Answer(p) ==
  /\ p \in serving
  /\ serving' = serving \ {p}
  /\ Deliver(p, "result")
  /\ UNCHANGED <<tableVars, idle, token, inbox, parked, stream, loop, pc,
                 session, result, early>>

-----------------------------------------------------------------------------
(* GET, DELETE, expiry and the end of the server.                          *)

\* handle_get, for a client that knows its session.
OpenStream(s) ==
  /\ listener = "serving" /\ s \in table /\ result[s] = "response"
  /\ idle' = idle \ {s}
  /\ stream' = stream \cup {s}
  /\ UNCHANGED <<tableVars, token, inbox, parked, pending, loop, serving,
                 postVars>>

\* The client stops reading, or the routes of the session are dropped.
CloseStream(s) ==
  /\ s \in stream
  /\ stream' = stream \ {s}
  /\ UNCHANGED <<tableVars, idle, token, inbox, parked, pending, loop, serving,
                 postVars>>

\* handle_delete.
Delete(s) ==
  /\ listener = "serving" /\ s \in table /\ result[s] = "response"
  /\ RemoveSession(s)
  /\ UNCHANGED <<shutdown, watchdog, cleaning, expired, listener, idle, inbox,
                 parked, pending, stream, loop, serving, postVars>>

\* SESSION_TIMEOUT passes without activity.
TimePasses(s) ==
  /\ s \in table \ idle
  /\ idle' = idle \cup {s}
  /\ UNCHANGED <<tableVars, token, inbox, parked, pending, stream, loop,
                 serving, postVars>>

\* The cleanup collects what has expired, and then removes one after another.
CollectExpired ==
  /\ cleaning /\ expired = {}
  /\ expired' = {s \in table : s \notin stream /\ s \in idle}
  /\ UNCHANGED <<table, shutdown, watchdog, cleaning, listener, sessionVars,
                 loop, serving, postVars>>

RemoveExpired(s) ==
  /\ s \in expired
  /\ expired' = expired \ {s}
  /\ RemoveSession(s)
  /\ UNCHANGED <<shutdown, watchdog, cleaning, listener, idle, inbox, parked,
                 pending, stream, loop, serving, postVars>>

EndCleanup ==
  /\ cleaning /\ shutdown /\ expired = {}
  /\ cleaning' = FALSE
  /\ UNCHANGED <<table, shutdown, watchdog, expired, listener, sessionVars,
                 loop, serving, postVars>>

\* The owner of the server cancels its token.
Shutdown ==
  /\ ~shutdown
  /\ shutdown' = TRUE
  /\ UNCHANGED <<table, watchdog, cleaning, expired, listener, sessionVars,
                 loop, serving, postVars>>

\* The watchdog stops every session, and then clears the table.
SignalAll ==
  /\ shutdown /\ watchdog = "waiting"
  /\ watchdog' = "signalled"
  /\ token' = token \cup table
  /\ UNCHANGED <<table, shutdown, cleaning, expired, listener, idle, inbox,
                 parked, pending, stream, loop, serving, postVars>>

ClearTable ==
  /\ watchdog = "signalled"
  /\ watchdog' = "done"
  /\ table' = {}
  /\ UNCHANGED <<shutdown, cleaning, expired, listener, sessionVars, loop,
                 serving, postVars>>

\* serve: the listener takes no more requests and lets the others finish.  The
\* listener of an embedding host knows nothing of the token.
CloseListener ==
  /\ ~Embedded /\ shutdown /\ listener = "serving"
  /\ listener' = "closed"
  /\ UNCHANGED <<table, shutdown, watchdog, cleaning, expired, sessionVars,
                 loop, serving, postVars>>

\* The listener ends, and with the tasks and the handle goes the table.
EndListener ==
  /\ listener = "closed" /\ watchdog = "done" /\ ~cleaning
  /\ stream = {} /\ \A p \in Posts : ~Active(p)
  /\ listener' = "ended"
  /\ table' = {}
  /\ UNCHANGED <<shutdown, watchdog, cleaning, expired, sessionVars, loop,
                 serving, postVars>>

PostStep(p) ==
  \/ p \in Inits /\ (CheckLimit(p) \/ CreateSession(p))
  \/ p \in Calls /\ \E s \in Inits : LookUp(p, s)
  \/ p \in Cancels /\ \E s \in Inits : LookUpCancel(p, s)
  \/ p \in Notes /\ \E s \in Inits : LookUpNote(p, s)
  \/ Forward(p) \/ Flush(p) \/ ForwardFails(p) \/ Respond(p) \/ HangUp(p)

LoopStep(s) ==
  Take(s) \/ TakeInitialize(s) \/ FailInitialize(s) \/ StopLoop(s)

SessionStep(s) ==
  OpenStream(s) \/ CloseStream(s) \/ Delete(s) \/ TimePasses(s) \/ RemoveExpired(s)

ServerStep ==
  \/ CollectExpired \/ EndCleanup
  \/ Shutdown \/ SignalAll \/ ClearTable
  \/ CloseListener \/ EndListener

Next ==
  \/ \E p \in Posts : PostStep(p)
  \/ \E s \in Inits : LoopStep(s) \/ SessionStep(s)
  \/ \E c \in Calls : Answer(c)
  \/ ServerStep

Spec == Init /\ [][Next]_vars

\* Tasks run and handlers return, those in the loop too; the transport of a session
\* takes every write at once (start_send).  Clients need not send, hang up or close
\* a stream, and nothing need expire or shut down.
Fairness ==
  /\ \A p \in Posts :
       /\ WF_vars(p \in Inits /\ CreateSession(p))
       /\ WF_vars(Forward(p)) /\ WF_vars(Flush(p))
       /\ WF_vars(ForwardFails(p))
       /\ WF_vars(Respond(p))
  /\ \A s \in Inits :
       /\ WF_vars(Take(s) \/ TakeInitialize(s))
       /\ WF_vars(StopLoop(s))
       /\ WF_vars(RemoveExpired(s))
  /\ \A c \in Calls : WF_vars(Answer(c))
  /\ WF_vars(SignalAll) /\ WF_vars(ClearTable)
  /\ WF_vars(CloseListener) /\ WF_vars(EndListener) /\ WF_vars(EndCleanup)

FairSpec == Spec /\ Fairness

-----------------------------------------------------------------------------

\* No session is left of an initialize that was refused or answered with an
\* error, whatever removed or expired in between (handle_initialize_post).
FailedInitLeavesNothing ==
  \A s \in Inits : result[s] \in {"failed", "refused"} => s \notin table

\* A client that was told its session is gone never finds it again: the same
\* POST removed what it could not reach (handle_post).
GoneForGood ==
  \A p \in Posts : result[p] = "notfound" => session[p] \notin table

\* The message p waits in the channel of the loop of s, or has a handler.
Underway(p, s) == p \in serving \/ \E i \in 1..Len(inbox[s]) : inbox[s][i] = p

\* A cancellation of c was handled before the POST of c, and released nothing.
Overtaken(c, s) == \E k \in early : Target[k] = c /\ session[k] = s

\* Nobody will respond to c: it was overtaken by a cancellation that yet came to
\* the loop of s after it.
Suppressed(c, s) == Overtaken(c, s) /\ ~Underway(c, s)

\* A request whose session goes on is responded to, cancelled or not: a
\* cancellation releases the POST, because the loop suppresses the response
\* (handle_post).  The exception is a cancellation that finds no POST to release
\* and is still forwarded after the request.
AnsweredOrEnded ==
  \A c \in Calls, s \in Inits :
    (pc[c] = "waiting" /\ Holds(c, s))
      ~> (pc[c] = "done" \/ loop[s] = "ended" \/ Suppressed(c, s))

\* What the comment in handle_post says, and the exception refutes: a cancellation
\* releases the POST that waits on the cancelled request.
CancellationReleases ==
  \A k \in Cancels, s \in Inits :
    (result[k] = "accepted" /\ session[k] = s
       /\ Holds(Target[k], s) /\ pc[Target[k]] = "waiting")
      ~> (pc[Target[k]] = "done" \/ loop[s] = "ended")

\* The loop of a session that left the table ends, also when nobody signalled
\* it: the last clone of the session drops its handle (ServerHandle::drop).  Only
\* a POST that nobody will respond to can keep its clone for ever.
RemovedSessionEnds ==
  \A s \in Inits :
    (loop[s] = "running" /\ s \notin table)
      ~> (loop[s] = "ended" \/ \E c \in Calls : Holds(c, s) /\ Suppressed(c, s))

\* What the comment in handle_post says: the POST of a request ends when its
\* session shuts down before responding.
EndedSessionReleases ==
  \A c \in Calls :
    (pc[c] = "waiting" /\ loop[session[c]] = "ended") ~> pc[c] = "done"
=============================================================================
