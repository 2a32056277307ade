-------------------------- MODULE ClientConnection --------------------------
(***************************************************************************)
(* A client over successive connections: its owner connects, shakes hands  *)
(* and disconnects; the message loop of the connection dispatches what the *)
(* server sends; each request of the server runs in a task of its own,     *)
(* which outlives the loop and the connection.                             *)
(*                                                                         *)
(* connect, init and disconnect take `&mut self`: the owner does one thing *)
(* at a time, and a new connection waits for the loop of the one before to *)
(* end.  The pending requests of the client are RequestHandler; of them    *)
(* only initialize matters here.  A server numbers its requests afresh on  *)
(* each connection and uses an id once.                                    *)
(***************************************************************************)
EXTENDS Naturals, Sequences

CONSTANTS Id,          \* ids of the requests of a server
          MaxConns,    \* bound on the connections
          MaxInits,    \* bound on the calls of initialize
          MaxInbox     \* bound on the messages on their way to the client

ASSUME ConnAssumption == MaxConns \in Nat \ {0} /\ MaxInits \in Nat /\ MaxInbox \in Nat \ {0}

VARIABLES
  \* Client
  owner,      \* what the owner of the client is doing
  teardown,   \* why it disconnects: its own wish or a failed handshake
  spawning,   \* connect_child is under way: it kills the child it fails with
  result,     \* how its last handshake ended
  attached,   \* the connection whose sink the request handler has, 0 for none
  context,    \* the connection of self.context, 0 for None
  onConnectCalled,
  \* the initialize request
  inits,      \* calls so far; a call is known by its number
  pending,    \* the call whose response is awaited, 0 for none
  reply,      \* what its response says
  \* the current connection
  conn,       \* its number, 0 before the first
  loop,       \* its message loop
  inbox,      \* what the server sent and the loop has not read
  wire,       \* the messages of the handshake that the client wrote
  peer,       \* whether the server has its end open
  child,      \* the process behind it, and who has it in hand
  \* the requests of every connection
  task,       \* the task of each request of the server
  inFlight,   \* InFlight: the requests a cancellation can reach
  cancelled,  \* those whose token is cancelled
  \* history
  greeted,    \* how often on_connect succeeded on the current connection
  farewell,   \* its on_shutdown was called
  reached     \* the requests that a cancellation found running

ownerVars == <<owner, teardown, spawning, result>>
clientVars == <<attached, context, onConnectCalled>>
initVars == <<inits, pending, reply>>
loopVars == <<conn, loop, inbox>>
taskVars == <<task, inFlight, cancelled, reached>>
historyVars == <<greeted, farewell>>
vars == <<ownerVars, clientVars, initVars, loopVars, peer, child, wire, taskVars, historyVars>>

Conn == 1..MaxConns
Call == 1..MaxInits

Reply(n, good) == [kind |-> IF good THEN "accepts" ELSE "refuses", of |-> n]
Request(i) == [kind |-> "request", of |-> i]
Cancel(i) == [kind |-> "cancel", of |-> i]
Initialize(n) == [kind |-> "initialize", of |-> n]
Initialized(n) == [kind |-> "initialized", of |-> n]
Inbound == [kind : {"accepts", "refuses"}, of : Call] \cup [kind : {"request", "cancel"}, of : Id]
Outbound == [kind : {"initialize", "initialized"}, of : Call]

TypeOK ==
  /\ owner \in {"free", "asking", "waiting", "announcing", "callback",
                "closing", "stopping", "killing"}
  /\ teardown \in {"wish", "handshake"} /\ spawning \in BOOLEAN
  /\ result \in {"none", "ok", "failed", "dropped"}
  /\ attached \in 0..MaxConns /\ context \in 0..MaxConns /\ onConnectCalled \in BOOLEAN
  /\ inits \in 0..MaxInits /\ pending \in 0..MaxInits
  /\ reply \in {"none", "accepts", "refuses"}
  /\ conn \in 0..MaxConns
  /\ loop \in {"none", "running", "closing", "callback", "done", "aborted", "panicked"}
  /\ inbox \in Seq(Inbound)
  /\ peer \in {"open", "closed"}
  /\ child \in {"none", "alive", "handed", "left", "killed"}
  /\ wire \subseteq Outbound
  /\ task \in [Conn -> [Id -> {"none", "running", "answering", "ended"}]]
  /\ inFlight \in [Conn -> SUBSET Id] /\ cancelled \in [Conn -> SUBSET Id]
  /\ greeted \in Nat /\ farewell \in BOOLEAN
  /\ reached \subseteq Conn \X Id

Init ==
  /\ owner = "free" /\ teardown = "wish" /\ spawning = FALSE /\ result = "none"
  /\ attached = 0 /\ context = 0 /\ onConnectCalled = FALSE
  /\ inits = 0 /\ pending = 0 /\ reply = "none"
  /\ conn = 0 /\ loop = "none" /\ inbox = <<>>
  /\ wire = {} /\ peer = "open" /\ child = "none"
  /\ task = [c \in Conn |-> [i \in Id |-> "none"]]
  /\ inFlight = [c \in Conn |-> {}] /\ cancelled = [c \in Conn |-> {}]
  /\ greeted = 0 /\ farewell = FALSE /\ reached = {}

Running(c) == {i \in Id : task[c][i] = "running"}
LoopLives == loop \in {"running", "closing", "callback"}

Write(m) == wire' = wire \cup {m}

\* The handshake cannot go on: initialize disconnects before it returns.
Fails == owner' = "closing" /\ teardown' = "handshake"

\* The future of initialize ends.
Returns(how) ==
  owner' = "free" /\ result' = how /\ spawning' = FALSE /\ teardown' = "wish"

-----------------------------------------------------------------------------
(* Deviations: each is the definition named in its comment with one        *)
(* plausible mistake.  No specification uses them.                         *)

\* Detach that leaves the transport in place.
DetachNothing == UNCHANGED attached

\* Connect that leaves it to disconnect to forget that on_connect was called.
ConnectKeepsCallback(process) ==
  /\ owner = "free" /\ conn < MaxConns /\ (process => inits < MaxInits)
  /\ conn' = conn + 1 /\ attached' = conn + 1 /\ context' = conn + 1
  /\ onConnectCalled' = onConnectCalled
  /\ loop' = "running" /\ inbox' = <<>>
  /\ wire' = {} /\ peer' = "open" /\ child' = IF process THEN "alive" ELSE "none"
  /\ greeted' = 0 /\ farewell' = FALSE
  /\ spawning' = process /\ result' = "none"
  /\ owner' = IF process THEN "asking" ELSE "free"
  /\ UNCHANGED <<teardown, initVars, taskVars>>

\* TakeReply that returns a refusal to its caller and leaves it to disconnect.
TakeReplyOnly ==
  /\ owner = "waiting" /\ reply # "none"
  /\ pending' = 0 /\ reply' = "none"
  /\ \/ reply = "accepts" /\ owner' = "announcing" /\ UNCHANGED <<spawning, result, teardown>>
     \/ reply = "refuses" /\ Returns("failed")
  /\ UNCHANGED <<clientVars, inits, loopVars, peer, child, wire, taskVars, historyVars>>

\* Finish when one InFlight serves every connection of the client.
FinishEverywhere(c, i) ==
  /\ task[c][i] = "running"
  /\ task' = [task EXCEPT ![c][i] = IF i \in cancelled[c] THEN "ended" ELSE "answering"]
  /\ inFlight' = [d \in Conn |-> inFlight[d] \ {i}]
  /\ cancelled' = [cancelled EXCEPT ![c] = @ \ {i}]
  /\ reached' = IF i \in cancelled[c] THEN reached \ {<<c, i>>} ELSE reached
  /\ UNCHANGED <<ownerVars, clientVars, initVars, loopVars, peer, child, wire, historyVars>>

\* Stop that leaves the loop to end by itself.
StopWithoutAbort ==
  /\ owner = "stopping"
  /\ context' = 0 /\ onConnectCalled' = FALSE
  /\ \/ teardown = "wish" /\ owner' = "free" /\ UNCHANGED <<result, spawning, teardown>>
     \/ teardown = "handshake" /\ spawning /\ owner' = "killing" /\ UNCHANGED <<result, spawning, teardown>>
     \/ teardown = "handshake" /\ ~spawning /\ Returns("failed")
  /\ UNCHANGED <<attached, initVars, loopVars, peer, child, wire, taskVars, historyVars>>

-----------------------------------------------------------------------------
(* The owner: connecting.                                                  *)

\* RequestHandler::shutdown: no transport, and no response for anyone.
Detach == attached' = 0

\* connect stops the loop it replaces, wherever that is, before it installs
\* the new transport.  connect_child goes on with the handshake.
Connect(process) ==
  /\ owner = "free" /\ conn < MaxConns /\ (process => inits < MaxInits)
  /\ conn' = conn + 1 /\ attached' = conn + 1 /\ context' = conn + 1
  /\ onConnectCalled' = FALSE
  /\ loop' = "running" /\ inbox' = <<>>
  /\ wire' = {} /\ peer' = "open" /\ child' = IF process THEN "alive" ELSE "none"
  /\ greeted' = 0 /\ farewell' = FALSE
  /\ spawning' = process /\ result' = "none"
  /\ owner' = IF process THEN "asking" ELSE "free"
  /\ UNCHANGED <<teardown, initVars, taskVars>>

\* The transport cannot be opened: the connection before it stays, without its
\* context.  A child whose pipes cannot be attached is killed at once.
ConnectFails ==
  /\ owner = "free"
  /\ context' = 0 /\ onConnectCalled' = FALSE
  /\ UNCHANGED <<ownerVars, attached, initVars, loopVars, peer, child, wire, taskVars, historyVars>>

-----------------------------------------------------------------------------
(* The owner: the handshake.                                               *)

CallInit ==
  /\ owner = "free" /\ inits < MaxInits
  /\ owner' = "asking" /\ result' = "none"
  /\ UNCHANGED <<teardown, spawning, clientVars, initVars, loopVars,
                 peer, child, wire, taskVars, historyVars>>

\* A write to a server that closed its end may fail or vanish.
Ask ==
  /\ owner = "asking"
  /\ inits' = inits + 1
  /\ \/ /\ attached # 0
        /\ Write(Initialize(inits + 1))
        /\ owner' = "waiting" /\ pending' = inits + 1 /\ UNCHANGED teardown
     \/ /\ attached # 0 => peer = "closed"
        /\ Fails /\ UNCHANGED <<wire, pending>>
  /\ UNCHANGED <<spawning, result, clientVars, reply, loopVars, peer, child, taskVars, historyVars>>

\* The version must be one of the client's.
TakeReply ==
  /\ owner = "waiting" /\ reply # "none"
  /\ pending' = 0 /\ reply' = "none"
  /\ \/ reply = "accepts" /\ owner' = "announcing" /\ UNCHANGED teardown
     \/ reply = "refuses" /\ Fails
  /\ UNCHANGED <<spawning, result, clientVars, inits, loopVars, peer, child, wire, taskVars, historyVars>>

NoReply ==
  /\ owner = "waiting" /\ reply = "none"
  /\ pending' = 0 /\ Fails
  /\ UNCHANGED <<spawning, result, clientVars, inits, reply, loopVars, peer, child, wire, taskVars, historyVars>>

\* The transport is gone.
Wake == attached = 0 /\ NoReply

\* The deadline passes, if the client has one.
Expire == attached # 0 /\ NoReply

\* The notice goes out, and on_connect is called unless this connection had it.
Announce ==
  /\ owner = "announcing"
  /\ \/ /\ attached # 0 /\ Write(Initialized(inits))
        /\ \/ onConnectCalled /\ Returns("ok")
           \/ ~onConnectCalled /\ context # 0 /\ owner' = "callback" /\ UNCHANGED <<teardown, result, spawning>>
           \/ ~onConnectCalled /\ context = 0 /\ Fails /\ UNCHANGED <<result, spawning>>
     \/ /\ attached # 0 => peer = "closed"
        /\ Fails /\ UNCHANGED <<wire, result, spawning>>
  /\ UNCHANGED <<clientVars, initVars, loopVars, peer, child, taskVars, historyVars>>

OnConnect ==
  /\ owner = "callback"
  /\ \/ /\ onConnectCalled' = TRUE /\ Returns("ok")
        /\ greeted' = greeted + 1
        /\ child' = IF spawning THEN "handed" ELSE child
     \/ Fails /\ UNCHANGED <<onConnectCalled, result, spawning, greeted, child>>
  /\ UNCHANGED <<attached, context, initVars, loopVars, peer, wire, taskVars, farewell>>

\* The caller drops the future of initialize, say because of a timeout of its
\* own: nothing is torn down, and a child is left to itself.
DropInit ==
  /\ owner \in {"waiting", "announcing", "callback"}
  /\ Returns("dropped") /\ pending' = 0 /\ reply' = "none"
  /\ child' = IF spawning THEN "left" ELSE child
  /\ UNCHANGED <<clientVars, inits, loopVars, peer, wire, taskVars, historyVars>>

-----------------------------------------------------------------------------
(* The owner: disconnecting.                                               *)

Disconnect ==
  /\ owner = "free"
  /\ owner' = "closing" /\ teardown' = "wish"
  /\ UNCHANGED <<spawning, result, clientVars, initVars, loopVars, peer, child, wire, taskVars, historyVars>>

Close ==
  /\ owner = "closing"
  /\ owner' = "stopping" /\ Detach
  /\ UNCHANGED <<teardown, spawning, result, context, onConnectCalled, initVars,
                 loopVars, peer, child, wire, taskVars, historyVars>>

\* The loop is aborted wherever it waits, on_shutdown included.
Stop ==
  /\ owner = "stopping"
  /\ loop' = IF LoopLives THEN "aborted" ELSE loop
  /\ context' = 0 /\ onConnectCalled' = FALSE
  /\ \/ teardown = "wish" /\ owner' = "free" /\ UNCHANGED <<result, spawning, teardown>>
     \/ teardown = "handshake" /\ spawning /\ owner' = "killing" /\ UNCHANGED <<result, spawning, teardown>>
     \/ teardown = "handshake" /\ ~spawning /\ Returns("failed")
  /\ UNCHANGED <<attached, initVars, conn, inbox, peer, child, wire, taskVars, historyVars>>

Kill ==
  /\ owner = "killing"
  /\ child' = "killed" /\ peer' = "closed"
  /\ Returns("failed")
  /\ UNCHANGED <<clientVars, initVars, loopVars, wire, taskVars, historyVars>>

-----------------------------------------------------------------------------
(* The message loop of the current connection.                             *)

ReadReply ==
  /\ loop = "running" /\ inbox # <<>>
  /\ Head(inbox).kind \in {"accepts", "refuses"}
  /\ inbox' = Tail(inbox)
  /\ reply' = IF Head(inbox).of = pending THEN Head(inbox).kind ELSE reply
  /\ UNCHANGED <<ownerVars, clientVars, inits, pending, conn, loop, peer, child, wire, taskVars, historyVars>>

\* The request can be cancelled before its task runs.
ReadRequest ==
  /\ loop = "running" /\ inbox # <<>> /\ Head(inbox).kind = "request"
  /\ inbox' = Tail(inbox)
  /\ task' = [task EXCEPT ![conn][Head(inbox).of] = "running"]
  /\ inFlight' = [inFlight EXCEPT ![conn] = @ \cup {Head(inbox).of}]
  /\ UNCHANGED <<ownerVars, clientVars, initVars, conn, loop, peer, child, wire, cancelled, reached, historyVars>>

\* The notification handler runs in the loop, and a panic of it ends the loop
\* without its farewell: the transport stays in the request handler.
ReadCancel ==
  /\ loop = "running" /\ inbox # <<>> /\ Head(inbox).kind = "cancel"
  /\ inbox' = Tail(inbox)
  /\ cancelled' = [cancelled EXCEPT ![conn] = @ \cup ({Head(inbox).of} \cap inFlight[conn])]
  /\ loop' \in {"running", "panicked"}
  /\ reached' = reached \cup {<<conn, i>> : i \in {Head(inbox).of} \cap Running(conn)}
  /\ UNCHANGED <<ownerVars, clientVars, initVars, conn, peer, child, wire, task, inFlight, historyVars>>

\* The stream ends, or a write of the loop fails while messages wait.
Break ==
  /\ loop = "running" /\ peer = "closed"
  /\ loop' = "closing" /\ Detach
  /\ UNCHANGED <<ownerVars, context, onConnectCalled, initVars, conn, inbox, peer, child, wire, taskVars, historyVars>>

CallShutdown ==
  /\ loop = "closing"
  /\ loop' = "callback" /\ Detach
  /\ farewell' = TRUE
  /\ UNCHANGED <<ownerVars, context, onConnectCalled, initVars, conn, inbox, peer, child, wire, taskVars, greeted>>

OnShutdown ==
  /\ loop = "callback" /\ loop' = "done"
  /\ UNCHANGED <<ownerVars, clientVars, initVars, conn, inbox, peer, child, wire, taskVars, historyVars>>

-----------------------------------------------------------------------------
(* The task of a request, with or without the loop.                        *)

\* The handler returns; a request that was cancelled gets no response.
Finish(c, i) ==
  /\ task[c][i] = "running"
  /\ task' = [task EXCEPT ![c][i] = IF i \in cancelled[c] THEN "ended" ELSE "answering"]
  /\ inFlight' = [inFlight EXCEPT ![c] = @ \ {i}]
  /\ cancelled' = [cancelled EXCEPT ![c] = @ \ {i}]
  /\ reached' = IF i \in cancelled[c] THEN reached \ {<<c, i>>} ELSE reached
  /\ UNCHANGED <<ownerVars, clientVars, initVars, loopVars, peer, child, wire, historyVars>>

Panic(c, i) ==
  /\ task[c][i] = "running"
  /\ task' = [task EXCEPT ![c][i] = "ended"]
  /\ reached' = reached \ {<<c, i>>}
  /\ UNCHANGED <<ownerVars, clientVars, initVars, loopVars, peer, child, wire,
                 inFlight, cancelled, historyVars>>

\* The task writes to the connection of its request, the current one or not.
Respond(c, i) ==
  /\ task[c][i] = "answering"
  /\ task' = [task EXCEPT ![c][i] = "ended"]
  /\ UNCHANGED <<ownerVars, clientVars, initVars, loopVars, peer, child, wire,
                 inFlight, cancelled, reached, historyVars>>

-----------------------------------------------------------------------------
(* The server: it answers initialize, asks, cancels what it asked and was   *)
(* not yet answered, closes.                                               *)

Talks(m) ==
  /\ conn # 0 /\ peer = "open" /\ LoopLives /\ Len(inbox) < MaxInbox
  /\ inbox' = Append(inbox, m)
  /\ UNCHANGED <<ownerVars, clientVars, initVars, conn, loop, peer, child, wire, taskVars, historyVars>>

Queued(m) == \E n \in DOMAIN inbox : inbox[n] = m

ServerReplies(n, good) ==
  /\ conn # 0 /\ Initialize(n) \in wire /\ n = inits
  /\ ~Queued(Reply(n, TRUE)) /\ ~Queued(Reply(n, FALSE))
  /\ reply = "none" /\ Initialized(n) \notin wire
  /\ Talks(Reply(n, good))

ServerAsks(i) ==
  /\ conn # 0 /\ task[conn][i] = "none" /\ ~Queued(Request(i))
  /\ Talks(Request(i))

ServerCancels(i) ==
  /\ conn # 0 /\ (task[conn][i] \in {"running", "answering"} \/ Queued(Request(i)))
  /\ i \notin cancelled[conn] /\ ~Queued(Cancel(i))
  /\ Talks(Cancel(i))

ServerCloses ==
  /\ conn # 0 /\ peer = "open"
  /\ peer' = "closed"
  /\ UNCHANGED <<ownerVars, clientVars, initVars, loopVars, child, wire, taskVars, historyVars>>

-----------------------------------------------------------------------------

HandshakeStep == Ask \/ TakeReply \/ Wake \/ Announce \/ OnConnect
TeardownStep == Close \/ Stop \/ Kill
LoopStep == ReadReply \/ ReadRequest \/ ReadCancel \/ Break \/ CallShutdown \/ OnShutdown
TaskStep(c, i) == Finish(c, i) \/ Respond(c, i)
ServerStep ==
  \/ \E n \in Call, good \in BOOLEAN : ServerReplies(n, good)
  \/ \E i \in Id : ServerAsks(i) \/ ServerCancels(i)
  \/ ServerCloses

Next ==
  \/ \E process \in BOOLEAN : Connect(process)
  \/ ConnectFails \/ CallInit \/ Expire \/ DropInit \/ Disconnect
  \/ HandshakeStep \/ TeardownStep \/ LoopStep
  \/ \E c \in Conn, i \in Id : TaskStep(c, i) \/ Panic(c, i)
  \/ ServerStep

Spec == Init /\ [][Next]_vars

\* The tasks of the client are scheduled, its handlers and callbacks end;
\* nothing makes its owner call, or the server talk or close, and a client
\* without a request timeout has no deadline that passes.
Fairness ==
  /\ WF_vars(HandshakeStep) /\ WF_vars(TeardownStep) /\ WF_vars(LoopStep)
  /\ \A c \in Conn, i \in Id : WF_vars(TaskStep(c, i))

FairSpec == Spec /\ Fairness

-----------------------------------------------------------------------------
(* Properties.                                                             *)

\* initialize succeeds only on a connection that was announced to the server
\* and whose on_connect succeeded, exactly once, however many connections and
\* handshakes came before.
OkMeansConnected ==
  owner = "free" /\ result = "ok" /\ context # 0 => Initialized(inits) \in wire /\ greeted = 1

\* A failed handshake leaves nothing behind: no transport, no context, no loop,
\* no process.
FailedHandshakeLeavesNothing ==
  owner = "free" /\ result = "failed" =>
    attached = 0 /\ context = 0 /\ ~LoopLives /\ child # "alive"

\* A cancellation that reaches a running request suppresses its response,
\* whatever requests of the same id earlier connections left behind.
NoResponseAfterCancel ==
  \A c \in Conn, i \in Id : <<c, i>> \in reached => task[c][i] # "answering"

\* A handshake ends when its server goes away, deadline or not, unless a
\* notification handler brought the loop down.
HandshakeEnds ==
  owner = "waiting" /\ peer = "closed" ~> owner = "free" \/ loop = "panicked"

\* Nobody holds the transport of the connection any more.
Released(c) ==
  /\ attached # c /\ (c = conn => ~LoopLives)
  /\ \A i \in Id : task[c][i] \notin {"running", "answering"}

\* A client that disconnected gives up the transport once the handlers that
\* still run have ended.
DisconnectReleases ==
  \A c \in Conn : owner = "free" /\ conn = c /\ attached = 0 ~> Released(c)

\* A connection whose start the handler was told of does not end without its
\* being told of that, too: on_shutdown is "called when the connection is being
\* closed".
FarewellIsCalled ==
  greeted > 0 /\ owner = "free" /\ loop \in {"done", "aborted"} => farewell
=============================================================================
