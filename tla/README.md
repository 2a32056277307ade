# A verification project for tmcp

tmcp is a Rust library for the Model Context Protocol: clients and servers
exchange JSON-RPC requests, responses and notifications over stdio, TCP, byte
streams or HTTP. This directory models the parts whose correctness depends on
the order of events, checks the models with TLC, and proves the properties that
matter most with TLAPS. Paths below are relative to `src/crates/tmcp/src/`.

Contents: [inventory](#inventory), [plan](#plan), [modules](#modules),
[runs](#runs), [findings](#findings), [disagreements](#disagreements),
[observations](#observations), [proofs](#proofs),
[what is not modelled](#not-modelled).

## Inventory

| component | state | operations | what is hard |
|---|---|---|---|
| outbound requests, `request_handler.rs` | request counter, map of oneshot senders, transport and notice queue, shutdown flag | start, send, wait, expire, drop, dispatch a response, shutdown | four parties (caller, deadline, answer, shutdown) race to settle a request; handlers outlive connections |
| client, `client.rs` | message loop task, handler context, connected flag, child process | connect, connect_child, initialize, disconnect, message loop, drop | an aborted loop runs no cleanup; reconnects under pending requests and running handlers; a handshake that fails half-way |
| server connection, `server.rs` | loop, four queues, in-flight count, capabilities | initialize, requests in tasks, notifications, EOF drain, stop | five branches polled at random, handlers on other threads, draining after half-close |
| handler contexts, `context.rs` | in-flight map with tokens, closed token | begin, finish, cancel, notify, ask | cancellation against completion |
| custom requests, `custom.rs` | none | payload limits, deadlines | limits at both ends |
| framing, `codec.rs` | scan index | decode, encode | frames in pieces, the size limit |
| HTTP server, `http/server.rs` | session table, per-session streams with replay buffers, pending posts | POST, GET (SSE), DELETE, expiry, shutdown | replay against live delivery, checks before inserts, posts that wait |
| HTTP client, `http/client.rs` | session id, dispatch permits, SSE manager | send, 401 retry, stream reconnection | permits held while waiting, a retry with a token others may have replaced |
| tool set, `toolset.rs` | groups, exclusions, active set | register, activate, deactivate, list, call | plan, hooks and apply are separate steps; exclusion with ancestors |
| OAuth client, `auth/oauth_client.rs` | token, store | get, refresh, reconcile, invalidate | concurrent refresh and a shared store |
| token validation, `auth/server/jwt.rs` | key cache | select key, refresh | rotation, cooldown |

Interactions: a peer's *requests* go through its RequestHandler to the sink of
the current connection; the *message loop* of the other side reads them, runs a
handler task for each and writes the response; responses come back through the
message loop into RequestHandler. Client and server both play both roles: a
server handler asks the client through the same RequestHandler. HTTP puts
sessions between the two: a POST carries messages in, and its answer or the SSE
stream of the session carries messages out.

What makes each correct:

* outbound requests: every request is settled once, by its own answer, its
  deadline, its caller or the end of its connection; nothing leaks; the other
  side is told about abandoned requests and about no others;
* client: a handshake that succeeds is complete and one that fails leaves
  nothing; cancelled requests of the server get no response; a disconnected
  client lets go of its transport;
* server connection: one response per request unless cancelled in time,
  notifications in order and only as negotiated, a drain that loses nothing and
  ends, a stop that ends;
* HTTP sessions: no event lost or doubled within the replay window, a session
  that is gone stays gone and ends its loop, no post that waits for ever;
* tool set: no two exclusive groups active, visibility follows activation,
  hooks and active groups agree, changes are announced;
* tokens: no refresh token is used twice, no client goes back to an older token,
  a repeated POST carries a new one;
* keys: a retired key is not trusted for longer than a lifetime, a published
  one is found after a cooldown, and failures do not become stampedes;
* framing: the frames are the lines, in every cut of the stream.

## Plan

The order was that of importance, and every step but the last is written.

1. `RequestHandler`, its abstract specification `RequestLifecycle`, and
   `RequestHandlerProofs`.
2. `ServerConnection` and `ServerConnectionProofs`.
3. `SessionStream` and `HttpSessions`, and `HttpServerProofs`, which proves
   about both.
4. `ToolGroups` and `ToolGroupsProofs`.
5. `ClientConnection` and `ClientConnectionProofs`.
6. `OAuthTokens`; `HttpPosts`, which composes the posting of messages with the
   OAuth client; and `HttpPostsProofs`, which proves about both and shows that
   HttpPosts uses the client as OAuthTokens says.
7. `JwksCache` and `JwksCacheProofs`; `Framing` and `FramingProofs`.
8. Left: a composition of two connections over pipes of bounded capacity; the
   protocol version and the subject check in HttpSessions; the listing of tools
   with its cursor.

Bounds: two requests and two connections show every race between two callers
and across one reconnection; queues of capacity one reach both their limits
with one more item. Theorems carry the results to all values.

## Modules

**RequestHandler** models `RequestHandler` and `OutboundRequest` together with
the parts of `Client` that drive them. Handler state is `nextId`, `slots`
(`pending_requests`), `transport`, `cancellations`, `shuttingDown`; each member
of `Requests` is one call of `request_pending_with_timeout`, with its place in
the code (`pc`), id, captured notice queue (`cancel`), cloned transport
(`sink`), oneshot (`chan`) and result (`outcome`). The connection side has the
message loop (`loop`), the lock of the sink (`holder`), the notice queue and
what was written about each request (`seen`). Connections are numbered; 0
stands for None.

| action | code |
|---|---|
| Start, Refused, CloneTransport | `OutboundRequest::start`, `send_message` up to its first await |
| Buffer, Flushed, SendFails | the send, under the sink's lock |
| Expire, Abandon, Receive | `before_deadline`, dropped futures and `wait_cancellable`, `response` |
| ReleaseSlot, Notify | the two halves of `Drop for OutboundRequest` |
| Dispatch | `handle_response` in the message loop |
| TakeNotice, ForwardNotice | the `cancel_rx` branch |
| LoopBreaks, LoopDetaches, LoopClears | the end of the loop and the three steps of `shutdown` |
| Connect, Disconnect..., DropClient | the owner of the client |

The steps of `shutdown` (flag, transport, notice queue, map) are separate
because requests start and finish between them. `Connect`, `Disconnect` and
`DropClient` need `&mut self`, so they exclude a request in its send
(`NoBorrow`) but not one that waits. The other side answers anything it was
sent, any number of times, at any time.

**RequestLifecycle** is what the handler promises: a request is issued, then
answered or closed, its caller gets one result - a response only when it was
answered - and the other side is told at most once, of a request that was given
up and closed. `RequestHandler!ImplementsLifecycle` maps the oneshot to the
status, the outcome to the result and the wire to `told`.

**ServerConnection** models the loop spawned by `ServerHandle::new`. `lp` says
where it is: in its `select!` ("ready"), inside a branch (initializing,
connecting, notifying, writing), at the exit test (checking), or on its way
out. Request tasks go from running through `finish_request`, the subtraction
from `in_flight_requests` and the send to the outbound queue, one step each,
because the loop can run between any two. Reading is a choice among what a
client may send next. `wire` is what the client receives, error responses to
nothing left out. A handler returns at any time, may panic when it is in
`MayPanic`, emits notifications, and leaves behind the notice of a question it
gave up.

**SessionStream** models the standing SSE stream of one session from both ends.
On the server, `lastId`, `replay` and `tx` are the fields of `StreamState`;
`queue` and `receiver` are the channels that `attach_stream` made, one for each
GET. On the client, `get`, `asked`, `client`, `wire` and `lastSeen` are the loop
of `run_sse_manager` around `connect_sse`. An event is its number, which is all
the stream and the client look at. `received` and `attachedAt` are history.

| action | code |
|---|---|
| SendToStream | `send_to_stream`: number the event, remember it, `try_send`, drop a full or closed stream |
| AttachStream | `handle_get`, `attach_stream`: a new channel with the replay in it replaces the stream |
| ClearStream | `stream_alive`, from the session cleanup |
| ReceiverDropped | the HTTP server drops the response nobody reads |
| Ask, Opened, Read, End, Break | `connect_sse`: GET with Last-Event-ID, response, event, end, error |
| Write | the HTTP server moves an event from the channel to the connection |

GETs the client gave up stay in flight and may arrive later, after newer ones.
The code builds the channel with `mpsc::channel(SSE_STREAM_CAPACITY)` of
`futures`, whose only sender has a slot besides the buffer; `StreamCapacity` is
what the channel holds in all.

**HttpSessions** models the table of sessions and everything that removes a
session from it. Each POST is an actor with its place in `handle_post` or
`handle_initialize_post` (`pc`), the session it cloned, its oneshot (`chan`) and
its answer (`result`); `pending` is the map of senders, `inbox` the channel to
the loop of a session. Every POST sends with a clone of `incoming_tx`, and in a
`futures` channel each clone has a slot of its own: a POST that meets a full
buffer leaves its message in the channel and is parked until the loop takes one.
`parked` are those POSTs. A loop is stopped when its token is cancelled or the
last clone of its handle is gone (`Stopped`). The client posts a cancellation from
another task than the request, so the two are handled in any order; `early` is
history, the cancellations that were handled before the POST of their target and
so released nothing.

| action | code |
|---|---|
| CheckLimit, CreateSession | `handle_initialize_post` up to the insert |
| LookUp, LookUpCancel, LookUpNote | `handle_post`: find, touch, and register, release or neither; a cancellation may come before its target |
| Forward, Flush, ForwardFails | `HttpSession::forward` and what the POST does when it fails |
| Respond, HangUp | the oneshot; the connection of the POST closes |
| Take, TakeInitialize, Answer, FailInitialize, StopLoop | the loop, as far as HTTP sees it |
| OpenStream, CloseStream, Delete | `handle_get`, the end of its stream, `handle_delete` |
| TimePasses, CollectExpired, RemoveExpired, EndCleanup | `spawn_session_cleanup`, before and after it collects |
| Shutdown, SignalAll, ClearTable | `spawn_shutdown_watchdog` |
| CloseListener, EndListener | `serve` with its graceful shutdown; `Embedded` is `into_router` |

**ToolGroups** models the registry of groups of one `ToolSet` and the tasks that
change it. `registered`, `active` and `exclusions` are the registry, `tool` says
who owns the generated `activate` tool of each group, `lock` and `plan` are
`activation_lock` and the `GroupChangePlan` of the task that holds it. Planning,
each hook and the change are steps of their own, because registration takes only
the lock of the registry and may come between. The parent of a group is a
function of its dotted name (`Above`).

| action | code |
|---|---|
| Begin, MakePlan | `activate_group`, `deactivate_group` up to the plan; `plan_activation`, `plan_deactivation`, `collect_descendants` |
| RunHook | one turn of `run_activation_hooks`: teardown from the inside out, then setup; it fails or succeeds |
| Apply | `apply_activation`, `apply_deactivation`, `notify_list_changed` |
| Abandon | the future of the call is dropped at an await |
| RegisterGroup, RegisterAutoTools | the two steps of `ToolSet::register_group`; the second fails, and undoes the first, when the program has a tool of that name that is not the generated one |
| CheckExclusion, AddExclusion | `register_exclusion` |
| RegisterTool, UnregisterTool | the tools of the program that bear a generated name |

**OAuthTokens** models `OAuth2Client` with its cache, `lifecycle_lock` and an
optional `TokenStore` that clients of several processes share. The identity
provider rotates refresh tokens, so the n-th token of the credential is the
number n. `call` has one record per task: the operation, its place in the code,
the token it was told was refused (`arg`), and what it loaded from the store
(`base`).

| action | code |
|---|---|
| Start, Collect, Drop | `get_valid_token`, `refresh_access_token_if_current`, `refresh_access_token`: called, returned, dropped |
| TakeLock | `lifecycle_lock`, and what is decided from the cache under it |
| LockStore, Load | `reconcile_with_store`: the store's guard, then its credential, and what is decided from it |
| Refresh, TimeOut | `request_refreshed_token`; the provider answers, or uses the token up and the answer is lost |
| Install, Save | `refresh_and_store`: `install_token_locked`, `save`, which may fail |
| NewGrant, Expire, RemoveCredential | `exchange_code`; time; the owner of the store |

**HttpPosts** extends OAuthTokens with the dispatch task of
`HttpClientTransport` and the tasks of its messages. `outbox` is `http_rx`,
`taken` the request that the dispatch task itself holds while it waits for a
permit, `stage` the place of each message in `send_outbound`.

| action | code |
|---|---|
| Send, Take, Spawn | the queue; the dispatch task takes a message, waits for a permit, spawns `send_outbound` |
| Asks, HasToken | `attach_bearer` before the first POST; `retry_unauthorized` before the second |
| Post, Answer | the POST and its response: accepted, refused with 401, or open until the server answers |
| Revoke | the server stops accepting a token that is still fresh |

**JwksCache** models the cache of `JwtValidator`: `keys`, `fetchedAt` and
`forcedAt` (`last_unknown_kid_refresh`), `refresh_lock`, and one validation per
task. Time is a clock that may tick between any two steps; the issuer publishes
and retires keys at any time.

| action | code |
|---|---|
| Begin | `load_jwk_set` up to the fresh cache, and the choice from it |
| LockForLoad, LockForKid | the second look under `refresh_lock`, in `load_jwk_set` and in `refresh_unknown_kid` with its cooldown |
| Answered, FetchFails | the request to the JWKS endpoint |
| Store | `store_remote_jwk_set` and the choice that follows |
| Leave | the request that validates is dropped |

**ClientConnection** models a `Client` over successive connections: the one
thing its owner does (`owner`), the transport of the request handler
(`attached`), the handler's `context`, the message loop with its inbox, and a
task for each request of the server. Tasks outlive their loop and connection, so
they are indexed by both.

| action | code |
|---|---|
| Connect, ConnectFails, Kill | `connect`, `start_message_handler`, `connect_child`, `attach_child` |
| CallInit, Ask, TakeReply, Wake, Expire, Announce, OnConnect | `initialize`, await by await, with `call_on_connect` |
| Disconnect, Close, Stop, DropInit | `disconnect` after a failed handshake or by the owner's wish; a dropped future |
| ReadReply, ReadRequest, ReadCancel | one message of the loop |
| Break, CallShutdown, OnShutdown | the end of the loop, `RequestHandler::shutdown`, `on_shutdown` |
| Finish, Panic, Respond | the task of a request: `finish_request`, then the response through the sink |

**Framing** models one direction of a byte stream with `JsonRpcCodec` at the
reading end, and at the writing end either another `JsonRpcCodec` or a program
that prints what it likes. A byte is a newline, one that JSON may hold, or one
that it may not. `consumed` and `received` delimit the buffer `src`, `scan` is
`next_scan_index`.

| action | code |
|---|---|
| Encode, Prints, Close | `encode` with its limit; foreign output; the end of the stream |
| Receive, Eof | a read of `Framed`; its `decode_eof` |
| Decode (Skips, Resumes, Split, Wait, Rewinds) | one call of `decode` |

Every state machine but RequestLifecycle has deviations: definitions with one
plausible mistake each, which no specification uses and which show that the
properties can fail.

## Runs

| run | shows | bounds | states |
|---|---|---|---|
| requests | no slot leaks, no wait is orphaned, answers reach their request, notices follow their request, and RequestLifecycle is implemented | 2 requests, 2 ids, 2 connections | 340 000 |
| request_liveness | deadlines settle, shutdowns wake, abandoned requests are told | 2 requests, 1 connection | 162 000 |
| server_connection | suppression, gating, complete drains; while the client reads, drains end, stop ends and requests are answered | 1 request whose handler may panic, 1 gated notification, queues of 1 | 30 000 |
| session_stream | events in order and once, no unexplained loss, a client with a position catches up | 4 events, replay and stream of 2, wire of 1, 10 GETs, 2 failures | 113 000 |
| http_sessions | failed sessions leave nothing, gone is gone, requests end while their session goes on and removed sessions end, but for a POST that its cancellation overtook | 1 session, 1 request, 1 cancellation, 1 other notification, buffer of 1 | 343 000 |
| tool_groups | active groups sit in active groups, exclusions hold, hooks match the state, changes are announced | groups a, p and p.c; exclusions {a, p} and {a, p.c}; hooks on p and p.c; a program's own tool for p; 2 tasks | 2 340 000 |
| http_posts | no refresh token is used twice, no client goes back, a retry has a new token | 1 request, 1 notification, 1 task of another process; 3 tokens, 1 fault, 1 permit, with and without a store | 3 020 000 |
| jwks | keys are recent, published keys are found, forced refreshes are apart, sets are replaced for a reason | 2 validations, 2 keys, lifetime 3, cooldown 2, time 4 | 3 920 000 |
| client_connection | a handshake is complete or leaves nothing, cancelled means silent, handshakes end with their server, disconnect releases | 2 connections, 2 handshakes, 1 request id, inbox of 1 | 584 000 |
| framing | frames are the lines, none is held back, the encoder never severs its peer | every stream of up to 7 bytes in every cut, limit 3 | 237 000 |
| hanging_post, stuck_cancellation | the findings below | the smallest instance with the case | |

`MaxId` equals the number of requests, so the counter never stops a request;
`MaxConnections` 2 is one reconnection, which is what stale answers, stale
notice queues and stale loops need. `request_liveness` has one connection: a
second one multiplies the graph and adds only the abort of a loop, which
`requests` covers. `server_connection` has one request because each property is
about one task, its messages and the loop, and the theorems carry its safety to
any number; queues of capacity one are full with one item. `session_stream` has
twice as many events as the replay buffer and the stream hold, so both overflow
and a GET can come too late for what it asks; two failures give a GET that was
given up and a stream that broke, and ten GETs are more than the events and
failures of a run can use up, so CatchesUp never fails for want of a GET.
`http_sessions` has one session, because sessions share only the table and its
limit: one initialize, one request, its cancellation and a message that only
passes through meet expiry, deletion, shutdown and each other in every order, and
a buffer of one parks the second.
It takes `serve` (`Embedded` FALSE); every property also holds with `Embedded`
TRUE, on fewer states, for want of a listener that ends.

`tool_groups` has a group, its child, and a third that excludes both, which is
the smallest registry where activating one group turns off another with its
descendants through two overlapping sets. `http_posts` has two tasks in one
client and one in another: both races of the code, for the client's lock and
for the store's guard. Three tokens are two refreshes, so a token that was
discarded can come back and be used again; one fault is one lost answer, failed
save or dropped call. In `jwks` the lifetime is longer than the cooldown, as by
default, and the clock passes both. `client_connection` has the second
connection and handshake in which what the first left behind could do harm, and
one id, which the server uses on both. In `framing` seven bytes hold two lines
at the limit of three with their newlines, or one that exceeds it with another
behind it.

Deadlock is checked where nothing may stop: `tool_groups` and `jwks`, whose
tasks can always call again or leave, and `client_connection`, where the owner
can. Elsewhere a model ends by itself: a client whose requests are done and
whose connections are used up, a stopped server loop, a stream whose GETs are
used up, a server that has ended, messages that are all posted, a stream that
is read to its end.

**Fairness.** RequestHandler: every ready step of a task runs (weak fairness);
tokio's mutex is fair, so a request and the loop eventually get the sink
(strong fairness for Buffer and ForwardNotice); timers fire. Nothing obliges the
other side to answer, a caller to drop, a transport to fail or an owner to act.
ServerConnection: tasks run and `select!` picks among ready branches at random
(strong fairness for each). Nothing obliges the client to read or a handler to
return: what the loop awaits inside a branch - a write (`server.rs:568`, `606`,
`652`, `664`), `initialize`, `on_connect`, a notification handler, `on_shutdown` -
has no timeout and polls no token. StopEnds, DrainEnds and Answered have the
premise that these waits end (`AwaitsEnd`), and the last two that handlers of
requests return (`HandlersReturn`); StopEnds does without.
SessionStream: the GET the client waits for arrives, the HTTP server writes,
the client reads, ends and asks again. A GET that was given up may never arrive;
no event need come. HttpSessions: POSTs, loops, the cleanup once it collected,
the watchdog and the listener run, and handlers return; the transport of a
session takes every write at once. No client need send, hang up or close a stream, no session need expire, and nobody need
shut the server down. HttpPosts: the dispatch task and the tasks of messages
run; the server need never answer. ClientConnection: the handshake, the
teardown, the loop and the tasks run, and callbacks and handlers end; nothing
makes the owner call, a deadline pass, or the server talk or close. ToolGroups,
OAuthTokens, JwksCache and Framing state safety only, and no fairness.

## Findings

1. *hanging_post*: a POST that waits for its response keeps the map that holds
   its own sender alive (`http/server.rs:639`, through its clone of the
   session). When the session ends first, by expiry, DELETE or shutdown, the
   POST waits until its client hangs up, and the graceful end of the listener
   waits for the POST. The comment at `http/server.rs:641` says that a session
   that shuts down ends it; `handle_initialize_post` waits the same way when its
   loop ends without an answer.
2. *stuck_cancellation*: the dispatch task itself waits for the permit of a
   request (`http/client.rs:689`), so whatever is queued behind that request
   waits too. When slow calls hold all permits, the cancellation that would end
   one of them is not posted before a call ends; the client's READ_TIMEOUT, which
   fails one that is silent for 120 seconds, is not modelled. The comment at `http/client.rs:697` says that
   notifications and responses bypass the limit "so cancellations are never stuck
   behind slow calls".

## Disagreements

Properties that a doc, a comment or a test of the repository states and the code
does not have. They are kept in the modules, outside the runs; each fails within
seconds under a configuration with the given specification and constants.

| property | check it with | the code | the text |
|---|---|---|---|
| RequestHandler!EndOfTransportCompletes | MCRequestHandler, FairSpec, 1 request, 2 ids, 2 connections | `connect` over a live connection, and dropping the client, abort the loop without `shutdown` (`client.rs:611`): a request without a deadline waits for ever | `client.rs:209`: "Transport shutdown and cancellation still complete a pending request" |
| ServerConnection!NotificationBeforeResponse | MCServerConnection, Spec, 1 request, 1 notification, `Gated` and `MayPanic` empty, buffers 1 | notifications and responses are separate branches of the loop (`server.rs:627`, `649`), and a response may overtake | `server.rs:478`: "so a notification emitted before a response is sent before it" |
| ServerConnection!ResponsesSurviveEOF | MCServerConnection, FairSpec, 1 request, no notification, no panic, buffers 1 | the count drops before the response is queued (`server.rs:947`); the exit test in between ends the loop. The opposite order would be worse: the loop would never wake again | `tests/inflight_disconnect.rs:150` |
| ServerConnection!DrainEnds, without "or a handler panicked" | server_connection | a handler that panics stays counted (`server.rs:945`), and the loop of a lost client never ends | `server.rs:927`: "post-disconnect draining always terminates" |
| SessionStream!MissedEventsAreReplayed | MCSessionStream, StreamSpec, capacities 3, wire 1, 3 events, 3 streams, 1 failure | a stream that breaks before its first event leaves no Last-Event-ID, and without one nothing is replayed (`http/client.rs:447`, `http/server.rs:257`) | `http/client.rs:511`, `http/server.rs:246` |
| HttpSessions!CancellationReleases | http_sessions | `handle_post` of a cancellation may find no sender (`http/server.rs:650`) before the POST of the request inserts it (`629`), and forward (`652`) after that POST did (`634`): the loop suppresses the response and the POST waits until its client hangs up, in a session that goes on. `http/client.rs:692`-`699` posts the two from separate tasks. AnsweredOrEnded and RemovedSessionEnds have this POST as their exception (`Suppressed`) | `http/server.rs:647`: "A cancellation releases the POST waiting on the cancelled request" |
| ToolGroups!MutualExclusion | MCToolGroups, Spec, `Candidates <- NestedSet`, no hooks, no override | a set that names a group and its descendant is accepted, activating the descendant turns its ancestor off and leaves the descendant active out of sight, and activating the ancestor again brings both into force | `toolset.rs:220`: "Register a mutual exclusion set" |
| ClientConnection!FarewellIsCalled | MCClientConnection, Spec, 1 connection, 1 handshake, inbox 1 | `disconnect` aborts the loop, and with it `on_shutdown` (`client.rs:237`) | `connection.rs:33`: "Called when the connection is being closed" |
| Framing!LimitHolds | framing | `decode` measures only a line that has not ended (`codec.rs:58`): an oversized one that arrives with its newline passes | `codec.rs:37`: "A frame exceeding MAX_FRAME_LENGTH is reported as the fatal [...] in either direction" |

## Observations

Behaviour the models have and no run calls wrong, because nothing in the
repository promises otherwise, or because the promise is a matter of reading.

* A request pending at `disconnect` ends with `Error::Protocol` instead of
  TransportDisconnected when the client reconnects before the request's task
  wakes: `request_handler.rs:190` reads a flag that `connect` resets.
  `client.rs:232` names TransportDisconnected.
* `MAX_SESSIONS` is tested (`http/server.rs:672`) before the session is inserted
  (`705`): initializes that test together may exceed it by their number.
* The cleanup collects expired sessions (`http/server.rs:478`) and removes them
  afterwards (`498`); one that a request or a stream revived in between is
  removed all the same. The client sees a 404 and initializes again.
* A session that enters the table after the watchdog cleared it
  (`http/server.rs:515`) is stopped by nobody. Under `serve` it ends with the
  listener; a host that took `into_router` has to stop listening itself.
* A full stream is dropped with up to 1024 events queued. They reach a client
  that keeps reading; if its connection breaks at that moment, only the last 256
  are still in the replay buffer. NoSilentLoss counts the others as forgotten.
* Tool groups: activating a group that is active already, and that an exclusion
  sets against its own ancestor, turns the ancestor off and the group with it.
  `register_exclusion` does not look at groups that are active already, and one
  that comes between a plan and its change is not in the plan; ExclusionsHold
  speaks of the sets registered while they held and no change was in hand.
* A hook that activates or deactivates a group waits for `activation_lock`,
  which its own caller holds.
* A change that fails or is dropped half-way leaves what its first hooks did
  (`suspect` in the model).
* After a failed save the store still offers the spent token; the next
  reconciliation (`auth/oauth_client.rs:588`) takes it for a newer one of another
  holder and installs it. SpentOnce and NeverOlder hold only while nothing is lost.
* `exchange_code` and `set_token` do not tell the store.
* The doc of `retry_unauthorized` says None when "the token already changed"; the
  code then posts again with the changed token, which is what RetryHasNewToken
  wants.
* `get_valid_token` refreshes at every call while the lifetime of the tokens is
  within the leeway.
* A fetch of keys that fails is not dated: while the endpoint fails, every
  unknown key id asks it again, without a cooldown. With a cooldown longer than
  the lifetime the regular refresh forgets the last forced one. The requests have
  no timeout, and the validations behind `refresh_lock` wait with the first.
* A failed `connect` leaves the loop and the transport of the connection before
  in place, without a context.
* A notification handler that panics ends the client's loop without `shutdown`:
  `is_connected` stays true (`client.rs:244`) and a handshake without a deadline
  waits. HandshakeEnds excludes it.
* A dropped `initialize` or `connect_child` tears nothing down.
* `disconnect` returns before the transport is released while a handler of a
  request of the server still runs; DisconnectReleases says "eventually".
* A `connect` that is dropped while it awaits the end of the loop before
  (`client.rs:612`) leaves the transport of the connection before attached, and
  nobody reads it. ClientConnection takes that wait and what follows as one step.
* A client that stops reading while a write to it is under way (`server.rs:652`)
  holds the loop in that branch: `stop()` does not end before the connection
  breaks. StopEnds has `AwaitsEnd` as its premise.
* A POST that its own cancellation overtook (see CancellationReleases) keeps its
  clone of the session: when the session leaves the table without a signal, its
  loop does not end before the client hangs up.
* An oversized response is an error of the sink, and the server ends its own
  connection with it (`server.rs:652`).

## Proofs

`RequestHandlerProofs` proves, for any set of requests, any bound on ids and any
number of connections: TypeOK, NoSlotLeaks, NoOrphanedWait, AnswersItsRequest,
NoticeOnlyForAbandoned, NoticeFollowsRequest, and that RequestHandler implements
RequestLifecycle. Assumptions: the requests are none of the names used for
oneshots and absence (RequestAssumption), and the bounds are positive
(BoundAssumption).

None of the invariants is inductive alone. `IInv` adds: ids are handed out once
(IdsOK), so two requests never share a slot; a slot is in the map exactly while
its oneshot is open (SlotsOK); a request in its send belongs to the current
connection and its notice goes where it was written (ConnOK), which `&mut self`
guarantees; a request that may still notify was given up, is queued at most once
and on its own connection (NoticeOK); no outcome before the end (OutcomeOK);
and what was written about a request (SeenOK). The proof groups the steps by
effect: a request that moves on without touching the map (RequestMoves), an
answer (Answers), the map cleared by a shutdown (MapClears), a change of the
connection only (ConnectionMoves), and five actions that do more. StepCases
says that there is no other step; each part of `IInv` is then a lemma with one
step per case. The refinement reuses the same cases: every one is a step of
RequestLifecycle or a stutter.

NoNoticeIsLost is the safety core of AbandonedIsTold: a request that was given
up on a working connection before its answer has its notice queued or written
when it is done (GivenUpIsTold). Its strengthening, NoticesOwed, says that a
working connection has its transport and notice queue installed and that every
request on it keeps that queue, and a oneshot nobody closed, until it drops
(OwedOf); the shutdowns that would close it all raise the flag first.

`HttpServerProofs` first proves of SessionStream, for any capacities with the
replay buffer no larger than the stream (CapacityAssumption) and any number of
events, GETs and failures: StreamTypeOK, InOrderOnce, NoSilentLoss, and that the
replay buffer is the run of the last events. InOrderOnce is far from inductive:
it depends on where each event of a queue came from. `StreamInv` therefore says
that the wire, the queue of each stream and the replay buffer are runs of
consecutive numbers (ReplayOK, QueuesOK), that each continues the one before it
as long as the stream is installed, and that whatever lies between the last
event read and the first one on its way was forgotten (PendingOK). `RememberIs`
and `ReplayedIs` are the two lemmas about the data: what the buffer holds after
an event, and what a stream starts with. Then each action that moves events -
send, attach, write, read - is a lemma of its own, and every other one leaves
what is pending alone (PendingKept). The assumption on the capacities is used
once, and is needed: with a larger buffer the replay would not fit the new
channel. NothingLeftBehind is the safety core of CatchesUp: a client that read
an event, and all there is on the installed stream, has the last event
(CaughtUp).

It then proves of HttpSessions TypeOK, FailedInitLeavesNothing and GoneForGood
for any sessions, POSTs, limit and buffer (PostAssumption, LimitAssumption). A
session that left the table cannot come back because it enters only once, before
any POST can name it (Created), and a POST has no session before it looked one up
and no result before its end (Settled); a sender is registered only in the session
of its POST (Registered), and a POST that waits loses it only to a cancellation
there (Released), so that a request is accepted without a response
only when its client cancelled it (Accepted). The comment at
`http/server.rs:641` allows the end of the session as a reason too; that it never
is one is the first finding seen from the other side. Steps that touch neither a
POST nor its sender are taken together (Aside), and so are the two that answer
(Answers).

A second invariant, Progress, is what AnsweredOrEnded rests on. The sender of a
POST without an answer is registered, and the loop, while it runs, still has the
request, unless a cancellation overtook it (Senders, NobodyForgotten); a
cancellation that the loop can see, where it will suppress the response, has
released the POST of its target before, or was handled before that POST
(CancelsReleased); POSTs are parked only at a full channel whose loop runs
(ParkedAreFull). NoPostStarves states what follows for a request
(AnswerIsComing): the cancellation that overtook it is the only way for a POST to
wait for nobody. CancelReleasesFirst states the order of the two halves of every
other cancellation.

`ServerConnectionProofs` proves TypeOK, CancelSuppresses, GatedAfterInitialize
and DrainLeavesNothing for any requests, notifications and buffers
(NamesAssumption, BufferAssumption). `IInv`: the count is the cardinality of the
unfinished tasks, which are finitely many (Counted), so that zero means none; a
cancellation is for a running handler or suppressed its response (Tracked); a
response is in one place at most and of no suppressed request (Single); the loop
says that it is capable before it lets a gated notification through (Announces,
GatedBehind); a notice of a given-up question is queued, on its way or written
while the loop goes on (Told). Two more theorems are safety cores: once a task is
done its response was suppressed, or is queued, being written or written while
the loop goes on (ResponsesKept, for Answered); and a loop that drains for a lost
client has something queued, or a request that has still to queue what wakes it
(DrainNeverSleeps, for DrainEnds). The second is the claim at `server.rs:927`; a
panic is the case where the request never does.

`ClientConnectionProofs` proves, for any number of connections, handshakes and
requests and any inbox (ConnAssumption): TypeOK, OkMeansConnected,
FailedHandshakeLeavesNothing and NoResponseAfterCancel. The owner does one thing
at a time, but its calls stop at awaits while the loop, the handlers and the
server go on; `IInv` says for each such place what it may rely on. An attached
transport is that of the current connection and its loop reads it (Connection);
a reply to initialize is kept only for the call that waits (Handshake); by each
stage of a teardown what came before is done (Teardown); on_connect_called tells
whether the handler was greeted on this connection (Greeting); a child that
nobody has in hand belongs to the connect_child under way (Children); a request
that runs can be reached, and one that was reached has its token cancelled
(Tasks). RequestsAreHeard states the first two as results: a request that can be
sent is read by the loop that will complete it (but for the dropped `connect` of
the observations), and no call of initialize gets
the answer to an earlier one; only a panic of a notification handler leaves a
transport that nobody reads. Of the running requests of an earlier connection
nothing is assumed: NoResponseAfterCancel covers them with their reused ids.

`ToolGroupsProofs` proves, for any tree of groups, any exclusions and tasks:
TypeOK, Nested, ExclusionsHold, HooksMatchState, SetUpInside, ChangesAnnounced
and ExplicitToolStays. The names form a tree (NameAssumption) and the rest are
subsets (ConfigAssumption). The difficulty is the plan, which is made before the
hooks and applied after them. `IInv` says what it still knows of the registry by
then: what it turns off is closed under descendants and holds all that the
exclusions forbid (PlanFits), the hooks that are left are the ones still needed
and in an order that keeps groups inside their ancestors (PlanHooks), and those
that ran are the only difference between what is set up and what is active
(HookEffects).

`HttpPostsProofs` first proves of OAuthTokens GuardsHeld, SpentOnce,
RefreshIsNeeded and NeverOlder for any clients, tasks, tokens and faults
(CallerAssumption, TokenAssumption). `Chain` is the core: while nothing was
lost, a task that asks the provider started from the newest token, and the
newest token is in the store - or in the cache of the lone client - whenever no
task is about to save another. It needs the guards (GuardsHeld) and the order of
numbers (Bounds), and is part of `IInv` only under ~lost.

It then shows by simulation that HttpPosts uses the OAuth clients as TokenSpec
allows (Implementation): its initial states are initial, and every step of it is
a step or a stutter there. So `IInv` holds of HttpPosts as well, and
RetryHasNewToken follows from an invariant that compares the token of the first
POST with the token in the cache, in the store and in the hands of the task that
fetches the second (Newer, AtLeast).

`JwksCacheProofs` proves TypeOK, KeysAreRecent, PublishedKeysAreFound,
ForcedApart and ReplacesWithReason for any tasks, keys, lifetime and cooldown
(TimeAssumption, KidAssumption). `IInv`: only the holder of the lock fetches
(Discipline), times are in order (Ordered), the reason for a fetch still holds
when it stores (Reasons), the cache remembers the last forced refresh
(Remembered), and what a validation chose or missed was of its time (Recent,
Missing).

`FramingProofs` proves TypeOK, FramesAreLines, NothingHeld and
EncodedNeverSevers for any limit and any stream (FrameAssumption). `IInv`: the
bytes before the scan index hold no newline (Scanned), decoding begins where a
line does (AtLineStart), frames are lines (Faithful) and every line has its frame
(Complete), and what a codec wrote has no run of bytes as long as the limit
(Wire).

Every safety property and action property of the passing runs is proved. Checked
by TLC only: all liveness, because fairness and ENABLED are beyond the prover.
What the safety cores above (NoNoticeIsLost, ResponsesKept, DrainNeverSleeps,
NothingLeftBehind, NoPostStarves, RequestsAreHeard) add to it holds for every
value of the constants: nothing that someone waits for can be lost or forgotten,
so what is left to the small instances is that the parties do take their steps.
They are no proofs of the liveness properties.

## Not modelled

* Schema types, the API listing and its renderer, macros, encoding and decoding
  of messages, wording of errors: data and text without state. They are most of
  the repository's lines, and so are the tests inside the source files; the
  models cover the code where the order of events decides.
* Custom requests: their deadline and cancellation are those of RequestHandler;
  the rest checks the size and shape of a payload.
* Transports: stdio, TCP and stream adapters wrap the operating system. Framing
  has what `FramedTransport` makes of a frame; the other modules see an ordered
  wire that may stop. The accept loop of the TCP server only starts connections.
* HTTP validation: checks of headers and origins without state.
* OAuth discovery and registration: sequential HTTP exchanges without shared
  state. Of the OAuth client, the authorization URL and PKCE.
* Bearer tokens after the choice of their key: signature, algorithm and claims
  depend on the token and the key alone.
* Tool set: the listing with its cursor, the dispatch of a call, and the change
  of the set of ordinary tools.
* Client: `connect_process_raw`, the queue of notifications of the application
  (a full queue drops them), and the typed wrappers of each request.
* Server: the negotiation of a protocol version and the dispatch of a request to
  a method of the handler; both read the request alone.
* Duplicate request ids of a client: the client of this library never reuses
  one.
* A full pipe: the liveness of ServerConnection assumes that writes end. Two peers that both write into full pipes while they
  hold their sinks are left to the last step of the plan.
* HTTP: the negotiated version and the subject check (they turn a POST away and
  change nothing), request ids a client uses twice, the header of the session in
  the HTTP client and the DELETE it sends at its end. GETs of any client but the
  library's, which opens one stream at a time.
