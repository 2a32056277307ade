----------------------- MODULE ClientConnectionProofs -----------------------
(***************************************************************************)
(* What a client keeps over any number of connections, handshakes and      *)
(* requests.  The owner does one thing at a time, so the inductive         *)
(* invariant says for each place where it can be what the connection, the  *)
(* child process and the pending initialize look like there, although the  *)
(* loop, the tasks and the server go on meanwhile.                         *)
(***************************************************************************)
EXTENDS ClientConnection, TLAPS

\* A transport that is still attached is the one of the current connection, and
\* nothing has taken its loop to an end.
Connection ==
  /\ loop = "none" <=> conn = 0
  /\ inbox # <<>> => conn # 0
  /\ attached # 0 => attached = conn /\ loop \in {"running", "panicked"}
  /\ context # 0 => context = conn

\* The call of initialize: one at a time, answered only while it waits.
Handshake ==
  /\ owner = "asking" => inits < MaxInits
  /\ owner \in {"waiting", "announcing"} => inits # 0
  /\ owner = "waiting" => pending = inits
  /\ owner # "waiting" => pending = 0 /\ reply = "none"
  /\ owner = "callback" => context # 0 /\ ~onConnectCalled /\ Initialized(inits) \in wire

\* What a teardown has done by the time it gets further.
Teardown ==
  /\ owner \in {"stopping", "killing"} => attached = 0
  /\ owner = "killing" => context = 0 /\ ~LoopLives

\* on_connect_called tells whether the handler was greeted on this connection.
Greeting ==
  /\ onConnectCalled => context # 0 /\ ~spawning
  /\ context # 0 => greeted = IF onConnectCalled THEN 1 ELSE 0

\* A child that nobody has in hand belongs to the connect_child under way.
Children ==
  /\ spawning => owner # "free"
  /\ spawning /\ owner \in {"closing", "stopping", "killing"} => teardown = "handshake"
  /\ child = "alive" => spawning

\* A running request can be reached, and one that was has its token cancelled.
Tasks ==
  \A c \in Conn, i \in Id :
    /\ task[c][i] = "running" => i \in inFlight[c]
    /\ <<c, i>> \in reached => task[c][i] = "running" /\ i \in cancelled[c]

-----------------------------------------------------------------------------
(* The invariant.                                                          *)

\* The parts of TypeOK: states and flags, numbers, messages and requests.
FlagsTyped ==
  /\ owner \in {"free", "asking", "waiting", "announcing", "callback",
                "closing", "stopping", "killing"}
  /\ teardown \in {"wish", "handshake"} /\ spawning \in BOOLEAN
  /\ result \in {"none", "ok", "failed", "dropped"}
  /\ onConnectCalled \in BOOLEAN
  /\ reply \in {"none", "accepts", "refuses"}
  /\ loop \in {"none", "running", "closing", "callback", "done", "aborted", "panicked"}
  /\ peer \in {"open", "closed"}
  /\ child \in {"none", "alive", "handed", "left", "killed"}
  /\ farewell \in BOOLEAN

NumbersTyped ==
  /\ attached \in 0..MaxConns /\ context \in 0..MaxConns /\ conn \in 0..MaxConns
  /\ inits \in 0..MaxInits /\ pending \in 0..MaxInits
  /\ greeted \in Nat

DataTyped ==
  /\ inbox \in Seq(Inbound) /\ wire \subseteq Outbound
  /\ task \in [Conn -> [Id -> {"none", "running", "answering", "ended"}]]
  /\ inFlight \in [Conn -> SUBSET Id] /\ cancelled \in [Conn -> SUBSET Id]
  /\ reached \subseteq Conn \X Id

IInv ==
  /\ FlagsTyped /\ NumbersTyped /\ DataTyped
  /\ Connection /\ Handshake /\ Teardown /\ Greeting /\ Children /\ Tasks
  /\ OkMeansConnected /\ FailedHandshakeLeavesNothing

LEMMA TypeParts == TypeOK <=> FlagsTyped /\ NumbersTyped /\ DataTyped
BY DEF TypeOK, FlagsTyped, NumbersTyped, DataTyped

LEMMA InitInv == Init => IInv
<1> SUFFICES ASSUME Init PROVE IInv
  OBVIOUS
<1> USE ConnAssumption DEF Init
<1>1. FlagsTyped
  BY DEF FlagsTyped
<1>2. NumbersTyped
  BY DEF NumbersTyped
<1>3. DataTyped
  <2>1. <<>> \in Seq(Inbound)
    OBVIOUS
  <2> QED BY <2>1 DEF DataTyped
<1>4. Connection /\ Handshake /\ Teardown /\ Greeting /\ Children
  BY DEF Connection, Handshake, Teardown, Greeting, Children
<1>5. Tasks
  BY DEF Tasks
<1>6. OkMeansConnected /\ FailedHandshakeLeavesNothing
  BY DEF OkMeansConnected, FailedHandshakeLeavesNothing
<1> QED BY <1>1, <1>2, <1>3, <1>4, <1>5, <1>6 DEF IInv

-----------------------------------------------------------------------------
(* Steps by who takes them.  What one leaves alone, no part of the         *)
(* invariant about it needs to look at.                                    *)

\* The owner between and during its calls.
OwnerStep ==
  \/ \E process \in BOOLEAN : Connect(process)
  \/ ConnectFails \/ CallInit \/ Expire \/ DropInit \/ Disconnect
  \/ HandshakeStep \/ TeardownStep

\* The tasks of requests.
TasksStep == \E c \in Conn, i \in Id : TaskStep(c, i) \/ Panic(c, i)

LEMMA StepKinds == Next <=> OwnerStep \/ LoopStep \/ TasksStep \/ ServerStep
BY DEF Next, OwnerStep, TasksStep

\* Who reads and writes messages in which order is the business of the loop and
\* the server: neither touches what belongs to the owner.
LEMMA OthersLeaveOwner ==
  ASSUME LoopStep \/ TasksStep \/ ServerStep
  PROVE  /\ UNCHANGED <<ownerVars, context, onConnectCalled, inits, pending, wire, greeted, conn>>
         /\ attached' \in {attached, 0}
         /\ LoopLives' => LoopLives
         /\ child' = child
<1>1. CASE LoopStep
  BY <1>1 DEF LoopStep, ReadReply, ReadRequest, ReadCancel, Break, CallShutdown, OnShutdown,
              Detach, LoopLives, ownerVars, clientVars, initVars, taskVars, historyVars
<1>2. CASE TasksStep
  BY <1>2 DEF TasksStep, TaskStep, Finish, Respond, Panic, LoopLives, ownerVars, clientVars,
     initVars, loopVars, historyVars
<1>3. CASE ServerStep
  BY <1>3 DEF ServerStep, ServerReplies, ServerAsks, ServerCancels, ServerCloses, Talks,
              LoopLives, ownerVars, clientVars, initVars, loopVars, historyVars
<1> QED BY <1>1, <1>2, <1>3

LEMMA OwnerLeavesTasks ==
  ASSUME OwnerStep PROVE UNCHANGED taskVars
BY DEF OwnerStep, Connect, ConnectFails, CallInit, Expire, DropInit, Disconnect, HandshakeStep,
       Ask, TakeReply, Wake, NoReply, Announce, OnConnect, TeardownStep, Close, Stop, Kill

-----------------------------------------------------------------------------
(* Types.                                                                  *)

\* What a message of the server is about.
LEMMA InboundIs ==
  ASSUME NEW m \in Inbound
  PROVE  /\ m.kind \in {"accepts", "refuses"} => m.of \in Call
         /\ m.kind \in {"request", "cancel"} => m.of \in Id
BY DEF Inbound

LEMMA TailType ==
  ASSUME NEW S, NEW q \in Seq(S), q # <<>>
  PROVE  Tail(q) \in Seq(S) /\ Head(q) \in S
OBVIOUS

LEMMA FlagsStep == ASSUME FlagsTyped, Next PROVE FlagsTyped'
<1> USE DEF FlagsTyped, Fails, Returns, ownerVars, clientVars, initVars, loopVars, historyVars
<1>1. CASE OwnerStep
  <2>1. ASSUME NEW process \in BOOLEAN, Connect(process) PROVE FlagsTyped'
    BY <2>1 DEF Connect
  <2>2. CASE ConnectFails \/ CallInit \/ Expire \/ DropInit \/ Disconnect
    BY <2>2 DEF ConnectFails, CallInit, Expire, NoReply, DropInit, Disconnect
  <2>3. CASE HandshakeStep
    BY <2>3 DEF HandshakeStep, Ask, TakeReply, Wake, NoReply, Announce, OnConnect
  <2>4. CASE TeardownStep
    BY <2>4 DEF TeardownStep, Close, Stop, Kill
  <2> QED BY <1>1, <2>1, <2>2, <2>3, <2>4 DEF OwnerStep
<1>2. CASE LoopStep
  BY <1>2 DEF LoopStep, ReadReply, ReadRequest, ReadCancel, Break, CallShutdown, OnShutdown
<1>3. CASE TasksStep
  BY <1>3 DEF TasksStep, TaskStep, Finish, Respond, Panic
<1>4. CASE ServerStep
  BY <1>4 DEF ServerStep, ServerReplies, ServerAsks, ServerCancels, ServerCloses, Talks
<1> QED BY <1>1, <1>2, <1>3, <1>4, StepKinds

LEMMA NumbersStep == ASSUME NumbersTyped, Handshake, Next PROVE NumbersTyped'
<1> USE ConnAssumption DEF NumbersTyped
<1>1. CASE OwnerStep
  <2> USE DEF clientVars, initVars, loopVars, historyVars
  <2>1. ASSUME NEW process \in BOOLEAN, Connect(process) PROVE NumbersTyped'
    BY <2>1 DEF Connect
  <2>2. CASE ConnectFails \/ CallInit \/ Expire \/ DropInit \/ Disconnect
    BY <2>2 DEF ConnectFails, CallInit, Expire, NoReply, DropInit, Disconnect
  <2>3. CASE Ask
    BY <2>3 DEF Ask, Handshake
  <2>4. CASE TakeReply \/ Wake \/ Announce \/ OnConnect
    BY <2>4 DEF TakeReply, Wake, NoReply, Announce, OnConnect
  <2>5. CASE TeardownStep
    BY <2>5 DEF TeardownStep, Close, Stop, Kill, Detach
  <2> QED BY <1>1, <2>1, <2>2, <2>3, <2>4, <2>5 DEF OwnerStep, HandshakeStep
<1>2. CASE LoopStep \/ TasksStep \/ ServerStep
  BY <1>2, OthersLeaveOwner
<1> QED BY <1>1, <1>2, StepKinds

LEMMA WriteTyped ==
  ASSUME NEW n \in Call, wire \subseteq Outbound
  PROVE  /\ wire \cup {Initialize(n)} \subseteq Outbound
         /\ wire \cup {Initialized(n)} \subseteq Outbound
BY DEF Initialize, Initialized, Outbound

LEMMA DataStep ==
  ASSUME FlagsTyped, NumbersTyped, DataTyped, Connection, Handshake, Next
  PROVE  DataTyped'
<1> USE ConnAssumption
<1>1. CASE OwnerStep
  <2>1. UNCHANGED taskVars
    BY <1>1, OwnerLeavesTasks
  <2>2. inbox' \in Seq(Inbound)
    <3>1. <<>> \in Seq(Inbound)
      OBVIOUS
    <3>2. inbox' \in {inbox, <<>>}
      BY <1>1 DEF OwnerStep, Connect, ConnectFails, CallInit, Expire, DropInit, Disconnect,
         HandshakeStep, Ask, TakeReply, Wake, NoReply, Announce, OnConnect, TeardownStep, Close,
         Stop, Kill, loopVars
    <3> QED BY <3>1, <3>2 DEF DataTyped
  <2>3. wire' \subseteq Outbound
    <3>1. CASE Ask
      <4>1. inits + 1 \in Call
        BY <3>1 DEF Ask, Handshake, NumbersTyped, Call
      <4> QED BY <3>1, <4>1, WriteTyped DEF Ask, Write, DataTyped
    <3>2. CASE Announce
      <4>1. inits \in Call
        BY <3>2 DEF Announce, Handshake, NumbersTyped, Call
      <4> QED BY <3>2, <4>1, WriteTyped DEF Announce, Write, DataTyped
    <3>3. CASE ~Ask /\ ~Announce
      BY <1>1, <3>3 DEF OwnerStep, Connect, ConnectFails, CallInit, Expire, DropInit, Disconnect,
         HandshakeStep, TakeReply, Wake, NoReply, OnConnect, TeardownStep, Close, Stop, Kill,
         DataTyped
    <3> QED BY <3>1, <3>2, <3>3
  <2> QED BY <2>1, <2>2, <2>3 DEF DataTyped, taskVars
<1>2. CASE LoopStep
  <2>1. CASE inbox' = inbox /\ UNCHANGED taskVars
    BY <1>2, <2>1, OthersLeaveOwner DEF DataTyped, taskVars
  <2>2. CASE ReadReply \/ ReadRequest \/ ReadCancel
    <3>1. Tail(inbox) \in Seq(Inbound) /\ Head(inbox) \in Inbound
      BY <2>2, TailType DEF ReadReply, ReadRequest, ReadCancel, DataTyped
    <3>2. conn \in Conn
      BY <2>2 DEF ReadReply, ReadRequest, ReadCancel, Connection, NumbersTyped, Conn
    <3>3. CASE ReadReply
      BY <3>1, <3>3 DEF ReadReply, DataTyped, taskVars
    <3>4. CASE ReadRequest
      <4>1. Head(inbox).of \in Id
        BY <3>1, <3>4, InboundIs DEF ReadRequest
      <4> QED BY <3>1, <3>2, <3>4, <4>1 DEF ReadRequest, DataTyped
    <3>5. CASE ReadCancel
      <4>1. Head(inbox).of \in Id
        BY <3>1, <3>5, InboundIs DEF ReadCancel
      <4> QED BY <3>1, <3>2, <3>5, <4>1 DEF ReadCancel, DataTyped
    <3> QED BY <2>2, <3>3, <3>4, <3>5
  <2> QED BY <1>2, <2>1, <2>2 DEF LoopStep, Break, CallShutdown, OnShutdown
<1>3. CASE TasksStep
  <2>1. PICK c \in Conn, i \in Id : Finish(c, i) \/ Respond(c, i) \/ Panic(c, i)
    BY <1>3 DEF TasksStep, TaskStep
  <2>2. /\ UNCHANGED <<inbox, wire>> /\ reached' \subseteq reached
        /\ \E to \in {"answering", "ended"} : task' = [task EXCEPT ![c][i] = to]
        /\ \/ UNCHANGED <<inFlight, cancelled>>
           \/ /\ inFlight' = [inFlight EXCEPT ![c] = inFlight[c] \ {i}]
              /\ cancelled' = [cancelled EXCEPT ![c] = cancelled[c] \ {i}]
    BY <2>1 DEF Finish, Respond, Panic, loopVars
  <2>3. task' \in [Conn -> [Id -> {"none", "running", "answering", "ended"}]]
    BY <2>2 DEF DataTyped
  <2>4. inFlight' \in [Conn -> SUBSET Id] /\ cancelled' \in [Conn -> SUBSET Id]
    BY <2>2 DEF DataTyped
  <2> QED BY <2>2, <2>3, <2>4 DEF DataTyped
<1>4. CASE ServerStep
  <2>1. /\ UNCHANGED <<wire, taskVars>>
        /\ inbox' = inbox \/ \E m \in Inbound : inbox' = Append(inbox, m)
    <3>1. ASSUME NEW n \in Call, NEW good \in BOOLEAN PROVE Reply(n, good) \in Inbound
      BY DEF Reply, Inbound
    <3>2. ASSUME NEW i \in Id PROVE Request(i) \in Inbound /\ Cancel(i) \in Inbound
      BY DEF Request, Cancel, Inbound
    <3> QED BY <1>4, <3>1, <3>2 DEF ServerStep, ServerReplies, ServerAsks, ServerCancels,
               ServerCloses, Talks, loopVars
  <2> QED BY <2>1 DEF DataTyped, taskVars
<1> QED BY <1>1, <1>2, <1>3, <1>4, StepKinds

-----------------------------------------------------------------------------
(* The parts of the invariant.                                             *)

LEMMA ConnectionStep ==
  ASSUME FlagsTyped, NumbersTyped, Connection, Teardown, Next
  PROVE  Connection'
<1> USE DEF Connection, NumbersTyped, FlagsTyped
<1>1. CASE OwnerStep
  <2> USE DEF clientVars, initVars, loopVars, historyVars
  <2>1. ASSUME NEW process \in BOOLEAN, Connect(process) PROVE Connection'
    BY <2>1 DEF Connect
  <2>2. CASE ConnectFails \/ CallInit \/ Expire \/ DropInit \/ Disconnect
    BY <2>2 DEF ConnectFails, CallInit, Expire, NoReply, DropInit, Disconnect
  <2>3. CASE HandshakeStep
    BY <2>3 DEF HandshakeStep, Ask, TakeReply, Wake, NoReply, Announce, OnConnect
  <2>4. CASE Close \/ Kill
    BY <2>4 DEF Close, Kill, Detach
  <2>5. CASE Stop
    BY <2>5 DEF Stop, Teardown, LoopLives
  <2> QED BY <1>1, <2>1, <2>2, <2>3, <2>4, <2>5 DEF OwnerStep, TeardownStep
<1>2. CASE LoopStep
  BY <1>2 DEF LoopStep, ReadReply, ReadRequest, ReadCancel, Break, CallShutdown, OnShutdown,
              Detach, clientVars
<1>3. CASE TasksStep
  BY <1>3 DEF TasksStep, TaskStep, Finish, Respond, Panic, loopVars, clientVars
<1>4. CASE ServerStep
  BY <1>4 DEF ServerStep, ServerReplies, ServerAsks, ServerCancels, ServerCloses, Talks, loopVars,
     clientVars
<1> QED BY <1>1, <1>2, <1>3, <1>4, StepKinds

LEMMA HandshakeStays == ASSUME NumbersTyped, DataTyped, Handshake, Next PROVE Handshake'
<1> USE DEF Handshake
<1>1. CASE OwnerStep
  <2> USE ConnAssumption DEF NumbersTyped, Fails, Returns, ownerVars, clientVars, initVars,
                             historyVars
  <2>1. ASSUME NEW process \in BOOLEAN, Connect(process) PROVE Handshake'
    BY <2>1 DEF Connect
  <2>2. CASE ConnectFails \/ CallInit \/ Expire \/ DropInit \/ Disconnect
    BY <2>2 DEF ConnectFails, CallInit, Expire, NoReply, DropInit, Disconnect
  <2>3. CASE HandshakeStep
    BY <2>3 DEF HandshakeStep, Ask, TakeReply, Wake, NoReply, Announce, OnConnect, Write
  <2>4. CASE TeardownStep
    BY <2>4 DEF TeardownStep, Close, Stop, Kill
  <2> QED BY <1>1, <2>1, <2>2, <2>3, <2>4 DEF OwnerStep
<1>2. CASE ReadReply
  <2>1. Head(inbox) \in Inbound
    BY <1>2, TailType DEF ReadReply, DataTyped
  <2>2. Head(inbox).of \in 1..MaxInits
    BY <1>2, <2>1, InboundIs DEF ReadReply, Call
  <2>3. Head(inbox).of # 0
    BY <2>2
  <2> QED BY <1>2, <2>3 DEF ReadReply, ownerVars, clientVars
<1>3. CASE (LoopStep \/ TasksStep \/ ServerStep) /\ ~ReadReply
  <2>1. reply' = reply
    BY <1>3 DEF LoopStep, ReadRequest, ReadCancel, Break, CallShutdown, OnShutdown, initVars,
       TasksStep, TaskStep, Finish, Respond, Panic, ServerStep, ServerReplies, ServerAsks,
       ServerCancels, ServerCloses, Talks
  <2> QED BY <1>3, <2>1, OthersLeaveOwner DEF ownerVars
<1> QED BY <1>1, <1>2, <1>3, StepKinds

LEMMA TeardownStays == ASSUME FlagsTyped, Teardown, Next PROVE Teardown'
<1> USE DEF Teardown
<1>1. CASE OwnerStep
  <2> USE DEF LoopLives, Fails, Returns, ownerVars, clientVars, loopVars
  <2>1. ASSUME NEW process \in BOOLEAN, Connect(process) PROVE Teardown'
    BY <2>1 DEF Connect
  <2>2. CASE ConnectFails \/ CallInit \/ Expire \/ DropInit \/ Disconnect
    BY <2>2 DEF ConnectFails, CallInit, Expire, NoReply, DropInit, Disconnect
  <2>3. CASE HandshakeStep
    BY <2>3 DEF HandshakeStep, Ask, TakeReply, Wake, NoReply, Announce, OnConnect
  <2>4. CASE TeardownStep
    BY <2>4 DEF TeardownStep, Close, Stop, Kill, Detach
  <2> QED BY <1>1, <2>1, <2>2, <2>3, <2>4 DEF OwnerStep
<1>2. CASE LoopStep \/ TasksStep \/ ServerStep
  BY <1>2, OthersLeaveOwner DEF ownerVars
<1> QED BY <1>1, <1>2, StepKinds

\* Everything else about the owner: who was greeted, whose child it is, and the
\* two promises.
LEMMA OwnerStays ==
  ASSUME FlagsTyped, NumbersTyped, Handshake, Teardown, Greeting, Children,
         OkMeansConnected, FailedHandshakeLeavesNothing, OwnerStep
  PROVE  Greeting' /\ Children' /\ OkMeansConnected' /\ FailedHandshakeLeavesNothing'
<1> USE ConnAssumption DEF NumbersTyped, FlagsTyped, Fails, Returns, ownerVars, clientVars,
                           initVars, loopVars, historyVars, Conn
<1>1. ASSUME NEW process \in BOOLEAN, Connect(process)
      PROVE  Greeting' /\ Children' /\ OkMeansConnected' /\ FailedHandshakeLeavesNothing'
  BY <1>1 DEF Connect, Greeting, Children, OkMeansConnected, FailedHandshakeLeavesNothing
<1>2. CASE ConnectFails \/ CallInit \/ Expire \/ DropInit \/ Disconnect
  BY <1>2 DEF ConnectFails, CallInit, Expire, NoReply, DropInit, Disconnect, Greeting, Children,
     OkMeansConnected, FailedHandshakeLeavesNothing, LoopLives
<1>3. CASE Ask \/ TakeReply \/ Wake
  BY <1>3 DEF Ask, TakeReply, Wake, NoReply, Greeting, Children,
     OkMeansConnected, FailedHandshakeLeavesNothing
<1>4. CASE Announce \/ OnConnect
  BY <1>4 DEF Announce, Write, OnConnect, Handshake, Greeting, Children,
     OkMeansConnected, FailedHandshakeLeavesNothing
<1>5. CASE TeardownStep
  BY <1>5 DEF TeardownStep, Close, Stop, Kill, Detach, Teardown, Greeting, Children,
     OkMeansConnected, FailedHandshakeLeavesNothing, LoopLives
<1> QED BY <1>1, <1>2, <1>3, <1>4, <1>5 DEF OwnerStep, HandshakeStep

LEMMA OthersStay ==
  ASSUME NumbersTyped, Greeting, Children, OkMeansConnected, FailedHandshakeLeavesNothing,
         LoopStep \/ TasksStep \/ ServerStep
  PROVE  Greeting' /\ Children' /\ OkMeansConnected' /\ FailedHandshakeLeavesNothing'
BY OthersLeaveOwner DEF Greeting, Children, OkMeansConnected, FailedHandshakeLeavesNothing,
                        ownerVars

LEMMA TasksStay ==
  ASSUME NumbersTyped, DataTyped, Connection, Tasks, Next
  PROVE  Tasks'
<1> USE DEF Tasks, DataTyped
<1>1. CASE OwnerStep \/ ServerStep
  <2>1. UNCHANGED taskVars
    BY <1>1, OwnerLeavesTasks DEF ServerStep, ServerReplies, ServerAsks, ServerCancels,
                                  ServerCloses, Talks
  <2> QED BY <2>1 DEF taskVars
<1>2. CASE ReadRequest
  <2>1. Head(inbox) \in Inbound /\ conn \in Conn
    BY <1>2, TailType DEF ReadRequest, Connection, NumbersTyped, Conn
  <2>2. Head(inbox).of \in Id
    BY <1>2, <2>1, InboundIs DEF ReadRequest
  <2> QED BY <1>2, <2>1, <2>2 DEF ReadRequest
<1>3. CASE ReadCancel
  <2>1. Head(inbox) \in Inbound /\ conn \in Conn
    BY <1>3, TailType DEF ReadCancel, Connection, NumbersTyped, Conn
  <2>2. Head(inbox).of \in Id
    BY <1>3, <2>1, InboundIs DEF ReadCancel
  <2>3. ASSUME NEW c \in Conn, NEW i \in Id, task[c][i] = "running" PROVE i \in inFlight[c]
    BY <2>3
  <2>4. ASSUME NEW c \in Conn, NEW i \in Id, <<c, i>> \in reached'
        PROVE  task[c][i] = "running" /\ i \in cancelled'[c]
    <3>1. CASE <<c, i>> \in reached
      BY <1>3, <2>1, <3>1 DEF ReadCancel
    <3>2. CASE <<c, i>> \notin reached
      <4>1. c = conn /\ i = Head(inbox).of /\ task[c][i] = "running"
        BY <1>3, <2>4, <3>2 DEF ReadCancel, Running
      <4> QED BY <1>3, <2>1, <2>3, <4>1 DEF ReadCancel
    <3> QED BY <3>1, <3>2
  <2> QED BY <1>3, <2>3, <2>4 DEF ReadCancel
<1>4. CASE LoopStep /\ ~ReadRequest /\ ~ReadCancel
  BY <1>4 DEF LoopStep, ReadReply, Break, CallShutdown, OnShutdown, taskVars
<1>5. CASE TasksStep
  <2>1. PICK c \in Conn, i \in Id : Finish(c, i) \/ Respond(c, i) \/ Panic(c, i)
    BY <1>5 DEF TasksStep, TaskStep
  <2>2. \A d \in Conn, j \in Id : <<d, j>> # <<c, i>> =>
          /\ task'[d][j] = task[d][j]
          /\ j \in inFlight'[d] <=> j \in inFlight[d]
          /\ j \in cancelled'[d] <=> j \in cancelled[d]
    BY <2>1 DEF Finish, Respond, Panic
  <2>3. task'[c][i] # "running" /\ <<c, i>> \notin reached' /\ reached' \subseteq reached
    BY <2>1 DEF Finish, Respond, Panic
  <2>4. ASSUME NEW d \in Conn, NEW j \in Id, <<d, j>> # <<c, i>>
        PROVE  /\ task'[d][j] = "running" => j \in inFlight'[d]
               /\ <<d, j>> \in reached' => task'[d][j] = "running" /\ j \in cancelled'[d]
    BY <2>2, <2>3, <2>4
  <2>5. ASSUME NEW d \in Conn, NEW j \in Id, <<d, j>> = <<c, i>>
        PROVE  d = c /\ j = i
    BY <2>5
  <2> QED BY <2>3, <2>4, <2>5
<1> QED BY <1>1, <1>2, <1>3, <1>4, <1>5, StepKinds

-----------------------------------------------------------------------------

LEMMA StutterInv == ASSUME IInv, UNCHANGED vars PROVE IInv'
BY DEF IInv, FlagsTyped, NumbersTyped, DataTyped, Connection, Handshake, Teardown, Greeting,
       Children, Tasks, OkMeansConnected, FailedHandshakeLeavesNothing, LoopLives, vars,
       ownerVars, clientVars, initVars, loopVars, taskVars, historyVars

LEMMA StepInv == ASSUME IInv, Next PROVE IInv'
BY FlagsStep, NumbersStep, DataStep, ConnectionStep, HandshakeStays, TeardownStays, OwnerStays,
   OthersStay, TasksStay, StepKinds DEF IInv

THEOREM Invariance == Spec => []IInv
<1>1. IInv /\ [Next]_vars => IInv'
  BY StutterInv, StepInv
<1> QED BY <1>1, InitInv, PTL DEF Spec

\* Every variable keeps its type, for any number of connections and handshakes.
THEOREM TypeCorrect == Spec => []TypeOK
<1>1. IInv => TypeOK
  BY TypeParts DEF IInv
<1> QED BY <1>1, Invariance, PTL

\* A handshake that succeeded was announced to the server, and the handler was
\* greeted once on that connection, whatever connections and handshakes came
\* before (Client::init, complete_initialization).
THEOREM SuccessIsComplete == Spec => []OkMeansConnected
<1>1. IInv => OkMeansConnected
  BY DEF IInv
<1> QED BY <1>1, Invariance, PTL

\* A handshake that failed leaves no transport, context, loop or process.
THEOREM FailureCleansUp == Spec => []FailedHandshakeLeavesNothing
<1>1. IInv => FailedHandshakeLeavesNothing
  BY DEF IInv
<1> QED BY <1>1, Invariance, PTL

\* The response to a running request that was cancelled is never written, also
\* when an earlier connection left a request of the same id behind.
THEOREM CancelledIsSilent == Spec => []NoResponseAfterCancel
<1>1. IInv => NoResponseAfterCancel
  BY DEF IInv, Tasks, NoResponseAfterCancel
<1> QED BY <1>1, Invariance, PTL

\* A transport that a request can be written to is the one of the current
\* connection and is read by its loop, so that a request that is sent will be
\* answered or see its server go.  The exception is a panic of a notification
\* handler, after which nobody reads (process_message_loop).  (ClientConnection
\* takes the end of the loop before, in start_message_handler, as one step with
\* what follows; a connect that is dropped in between leaves a transport whose
\* loop was aborted.)
AttachedIsRead == attached # 0 => attached = conn /\ loop \in {"running", "panicked"}

\* A response to initialize is only kept for the call that waits for it, never
\* one that was dropped or has expired.
OwnReply == reply # "none" => owner = "waiting" /\ pending = inits

THEOREM RequestsAreHeard == Spec => [](AttachedIsRead /\ OwnReply)
<1>1. IInv => AttachedIsRead /\ OwnReply
  BY DEF IInv, Connection, Handshake, AttachedIsRead, OwnReply
<1> QED BY <1>1, Invariance, PTL
=============================================================================
