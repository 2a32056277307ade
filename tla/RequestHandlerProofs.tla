------------------------ MODULE RequestHandlerProofs ------------------------
(***************************************************************************)
(* Proofs about RequestHandler for any number of requests, any bound on    *)
(* the request counter and any number of connections.                      *)
(***************************************************************************)
EXTENDS RequestHandler, TLAPS

\* A request that started has an id and a oneshot, and ids are handed out once.
IdOf(r) ==
  /\ pc[r] = "idle" <=> id[r] = 0
  /\ pc[r] = "idle" <=> chan[r] = "none"
  /\ id[r] < nextId

IdsOK ==
  /\ \A r \in Requests : IdOf(r)
  /\ \A q, r \in Requests : id[q] = id[r] /\ id[q] # 0 => q = r

\* The slot of a request is in the map exactly while its oneshot is open.
SlotOf(i) ==
  slots[i] # Nobody => id[slots[i]] = i /\ chan[slots[i]] = "open"

ChanOf(r) ==
  /\ chan[r] = "open" => slots[id[r]] = r /\ (Live(r) \/ pc[r] = "drop")
  /\ chan[r] \in Requests => chan[r] = r

SlotsOK == (\A i \in Ids : SlotOf(i)) /\ (\A r \in Requests : ChanOf(r))

\* The transport and the notice queue of the handler are those of the current
\* connection, and a request stays with the connection it started on.
ConnOf(r) ==
  /\ InSend(r) => cancel[r] \in {0, conn}
  /\ pc[r] \in {"sending", "flushing"} => sink[r] = conn
  /\ pc[r] \in {"waiting", "drop", "notify"} => cancel[r] \in {0, sink[r]}

ConnOK ==
  /\ transport \in {0, conn}
  /\ cancellations \in {0, conn}
  /\ loop = "forwarding" => notices # <<>>
  /\ \A r \in Requests : ConnOf(r)

\* A request that may still send its notice was given up, and a notice that
\* was sent belongs to such a request.
NoticeOf(r) ==
  /\ pc[r] = "drop" => cancel[r] = 0 \/ outcome[r] \in GivenUp
  /\ pc[r] = "notify" =>
       cancel[r] # 0 /\ outcome[r] \in GivenUp /\ chan[r] = "closed"
  /\ Queued(r) => sink[r] = conn /\ ~Told(r)
  /\ Queued(r) \/ Told(r) =>
       pc[r] = "done" /\ outcome[r] \in GivenUp /\ chan[r] = "closed"

NoticeOK ==
  /\ \A r \in Requests : NoticeOf(r)
  /\ \A j, k \in DOMAIN notices : notices[j] = notices[k] => j = k

\* A request has no outcome while its future runs.
OutcomeOK ==
  \A r \in Requests :
    pc[r] \in {"idle", "started", "sending", "flushing", "waiting"} => outcome[r] = "none"

\* What was written about a request: nothing before it reached its sink, then
\* the request, then its notice, all to one connection.
SeenOf(r) ==
  /\ pc[r] \in {"idle", "started", "sending"} => seen[r] = <<>>
  /\ ~Told(r) => Len(seen[r]) <= 1
  /\ \A k \in DOMAIN seen[r] : seen[r][k].conn = sink[r]
  /\ \A j, k \in DOMAIN seen[r] :
       j < k => seen[r][j].kind = "request" /\ seen[r][k].kind = "cancelled"

SeenOK == \A r \in Requests : SeenOf(r)

IInv == TypeOK /\ IdsOK /\ SlotsOK /\ ConnOK /\ NoticeOK /\ OutcomeOK /\ SeenOK

-----------------------------------------------------------------------------
(* Facts about functions and sequences that the steps below use.           *)

LEMMA UpdateType ==
  ASSUME NEW S, NEW T, NEW f \in [S -> T], NEW x \in S, NEW v \in T
  PROVE  [f EXCEPT ![x] = v] \in [S -> T]
  OBVIOUS

LEMMA EmptyType == ASSUME NEW S PROVE <<>> \in Seq(S)
  OBVIOUS

LEMMA EmptyElements == DOMAIN <<>> = {} /\ Len(<<>>) = 0
  OBVIOUS

LEMMA AppendElements ==
  ASSUME NEW S, NEW s \in Seq(S), NEW x \in S
  PROVE  /\ Append(s, x) \in Seq(S)
         /\ Append(s, x) # <<>>
         /\ Len(Append(s, x)) = Len(s) + 1
         /\ DOMAIN Append(s, x) = 1..(Len(s) + 1)
         /\ DOMAIN s = 1..Len(s)
         /\ \A k \in 1..Len(s) : Append(s, x)[k] = s[k]
         /\ Append(s, x)[Len(s) + 1] = x
         /\ Len(s) \in Nat
  OBVIOUS

LEMMA TailElements ==
  ASSUME NEW S, NEW s \in Seq(S), s # <<>>
  PROVE  /\ Head(s) \in S
         /\ Tail(s) \in Seq(S)
         /\ DOMAIN s = 1..Len(s)
         /\ Len(s) \in Nat \ {0}
         /\ Head(s) = s[1]
         /\ DOMAIN Tail(s) = 1..(Len(s) - 1)
         /\ \A k \in 1..(Len(s) - 1) : Tail(s)[k] = s[k + 1]
  OBVIOUS

-----------------------------------------------------------------------------
(* What the steps have in common, so that the invariant is proved of three *)
(* effects and of the six steps that do more.                              *)

\* A request moves on without touching the map, its oneshot or the wire.
Phases == {"idle", "started", "sending", "flushing", "waiting", "drop", "notify", "done"}

RequestMoves(p) ==
  /\ UNCHANGED <<handlerVars, id, timed, chan, conn, loop, owner, notices, seen>>
  /\ pc' \in [Requests -> Phases]
  /\ outcome' \in [Requests -> Outcomes]
  /\ cancel' \in [Requests -> Conns]
  /\ sink' \in [Requests -> Conns]
  /\ holder' \in Requests \cup {Nobody}
  /\ \A r \in Requests \ {p} :
       pc'[r] = pc[r] /\ outcome'[r] = outcome[r] /\ cancel'[r] = cancel[r] /\ sink'[r] = sink[r]
  /\ cancel'[p] \in {0, cancel[p]}
  /\ \/ /\ pc[p] = "started" /\ pc'[p] = "sending" /\ transport # 0
        /\ sink'[p] = transport /\ outcome'[p] = outcome[p]
     \/ /\ pc[p] = "flushing" /\ pc'[p] = "waiting"
        /\ sink'[p] = sink[p] /\ outcome'[p] = outcome[p]
     \/ /\ pc[p] \in {"started", "sending", "flushing", "waiting"} /\ pc'[p] = "drop"
        /\ pc[p] = "started" => cancel'[p] = 0
        /\ cancel'[p] = 0 \/ outcome'[p] \in GivenUp
        /\ outcome'[p] # "none"
        /\ outcome'[p] = "response" => chan[p] \notin {"open", "closed"}
        /\ sink'[p] = sink[p]

LEMMA RequestMovesOK ==
  ASSUME TypeOK, NEW p \in Requests,
         \/ Refused(p) \/ CloneTransport(p) \/ Flushed(p) \/ SendFails(p)
         \/ Expire(p) \/ Abandon(p) \/ Receive(p)
  PROVE  RequestMoves(p)
  <1> USE BoundAssumption DEF RequestMoves, TypeOK, handlerVars, requestVars, connVars, Phases, Outcomes, GivenUp, Conns
  <1>1. CASE Refused(p)        BY <1>1 DEF Refused, Finish
  <1>2. CASE CloneTransport(p) BY <1>2 DEF CloneTransport
  <1>3. CASE Flushed(p)        BY <1>3 DEF Flushed
  <1>4. CASE SendFails(p)      BY <1>4 DEF SendFails, Finish
  <1>5. CASE Expire(p)         BY <1>5 DEF Expire, Finish
  <1>6. CASE Abandon(p)        BY <1>6 DEF Abandon, Finish
  <1>7. CASE Receive(p)        BY <1>7 DEF Receive, Finish
  <1>. QED
    BY <1>1, <1>2, <1>3, <1>4, <1>5, <1>6, <1>7

\* The loop or the owner changes the connection and no request.
ConnectionMoves ==
  /\ UNCHANGED <<nextId, slots, requestVars, seen>>
  /\ shuttingDown' \in BOOLEAN
  /\ \/ conn' = conn /\ transport' \in {0, transport} /\ cancellations' \in {0, cancellations}
     \/ /\ conn' \in Conns /\ transport' = conn' /\ cancellations' = conn'
        /\ notices' = <<>> /\ NoBorrow
  /\ holder' \in Requests \cup {Nobody}
  /\ owner' \in {"free", "flagged", "detached", "stopping", "gone"}
  /\ loop' \in {"none", "running", "forwarding", "flagged", "detached", "stopped"}
  /\ notices' \in {notices, <<>>}
  /\ loop' = "forwarding" => /\ notices' = notices
                             /\ notices # <<>> \/ loop = "forwarding"

LEMMA ConnectionMovesOK ==
  ASSUME TypeOK,
         \/ TakeNotice \/ LoopBreaks \/ LoopDetaches \/ Connect \/ DisconnectFlags
         \/ DisconnectDetaches \/ DisconnectStops \/ DropClient \/ UNCHANGED vars
  PROVE  ConnectionMoves
  <1> USE BoundAssumption
      DEF ConnectionMoves, TypeOK, handlerVars, requestVars, connVars, Conns
  <1>1. CASE TakeNotice         BY <1>1 DEF TakeNotice
  <1>2. CASE LoopBreaks         BY <1>2 DEF LoopBreaks
  <1>3. CASE LoopDetaches       BY <1>3 DEF LoopDetaches, Detach
  <1>4. CASE Connect
    <2>1. conn' \in Conns /\ transport' = conn' /\ cancellations' = conn' /\ conn' # conn
      BY <1>4 DEF Connect
    <2>. QED
      BY <1>4, <2>1 DEF Connect
  <1>5. CASE DisconnectFlags    BY <1>5 DEF DisconnectFlags
  <1>6. CASE DisconnectDetaches BY <1>6 DEF DisconnectDetaches, Detach
  <1>7. CASE DisconnectStops    BY <1>7 DEF DisconnectStops, AbortLoop
  <1>8. CASE DropClient         BY <1>8 DEF DropClient, AbortLoop
  <1>9. CASE UNCHANGED vars     BY <1>9 DEF vars
  <1>. QED
    BY <1>1, <1>2, <1>3, <1>4, <1>5, <1>6, <1>7, <1>8, <1>9

\* Clearing the map closes exactly the oneshots that were open.
MapClears ==
  /\ slots' = [i \in Ids |-> Nobody]
  /\ chan' = [r \in Requests |-> IF chan[r] = "open" THEN "closed" ELSE chan[r]]
  /\ UNCHANGED <<nextId, transport, cancellations, shuttingDown,
                 pc, id, timed, cancel, sink, outcome, conn, holder, seen>>
  /\ \/ loop' = loop /\ notices' = notices
     \/ loop' = "stopped" /\ notices' = <<>>
  /\ owner' \in {owner, "stopping"}

LEMMA MapClearsOK ==
  ASSUME TypeOK, IdsOK, SlotsOK, LoopClears \/ DisconnectClears
  PROVE  MapClears
  <1>1. ASSUME NEW r \in Requests
        PROVE  (\E i \in Ids : slots[i] = r) <=> chan[r] = "open"
    <2>1. ASSUME NEW i \in Ids, slots[i] = r PROVE chan[r] = "open"
      BY <2>1, RequestAssumption DEF SlotsOK, SlotOf
    <2>2. ASSUME chan[r] = "open" PROVE slots[id[r]] = r /\ id[r] \in Ids
      BY <2>2 DEF SlotsOK, ChanOf, IdsOK, IdOf, TypeOK, Ids, Live, InSend
    <2>. QED
      BY <2>1, <2>2
  <1>2. ClearSlots
    BY DEF LoopClears, DisconnectClears
  <1>3. chan' = [r \in Requests |-> IF chan[r] = "open" THEN "closed" ELSE chan[r]]
    BY <1>1, <1>2 DEF ClearSlots
  <1>. QED
    BY <1>2, <1>3 DEF MapClears, ClearSlots, LoopClears, DisconnectClears

\* An answer reaches no request but the one it was made for.
Answers(p) ==
  /\ id[p] \in Ids
  /\ \/ UNCHANGED <<slots, chan>>
     \/ /\ slots[id[p]] = p
        /\ slots' = [slots EXCEPT ![id[p]] = Nobody]
        /\ chan' = [chan EXCEPT ![p] = p]
  /\ UNCHANGED <<nextId, transport, cancellations, shuttingDown,
                 pc, id, timed, cancel, sink, outcome, connVars>>

LEMMA AnswersOK ==
  ASSUME TypeOK, IdsOK, SlotsOK, SeenOK, NEW p \in Requests, Dispatch(p)
  PROVE  Answers(p)
  <1>1. id[p] \in Ids
    <2>1. seen[p] # <<>>
      BY DEF Dispatch
    <2>. QED
      BY <2>1 DEF SeenOK, SeenOf, IdsOK, IdOf, TypeOK, Ids
  <1>2. slots[id[p]] = Nobody \/ slots[id[p]] = p
    <2>1. slots[id[p]] \in Requests \cup {Nobody}
      BY <1>1 DEF TypeOK
    <2>. QED
      BY <1>1, <2>1 DEF SlotsOK, SlotOf, IdsOK, IdOf, Ids
  <1>. QED
    BY <1>1, <1>2, RequestAssumption DEF Answers, Dispatch

LEMMA StepCases ==
  ASSUME IInv, [Next]_vars, NEW P,
         \A p \in Requests : Start(p) => P,
         \A p \in Requests : RequestMoves(p) => P,
         \A p \in Requests : Buffer(p) => P,
         \A p \in Requests : ReleaseSlot(p) => P,
         \A p \in Requests : Notify(p) => P,
         \A p \in Requests : Answers(p) => P,
         ForwardNotice => P,
         MapClears => P,
         ConnectionMoves => P
  PROVE  P
  BY RequestMovesOK, ConnectionMovesOK, MapClearsOK, AnswersOK
  DEF IInv, Next, RequestStep, LoopStep, OwnerStep

-----------------------------------------------------------------------------
LEMMA TypeOKStep == IInv /\ [Next]_vars => TypeOK'
  <1> SUFFICES ASSUME IInv, [Next]_vars,
                      TypeOK, IdsOK, SlotsOK, ConnOK, NoticeOK, SeenOK
               PROVE  TypeOK'
    BY DEF IInv
  <1> USE RequestAssumption, BoundAssumption
  <1>1. ASSUME NEW p \in Requests, Start(p) PROVE TypeOK'
    BY <1>1 DEF Start, TypeOK, Ids, Conns, handlerVars, requestVars, connVars
  <1>2. ASSUME NEW p \in Requests, RequestMoves(p) PROVE TypeOK'
    BY <1>2 DEF RequestMoves, TypeOK, Ids, Conns, handlerVars, requestVars, connVars, Phases
  <1>3. ASSUME NEW p \in Requests, Buffer(p) PROVE TypeOK'
    <2>1. [kind |-> "request", conn |-> sink[p]] \in Message
      BY DEF TypeOK, Message
    <2>2. Append(seen[p], [kind |-> "request", conn |-> sink[p]]) \in Seq(Message)
      BY <2>1 DEF TypeOK
    <2>. QED
      BY <1>3, <2>2 DEF Buffer, TypeOK, handlerVars
  <1>4. ASSUME NEW p \in Requests, ReleaseSlot(p) PROVE TypeOK'
    BY <1>4 DEF ReleaseSlot, TypeOK, Ids, Conns, handlerVars, requestVars, connVars
  <1>5. ASSUME NEW p \in Requests, Notify(p) PROVE TypeOK'
    BY <1>5 DEF Notify, TypeOK, Ids, Conns, handlerVars, requestVars, connVars
  <1>6. ASSUME NEW p \in Requests, Answers(p) PROVE TypeOK'
    <2>1. slots' \in [Ids -> Requests \cup {Nobody}]
      BY <1>6 DEF Answers, TypeOK
    <2>2. chan' \in [Requests -> Requests \cup {"none", "open", "closed"}]
      <3>1. chan \in [Requests -> Requests \cup {"none", "open", "closed"}]
        BY DEF TypeOK
      <3>2. [chan EXCEPT ![p] = p] \in [Requests -> Requests \cup {"none", "open", "closed"}]
        BY <3>1, UpdateType
      <3>. QED
        BY <1>6, <3>1, <3>2 DEF Answers
    <2>. QED
      BY <1>6, <2>1, <2>2 DEF Answers, TypeOK, connVars
  <1>7. ASSUME ForwardNotice PROVE TypeOK'
    <2> DEFINE m == [kind |-> "cancelled", conn |-> conn]
    <2>1. notices # <<>> /\ notices \in Seq(Requests)
      BY <1>7 DEF ForwardNotice, ConnOK, TypeOK
    <2>2. Head(notices) \in Requests /\ Tail(notices) \in Seq(Requests)
      BY <2>1
    <2>3. m \in Message
      BY DEF TypeOK, Message
    <2>4. Append(seen[Head(notices)], m) \in Seq(Message)
      BY <2>2, <2>3 DEF TypeOK
    <2>. QED
      BY <1>7, <2>2, <2>4 DEF ForwardNotice, TypeOK, handlerVars, requestVars
  <1>8. ASSUME MapClears PROVE TypeOK'
    <2>1. chan' \in [Requests -> Requests \cup {"none", "open", "closed"}]
      BY <1>8 DEF MapClears, TypeOK
    <2>2. notices' \in Seq(Requests)
      <3>1. notices \in Seq(Requests) /\ <<>> \in Seq(Requests)
        BY EmptyType DEF TypeOK
      <3>. QED
        BY <1>8, <3>1 DEF MapClears
    <2>3. loop' \in {"none", "running", "forwarding", "flagged", "detached", "stopped"}
      BY <1>8 DEF MapClears, TypeOK
    <2>. QED
      BY <1>8, <2>1, <2>2, <2>3 DEF MapClears, TypeOK
  <1>9. ASSUME ConnectionMoves PROVE TypeOK'
    <2>1. notices' \in Seq(Requests)
      <3>1. notices \in Seq(Requests) /\ <<>> \in Seq(Requests)
        BY EmptyType DEF TypeOK
      <3>. QED
        BY <1>9, <3>1 DEF ConnectionMoves
    <2>2. conn' \in Conns /\ transport' \in Conns /\ cancellations' \in Conns
      BY <1>9 DEF ConnectionMoves, TypeOK, Conns
    <2>. QED
      BY <1>9, <2>1, <2>2 DEF ConnectionMoves, TypeOK, requestVars
  <1>. QED
    BY <1>1, <1>2, <1>3, <1>4, <1>5, <1>6, <1>7, <1>8, <1>9, StepCases

LEMMA IdsOKStep == IInv /\ [Next]_vars => IdsOK'
  <1> SUFFICES ASSUME IInv, [Next]_vars,
                      TypeOK, IdsOK, SlotsOK, ConnOK, NoticeOK, SeenOK
               PROVE  IdsOK'
    BY DEF IInv
  <1> USE RequestAssumption, BoundAssumption
  <1>1. ASSUME NEW p \in Requests, Start(p) PROVE IdsOK'
    <2>1. ASSUME NEW r \in Requests PROVE IdOf(r)'
      BY <1>1 DEF Start, TypeOK, IdsOK, IdOf, Ids, handlerVars, requestVars, connVars
    <2>. QED
      BY <1>1, <2>1 DEF Start, TypeOK, IdsOK, IdOf, Ids, handlerVars, requestVars, connVars
  <1>2. ASSUME NEW p \in Requests, RequestMoves(p) PROVE IdsOK'
    <2>1. ASSUME NEW r \in Requests PROVE IdOf(r)'
      BY <1>2 DEF RequestMoves, TypeOK, IdsOK, IdOf, Ids, handlerVars, requestVars, connVars
    <2>. QED
      BY <1>2, <2>1 DEF RequestMoves, TypeOK, IdsOK, IdOf, Ids, handlerVars, requestVars, connVars
  <1>3. ASSUME NEW p \in Requests, Buffer(p) PROVE IdsOK'
    <2>1. ASSUME NEW r \in Requests PROVE IdOf(r)'
      BY <1>3 DEF Buffer, TypeOK, IdsOK, IdOf, Ids, handlerVars, requestVars, connVars
    <2>. QED
      BY <1>3, <2>1 DEF Buffer, TypeOK, IdsOK, IdOf, Ids, handlerVars, requestVars, connVars
  <1>4. ASSUME NEW p \in Requests, ReleaseSlot(p) PROVE IdsOK'
    <2>1. ASSUME NEW r \in Requests PROVE IdOf(r)'
      BY <1>4 DEF ReleaseSlot, TypeOK, IdsOK, IdOf, Ids, handlerVars, requestVars, connVars
    <2>. QED
      BY <1>4, <2>1 DEF ReleaseSlot, TypeOK, IdsOK, IdOf, Ids, handlerVars, requestVars, connVars
  <1>5. ASSUME NEW p \in Requests, Notify(p) PROVE IdsOK'
    <2>1. ASSUME NEW r \in Requests PROVE IdOf(r)'
      BY <1>5 DEF Notify, TypeOK, IdsOK, IdOf, Ids, handlerVars, requestVars, connVars
    <2>. QED
      BY <1>5, <2>1 DEF Notify, TypeOK, IdsOK, IdOf, Ids, handlerVars, requestVars, connVars
  <1>6. ASSUME NEW p \in Requests, Answers(p) PROVE IdsOK'
    <2>1. ASSUME NEW r \in Requests PROVE IdOf(r)'
      BY <1>6 DEF Answers, TypeOK, IdsOK, IdOf, Ids, handlerVars, requestVars, connVars, SeenOK, SeenOf
    <2>. QED
      BY <1>6, <2>1 DEF Answers, TypeOK, IdsOK, IdOf, Ids, handlerVars, requestVars, connVars
  <1>7. ASSUME ForwardNotice PROVE IdsOK'
    <2>1. ASSUME NEW r \in Requests PROVE IdOf(r)'
      BY <1>7 DEF ForwardNotice, TypeOK, IdsOK, IdOf, Ids, handlerVars, requestVars, connVars
    <2>. QED
      BY <1>7, <2>1 DEF ForwardNotice, TypeOK, IdsOK, IdOf, Ids, handlerVars, requestVars, connVars
  <1>8. ASSUME MapClears PROVE IdsOK'
    <2>1. ASSUME NEW r \in Requests PROVE IdOf(r)'
      BY <1>8 DEF MapClears, TypeOK, IdsOK, IdOf, Ids, handlerVars, requestVars, connVars
    <2>. QED
      BY <1>8, <2>1 DEF MapClears, TypeOK, IdsOK, IdOf, Ids, handlerVars, requestVars, connVars
  <1>9. ASSUME ConnectionMoves PROVE IdsOK'
    <2>1. ASSUME NEW r \in Requests PROVE IdOf(r)'
      BY <1>9 DEF ConnectionMoves, TypeOK, IdsOK, IdOf, Ids, handlerVars, requestVars, connVars
    <2>. QED
      BY <1>9, <2>1 DEF ConnectionMoves, TypeOK, IdsOK, IdOf, Ids, handlerVars, requestVars, connVars
  <1>. QED
    BY <1>1, <1>2, <1>3, <1>4, <1>5, <1>6, <1>7, <1>8, <1>9, StepCases

LEMMA SlotsOKStep == IInv /\ [Next]_vars => SlotsOK'
  <1> SUFFICES ASSUME IInv, [Next]_vars,
                      TypeOK, IdsOK, SlotsOK, ConnOK, NoticeOK, SeenOK
               PROVE  SlotsOK'
    BY DEF IInv
  <1> USE RequestAssumption, BoundAssumption
  <1>1. ASSUME NEW p \in Requests, Start(p) PROVE SlotsOK'
    <2>1. ASSUME NEW i \in Ids PROVE SlotOf(i)'
      BY <1>1 DEF Start, TypeOK, IdsOK, IdOf, SlotsOK, SlotOf, ChanOf, Ids, Live, InSend, handlerVars, requestVars, connVars
    <2>2. ASSUME NEW r \in Requests PROVE ChanOf(r)'
      BY <1>1 DEF Start, TypeOK, IdsOK, IdOf, SlotsOK, SlotOf, ChanOf, Ids, Live, InSend, handlerVars, requestVars, connVars
    <2>. QED
      BY <2>1, <2>2 DEF SlotsOK, Ids
  <1>2. ASSUME NEW p \in Requests, RequestMoves(p) PROVE SlotsOK'
    <2>1. ASSUME NEW i \in Ids PROVE SlotOf(i)'
      BY <1>2 DEF RequestMoves, TypeOK, IdsOK, IdOf, SlotsOK, SlotOf, ChanOf, Ids, Live, InSend, handlerVars, requestVars, connVars
    <2>2. ASSUME NEW r \in Requests PROVE ChanOf(r)'
      <3>1. UNCHANGED <<slots, id, chan>>
        BY <1>2 DEF RequestMoves, handlerVars
      <3>2. pc'[r] = pc[r] \/ pc'[r] \in {"sending", "waiting", "drop"}
        BY <1>2 DEF RequestMoves
      <3>. QED
        BY <3>1, <3>2 DEF SlotsOK, ChanOf, Live, InSend
    <2>. QED
      BY <2>1, <2>2 DEF SlotsOK, Ids
  <1>3. ASSUME NEW p \in Requests, Buffer(p) PROVE SlotsOK'
    <2>1. ASSUME NEW i \in Ids PROVE SlotOf(i)'
      BY <1>3 DEF Buffer, TypeOK, IdsOK, IdOf, SlotsOK, SlotOf, ChanOf, Ids, Live, InSend, handlerVars, requestVars, connVars
    <2>2. ASSUME NEW r \in Requests PROVE ChanOf(r)'
      BY <1>3 DEF Buffer, TypeOK, IdsOK, IdOf, SlotsOK, SlotOf, ChanOf, Ids, Live, InSend, handlerVars, requestVars, connVars
    <2>. QED
      BY <2>1, <2>2 DEF SlotsOK, Ids
  <1>4. ASSUME NEW p \in Requests, ReleaseSlot(p) PROVE SlotsOK'
    <2>1. ASSUME NEW i \in Ids PROVE SlotOf(i)'
      BY <1>4 DEF ReleaseSlot, TypeOK, IdsOK, IdOf, SlotsOK, SlotOf, ChanOf, Ids, Live, InSend, handlerVars, requestVars, connVars
    <2>2. ASSUME NEW r \in Requests PROVE ChanOf(r)'
      BY <1>4 DEF ReleaseSlot, TypeOK, IdsOK, IdOf, SlotsOK, SlotOf, ChanOf, Ids, Live, InSend, handlerVars, requestVars, connVars
    <2>. QED
      BY <2>1, <2>2 DEF SlotsOK, Ids
  <1>5. ASSUME NEW p \in Requests, Notify(p) PROVE SlotsOK'
    <2>1. ASSUME NEW i \in Ids PROVE SlotOf(i)'
      BY <1>5 DEF Notify, TypeOK, IdsOK, IdOf, SlotsOK, SlotOf, ChanOf, Ids, Live, InSend, handlerVars, requestVars, connVars
    <2>2. ASSUME NEW r \in Requests PROVE ChanOf(r)'
      BY <1>5 DEF Notify, TypeOK, IdsOK, IdOf, SlotsOK, SlotOf, ChanOf, Ids, Live, InSend, handlerVars, requestVars, connVars
    <2>. QED
      BY <2>1, <2>2 DEF SlotsOK, Ids
  <1>6. ASSUME NEW p \in Requests, Answers(p) PROVE SlotsOK'
    <2>1. ASSUME NEW i \in Ids PROVE SlotOf(i)'
      <3>1. UNCHANGED id
        BY <1>6 DEF Answers
      <3>2. CASE UNCHANGED <<slots, chan>>
        BY <3>1, <3>2 DEF SlotsOK, SlotOf
      <3>3. CASE /\ slots[id[p]] = p
                 /\ slots' = [slots EXCEPT ![id[p]] = Nobody]
                 /\ chan' = [chan EXCEPT ![p] = p]
        <4>1. i = id[p] => slots'[i] = Nobody
          BY <3>3 DEF TypeOK
        <4>2. i # id[p] => slots'[i] = slots[i] /\ (slots[i] # Nobody => slots[i] # p)
          BY <3>3 DEF TypeOK, SlotsOK, SlotOf
        <4>3. ASSUME NEW r \in Requests, r # p PROVE chan'[r] = chan[r]
          BY <3>3, <4>3 DEF TypeOK
        <4>4. slots[i] \in Requests \cup {Nobody}
          BY DEF TypeOK
        <4>. QED
          BY <3>1, <4>1, <4>2, <4>3, <4>4 DEF SlotsOK, SlotOf
      <3>. QED
        BY <1>6, <3>2, <3>3 DEF Answers
    <2>2. ASSUME NEW r \in Requests PROVE ChanOf(r)'
      <3>1. UNCHANGED <<pc, id>>
        BY <1>6 DEF Answers
      <3>2. CASE UNCHANGED <<slots, chan>>
        BY <3>1, <3>2 DEF SlotsOK, ChanOf, Live, InSend
      <3>3. CASE /\ slots[id[p]] = p
                 /\ slots' = [slots EXCEPT ![id[p]] = Nobody]
                 /\ chan' = [chan EXCEPT ![p] = p]
        <4>1. CASE r = p
          <5>1. chan'[p] = p
            BY <3>3 DEF TypeOK
          <5>. QED
            BY <4>1, <5>1 DEF ChanOf
        <4>2. CASE r # p
          <5>1. chan'[r] = chan[r]
            BY <3>3, <4>2 DEF TypeOK
          <5>2. chan[r] = "open" => slots[id[r]] = r /\ id[r] # id[p]
            BY <3>3, <4>2 DEF SlotsOK, ChanOf
          <5>3. id[r] # id[p] => slots'[id[r]] = slots[id[r]]
            BY <3>3 DEF TypeOK
          <5>. QED
            BY <3>1, <5>1, <5>2, <5>3 DEF SlotsOK, ChanOf, Live, InSend
        <4>. QED
          BY <4>1, <4>2
      <3>. QED
        BY <1>6, <3>2, <3>3 DEF Answers
    <2>. QED
      BY <2>1, <2>2 DEF SlotsOK, Ids
  <1>7. ASSUME ForwardNotice PROVE SlotsOK'
    <2>1. ASSUME NEW i \in Ids PROVE SlotOf(i)'
      BY <1>7 DEF ForwardNotice, TypeOK, IdsOK, IdOf, SlotsOK, SlotOf, ChanOf, Ids, Live, InSend, handlerVars, requestVars, connVars
    <2>2. ASSUME NEW r \in Requests PROVE ChanOf(r)'
      BY <1>7 DEF ForwardNotice, TypeOK, IdsOK, IdOf, SlotsOK, SlotOf, ChanOf, Ids, Live, InSend, handlerVars, requestVars, connVars
    <2>. QED
      BY <2>1, <2>2 DEF SlotsOK, Ids
  <1>8. ASSUME MapClears PROVE SlotsOK'
    <2>1. ASSUME NEW i \in Ids PROVE SlotOf(i)'
      BY <1>8 DEF MapClears, TypeOK, IdsOK, IdOf, SlotsOK, SlotOf, ChanOf, Ids, Live, InSend, handlerVars, requestVars, connVars
    <2>2. ASSUME NEW r \in Requests PROVE ChanOf(r)'
      BY <1>8 DEF MapClears, TypeOK, IdsOK, IdOf, SlotsOK, SlotOf, ChanOf, Ids, Live, InSend, handlerVars, requestVars, connVars
    <2>. QED
      BY <2>1, <2>2 DEF SlotsOK, Ids
  <1>9. ASSUME ConnectionMoves PROVE SlotsOK'
    <2>1. ASSUME NEW i \in Ids PROVE SlotOf(i)'
      BY <1>9 DEF ConnectionMoves, TypeOK, IdsOK, IdOf, SlotsOK, SlotOf, ChanOf, Ids, Live, InSend, handlerVars, requestVars, connVars
    <2>2. ASSUME NEW r \in Requests PROVE ChanOf(r)'
      BY <1>9 DEF ConnectionMoves, TypeOK, IdsOK, IdOf, SlotsOK, SlotOf, ChanOf, Ids, Live, InSend, handlerVars, requestVars, connVars
    <2>. QED
      BY <2>1, <2>2 DEF SlotsOK, Ids
  <1>. QED
    BY <1>1, <1>2, <1>3, <1>4, <1>5, <1>6, <1>7, <1>8, <1>9, StepCases

LEMMA ConnOKStep == IInv /\ [Next]_vars => ConnOK'
  <1> SUFFICES ASSUME IInv, [Next]_vars,
                      TypeOK, IdsOK, SlotsOK, ConnOK, NoticeOK, SeenOK
               PROVE  ConnOK'
    BY DEF IInv
  <1> USE RequestAssumption, BoundAssumption
  <1>1. ASSUME NEW p \in Requests, Start(p) PROVE ConnOK'
    <2>1. ASSUME NEW r \in Requests PROVE ConnOf(r)'
      BY <1>1 DEF Start, TypeOK, ConnOK, ConnOf, InSend, Conns, handlerVars, requestVars, connVars
    <2>. QED
      BY <1>1, <2>1 DEF Start, TypeOK, ConnOK, ConnOf, InSend, Conns, handlerVars, requestVars, connVars
  <1>2. ASSUME NEW p \in Requests, RequestMoves(p) PROVE ConnOK'
    <2>1. ASSUME NEW r \in Requests PROVE ConnOf(r)'
      BY <1>2 DEF RequestMoves, TypeOK, ConnOK, ConnOf, InSend, Conns, handlerVars, requestVars, connVars
    <2>. QED
      BY <1>2, <2>1 DEF RequestMoves, TypeOK, ConnOK, ConnOf, InSend, Conns, handlerVars, requestVars, connVars
  <1>3. ASSUME NEW p \in Requests, Buffer(p) PROVE ConnOK'
    <2>1. ASSUME NEW r \in Requests PROVE ConnOf(r)'
      BY <1>3 DEF Buffer, TypeOK, ConnOK, ConnOf, InSend, Conns, handlerVars, requestVars, connVars
    <2>. QED
      BY <1>3, <2>1 DEF Buffer, TypeOK, ConnOK, ConnOf, InSend, Conns, handlerVars, requestVars, connVars
  <1>4. ASSUME NEW p \in Requests, ReleaseSlot(p) PROVE ConnOK'
    <2>1. ASSUME NEW r \in Requests PROVE ConnOf(r)'
      BY <1>4 DEF ReleaseSlot, TypeOK, ConnOK, ConnOf, InSend, Conns, handlerVars, requestVars, connVars
    <2>. QED
      BY <1>4, <2>1 DEF ReleaseSlot, TypeOK, ConnOK, ConnOf, InSend, Conns, handlerVars, requestVars, connVars
  <1>5. ASSUME NEW p \in Requests, Notify(p) PROVE ConnOK'
    <2>1. ASSUME NEW r \in Requests PROVE ConnOf(r)'
      BY <1>5 DEF Notify, TypeOK, ConnOK, ConnOf, InSend, Conns, handlerVars, requestVars, connVars
    <2>2. Append(notices, p) # <<>>
      <3>1. notices \in Seq(Requests)
        BY DEF TypeOK
      <3>. QED
        BY <3>1, AppendElements
    <2>3. loop = "forwarding" => notices' # <<>>
      BY <1>5, <2>2 DEF Notify, ConnOK
    <2>. QED
      BY <1>5, <2>1, <2>3 DEF Notify, ConnOK, handlerVars
  <1>6. ASSUME NEW p \in Requests, Answers(p) PROVE ConnOK'
    <2>1. ASSUME NEW r \in Requests PROVE ConnOf(r)'
      BY <1>6 DEF Answers, TypeOK, ConnOK, ConnOf, InSend, Conns, handlerVars, requestVars, connVars
    <2>. QED
      BY <1>6, <2>1 DEF Answers, TypeOK, ConnOK, ConnOf, InSend, Conns, handlerVars, requestVars, connVars
  <1>7. ASSUME ForwardNotice PROVE ConnOK'
    <2>1. ASSUME NEW r \in Requests PROVE ConnOf(r)'
      BY <1>7 DEF ForwardNotice, TypeOK, ConnOK, ConnOf, InSend, Conns, handlerVars, requestVars, connVars
    <2>. QED
      BY <1>7, <2>1 DEF ForwardNotice, TypeOK, ConnOK, ConnOf, InSend, Conns, handlerVars, requestVars, connVars
  <1>8. ASSUME MapClears PROVE ConnOK'
    <2>1. ASSUME NEW r \in Requests PROVE ConnOf(r)'
      BY <1>8 DEF MapClears, TypeOK, ConnOK, ConnOf, InSend, Conns, handlerVars, requestVars, connVars
    <2>. QED
      BY <1>8, <2>1 DEF MapClears, TypeOK, ConnOK, ConnOf, InSend, Conns, handlerVars, requestVars, connVars
  <1>9. ASSUME ConnectionMoves PROVE ConnOK'
    <2>1. ASSUME NEW r \in Requests PROVE ConnOf(r)'
      BY <1>9 DEF ConnectionMoves, TypeOK, ConnOK, ConnOf, InSend, Conns, handlerVars, requestVars, connVars, NoBorrow
    <2>. QED
      BY <1>9, <2>1 DEF ConnectionMoves, TypeOK, ConnOK, ConnOf, InSend, Conns, handlerVars, requestVars, connVars, NoBorrow
  <1>. QED
    BY <1>1, <1>2, <1>3, <1>4, <1>5, <1>6, <1>7, <1>8, <1>9, StepCases

LEMMA NoticeOKStep == IInv /\ [Next]_vars => NoticeOK'
  <1> SUFFICES ASSUME IInv, [Next]_vars,
                      TypeOK, IdsOK, SlotsOK, ConnOK, NoticeOK, SeenOK
               PROVE  NoticeOK'
    BY DEF IInv
  <1> USE RequestAssumption, BoundAssumption
  <1>1. ASSUME NEW p \in Requests, Start(p) PROVE NoticeOK'
    <2>1. UNCHANGED <<notices, seen, conn>>
      BY <1>1 DEF Start, handlerVars, requestVars, connVars
    <2>2. ASSUME NEW r \in Requests PROVE NoticeOf(r)'
      <3>1. (Queued(r)' <=> Queued(r)) /\ (Told(r)' <=> Told(r))
        BY <1>1, <2>1 DEF Queued, Told
      <3>. QED
        BY <1>1, <2>1, <3>1 DEF Start, TypeOK, IdsOK, IdOf, SlotsOK, SlotOf, ChanOf, ConnOK, ConnOf, NoticeOK, NoticeOf, GivenUp, Live, InSend, Ids, Conns, handlerVars, requestVars, connVars
    <2>. QED
      BY <2>1, <2>2 DEF NoticeOK
  <1>2. ASSUME NEW p \in Requests, RequestMoves(p) PROVE NoticeOK'
    <2>1. UNCHANGED <<notices, seen, conn>>
      BY <1>2 DEF RequestMoves, handlerVars, requestVars, connVars
    <2>2. ASSUME NEW r \in Requests PROVE NoticeOf(r)'
      <3>1. (Queued(r)' <=> Queued(r)) /\ (Told(r)' <=> Told(r))
        BY <1>2, <2>1 DEF Queued, Told
      <3>. QED
        BY <1>2, <2>1, <3>1 DEF RequestMoves, NoticeOK, NoticeOf
    <2>. QED
      BY <2>1, <2>2 DEF NoticeOK
  <1>3. ASSUME NEW p \in Requests, Buffer(p) PROVE NoticeOK'
    <2>1. UNCHANGED <<notices, conn>>
      BY <1>3 DEF Buffer, handlerVars, requestVars, connVars
    <2>2. ASSUME NEW r \in Requests PROVE NoticeOf(r)'
      <3>1. (Queued(r)' <=> Queued(r)) /\ (Told(r)' <=> Told(r))
        BY <1>3, <2>1 DEF Queued, Told, Buffer, TypeOK, SeenOK, SeenOf, Message
      <3>. QED
        BY <1>3, <2>1, <3>1 DEF Buffer, TypeOK, IdsOK, IdOf, SlotsOK, SlotOf, ChanOf, ConnOK, ConnOf, NoticeOK, NoticeOf, GivenUp, Live, InSend, Ids, Conns, handlerVars, requestVars, connVars
    <2>. QED
      BY <2>1, <2>2 DEF NoticeOK
  <1>4. ASSUME NEW p \in Requests, ReleaseSlot(p) PROVE NoticeOK'
    <2>1. UNCHANGED <<notices, seen, conn>>
      BY <1>4 DEF ReleaseSlot, handlerVars, requestVars, connVars
    <2>2. ASSUME NEW r \in Requests PROVE NoticeOf(r)'
      <3>1. (Queued(r)' <=> Queued(r)) /\ (Told(r)' <=> Told(r))
        BY <1>4, <2>1 DEF Queued, Told
      <3>2. UNCHANGED <<sink, conn, cancel, outcome>>
        BY <1>4, <2>1 DEF ReleaseSlot, requestVars, connVars
      <3>3. NoticeOf(r)
        BY DEF NoticeOK
      <3>4. CASE r # p
        <4>1. pc'[r] = pc[r] /\ chan'[r] = chan[r]
          BY <1>4, <3>4 DEF ReleaseSlot, TypeOK
        <4>. QED
          BY <3>1, <3>2, <3>3, <4>1 DEF NoticeOf
      <3>5. CASE r = p
        <4>1. pc[r] = "drop" /\ ~Queued(r) /\ ~Told(r)
          BY <1>4, <3>3, <3>5 DEF ReleaseSlot, NoticeOf
        <4>2. pc'[r] = "done" \/ (pc'[r] = "notify" /\ slots[id[r]] # Nobody /\ cancel[r] # 0)
          BY <1>4, <3>5 DEF ReleaseSlot, TypeOK
        <4>3. slots[id[r]] # Nobody => slots[id[r]] = r
          BY <4>1 DEF TypeOK, IdsOK, IdOf, SlotsOK, SlotOf, ChanOf, Live, InSend, Ids
        <4>4. slots[id[r]] = r => chan'[r] = "closed"
          BY <1>4, <3>5 DEF ReleaseSlot, TypeOK
        <4>. QED
          BY <3>1, <3>2, <3>3, <4>1, <4>2, <4>3, <4>4 DEF NoticeOf
      <3>. QED
        BY <3>4, <3>5
    <2>. QED
      BY <2>1, <2>2 DEF NoticeOK
  <1>5. ASSUME NEW p \in Requests, Notify(p) PROVE NoticeOK'
    <2>1. /\ UNCHANGED <<seen, conn, sink, outcome, chan>>
          /\ pc' = [pc EXCEPT ![p] = "done"]
          /\ cancel' = [cancel EXCEPT ![p] = 0]
          /\ pc[p] = "notify"
      BY <1>5 DEF Notify
    <2>2. /\ ~Queued(p) /\ ~Told(p)
          /\ outcome[p] \in GivenUp /\ chan[p] = "closed" /\ cancel[p] = sink[p]
      BY <2>1 DEF NoticeOK, NoticeOf, ConnOK, ConnOf
    <2>3. notices \in Seq(Requests)
      BY DEF TypeOK
    <2>4. ASSUME NEW r \in Requests PROVE Told(r)' <=> Told(r)
      BY <2>1 DEF Told
    <2>5. ASSUME NEW r \in Requests,
                 Queued(r)' => Queued(r) \/ (r = p /\ sink[p] = conn)
          PROVE  NoticeOf(r)'
      <3>1. CASE r = p
        BY <2>1, <2>2, <2>4, <2>5, <3>1 DEF NoticeOf, TypeOK
      <3>2. CASE r # p
        BY <2>1, <2>4, <2>5, <3>2 DEF NoticeOK, NoticeOf, TypeOK
      <3>. QED
        BY <3>1, <3>2
    <2>6. CASE notices' = notices
      <3>1. ASSUME NEW r \in Requests PROVE NoticeOf(r)'
        BY <2>5, <2>6 DEF Queued
      <3>. QED
        BY <2>6, <3>1 DEF NoticeOK
    <2>7. CASE notices' = Append(notices, p) /\ cancel[p] = conn
      <3> DEFINE n == Len(notices)
      <3>1. /\ DOMAIN notices = 1..n /\ DOMAIN notices' = 1..(n + 1) /\ n \in Nat
            /\ notices'[n + 1] = p
            /\ \A k \in 1..n : notices'[k] = notices[k]
        BY <2>3, <2>7, AppendElements
      <3>2. ASSUME NEW r \in Requests PROVE NoticeOf(r)'
        <4>1. Queued(r)' => Queued(r) \/ r = p
          BY <3>1 DEF Queued
        <4>. QED
          BY <2>2, <2>5, <2>7, <4>1
      <3>3. \A k \in 1..n : notices[k] # p
        BY <2>2, <3>1 DEF Queued
      <3>4. \A j, k \in 1..n : notices[j] = notices[k] => j = k
        BY <3>1 DEF NoticeOK
      <3>5. \A j, k \in 1..(n + 1) : notices'[j] = notices'[k] => j = k
        BY <3>1, <3>3, <3>4
      <3>. QED
        BY <3>1, <3>2, <3>5 DEF NoticeOK
    <2>. QED
      BY <1>5, <2>6, <2>7 DEF Notify
  <1>6. ASSUME NEW p \in Requests, Answers(p) PROVE NoticeOK'
    <2>1. UNCHANGED <<notices, seen, conn>>
      BY <1>6 DEF Answers, handlerVars, requestVars, connVars
    <2>2. ASSUME NEW r \in Requests PROVE NoticeOf(r)'
      <3>1. (Queued(r)' <=> Queued(r)) /\ (Told(r)' <=> Told(r))
        BY <1>6, <2>1 DEF Queued, Told
      <3>. QED
        BY <1>6, <2>1, <3>1 DEF Answers, TypeOK, IdsOK, IdOf, SlotsOK, SlotOf, ChanOf, ConnOK, ConnOf, NoticeOK, NoticeOf, GivenUp, Live, InSend, Ids, Conns, handlerVars, requestVars, connVars, SeenOK, SeenOf
    <2>. QED
      BY <2>1, <2>2 DEF NoticeOK
  <1>7. ASSUME ForwardNotice PROVE NoticeOK'
    <2> DEFINE n == Len(notices)
               h == Head(notices)
    <2>1. notices \in Seq(Requests) /\ notices # <<>>
      BY <1>7 DEF ForwardNotice, TypeOK, ConnOK
    <2>2. /\ h \in Requests /\ h = notices[1]
          /\ n \in Nat \ {0} /\ DOMAIN notices = 1..n
          /\ DOMAIN notices' = 1..(n - 1)
          /\ \A k \in 1..(n - 1) : notices'[k] = notices[k + 1]
      <3>1. notices' = Tail(notices)
        BY <1>7 DEF ForwardNotice
      <3>. QED
        BY <2>1, <3>1, TailElements
    <2>3. \A j, k \in 1..n : notices[j] = notices[k] => j = k
      BY <2>2 DEF NoticeOK
    <2>4. UNCHANGED <<pc, cancel, outcome, chan, sink, conn>>
      BY <1>7 DEF ForwardNotice, requestVars
    <2>5. ASSUME NEW r \in Requests PROVE NoticeOf(r)'
      <3>1. Queued(r)' => Queued(r) /\ r # h
        BY <2>2, <2>3 DEF Queued
      <3>2. Queued(h)
        BY <2>2 DEF Queued
      <3>3. r # h => seen'[r] = seen[r]
        BY <1>7, <2>2 DEF ForwardNotice, TypeOK
      <3>4. r # h => (Told(r)' <=> Told(r))
        BY <3>3 DEF Told
      <3>. QED
        BY <2>2, <2>4, <3>1, <3>2, <3>4 DEF NoticeOK, NoticeOf
    <2>6. \A j, k \in 1..(n - 1) : notices'[j] = notices'[k] => j = k
      BY <2>2, <2>3
    <2>. QED
      BY <2>2, <2>5, <2>6 DEF NoticeOK
  <1>8. ASSUME MapClears PROVE NoticeOK'
    <2>1. /\ UNCHANGED <<pc, cancel, outcome, sink, conn, seen>>
          /\ notices' = notices \/ notices' = <<>>
      BY <1>8 DEF MapClears
    <2>2. ASSUME NEW r \in Requests PROVE NoticeOf(r)'
      <3>1. (Queued(r)' => Queued(r)) /\ (Told(r)' <=> Told(r))
        BY <2>1 DEF Queued, Told
      <3>2. chan[r] = "closed" => chan'[r] = "closed"
        BY <1>8 DEF MapClears
      <3>. QED
        BY <2>1, <3>1, <3>2 DEF NoticeOK, NoticeOf
    <2>. QED
      BY <2>1, <2>2 DEF NoticeOK
  <1>9. ASSUME ConnectionMoves PROVE NoticeOK'
    <2>1. /\ UNCHANGED <<pc, cancel, outcome, chan, sink, seen>>
          /\ notices' = notices \/ notices' = <<>>
          /\ conn' = conn \/ notices' = <<>>
      BY <1>9 DEF ConnectionMoves, requestVars
    <2>2. ASSUME NEW r \in Requests PROVE NoticeOf(r)'
      <3>1. (Queued(r)' => Queued(r) /\ conn' = conn) /\ (Told(r)' <=> Told(r))
        BY <2>1 DEF Queued, Told
      <3>. QED
        BY <2>1, <3>1 DEF NoticeOK, NoticeOf
    <2>. QED
      BY <2>1, <2>2 DEF NoticeOK
  <1>. QED
    BY <1>1, <1>2, <1>3, <1>4, <1>5, <1>6, <1>7, <1>8, <1>9, StepCases

LEMMA OutcomeOKStep == IInv /\ [Next]_vars => OutcomeOK'
  <1> SUFFICES ASSUME IInv, [Next]_vars, TypeOK, OutcomeOK
               PROVE  OutcomeOK'
    BY DEF IInv
  <1>1. ASSUME NEW p \in Requests, Start(p) PROVE OutcomeOK'
    BY <1>1 DEF Start, TypeOK, OutcomeOK
  <1>2. ASSUME NEW p \in Requests, RequestMoves(p) PROVE OutcomeOK'
    <2>1. ASSUME NEW r \in Requests, r # p PROVE pc'[r] = pc[r] /\ outcome'[r] = outcome[r]
      BY <1>2, <2>1 DEF RequestMoves
    <2>2. pc'[p] = "drop" \/ (outcome'[p] = outcome[p] /\ pc[p] \in {"started", "flushing"})
      BY <1>2 DEF RequestMoves
    <2>. QED
      BY <2>1, <2>2 DEF OutcomeOK
  <1>3. ASSUME NEW p \in Requests, Buffer(p) PROVE OutcomeOK'
    BY <1>3 DEF Buffer, TypeOK, OutcomeOK
  <1>4. ASSUME NEW p \in Requests, ReleaseSlot(p) PROVE OutcomeOK'
    BY <1>4 DEF ReleaseSlot, TypeOK, OutcomeOK
  <1>5. ASSUME NEW p \in Requests, Notify(p) PROVE OutcomeOK'
    BY <1>5 DEF Notify, TypeOK, OutcomeOK
  <1>6. ASSUME NEW p \in Requests, Answers(p) PROVE OutcomeOK'
    BY <1>6 DEF Answers, OutcomeOK
  <1>7. ASSUME ForwardNotice PROVE OutcomeOK'
    BY <1>7 DEF ForwardNotice, OutcomeOK, requestVars
  <1>8. ASSUME MapClears PROVE OutcomeOK'
    BY <1>8 DEF MapClears, OutcomeOK
  <1>9. ASSUME ConnectionMoves PROVE OutcomeOK'
    BY <1>9 DEF ConnectionMoves, OutcomeOK, requestVars
  <1>. QED
    BY <1>1, <1>2, <1>3, <1>4, <1>5, <1>6, <1>7, <1>8, <1>9, StepCases

LEMMA SeenOKStep == IInv /\ [Next]_vars => SeenOK'
  <1> SUFFICES ASSUME IInv, [Next]_vars,
                      TypeOK, IdsOK, SlotsOK, ConnOK, NoticeOK, SeenOK
               PROVE  SeenOK'
    BY DEF IInv
  <1> USE RequestAssumption, BoundAssumption
  <1>1. ASSUME NEW p \in Requests, Start(p) PROVE SeenOK'
    <2>1. ASSUME NEW r \in Requests PROVE SeenOf(r)'
      BY <1>1 DEF Start, TypeOK, SeenOK, SeenOf, Told, handlerVars, requestVars, connVars
    <2>. QED
      BY <2>1 DEF SeenOK
  <1>2. ASSUME NEW p \in Requests, RequestMoves(p) PROVE SeenOK'
    <2>1. ASSUME NEW r \in Requests PROVE SeenOf(r)'
      BY <1>2 DEF RequestMoves, TypeOK, SeenOK, SeenOf, Told, handlerVars, requestVars, connVars
    <2>. QED
      BY <2>1 DEF SeenOK
  <1>3. ASSUME NEW p \in Requests, Buffer(p) PROVE SeenOK'
    <2> DEFINE m == [kind |-> "request", conn |-> sink[p]]
    <2>1. /\ pc[p] = "sending" /\ pc' = [pc EXCEPT ![p] = "flushing"]
          /\ seen' = [seen EXCEPT ![p] = Append(@, m)]
          /\ UNCHANGED sink
      BY <1>3 DEF Buffer
    <2>2. seen'[p] = <<m>>
      <3>1. seen[p] = <<>>
        BY <2>1 DEF SeenOK, SeenOf
      <3>. QED
        BY <2>1, <3>1 DEF TypeOK
    <2>3. SeenOf(p)'
      <3>1. pc'[p] = "flushing"
        BY <2>1 DEF TypeOK
      <3>2. DOMAIN seen'[p] = 1..1 /\ Len(seen'[p]) = 1 /\ seen'[p][1] = m
        BY <2>2
      <3>. QED
        BY <2>1, <3>1, <3>2 DEF SeenOf
    <2>4. ASSUME NEW r \in Requests, r # p PROVE SeenOf(r)'
      <3>1. pc'[r] = pc[r] /\ seen'[r] = seen[r] /\ sink'[r] = sink[r]
        BY <2>1, <2>4 DEF TypeOK
      <3>2. Told(r)' <=> Told(r)
        BY <3>1 DEF Told
      <3>. QED
        BY <3>1, <3>2 DEF SeenOK, SeenOf
    <2>. QED
      BY <2>3, <2>4 DEF SeenOK
  <1>4. ASSUME NEW p \in Requests, ReleaseSlot(p) PROVE SeenOK'
    <2>1. ASSUME NEW r \in Requests PROVE SeenOf(r)'
      BY <1>4 DEF ReleaseSlot, TypeOK, SeenOK, SeenOf, Told, handlerVars, requestVars, connVars, IdsOK, IdOf
    <2>. QED
      BY <2>1 DEF SeenOK
  <1>5. ASSUME NEW p \in Requests, Notify(p) PROVE SeenOK'
    <2>1. ASSUME NEW r \in Requests PROVE SeenOf(r)'
      BY <1>5 DEF Notify, TypeOK, SeenOK, SeenOf, Told, handlerVars, requestVars, connVars, IdsOK, IdOf
    <2>. QED
      BY <2>1 DEF SeenOK
  <1>6. ASSUME NEW p \in Requests, Answers(p) PROVE SeenOK'
    <2>1. ASSUME NEW r \in Requests PROVE SeenOf(r)'
      BY <1>6 DEF Answers, TypeOK, SeenOK, SeenOf, Told, handlerVars, requestVars, connVars
    <2>. QED
      BY <2>1 DEF SeenOK
  <1>7. ASSUME ForwardNotice PROVE SeenOK'
    <2>0. PICK h \in Requests : h = Head(notices) /\ Queued(h)
      <3>1. notices \in Seq(Requests) /\ notices # <<>>
        BY <1>7 DEF ForwardNotice, TypeOK, ConnOK
      <3>. QED
        BY <3>1, TailElements DEF Queued
    <2> DEFINE s == seen[h]
               m == [kind |-> "cancelled", conn |-> conn]
    <2>1. /\ seen' = [seen EXCEPT ![h] = Append(@, m)]
          /\ UNCHANGED <<pc, sink>>
      BY <1>7, <2>0 DEF ForwardNotice, requestVars
    <2>3. pc[h] = "done" /\ sink[h] = conn /\ ~Told(h)
      BY <2>0 DEF NoticeOK, NoticeOf
    <2>4. SeenOf(h)'
      <3>1. s \in Seq(Message) /\ m \in Message
        BY DEF TypeOK, Message
      <3>2. /\ DOMAIN s = 1..Len(s) /\ Len(s) \in Nat /\ Len(s) <= 1
            /\ \A k \in 1..Len(s) : s[k].conn = sink[h] /\ s[k].kind # "cancelled"
        BY <2>3, <3>1, AppendElements DEF SeenOK, SeenOf, Told
      <3>3. \A k \in 1..Len(s) : s[k].kind = "request"
        <4>1. ASSUME NEW k \in 1..Len(s) PROVE s[k] \in Message
          BY <3>1, <3>2
        <4>2. ASSUME NEW e \in Message PROVE e.kind \in {"request", "cancelled"}
          BY DEF Message
        <4>. QED
          BY <3>2, <4>1, <4>2
      <3>4. seen'[h] = Append(s, m)
        BY <2>1 DEF TypeOK
      <3>5. /\ DOMAIN seen'[h] = 1..(Len(s) + 1)
            /\ \A k \in 1..Len(s) : seen'[h][k] = s[k]
            /\ seen'[h][Len(s) + 1] = m
        BY <3>1, <3>4, AppendElements
      <3>6. Told(h)'
        BY <3>2, <3>5 DEF Told
      <3>7. \A k \in DOMAIN seen'[h] : seen'[h][k].conn = sink[h]
        BY <2>3, <3>2, <3>5
      <3>8. \A j, k \in DOMAIN seen'[h] :
              j < k => seen'[h][j].kind = "request" /\ seen'[h][k].kind = "cancelled"
        BY <3>2, <3>3, <3>5
      <3>. QED
        BY <2>1, <2>3, <3>6, <3>7, <3>8 DEF SeenOf
    <2>5. ASSUME NEW r \in Requests, r # h PROVE SeenOf(r)'
      <3>1. pc'[r] = pc[r] /\ seen'[r] = seen[r] /\ sink'[r] = sink[r]
        BY <2>1, <2>5 DEF TypeOK
      <3>2. Told(r)' <=> Told(r)
        BY <3>1 DEF Told
      <3>. QED
        BY <3>1, <3>2 DEF SeenOK, SeenOf
    <2>. QED
      BY <2>4, <2>5 DEF SeenOK
  <1>8. ASSUME MapClears PROVE SeenOK'
    <2>1. ASSUME NEW r \in Requests PROVE SeenOf(r)'
      BY <1>8 DEF MapClears, TypeOK, SeenOK, SeenOf, Told, handlerVars, requestVars, connVars
    <2>. QED
      BY <2>1 DEF SeenOK
  <1>9. ASSUME ConnectionMoves PROVE SeenOK'
    <2>1. ASSUME NEW r \in Requests PROVE SeenOf(r)'
      BY <1>9 DEF ConnectionMoves, TypeOK, SeenOK, SeenOf, Told, handlerVars, requestVars, connVars
    <2>. QED
      BY <2>1 DEF SeenOK
  <1>. QED
    BY <1>1, <1>2, <1>3, <1>4, <1>5, <1>6, <1>7, <1>8, <1>9, StepCases

\* The invariant holds initially.
LEMMA InitIInv == Init => IInv
  <1> SUFFICES ASSUME Init PROVE IInv
    OBVIOUS
  <1> USE RequestAssumption, BoundAssumption
  <1>1. TypeOK
    <2>1. <<>> \in Seq(Requests) /\ <<>> \in Seq(Message)
      BY EmptyType
    <2>2. 0 \in Conns /\ 0 \in 0..MaxId /\ "none" \in Outcomes /\ 1 \in 1..(MaxId + 1)
      BY DEF Conns, Outcomes
    <2>3. seen \in [Requests -> Seq(Message)]
      BY <2>1 DEF Init
    <2>4. slots \in [Ids -> Requests \cup {Nobody}] /\ id \in [Requests -> 0..MaxId]
      BY <2>2 DEF Init
    <2>5. cancel \in [Requests -> Conns] /\ sink \in [Requests -> Conns]
      BY <2>2 DEF Init
    <2>6. /\ chan \in [Requests -> Requests \cup {"none", "open", "closed"}]
          /\ outcome \in [Requests -> Outcomes]
      BY <2>2 DEF Init
    <2>7. pc \in [Requests -> {"idle", "started", "sending", "flushing", "waiting",
                              "drop", "notify", "done"}]
      BY DEF Init
    <2>. QED
      BY <2>1, <2>2, <2>3, <2>4, <2>5, <2>6, <2>7 DEF Init, TypeOK
  <1>2. IdsOK
    BY DEF Init, IdsOK, IdOf
  <1>3. SlotsOK
    BY DEF Init, SlotsOK, SlotOf, ChanOf
  <1>4. ConnOK
    BY DEF Init, ConnOK, ConnOf, InSend
  <1>5. NoticeOK
    BY DEF Init, NoticeOK, NoticeOf, Queued, Told
  <1>7. OutcomeOK
    BY DEF Init, OutcomeOK
  <1>6. SeenOK
    <2>1. ASSUME NEW r \in Requests PROVE SeenOf(r)
      <3>1. seen[r] = <<>>
        BY DEF Init
      <3>2. DOMAIN seen[r] = {} /\ Len(seen[r]) = 0
        BY <3>1, EmptyElements
      <3>. QED
        BY <3>1, <3>2 DEF SeenOf
    <2>. QED
      BY <2>1 DEF SeenOK
  <1>. QED
    BY <1>1, <1>2, <1>3, <1>4, <1>5, <1>6, <1>7 DEF IInv

\* The strengthening is an invariant of the handler.
THEOREM Invariance == Spec => []IInv
  <1>1. IInv /\ [Next]_vars => IInv'
    BY TypeOKStep, IdsOKStep, SlotsOKStep, ConnOKStep, NoticeOKStep, OutcomeOKStep, SeenOKStep DEF IInv
  <1>. QED
    BY <1>1, InitIInv, PTL DEF Spec

\* Every variable keeps its type.
THEOREM TypeCorrect == Spec => []TypeOK
  BY Invariance, PTL DEF IInv

\* No sequence of timeouts, drops, answers, shutdowns and reconnections leaks
\* an entry of pending_requests.
THEOREM NoLeaks == Spec => []NoSlotLeaks
  <1>1. IInv => NoSlotLeaks
    BY DEF IInv, SlotsOK, SlotOf, ChanOf, TypeOK, NoSlotLeaks
  <1>. QED
    BY <1>1, Invariance, PTL

\* A caller that waits on an open oneshot has its sender in the map.
THEOREM NoOrphans == Spec => []NoOrphanedWait
  <1>1. IInv => NoOrphanedWait
    BY DEF IInv, SlotsOK, ChanOf, NoOrphanedWait
  <1>. QED
    BY <1>1, Invariance, PTL

\* An answer completes no request but the one it was made for.
THEOREM Correlation == Spec => []AnswersItsRequest
  <1>1. IInv => AnswersItsRequest
    BY DEF IInv, SlotsOK, ChanOf, AnswersItsRequest
  <1>. QED
    BY <1>1, Invariance, PTL

\* Only a request that was given up before any answer reached it is cancelled.
THEOREM NoticesAreForAbandoned == Spec => []NoticeOnlyForAbandoned
  <1>1. IInv => NoticeOnlyForAbandoned
    BY DEF IInv, NoticeOK, NoticeOf, NoticeOnlyForAbandoned
  <1>. QED
    BY <1>1, Invariance, PTL

\* A request and its notice go to one connection, once each and in this order.
THEOREM NoticesFollow == Spec => []NoticeFollowsRequest
  <1>1. IInv => NoticeFollowsRequest
    <2> SUFFICES ASSUME IInv, NEW r \in Requests,
                        NEW j \in DOMAIN seen[r], NEW k \in DOMAIN seen[r]
                 PROVE  /\ seen[r][j].conn = seen[r][k].conn
                        /\ j < k => seen[r][j].kind = "request" /\ seen[r][k].kind = "cancelled"
      BY DEF NoticeFollowsRequest
    <2>. QED
      BY DEF IInv, SeenOK, SeenOf
  <1>. QED
    BY <1>1, Invariance, PTL

-----------------------------------------------------------------------------
(* The handler implements RequestLifecycle.                                *)

\* A step that changes no oneshot, no outcome and tells no one is a stutter.
LEMMA LifecycleStutters ==
  ASSUME \A r \in Requests : StatusOf(r)' = StatusOf(r),
         \A r \in Requests : ResultOf(r)' = ResultOf(r),
         \A r \in Requests : Told(r)' <=> Told(r)
  PROVE  UNCHANGED Lifecycle!vars
  BY DEF Lifecycle!vars

LEMMA LifecycleStep == IInv /\ [Next]_vars => [Lifecycle!Next]_(Lifecycle!vars)
  <1> SUFFICES ASSUME IInv, [Next]_vars,
                      TypeOK, IdsOK, SlotsOK, ConnOK, NoticeOK, OutcomeOK, SeenOK
               PROVE  [Lifecycle!Next]_(Lifecycle!vars)
    BY DEF IInv
  <1> USE RequestAssumption
  <1> DEFINE L == [Lifecycle!Next]_(Lifecycle!vars)
  <1>1. ASSUME NEW p \in Requests, Start(p) PROVE L
    <2>1. ASSUME NEW r \in Requests
          PROVE  ResultOf(r)' = ResultOf(r) /\ (Told(r)' <=> Told(r))
      BY <1>1 DEF Start, ResultOf, Told, connVars
    <2>2. chan[p] = "none" /\ chan' = [chan EXCEPT ![p] = "open"]
      BY <1>1 DEF Start, IdsOK, IdOf
    <2>3. ASSUME NEW r \in Requests, r # p PROVE StatusOf(r)' = StatusOf(r)
      BY <2>2, <2>3 DEF StatusOf, TypeOK
    <2>4. StatusOf(p) = "unsent" /\ StatusOf(p)' = "open"
      BY <2>2 DEF StatusOf, TypeOK
    <2>5. Lifecycle!Issue(p)
      BY <2>1, <2>3, <2>4 DEF Lifecycle!Issue
    <2>. QED
      BY <2>5 DEF Lifecycle!Next
  <1>2. ASSUME NEW p \in Requests, RequestMoves(p) PROVE L
    <2>1. ASSUME NEW r \in Requests
          PROVE  StatusOf(r)' = StatusOf(r) /\ (Told(r)' <=> Told(r))
      BY <1>2 DEF RequestMoves, StatusOf, Told
    <2>2. ASSUME NEW r \in Requests, r # p PROVE ResultOf(r)' = ResultOf(r)
      BY <1>2, <2>2 DEF RequestMoves, ResultOf
    <2>3. CASE outcome'[p] = outcome[p]
      BY <2>1, <2>2, <2>3, LifecycleStutters DEF ResultOf
    <2>4. CASE outcome'[p] # outcome[p]
      <3> DEFINE v == ResultOf(p)'
      <3>1. outcome[p] = "none" /\ outcome'[p] # "none" /\ pc[p] # "idle"
        BY <1>2, <2>4 DEF RequestMoves, OutcomeOK
      <3>2. v \in {"response", "error", "given_up"} /\ (v = "response" => outcome'[p] = "response")
        BY <3>1 DEF ResultOf, GivenUp
      <3>3. StatusOf(p) # "unsent" /\ ResultOf(p) = "none"
        <4>1. chan[p] # "none"
          BY <3>1 DEF IdsOK, IdOf
        <4>. QED
          BY <3>1, <4>1 DEF StatusOf, ResultOf, GivenUp
      <3>4. v = "response" => StatusOf(p) = "answered"
        BY <1>2, <2>4, <3>1, <3>2 DEF RequestMoves, StatusOf, IdsOK, IdOf
      <3>5. Lifecycle!Return(p, v)
        BY <2>1, <2>2, <3>3, <3>4 DEF Lifecycle!Return
      <3>. QED
        BY <3>2, <3>5 DEF Lifecycle!Next
    <2>. QED
      BY <2>3, <2>4
  <1>3. ASSUME NEW p \in Requests, Buffer(p) PROVE L
    <2>1. ASSUME NEW r \in Requests
          PROVE  StatusOf(r)' = StatusOf(r) /\ ResultOf(r)' = ResultOf(r)
      BY <1>3 DEF Buffer, StatusOf, ResultOf
    <2>2. ASSUME NEW r \in Requests PROVE Told(r)' <=> Told(r)
      BY <1>3 DEF Told, Buffer, TypeOK, SeenOK, SeenOf, Message
    <2>. QED
      BY <2>1, <2>2, LifecycleStutters
  <1>4. ASSUME NEW p \in Requests, ReleaseSlot(p) PROVE L
    <2>1. ASSUME NEW r \in Requests
          PROVE  ResultOf(r)' = ResultOf(r) /\ (Told(r)' <=> Told(r))
      BY <1>4 DEF ReleaseSlot, ResultOf, Told, connVars
    <2>2. ASSUME NEW r \in Requests, r # p PROVE StatusOf(r)' = StatusOf(r)
      BY <1>4, <2>2 DEF ReleaseSlot, StatusOf, TypeOK
    <2>3. CASE slots[id[p]] = p
      <3>1. chan[p] = "open" /\ chan'[p] = "closed"
        BY <1>4, <2>3 DEF ReleaseSlot, TypeOK, SlotsOK, SlotOf, IdsOK, IdOf, Ids
      <3>2. Lifecycle!Close({p})
        BY <2>1, <2>2, <3>1 DEF Lifecycle!Close, StatusOf
      <3>. QED
        BY <3>2 DEF Lifecycle!Next
    <2>4. CASE slots[id[p]] # p
      <3>1. chan'[p] = chan[p]
        BY <1>4, <2>4 DEF ReleaseSlot, TypeOK
      <3>. QED
        BY <2>1, <2>2, <3>1, LifecycleStutters DEF StatusOf
    <2>. QED
      BY <2>3, <2>4
  <1>5. ASSUME NEW p \in Requests, Notify(p) PROVE L
    <2>1. ASSUME NEW r \in Requests
          PROVE  StatusOf(r)' = StatusOf(r) /\ ResultOf(r)' = ResultOf(r) /\ (Told(r)' <=> Told(r))
      BY <1>5 DEF Notify, StatusOf, ResultOf, Told
    <2>. QED
      BY <2>1, LifecycleStutters
  <1>6. ASSUME NEW p \in Requests, Answers(p) PROVE L
    <2>1. ASSUME NEW r \in Requests
          PROVE  ResultOf(r)' = ResultOf(r) /\ (Told(r)' <=> Told(r))
      BY <1>6 DEF Answers, ResultOf, Told, connVars
    <2>2. CASE UNCHANGED <<slots, chan>>
      BY <2>1, <2>2, LifecycleStutters DEF StatusOf
    <2>3. CASE /\ slots[id[p]] = p
               /\ chan' = [chan EXCEPT ![p] = p]
      <3>1. chan[p] = "open" /\ chan'[p] = p
        BY <1>6, <2>3 DEF Answers, TypeOK, SlotsOK, SlotOf
      <3>2. ASSUME NEW r \in Requests, r # p PROVE StatusOf(r)' = StatusOf(r)
        BY <2>3, <3>2 DEF StatusOf, TypeOK
      <3>3. StatusOf(p) = "open" /\ StatusOf(p)' = "answered"
        BY <3>1 DEF StatusOf
      <3>4. Lifecycle!Answer(p)
        BY <2>1, <3>2, <3>3 DEF Lifecycle!Answer
      <3>. QED
        BY <3>4 DEF Lifecycle!Next
    <2>. QED
      BY <1>6, <2>2, <2>3 DEF Answers
  <1>7. ASSUME ForwardNotice PROVE L
    <2>1. PICK h \in Requests : h = Head(notices) /\ Queued(h)
      <3>1. notices \in Seq(Requests) /\ notices # <<>>
        BY <1>7 DEF ForwardNotice, TypeOK, ConnOK
      <3>. QED
        BY <3>1, TailElements DEF Queued
    <2>2. ASSUME NEW r \in Requests
          PROVE  StatusOf(r)' = StatusOf(r) /\ ResultOf(r)' = ResultOf(r)
      BY <1>7 DEF ForwardNotice, requestVars, StatusOf, ResultOf
    <2>3. ASSUME NEW r \in Requests, r # h PROVE Told(r)' <=> Told(r)
      <3>1. seen'[r] = seen[r]
        BY <1>7, <2>1, <2>3 DEF ForwardNotice, TypeOK
      <3>. QED
        BY <3>1 DEF Told
    <2>4. Told(h)'
      <3> DEFINE m == [kind |-> "cancelled", conn |-> conn]
      <3>1. seen[h] \in Seq(Message) /\ m \in Message
        BY DEF TypeOK, Message
      <3>2. seen'[h] = Append(seen[h], m)
        BY <1>7, <2>1 DEF ForwardNotice, TypeOK
      <3>3. /\ DOMAIN seen'[h] = 1..(Len(seen[h]) + 1) /\ Len(seen[h]) \in Nat
            /\ seen'[h][Len(seen[h]) + 1] = m
        BY <3>1, <3>2, AppendElements
      <3>. QED
        BY <3>3 DEF Told
    <2>5. ~Told(h) /\ StatusOf(h) = "closed" /\ ResultOf(h) = "given_up"
      BY <2>1 DEF NoticeOK, NoticeOf, StatusOf, ResultOf, GivenUp
    <2>6. Lifecycle!Tell(h)
      BY <2>2, <2>3, <2>4, <2>5 DEF Lifecycle!Tell
    <2>. QED
      BY <2>6 DEF Lifecycle!Next
  <1>8. ASSUME MapClears PROVE L
    <2> DEFINE S == {r \in Requests : chan[r] = "open"}
    <2>1. ASSUME NEW r \in Requests
          PROVE  ResultOf(r)' = ResultOf(r) /\ (Told(r)' <=> Told(r))
      BY <1>8 DEF MapClears, ResultOf, Told
    <2>2. ASSUME NEW r \in Requests
          PROVE  StatusOf(r)' = IF r \in S THEN "closed" ELSE StatusOf(r)
      BY <1>8 DEF MapClears, StatusOf
    <2>3. \A r \in S : StatusOf(r) = "open"
      BY DEF StatusOf
    <2>4. Lifecycle!Close(S)
      BY <2>1, <2>2, <2>3 DEF Lifecycle!Close
    <2>. QED
      BY <2>4 DEF Lifecycle!Next
  <1>9. ASSUME ConnectionMoves PROVE L
    <2>1. ASSUME NEW r \in Requests
          PROVE  StatusOf(r)' = StatusOf(r) /\ ResultOf(r)' = ResultOf(r) /\ (Told(r)' <=> Told(r))
      BY <1>9 DEF ConnectionMoves, requestVars, StatusOf, ResultOf, Told
    <2>. QED
      BY <2>1, LifecycleStutters
  <1>. QED
    BY <1>1, <1>2, <1>3, <1>4, <1>5, <1>6, <1>7, <1>8, <1>9, StepCases

\* Whatever interleaving of answers, shutdowns, timeouts, drops and
\* reconnections happens, a request is settled once, its caller gets one
\* result and the other side is told at most once, and only when it should be.
THEOREM Implementation == Spec => ImplementsLifecycle
  <1>1. Init => Lifecycle!Init
    <2>1. ASSUME Init, NEW r \in Requests
          PROVE  StatusOf(r) = "unsent" /\ ResultOf(r) = "none" /\ ~Told(r)
      <3>1. chan[r] = "none" /\ outcome[r] = "none" /\ seen[r] = <<>>
        BY <2>1 DEF Init
      <3>. QED
        BY <3>1, EmptyElements DEF StatusOf, ResultOf, GivenUp, Told
    <2>. QED
      BY <2>1 DEF Lifecycle!Init
  <1>. QED
    BY <1>1, LifecycleStep, Invariance, PTL DEF Spec, ImplementsLifecycle, Lifecycle!Spec

-----------------------------------------------------------------------------
(* What is owed to the other side: the safety of AbandonedIsTold.          *)

\* The connection works: its loop runs and nobody shuts the handler down.
Alive == loop \in {"running", "forwarding"} /\ ~shuttingDown

\* While a connection works a request on it keeps its notice queue, and a
\* oneshot that is open or answered until it drops.  Once it is done and was
\* given up before an answer, its notice is queued or written.
OwedOf(r) ==
  /\ InSend(r) \/ (pc[r] = "waiting" /\ sink[r] = conn) =>
       cancel[r] = conn /\ chan[r] # "closed"
  /\ pc[r] = "drop" /\ sink[r] = conn /\ outcome[r] \in GivenUp =>
       cancel[r] = conn /\ chan[r] # "closed"
  /\ pc[r] = "notify" /\ sink[r] = conn => cancel[r] = conn
  /\ pc[r] = "done" /\ sink[r] = conn /\ outcome[r] \in GivenUp /\ chan[r] = "closed" =>
       Queued(r) \/ Told(r)

NoticesOwed ==
  /\ owner \in {"flagged", "detached", "stopping"} => shuttingDown
  /\ \A r \in Requests : sink[r] <= conn
  /\ Alive => /\ conn # 0 /\ transport = conn /\ cancellations = conn
              /\ \A r \in Requests : OwedOf(r)

\* A request that was given up on a working connection before its answer has
\* its notice queued or written.
GivenUpIsTold ==
  Alive =>
    \A r \in Requests :
      pc[r] = "done" /\ sink[r] = conn /\ outcome[r] \in GivenUp /\ chan[r] = "closed" =>
        Queued(r) \/ Told(r)

\* A connection begins to work only with Connect.
LEMMA AliveSteps ==
  ASSUME TypeOK, NoticesOwed, Next
  PROVE  /\ owner' \in {"flagged", "detached", "stopping"} => shuttingDown'
         /\ \/ Connect \/ ~Alive'
            \/ Alive /\ UNCHANGED <<conn, transport, cancellations>>
<1> USE DEF Alive, NoticesOwed, handlerVars, requestVars, connVars
<1>1. CASE \E r \in Requests : RequestStep(r)
  BY <1>1 DEF RequestStep, Start, Refused, CloneTransport, Buffer, Flushed, SendFails, Expire,
     Abandon, Receive, ReleaseSlot, Notify
<1>2. CASE LoopStep
  BY <1>2 DEF LoopStep, Dispatch, TakeNotice, ForwardNotice, LoopBreaks, LoopDetaches,
     LoopClears, Detach, ClearSlots
<1>3. CASE OwnerStep
  BY <1>3 DEF OwnerStep, Connect, DisconnectFlags, DisconnectDetaches, DisconnectClears,
     DisconnectStops, DropClient, AbortLoop, Detach, ClearSlots
<1> QED BY <1>1, <1>2, <1>3 DEF Next

\* What the steps of p, the loop and the owner leave of another request.
Untouched(r) ==
  /\ pc'[r] = pc[r] /\ sink'[r] = sink[r] /\ outcome'[r] = outcome[r]
  /\ cancel'[r] = cancel[r] /\ chan'[r] = chan[r]

LEMMA NoticesKept ==
  ASSUME TypeOK, ConnOK, NEW r \in Requests, Queued(r) \/ Told(r), Next, Alive', Alive,
         ~Connect
  PROVE  (Queued(r) \/ Told(r))'
<1> USE DEF handlerVars, requestVars, connVars
<1>1. CASE \E p \in Requests : Buffer(p)
  <2>1. PICK p \in Requests : Buffer(p)
    BY <1>1
  <2>2. UNCHANGED notices /\ seen[p] \in Seq(Message)
    BY <2>1 DEF Buffer, TypeOK
  <2>3. CASE p = r /\ Told(r)
    <3>1. seen'[r] = Append(seen[r], [kind |-> "request", conn |-> sink[r]])
      BY <2>1, <2>3 DEF Buffer, TypeOK
    <3> QED BY <2>2, <2>3, <3>1 DEF Told
  <2>4. CASE p # r \/ Queued(r)
    BY <2>1, <2>2, <2>4 DEF Buffer, TypeOK, Queued, Told
  <2> QED BY <2>3, <2>4
<1>2. CASE \E p \in Requests : Notify(p)
  <2>1. PICK p \in Requests : Notify(p)
    BY <1>2
  <2>2. UNCHANGED seen /\ notices' \in {notices, Append(notices, p)} /\ notices \in Seq(Requests)
    BY <2>1 DEF Notify, TypeOK
  <2> QED BY <2>2 DEF Queued, Told
<1>3. CASE ForwardNotice
  <2> DEFINE h == Head(notices)
  <2>1. notices # <<>> /\ notices \in Seq(Requests)
    BY <1>3 DEF ForwardNotice, ConnOK, TypeOK
  <2>2. /\ h \in Requests /\ h = notices[1]
        /\ \A k \in DOMAIN notices : k = 1 \/ k - 1 \in DOMAIN Tail(notices)
        /\ \A k \in DOMAIN Tail(notices) : Tail(notices)[k] = notices[k + 1]
    BY <2>1
  <2>3. /\ notices' = Tail(notices)
        /\ seen' = [seen EXCEPT ![h] = Append(@, [kind |-> "cancelled", conn |-> conn])]
    BY <1>3 DEF ForwardNotice
  <2>4. CASE h = r
    <3>1. seen'[r] = Append(seen[r], [kind |-> "cancelled", conn |-> conn])
      BY <2>3, <2>4 DEF TypeOK
    <3>2. seen[r] \in Seq(Message)
      BY DEF TypeOK
    <3>3. Len(seen[r]) + 1 \in DOMAIN seen'[r] /\ seen'[r][Len(seen[r]) + 1].kind = "cancelled"
      BY <3>1, <3>2
    <3> QED BY <3>3 DEF Told
  <2>5. CASE h # r
    <3>1. seen'[r] = seen[r]
      BY <2>2, <2>3, <2>5 DEF TypeOK
    <3>2. ASSUME Queued(r) PROVE Queued(r)'
      <4>1. PICK k \in DOMAIN notices : notices[k] = r
        BY <3>2 DEF Queued
      <4>2. k \in Nat /\ k # 1
        BY <2>1, <2>2, <2>5, <4>1
      <4>3. k - 1 \in DOMAIN Tail(notices) /\ Tail(notices)[k - 1] = r
        BY <2>2, <4>1, <4>2
      <4> QED BY <2>3, <4>3 DEF Queued
    <3> QED BY <3>1, <3>2 DEF Told
  <2> QED BY <2>4, <2>5
<1>4. CASE UNCHANGED <<notices, seen>>
  BY <1>4 DEF Queued, Told
<1>5. \/ \E p \in Requests : Buffer(p) \/ Notify(p)
      \/ ForwardNotice \/ UNCHANGED <<notices, seen>>
  <2>1. ASSUME NEW p \in Requests, RequestStep(p), ~Buffer(p), ~Notify(p)
        PROVE  UNCHANGED <<notices, seen>>
    BY <2>1 DEF RequestStep, Start, Refused, CloneTransport, Flushed, SendFails, Expire,
       Abandon, Receive, ReleaseSlot
  <2>2. ASSUME LoopStep, ~ForwardNotice PROVE UNCHANGED <<notices, seen>>
    BY <2>2 DEF LoopStep, Dispatch, TakeNotice, LoopBreaks, LoopDetaches, LoopClears, Alive
  <2>3. ASSUME OwnerStep PROVE UNCHANGED <<notices, seen>>
    BY <2>3 DEF OwnerStep, DisconnectFlags, DisconnectDetaches, DisconnectClears,
       DisconnectStops, DropClient, AbortLoop, Alive
  <2> QED BY <2>1, <2>2, <2>3 DEF Next
<1> QED BY <1>1, <1>2, <1>3, <1>4, <1>5

LEMMA OwedStep ==
  ASSUME IInv, NoticesOwed, Next, Alive, Alive', ~Connect,
         UNCHANGED <<conn, transport, cancellations>>, NEW r \in Requests
  PROVE  OwedOf(r)'
<1> USE DEF IInv, handlerVars, requestVars, connVars
<1>a. Queued(r) \/ Told(r) => (Queued(r) \/ Told(r))'
  BY NoticesKept
<1>b. OwedOf(r) /\ conn # 0 /\ transport = conn /\ cancellations = conn
  BY DEF NoticesOwed
<1>0. CASE Untouched(r)
  BY <1>0, <1>a, <1>b DEF OwedOf, Untouched, InSend
<1>1. CASE \E p \in Requests \ {r} : RequestStep(p)
  <2>1. Untouched(r)
    BY <1>1 DEF RequestStep, Start, Refused, CloneTransport, Buffer, Flushed, SendFails, Expire,
       Abandon, Receive, ReleaseSlot, Notify, Finish, Untouched, TypeOK
  <2> QED BY <1>0, <2>1
<1>2. CASE RequestStep(r)
  <2> USE DEF OwedOf, InSend, TypeOK
  <2>1. CASE Start(r)
    BY <1>b, <2>1 DEF Start
  <2>2. CASE Refused(r) \/ SendFails(r) \/ Receive(r)
    <3>1. outcome \in [Requests -> Outcomes] /\ pc'[r] = "drop"
      BY <2>2 DEF Refused, SendFails, Receive, Finish
    <3>2. outcome'[r] \notin GivenUp
      BY <2>2, <3>1 DEF Refused, SendFails, Receive, Finish, GivenUp
    <3> QED BY <3>1, <3>2
  <2>3. CASE CloneTransport(r) \/ Buffer(r) \/ Flushed(r)
    <3>1. InSend(r) /\ (InSend(r)' \/ pc'[r] = "waiting")
      BY <2>3 DEF CloneTransport, Buffer, Flushed
    <3>2. UNCHANGED <<cancel, chan>>
      BY <2>3 DEF CloneTransport, Buffer, Flushed
    <3> QED BY <1>b, <3>1, <3>2
  <2>4. CASE Expire(r) \/ Abandon(r)
    <3>1. pc[r] \in {"sending", "flushing", "waiting"} /\ pc'[r] = "drop"
      BY <2>4 DEF Expire, Abandon, Finish
    <3>2. UNCHANGED <<cancel, sink, chan>>
      BY <2>4 DEF Expire, Abandon
    <3> QED BY <1>b, <3>1, <3>2
  <2>5. CASE ReleaseSlot(r)
    <3>1. /\ pc[r] = "drop" /\ pc'[r] \in {"notify", "done"}
          /\ UNCHANGED <<cancel, sink, outcome>>
      BY <2>5 DEF ReleaseSlot
    <3>2. chan[r] = "open" /\ cancel[r] # 0 => pc'[r] = "notify"
      BY <2>5, RequestAssumption DEF ReleaseSlot, SlotsOK, ChanOf
    <3>3. chan[r] \in Requests => chan'[r] = chan[r]
      <4>1. id[r] \in Ids
        BY <3>1, <2>5 DEF IdsOK, IdOf, Ids
      <4>2. slots[id[r]] = r => chan[r] = "open"
        BY <4>1, RequestAssumption DEF SlotsOK, SlotOf
      <4>3. slots[id[r]] # r => chan'[r] = chan[r]
        BY <2>5 DEF ReleaseSlot
      <4> QED BY <4>2, <4>3, RequestAssumption
    <3>4. pc[r] # "idle" => chan[r] # "none"
      BY DEF IdsOK, IdOf
    <3>5. chan[r] = "open" \/ chan[r] \in Requests \/ chan[r] = "closed"
      BY <3>1, <3>4
    <3>6. pc'[r] = "notify" => outcome[r] \in GivenUp
      BY <2>5 DEF ReleaseSlot, NoticeOK, NoticeOf
    <3>7. sink[r] = conn /\ outcome[r] \in GivenUp =>
            cancel[r] = conn /\ (pc'[r] = "notify" \/ chan'[r] # "closed")
      BY <1>b, <3>1, <3>2, <3>3, <3>5, RequestAssumption
    <3> QED BY <3>1, <3>6, <3>7
  <2>6. CASE Notify(r)
    <3>1. pc[r] = "notify" /\ pc'[r] = "done" /\ sink' = sink
      BY <2>6 DEF Notify
    <3>2. sink[r] = conn => notices' = Append(notices, r)
      BY <1>b, <2>6, <3>1 DEF Notify, Alive
    <3>3. Len(notices) + 1 \in DOMAIN Append(notices, r) /\ Append(notices, r)[Len(notices) + 1] = r
      <4>1. notices \in Seq(Requests)
        OBVIOUS
      <4> QED BY <4>1, AppendElements
    <3>4. sink[r] = conn => Queued(r)'
      BY <3>2, <3>3 DEF Queued
    <3> QED BY <1>b, <3>1, <3>4
  <2> QED BY <1>2, <2>1, <2>2, <2>3, <2>4, <2>5, <2>6 DEF RequestStep
<1>3. CASE LoopStep
  <2>1. CASE \E q \in Requests : Dispatch(q)
    <3>1. PICK q \in Requests : Answers(q)
      BY <2>1, AnswersOK
    <3>2. chan'[r] = chan[r] \/ chan'[r] \in Requests
      BY <3>1 DEF Answers, TypeOK
    <3>3. UNCHANGED <<pc, sink, outcome, cancel>>
      BY <3>1 DEF Answers
    <3>4. chan'[r] = "closed" => chan[r] = "closed"
      BY <3>2, RequestAssumption
    <3> QED BY <1>a, <1>b, <3>3, <3>4 DEF OwedOf, InSend
  <2>2. CASE ~\E q \in Requests : Dispatch(q)
    <3>1. Untouched(r)
      BY <1>3, <2>2 DEF LoopStep, TakeNotice, ForwardNotice, LoopBreaks, LoopDetaches,
         LoopClears, Detach, Alive, Untouched
    <3> QED BY <1>0, <3>1
  <2> QED BY <2>1, <2>2
<1>4. CASE OwnerStep
  <2>1. Untouched(r)
    BY <1>4 DEF OwnerStep, DisconnectFlags, DisconnectDetaches, DisconnectClears, NoticesOwed,
       DisconnectStops, DropClient, AbortLoop, Detach, Alive, Untouched
  <2> QED BY <1>0, <2>1
<1> QED BY <1>1, <1>2, <1>3, <1>4 DEF Next

\* No step but a new connection moves a request ahead.
LEMMA SinksStep ==
  ASSUME IInv, NoticesOwed, Next, NEW r \in Requests
  PROVE  sink'[r] <= conn' /\ (Connect => sink'[r] # conn')
<1>1. sink[r] \in Nat /\ conn \in Nat /\ sink[r] <= conn /\ transport \in {0, conn}
  BY DEF IInv, TypeOK, NoticesOwed, Conns, ConnOK
<1>2. \/ sink'[r] \in {sink[r], transport} /\ conn' = conn
      \/ sink'[r] = sink[r] /\ Connect
  <2> USE DEF handlerVars, requestVars, connVars
  <2>1. CASE \E p \in Requests : RequestStep(p)
    <3>1. PICK p \in Requests : RequestStep(p)
      BY <2>1
    <3>2. sink \in [Requests -> Conns]
      BY DEF IInv, TypeOK
    <3>3. conn' = conn /\ (sink' = sink \/ sink' = [sink EXCEPT ![p] = transport])
      BY <3>1 DEF RequestStep, Start, Refused, CloneTransport, Buffer, Flushed, SendFails,
         Expire, Abandon, Receive, ReleaseSlot, Notify
    <3> QED BY <3>2, <3>3
  <2>2. CASE LoopStep
    <3>1. UNCHANGED <<sink, conn>>
      BY <2>2 DEF LoopStep, Dispatch, TakeNotice, ForwardNotice, LoopBreaks, LoopDetaches,
         LoopClears, Detach, ClearSlots
    <3> QED BY <3>1
  <2>3. CASE OwnerStep
    <3>1. UNCHANGED sink /\ (Connect \/ UNCHANGED conn)
      BY <2>3 DEF OwnerStep, Connect, DisconnectFlags, DisconnectDetaches, DisconnectClears,
         DisconnectStops, DropClient, AbortLoop, Detach, ClearSlots
    <3> QED BY <3>1
  <2> QED BY <2>1, <2>2, <2>3 DEF Next
<1>3. Connect => conn' = conn + 1 /\ sink'[r] = sink[r]
  BY DEF Connect, requestVars
<1> QED BY <1>1, <1>2, <1>3

LEMMA NoticesOwedStep == IInv /\ NoticesOwed /\ [Next]_vars => NoticesOwed'
<1>1. CASE UNCHANGED vars
  BY <1>1 DEF NoticesOwed, OwedOf, Alive, InSend, Queued, Told, vars, handlerVars, requestVars,
     connVars
<1>2. ASSUME IInv, NoticesOwed, Next PROVE NoticesOwed'
  <2>1. owner' \in {"flagged", "detached", "stopping"} => shuttingDown'
    BY <1>2, AliveSteps DEF IInv
  <2>2. \A r \in Requests : sink'[r] <= conn'
    BY <1>2, SinksStep
  <2>3. CASE Connect
    <3>1. conn' # 0 /\ transport' = conn' /\ cancellations' = conn'
      BY <1>2, <2>3 DEF Connect, IInv, TypeOK, Conns
    <3>2. ASSUME NEW r \in Requests PROVE OwedOf(r)'
      <4>1. sink'[r] # conn'
        BY <1>2, <2>3, SinksStep
      <4>2. ~InSend(r)'
        BY <2>3 DEF Connect, NoBorrow, InSend, requestVars
      <4> QED BY <4>1, <4>2 DEF OwedOf
    <3> QED BY <2>1, <2>2, <3>1, <3>2 DEF NoticesOwed
  <2>4. CASE ~Alive'
    BY <2>1, <2>2, <2>4 DEF NoticesOwed
  <2>5. CASE ~Connect /\ Alive'
    <3>1. Alive /\ UNCHANGED <<conn, transport, cancellations>>
      BY <1>2, <2>5, AliveSteps DEF IInv
    <3>2. \A r \in Requests : OwedOf(r)'
      BY <1>2, <2>5, <3>1, OwedStep
    <3> QED BY <1>2, <2>1, <2>2, <3>1, <3>2 DEF NoticesOwed
  <2> QED BY <2>3, <2>4, <2>5
<1> QED BY <1>1, <1>2

\* A request that was given up on a working connection before its answer came
\* has its notice queued or written when it is done.  With the fairness of the
\* loop this is why the other side is told (AbandonedIsTold).
THEOREM NoNoticeIsLost == Spec => []GivenUpIsTold
<1>1. Init => NoticesOwed
  BY DEF Init, NoticesOwed, Alive, Conns
<1>2. NoticesOwed => GivenUpIsTold
  BY DEF NoticesOwed, OwedOf, GivenUpIsTold
<1> QED BY <1>1, <1>2, NoticesOwedStep, Invariance, PTL DEF Spec
=============================================================================
