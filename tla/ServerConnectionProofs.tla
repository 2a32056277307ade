----------------------- MODULE ServerConnectionProofs -----------------------
(***************************************************************************)
(* What one connection of a server guarantees for any number of requests   *)
(* and notifications and any capacity of its queues.  The inductive        *)
(* invariant follows every response from its task through the outbound     *)
(* queue and the loop to the wire, so that there is one of it at most and  *)
(* none of a cancelled request.                                            *)
(***************************************************************************)
EXTENDS ServerConnection, FiniteSets, FiniteSetTheorems, TLAPS

Has(s, i) == \E k \in DOMAIN s : s[k] = i
Once(s) == \A j, k \in DOMAIN s : s[j].kind = "response" /\ s[j] = s[k] => j = k

\* in_flight_requests is the number of requests whose handler has not
\* returned; a handler that panics never does.
Unfinished == {r \in Requests : task[r] \in {"running", "finished", "panicked"}}
Counted == IsFiniteSet(Unfinished) /\ count = Cardinality(Unfinished)

\* A cancellation is for a handler that runs, or suppresses its response.
Tracked ==
  \A r \in Requests :
    /\ r \in inFlight <=> task[r] \in {"running", "panicked"}
    /\ r \in cancelled => r \in inFlight \/ r \in suppressed
    /\ r \in suppressed => task[r] \in {"finished", "counted", "done"}

\* A response is in one place at most, and its request is done.
Responded(r) == Has(outQ, Response(r)) \/ item = Response(r) \/ Has(wire, Response(r))

Single ==
  /\ Once(outQ) /\ Once(wire)
  /\ \A r \in Requests :
       /\ Responded(r) => task[r] = "done" /\ r \notin suppressed
       /\ Has(outQ, Response(r)) => item # Response(r) /\ ~Has(wire, Response(r))
       /\ item = Response(r) => ~Has(wire, Response(r))

\* The loop knows of the capability before it says so, and has said so before
\* it lets a gated notification pass.
Announces ==
  capable =>
    \/ Has(wire, Initialized)
    \/ lp \in {"connecting", "closing", "shutdown", "stopped"}
    \/ lp = "writing" /\ item = Initialized

GatedBehind ==
  \A n \in Gated : Has(outQ, Note(n)) \/ item = Note(n) => Has(wire, Initialized)

\* The notice of a question that was given up is in the queue, on its way or
\* written, as long as the loop goes on.
Told ==
  \A r \in abandoned :
    \/ Has(noticeQ, r) \/ (lp = "writing" /\ item = Notice(r)) \/ Has(wire, Notice(r))
    \/ lp \in {"closing", "shutdown", "stopped"}

IInv ==
  /\ TypeOK /\ Counted /\ Tracked /\ Single
  /\ Announces /\ GatedBehind /\ GatedAfterInitialize /\ Told

-----------------------------------------------------------------------------
(* Sequences that grow at one end and shrink at the other.                 *)

\* What is in a sequence after one more item.
LEMMA HasAppend ==
  ASSUME NEW S, NEW s \in Seq(S), NEW e
  PROVE  \A x : Has(Append(s, e), x) <=> Has(s, x) \/ x = e
<1>1. Len(s) + 1 \in DOMAIN Append(s, e) /\ Append(s, e)[Len(s) + 1] = e
  OBVIOUS
<1>2. \A k \in DOMAIN s : k \in DOMAIN Append(s, e) /\ Append(s, e)[k] = s[k]
  OBVIOUS
<1>3. \A k \in DOMAIN Append(s, e) : k \in DOMAIN s \/ k = Len(s) + 1
  OBVIOUS
<1> QED BY <1>1, <1>2, <1>3 DEF Has

\* What is in a sequence is its head or in its tail.
LEMMA HasTail ==
  ASSUME NEW S, NEW s \in Seq(S), s # <<>>
  PROVE  \A x : Has(s, x) <=> x = Head(s) \/ Has(Tail(s), x)
<1>1. 1 \in DOMAIN s /\ s[1] = Head(s)
  OBVIOUS
<1>2. \A k \in DOMAIN Tail(s) : k + 1 \in DOMAIN s /\ Tail(s)[k] = s[k + 1]
  OBVIOUS
<1>3. \A k \in DOMAIN s : k = 1 \/ (k - 1 \in DOMAIN Tail(s) /\ Tail(s)[k - 1] = s[k])
  OBVIOUS
<1> QED BY <1>1, <1>2, <1>3 DEF Has

LEMMA OnceAppend ==
  ASSUME NEW S, NEW s \in Seq(S), NEW e, Once(s), e.kind = "response" => ~Has(s, e)
  PROVE  Once(Append(s, e))
<1>1. \A k \in DOMAIN Append(s, e) :
        \/ k \in DOMAIN s /\ Append(s, e)[k] = s[k]
        \/ k = Len(s) + 1 /\ Append(s, e)[k] = e
  OBVIOUS
<1> QED BY <1>1 DEF Once, Has

LEMMA OnceTail ==
  ASSUME NEW S, NEW s \in Seq(S), s # <<>>, Once(s)
  PROVE  Once(Tail(s)) /\ (Head(s).kind = "response" => ~Has(Tail(s), Head(s)))
<1>1. 1 \in DOMAIN s /\ s[1] = Head(s)
  OBVIOUS
<1>2. \A k \in DOMAIN Tail(s) :
        k \in Nat \ {0} /\ k + 1 \in DOMAIN s /\ Tail(s)[k] = s[k + 1]
  OBVIOUS
<1>3. Once(Tail(s))
  BY <1>2 DEF Once
<1>4. ASSUME Head(s).kind = "response" PROVE ~Has(Tail(s), Head(s))
  BY <1>1, <1>2, <1>4 DEF Once, Has
<1> QED BY <1>3, <1>4

\* The items differ by their kind.
LEMMA Kinds ==
  /\ \A r, q \in Requests : Response(r) = Response(q) => r = q
  /\ \A r \in Requests : Response(r).kind = "response"
  /\ \A r \in Requests : /\ Response(r) \notin {Suppressed, Initialized, ErrorResponse}
                         /\ \A q \in Requests : Response(r) # Notice(q)
                         /\ \A n \in Notes : Response(r) # Note(n)
                         /\ \A n \in Notes : Notice(r) # Note(n)
                         /\ Notice(r) \notin {Suppressed, Initialized, ErrorResponse}
  /\ \A n \in Notes : /\ Note(n) \notin {Suppressed, Initialized, ErrorResponse}
                      /\ Note(n).kind = "notification"
  /\ Suppressed.kind = "suppressed" /\ ErrorResponse.kind = "error"
  /\ Initialized.kind = "initialized" /\ Initialized # ErrorResponse
  /\ \A r, q \in Requests : Notice(r).kind = "notice" /\ (Notice(r) = Notice(q) => r = q)
  /\ \A i \in Items : i.kind = "response" => \E r \in Requests : i = Response(r)
  /\ \A i \in Items : i.kind = "notification" => \E n \in Notes : i = Note(n)
  /\ \A m, n \in Notes : Note(m) = Note(n) => m = n
BY DEF Response, Suppressed, Initialized, ErrorResponse, Notice, Note, Items, Outbound

-----------------------------------------------------------------------------
LEMMA InitInv == Init => IInv
<1> SUFFICES ASSUME Init PROVE IInv
  OBVIOUS
<1> USE NamesAssumption, BufferAssumption DEF Init
<1>1. TypeOK
  <2>1. Suppressed \in Items
    BY DEF Items, Outbound
  <2>2. /\ initialized \in BOOLEAN /\ disconnected \in BOOLEAN /\ capable \in BOOLEAN
        /\ stopRequested \in BOOLEAN /\ closed \in BOOLEAN
    OBVIOUS
  <2>3. /\ noteQ \in Seq(Notes) /\ Len(noteQ) <= NotificationBuffer
        /\ outQ \in Seq(Outbound) /\ Len(outQ) <= OutboundBuffer
        /\ noticeQ \in Seq(Requests) /\ wire \in Seq(Items)
    OBVIOUS
  <2> QED BY <2>1, <2>2, <2>3 DEF TypeOK
<1>2. Counted
  <2>1. Unfinished = {}
    BY DEF Unfinished
  <2> QED BY <2>1, FS_EmptySet DEF Counted
<1>3. Tracked /\ Told
  BY DEF Tracked, Told
<1>4. Single
  BY Kinds DEF Single, Once, Has, Responded
<1>5. Announces /\ GatedBehind /\ GatedAfterInitialize
  BY Kinds DEF Announces, GatedBehind, GatedAfterInitialize, Has
<1> QED BY <1>1, <1>2, <1>3, <1>4, <1>5 DEF IInv

\* What a task queues is one of the items.
LEMMA ItemsTyped ==
  /\ \A r \in Requests : Response(r) \in Outbound /\ Notice(r) \in Items
  /\ \A n \in Notes : Note(n) \in Outbound
  /\ Suppressed \in Outbound /\ Outbound \subseteq Items
  /\ Initialized \in Items /\ ErrorResponse \in Items
BY DEF Items, Outbound

LEMMA TypeStep == ASSUME TypeOK, Counted, Next PROVE TypeOK'
<1> USE NamesAssumption, BufferAssumption, ItemsTyped
        DEF TypeOK, loopVars, taskVars, queueVars, NextBranch, Writes
<1>1. ASSUME ReadInitialize PROVE TypeOK'
  BY <1>1 DEF ReadInitialize
<1>2. ASSUME HandleInitialize PROVE TypeOK'
  BY <1>2 DEF HandleInitialize
<1>3. ASSUME OnConnect PROVE TypeOK'
  BY <1>3 DEF OnConnect
<1>4. ASSUME \/ ReadNotification \/ NotificationHandled \/ ReadMalformed \/ ReadFails \/ ReadEnd
             \/ StopSignal \/ Check \/ CloseRequests \/ OnShutdown \/ WriteFails \/ RequestStop
      PROVE  TypeOK'
  <2>1. ASSUME ReadNotification \/ NotificationHandled \/ ReadMalformed PROVE TypeOK'
    BY <2>1 DEF ReadNotification, NotificationHandled, ReadMalformed
  <2>2. ASSUME ReadFails \/ ReadEnd \/ StopSignal PROVE TypeOK'
    BY <2>2 DEF ReadFails, ReadEnd, StopSignal
  <2>3. ASSUME Check \/ CloseRequests \/ RequestStop PROVE TypeOK'
    BY <2>3 DEF Check, CloseRequests, RequestStop
  <2>4. ASSUME OnShutdown \/ WriteFails PROVE TypeOK'
    BY <2>4 DEF OnShutdown, WriteFails
  <2> QED BY ONLY <1>4, <2>1, <2>2, <2>3, <2>4
<1>5. ASSUME NEW r \in Requests, ReadRequest(r) \/ ReadCancelled(r) PROVE TypeOK'
  BY <1>5 DEF ReadRequest, ReadCancelled
<1>6. ASSUME TakeNotification PROVE TypeOK'
  <2>1. Head(noteQ) \in Notes /\ Tail(noteQ) \in Seq(Notes) /\ Len(Tail(noteQ)) <= NotificationBuffer
    BY <1>6 DEF TakeNotification
  <2>2. outQ' \in Seq(Outbound) /\ Len(outQ') <= OutboundBuffer
    BY <1>6, <2>1 DEF TakeNotification
  <2> QED BY <1>6, <2>1, <2>2 DEF TakeNotification
<1>7. ASSUME TakeOutbound PROVE TypeOK'
  <2>1. Head(outQ) \in Outbound /\ Tail(outQ) \in Seq(Outbound) /\ Len(Tail(outQ)) <= OutboundBuffer
    BY <1>7 DEF TakeOutbound
  <2> QED BY <1>7, <2>1 DEF TakeOutbound
<1>8. ASSUME TakeNotice PROVE TypeOK'
  <2>1. Head(noticeQ) \in Requests /\ Tail(noticeQ) \in Seq(Requests)
    BY <1>8 DEF TakeNotice
  <2> QED BY <1>8, <2>1 DEF TakeNotice
<1>9. ASSUME Write PROVE TypeOK'
  BY <1>9 DEF Write
<1>10. ASSUME NEW r \in Requests, Finish(r) \/ Panic(r) PROVE TypeOK'
  <2>1. ASSUME Finish(r) PROVE TypeOK'
    BY <2>1 DEF Finish
  <2>2. ASSUME Panic(r) PROVE TypeOK'
    BY <2>2 DEF Panic
  <2> QED BY ONLY <1>10, <2>1, <2>2
<1>11. ASSUME NEW r \in Requests, Discount(r) PROVE TypeOK'
  <2>1. count # 0
    <3>1. r \in Unfinished
      BY <1>11 DEF Discount, Unfinished
    <3> QED BY <3>1, FS_EmptySet DEF Counted
  <2> QED BY <1>11, <2>1 DEF Discount
<1>12. ASSUME NEW r \in Requests, Queue(r) PROVE TypeOK'
  <2>1. outQ' \in Seq(Outbound) /\ Len(outQ') <= OutboundBuffer
    BY <1>12 DEF Queue
  <2> QED BY <1>12, <2>1 DEF Queue
<1>13. ASSUME NEW r \in Requests, AbandonQuestion(r) PROVE TypeOK'
  BY <1>13 DEF AbandonQuestion
<1>14. ASSUME NEW n \in Notes, NEW e \in Requests \cup {Server}, Emit(n, e) PROVE TypeOK'
  BY <1>14 DEF Emit
<1> QED
  BY <1>1, <1>2, <1>3, <1>4, <1>5, <1>6, <1>7, <1>8, <1>9, <1>10, <1>11, <1>12, <1>13, <1>14
     DEF Next, ReadStep, BranchStep, TaskStep

\* The steps that leave the request tasks alone.
LEMMA TasksAlone ==
  ASSUME Next
  PROVE  \/ UNCHANGED <<task, count, inFlight, suppressed, cancelled>>
         \/ \E r \in Requests : \/ ReadRequest(r) \/ ReadCancelled(r)
                                \/ Finish(r) \/ Discount(r) \/ Queue(r) \/ Panic(r)
<1> USE DEF taskVars, loopVars
<1>1. ASSUME ReadStep PROVE \/ UNCHANGED <<task, count, inFlight, suppressed, cancelled>>
                            \/ \E r \in Requests : ReadRequest(r) \/ ReadCancelled(r)
  BY <1>1 DEF ReadStep, ReadInitialize, HandleInitialize, OnConnect, ReadNotification,
     NotificationHandled, ReadMalformed, ReadFails, ReadEnd
<1>2. ASSUME BranchStep PROVE UNCHANGED <<task, count, inFlight, suppressed, cancelled>>
  BY <1>2 DEF BranchStep, TakeNotification, TakeOutbound, TakeNotice, Write, WriteFails,
     StopSignal, Check, CloseRequests, OnShutdown
<1>3. ASSUME RequestStop \/ \E n \in Notes, e \in Requests \cup {Server} : Emit(n, e)
      PROVE  UNCHANGED <<task, count, inFlight, suppressed, cancelled>>
  BY <1>3 DEF RequestStop, Emit
<1>4. ASSUME NEW r \in Requests, AbandonQuestion(r)
      PROVE  UNCHANGED <<task, count, inFlight, suppressed, cancelled>>
  BY <1>4 DEF AbandonQuestion
<1> QED BY <1>1, <1>2, <1>3, <1>4 DEF Next, TaskStep

LEMMA CountedStep == ASSUME TypeOK, Counted, Next PROVE Counted'
<1> USE DEF TypeOK
<1>1. CASE UNCHANGED <<task, count, inFlight, suppressed, cancelled>>
  BY <1>1 DEF Counted, Unfinished
<1>2. ASSUME NEW r \in Requests, ReadRequest(r) PROVE Counted'
  <2>1. Unfinished' = Unfinished \cup {r} /\ r \notin Unfinished /\ count' = count + 1
    BY <1>2 DEF ReadRequest, Unfinished
  <2> QED BY <2>1, FS_AddElement DEF Counted
<1>3. ASSUME NEW r \in Requests, Discount(r) PROVE Counted'
  <2>1. Unfinished' = Unfinished \ {r} /\ r \in Unfinished /\ count' = count - 1
    BY <1>3 DEF Discount, Unfinished
  <2> QED BY <2>1, FS_RemoveElement DEF Counted
<1>4. ASSUME NEW r \in Requests, ReadCancelled(r) \/ Finish(r) \/ Queue(r) \/ Panic(r)
      PROVE  Counted'
  <2>1. Unfinished' = Unfinished /\ count' = count
    BY <1>4 DEF ReadCancelled, Finish, Queue, Panic, Unfinished
  <2> QED BY <2>1 DEF Counted
<1> QED BY <1>1, <1>2, <1>3, <1>4, TasksAlone

LEMMA TrackedStep == ASSUME TypeOK, Tracked, Next PROVE Tracked'
<1> USE DEF TypeOK, Tracked
<1>1. CASE UNCHANGED <<task, count, inFlight, suppressed, cancelled>>
  BY <1>1
<1>2. ASSUME NEW r \in Requests, ReadRequest(r) PROVE Tracked'
  BY <1>2 DEF ReadRequest
<1>3. ASSUME NEW r \in Requests, ReadCancelled(r) PROVE Tracked'
  BY <1>3 DEF ReadCancelled
<1>4. ASSUME NEW r \in Requests, Finish(r) PROVE Tracked'
  BY <1>4 DEF Finish
<1>5. ASSUME NEW r \in Requests, Discount(r) \/ Queue(r) \/ Panic(r) PROVE Tracked'
  BY <1>5 DEF Discount, Queue, Panic
<1> QED BY <1>1, <1>2, <1>3, <1>4, <1>5, TasksAlone

-----------------------------------------------------------------------------
\* The steps that leave what is sent alone.
SendingAlone == UNCHANGED <<outQ, item, wire>>

LEMMA SendingSteps ==
  ASSUME Next
  PROVE  \/ SendingAlone
         \/ ReadInitialize \/ HandleInitialize \/ OnConnect \/ ReadMalformed
         \/ TakeNotification \/ TakeOutbound \/ TakeNotice \/ Write \/ WriteFails
         \/ \E r \in Requests : Queue(r)
<1> USE DEF SendingAlone, taskVars, loopVars, queueVars
<1>1. ASSUME ReadNotification \/ NotificationHandled \/ ReadFails \/ ReadEnd
             \/ \E r \in Requests : ReadRequest(r) \/ ReadCancelled(r)
      PROVE  SendingAlone
  BY <1>1 DEF ReadNotification, NotificationHandled, ReadFails, ReadEnd, ReadRequest, ReadCancelled
<1>2. ASSUME StopSignal \/ Check \/ CloseRequests \/ OnShutdown \/ RequestStop PROVE SendingAlone
  BY <1>2 DEF StopSignal, Check, CloseRequests, OnShutdown, RequestStop
<1>3. ASSUME NEW r \in Requests, Finish(r) \/ Discount(r) \/ Panic(r) \/ AbandonQuestion(r)
      PROVE  SendingAlone
  BY <1>3 DEF Finish, Discount, Panic, AbandonQuestion
<1>4. ASSUME \E n \in Notes, e \in Requests \cup {Server} : Emit(n, e) PROVE SendingAlone
  BY <1>4 DEF Emit
<1> QED BY <1>1, <1>2, <1>3, <1>4 DEF Next, ReadStep, BranchStep, TaskStep

\* A request that is done stays done, and its response stays suppressed or
\* not, whatever happens to other requests.
LEMMA DoneStays ==
  ASSUME TypeOK, Next, NEW r \in Requests, task[r] = "done"
  PROVE  task'[r] = "done" /\ (r \in suppressed' <=> r \in suppressed)
BY TasksAlone DEF TypeOK, ReadRequest, ReadCancelled, Finish, Discount, Queue, Panic

LEMMA SingleStep == ASSUME TypeOK, Tracked, Single, Next PROVE Single'
<1> USE DEF Single, Responded
<1>a. \A r \in Requests : Responded(r) => task'[r] = "done" /\ r \notin suppressed'
  BY DoneStays
\* Another item in the hand of the loop, which is no response.
<1>b. ASSUME item' \in Items, \A r \in Requests : item' # Response(r), UNCHANGED <<outQ, wire>>
      PROVE  Single'
  BY <1>a, <1>b
<1>1. CASE SendingAlone
  BY <1>1, <1>a DEF SendingAlone
<1>2. CASE ReadInitialize \/ HandleInitialize \/ OnConnect \/ ReadMalformed \/ WriteFails
  <2>1. UNCHANGED <<outQ, wire>> /\ item' \in {item, ErrorResponse, Initialized, Suppressed}
    BY <1>2 DEF ReadInitialize, HandleInitialize, OnConnect, ReadMalformed, WriteFails, Writes,
       queueVars, taskVars
  <2>2. CASE item' = item
    BY <1>1, <2>1, <2>2 DEF SendingAlone
  <2>3. CASE item' # item
    BY <1>b, <2>1, <2>3, Kinds, ItemsTyped
  <2> QED BY <2>2, <2>3
<1>3. CASE TakeNotification
  <2>1. UNCHANGED <<item, wire>>
    BY <1>3 DEF TakeNotification
  <2>2. CASE outQ' = outQ
    BY <1>1, <2>1, <2>2 DEF SendingAlone
  <2>3. CASE outQ' # outQ
    <3>1. PICK n \in Notes : outQ' = Append(outQ, Note(n))
      <4>1. Head(noteQ) \in Notes
        BY <1>3 DEF TakeNotification, TypeOK
      <4> QED BY <1>3, <2>3, <4>1 DEF TakeNotification
    <3>2. \A x : Has(outQ', x) <=> Has(outQ, x) \/ x = Note(n)
      BY <3>1, HasAppend DEF TypeOK
    <3>3. Once(outQ')
      BY <3>1, OnceAppend, Kinds DEF TypeOK
    <3>4. \A r \in Requests : Has(outQ', Response(r)) <=> Has(outQ, Response(r))
      BY <3>2, Kinds
    <3> QED BY <1>a, <2>1, <3>3, <3>4
  <2> QED BY <2>2, <2>3
<1>4. CASE TakeOutbound
  <2>1. outQ # <<>> /\ outQ' = Tail(outQ) /\ UNCHANGED wire
    BY <1>4 DEF TakeOutbound
  <2>2. \A x : Has(outQ, x) <=> x = Head(outQ) \/ Has(outQ', x)
    BY <2>1, HasTail DEF TypeOK
  <2>3. Once(outQ') /\ (Head(outQ).kind = "response" => ~Has(outQ', Head(outQ)))
    BY <2>1, OnceTail DEF TypeOK
  <2>4. item' = item \/ item' = Head(outQ)
    BY <1>4 DEF TakeOutbound, Writes
  <2>5. CASE item' = item
    BY <1>a, <2>1, <2>2, <2>3, <2>5
  <2>6. CASE item' = Head(outQ)
    <3>1. \A r \in Requests : item' = Response(r) => ~Has(outQ', Response(r))
      BY <2>3, <2>6, Kinds
    <3> QED BY <1>a, <2>1, <2>2, <2>3, <2>6, <3>1
  <2> QED BY <2>4, <2>5, <2>6
<1>5. CASE TakeNotice
  <2>1. Head(noticeQ) \in Requests /\ item' = Notice(Head(noticeQ)) /\ UNCHANGED <<outQ, wire>>
    BY <1>5 DEF TakeNotice, Writes, TypeOK
  <2> QED BY <1>b, <2>1, Kinds, ItemsTyped
<1>6. CASE Write
  <2>1. item' = Suppressed /\ UNCHANGED outQ /\ item \in Items
    BY <1>6 DEF Write, TypeOK
  <2>2. CASE item = ErrorResponse
    BY <1>6, <1>b, <2>1, <2>2, Kinds, ItemsTyped DEF Write
  <2>3. CASE item # ErrorResponse
    <3>1. wire' = Append(wire, item)
      BY <1>6, <2>3 DEF Write
    <3>2. \A x : Has(wire', x) <=> Has(wire, x) \/ x = item
      BY <3>1, HasAppend DEF TypeOK
    <3>3. item.kind = "response" => ~Has(wire, item)
      BY <2>1, Kinds
    <3>4. Once(wire')
      BY <3>1, <3>3, OnceAppend DEF TypeOK
    <3>5. \A r \in Requests : item' # Response(r)
      BY <2>1, Kinds
    <3> QED BY <1>a, <2>1, <3>2, <3>4, <3>5
  <2> QED BY <2>2, <2>3
<1>7. ASSUME NEW r \in Requests, Queue(r) PROVE Single'
  <2>1. /\ UNCHANGED <<item, wire, suppressed>> /\ task[r] = "counted"
        /\ task' = [task EXCEPT ![r] = "done"]
    BY <1>7 DEF Queue, loopVars
  <2>2. ~Responded(r)
    BY <2>1
  <2>3. CASE outQ' = outQ
    BY <1>1, <2>1, <2>3 DEF SendingAlone
  <2>4. CASE outQ' # outQ
    <3>1. PICK e \in Outbound : outQ' = Append(outQ, e)
                                /\ (e = Suppressed \/ (e = Response(r) /\ r \notin suppressed))
      BY <1>7, <2>4, ItemsTyped DEF Queue
    <3>2. \A x : Has(outQ', x) <=> Has(outQ, x) \/ x = e
      BY <3>1, HasAppend DEF TypeOK
    <3>3. Once(outQ')
      BY <2>2, <3>1, OnceAppend, Kinds DEF TypeOK
    <3>4. \A q \in Requests : Has(outQ', Response(q)) =>
                                Has(outQ, Response(q)) \/ (q = r /\ r \notin suppressed)
      BY <3>1, <3>2, Kinds
    <3>5. task'[r] = "done"
      BY <2>1 DEF TypeOK
    <3> QED BY <1>a, <2>1, <2>2, <3>3, <3>4, <3>5
  <2> QED BY <2>3, <2>4
<1> QED BY <1>1, <1>2, <1>3, <1>4, <1>5, <1>6, <1>7, SendingSteps

-----------------------------------------------------------------------------
\* What was written stays written.
LEMMA WireGrows == ASSUME TypeOK, Next PROVE \A i : Has(wire, i) => Has(wire', i)
<1>1. wire' = wire \/ wire' = Append(wire, item)
  BY SendingSteps DEF SendingAlone, ReadInitialize, HandleInitialize, OnConnect, ReadMalformed,
     TakeNotification, TakeOutbound, TakeNotice, Write, WriteFails, Queue, queueVars
<1>2. CASE wire' = Append(wire, item)
  BY <1>2, HasAppend DEF TypeOK
<1> QED BY <1>1, <1>2

\* The client's notice stays on the wire, and what follows it waits for it.
LEMMA AnnouncesStep == ASSUME TypeOK, Announces, Next PROVE Announces'
<1>a. Has(wire, Initialized) => Has(wire', Initialized)
  BY WireGrows
<1> USE DEF Announces
<1>1. ASSUME lp \in {"ready", "notifying", "checking"}, capable' = capable
      PROVE  Announces'
  BY <1>1, <1>a
<1>2. CASE ReadInitialize \/ ReadNotification \/ NotificationHandled \/ ReadMalformed
           \/ ReadFails \/ ReadEnd \/ TakeNotification \/ TakeOutbound \/ TakeNotice
           \/ StopSignal \/ Check
  BY <1>1, <1>2 DEF Reads, ReadInitialize, ReadNotification, NotificationHandled, ReadMalformed,
     ReadFails, ReadEnd, TakeNotification, TakeOutbound, TakeNotice, StopSignal, Check
<1>3. CASE HandleInitialize
  <2>1. CASE capable' = capable
    BY <1>3, <1>a, <2>1 DEF HandleInitialize
  <2>2. CASE capable' # capable
    BY <1>3, <2>2 DEF HandleInitialize
  <2> QED BY <2>1, <2>2
<1>4. CASE OnConnect
  BY <1>4, <1>a DEF OnConnect, Writes
<1>5. CASE Write
  <2>1. Has(wire', Initialized) \/ item # Initialized
    <3>1. item = Initialized => wire' = Append(wire, item)
      BY <1>5, Kinds DEF Write
    <3>2. wire \in Seq(Items)
      BY DEF TypeOK
    <3>3. Has(Append(wire, item), item)
      BY ONLY <3>2, HasAppend
    <3> QED BY ONLY <3>1, <3>3
  <2> QED BY <1>5, <1>a, <2>1 DEF Write
<1>6. CASE WriteFails \/ CloseRequests \/ OnShutdown
  BY <1>6 DEF WriteFails, CloseRequests, OnShutdown
<1>7. ASSUME UNCHANGED <<lp, item, capable>> PROVE Announces'
  BY <1>7, <1>a
<1>8. ASSUME NEW r \in Requests, ReadRequest(r) \/ TaskStep(r) PROVE Announces'
  BY <1>7, <1>8 DEF ReadRequest, TaskStep, Finish, Discount, Queue, Panic, AbandonQuestion, loopVars
<1>9. ASSUME NEW r \in Requests, ReadCancelled(r) PROVE Announces'
  BY <1>1, <1>9 DEF ReadCancelled, Reads
<1>10. ASSUME RequestStop \/ \E n \in Notes, e \in Requests \cup {Server} : Emit(n, e)
       PROVE  Announces'
  BY <1>7, <1>10 DEF RequestStop, Emit, loopVars
<1> QED
  BY <1>2, <1>3, <1>4, <1>5, <1>6, <1>8, <1>9, <1>10 DEF Next, ReadStep, BranchStep

\* A gated notification follows the response to initialize, in the queue, in
\* the hand of the loop and on the wire.
LEMMA GatedStep ==
  ASSUME TypeOK, Announces, GatedBehind, GatedAfterInitialize, Next
  PROVE  GatedBehind' /\ GatedAfterInitialize'
<1> USE NamesAssumption DEF GatedBehind
<1>a. Has(wire, Initialized) => Has(wire', Initialized)
  BY WireGrows
<1>b. Gated \subseteq Notes
  OBVIOUS
<1>c. ASSUME UNCHANGED wire PROVE GatedAfterInitialize'
  BY <1>c DEF GatedAfterInitialize
<1>1. CASE SendingAlone
  BY <1>1, <1>c DEF SendingAlone
<1>2. CASE ReadInitialize \/ HandleInitialize \/ OnConnect \/ ReadMalformed \/ WriteFails
  <2>1. UNCHANGED <<outQ, wire>> /\ item' \in {item, ErrorResponse, Initialized, Suppressed}
    BY <1>2 DEF ReadInitialize, HandleInitialize, OnConnect, ReadMalformed, WriteFails, Writes,
       queueVars, taskVars
  <2>2. \A n \in Gated : item' = Note(n) => item = Note(n)
    BY <1>b, <2>1, Kinds
  <2> QED BY <1>c, <2>1, <2>2
<1>3. CASE TakeNotification
  <2>1. UNCHANGED <<item, wire>> /\ lp = "ready" /\ Head(noteQ) \in Notes
    BY <1>3 DEF TakeNotification, TypeOK
  <2>2. CASE outQ' = outQ
    BY <1>c, <2>1, <2>2
  <2>3. CASE outQ' # outQ
    <3>1. outQ' = Append(outQ, Note(Head(noteQ))) /\ Permitted(Head(noteQ))
      BY <1>3, <2>3 DEF TakeNotification
    <3>2. \A x : Has(outQ', x) <=> Has(outQ, x) \/ x = Note(Head(noteQ))
      BY <2>1, <3>1, HasAppend DEF TypeOK
    <3>3. Head(noteQ) \in Gated => Has(wire, Initialized)
      BY <2>1, <3>1 DEF Permitted, Announces
    <3>4. \A n \in Gated : Note(n) = Note(Head(noteQ)) => n = Head(noteQ)
      BY <1>b, <2>1, Kinds
    <3> QED BY <1>a, <1>c, <2>1, <3>2, <3>3, <3>4
  <2> QED BY <2>2, <2>3
<1>4. CASE TakeOutbound
  <2>1. outQ # <<>> /\ outQ' = Tail(outQ) /\ UNCHANGED wire /\ item' \in {item, Head(outQ)}
    BY <1>4 DEF TakeOutbound, Writes
  <2>2. \A x : Has(outQ, x) <=> x = Head(outQ) \/ Has(outQ', x)
    BY <2>1, HasTail DEF TypeOK
  <2> QED BY <1>c, <2>1, <2>2
<1>5. CASE TakeNotice
  <2>1. Head(noticeQ) \in Requests /\ item' = Notice(Head(noticeQ)) /\ UNCHANGED <<outQ, wire>>
    BY <1>5 DEF TakeNotice, Writes, TypeOK
  <2>2. \A n \in Gated : item' # Note(n)
    BY <1>b, <2>1, Kinds
  <2> QED BY <1>c, <2>1, <2>2
<1>6. CASE Write
  <2>1. item' = Suppressed /\ UNCHANGED outQ /\ item \in Items
    BY <1>6 DEF Write, TypeOK
  <2>2. GatedBehind'
    BY <1>a, <1>b, <2>1, Kinds
  <2>3. CASE item = ErrorResponse
    BY <1>6, <1>c, <2>2, <2>3 DEF Write
  <2>4. CASE item # ErrorResponse
    <3>1. wire' = Append(wire, item)
      BY <1>6, <2>4 DEF Write
    <3>2. ASSUME NEW k \in DOMAIN wire', wire'[k].kind = "notification", wire'[k].of \in Gated
          PROVE  \E j \in 1..(k - 1) : wire'[j] = Initialized
      <4>1. CASE k \in DOMAIN wire
        <5>1. wire'[k] = wire[k] /\ \A j \in 1..(k - 1) : wire'[j] = wire[j]
          BY <3>1, <4>1 DEF TypeOK
        <5> QED BY <3>2, <4>1, <5>1 DEF GatedAfterInitialize
      <4>2. CASE k \notin DOMAIN wire
        <5>1. k = Len(wire) + 1 /\ wire'[k] = item
          BY <3>1, <4>2 DEF TypeOK
        <5>2. PICK n \in Notes : item = Note(n)
          BY <2>1, <3>2, <5>1, Kinds
        <5>3. n \in Gated
          BY <3>2, <5>1, <5>2 DEF Note
        <5>4. PICK j \in DOMAIN wire : wire[j] = Initialized
          BY <5>2, <5>3 DEF Has
        <5>5. j \in 1..(k - 1) /\ wire'[j] = wire[j]
          BY <3>1, <5>1, <5>4 DEF TypeOK
        <5> QED BY <5>4, <5>5
      <4> QED BY <4>1, <4>2
    <3> QED BY <2>2, <3>2 DEF GatedAfterInitialize
  <2> QED BY <2>3, <2>4
<1>7. ASSUME NEW r \in Requests, Queue(r) PROVE GatedBehind' /\ GatedAfterInitialize'
  <2>1. UNCHANGED <<item, wire>>
    BY <1>7 DEF Queue, loopVars
  <2>2. CASE outQ' = outQ
    BY <1>c, <2>1, <2>2
  <2>3. CASE outQ' # outQ
    <3>1. PICK e \in {Suppressed, Response(r)} : outQ' = Append(outQ, e)
      BY <1>7, <2>3 DEF Queue
    <3>2. \A x : Has(outQ', x) <=> Has(outQ, x) \/ x = e
      BY <3>1, HasAppend, ItemsTyped DEF TypeOK
    <3>3. \A n \in Gated : Note(n) # e
      BY <1>b, <3>1, Kinds
    <3> QED BY <1>a, <1>c, <2>1, <3>2, <3>3
  <2> QED BY <2>2, <2>3
<1> QED BY <1>1, <1>2, <1>3, <1>4, <1>5, <1>6, <1>7, SendingSteps

-----------------------------------------------------------------------------
\* A notice is in the queue until the loop takes it, and written next.
LEMMA ToldStep == ASSUME TypeOK, Told, Next PROVE Told'
<1>a. \A i : Has(wire, i) => Has(wire', i)
  BY WireGrows
<1> USE DEF Told
<1>1. ASSUME lp # "writing" \/ UNCHANGED <<lp, item>>,
             noticeQ' = noticeQ, abandoned' = abandoned,
             lp \in {"closing", "shutdown", "stopped"} => lp' \in {"closing", "shutdown", "stopped"}
      PROVE  Told'
  BY <1>1, <1>a
<1> USE DEF taskVars, loopVars, queueVars
<1>2. CASE \/ ReadInitialize \/ HandleInitialize \/ OnConnect \/ ReadNotification
           \/ NotificationHandled \/ ReadMalformed \/ ReadFails \/ ReadEnd
           \/ \E r \in Requests : ReadRequest(r) \/ ReadCancelled(r)
  BY <1>1, <1>2 DEF Reads, ReadInitialize, HandleInitialize, OnConnect, ReadNotification,
     NotificationHandled, ReadMalformed, ReadFails, ReadEnd, ReadRequest, ReadCancelled
<1>3. CASE TakeNotification \/ TakeOutbound \/ StopSignal \/ Check \/ CloseRequests \/ OnShutdown
  BY <1>1, <1>3 DEF TakeNotification, TakeOutbound, StopSignal, Check, CloseRequests, OnShutdown
<1>4. CASE TakeNotice
  <2>1. /\ noticeQ # <<>> /\ noticeQ' = Tail(noticeQ) /\ lp = "ready" /\ UNCHANGED abandoned
        /\ lp' = "writing" /\ item' = Notice(Head(noticeQ))
    BY <1>4 DEF TakeNotice, Writes
  <2>2. \A x : Has(noticeQ, x) <=> x = Head(noticeQ) \/ Has(noticeQ', x)
    BY <2>1, HasTail DEF TypeOK
  <2> QED BY <1>a, <2>1, <2>2
<1>5. CASE Write
  <2>1. lp = "writing" /\ UNCHANGED <<noticeQ, abandoned>>
    BY <1>5 DEF Write
  <2>2. \A r \in abandoned : item = Notice(r) => Has(wire', Notice(r))
    <3>1. ASSUME NEW r \in abandoned, item = Notice(r) PROVE Has(wire', Notice(r))
      <4>1. r \in Requests
        BY DEF TypeOK
      <4>2. wire' = Append(wire, item)
        BY <1>5, <3>1, <4>1, Kinds DEF Write
      <4> QED BY <3>1, <4>2, HasAppend DEF TypeOK
    <3> QED BY <3>1
  <2> QED BY <1>a, <2>1, <2>2
<1>6. CASE WriteFails
  BY <1>6 DEF WriteFails
<1>7. ASSUME NEW r \in Requests, Finish(r) \/ Discount(r) \/ Queue(r) \/ Panic(r) PROVE Told'
  BY <1>1, <1>7 DEF Finish, Discount, Queue, Panic
<1>8. ASSUME NEW r \in Requests, AbandonQuestion(r) PROVE Told'
  <2>1. noticeQ' = Append(noticeQ, r) /\ abandoned' = abandoned \cup {r} /\ UNCHANGED <<lp, item>>
    BY <1>8 DEF AbandonQuestion
  <2>2. \A x : Has(noticeQ', x) <=> Has(noticeQ, x) \/ x = r
    BY <2>1, HasAppend DEF TypeOK
  <2> QED BY <1>a, <2>1, <2>2
<1>9. CASE RequestStop \/ \E n \in Notes, e \in Requests \cup {Server} : Emit(n, e)
  BY <1>1, <1>9 DEF RequestStop, Emit
<1> QED
  BY <1>2, <1>3, <1>4, <1>5, <1>6, <1>7, <1>8, <1>9
     DEF Next, ReadStep, BranchStep, TaskStep

-----------------------------------------------------------------------------
LEMMA StepInv == IInv /\ [Next]_vars => IInv'
<1> SUFFICES ASSUME IInv, [Next]_vars PROVE IInv'
  OBVIOUS
<1>1. CASE Next
  <2>1. TypeOK' /\ Counted' /\ Tracked'
    BY <1>1, TypeStep, CountedStep, TrackedStep DEF IInv
  <2>2. Single' /\ Announces' /\ GatedBehind' /\ GatedAfterInitialize' /\ Told'
    BY <1>1, SingleStep, AnnouncesStep, GatedStep, ToldStep DEF IInv
  <2> QED BY <2>1, <2>2 DEF IInv
<1>2. CASE UNCHANGED vars
  <2> USE DEF IInv, vars, loopVars, taskVars, queueVars
  <2>1. TypeOK' /\ Counted' /\ Tracked' /\ Told'
    BY <1>2 DEF TypeOK, Counted, Unfinished, Tracked, Told
  <2>2. Single' /\ Announces' /\ GatedBehind' /\ GatedAfterInitialize'
    BY <1>2 DEF Single, Responded, Announces, GatedBehind, GatedAfterInitialize
  <2> QED BY <2>1, <2>2
<1> QED BY <1>1, <1>2

\* Every reachable state satisfies the inductive invariant.
THEOREM Invariance == Spec => []IInv
BY InitInv, StepInv, PTL DEF Spec

\* Every variable of the connection keeps its type and every bounded queue its
\* capacity, for any capacities (SERVER_NOTIFICATION_BUFFER,
\* SERVER_RESPONSE_BUFFER).
THEOREM TypeCorrect == Spec => []TypeOK
<1>1. IInv => TypeOK
  BY DEF IInv
<1> QED BY <1>1, Invariance, PTL

\* No response of a cancelled request reaches the client, and none is written
\* twice, for any number of requests (InFlight::finish).
THEOREM Suppresses == Spec => []CancelSuppresses
<1>1. IInv => CancelSuppresses
  <2> SUFFICES ASSUME IInv PROVE CancelSuppresses
    OBVIOUS
  <2>1. ASSUME NEW r \in cancelled PROVE ~OnWire(Response(r))
    <3>1. r \in Requests
      BY DEF IInv, TypeOK
    <3>2. task[r] = "done" => r \in suppressed
      BY <3>1 DEF IInv, Tracked
    <3>3. Has(wire, Response(r)) => task[r] = "done" /\ r \notin suppressed
      BY <3>1 DEF IInv, Single, Responded
    <3> QED BY <3>2, <3>3 DEF OnWire, Has
  <2>2. Once(wire)
    BY DEF IInv, Single
  <2> QED BY <2>1, <2>2 DEF CancelSuppresses, Once
<1> QED BY <1>1, Invariance, PTL

\* No gated notification reaches the client before the response to its
\* initialize (notification_permitted).
THEOREM Gate == Spec => []GatedAfterInitialize
<1>1. IInv => GatedAfterInitialize
  BY DEF IInv
<1> QED BY <1>1, Invariance, PTL

\* The step by which a loop without its client leaves.
LEMMA DrainStep ==
  ASSUME IInv, Next, lp = "checking", lp' = "closing", NEW r \in Requests
  PROVE  /\ task[r] \notin {"running", "finished"}
         /\ r \in abandoned => OnWire(Notice(r))
<1>1. count = 0 /\ noticeQ = <<>>
  <2>1. CASE Check
    BY <2>1 DEF Check
  <2>2. CASE ~Check
    BY <2>2 DEF Next, ReadStep, BranchStep, TaskStep, Reads, ReadInitialize, HandleInitialize,
       OnConnect, ReadNotification, NotificationHandled, ReadMalformed, ReadFails, ReadEnd,
       ReadRequest, ReadCancelled, TakeNotification, TakeOutbound, TakeNotice, Write, WriteFails,
       StopSignal, CloseRequests, OnShutdown, Finish, Discount, Queue, Panic, AbandonQuestion,
       Emit, RequestStop, loopVars
  <2> QED BY <2>1, <2>2
<1>2. r \notin Unfinished
  BY <1>1, FS_EmptySet DEF IInv, Counted
<1>3. ~Has(noticeQ, r)
  BY <1>1 DEF Has
<1> QED BY <1>2, <1>3 DEF Unfinished, IInv, Told, OnWire, Has

\* A loop that leaves because its client is gone leaves no handler behind and
\* no notice unsent (the exit test after each branch).
THEOREM Drains == Spec => DrainLeavesNothing
<1>1. IInv /\ [Next]_vars =>
        [lp = "checking" /\ lp' = "closing" =>
           \A r \in Requests :
             /\ task[r] \notin {"running", "finished"}
             /\ r \in abandoned => OnWire(Notice(r))]_vars
  BY DrainStep
<1> QED BY <1>1, Invariance, PTL DEF Spec, DrainLeavesNothing

-----------------------------------------------------------------------------
(* What the liveness of a connection rests on.                             *)

Ending == lp \in {"closing", "shutdown", "stopped"}

\* The loop has an item in hand only while it writes it.
ItemWritten == item # Suppressed => lp = "writing"

\* A request that is done had its response suppressed, or the response is
\* queued, in the hand of the loop or written, until the loop ends.
AnswerKept ==
  \A r \in Requests :
    task[r] = "done" /\ ~Ending => r \in suppressed \/ Responded(r)

\* A loop that waits without its client has something queued, or a request
\* that has still to queue its item.
SomethingWakes ==
  disconnected /\ lp = "ready" =>
    \/ outQ # <<>> \/ noticeQ # <<>>
    \/ \E r \in Requests : task[r] \in {"running", "finished", "counted", "panicked"}

\* A loop that ends does not go back.
LEMMA EndingStays == ASSUME Next, Ending PROVE Ending'
BY DEF Ending, Next, ReadStep, BranchStep, TaskStep, Reads, ReadInitialize, HandleInitialize,
   OnConnect, ReadNotification, NotificationHandled, ReadMalformed, ReadFails, ReadEnd,
   ReadRequest, ReadCancelled, TakeNotification, TakeOutbound, TakeNotice, Write, WriteFails,
   StopSignal, Check, CloseRequests, OnShutdown, Finish, Discount, Queue, Panic, AbandonQuestion,
   Emit, RequestStop, loopVars

LEMMA ItemStep == ASSUME TypeOK, ItemWritten, Next PROVE ItemWritten'
<1> USE DEF ItemWritten, Writes, loopVars
<1>1. CASE ReadStep
  BY <1>1 DEF ReadStep, Reads, ReadInitialize, HandleInitialize, OnConnect, ReadNotification,
     NotificationHandled, ReadMalformed, ReadFails, ReadEnd, ReadRequest, ReadCancelled
<1>2. CASE BranchStep
  BY <1>2 DEF BranchStep, TakeNotification, TakeOutbound, TakeNotice, Write, WriteFails,
     StopSignal, Check, CloseRequests, OnShutdown, NextBranch
<1>3. CASE \E r \in Requests : TaskStep(r)
  BY <1>3 DEF TaskStep, Finish, Discount, Queue, Panic, AbandonQuestion
<1>4. CASE RequestStop \/ \E n \in Notes, e \in Requests \cup {Server} : Emit(n, e)
  BY <1>4 DEF RequestStop, Emit
<1> QED BY <1>1, <1>2, <1>3, <1>4 DEF Next

\* Who is done from now on queued its item.
LEMMA DoneIs ==
  ASSUME TypeOK, Next, NEW r \in Requests, task[r] # "done", task'[r] = "done"
  PROVE  Queue(r)
BY TasksAlone DEF TypeOK, ReadRequest, ReadCancelled, Finish, Discount, Queue, Panic

\* What is queued stays queued when more is.
LEMMA OutGrows ==
  ASSUME TypeOK, NEW e, outQ' = Append(outQ, e)
  PROVE  \A i : Has(outQ, i) => Has(outQ', i)
<1>1. outQ \in Seq(Outbound)
  BY DEF TypeOK
<1>2. \A i : Has(Append(outQ, e), i) <=> Has(outQ, i) \/ i = e
  BY <1>1, HasAppend
<1> QED BY <1>2

LEMMA KeptStep == ASSUME TypeOK, ItemWritten, AnswerKept, Next PROVE AnswerKept'
<1> SUFFICES ASSUME NEW r \in Requests, task'[r] = "done", ~Ending', r \notin suppressed'
             PROVE  Responded(r)'
  BY DEF AnswerKept
<1>a. ~Ending
  BY EndingStays
<1>b. CASE task[r] # "done"
  <2>1. Queue(r)
    BY <1>b, DoneIs
  <2>2. outQ' = Append(outQ, Response(r))
    BY <1>a, <2>1 DEF Queue, Ending
  <2> QED BY <2>2, HasAppend DEF TypeOK, Responded
<1>c. CASE task[r] = "done"
  <2>a. Responded(r)
    BY <1>a, <1>c, DoneStays DEF AnswerKept
  <2>b. Has(wire, Response(r)) => Has(wire', Response(r))
    BY WireGrows
  <2>1. CASE SendingAlone
    BY <2>1, <2>a DEF SendingAlone, Responded
  <2>2. CASE ReadInitialize \/ HandleInitialize \/ OnConnect \/ ReadMalformed
    <3>1. UNCHANGED <<outQ, wire>> /\ lp # "writing"
      BY <2>2 DEF ReadInitialize, HandleInitialize, OnConnect, ReadMalformed, Reads, queueVars
    <3> QED BY <2>a, <3>1, Kinds DEF ItemWritten, Responded
  <2>3. CASE TakeNotification
    <3>1. UNCHANGED <<item, wire>> /\ outQ' \in {outQ, Append(outQ, Note(Head(noteQ)))}
      BY <2>3 DEF TakeNotification
    <3>2. Has(outQ, Response(r)) => Has(outQ', Response(r))
      BY <3>1, OutGrows
    <3> QED BY <2>a, <3>1, <3>2 DEF Responded
  <2>4. CASE TakeOutbound
    <3>1. /\ outQ # <<>> /\ outQ' = Tail(outQ) /\ UNCHANGED wire /\ lp = "ready"
          /\ Head(outQ) # Suppressed => item' = Head(outQ)
      BY <2>4 DEF TakeOutbound, Writes
    <3>2. Has(outQ, Response(r)) => Response(r) = Head(outQ) \/ Has(outQ', Response(r))
      BY <3>1, HasTail DEF TypeOK
    <3> QED BY <2>a, <3>1, <3>2, Kinds DEF ItemWritten, Responded
  <2>5. CASE TakeNotice
    <3>1. UNCHANGED <<outQ, wire>> /\ lp # "writing"
      BY <2>5 DEF TakeNotice
    <3> QED BY <2>a, <3>1, Kinds DEF ItemWritten, Responded
  <2>6. CASE Write
    <3>1. UNCHANGED outQ /\ (item # ErrorResponse => wire' = Append(wire, item))
      BY <2>6 DEF Write
    <3>2. wire \in Seq(Items)
      BY DEF TypeOK
    <3>3. \A i : Has(Append(wire, item), i) <=> Has(wire, i) \/ i = item
      BY <3>2, HasAppend
    <3>4. item = Response(r) => wire' = Append(wire, item)
      BY <3>1, Kinds
    <3>5. item = Response(r) => Has(wire', Response(r))
      BY <3>3, <3>4
    <3> QED BY <2>a, <2>b, <3>1, <3>5 DEF Responded
  <2>7. CASE WriteFails
    BY <2>7 DEF WriteFails, Ending
  <2>8. ASSUME NEW q \in Requests, Queue(q) PROVE Responded(r)'
    <3>1. UNCHANGED <<item, wire>>
      BY <2>8 DEF Queue, loopVars
    <3>2. outQ' = outQ \/ \E e \in {Suppressed, Response(q)} : outQ' = Append(outQ, e)
      BY <2>8 DEF Queue
    <3>3. Has(outQ, Response(r)) => Has(outQ', Response(r))
      BY <3>2, OutGrows
    <3> QED BY <2>a, <3>1, <3>3 DEF Responded
  <2> QED BY <2>1, <2>2, <2>3, <2>4, <2>5, <2>6, <2>7, <2>8, SendingSteps
<1> QED BY <1>b, <1>c

\* The steps after which a loop without its client waits: the exit test, and those
\* that do not move the loop.
LEMMA WaitSteps ==
  ASSUME Next, disconnected', lp' = "ready"
  PROVE  \/ Check
         \/ /\ disconnected /\ lp = "ready"
            /\ \/ UNCHANGED <<task, outQ, noticeQ>>
               \/ \E r \in Requests : TaskStep(r)
<1> USE DEF NextBranch, Writes, taskVars, loopVars, queueVars
<1>1. CASE ReadStep
  BY <1>1 DEF ReadStep, Reads, ReadInitialize, HandleInitialize, OnConnect, ReadNotification,
     NotificationHandled, ReadMalformed, ReadFails, ReadEnd, ReadRequest, ReadCancelled
<1>2. CASE BranchStep
  BY <1>2 DEF BranchStep, TakeNotification, TakeOutbound, TakeNotice, Write, WriteFails,
     StopSignal, CloseRequests, OnShutdown
<1>3. CASE \E r \in Requests : TaskStep(r)
  BY <1>3 DEF TaskStep, Finish, Discount, Queue, Panic, AbandonQuestion
<1>4. CASE RequestStop \/ \E n \in Notes, e \in Requests \cup {Server} : Emit(n, e)
  BY <1>4 DEF RequestStop, Emit
<1> QED BY <1>1, <1>2, <1>3, <1>4 DEF Next

LEMMA WakesStep == ASSUME TypeOK, Counted, SomethingWakes, Next PROVE SomethingWakes'
<1> SUFFICES ASSUME disconnected', lp' = "ready"
             PROVE  \/ outQ' # <<>> \/ noticeQ' # <<>>
                    \/ \E r \in Requests :
                         task'[r] \in {"running", "finished", "counted", "panicked"}
  BY DEF SomethingWakes
<1>1. CASE Check
  <2>1. UNCHANGED <<task, outQ, noticeQ>>
    BY <1>1 DEF Check, taskVars, queueVars
  <2>2. CASE count # 0
    <3>1. Unfinished # {}
      BY <2>2, FS_EmptySet DEF Counted
    <3> QED BY <2>1, <3>1 DEF Unfinished
  <2>3. CASE count = 0
    BY <1>1, <2>1, <2>3 DEF Check
  <2> QED BY <2>2, <2>3
<1>2. CASE disconnected /\ lp = "ready" /\ UNCHANGED <<task, outQ, noticeQ>>
  BY <1>2 DEF SomethingWakes
<1>3. ASSUME NEW r \in Requests, TaskStep(r), disconnected, lp = "ready"
      PROVE  \/ outQ' # <<>> \/ noticeQ' # <<>>
             \/ \E q \in Requests :
                  task'[q] \in {"running", "finished", "counted", "panicked"}
  <2>1. CASE Finish(r) \/ Discount(r) \/ Panic(r) \/ AbandonQuestion(r)
    <3>1. task'[r] \in {"running", "finished", "counted", "panicked"}
      BY <2>1 DEF Finish, Discount, Panic, AbandonQuestion, TypeOK
    <3> QED BY <3>1
  <2>2. CASE Queue(r)
    <3>1. PICK e \in {Suppressed, Response(r)} : outQ' = Append(outQ, e)
      BY <1>3, <2>2 DEF Queue
    <3>2. Has(outQ', e)
      BY <3>1, HasAppend DEF TypeOK
    <3> QED BY <3>2 DEF Has
  <2> QED BY <1>3, <2>1, <2>2 DEF TaskStep
<1> QED BY <1>1, <1>2, <1>3, WaitSteps

LEMMA KeptInvariance == Spec => [](ItemWritten /\ AnswerKept /\ SomethingWakes)
<1> DEFINE Inv == ItemWritten /\ AnswerKept /\ SomethingWakes
<1>1. Init => Inv
  BY DEF Init, ItemWritten, AnswerKept, SomethingWakes
<1>2. IInv /\ Inv /\ [Next]_vars => Inv'
  <2>1. ASSUME IInv, Inv, Next PROVE Inv'
    BY <2>1, ItemStep, KeptStep, WakesStep DEF IInv
  <2>2. ASSUME Inv, UNCHANGED vars PROVE Inv'
    BY <2>2 DEF ItemWritten, AnswerKept, SomethingWakes, Ending, Responded, vars, loopVars,
                taskVars, queueVars
  <2> QED BY <2>1, <2>2
<1> QED BY <1>1, <1>2, Invariance, PTL DEF Spec

\* No response is dropped on its way: once the task of a request is done, its
\* response was suppressed by a cancellation or is queued, being written or
\* written, as long as the loop goes on. With the fairness of the loop this is
\* why a request is answered (Answered).
THEOREM ResponsesKept == Spec => []AnswerKept
BY KeptInvariance, PTL

\* A loop that drains for a lost client never waits for nothing: something is
\* queued for it, or a request is unfinished or about to queue the item that
\* wakes it (server.rs:927). Without a panic this is why the drain ends
\* (DrainEnds).
THEOREM DrainNeverSleeps == Spec => []SomethingWakes
BY KeptInvariance, PTL
=============================================================================
