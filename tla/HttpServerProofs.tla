--------------------------- MODULE HttpServerProofs ---------------------------
(***************************************************************************)
(* The two halves of the HTTP server, each for any values of its bounds.   *)
(*                                                                         *)
(* The stream of a session: the inductive invariant follows the events     *)
(* between the replay buffer and the client.  Each sequence on the way is  *)
(* a run of consecutive numbers, each run continues the one before it, and *)
(* what lies between the client and the first event on the way was         *)
(* forgotten.                                                              *)
(*                                                                         *)
(* The table of sessions: a session enters the table once, before any POST *)
(* can name it, and whatever takes it out afterwards takes it out for      *)
(* good; a POST that waits loses its sender only to a cancellation in its  *)
(* own session.                                                            *)
(***************************************************************************)
EXTENDS SessionStream, HttpSessions, Integers, TLAPS

-----------------------------------------------------------------------------
(* The stream of a session.                                                *)

\* A run of consecutive numbers.
Run(s) == \A i \in 1..Len(s) : s[i] = s[1] + (i - 1)

\* Every event between the last one read and e was forgotten.
ForgottenUpTo(e) == \A d \in Nat : lastSeen < d /\ d < e => Forgotten(d)

\* The replay buffer ends with the last event and is full once events left it.
ReplayOK ==
  /\ Len(replay) <= lastId
  /\ Len(replay) < ReplayCapacity => Len(replay) = lastId
  /\ \A i \in 1..Len(replay) : replay[i] = (lastId - Len(replay)) + i

QueueOf(n) ==
  /\ Run(queue[n])
  /\ \A i \in 1..Len(queue[n]) : queue[n][i] <= lastId
  /\ n = tx /\ queue[n] # <<>> => queue[n][1] + Len(queue[n]) = lastId + 1
  /\ status[n] # "attached" => ~receiver[n] /\ n # tx
  /\ ~receiver[n] => queue[n] = <<>>

QueuesOK == \A n \in Streams : QueueOf(n)

\* The GETs: none after the last one was sent, the one the client waits for
\* names the last event it read, and nothing is on the way without a stream.
GetsOK ==
  /\ \A n \in Streams : n > get => status[n] = "unsent"
  /\ client # "away" => get # 0
  /\ client = "asking" => asked[get] = lastSeen
  /\ client = "asking" /\ status[get] # "attached" => wire = <<>>
  /\ client = "reading" => status[get] = "attached"
  /\ client = "away" => wire = <<>>

\* The events on the way to the client: what is on the wire, then what is queued
\* on its stream, then what the installed stream has still to accept.
PendingOK ==
  client # "away" =>
    /\ Run(wire)
    /\ \A i \in 1..Len(wire) : wire[i] <= lastId
    /\ wire # <<>> => wire[1] > lastSeen /\ ForgottenUpTo(wire[1])
    /\ queue[get] # <<>> =>
         IF wire = <<>>
         THEN queue[get][1] > lastSeen /\ ForgottenUpTo(queue[get][1])
         ELSE queue[get][1] = wire[1] + Len(wire)
    /\ tx = get /\ queue[get] = <<>> =>
         IF wire = <<>>
         THEN ForgottenUpTo(lastId + 1)
         ELSE wire[1] + Len(wire) = lastId + 1

\* What the client has read.
ReceivedOK ==
  /\ lastSeen <= lastId
  /\ \A i \in 1..Len(received) : received[i] <= lastSeen

StreamInv ==
  /\ StreamTypeOK /\ ReplayOK /\ QueuesOK /\ GetsOK /\ PendingOK
  /\ ReceivedOK /\ InOrderOnce /\ NoSilentLoss

-----------------------------------------------------------------------------
(* Sequences.                                                              *)

\* Append keeps what was there and adds its element at the end.
LEMMA AppendIs ==
  ASSUME NEW S, NEW s \in Seq(S), NEW e \in S
  PROVE  /\ Append(s, e) \in Seq(S)
         /\ Len(Append(s, e)) = Len(s) + 1
         /\ Append(s, e) # <<>>
         /\ \A i \in 1..Len(s) : Append(s, e)[i] = s[i]
         /\ Append(s, e)[Len(s) + 1] = e
  OBVIOUS

\* Tail drops the first element and moves the others.
LEMMA TailIs ==
  ASSUME NEW S, NEW s \in Seq(S), s # <<>>
  PROVE  /\ Tail(s) \in Seq(S)
         /\ Len(s) > 0
         /\ Len(Tail(s)) = Len(s) - 1
         /\ Head(s) \in S
         /\ Head(s) = s[1]
         /\ \A i \in 1..(Len(s) - 1) : Tail(s)[i] = s[i + 1]
  OBVIOUS

\* A sequence is empty when its length is zero.
LEMMA EmptyIs ==
  ASSUME NEW S, NEW s \in Seq(S)
  PROVE  s = <<>> <=> Len(s) = 0
  OBVIOUS

\* A sequence that ends with its first element has no other.
LEMMA SingleIs ==
  ASSUME NEW S, NEW s \in Seq(S), s # <<>>, Tail(s) = <<>>
  PROVE  Len(s) = 1
  <1>1. Len(s) \in Nat /\ Len(Tail(s)) = Len(s) - 1
    BY TailIs
  <1>2. Len(Tail(s)) = 0
    BY TailIs, EmptyIs
  <1>. QED
    BY <1>1, <1>2

\* The rest of a sequence after its first k elements.
LEMMA SuffixIs ==
  ASSUME NEW S, NEW s \in Seq(S), NEW k \in 0..Len(s)
  PROVE  /\ SubSeq(s, k + 1, Len(s)) \in Seq(S)
         /\ Len(SubSeq(s, k + 1, Len(s))) = Len(s) - k
         /\ \A i \in 1..(Len(s) - k) : SubSeq(s, k + 1, Len(s))[i] = s[k + i]
  OBVIOUS

\* A run stays one without its first event.
LEMMA TailRun ==
  ASSUME NEW s \in Seq(Events), s # <<>>, Run(s)
  PROVE  Run(Tail(s)) /\ (Tail(s) # <<>> => Tail(s)[1] = s[1] + 1)
  <1>1. Events \subseteq Int
    BY DEF Events
  <1>2. s[1] \in Int
    BY <1>1, TailIs
  <1>3. Tail(s) # <<>> => Len(Tail(s)) > 0
    BY TailIs, EmptyIs
  <1>4. \A i \in 1..(Len(s) - 1) : Tail(s)[i] = s[1] + i
    BY <1>2, TailIs DEF Run
  <1>. QED
    BY <1>2, <1>3, <1>4, TailIs DEF Run

\* A run stays one with the next event at its end.
LEMMA AppendRun ==
  ASSUME NEW s \in Seq(Events), NEW e \in Events, Run(s),
         s # <<>> => e = s[1] + Len(s)
  PROVE  Run(Append(s, e)) /\ Append(s, e)[1] = IF s = <<>> THEN e ELSE s[1]
  <1>1. e \in Int
    BY DEF Events
  <1>2. CASE s = <<>>
    BY <1>1, <1>2, AppendIs DEF Run
  <1>3. CASE s # <<>>
    <2>1. Len(s) > 0 /\ s[1] \in Events
      BY <1>3, TailIs
    <2>2. s[1] \in Int
      BY <2>1 DEF Events
    <2>. QED
      BY <1>1, <1>3, <2>1, <2>2, AppendIs DEF Run
  <1>. QED
    BY <1>2, <1>3

-----------------------------------------------------------------------------
(* The operations of StreamState.                                          *)

\* Remember keeps the last events and forgets none before the buffer is full.
LEMMA RememberIs ==
  ASSUME StreamTypeOK, ReplayOK, lastId < MaxEvents
  PROVE  LET new == Remember(lastId + 1)
         IN  /\ new \in Seq(Events)
             /\ Len(new) <= ReplayCapacity
             /\ Len(new) <= lastId + 1
             /\ Len(new) < ReplayCapacity => Len(new) = lastId + 1
             /\ \A i \in 1..Len(new) : new[i] = ((lastId + 1) - Len(new)) + i
  <1> USE CapacityAssumption, BoundAssumption
  <1> DEFINE all == Append(replay, lastId + 1)
  <1>1. lastId \in Nat /\ lastId + 1 \in Events /\ replay \in Seq(Events)
    BY DEF StreamTypeOK, Events
  <1>2. /\ all \in Seq(Events) /\ Len(all) = Len(replay) + 1 /\ all # <<>>
        /\ \A i \in 1..Len(replay) : all[i] = replay[i]
        /\ all[Len(replay) + 1] = lastId + 1
    BY <1>1, AppendIs
  <1> HIDE DEF all
  <1>3. ASSUME NEW i \in 1..Len(all)
        PROVE  all[i] = (lastId - Len(replay)) + i
    <2>1. CASE i \in 1..Len(replay)
      BY <1>2, <2>1 DEF ReplayOK
    <2>2. CASE i \notin 1..Len(replay)
      <3>1. i = Len(replay) + 1
        BY <1>1, <1>2, <2>2
      <3>. QED
        BY <1>1, <1>2, <3>1
    <2>. QED
      BY <2>1, <2>2
  <1>4. /\ Tail(all) \in Seq(Events) /\ Len(Tail(all)) = Len(replay)
        /\ \A i \in 1..Len(replay) : Tail(all)[i] = all[i + 1]
    BY <1>2, TailIs
  <1>5. \A i \in 1..Len(replay) : Tail(all)[i] = (lastId - Len(replay)) + (i + 1)
    BY <1>1, <1>2, <1>3, <1>4
  <1>6. Len(replay) <= ReplayCapacity
    BY DEF StreamTypeOK
  <1>7. CASE Len(all) > ReplayCapacity
    <2>1. Remember(lastId + 1) = Tail(all)
      BY <1>7 DEF Remember, all
    <2>2. Len(replay) = ReplayCapacity
      BY <1>1, <1>2, <1>6, <1>7
    <2>3. lastId - Len(replay) \in Int /\ Len(replay) <= lastId
      BY <1>1 DEF ReplayOK
    <2>4. ASSUME NEW i \in 1..Len(replay)
          PROVE  Tail(all)[i] = ((lastId + 1) - Len(replay)) + i
      <3>1. Tail(all)[i] = (lastId - Len(replay)) + (i + 1)
        BY <1>5
      <3>2. i \in Int /\ Len(replay) \in Int /\ lastId \in Int
        BY <1>1
      <3>3. \A l, m, k \in Int : (l - m) + (k + 1) = ((l + 1) - m) + k
        OBVIOUS
      <3>. QED
        BY <3>1, <3>2, <3>3
    <2> DEFINE new == Tail(all)
    <2> HIDE DEF new
    <2>5. /\ new \in Seq(Events) /\ Len(new) = Len(replay)
          /\ \A i \in 1..Len(replay) : new[i] = ((lastId + 1) - Len(replay)) + i
      BY <1>4, <2>4 DEF new
    <2>6. Remember(lastId + 1) = new
      BY <2>1 DEF new
    <2>7. /\ Len(new) = ReplayCapacity /\ Len(new) <= lastId + 1
          /\ Len(new) \in Nat
      BY <1>1, <2>2, <2>3, <2>5
    <2>8. Len(new) <= ReplayCapacity /\ ~(Len(new) < ReplayCapacity)
      BY <2>7
    <2>9. \A i \in 1..Len(new) : new[i] = ((lastId + 1) - Len(new)) + i
      BY <2>5
    <2>. QED
      BY <2>5, <2>6, <2>7, <2>8, <2>9
  <1>8. CASE ~(Len(all) > ReplayCapacity)
    <2>1. Remember(lastId + 1) = all
      BY <1>8 DEF Remember, all
    <2>2. Len(replay) = lastId
      BY <1>1, <1>2, <1>8 DEF ReplayOK
    <2>. QED
      BY <1>1, <1>2, <1>3, <1>8, <2>1, <2>2
  <1>. QED
    BY <1>7, <1>8

\* What a stream starts with continues what its client has read, but for events
\* that left the replay buffer, and ends with the last event.
LEMMA ReplayedIs ==
  ASSUME StreamTypeOK, ReplayOK, NEW last \in 0..MaxEvents
  PROVE  LET q == Replayed(last)
         IN  /\ q \in Seq(Events)
             /\ Len(q) <= ReplayCapacity
             /\ last = 0 => q = <<>>
             /\ Run(q)
             /\ \A i \in 1..Len(q) : q[i] <= lastId
             /\ q # <<>> => q[1] > last /\ q[1] + Len(q) = lastId + 1
             /\ last # 0 /\ q = <<>> =>
                  \A d \in Nat : last < d => ~(d <= lastId)
             /\ last # 0 /\ q # <<>> =>
                  \A d \in Nat : last < d /\ d < q[1] => d + ReplayCapacity <= lastId
  <1> USE CapacityAssumption, BoundAssumption
  <1>1. CASE last = 0
    BY <1>1, EmptyIs DEF Replayed, Run
  <1>2. CASE last # 0
    <2> DEFINE n == Len(replay)
               base == lastId - n
               Old(k) == \A i \in 1..n : i <= k <=> replay[i] <= last
               old == CHOOSE k \in 0..n : Old(k)
               q == SubSeq(replay, old + 1, n)
    <2>1. /\ replay \in Seq(Events) /\ n \in Nat /\ lastId \in Nat /\ last \in Nat
          /\ base \in Nat /\ n <= ReplayCapacity
          /\ n < ReplayCapacity => base = 0
          /\ \A i \in 1..n : replay[i] = base + i
      BY DEF StreamTypeOK, ReplayOK, Events
    <2> HIDE DEF n, base
    <2>2. \E k \in 0..n : Old(k)
      <3>1. CASE last <= base
        <4>1. Old(0)
          BY <2>1, <3>1
        <4>. QED
          BY <2>1, <4>1
      <3>2. CASE base < last /\ last < base + n
        <4>1. last - base \in 0..n
          BY <2>1, <3>2
        <4>2. ASSUME NEW i \in 1..n
              PROVE  i <= last - base <=> replay[i] <= last
          <5>1. replay[i] = base + i /\ i \in Int /\ base \in Int /\ last \in Int
            BY <2>1
          <5>. QED
            BY <5>1
        <4>. QED
          BY <4>1, <4>2
      <3>3. CASE last >= base + n
        <4>1. ASSUME NEW i \in 1..n
              PROVE  i <= n /\ replay[i] <= last
          BY <2>1, <3>3
        <4>2. n \in 0..n
          BY <2>1
        <4>. QED
          BY <4>1, <4>2
      <3>. QED
        BY <2>1, <3>1, <3>2, <3>3
    <2>3. old \in 0..n /\ Old(old)
      BY <2>2
    <2> HIDE DEF old
    <2>4. /\ q \in Seq(Events) /\ Len(q) = n - old
          /\ \A i \in 1..(n - old) : q[i] = replay[old + i]
      BY <2>1, <2>3, SuffixIs DEF n
    <2>5. Replayed(last) = q
      BY <1>2 DEF Replayed, old, n
    <2> HIDE DEF q
    <2>6. ASSUME NEW i \in 1..Len(q)
          PROVE  q[i] = base + (old + i)
      <3>1. i \in 1..(n - old) /\ old + i \in 1..n
        BY <2>1, <2>3, <2>4
      <3>. QED
        BY <2>1, <2>4, <3>1
    <2>7. base + n = lastId
      BY <2>1 DEF base
    <2>8. Run(q) /\ \A i \in 1..Len(q) : q[i] <= lastId
      <3>1. ASSUME NEW i \in 1..Len(q)
            PROVE  q[i] = q[1] + (i - 1) /\ q[i] <= lastId
        <4>1. 1 \in 1..Len(q) /\ i <= n - old
          BY <2>1, <2>3, <2>4
        <4>2. q[i] = base + (old + i) /\ q[1] = base + (old + 1)
          BY <2>6, <4>1
        <4>. QED
          BY <2>1, <2>3, <2>7, <4>1, <4>2
      <3>. QED
        BY <3>1 DEF Run
    <2>9. ASSUME q # <<>>
          PROVE  /\ q[1] > last /\ q[1] + Len(q) = lastId + 1
                 /\ \A d \in Nat : last < d /\ d < q[1] => d + ReplayCapacity <= lastId
      <3>1. Len(q) > 0 /\ q[1] = base + (old + 1)
        BY <2>3, <2>4, <2>6, <2>9, EmptyIs
      <3>2. ~(replay[old + 1] <= last) /\ replay[old + 1] = q[1]
        <4>1. old + 1 \in 1..n /\ 1 \in 1..(n - old) /\ ~(old + 1 <= old)
          BY <2>1, <2>3, <2>4, <3>1
        <4>. QED
          BY <2>3, <2>4, <4>1
      <3>3. q[1] + Len(q) = lastId + 1
        BY <2>1, <2>3, <2>4, <2>7, <3>1
      <3>4. ASSUME old > 0
            PROVE  base + old <= last
        <4>1. old \in 1..n
          BY <2>1, <2>3, <3>4
        <4>2. replay[old] = base + old
          BY <2>1, <4>1
        <4>3. replay[old] <= last
          BY <2>3, <4>1
        <4>. QED
          BY <4>2, <4>3
      <3>5. ASSUME NEW d \in Nat, last < d, d < q[1]
            PROVE  d + ReplayCapacity <= lastId
        <4>1. old = 0 /\ d <= base
          BY <2>1, <2>3, <3>1, <3>4, <3>5
        <4>2. n = ReplayCapacity
          BY <2>1, <3>5, <4>1
        <4>. QED
          BY <2>1, <2>7, <3>5, <4>1, <4>2
      <3>. QED
        BY <2>1, <2>3, <3>1, <3>2, <3>3, <3>5
    <2>10. ASSUME q = <<>>
           PROVE  \A d \in Nat : last < d => ~(d <= lastId)
      <3>1. old = n
        BY <2>1, <2>3, <2>4, <2>10, EmptyIs
      <3>2. CASE n = 0
        <4>1. lastId = 0
          BY <2>1, <2>7, <3>2
        <4>. QED
          BY <2>1, <4>1
      <3>3. CASE n > 0
        <4>1. n \in 1..n /\ n <= old
          BY <2>1, <3>1, <3>3
        <4>2. replay[n] <= last /\ replay[n] = base + n
          BY <2>1, <2>3, <4>1
        <4>. QED
          BY <2>1, <2>7, <4>2
      <3>. QED
        BY <2>1, <3>2, <3>3
    <2>11. Len(q) <= ReplayCapacity
      BY <2>1, <2>3, <2>4
    <2>. QED
      BY <1>2, <2>4, <2>5, <2>8, <2>9, <2>10, <2>11
  <1>. QED
    BY <1>1, <1>2
-----------------------------------------------------------------------------
(* Steps.                                                                  *)

\* The actions of StreamNext, or a stutter.
Attaching == \E n \in Streams : AttachStream(n)
Dropping  == \E n \in Streams : ReceiverDropped(n)

LEMMA StreamStepCases ==
  ASSUME [StreamNext]_streamVars
  PROVE  \/ SendToStream \/ Attaching \/ ClearStream \/ Dropping \/ Ask \/ Opened
         \/ Write \/ Read \/ End \/ Break \/ UNCHANGED streamVars
  BY DEF StreamNext, Attaching, Dropping

\* What was forgotten stays so: a GET is attached once and for all.
LEMMA ForgottenStays ==
  ASSUME StreamInv, [StreamNext]_streamVars, NEW d \in Nat, Forgotten(d)
  PROVE  Forgotten(d)'
  <1> USE DEF StreamInv, StreamTypeOK
  <1>0. PICK n \in Streams : /\ status[n] = "attached" /\ d <= attachedAt[n]
                             /\ asked[n] = 0 \/ d + ReplayCapacity <= attachedAt[n]
    BY DEF Forgotten
  <1>. SUFFICES /\ status'[n] = status[n] /\ attachedAt'[n] = attachedAt[n]
                /\ asked'[n] = asked[n]
    BY <1>0 DEF Forgotten
  <1>1. CASE UNCHANGED <<status, attachedAt, asked>>
    BY <1>1
  <1>2. CASE Attaching
    <2>1. PICK m \in Streams : AttachStream(m)
      BY <1>2 DEF Attaching
    <2>2. m # n
      BY <1>0, <2>1 DEF AttachStream
    <2>. QED
      BY <2>1, <2>2 DEF AttachStream, clientVars
  <1>3. CASE Ask
    <2>1. n # get + 1
      BY <1>0, <1>3 DEF Ask, GetsOK, Streams
    <2>. QED
      BY <1>3, <2>1 DEF Ask
  <1>. QED
    BY <1>1, <1>2, <1>3, StreamStepCases
    DEF SendToStream, ClearStream, Dropping, ReceiverDropped, Opened, Write, Read,
        End, Break, streamVars, serverVars, clientVars

-----------------------------------------------------------------------------
(* The parts of the invariant.                                             *)

\* Initially nothing was sent.
LEMMA StreamInitOK == StreamInit => StreamInv
  <1>. SUFFICES ASSUME StreamInit PROVE StreamInv
    OBVIOUS
  <1>. USE CapacityAssumption, BoundAssumption DEF StreamInit
  <1>1. StreamTypeOK
    BY DEF StreamTypeOK
  <1>2. ReplayOK /\ GetsOK /\ PendingOK /\ ReceivedOK
    BY DEF ReplayOK, GetsOK, PendingOK, ReceivedOK, Streams
  <1>3. QueuesOK
    BY DEF QueuesOK, QueueOf, Run, Streams
  <1>4. InOrderOnce /\ NoSilentLoss
    BY DEF InOrderOnce, NoSilentLoss
  <1>. QED
    BY <1>1, <1>2, <1>3, <1>4 DEF StreamInv

LEMMA StreamTypeOKStep == StreamInv /\ [StreamNext]_streamVars => StreamTypeOK'
  <1>. SUFFICES ASSUME StreamInv, [StreamNext]_streamVars PROVE StreamTypeOK'
    OBVIOUS
  <1>. USE CapacityAssumption, BoundAssumption
  <1>0. StreamTypeOK /\ ReplayOK
    BY DEF StreamInv
  <1>1. CASE SendToStream
    <2>1. lastId + 1 \in Events /\ lastId' \in 0..MaxEvents
      BY <1>0, <1>1 DEF StreamTypeOK, SendToStream, Events
    <2>2. UNCHANGED <<receiver, clientVars, status, received, attachedAt>>
      BY <1>1 DEF SendToStream
    <2>3. replay' \in Seq(Events) /\ Len(replay') <= ReplayCapacity
      BY <1>0, <1>1, RememberIs DEF SendToStream
    <2>4. CASE tx # 0 /\ Accepts(tx)
      <3>1. tx \in Streams
        BY <1>0, <2>4 DEF StreamTypeOK, Streams
      <3>2. queue' = [queue EXCEPT ![tx] = Append(@, lastId + 1)] /\ tx' = tx
        BY <1>1, <2>4 DEF SendToStream
      <3>3. /\ Append(queue[tx], lastId + 1) \in Seq(Events)
            /\ Len(Append(queue[tx], lastId + 1)) <= StreamCapacity
        BY SMTT(30), <1>0, <2>1, <2>4, <3>1, AppendIs DEF StreamTypeOK, Accepts
      <3>4. /\ queue' \in [Streams -> Seq(Events)]
            /\ \A n \in Streams : Len(queue'[n]) <= StreamCapacity
        BY <1>0, <3>1, <3>2, <3>3 DEF StreamTypeOK
      <3>. QED
        BY <1>0, <2>1, <2>2, <2>3, <3>2, <3>4 DEF StreamTypeOK, clientVars
    <2>5. CASE ~(tx # 0 /\ Accepts(tx))
      <3>1. tx' = 0 /\ queue' = queue /\ tx' \in 0..MaxStreams
        BY <1>1, <2>5 DEF SendToStream
      <3>. QED
        BY <1>0, <2>1, <2>2, <2>3, <3>1 DEF StreamTypeOK, clientVars
    <2>. QED
      BY <2>4, <2>5
  <1>2. CASE Attaching
    <2>1. PICK n \in Streams : AttachStream(n)
      BY <1>2 DEF Attaching
    <2>2. Replayed(asked[n]) \in Seq(Events) /\ Len(Replayed(asked[n])) <= StreamCapacity
      <3>1. asked[n] \in 0..MaxEvents
        BY <1>0 DEF StreamTypeOK
      <3>2. Len(Replayed(asked[n])) <= ReplayCapacity /\ Replayed(asked[n]) \in Seq(Events)
        BY <1>0, <3>1, ReplayedIs
      <3>. QED
        BY <3>2
    <2>3. /\ queue' \in [Streams -> Seq(Events)]
          /\ \A m \in Streams : Len(queue'[m]) <= StreamCapacity
      BY <1>0, <2>1, <2>2 DEF StreamTypeOK, AttachStream
    <2>4. tx' \in 0..MaxStreams
      BY <2>1 DEF AttachStream, Streams
    <2>. QED
      BY <1>0, <2>1, <2>3, <2>4 DEF StreamTypeOK, AttachStream, clientVars
  <1>3. CASE ClearStream
    BY <1>0, <1>3 DEF StreamTypeOK, ClearStream, clientVars
  <1>4. CASE Dropping
    <2>1. PICK n \in Streams : ReceiverDropped(n)
      BY <1>4 DEF Dropping
    <2>2. /\ queue' \in [Streams -> Seq(Events)]
          /\ \A m \in Streams : Len(queue'[m]) <= StreamCapacity
      BY <1>0, <2>1 DEF StreamTypeOK, ReceiverDropped
    <2>. QED
      BY <1>0, <2>1, <2>2 DEF StreamTypeOK, ReceiverDropped, clientVars
  <1>5. CASE Ask
    <2>1. get + 1 \in Streams /\ get' = get + 1 /\ get' \in 0..MaxStreams
      BY <1>0, <1>5 DEF StreamTypeOK, Ask, Streams
    <2>2. wire' \in Seq(Events)
      BY <1>5 DEF Ask
    <2>. QED
      BY <1>0, <1>5, <2>1, <2>2 DEF StreamTypeOK, Ask, serverVars
  <1>6. CASE Opened
    BY <1>0, <1>6 DEF StreamTypeOK, Opened, serverVars
  <1>7. CASE Write
    <2>1. get \in Streams
      BY <1>7 DEF StreamInv, StreamTypeOK, GetsOK, Write, Streams
    <2>2. /\ Head(queue[get]) \in Events /\ Tail(queue[get]) \in Seq(Events)
          /\ Len(Tail(queue[get])) <= StreamCapacity
      <3>1. queue[get] \in Seq(Events) /\ queue[get] # <<>> /\ Len(queue[get]) <= StreamCapacity
        BY <1>0, <1>7, <2>1 DEF StreamTypeOK, Write
      <3>. QED
        BY <3>1, TailIs
    <2>3. Append(wire, Head(queue[get])) \in Seq(Events)
      BY <1>0, <2>2, AppendIs DEF StreamTypeOK
    <2>. QED
      BY <1>0, <1>7, <2>1, <2>2, <2>3 DEF StreamTypeOK, Write
  <1>8. CASE Read
    <2>1. Head(wire) \in Events /\ Tail(wire) \in Seq(Events)
      BY <1>0, <1>8, TailIs DEF StreamTypeOK, Read
    <2>2. Append(received, Head(wire)) \in Seq(Events) /\ Head(wire) \in 0..MaxEvents
      BY <1>0, <2>1, AppendIs DEF StreamTypeOK, Events
    <2>. QED
      BY <1>0, <1>8, <2>1, <2>2 DEF StreamTypeOK, Read, serverVars
  <1>9. CASE End
    BY <1>0, <1>9 DEF StreamTypeOK, End
  <1>10. CASE Break
    BY <1>0, <1>10 DEF StreamTypeOK, Break, serverVars
  <1>11. CASE UNCHANGED streamVars
    BY <1>0, <1>11 DEF StreamTypeOK, streamVars, serverVars, clientVars
  <1>. QED
    BY <1>1, <1>2, <1>3, <1>4, <1>5, <1>6, <1>7, <1>8, <1>9, <1>10, <1>11, StreamStepCases

\* Only send_to_stream touches the replay buffer.
LEMMA ReplayStep == StreamInv /\ [StreamNext]_streamVars => ReplayOK'
  <1>. SUFFICES ASSUME StreamInv, [StreamNext]_streamVars PROVE ReplayOK'
    OBVIOUS
  <1>1. CASE SendToStream
    BY <1>1, RememberIs DEF StreamInv, ReplayOK, SendToStream
  <1>2. CASE UNCHANGED <<lastId, replay>>
    BY <1>2 DEF StreamInv, ReplayOK
  <1>. QED
    BY <1>1, <1>2, StreamStepCases
    DEF Attaching, AttachStream, ClearStream, Dropping, ReceiverDropped, Ask, Opened,
        Write, Read, End, Break, streamVars, serverVars

\* A stream that gets its next event, and one that gives its first away.
LEMMA StreamQueuesStep == StreamInv /\ [StreamNext]_streamVars => QueuesOK'
  <1>. SUFFICES ASSUME StreamInv, [StreamNext]_streamVars, NEW m \in Streams
                PROVE  QueueOf(m)'
    BY DEF QueuesOK
  <1>0. /\ QueueOf(m) /\ queue[m] \in Seq(Events) /\ queue \in [Streams -> Seq(Events)]
        /\ lastId \in Nat /\ m # 0 /\ receiver \in [Streams -> BOOLEAN]
        /\ status \in [Streams -> {"unsent", "flying", "attached"}]
    <2>1. m # 0
      BY DEF Streams
    <2>2. QueueOf(m)
      BY DEF StreamInv, QueuesOK
    <2>. QED
      BY <2>1, <2>2 DEF StreamInv, StreamTypeOK
  <1>1. CASE SendToStream
    <2>1. lastId' = lastId + 1 /\ UNCHANGED <<receiver, status>>
      BY <1>1 DEF SendToStream
    <2>2. CASE queue'[m] = queue[m] /\ tx' # m
      <3>1. ASSUME NEW i \in 1..Len(queue[m])
            PROVE  queue[m][i] \in Int /\ queue[m][i] <= lastId
        <4>1. queue[m][i] \in Events
          BY <1>0
        <4>2. Events \subseteq Int
          BY DEF Events
        <4>. QED
          BY <1>0, <4>1, <4>2 DEF QueueOf
      <3>2. \A i \in 1..Len(queue'[m]) : queue'[m][i] <= lastId'
        BY <1>0, <2>1, <2>2, <3>1
      <3>3. Run(queue'[m])
        BY <1>0, <2>2 DEF QueueOf
      <3>. QED
        BY <1>0, <2>1, <2>2, <3>2, <3>3 DEF QueueOf
    <2>3. CASE ~(queue'[m] = queue[m] /\ tx' # m)
      <3>1. /\ tx = m /\ receiver[m] /\ tx' = tx
            /\ queue' = [queue EXCEPT ![m] = Append(@, lastId + 1)]
        BY <1>0, <1>1, <2>3 DEF SendToStream, Accepts
      <3>2. queue'[m] = Append(queue[m], lastId + 1)
        BY <1>0, <3>1
      <3>3. lastId + 1 \in Events
        BY <1>0, <1>1, BoundAssumption DEF SendToStream, Events
      <3>4. queue[m] # <<>> => lastId + 1 = queue[m][1] + Len(queue[m])
        BY <1>0, <3>1 DEF QueueOf
      <3>5. /\ Run(queue'[m])
            /\ queue'[m][1] = IF queue[m] = <<>> THEN lastId + 1 ELSE queue[m][1]
        BY <1>0, <3>2, <3>3, <3>4, AppendRun DEF QueueOf
      <3>6. Len(queue'[m]) = Len(queue[m]) + 1
        BY <1>0, <3>2, <3>3, AppendIs
      <3>7. ASSUME NEW i \in 1..Len(queue'[m])
            PROVE  queue'[m][i] <= lastId + 1
        <4>1. CASE i = Len(queue[m]) + 1
          BY <1>0, <3>2, <3>3, <4>1, AppendIs
        <4>2. CASE i # Len(queue[m]) + 1
          <5>1. i \in 1..Len(queue[m])
            BY <1>0, <3>6, <4>2
          <5>2. queue'[m][i] = queue[m][i] /\ queue[m][i] <= lastId /\ queue[m][i] \in Events
            BY <1>0, <3>2, <3>3, <5>1, AppendIs DEF QueueOf
          <5>. QED
            BY <1>0, <5>2 DEF Events
        <4>. QED
          BY <4>1, <4>2
      <3>8. queue'[m][1] + Len(queue'[m]) = lastId' + 1
        <4>1. CASE queue[m] = <<>>
          BY <1>0, <2>1, <3>5, <3>6, <4>1
        <4>2. CASE queue[m] # <<>>
          <5>1. queue[m][1] \in Events /\ Len(queue[m]) \in Nat
            BY <1>0, <4>2, TailIs
          <5>2. queue[m][1] \in Int
            BY <5>1 DEF Events
          <5>. QED
            BY <1>0, <2>1, <3>4, <3>5, <3>6, <4>2, <5>1, <5>2
        <4>. QED
          BY <4>1, <4>2
      <3>9. status'[m] = "attached"
        BY <1>0, <2>1, <3>1 DEF QueueOf
      <3>. QED
        BY <2>1, <3>1, <3>5, <3>7, <3>8, <3>9 DEF QueueOf
    <2>. QED
      BY <2>2, <2>3
  <1>2. CASE Attaching
    <2>1. PICK n \in Streams : AttachStream(n)
      BY <1>2 DEF Attaching
    <2>2. lastId' = lastId /\ tx' = n
      BY <2>1 DEF AttachStream
    <2>3. CASE n = m
      <3>1. queue'[m] = Replayed(asked[m]) /\ receiver'[m] /\ status'[m] = "attached"
        BY <1>0, <2>1, <2>3 DEF AttachStream
      <3>2. StreamTypeOK /\ ReplayOK /\ asked[m] \in 0..MaxEvents
        BY DEF StreamInv, StreamTypeOK
      <3>. QED
        BY <2>2, <3>1, <3>2, ReplayedIs DEF QueueOf
    <2>4. CASE n # m
      <3>1. queue'[m] = queue[m] /\ receiver'[m] = receiver[m] /\ status'[m] = status[m]
        BY <1>0, <2>1, <2>4 DEF AttachStream
      <3>. QED
        BY <1>0, <2>2, <2>4, <3>1 DEF QueueOf, Run
    <2>. QED
      BY <2>3, <2>4
  <1>3. CASE ClearStream
    BY <1>0, <1>3 DEF QueueOf, Run, ClearStream
  <1>4. CASE Dropping
    <2>1. PICK n \in Streams : ReceiverDropped(n)
      BY <1>4 DEF Dropping
    <2>2. CASE n = m
      <3>1. queue'[m] = <<>> /\ ~receiver'[m] /\ UNCHANGED <<tx, status, lastId>>
        BY <1>0, <2>1, <2>2 DEF ReceiverDropped
      <3>2. status[m] # "attached" => m # tx
        BY <1>0 DEF QueueOf
      <3>. QED
        BY <3>1, <3>2 DEF QueueOf, Run
    <2>3. CASE n # m
      <3>1. queue'[m] = queue[m] /\ receiver'[m] = receiver[m] /\ UNCHANGED <<tx, status, lastId>>
        BY <1>0, <2>1, <2>3 DEF ReceiverDropped
      <3>. QED
        BY <1>0, <3>1 DEF QueueOf, Run
    <2>. QED
      BY <2>2, <2>3
  <1>5. CASE Ask
    <2>1. UNCHANGED <<queue, receiver, tx, lastId>>
      BY <1>5 DEF Ask, serverVars
    <2>2. status'[m] # "attached" => status[m] # "attached"
      <3>1. get \in Nat /\ (m > get => status[m] = "unsent")
        BY DEF StreamInv, GetsOK, StreamTypeOK
      <3>2. status' = [status EXCEPT ![get + 1] = "flying"]
        BY <1>5 DEF Ask
      <3>. QED
        BY <1>0, <3>1, <3>2
    <2>. QED
      BY <1>0, <2>1, <2>2 DEF QueueOf, Run
  <1>6. CASE Write
    <2>1. get \in Streams /\ UNCHANGED <<lastId, tx, receiver, status>>
      BY <1>6 DEF Write, StreamInv, StreamTypeOK, GetsOK, Streams
    <2>2. CASE get = m
      <3>1. queue[m] # <<>> /\ queue'[m] = Tail(queue[m]) /\ receiver[m]
        BY <1>0, <1>6, <2>2 DEF Write
      <3>2. Run(queue'[m]) /\ (queue'[m] # <<>> => queue'[m][1] = queue[m][1] + 1)
        BY <1>0, <3>1, TailRun DEF QueueOf
      <3>3. /\ Len(queue'[m]) = Len(queue[m]) - 1 /\ Len(queue[m]) \in Nat
            /\ \A i \in 1..Len(queue'[m]) :
                 queue'[m][i] = queue[m][i + 1] /\ i + 1 \in 1..Len(queue[m])
            /\ queue[m][1] \in Events
        BY <1>0, <3>1, TailIs
      <3>4. \A i \in 1..Len(queue'[m]) : queue'[m][i] <= lastId
        BY <1>0, <3>3 DEF QueueOf
      <3>5. m = tx /\ queue'[m] # <<>> => queue'[m][1] + Len(queue'[m]) = lastId + 1
        BY <1>0, <3>1, <3>2, <3>3 DEF QueueOf, Events
      <3>. QED
        BY <1>0, <2>1, <3>1, <3>2, <3>4, <3>5 DEF QueueOf
    <2>3. CASE get # m
      <3>1. queue'[m] = queue[m]
        BY <1>0, <1>6, <2>3 DEF Write
      <3>. QED
        BY <1>0, <2>1, <3>1 DEF QueueOf, Run
    <2>. QED
      BY <2>2, <2>3
  <1>7. CASE End
    <2>1. UNCHANGED <<queue, status, tx, lastId>> /\ queue[get] = <<>>
      BY <1>7 DEF End
    <2>2. receiver'[m] = IF m = get THEN FALSE ELSE receiver[m]
      BY <1>0, <1>7 DEF End
    <2>. QED
      BY <1>0, <2>1, <2>2 DEF QueueOf, Run
  <1>8. CASE UNCHANGED <<lastId, tx, queue, receiver, status>>
    BY <1>0, <1>8 DEF QueueOf, Run
  <1>. QED
    BY <1>1, <1>2, <1>3, <1>4, <1>5, <1>6, <1>7, <1>8, StreamStepCases
    DEF Opened, Read, Break, streamVars, serverVars

\* The client's GETs.
LEMMA GetsStep == StreamInv /\ [StreamNext]_streamVars => GetsOK'
  <1>. SUFFICES ASSUME StreamInv, [StreamNext]_streamVars PROVE GetsOK'
    OBVIOUS
  <1>0. StreamTypeOK /\ GetsOK /\ QueuesOK
    BY DEF StreamInv
  <1>1. CASE Attaching
    <2>1. PICK n \in Streams : AttachStream(n)
      BY <1>1 DEF Attaching
    <2>2. UNCHANGED clientVars /\ status[n] = "flying"
          /\ status' = [status EXCEPT ![n] = "attached"]
      BY <2>1 DEF AttachStream
    <2>. QED
      BY <1>0, <2>2 DEF GetsOK, StreamTypeOK, clientVars
  <1>2. CASE Ask
    <2>1. /\ get \in Nat /\ get + 1 \in Streams /\ get' = get + 1
          /\ Streams \subseteq Nat
      BY <1>0, <1>2, BoundAssumption DEF StreamTypeOK, Ask, Streams
    <2>2. /\ client' = "asking" /\ wire' = <<>> /\ lastSeen' = lastSeen
          /\ status' = [status EXCEPT ![get + 1] = "flying"]
          /\ asked' = [asked EXCEPT ![get + 1] = lastSeen]
      BY <1>2 DEF Ask
    <2>3. \A n \in Streams : n > get' => status'[n] = "unsent"
      BY <1>0, <2>1, <2>2 DEF GetsOK, StreamTypeOK
    <2>4. asked'[get'] = lastSeen'
      BY <1>0, <2>1, <2>2 DEF StreamTypeOK
    <2>. QED
      BY <2>1, <2>2, <2>3, <2>4 DEF GetsOK
  <1>3. CASE Write
    <2>1. get \in Streams
      BY <1>0, <1>3 DEF Write, StreamTypeOK, GetsOK, Streams
    <2>2. status[get] = "attached"
      BY <1>0, <1>3, <2>1 DEF Write, QueuesOK, QueueOf
    <2>. QED
      BY <1>0, <1>3, <2>2 DEF GetsOK, Write
  <1>4. CASE SendToStream
    BY <1>0, <1>4 DEF GetsOK, SendToStream, clientVars
  <1>5. CASE ClearStream
    BY <1>0, <1>5 DEF GetsOK, ClearStream, clientVars
  <1>6. CASE Dropping
    BY <1>0, <1>6 DEF GetsOK, Dropping, ReceiverDropped, clientVars
  <1>7. CASE Opened
    BY <1>0, <1>7 DEF GetsOK, Opened
  <1>8. CASE Read
    BY <1>0, <1>8 DEF GetsOK, Read
  <1>9. CASE End
    BY <1>0, <1>9 DEF GetsOK, End
  <1>10. CASE Break
    BY <1>0, <1>10 DEF GetsOK, Break
  <1>11. CASE UNCHANGED streamVars
    BY <1>0, <1>11 DEF GetsOK, streamVars, clientVars
  <1>. QED
    BY <1>1, <1>2, <1>3, <1>4, <1>5, <1>6, <1>7, <1>8, <1>9, <1>10, <1>11, StreamStepCases

\* The first of a sequence of events, as a number.
LEMMA FirstIs ==
  ASSUME NEW s \in Seq(Events), s # <<>>
  PROVE  s[1] \in Int /\ s[1] = Head(s) /\ Len(s) > 0 /\ Len(s) \in Nat
  <1>1. s[1] \in Events /\ s[1] = Head(s) /\ Len(s) > 0 /\ Len(s) \in Nat
    BY TailIs
  <1>. QED
    BY <1>1 DEF Events

\* What is forgotten up to e stays so as long as the client reads nothing.
LEMMA UpToStays ==
  ASSUME StreamInv, [StreamNext]_streamVars, NEW e \in Int, lastSeen' = lastSeen, ForgottenUpTo(e)
  PROVE  \A d \in Nat : lastSeen' < d /\ d < e => Forgotten(d)'
  BY ForgottenStays DEF ForgottenUpTo

\* A step of the server or of time keeps what is pending when the queue and the
\* wire of the client stay, and the stream it reads is not installed anew.
LEMMA PendingKept ==
  ASSUME StreamInv, [StreamNext]_streamVars, client # "away", client' # "away",
         UNCHANGED <<wire, get, lastSeen>>, queue'[get] = queue[get],
         lastId' >= lastId, lastId' \in Nat,
         tx' = get => tx = get /\ lastId' = lastId
  PROVE  PendingOK'
  <1>1. /\ PendingOK /\ wire \in Seq(Events) /\ queue[get] \in Seq(Events)
        /\ lastId \in Nat
    <2>1. get \in Streams
      BY DEF StreamInv, StreamTypeOK, GetsOK, Streams
    <2>. QED
      BY <2>1 DEF StreamInv, StreamTypeOK
  <1>2. wire # <<>> => wire[1] \in Int
    BY <1>1, FirstIs
  <1>3. queue[get] # <<>> => queue[get][1] \in Int
    BY <1>1, FirstIs
  <1>4. Run(wire)'
    BY <1>1 DEF PendingOK, Run
  <1>5. \A i \in 1..Len(wire) : wire[i] <= lastId'
    <2>1. SUFFICES ASSUME NEW i \in 1..Len(wire) PROVE wire[i] <= lastId'
      OBVIOUS
    <2>2. wire[i] \in Events
      BY <1>1
    <2>3. wire[i] \in Int
      BY <2>2 DEF Events
    <2>4. wire[i] <= lastId
      BY <1>1 DEF PendingOK
    <2>. QED
      BY <1>1, <2>3, <2>4
  <1>6. wire # <<>> => wire[1] > lastSeen /\ ForgottenUpTo(wire[1])'
    BY <1>1, <1>2, UpToStays DEF PendingOK, ForgottenUpTo
  <1>7. queue[get] # <<>> =>
           IF wire = <<>>
           THEN queue[get][1] > lastSeen /\ ForgottenUpTo(queue[get][1])'
           ELSE queue[get][1] = wire[1] + Len(wire)
    BY <1>1, <1>3, UpToStays DEF PendingOK, ForgottenUpTo
  <1>8. tx' = get /\ queue[get] = <<>> =>
           IF wire = <<>> THEN ForgottenUpTo(lastId + 1)'
                          ELSE wire[1] + Len(wire) = lastId' + 1
    <2>. SUFFICES ASSUME tx' = get, queue[get] = <<>>
                  PROVE  IF wire = <<>> THEN ForgottenUpTo(lastId + 1)'
                                        ELSE wire[1] + Len(wire) = lastId' + 1
      OBVIOUS
    <2>1. lastId' = lastId /\ lastId + 1 \in Int
      BY <1>1
    <2>2. IF wire = <<>> THEN ForgottenUpTo(lastId + 1)
                         ELSE wire[1] + Len(wire) = lastId + 1
      BY <1>1 DEF PendingOK
    <2>3. CASE wire = <<>>
      <3>1. \A d \in Nat : lastSeen' < d /\ d < lastId + 1 => Forgotten(d)'
        BY <2>1, <2>2, <2>3, UpToStays
      <3>. QED
        BY <2>1, <2>3, <3>1 DEF ForgottenUpTo
    <2>4. CASE wire # <<>>
      BY <2>1, <2>2, <2>4
    <2>. QED
      BY <2>3, <2>4
  <1>. QED
    BY <1>4, <1>5, <1>6, <1>7, <1>8 DEF PendingOK

\* The installed stream of the client gets the next event.
LEMMA PendingSend ==
  ASSUME StreamInv, SendToStream, client # "away", tx = get, tx # 0, Accepts(tx)
  PROVE  PendingOK'
  <1>1. /\ get \in Streams /\ lastId \in Nat /\ lastId + 1 \in Events /\ lastSeen \in Nat
        /\ wire \in Seq(Events) /\ queue[get] \in Seq(Events) /\ lastSeen <= lastId
    BY BoundAssumption DEF StreamInv, StreamTypeOK, GetsOK, ReceivedOK, Streams, Events,
                           SendToStream
  <1>2. /\ lastId' = lastId + 1 /\ tx' = tx /\ UNCHANGED <<get, client, wire, lastSeen>>
        /\ queue' = [queue EXCEPT ![get] = Append(@, lastId + 1)]
    BY DEF SendToStream, clientVars
  <1>3. queue'[get] = Append(queue[get], lastId + 1)
    BY <1>1, <1>2 DEF StreamInv, StreamTypeOK
  <1>4. PendingOK /\ Run(queue[get])
    BY <1>1 DEF StreamInv, QueuesOK, QueueOf
  <1>5. /\ queue'[get] # <<>>
        /\ queue'[get][1] = IF queue[get] = <<>> THEN lastId + 1 ELSE queue[get][1]
    <2>1. queue[get] # <<>> => queue[get][1] + Len(queue[get]) = lastId + 1
      BY <1>1 DEF StreamInv, QueuesOK, QueueOf
    <2>2. queue[get] # <<>> => lastId + 1 = queue[get][1] + Len(queue[get])
      BY <2>1
    <2>3. Append(queue[get], lastId + 1)[1] =
            IF queue[get] = <<>> THEN lastId + 1 ELSE queue[get][1]
      BY <1>1, <1>4, <2>2, AppendRun
    <2>4. Append(queue[get], lastId + 1) # <<>>
      BY <1>1, AppendIs
    <2>. QED
      BY <1>3, <2>3, <2>4
  <1>6. \A i \in 1..Len(wire) : wire[i] <= lastId + 1
    <2>. SUFFICES ASSUME NEW i \in 1..Len(wire) PROVE wire[i] <= lastId + 1
      OBVIOUS
    <2>1. wire[i] \in Events /\ wire[i] <= lastId
      BY <1>1, <1>4 DEF PendingOK
    <2>2. wire[i] \in Int
      BY <2>1 DEF Events
    <2>. QED
      BY <1>1, <2>1, <2>2
  <1>7. wire # <<>> => wire[1] > lastSeen /\ ForgottenUpTo(wire[1])'
    BY <1>1, <1>2, <1>4, FirstIs, UpToStays DEF PendingOK, ForgottenUpTo, StreamNext
  <1>8. IF wire = <<>>
        THEN queue'[get][1] > lastSeen /\ ForgottenUpTo(queue[get][1])'
        ELSE queue'[get][1] = wire[1] + Len(wire)
    <2>1. IF wire = <<>>
          THEN queue'[get][1] > lastSeen /\ ForgottenUpTo(queue'[get][1])
          ELSE queue'[get][1] = wire[1] + Len(wire)
      BY <1>1, <1>4, <1>5 DEF PendingOK
    <2>2. queue'[get][1] \in Int
      BY <1>1, <1>5, FirstIs
    <2>. QED
      BY <1>2, <2>1, <2>2, UpToStays DEF ForgottenUpTo, StreamNext
  <1>9. Run(wire)'
    BY <1>2, <1>4 DEF PendingOK, Run
  <1>. QED
    BY <1>2, <1>5, <1>6, <1>7, <1>8, <1>9 DEF PendingOK

\* The GET of the client is attached: its stream continues what the client read.
LEMMA PendingAttach ==
  ASSUME StreamInv, client # "away", AttachStream(get), get \in Streams
  PROVE  PendingOK'
  <1>1. /\ client = "asking" /\ wire = <<>> /\ asked[get] = lastSeen
        /\ lastSeen \in 0..MaxEvents /\ lastId \in Nat
    BY DEF StreamInv, GetsOK, StreamTypeOK, AttachStream
  <1>2. /\ UNCHANGED <<get, client, wire, lastSeen, lastId, asked>>
        /\ queue'[get] = Replayed(lastSeen) /\ tx' = get
        /\ status'[get] = "attached" /\ attachedAt'[get] = lastId
    BY <1>1 DEF AttachStream, clientVars, StreamInv, StreamTypeOK
  <1> DEFINE q == Replayed(lastSeen)
  <1>3. /\ q \in Seq(Events)
        /\ lastSeen = 0 => q = <<>>
        /\ q # <<>> => q[1] > lastSeen
        /\ lastSeen # 0 /\ q = <<>> => \A d \in Nat : lastSeen < d => ~(d <= lastId)
        /\ lastSeen # 0 /\ q # <<>> =>
             \A d \in Nat : lastSeen < d /\ d < q[1] => d + ReplayCapacity <= lastId
    BY <1>1, ReplayedIs DEF StreamInv
  <1> HIDE DEF q
  <1>4. ASSUME NEW d \in Nat, d + ReplayCapacity <= lastId \/ lastSeen = 0, d <= lastId
        PROVE  Forgotten(d)'
    BY <1>1, <1>2, <1>4 DEF Forgotten
  <1>5. ASSUME q # <<>>
        PROVE  ForgottenUpTo(queue[get][1])'
    <2>1. ASSUME NEW d \in Nat, lastSeen < d, d < q[1]
          PROVE  Forgotten(d)'
      <3>1. d + ReplayCapacity <= lastId
        BY <1>3, <1>5, <2>1
      <3>2. d <= lastId
        BY <1>1, <3>1, CapacityAssumption
      <3>. QED
        BY <1>4, <3>1, <3>2
    <2>2. queue'[get'][1] = q[1] /\ lastSeen' = lastSeen
      BY <1>2 DEF q
    <2>. QED
      BY <2>1, <2>2 DEF ForgottenUpTo
  <1>6. ASSUME q = <<>>
        PROVE  ForgottenUpTo(lastId + 1)'
    <2>1. ASSUME NEW d \in Nat, lastSeen < d, d < lastId + 1
          PROVE  Forgotten(d)'
      <3>1. d <= lastId
        BY <1>1, <2>1
      <3>2. lastSeen = 0
        BY <1>3, <1>6, <2>1, <3>1
      <3>. QED
        BY <1>4, <3>1, <3>2
    <2>. QED
      BY <1>2, <2>1 DEF ForgottenUpTo
  <1>7. queue'[get'] = q /\ wire' = <<>> /\ tx' = get' /\ lastSeen' = lastSeen
    BY <1>1, <1>2 DEF q
  <1>8. Run(wire)'
    BY <1>7 DEF Run
  <1>. QED
    BY <1>3, <1>5, <1>6, <1>7, <1>8 DEF PendingOK

\* The first queued event goes on the wire.
LEMMA PendingWrite ==
  ASSUME StreamInv, Write
  PROVE  PendingOK'
  <1>1. /\ get \in Streams /\ lastId \in Nat /\ lastSeen \in Nat
        /\ wire \in Seq(Events) /\ queue[get] \in Seq(Events)
        /\ queue \in [Streams -> Seq(Events)] /\ client # "away"
    <2>1. get \in Streams /\ client # "away"
      BY DEF StreamInv, StreamTypeOK, GetsOK, Streams, Write
    <2>. QED
      BY <2>1 DEF StreamInv, StreamTypeOK
  <1>2. /\ UNCHANGED <<get, client, lastSeen, lastId, tx>>
        /\ queue[get] # <<>> /\ queue'[get] = Tail(queue[get])
        /\ wire' = Append(wire, Head(queue[get]))
    BY <1>1 DEF Write
  <1> DEFINE h == queue[get][1]
  <1>3. /\ h \in Events /\ Head(queue[get]) = h
        /\ Len(queue'[get]) = Len(queue[get]) - 1 /\ queue'[get] \in Seq(Events)
        /\ Len(queue[get]) \in Nat
    BY <1>1, <1>2, TailIs
  <1>4. h \in Int
    BY <1>3 DEF Events
  <1>5. /\ Run(queue[get]) /\ h <= lastId
        /\ get = tx => h + Len(queue[get]) = lastId + 1
    <2>1. 1 \in 1..Len(queue[get])
      BY <1>1, <1>2, FirstIs
    <2>. QED
      BY <1>1, <1>2, <2>1 DEF StreamInv, QueuesOK, QueueOf
  <1>6. queue'[get] # <<>> => queue'[get][1] = h + 1
    BY <1>1, <1>2, <1>5, TailRun
  <1>7. PendingOK /\ Run(wire)
    BY <1>1 DEF StreamInv, PendingOK
  <1>8. IF wire = <<>> THEN h > lastSeen /\ ForgottenUpTo(h)
                       ELSE h = wire[1] + Len(wire)
    BY <1>1, <1>2, <1>7 DEF PendingOK
  <1>9. /\ Run(wire') /\ wire'[1] = (IF wire = <<>> THEN h ELSE wire[1])
        /\ Len(wire') = Len(wire) + 1 /\ wire' # <<>>
    <2>1. wire # <<>> => h = wire[1] + Len(wire)
      BY <1>8
    <2>2. Run(Append(wire, h)) /\ Append(wire, h)[1] = (IF wire = <<>> THEN h ELSE wire[1])
      BY <1>1, <1>3, <1>7, <2>1, AppendRun
    <2>3. Len(Append(wire, h)) = Len(wire) + 1 /\ Append(wire, h) # <<>>
      BY <1>1, <1>3, AppendIs
    <2>. QED
      BY <1>2, <1>3, <2>2, <2>3
  <1>10. ASSUME NEW i \in 1..Len(wire')
         PROVE  wire'[i] <= lastId
    <2>1. CASE i \in 1..Len(wire)
      BY <1>1, <1>2, <1>3, <1>7, <2>1, AppendIs DEF PendingOK
    <2>2. CASE i \notin 1..Len(wire)
      <3>1. i = Len(wire) + 1
        BY <1>1, <1>9, <2>2
      <3>. QED
        BY <1>1, <1>2, <1>3, <1>5, <3>1, AppendIs
    <2>. QED
      BY <2>1, <2>2
  <1>11. wire'[1] > lastSeen /\ ForgottenUpTo(wire[1])'
    <2>1. wire'[1] > lastSeen /\ ForgottenUpTo(wire'[1]) /\ wire'[1] \in Int
      <3>1. CASE wire = <<>>
        BY <1>4, <1>8, <1>9, <3>1
      <3>2. CASE wire # <<>>
        BY <1>1, <1>7, <1>9, <3>2, FirstIs DEF PendingOK
      <3>. QED
        BY <3>1, <3>2
    <2>. QED
      BY <1>2, <2>1, UpToStays DEF ForgottenUpTo, StreamNext
  <1>12. wire'[1] + Len(wire') = h + 1
    <2>1. CASE wire = <<>>
      BY <1>4, <1>9, <2>1
    <2>2. CASE wire # <<>>
      <3>1. wire[1] \in Int /\ Len(wire) \in Nat
        BY <1>1, <2>2, FirstIs
      <3>. QED
        BY <1>4, <1>8, <1>9, <2>2, <3>1
    <2>. QED
      BY <2>1, <2>2
  <1>13. queue'[get] # <<>> => queue'[get][1] = wire'[1] + Len(wire')
    BY <1>6, <1>12
  <1>14. tx = get /\ queue'[get] = <<>> => wire'[1] + Len(wire') = lastId + 1
    <2>1. queue'[get] = <<>> => Len(queue[get]) = 1
      BY <1>3, EmptyIs
    <2>. QED
      BY <1>4, <1>5, <1>12, <2>1
  <1>15. Run(wire)'
    BY <1>9 DEF Run
  <1>. HIDE DEF h
  <1>. QED
    BY <1>2, <1>9, <1>10, <1>11, <1>13, <1>14, <1>15 DEF PendingOK

\* The first event of the wire is read.
LEMMA PendingRead ==
  ASSUME StreamInv, Read
  PROVE  PendingOK'
  <1>1. /\ lastId \in Nat /\ lastSeen \in Nat /\ client # "away"
        /\ wire \in Seq(Events) /\ wire # <<>>
    BY DEF StreamInv, StreamTypeOK, Read
  <1>2. queue[get] \in Seq(Events)
    <2>1. get \in Streams
      BY DEF StreamInv, StreamTypeOK, GetsOK, Streams, Read
    <2>. QED
      BY <2>1 DEF StreamInv, StreamTypeOK
  <1>3. /\ UNCHANGED <<get, client, queue, lastId, tx>>
        /\ wire' = Tail(wire) /\ lastSeen' = Head(wire)
    BY DEF Read, serverVars
  <1> DEFINE h == wire[1]
  <1>4. h \in Int /\ lastSeen' = h /\ Len(wire) \in Nat
    BY <1>1, <1>3, FirstIs
  <1>5. /\ Len(wire') = Len(wire) - 1 /\ wire' \in Seq(Events)
        /\ \A i \in 1..(Len(wire) - 1) : wire'[i] = wire[i + 1]
    BY <1>1, <1>3, TailIs
  <1>6. PendingOK /\ Run(wire)
    BY <1>1 DEF StreamInv, PendingOK
  <1>7. Run(wire') /\ (wire' # <<>> => wire'[1] = h + 1)
    BY <1>1, <1>3, <1>6, TailRun
  <1>8. ASSUME NEW i \in 1..Len(wire')
        PROVE  wire'[i] <= lastId
    <2>1. i + 1 \in 1..Len(wire) /\ wire'[i] = wire[i + 1]
      BY <1>4, <1>5
    <2>. QED
      BY <1>1, <1>6, <2>1 DEF PendingOK
  <1>9. \A d \in Nat : ~(lastSeen' < d /\ d < h + 1)
    BY <1>4
  <1>10. wire' # <<>> => wire'[1] > lastSeen' /\ ForgottenUpTo(wire[1])'
    BY <1>4, <1>7, <1>9 DEF ForgottenUpTo
  <1>11. ASSUME queue[get] # <<>>
         PROVE  IF wire' = <<>>
                THEN queue[get][1] > lastSeen' /\ ForgottenUpTo(queue[get][1])'
                ELSE queue[get][1] = wire'[1] + Len(wire')
    <2>1. queue[get][1] = h + Len(wire)
      BY <1>1, <1>6, <1>11 DEF PendingOK
    <2>2. CASE wire' = <<>>
      <3>1. Len(wire) = 1
        BY <1>4, <1>5, <2>2, EmptyIs
      <3>2. queue[get][1] = h + 1 /\ queue'[get'][1] = queue[get][1]
        BY <1>3, <2>1, <3>1
      <3>3. ForgottenUpTo(queue[get][1])'
        BY <1>9, <3>2 DEF ForgottenUpTo
      <3>. QED
        BY <1>4, <2>2, <3>2, <3>3
    <2>3. CASE wire' # <<>>
      BY <1>4, <1>5, <1>7, <2>1, <2>3
    <2>. QED
      BY <2>2, <2>3
  <1>12. ASSUME tx = get, queue[get] = <<>>
         PROVE  IF wire' = <<>> THEN ForgottenUpTo(lastId + 1)'
                                ELSE wire'[1] + Len(wire') = lastId + 1
    <2>1. h + Len(wire) = lastId + 1
      BY <1>1, <1>6, <1>12 DEF PendingOK
    <2>2. CASE wire' = <<>>
      <3>1. Len(wire) = 1
        BY <1>4, <1>5, <2>2, EmptyIs
      <3>2. lastId' + 1 = h + 1
        BY <1>3, <2>1, <3>1
      <3>. QED
        BY <1>9, <2>2, <3>2 DEF ForgottenUpTo
    <2>3. CASE wire' # <<>>
      BY <1>4, <1>5, <1>7, <2>1, <2>3
    <2>. QED
      BY <2>2, <2>3
  <1>13. Run(wire)'
    BY <1>7 DEF Run
  <1>. HIDE DEF h
  <1>. QED
    BY <1>3, <1>8, <1>10, <1>11, <1>12, <1>13 DEF PendingOK

LEMMA PendingStep == StreamInv /\ [StreamNext]_streamVars => PendingOK'
  <1>. SUFFICES ASSUME StreamInv, [StreamNext]_streamVars, client' # "away"
                PROVE  PendingOK'
    BY DEF PendingOK
  <1>0. /\ lastId \in Nat /\ queue \in [Streams -> Seq(Events)]
        /\ client # "away" => get \in Streams /\ get # 0
    BY DEF StreamInv, StreamTypeOK, GetsOK, Streams
  <1>1. CASE SendToStream
    <2>1. client # "away"
      BY <1>1 DEF SendToStream, clientVars
    <2>2. CASE tx = get /\ tx # 0 /\ Accepts(tx)
      BY <1>1, <2>1, <2>2, PendingSend
    <2>3. CASE ~(tx = get /\ tx # 0 /\ Accepts(tx))
      <3>1. /\ lastId' = lastId + 1 /\ UNCHANGED <<wire, get, lastSeen>>
            /\ queue'[get] = queue[get] /\ tx' # get
        BY <1>0, <1>1, <2>1, <2>3 DEF SendToStream, clientVars
      <3>2. lastId' \in Nat /\ lastId' >= lastId
        BY <1>0, <3>1
      <3>. QED
        BY <2>1, <3>1, <3>2, PendingKept
    <2>. QED
      BY <2>2, <2>3
  <1>2. CASE Attaching
    <2>1. PICK n \in Streams : AttachStream(n)
      BY <1>2 DEF Attaching
    <2>2. client # "away"
      BY <2>1 DEF AttachStream, clientVars
    <2>3. CASE n = get
      BY <2>1, <2>2, <2>3, PendingAttach
    <2>4. CASE n # get
      <3>1. /\ UNCHANGED <<wire, get, lastSeen, lastId>> /\ tx' # get
            /\ queue'[get] = queue[get]
        BY <1>0, <2>1, <2>2, <2>4 DEF AttachStream, clientVars
      <3>. QED
        BY <1>0, <2>2, <3>1, PendingKept
    <2>. QED
      BY <2>3, <2>4
  <1>3. CASE ClearStream
    <2>1. client # "away" /\ UNCHANGED <<wire, get, lastSeen, lastId, queue>> /\ tx' = 0
      BY <1>3 DEF ClearStream, clientVars
    <2>. QED
      BY <1>0, <2>1, PendingKept
  <1>4. CASE Dropping
    <2>1. PICK n \in Streams : ReceiverDropped(n)
      BY <1>4 DEF Dropping
    <2>2. client # "away" /\ UNCHANGED <<wire, get, lastSeen, lastId, tx>>
      BY <2>1 DEF ReceiverDropped, clientVars
    <2>3. n # get
      BY <2>1, <2>2 DEF ReceiverDropped, Current
    <2>4. queue'[get] = queue[get]
      BY <1>0, <2>1, <2>2, <2>3 DEF ReceiverDropped
    <2>. QED
      BY <1>0, <2>2, <2>4, PendingKept
  <1>5. CASE Ask
    <2>1. get + 1 \in Streams /\ get \in Nat /\ status[get + 1] = "unsent"
      BY <1>5, BoundAssumption DEF Ask, StreamInv, StreamTypeOK, GetsOK, Streams
    <2>2. queue[get + 1] = <<>> /\ tx # get + 1
      BY <2>1 DEF StreamInv, QueuesOK, QueueOf
    <2>. QED
      BY <1>5, <2>2 DEF Ask, serverVars, PendingOK, Run
  <1>6. CASE Opened
    <2>1. client # "away" /\ UNCHANGED <<wire, get, lastSeen, lastId, queue, tx>>
      BY <1>6 DEF Opened, serverVars
    <2>. QED
      BY <1>0, <2>1, PendingKept
  <1>7. CASE Write
    BY <1>7, PendingWrite
  <1>8. CASE Read
    BY <1>8, PendingRead
  <1>9. CASE End \/ Break
    BY <1>9 DEF End, Break
  <1>10. CASE UNCHANGED streamVars
    <2>1. client # "away" /\ UNCHANGED <<wire, get, lastSeen, lastId, queue, tx>>
      BY <1>10 DEF streamVars, serverVars, clientVars
    <2>. QED
      BY <1>0, <2>1, PendingKept
  <1>. QED
    BY <1>1, <1>2, <1>3, <1>4, <1>5, <1>6, <1>7, <1>8, <1>9, <1>10, StreamStepCases

\* What a read adds to what was read: a newer event, sent before.
LEMMA ReadIs ==
  ASSUME StreamInv, Read
  PROVE  /\ Head(wire) \in Nat /\ lastSeen < Head(wire) /\ Head(wire) <= lastId
         /\ ForgottenUpTo(Head(wire))
         /\ lastSeen' = Head(wire) /\ lastSeen \in Nat
         /\ Len(received') = Len(received) + 1 /\ Len(received) \in Nat
         /\ \A i \in 1..Len(received) : received'[i] = received[i] /\ received[i] \in Nat
         /\ received'[Len(received) + 1] = Head(wire)
  <1>1. /\ wire \in Seq(Events) /\ wire # <<>> /\ received \in Seq(Events)
        /\ lastSeen' = Head(wire) /\ received' = Append(received, Head(wire))
        /\ client # "away" /\ lastSeen \in Nat
    BY DEF StreamInv, StreamTypeOK, Read
  <1>2. Head(wire) \in Events /\ Head(wire) = wire[1] /\ 1 \in 1..Len(wire)
    BY <1>1, TailIs
  <1>3. Head(wire) \in Nat
    BY <1>2 DEF Events
  <1>4. /\ lastSeen < Head(wire) /\ Head(wire) <= lastId
        /\ ForgottenUpTo(Head(wire))
    BY <1>1, <1>2, <1>3 DEF StreamInv, PendingOK
  <1>5. \A i \in 1..Len(received) : received[i] \in Nat
    <2>1. \A i \in 1..Len(received) : received[i] \in Events
      BY <1>1
    <2>. QED
      BY <2>1 DEF Events
  <1>. QED
    BY <1>1, <1>2, <1>3, <1>4, <1>5, AppendIs

\* Nothing else changes what was read, and no event is taken back.
LEMMA NoReadIs ==
  ASSUME StreamInv, [StreamNext]_streamVars, ~Read
  PROVE  UNCHANGED <<lastSeen, received>> /\ lastId \in Nat /\ lastId' \in Nat
         /\ lastId <= lastId'
  <1>1. lastId \in Nat
    BY DEF StreamInv, StreamTypeOK
  <1>2. lastId' = lastId \/ lastId' = lastId + 1
    BY StreamStepCases
    DEF SendToStream, Attaching, AttachStream, ClearStream, Dropping, ReceiverDropped,
        Ask, Opened, Write, End, Break, streamVars, serverVars
  <1>3. UNCHANGED <<lastSeen, received>>
    BY StreamStepCases
    DEF SendToStream, Attaching, AttachStream, ClearStream, Dropping, ReceiverDropped,
        Ask, Opened, Write, End, Break, streamVars, clientVars
  <1>. QED
    BY <1>1, <1>2, <1>3

LEMMA ReceivedStep ==
  StreamInv /\ [StreamNext]_streamVars => ReceivedOK' /\ InOrderOnce' /\ NoSilentLoss'
  <1>. SUFFICES ASSUME StreamInv, [StreamNext]_streamVars
                PROVE  ReceivedOK' /\ InOrderOnce' /\ NoSilentLoss'
    OBVIOUS
  <1>0. /\ ReceivedOK /\ InOrderOnce /\ NoSilentLoss
        /\ lastSeen \in Nat /\ lastId \in Nat
    BY DEF StreamInv, StreamTypeOK
  <1>1. CASE Read
    <2> DEFINE h == Head(wire)
               n == Len(received)
    <2>1. /\ h \in Nat /\ lastSeen < h /\ h <= lastId /\ ForgottenUpTo(h)
          /\ lastSeen' = h /\ n \in Nat /\ Len(received') = n + 1
          /\ \A i \in 1..n : received'[i] = received[i] /\ received[i] \in Nat
          /\ received'[n + 1] = h
      BY <1>1, ReadIs
    <2>2. lastId' = lastId
      BY <1>1 DEF Read, serverVars
    <2>3. \A i \in 1..n : received'[i] \in Nat /\ received'[i] < h
      <3>. SUFFICES ASSUME NEW i \in 1..n
                    PROVE  received'[i] \in Nat /\ received'[i] < h
        OBVIOUS
      <3>1. received'[i] = received[i] /\ received[i] \in Nat /\ received[i] <= lastSeen
        BY <1>0, <2>1 DEF ReceivedOK
      <3>. QED
        BY <1>0, <2>1, <3>1
    <2> HIDE DEF h, n
    <2>4. \A i \in 1..(n + 1) : i \in 1..n \/ i = n + 1
      BY <2>1
    <2>5. ReceivedOK'
      <3>1. \A i \in 1..(n + 1) : received'[i] <= h
        BY <2>1, <2>3, <2>4
      <3>. QED
        BY <2>1, <2>2, <3>1 DEF ReceivedOK
    <2>6. ASSUME NEW i \in 1..(n + 1), NEW j \in 1..(n + 1), i < j
          PROVE  received'[i] < received'[j]
      <3>1. i \in 1..n
        BY <2>1, <2>6
      <3>2. CASE j = n + 1
        BY <2>1, <2>3, <3>1, <3>2
      <3>3. CASE j # n + 1
        <4>1. j \in 1..n
          BY <2>4, <3>3
        <4>2. received[i] < received[j]
          BY <1>0, <2>6, <3>1, <4>1 DEF InOrderOnce, n
        <4>. QED
          BY <2>1, <3>1, <4>1, <4>2
      <3>. QED
        BY <3>2, <3>3
    <2>7. ASSUME NEW e \in 1..h
          PROVE  (\E i \in 1..(n + 1) : received'[i] = e) \/ Forgotten(e)'
      <3>1. CASE e = h
        <4>1. n + 1 \in 1..(n + 1)
          BY <2>1
        <4>. QED
          BY <2>1, <3>1, <4>1
      <3>2. CASE lastSeen < e /\ e < h
        BY <2>1, <3>2, ForgottenStays DEF ForgottenUpTo
      <3>3. CASE e <= lastSeen
        <4>1. e \in 1..lastSeen /\ e \in Nat
          BY <1>0, <3>3
        <4>2. CASE Forgotten(e)
          BY <4>1, <4>2, ForgottenStays
        <4>3. CASE \E i \in 1..Len(received) : received[i] = e
          <5>1. PICK i \in 1..n : received[i] = e
            BY <4>3 DEF n
          <5>2. received'[i] = e /\ i \in 1..(n + 1)
            BY <2>1, <5>1
          <5>. QED
            BY <5>2
        <4>. QED
          BY <1>0, <4>1, <4>2, <4>3 DEF NoSilentLoss
      <3>. QED
        BY <1>0, <2>1, <3>1, <3>2, <3>3
    <2>. QED
      BY <2>1, <2>5, <2>6, <2>7 DEF InOrderOnce, NoSilentLoss
  <1>2. CASE ~Read
    <2>1. /\ UNCHANGED <<lastSeen, received>>
          /\ lastId' \in Nat /\ lastId <= lastId'
      BY <1>2, NoReadIs
    <2>2. ReceivedOK' /\ InOrderOnce'
      BY <1>0, <2>1 DEF ReceivedOK, InOrderOnce
    <2>3. NoSilentLoss'
      <3>. SUFFICES ASSUME NEW e \in 1..lastSeen
                    PROVE  \/ \E i \in 1..Len(received) : received[i] = e
                           \/ Forgotten(e)'
        BY <2>1 DEF NoSilentLoss
      <3>1. e \in Nat
        OBVIOUS
      <3>. QED
        BY <1>0, <3>1, ForgottenStays DEF NoSilentLoss
    <2>. QED
      BY <2>2, <2>3
  <1>. QED
    BY <1>1, <1>2

-----------------------------------------------------------------------------
(* The theorems.                                                           *)

LEMMA StreamInvariance == StreamSpec => []StreamInv
  <1>1. StreamInv /\ [StreamNext]_streamVars => StreamInv'
    BY StreamTypeOKStep, ReplayStep, StreamQueuesStep, GetsStep, PendingStep, ReceivedStep
       DEF StreamInv
  <1>. QED
    BY <1>1, StreamInitOK, PTL DEF StreamSpec

\* The replay buffer and the queues stay within their capacities, and no event
\* number, GET or stream leaves its range (StreamState, connect_sse).
THEOREM StreamTypeCorrect == StreamSpec => []StreamTypeOK
  <1>1. StreamInv => StreamTypeOK
    BY DEF StreamInv
  <1>. QED
    BY <1>1, StreamInvariance, PTL

\* The client never reads an event twice or out of order: replay and live
\* delivery meet without overlap, whatever streams replace each other
\* (attach_stream, send_to_stream).
THEOREM OrderedOnce == StreamSpec => []InOrderOnce
  <1>1. StreamInv => InOrderOnce
    BY DEF StreamInv
  <1>. QED
    BY <1>1, StreamInvariance, PTL

\* The client misses no event between two that it reads, except one that left
\* the replay buffer before a GET arrived, or that came before its first event
\* (send_to_stream, attach_stream, connect_sse).
THEOREM LossExplained == StreamSpec => []NoSilentLoss
  <1>1. StreamInv => NoSilentLoss
    BY DEF StreamInv
  <1>. QED
    BY <1>1, StreamInvariance, PTL

\* The replay buffer is the run of the last events: full once anything left it,
\* and it always ends with the last event (send_to_stream).
THEOREM ReplayKeepsTheLast == StreamSpec => []ReplayOK
  <1>1. StreamInv => ReplayOK
    BY DEF StreamInv
  <1>. QED
    BY <1>1, StreamInvariance, PTL

\* The client that reads the installed stream to its end has the last event,
\* unless it never read any.
CaughtUp ==
  client # "away" /\ tx = get /\ wire = <<>> /\ queue[get] = <<>>
    => lastSeen \in {0, lastId}

LEMMA CaughtUpStep == StreamInv /\ CaughtUp /\ [StreamNext]_streamVars => CaughtUp'
  <1>. SUFFICES ASSUME StreamInv, CaughtUp, [StreamNext]_streamVars,
                       client' # "away", tx' = get', wire' = <<>>, queue'[get'] = <<>>
                PROVE  lastSeen' \in {0, lastId'}
    BY DEF CaughtUp
  <1>0. /\ lastId \in Nat /\ lastSeen \in 0..MaxEvents /\ queue \in [Streams -> Seq(Events)]
        /\ wire \in Seq(Events) /\ lastSeen <= lastId /\ 0 \notin Streams
        /\ client # "away" => get \in Streams
    BY DEF StreamInv, StreamTypeOK, GetsOK, ReceivedOK, Streams
  <1>1. CASE SendToStream
    <2>1. UNCHANGED <<client, get, wire>> /\ get \in Streams
      BY <1>0, <1>1 DEF SendToStream, clientVars
    <2>2. tx = get /\ queue' = [queue EXCEPT ![get] = Append(queue[get], lastId + 1)]
          /\ lastId + 1 \in Events
      BY <1>0, <1>1, <2>1, BoundAssumption DEF SendToStream, Events
    <2>3. queue'[get] # <<>>
      BY <1>0, <2>1, <2>2, AppendIs
    <2>. QED
      BY <2>1, <2>3
  <1>2. CASE Attaching
    <2>1. PICK n \in Streams : AttachStream(n)
      BY <1>2 DEF Attaching
    <2>2. n = get /\ client # "away" /\ UNCHANGED <<get, client, lastSeen, lastId>>
      BY <2>1 DEF AttachStream, clientVars
    <2>3. client = "asking" /\ asked[get] = lastSeen
      BY <2>1, <2>2 DEF AttachStream, StreamInv, GetsOK, StreamTypeOK
    <2>4. Replayed(lastSeen) = <<>>
      BY <1>0, <2>1, <2>2, <2>3 DEF AttachStream
    <2>5. lastSeen # 0 => \A d \in Nat : lastSeen < d => ~(d <= lastId)
      BY <1>0, <2>4, ReplayedIs DEF StreamInv
    <2>. QED
      BY <1>0, <2>2, <2>5
  <1>3. CASE Dropping
    <2>1. PICK n \in Streams : ReceiverDropped(n)
      BY <1>3 DEF Dropping
    <2>2. UNCHANGED <<client, get, wire, lastSeen, lastId, tx>> /\ n # get
      BY <2>1 DEF ReceiverDropped, Current, clientVars
    <2>3. queue'[get] = queue[get]
      BY <1>0, <2>1, <2>2 DEF ReceiverDropped
    <2>. QED
      BY <2>2, <2>3 DEF CaughtUp
  <1>4. CASE Ask
    <2>1. get + 1 \in Streams /\ status[get + 1] = "unsent"
      BY <1>4, BoundAssumption DEF Ask, StreamInv, StreamTypeOK, GetsOK, Streams
    <2>2. tx # get + 1
      BY <2>1 DEF StreamInv, QueuesOK, QueueOf
    <2>. QED
      BY <1>4, <2>2 DEF Ask, serverVars
  <1>5. CASE Write
    <2>1. get \in Streams /\ wire' = Append(wire, Head(queue[get])) /\ queue[get] # <<>>
      BY <1>0, <1>5 DEF Write
    <2>2. Head(queue[get]) \in Events
      BY <1>0, <2>1, TailIs
    <2>. QED
      BY <1>0, <2>1, <2>2, AppendIs
  <1>6. CASE Read
    <2>1. /\ UNCHANGED <<client, get, queue, tx, lastId>> /\ client # "away"
          /\ wire # <<>> /\ lastSeen' = Head(wire) /\ wire' = Tail(wire)
      BY <1>6 DEF Read, serverVars
    <2>2. Len(wire) = 1
      BY <1>0, <2>1, SingleIs
    <2>3. wire[1] + Len(wire) = lastId + 1
      BY <2>1 DEF StreamInv, PendingOK
    <2>4. wire[1] \in Int /\ Head(wire) = wire[1]
      BY <1>0, <2>1, FirstIs
    <2>. QED
      BY <1>0, <2>1, <2>2, <2>3, <2>4
  <1>7. CASE ClearStream \/ Opened \/ End \/ Break \/ UNCHANGED streamVars
    BY <1>0, <1>7 DEF ClearStream, Opened, End, Break, CaughtUp, streamVars, serverVars,
                      clientVars
  <1>. QED
    BY <1>1, <1>2, <1>3, <1>4, <1>5, <1>6, <1>7, StreamStepCases

\* A client that has read something, and has read all there is on the stream the
\* server has installed for it, misses no event that was sent: what it waits for
\* comes on this stream, or the stream ends.  With the fairness of the client
\* this is why it catches up (CatchesUp).
THEOREM NothingLeftBehind == StreamSpec => []CaughtUp
  <1>1. StreamInit => CaughtUp
    BY DEF StreamInit, CaughtUp
  <1>2. StreamInv /\ StreamInv' /\ CaughtUp /\ [StreamNext]_streamVars => CaughtUp'
    BY CaughtUpStep
  <1>. QED
    BY <1>1, <1>2, StreamInvariance, PTL DEF StreamSpec

-----------------------------------------------------------------------------
(* The table of sessions.                                                  *)

\* Before its loop is created, a session is in no table and nobody has it.
Created ==
  \A s \in Inits :
    /\ pc[s] \in {"new", "checked"} => loop[s] = "none"
    /\ loop[s] = "none" => s \notin table /\ \A p \in Posts : session[p] # s
    /\ result[s] = "response" => loop[s] # "none"

\* A POST has no session before it looked it up, and no result before its end.
Settled ==
  \A p \in Posts :
    /\ result[p] # "none" => pc[p] = "done"
    /\ pc[p] = "new" => session[p] = Nobody /\ chan[p] = "none"
    /\ pc[p] = "checked" => p \in Inits
    /\ InSession(p) => session[p] \in Inits
    /\ pc[p] # "new" /\ p \notin Inits => session[p] \in Inits
    /\ InSession(p) /\ p \in Inits => session[p] = p

\* Only the POSTs that have a session are registered there.
Registered ==
  \A s \in Inits : \A p \in pending[s] : session[p] = s /\ pc[p] \notin {"new", "checked"}

\* Who lost its sender while it waits was cancelled.
CancelledBy(c) == \E k \in Cancels : Target[k] = c /\ session[k] = session[c]

Released == \A c \in Calls : chan[c] = "closed" /\ pc[c] # "done" => CancelledBy(c)

-----------------------------------------------------------------------------
(* The invariant.                                                          *)

\* The parts of TypeOK: the channels of the sessions, the POSTs, the rest.
QueuesTyped ==
  /\ inbox \in [Inits -> Seq(Posts)] /\ parked \in [Inits -> Seq(Posts)]
  /\ \A s \in Inits : Len(inbox[s]) <= IncomingBuffer + Len(parked[s])

PostsTyped ==
  /\ pending \in [Inits -> SUBSET (Inits \cup Calls)]
  /\ pc \in [Posts -> {"new", "checked", "forwarding", "flushing", "waiting", "done"}]
  /\ session \in [Posts -> Inits \cup {Nobody}]
  /\ chan \in [Posts -> {"none", "open", "result", "error", "closed"}]
  /\ result \in [Posts -> {"none", "response", "failed", "accepted", "notfound",
                           "refused", "gone"}]
  /\ early \subseteq Cancels

ServerTyped ==
  /\ table \subseteq Inits
  /\ shutdown \in BOOLEAN
  /\ watchdog \in {"waiting", "signalled", "done"}
  /\ cleaning \in BOOLEAN /\ expired \subseteq Inits
  /\ listener \in {"serving", "closed", "ended"}
  /\ idle \subseteq Inits /\ token \subseteq Inits /\ stream \subseteq Inits
  /\ loop \in [Inits -> {"none", "running", "ended"}]
  /\ serving \subseteq Calls

\* A request is accepted only for a cancellation.
Accepted == \A c \in Calls : result[c] = "accepted" => CancelledBy(c)

IInv ==
  /\ QueuesTyped /\ PostsTyped /\ ServerTyped
  /\ Created /\ Settled /\ Registered /\ Released
  /\ FailedInitLeavesNothing /\ GoneForGood /\ Accepted

LEMMA TypeParts == TypeOK <=> QueuesTyped /\ PostsTyped /\ ServerTyped
BY DEF TypeOK, QueuesTyped, PostsTyped, ServerTyped

LEMMA InitInv == Init => IInv
<1> SUFFICES ASSUME Init PROVE IInv
  OBVIOUS
<1> USE PostAssumption, LimitAssumption DEF Init
<1>1. QueuesTyped
  <2>1. <<>> \in Seq(Posts) /\ Len(<<>>) = 0
    OBVIOUS
  <2> QED BY <2>1 DEF QueuesTyped
<1>2. PostsTyped /\ ServerTyped
  BY DEF PostsTyped, ServerTyped, Posts
<1>3. Created /\ Settled /\ Registered /\ Released
  BY DEF Created, Settled, Registered, Released, InSession, Posts
<1>4. FailedInitLeavesNothing /\ GoneForGood /\ Accepted
  BY DEF FailedInitLeavesNothing, GoneForGood, Accepted, Posts
<1> QED BY <1>1, <1>2, <1>3, <1>4 DEF IInv

-----------------------------------------------------------------------------
(* Types.                                                                  *)

LEMMA QueuesStep == ASSUME QueuesTyped, Settled, Next PROVE QueuesTyped'
<1> USE PostAssumption, LimitAssumption DEF QueuesTyped
<1>1. ASSUME NEW p \in Posts, Forward(p) PROVE QueuesTyped'
  <2> DEFINE s == session[p]
  <2>1. s \in Inits
    BY <1>1 DEF Forward, Settled, InSession
  <2> HIDE DEF s
  <2>2. /\ inbox' = [inbox EXCEPT ![s] = Append(inbox[s], p)]
        /\ \/ Len(inbox[s]) < IncomingBuffer /\ parked' = parked
           \/ parked' = [parked EXCEPT ![s] = Append(parked[s], p)]
    BY <1>1 DEF Forward, HasRoom, s
  <2>3. /\ inbox[s] \in Seq(Posts) /\ parked[s] \in Seq(Posts)
        /\ Len(inbox[s]) \in Nat /\ Len(parked[s]) \in Nat
        /\ Len(inbox[s]) <= IncomingBuffer + Len(parked[s])
    BY <2>1
  <2>4. /\ Append(inbox[s], p) \in Seq(Posts) /\ Len(Append(inbox[s], p)) = Len(inbox[s]) + 1
        /\ Append(parked[s], p) \in Seq(Posts) /\ Len(Append(parked[s], p)) = Len(parked[s]) + 1
    BY <2>3, AppendIs
  <2>5. inbox' \in [Inits -> Seq(Posts)] /\ parked' \in [Inits -> Seq(Posts)]
    BY <2>2, <2>4
  <2>6. Len(inbox'[s]) <= IncomingBuffer + Len(parked'[s])
    <3>1. Len(inbox'[s]) = Len(inbox[s]) + 1
      BY <2>1, <2>2, <2>4
    <3>2. CASE parked' = parked /\ Len(inbox[s]) < IncomingBuffer
      BY <2>3, <3>1, <3>2
    <3>3. CASE parked' = [parked EXCEPT ![s] = Append(parked[s], p)]
      <4>1. Len(parked'[s]) = Len(parked[s]) + 1
        BY <2>1, <2>4, <3>3
      <4> QED BY <2>3, <3>1, <4>1
    <3> QED BY <2>2, <3>2, <3>3
  <2>7. \A r \in Inits \ {s} : inbox'[r] = inbox[r] /\ parked'[r] = parked[r]
    BY <2>2
  <2> QED BY <2>5, <2>6, <2>7
<1>2. ASSUME NEW s \in Inits, TakeNext(s) PROVE QueuesTyped'
  <2>1. /\ Tail(inbox[s]) \in Seq(Posts) /\ Len(Tail(inbox[s])) = Len(inbox[s]) - 1
        /\ Len(inbox[s]) \in Nat /\ Len(parked[s]) \in Nat
        /\ Len(inbox[s]) <= IncomingBuffer + Len(parked[s])
    BY <1>2, TailIs DEF TakeNext
  <2>2. /\ inbox' = [inbox EXCEPT ![s] = Tail(inbox[s])]
        /\ parked' = [parked EXCEPT ![s] = IF parked[s] = <<>> THEN parked[s]
                                                             ELSE Tail(parked[s])]
    BY <1>2 DEF TakeNext
  <2>3. /\ parked'[s] \in Seq(Posts) /\ Len(parked'[s]) \in Nat
        /\ Len(parked'[s]) >= Len(parked[s]) - 1
    <3>1. CASE parked[s] = <<>>
      BY <2>2, <3>1
    <3>2. CASE parked[s] # <<>>
      <4>1. Tail(parked[s]) \in Seq(Posts) /\ Len(Tail(parked[s])) = Len(parked[s]) - 1
        BY <3>2, TailIs
      <4> QED BY <2>2, <3>2, <4>1
    <3> QED BY <3>1, <3>2
  <2>4. inbox' \in [Inits -> Seq(Posts)] /\ parked' \in [Inits -> Seq(Posts)]
    BY <2>1, <2>2, <2>3
  <2>5. Len(inbox'[s]) <= IncomingBuffer + Len(parked'[s])
    BY <2>1, <2>2, <2>3
  <2>6. \A r \in Inits \ {s} : inbox'[r] = inbox[r] /\ parked'[r] = parked[r]
    BY <2>2
  <2> QED BY <2>4, <2>5, <2>6
<1>3. ASSUME NEW s \in Inits, EndLoop(s) PROVE QueuesTyped'
  <2>1. <<>> \in Seq(Posts) /\ Len(<<>>) = 0
    OBVIOUS
  <2>2. inbox' = [inbox EXCEPT ![s] = <<>>] /\ parked' = [parked EXCEPT ![s] = <<>>]
    BY <1>3 DEF EndLoop
  <2>3. inbox' \in [Inits -> Seq(Posts)] /\ parked' \in [Inits -> Seq(Posts)]
    BY <2>1, <2>2
  <2>4. Len(inbox'[s]) <= IncomingBuffer + Len(parked'[s])
    BY <2>1, <2>2
  <2>5. \A r \in Inits \ {s} : inbox'[r] = inbox[r] /\ parked'[r] = parked[r]
    BY <2>2
  <2> QED BY <2>3, <2>4, <2>5
<1>4. ASSUME NEW p \in Posts,
             \/ CheckLimit(p) \/ CreateSession(p) \/ Flush(p) \/ ForwardFails(p)
             \/ Respond(p) \/ HangUp(p) \/ Answer(p)
             \/ \E s \in Inits : LookUp(p, s) \/ LookUpCancel(p, s) \/ LookUpNote(p, s)
      PROVE  UNCHANGED <<inbox, parked>>
  BY <1>4 DEF CheckLimit, CreateSession, Flush, ForwardFails, Respond, HangUp, Answer, LookUp,
              LookUpCancel, LookUpNote, sessionVars
<1>5. ASSUME NEW s \in Inits, SessionStep(s) PROVE UNCHANGED <<inbox, parked>>
  BY <1>5 DEF SessionStep, OpenStream, CloseStream, Delete, TimePasses, RemoveExpired
<1>6. ASSUME ServerStep PROVE UNCHANGED <<inbox, parked>>
  BY <1>6 DEF ServerStep, CollectExpired, EndCleanup, Shutdown, SignalAll, ClearTable,
              CloseListener, EndListener, sessionVars
<1>7. ASSUME UNCHANGED <<inbox, parked>> PROVE QueuesTyped'
  BY <1>7
<1>8. CASE \E p \in Posts : PostStep(p)
  BY <1>1, <1>4, <1>7, <1>8 DEF PostStep
<1>9. CASE \E s \in Inits : LoopStep(s)
  BY <1>2, <1>3, <1>9 DEF LoopStep, Take, TakeInitialize, FailInitialize, StopLoop
<1>10. CASE \E c \in Calls : Answer(c)
  BY <1>4, <1>7, <1>10 DEF Posts
<1> QED BY <1>5, <1>6, <1>7, <1>8, <1>9, <1>10 DEF Next

\* A step that is not one of a POST, nor an answer to one.
Aside ==
  /\ UNCHANGED <<pending, postVars>>
  /\ table' \subseteq table
  /\ loop' \in [Inits -> {"none", "running", "ended"}]
  /\ \A s \in Inits : loop'[s] = "none" <=> loop[s] = "none"

LEMMA AsideSteps ==
  ASSUME ServerTyped, NEW s \in Inits,
         SessionStep(s) \/ Take(s) \/ FailInitialize(s) \/ StopLoop(s) \/ ServerStep
  PROVE  Aside
<1> USE DEF ServerTyped, Aside, tableVars, sessionVars
<1>1. CASE SessionStep(s)
  BY <1>1 DEF SessionStep, OpenStream, CloseStream, Delete, TimePasses, RemoveExpired,
              RemoveSession
<1>2. CASE Take(s)
  BY <1>2 DEF Take, TakeNext
<1>3. CASE FailInitialize(s) \/ StopLoop(s)
  BY <1>3 DEF FailInitialize, StopLoop, EndLoop
<1>4. CASE ServerStep
  BY <1>4 DEF ServerStep, CollectExpired, EndCleanup, Shutdown, SignalAll, ClearTable,
              CloseListener, EndListener
<1> QED BY <1>1, <1>2, <1>3, <1>4

\* The loop answers a POST: only its sender is used.
Answers ==
  /\ UNCHANGED <<table, loop, pc, session, result>>
  /\ pending' \in [Inits -> SUBSET (Inits \cup Calls)]
  /\ \A s \in Inits : pending'[s] \subseteq pending[s]
  /\ early' = early
  /\ \E p \in Posts, kind \in {"result", "error"} :
       chan' = [chan EXCEPT ![p] = IF chan[p] = "open" /\ p \in pending[session[p]]
                                   THEN kind ELSE chan[p]]

LEMMA AnswerSteps ==
  ASSUME PostsTyped,
         (\E s \in Inits : TakeInitialize(s)) \/ (\E c \in Calls : Answer(c))
  PROVE  Answers
BY DEF PostsTyped, Answers, TakeInitialize, TakeNext, Answer, Deliver, Posts, tableVars

\* What a step of a POST leaves alone.
LEMMA StepCases ==
  ASSUME ServerTyped, PostsTyped, Next
  PROVE  \/ \E p \in Posts : PostStep(p)
         \/ Answers
         \/ Aside
<1>1. CASE \E s \in Inits : LoopStep(s) \/ SessionStep(s)
  BY <1>1, AsideSteps, AnswerSteps DEF LoopStep
<1>2. CASE ServerStep
  <2>1. CASE Inits # {}
    BY <1>2, <2>1, AsideSteps
  <2>2. CASE Inits = {}
    BY <1>2, <2>2 DEF ServerStep, CollectExpired, EndCleanup, Shutdown, SignalAll, ClearTable,
       CloseListener, EndListener, ServerTyped, Aside, sessionVars
  <2> QED BY <2>1, <2>2
<1> QED BY <1>1, <1>2, AnswerSteps DEF Next

LEMMA PostsStep == ASSUME ServerTyped, PostsTyped, Next PROVE PostsTyped'
<1> USE PostAssumption DEF PostsTyped, Posts, sessionVars, Done
<1>1. ASSUME NEW p \in Inits, CheckLimit(p) PROVE PostsTyped'
  BY <1>1 DEF CheckLimit
<1>2. ASSUME NEW p \in Inits, CreateSession(p) PROVE PostsTyped'
  BY <1>2 DEF CreateSession
<1>3. ASSUME NEW p \in Calls, NEW s \in Inits, LookUp(p, s) PROVE PostsTyped'
  BY <1>3 DEF LookUp
<1>4. ASSUME NEW p \in Cancels, NEW s \in Inits, LookUpCancel(p, s) PROVE PostsTyped'
  BY <1>4 DEF LookUpCancel, Release
<1>5. ASSUME NEW p \in Notes, NEW s \in Inits, LookUpNote(p, s) PROVE PostsTyped'
  BY <1>5 DEF LookUpNote
<1>6. ASSUME NEW p \in Posts, Forward(p) \/ Flush(p) \/ ForwardFails(p) PROVE PostsTyped'
  BY <1>6 DEF Forward, Flush, ForwardFails, Forwarded
<1>7. ASSUME NEW p \in Posts, Respond(p) PROVE PostsTyped'
  BY <1>7 DEF Respond
<1>8. ASSUME NEW p \in Posts, HangUp(p) PROVE PostsTyped'
  BY <1>8 DEF HangUp
<1>9. CASE Answers
  BY <1>9 DEF Answers
<1>10. CASE Aside
  BY <1>10 DEF Aside, postVars
<1> QED BY <1>1, <1>2, <1>3, <1>4, <1>5, <1>6, <1>7, <1>8, <1>9, <1>10, StepCases DEF PostStep

LEMMA ServerStepTyped == ASSUME ServerTyped, QueuesTyped, Next PROVE ServerTyped'
<1> USE PostAssumption DEF ServerTyped, Posts, sessionVars, tableVars, RemoveSession
<1>1. ASSUME NEW p \in Inits, CheckLimit(p) \/ CreateSession(p) PROVE ServerTyped'
  BY <1>1 DEF CheckLimit, CreateSession
<1>2. ASSUME NEW p \in Posts, NEW s \in Inits,
             LookUp(p, s) \/ LookUpCancel(p, s) \/ LookUpNote(p, s)
      PROVE  ServerTyped'
  BY <1>2 DEF LookUp, LookUpCancel, LookUpNote
<1>3. ASSUME NEW p \in Posts, Forward(p) \/ Flush(p) \/ HangUp(p) PROVE ServerTyped'
  BY <1>3 DEF Forward, Flush, HangUp
<1>4. ASSUME NEW p \in Posts, ForwardFails(p) \/ Respond(p) PROVE ServerTyped'
  BY <1>4 DEF ForwardFails, Respond
<1>5. ASSUME NEW s \in Inits, LoopStep(s) PROVE ServerTyped'
  BY <1>5 DEF LoopStep, Take, TakeInitialize, TakeNext, FailInitialize, StopLoop, EndLoop
<1>6. ASSUME NEW s \in Inits, SessionStep(s) PROVE ServerTyped'
  BY <1>6 DEF SessionStep, OpenStream, CloseStream, Delete, TimePasses, RemoveExpired
<1>7. CASE ServerStep
  BY <1>7 DEF ServerStep, CollectExpired, EndCleanup, Shutdown, SignalAll, ClearTable,
              CloseListener, EndListener
<1>8. ASSUME NEW c \in Calls, Answer(c) PROVE ServerTyped'
  BY <1>8 DEF Answer
<1> QED BY <1>1, <1>2, <1>3, <1>4, <1>5, <1>6, <1>7, <1>8 DEF Next, PostStep

-----------------------------------------------------------------------------
(* Sessions and POSTs.                                                     *)

LEMMA SettledStep ==
  ASSUME ServerTyped, PostsTyped, Created, Settled, Next
  PROVE  Settled'
<1> USE PostAssumption DEF PostsTyped, Settled, InSession, Posts, Done
<1>1. ASSUME NEW p \in Inits, CheckLimit(p) PROVE Settled'
  BY <1>1 DEF CheckLimit
<1>2. ASSUME NEW p \in Inits, CreateSession(p) PROVE Settled'
  BY <1>2 DEF CreateSession
<1>3. ASSUME NEW p \in Calls, NEW s \in Inits, LookUp(p, s) PROVE Settled'
  BY <1>3 DEF LookUp
<1>4. ASSUME NEW p \in Cancels, NEW s \in Inits, LookUpCancel(p, s) PROVE Settled'
  <2>1. Target[p] \in Calls
    OBVIOUS
  <2> QED BY <1>4, <2>1 DEF LookUpCancel, Release
<1>5. ASSUME NEW p \in Notes, NEW s \in Inits, LookUpNote(p, s) PROVE Settled'
  BY <1>5 DEF LookUpNote
<1>6. ASSUME NEW p \in Posts, Forward(p) \/ Flush(p) \/ ForwardFails(p) PROVE Settled'
  BY <1>6 DEF Forward, Flush, ForwardFails, Forwarded
<1>7. ASSUME NEW p \in Posts, Respond(p) \/ HangUp(p) PROVE Settled'
  BY <1>7 DEF Respond, HangUp
<1>8. CASE Answers
  BY <1>8 DEF Answers
<1>9. CASE Aside
  BY <1>9 DEF Aside, postVars
<1> QED BY <1>1, <1>2, <1>3, <1>4, <1>5, <1>6, <1>7, <1>8, <1>9, StepCases DEF PostStep

\* A POST is registered when it gets its session.
LEMMA RegisteredStep ==
  ASSUME ServerTyped, PostsTyped, Created, Settled, Registered, Next
  PROVE  Registered'
<1> USE PostAssumption DEF PostsTyped, Registered, Posts, Done, sessionVars
<1>1. ASSUME NEW p \in Inits, CheckLimit(p) PROVE Registered'
  BY <1>1 DEF CheckLimit
<1>2. ASSUME NEW p \in Inits, CreateSession(p) PROVE Registered'
  BY <1>2 DEF CreateSession
<1>3. ASSUME NEW p \in Calls, NEW s \in Inits, LookUp(p, s) PROVE Registered'
  BY <1>3 DEF LookUp
<1>4. ASSUME NEW p \in Cancels, NEW s \in Inits, LookUpCancel(p, s) PROVE Registered'
  BY <1>4 DEF LookUpCancel, Release
<1>5. ASSUME NEW p \in Notes, NEW s \in Inits, LookUpNote(p, s) PROVE Registered'
  BY <1>5 DEF LookUpNote
<1>6. ASSUME NEW p \in Posts, Forward(p) \/ Flush(p) \/ ForwardFails(p) PROVE Registered'
  BY <1>6 DEF Forward, Flush, ForwardFails, Forwarded
<1>7. ASSUME NEW p \in Posts, Respond(p) \/ HangUp(p) PROVE Registered'
  BY <1>7 DEF Respond, HangUp
<1>8. CASE Answers
  BY <1>8 DEF Answers
<1>9. CASE Aside
  BY <1>9 DEF Aside, postVars
<1> QED BY <1>1, <1>2, <1>3, <1>4, <1>5, <1>6, <1>7, <1>8, <1>9, StepCases DEF PostStep

LEMMA CreatedStep ==
  ASSUME ServerTyped, PostsTyped, Created, Settled, Next
  PROVE  Created'
<1> USE PostAssumption DEF PostsTyped, ServerTyped, Created, Posts, Done
<1>1. ASSUME NEW p \in Inits, CheckLimit(p) PROVE Created'
  BY <1>1 DEF CheckLimit, tableVars
<1>2. ASSUME NEW p \in Inits, CreateSession(p) PROVE Created'
  BY <1>2 DEF CreateSession
<1>3. ASSUME NEW p \in Calls, NEW s \in Inits, LookUp(p, s) PROVE Created'
  BY <1>3 DEF LookUp, tableVars
<1>4. ASSUME NEW p \in Cancels, NEW s \in Inits, LookUpCancel(p, s) PROVE Created'
  BY <1>4 DEF LookUpCancel, tableVars
<1>5. ASSUME NEW p \in Notes, NEW s \in Inits, LookUpNote(p, s) PROVE Created'
  BY <1>5 DEF LookUpNote, tableVars
<1>6. ASSUME NEW p \in Posts, Forward(p) \/ Flush(p) \/ ForwardFails(p) PROVE Created'
  BY <1>6 DEF Forward, Flush, ForwardFails, Forwarded, RemoveSession, tableVars
<1>7. ASSUME NEW p \in Posts, Respond(p) \/ HangUp(p) PROVE Created'
  BY <1>7 DEF Respond, HangUp, RemoveSession, tableVars, Settled, InSession
<1>8. CASE Answers
  BY <1>8 DEF Answers
<1>9. CASE Aside
  BY <1>9 DEF Aside, postVars
<1> QED BY <1>1, <1>2, <1>3, <1>4, <1>5, <1>6, <1>7, <1>8, <1>9, StepCases DEF PostStep

\* The table only grows by a session that nobody has or was told of.
LEMMA TableGrows ==
  ASSUME ServerTyped, PostsTyped, Created, Settled, Next, NEW s \in table' \ table
  PROVE  pc[s] = "checked" /\ CreateSession(s) /\ s \in Inits
<1>1. ASSUME NEW p \in Posts, PostStep(p), ~(p \in Inits /\ CreateSession(p))
      PROVE  table' \subseteq table
  BY <1>1 DEF PostStep, CheckLimit, LookUp, LookUpCancel, LookUpNote, Forward, Flush,
              ForwardFails, Respond, HangUp, RemoveSession, tableVars
<1>2. PICK p \in Inits : CreateSession(p)
  BY <1>1, StepCases DEF Answers, Aside
<1> QED BY <1>2 DEF CreateSession

LEMMA FailedStep ==
  ASSUME ServerTyped, PostsTyped, Created, Settled, FailedInitLeavesNothing, Next
  PROVE  FailedInitLeavesNothing'
<1> SUFFICES ASSUME NEW s \in Inits, result'[s] \in {"failed", "refused"} PROVE s \notin table'
  BY DEF FailedInitLeavesNothing
<1> USE PostAssumption DEF PostsTyped, Posts, Done
<1>1. CASE result[s] = result'[s]
  BY <1>1, TableGrows DEF FailedInitLeavesNothing, Settled
<1>2. CASE result[s] # result'[s]
  <2>1. PICK p \in Posts : PostStep(p)
    BY <1>2, StepCases DEF Answers, Aside, postVars
  <2>2. p = s
    BY <1>2, <2>1 DEF PostStep, CheckLimit, CreateSession, LookUp, LookUpCancel, LookUpNote,
                      Forward, Flush, ForwardFails, Forwarded, Respond, HangUp
  <2>3. CASE CheckLimit(s)
    BY <2>3 DEF CheckLimit, Created, tableVars
  <2>4. CASE Respond(s)
    BY <1>2, <2>4 DEF Respond, RemoveSession
  <2>5. ~(CreateSession(s) \/ Forward(s) \/ Flush(s) \/ ForwardFails(s) \/ HangUp(s))
    BY <1>2 DEF CreateSession, Forward, Flush, ForwardFails, Forwarded, HangUp
  <2> QED BY <2>1, <2>2, <2>3, <2>4, <2>5 DEF PostStep
<1> QED BY <1>1, <1>2

LEMMA GoneStep ==
  ASSUME ServerTyped, PostsTyped, Created, Settled, GoneForGood, Next
  PROVE  GoneForGood'
<1> SUFFICES ASSUME NEW p \in Posts, result'[p] = "notfound"
             PROVE  session'[p] \notin table'
  BY DEF GoneForGood
<1> USE PostAssumption DEF PostsTyped, Posts, Done
<1>1. CASE result[p] = "notfound"
  <2>1. pc[p] = "done" /\ session[p] \notin table
    BY <1>1 DEF Settled, GoneForGood
  <2>2. session'[p] = session[p]
    BY <2>1, StepCases DEF Answers, Aside, postVars, PostStep, CheckLimit, CreateSession,
                           LookUp, LookUpCancel, LookUpNote, Forward, Flush, ForwardFails,
                           Respond, HangUp, InSession
  <2> QED BY <2>1, <2>2, TableGrows DEF Created
<1>2. CASE result[p] # "notfound"
  <2>1. PICK q \in Posts : PostStep(q)
    BY <1>2, StepCases DEF Answers, Aside, postVars
  <2>2. q = p
    BY <1>2, <2>1 DEF PostStep, CheckLimit, CreateSession, LookUp, LookUpCancel, LookUpNote,
                      Forward, Flush, ForwardFails, Forwarded, Respond, HangUp
  <2>3. ASSUME NEW s \in Inits, LookUp(p, s) \/ LookUpCancel(p, s) \/ LookUpNote(p, s)
        PROVE  session'[p] \notin table'
    BY <1>2, <2>3 DEF LookUp, LookUpCancel, LookUpNote, tableVars
  <2>4. CASE ForwardFails(p)
    BY <1>2, <2>4 DEF ForwardFails, Forwarded, RemoveSession
  <2>5. ~(CheckLimit(p) \/ CreateSession(p) \/ Forward(p) \/ Flush(p) \/ Respond(p) \/ HangUp(p))
    BY <1>2 DEF CheckLimit, CreateSession, Forward, Flush, Forwarded, Respond, HangUp
  <2> QED BY <2>1, <2>2, <2>3, <2>4, <2>5 DEF PostStep
<1> QED BY <1>1, <1>2

\* A cancellation that was looked up keeps its session, and so does its target.
LEMMA CancelledStays ==
  ASSUME ServerTyped, PostsTyped, Settled, Next, NEW c \in Calls, CancelledBy(c), pc[c] # "new"
  PROVE  CancelledBy(c)'
<1> USE PostAssumption DEF Posts
<1>1. PICK k \in Cancels : Target[k] = c /\ session[k] = session[c]
  BY DEF CancelledBy
<1>2. session'[c] = session[c]
  BY StepCases DEF Answers, Aside, postVars, PostStep, CheckLimit, CreateSession, LookUp,
     LookUpCancel, LookUpNote, Forward, Flush, ForwardFails, Respond, HangUp, PostsTyped
<1>3. pc[k] # "new" /\ k \notin Inits
  <2>1. session[c] \in Inits
    BY PostAssumption DEF Settled
  <2> QED BY <1>1, <2>1, PostAssumption DEF Settled
<1>4. pc[k] # "checked"
  BY <1>3 DEF Settled
<1>5. session'[k] = session[k]
  BY <1>3, <1>4, StepCases DEF Answers, Aside, postVars, PostStep, CheckLimit, CreateSession,
                               LookUp, LookUpCancel, LookUpNote, Forward, Flush,
                               ForwardFails, Respond, HangUp, PostsTyped
<1> QED BY <1>1, <1>2, <1>5 DEF CancelledBy

LEMMA ReleasedStep ==
  ASSUME ServerTyped, PostsTyped, Created, Settled, Registered, Released, Next
  PROVE  Released'
<1> SUFFICES ASSUME NEW c \in Calls, chan'[c] = "closed", pc'[c] # "done"
             PROVE  CancelledBy(c)'
  BY DEF Released, CancelledBy
<1> USE PostAssumption DEF PostsTyped, Posts, Done
<1>1. CASE chan[c] = "closed"
  <2>1. pc[c] \notin {"new", "done"}
    BY <1>1, StepCases DEF Answers, Aside, postVars, PostStep, CheckLimit, CreateSession,
                           LookUp, LookUpCancel, LookUpNote, Forward, Flush, ForwardFails,
                           Forwarded, Respond, HangUp, InSession, Settled
  <2> QED BY <1>1, <2>1, CancelledStays DEF Released
<1>2. CASE chan[c] # "closed"
  <2>1. PICK p \in Posts : PostStep(p)
    BY <1>2, StepCases DEF Answers, Aside, postVars
  <2>2. PICK s \in Inits : LookUpCancel(p, s) /\ p \in Cancels
    BY <1>2, <2>1 DEF PostStep, CheckLimit, CreateSession, LookUp, LookUpNote, Forward, Flush,
                      ForwardFails, Respond, HangUp
  <2>3. Target[p] = c /\ c \in pending[s] /\ session'[p] = s /\ session'[c] = session[c]
    BY <1>2, <2>2 DEF LookUpCancel, Release
  <2>4. session'[c] = s
    BY <2>3 DEF Registered
  <2> QED BY <2>2, <2>3, <2>4 DEF CancelledBy
<1> QED BY <1>1, <1>2

LEMMA AcceptedStep ==
  ASSUME ServerTyped, PostsTyped, Settled, Released, Accepted, Next
  PROVE  Accepted'
<1> SUFFICES ASSUME NEW c \in Calls, result'[c] = "accepted" PROVE CancelledBy(c)'
  BY DEF Accepted, CancelledBy
<1> USE PostAssumption DEF PostsTyped, Posts, Done
<1>1. CASE result[c] = "accepted"
  BY <1>1, CancelledStays DEF Accepted, Settled
<1>2. CASE result[c] # "accepted"
  <2>1. PICK p \in Posts : PostStep(p)
    BY <1>2, StepCases DEF Answers, Aside, postVars
  <2>2. Respond(c) /\ chan[c] = "closed" /\ pc[c] = "waiting"
    BY <1>2, <2>1 DEF PostStep, CheckLimit, CreateSession, LookUp, LookUpCancel, LookUpNote,
                      Forward, Flush, ForwardFails, Forwarded, Respond, HangUp
  <2> QED BY <2>2, CancelledStays DEF Released
<1> QED BY <1>1, <1>2

-----------------------------------------------------------------------------

LEMMA StutterInv == ASSUME IInv, UNCHANGED vars PROVE IInv'
BY DEF IInv, QueuesTyped, PostsTyped, ServerTyped, Created, Settled, Registered, Released,
   Accepted, CancelledBy, InSession, FailedInitLeavesNothing, GoneForGood, vars, tableVars,
   sessionVars, postVars

LEMMA StepInv == ASSUME IInv, Next PROVE IInv'
BY QueuesStep, PostsStep, ServerStepTyped, CreatedStep, SettledStep, RegisteredStep,
   ReleasedStep, FailedStep, GoneStep, AcceptedStep DEF IInv

THEOREM Invariance == Spec => []IInv
<1>1. IInv /\ [Next]_vars => IInv'
  BY StutterInv, StepInv
<1> QED BY <1>1, InitInv, PTL DEF Spec

\* Every variable keeps its type; the channel of a session never holds more
\* than its buffer and one message for each POST that is parked there.
THEOREM TypeCorrect == Spec => []TypeOK
<1>1. IInv => TypeOK
  BY TypeParts DEF IInv
<1> QED BY <1>1, Invariance, PTL

\* An initialize that was refused or answered with an error leaves no session
\* in the table, whatever other POSTs, expiry, DELETE and the end of the server
\* did meanwhile.
THEOREM FailureLeavesNothing == Spec => []FailedInitLeavesNothing
<1>1. IInv => FailedInitLeavesNothing
  BY DEF IInv
<1> QED BY <1>1, Invariance, PTL

\* A session whose client was told that it is gone is never in the table again.
THEOREM NoReturn == Spec => []GoneForGood
<1>1. IInv => GoneForGood
  BY DEF IInv
<1> QED BY <1>1, Invariance, PTL

\* A request is accepted without a response only when its client cancelled it in
\* the same session: nothing else takes a sender away before the loop had its
\* chance to respond, not even the end of the session (routes.pending).
THEOREM OnlyCancelled == Spec => []Accepted
<1>1. IInv => Accepted
  BY DEF IInv
<1> QED BY <1>1, Invariance, PTL

-----------------------------------------------------------------------------
(* Nobody is forgotten: what the liveness of a POST rests on.              *)

\* A POST that waits has a sender somewhere, and a POST that is over left one
\* behind only in a session it found ended.
Senders ==
  \A p \in Inits \cup Calls :
    /\ InSession(p) => chan[p] # "none"
    /\ chan[p] = "open" /\ pc[p] = "done" => result[p] = "notfound"

\* The sender of a POST that is not answered is registered, and a loop that runs
\* still has the request, unless a cancellation overtook it.
NobodyForgotten ==
  \A p \in Inits \cup Calls, s \in Inits :
    Holds(p, s) /\ chan[p] = "open" =>
      /\ p \in pending[s]
      /\ pc[p] # "forwarding" /\ loop[s] = "running" => Underway(p, s) \/ Overtaken(p, s)

\* A cancellation that did not overtake its target has released the POST of the
\* target before the loop of the session can see it and suppress the response.
CancelsReleased ==
  \A k \in Cancels :
    /\ k \in early => pc[k] # "new"
    /\ \A s \in Inits :
         Holds(k, s) \/ Underway(k, s) =>
           /\ session[k] = s /\ pc[k] # "new"
           /\ k \notin early =>
                /\ pc[Target[k]] # "new"
                /\ session[Target[k]] = s => chan[Target[k]] # "open"

\* POSTs are parked only at a channel that is full, with a loop that empties it.
ParkedAreFull ==
  \A s \in Inits :
    parked[s] # <<>> => /\ loop[s] = "running"
                        /\ Len(inbox[s]) = IncomingBuffer + Len(parked[s])

\* The POST of a request whose loop runs has its answer, or the loop has the
\* request, or a cancellation overtook it; one that is parked is so at a channel
\* with messages to take.
AnswerIsComing ==
  \A c \in Calls, s \in Inits :
    Holds(c, s) /\ loop[s] = "running" =>
      /\ pc[c] = "waiting" =>
           \/ chan[c] \in {"result", "error", "closed"}
           \/ Underway(c, s) \/ Overtaken(c, s)
      /\ \A i \in 1..Len(parked[s]) : parked[s][i] = c => inbox[s] # <<>>

Progress == Senders /\ NobodyForgotten /\ CancelsReleased /\ ParkedAreFull

LEMMA InitProgress == Init => Progress
BY PostAssumption DEF Init, Progress, Senders, NobodyForgotten, CancelsReleased,
   ParkedAreFull, Holds, InSession, Underway, Overtaken, Posts

\* What Underway becomes when the loop takes a message or a POST forwards one.
LEMMA TakenIs ==
  ASSUME QueuesTyped, ServerTyped, NEW s \in Inits, TakeNext(s)
  PROVE  \A p \in Posts, r \in Inits :
           /\ p \notin serving /\ Underway(p, r) /\ ~(r = s /\ p = Head(inbox[s]))
                => \E i \in 1..Len(inbox'[r]) : inbox'[r][i] = p
           /\ (\E i \in 1..Len(inbox'[r]) : inbox'[r][i] = p) => Underway(p, r)
<1> USE DEF QueuesTyped, ServerTyped
<1>1. /\ inbox[s] \in Seq(Posts) /\ inbox[s] # <<>>
      /\ inbox'[s] = Tail(inbox[s]) /\ \A r \in Inits \ {s} : inbox'[r] = inbox[r]
  BY DEF TakeNext
<1>2. /\ Len(inbox[s]) \in Nat /\ Len(inbox[s]) > 0 /\ Len(inbox'[s]) = Len(inbox[s]) - 1
      /\ Head(inbox[s]) = inbox[s][1]
      /\ \A i \in 1..(Len(inbox[s]) - 1) : inbox'[s][i] = inbox[s][i + 1]
  BY <1>1, TailIs
<1>3. ASSUME NEW p \in Posts, NEW i \in 1..Len(inbox[s]), inbox[s][i] = p, p # Head(inbox[s])
      PROVE  \E j \in 1..Len(inbox'[s]) : inbox'[s][j] = p
  <2>1. i # 1 /\ i - 1 \in 1..Len(inbox'[s])
    BY <1>2, <1>3
  <2>2. inbox'[s][i - 1] = p
    BY <1>2, <1>3, <2>1
  <2> QED BY <2>1, <2>2
<1>4. ASSUME NEW p \in Posts, NEW i \in 1..Len(inbox'[s]), inbox'[s][i] = p
      PROVE  \E j \in 1..Len(inbox[s]) : inbox[s][j] = p
  <2>1. i + 1 \in 1..Len(inbox[s]) /\ inbox[s][i + 1] = p
    BY <1>2, <1>4
  <2> QED BY <2>1
<1> QED BY <1>1, <1>3, <1>4 DEF Underway

LEMMA ForwardedIs ==
  ASSUME QueuesTyped, NEW p \in Posts, Forward(p), session[p] \in Inits
  PROVE  \A q \in Posts, r \in Inits :
           Underway(q, r)' <=> Underway(q, r) \/ (q = p /\ r = session[p])
<1> DEFINE s == session[p]
<1>1. inbox[s] \in Seq(Posts) /\ inbox \in [Inits -> Seq(Posts)]
  BY DEF QueuesTyped
<1>2. inbox' = [inbox EXCEPT ![s] = Append(inbox[s], p)] /\ serving' = serving
  BY DEF Forward
<1>3. inbox'[s] = Append(inbox[s], p) /\ \A r \in Inits \ {s} : inbox'[r] = inbox[r]
  BY <1>1, <1>2
<1>4. /\ Len(inbox[s]) \in Nat /\ Len(inbox'[s]) = Len(inbox[s]) + 1
      /\ inbox'[s][Len(inbox[s]) + 1] = p
      /\ \A i \in 1..Len(inbox[s]) : inbox'[s][i] = inbox[s][i]
  BY <1>1, <1>3, AppendIs
<1> HIDE DEF s
<1>5. ASSUME NEW q \in Posts
      PROVE  (\E i \in 1..Len(inbox'[s]) : inbox'[s][i] = q)
               <=> (\E i \in 1..Len(inbox[s]) : inbox[s][i] = q) \/ q = p
  <2>1. Len(inbox[s]) + 1 \in 1..Len(inbox'[s])
    BY <1>4
  <2>2. \A i \in 1..Len(inbox[s]) : i \in 1..Len(inbox'[s])
    BY <1>4
  <2>3. \A i \in 1..Len(inbox'[s]) : i \in 1..Len(inbox[s]) \/ i = Len(inbox[s]) + 1
    BY <1>4
  <2> QED BY <1>4, <2>1, <2>2, <2>3
<1>6. ASSUME NEW q \in Posts, NEW r \in Inits
      PROVE  Underway(q, r)' <=> Underway(q, r) \/ (q = p /\ r = s)
  <2>1. CASE r = s
    BY <1>2, <1>5, <2>1 DEF Underway
  <2>2. CASE r # s
    <3>1. inbox'[r] = inbox[r] /\ serving' = serving
      BY <1>2, <1>3, <2>2
    <3> QED BY <2>2, <3>1 DEF Underway
  <2> QED BY <2>1, <2>2
<1> QED BY <1>6 DEF s

\* A POST loses its sender to an answer or a cancellation, or hangs up.
LEMMA SendersStep == ASSUME ServerTyped, PostsTyped, Settled, Senders, Next PROVE Senders'
<1> USE PostAssumption DEF PostsTyped, Senders, InSession, Posts, Done
<1>1. ASSUME NEW p \in Inits, CheckLimit(p) PROVE Senders'
  BY <1>1 DEF CheckLimit, Settled
<1>2. ASSUME NEW p \in Inits, CreateSession(p) PROVE Senders'
  BY <1>2 DEF CreateSession
<1>3. ASSUME NEW p \in Calls, NEW s \in Inits, LookUp(p, s) PROVE Senders'
  BY <1>3 DEF LookUp, Settled
<1>4. ASSUME NEW p \in Cancels, NEW s \in Inits, LookUpCancel(p, s) PROVE Senders'
  BY <1>4 DEF LookUpCancel, Release
<1>5. ASSUME NEW p \in Notes, NEW s \in Inits, LookUpNote(p, s) PROVE Senders'
  BY <1>5 DEF LookUpNote
<1>6. ASSUME NEW p \in Posts, Forward(p) \/ Flush(p) \/ ForwardFails(p) PROVE Senders'
  BY <1>6 DEF Forward, Flush, ForwardFails, Forwarded
<1>7. ASSUME NEW p \in Posts, Respond(p) \/ HangUp(p) PROVE Senders'
  BY <1>7 DEF Respond, HangUp
<1>8. CASE Answers
  BY <1>8 DEF Answers
<1>9. CASE Aside
  BY <1>9 DEF Aside, postVars
<1> QED BY <1>1, <1>2, <1>3, <1>4, <1>5, <1>6, <1>7, <1>8, <1>9, StepCases DEF PostStep

\* What a cancellation finds that did not overtake its target: the sender of the
\* target, if it is open, is registered in the session.
LEMMA TargetIs ==
  ASSUME PostsTyped, Settled, Senders, NobodyForgotten, GoneForGood,
         NEW k \in Cancels, NEW s \in Inits, LookUpCancel(k, s), s \in table,
         pc[Target[k]] # "new", session[Target[k]] = s
  PROVE  chan[Target[k]] = "open" => Target[k] \in pending[s]
<1> DEFINE t == Target[k]
<1>1. t \in Calls /\ session[t] = s /\ t \notin Inits
  BY PostAssumption DEF LookUpCancel
<1>2. pc[t] \notin {"new", "checked"}
  BY <1>1, PostAssumption DEF Settled, Posts
<1>3. CASE pc[t] = "done"
  BY <1>1, <1>2, <1>3 DEF Senders, GoneForGood, Posts
<1>4. CASE pc[t] # "done"
  <2>1. InSession(t)
    BY <1>1, <1>2, <1>4 DEF PostsTyped, InSession, Posts
  <2> QED BY <1>1, <1>2, <2>1 DEF NobodyForgotten, Holds
<1> QED BY <1>1, <1>2, <1>3, <1>4

\* The loop of s ends: nobody is forgotten elsewhere.
LEMMA EndedIs ==
  ASSUME ServerTyped, QueuesTyped, NEW s \in Inits, EndLoop(s)
  PROVE  /\ UNCHANGED <<pending, postVars>>
         /\ loop'[s] = "ended" /\ inbox'[s] = <<>> /\ parked'[s] = <<>>
         /\ \A r \in Inits \ {s} :
              /\ loop'[r] = loop[r] /\ inbox'[r] = inbox[r] /\ parked'[r] = parked[r]
              /\ \A p \in Posts : session[p] = r => (p \in serving' <=> p \in serving)
         /\ serving' \subseteq serving
BY DEF EndLoop, ServerTyped, QueuesTyped

\* A cancellation that was looked up keeps its session, and has overtaken its
\* target for ever or never.
LEMMA CancelKept ==
  ASSUME ServerTyped, PostsTyped, Settled, Next, NEW k \in Cancels
  PROVE  /\ pc[k] # "new" => pc'[k] # "new" /\ session'[k] = session[k]
         /\ k \in early => k \in early'
         /\ k \in early' => k \in early \/ pc'[k] # "new"
<1> USE PostAssumption DEF Posts, Done, PostsTyped, sessionVars
<1>1. pc[k] # "checked"
  BY DEF Settled
<1>2. ASSUME NEW p \in Cancels, NEW s \in Inits, LookUpCancel(p, s)
      PROVE  /\ pc[k] # "new" => pc'[k] # "new" /\ session'[k] = session[k]
             /\ k \in early => k \in early'
             /\ k \in early' => k \in early \/ pc'[k] # "new"
  BY <1>2 DEF LookUpCancel
<1>3. ASSUME NEW p \in Posts, PostStep(p), ~(p \in Cancels /\ \E s \in Inits : LookUpCancel(p, s))
      PROVE  early' = early
  BY <1>3 DEF PostStep, CheckLimit, CreateSession, LookUp, LookUpNote, Forward, Flush,
              ForwardFails, Respond, HangUp
<1>4. ASSUME NEW p \in Posts, PostStep(p), pc[k] # "new",
             ~(p \in Cancels /\ \E s \in Inits : LookUpCancel(p, s))
      PROVE  pc'[k] # "new" /\ session'[k] = session[k]
  BY <1>1, <1>4 DEF PostStep, CheckLimit, CreateSession, LookUp, LookUpNote, Forward, Flush,
                    ForwardFails, Forwarded, Respond, HangUp
<1>5. CASE \E p \in Posts : PostStep(p)
  BY <1>2, <1>3, <1>4, <1>5
<1>6. CASE Answers \/ Aside
  BY <1>6 DEF Answers, Aside, postVars
<1> QED BY <1>5, <1>6, StepCases

LEMMA OvertakenStays ==
  ASSUME ServerTyped, PostsTyped, Settled, CancelsReleased, Next,
         NEW c \in Posts, NEW s \in Inits, Overtaken(c, s)
  PROVE  Overtaken(c, s)'
<1>1. PICK k \in early : Target[k] = c /\ session[k] = s
  BY DEF Overtaken
<1>2. k \in Cancels /\ pc[k] # "new"
  BY <1>1 DEF PostsTyped, CancelsReleased
<1> QED BY <1>1, <1>2, CancelKept DEF Overtaken

LEMMA ForgottenStep ==
  ASSUME QueuesTyped, PostsTyped, ServerTyped, Created, Settled, Senders, NobodyForgotten,
         CancelsReleased, Next
  PROVE  NobodyForgotten'
<1> SUFFICES ASSUME NEW q \in Inits \cup Calls, NEW r \in Inits,
                    Holds(q, r)', chan'[q] = "open"
             PROVE  /\ q \in pending'[r]
                    /\ pc'[q] # "forwarding" /\ loop'[r] = "running" =>
                         Underway(q, r)' \/ Overtaken(q, r)'
  BY DEF NobodyForgotten
<1> USE PostAssumption DEF Posts, Done
<1> DEFINE over == Overtaken(q, r)'
           Goal == /\ q \in pending'[r]
                   /\ pc'[q] # "forwarding" /\ loop'[r] = "running" =>
                        Underway(q, r)' \/ over
<1>0. Overtaken(q, r) => over
  BY OvertakenStays
<1> HIDE DEF over
<1>1. ASSUME InSession(q), session[q] = r, chan[q] = "open"
      PROVE  /\ q \in pending[r]
             /\ pc[q] # "forwarding" /\ loop[r] = "running" => Underway(q, r) \/ over
  BY <1>0, <1>1 DEF NobodyForgotten, Holds
<1>2. ASSUME UNCHANGED <<pending, postVars, inbox, serving, loop>> PROVE Goal
  BY <1>1, <1>2 DEF Holds, InSession, Underway, postVars
<1>3. ASSUME NEW p \in Inits, CheckLimit(p) PROVE Goal
  BY <1>1, <1>3 DEF CheckLimit, Holds, InSession, Underway, sessionVars, PostsTyped
<1>4. ASSUME NEW p \in Inits, CreateSession(p) PROVE Goal
  BY <1>1, <1>4 DEF CreateSession, Holds, InSession, Underway, PostsTyped, Created
<1>5. ASSUME NEW p \in Calls, NEW s \in Inits, LookUp(p, s) PROVE Goal
  BY <1>1, <1>5 DEF LookUp, Holds, InSession, Underway, PostsTyped
<1>6. ASSUME NEW p \in Cancels, NEW s \in Inits, LookUpCancel(p, s) PROVE Goal
  BY <1>1, <1>6 DEF LookUpCancel, Release, Holds, InSession, Underway, PostsTyped
<1>7. ASSUME NEW p \in Notes, NEW s \in Inits, LookUpNote(p, s) PROVE Goal
  BY <1>1, <1>7 DEF LookUpNote, Holds, InSession, Underway, PostsTyped
<1>8. ASSUME NEW p \in Posts, Forward(p) PROVE Goal
  <2>1. session[p] \in Inits /\ InSession(p)
    BY <1>8 DEF Forward, Settled, InSession
  <2>2. Underway(q, r)' <=> Underway(q, r) \/ (q = p /\ r = session[p])
    BY <1>8, <2>1, ForwardedIs
  <2>3. /\ UNCHANGED <<pending, session, chan, loop>>
        /\ \A x \in Posts \ {p} : pc'[x] = pc[x]
    BY <1>8 DEF Forward, Forwarded, PostsTyped
  <2>4. InSession(q) /\ session[q] = r
    BY <2>1, <2>3 DEF Holds, InSession
  <2> QED BY <1>1, <2>2, <2>3, <2>4 DEF Holds
<1>9. ASSUME NEW p \in Posts, Flush(p) \/ ForwardFails(p) PROVE Goal
  BY <1>1, <1>9 DEF Flush, ForwardFails, Forwarded, Holds, InSession, Underway, PostsTyped,
                    sessionVars
<1>10. ASSUME NEW p \in Posts, Respond(p) \/ HangUp(p) PROVE Goal
  BY <1>1, <1>10 DEF Respond, HangUp, Holds, InSession, Underway, PostsTyped, sessionVars
<1>11. ASSUME NEW s \in Inits, Take(s) PROVE Goal
  <2>1. UNCHANGED <<pending, postVars, loop>> /\ TakeNext(s)
    BY <1>11 DEF Take
  <2>2. Holds(q, r) /\ chan[q] = "open"
    BY <2>1 DEF Holds, InSession, postVars
  <2>3. ASSUME Underway(q, r) PROVE Underway(q, r)' \/ over
    <3>1. CASE q \in serving /\ q \in serving'
      BY <3>1 DEF Underway
    <3>2. CASE q \in serving /\ q \notin serving'
      <4>1. PICK k \in Cancels : Target[k] = q /\ k = Head(inbox[s]) /\ session[q] = s
        BY <1>11, <3>2 DEF Take
      <4>2. Underway(k, s)
        BY <2>1, <4>1, TailIs DEF TakeNext, QueuesTyped, Underway
      <4>3. session[k] = s /\ k \in early
        BY <2>2, <4>1, <4>2 DEF CancelsReleased
      <4>4. Overtaken(q, s) /\ r = s
        BY <2>2, <4>1, <4>3 DEF Overtaken, Holds
      <4> QED BY <1>0, <4>4
    <3>3. CASE q \notin serving /\ ~(r = s /\ q = Head(inbox[s]))
      BY <2>1, <2>3, <3>3, TakenIs DEF Underway
    <3>4. CASE q = Head(inbox[s]) /\ r = s
      BY <1>11, <3>4 DEF Take, Underway
    <3> QED BY <3>1, <3>2, <3>3, <3>4
  <2> QED BY <1>1, <2>1, <2>2, <2>3 DEF Holds, postVars
<1>12. ASSUME NEW s \in Inits, TakeInitialize(s) PROVE Goal
  <2>1. PICK kind \in {"result", "error"} : Deliver(s, kind)
    BY <1>12 DEF TakeInitialize
  <2>2. UNCHANGED <<pc, session, loop, serving>> /\ TakeNext(s) /\ Head(inbox[s]) = s
    BY <1>12 DEF TakeInitialize
  <2>3. InSession(q) /\ session[q] = r /\ chan[q] = "open"
    BY <2>1, <2>2 DEF Holds, InSession, Deliver, PostsTyped
  <2>4. q # s
    BY <1>1, <2>1, <2>3 DEF Deliver, PostsTyped
  <2>5. q \in pending'[r]
    BY <1>1, <2>1, <2>3, <2>4 DEF Deliver, PostsTyped
  <2>6. Underway(q, r) => Underway(q, r)'
    BY <2>2, <2>4, TakenIs DEF Underway
  <2> QED BY <1>1, <2>2, <2>3, <2>5, <2>6
<1>13. ASSUME NEW s \in Inits, EndLoop(s) PROVE Goal
  BY <1>1, <1>13, EndedIs DEF Holds, InSession, Underway, postVars
<1>14. ASSUME NEW c \in Calls, Answer(c) PROVE Goal
  <2>1. /\ UNCHANGED <<pc, session, loop, inbox>> /\ Deliver(c, "result")
        /\ serving' = serving \ {c}
    BY <1>14 DEF Answer
  <2>2. InSession(q) /\ session[q] = r /\ chan[q] = "open"
    BY <2>1 DEF Holds, InSession, Deliver, PostsTyped
  <2>3. q # c
    BY <1>1, <2>1, <2>2 DEF Deliver, PostsTyped
  <2>4. q \in pending'[r]
    BY <1>1, <2>1, <2>2, <2>3 DEF Deliver, PostsTyped
  <2> QED BY <1>1, <2>1, <2>2, <2>3, <2>4 DEF Underway
<1>15. ASSUME NEW s \in Inits, SessionStep(s) PROVE Goal
  BY <1>2, <1>15 DEF SessionStep, OpenStream, CloseStream, Delete, TimePasses, RemoveExpired
<1>16. ASSUME ServerStep PROVE Goal
  BY <1>2, <1>16 DEF ServerStep, CollectExpired, EndCleanup, Shutdown, SignalAll, ClearTable,
                     CloseListener, EndListener, sessionVars
<1> HIDE DEF Goal
<1>17. ASSUME NEW p \in Posts, PostStep(p) PROVE Goal
  BY <1>3, <1>4, <1>5, <1>6, <1>7, <1>8, <1>9, <1>10, <1>17 DEF PostStep
<1>18. ASSUME NEW s \in Inits, LoopStep(s) PROVE Goal
  BY <1>11, <1>12, <1>13, <1>18 DEF LoopStep, FailInitialize, StopLoop
<1>19. Goal
  BY <1>14, <1>15, <1>16, <1>17, <1>18 DEF Next
<1> QED BY <1>19 DEF Goal, over

\* A request that was looked up keeps its session, and its sender is never opened
\* again.
LEMMA ReleasedStays ==
  ASSUME ServerTyped, PostsTyped, Settled, Next, NEW c \in Calls, pc[c] # "new"
  PROVE  /\ pc'[c] # "new" /\ session'[c] = session[c]
         /\ chan[c] # "open" => chan'[c] # "open"
BY StepCases, PostAssumption DEF Answers, Aside, postVars, PostStep, CheckLimit, CreateSession,
   LookUp, LookUpCancel, LookUpNote, Release, Forward, Flush, ForwardFails, Forwarded, Respond,
   HangUp, Done, PostsTyped, Posts, InSession, Settled

LEMMA CancelsStep ==
  ASSUME QueuesTyped, PostsTyped, ServerTyped, Settled, Senders, NobodyForgotten, GoneForGood,
         CancelsReleased, Next
  PROVE  CancelsReleased'
<1> USE PostAssumption DEF Posts, Done
<1>0. ASSUME NEW k \in Cancels, k \in early' PROVE pc'[k] # "new"
  BY <1>0, CancelKept DEF CancelsReleased
<1> SUFFICES ASSUME NEW k \in Cancels, NEW r \in Inits, Holds(k, r)' \/ Underway(k, r)'
             PROVE  /\ session'[k] = r /\ pc'[k] # "new"
                    /\ k \notin early' =>
                         /\ pc'[Target[k]] # "new"
                         /\ session'[Target[k]] = r => chan'[Target[k]] # "open"
  BY <1>0 DEF CancelsReleased
<1> DEFINE Old == Holds(k, r) \/ Underway(k, r)
           Goal == /\ session'[k] = r /\ pc'[k] # "new"
                   /\ k \notin early' =>
                        /\ pc'[Target[k]] # "new"
                        /\ session'[Target[k]] = r => chan'[Target[k]] # "open"
<1>1. ASSUME Old PROVE Goal
  <2>1. /\ session[k] = r /\ pc[k] # "new"
        /\ k \notin early =>
             pc[Target[k]] # "new" /\ (session[Target[k]] = r => chan[Target[k]] # "open")
    BY <1>1 DEF CancelsReleased
  <2>2. session'[k] = r /\ pc'[k] # "new" /\ (k \notin early' => k \notin early)
    BY <2>1, CancelKept
  <2>3. Target[k] \in Calls
    OBVIOUS
  <2> QED BY <2>1, <2>2, <2>3, ReleasedStays
<1>2. ASSUME UNCHANGED <<pc, session, inbox, serving>> PROVE Old
  BY <1>2 DEF Holds, InSession, Underway
<1>3. ASSUME NEW p \in Inits \cup Calls \cup Notes, NEW s \in Inits,
             \/ CheckLimit(p) \/ CreateSession(p)
             \/ LookUp(p, s) \/ LookUpNote(p, s)
      PROVE  Old \/ p = k
  BY <1>3 DEF CheckLimit, CreateSession, LookUp, LookUpNote, Holds, InSession, Underway,
              sessionVars, PostsTyped
<1>4. ASSUME NEW p \in Cancels, NEW s \in Inits, LookUpCancel(p, s), p # k PROVE Old
  BY <1>4 DEF LookUpCancel, Holds, InSession, Underway, PostsTyped
<1>5. ASSUME NEW s \in Inits, LookUpCancel(k, s), ~Old PROVE Goal
  <2>1. s \in table /\ s = r
    BY <1>5 DEF LookUpCancel, Holds, InSession, Underway, PostsTyped
  <2>2. Target[k] \in Calls /\ Target[k] # k
    OBVIOUS
  <2>3. /\ session'[k] = r /\ pc'[k] # "new"
        /\ pc'[Target[k]] = pc[Target[k]] /\ session'[Target[k]] = session[Target[k]]
        /\ k \notin early' => pc[Target[k]] # "new"
        /\ Target[k] \in pending[s] => chan'[Target[k]] # "open"
        /\ chan[Target[k]] # "open" => chan'[Target[k]] # "open"
    BY <1>5, <2>1, <2>2 DEF LookUpCancel, Release, PostsTyped
  <2>4. ASSUME pc[Target[k]] # "new", session[Target[k]] = s
        PROVE  chan[Target[k]] = "open" => Target[k] \in pending[s]
    BY <1>5, <2>1, <2>4, TargetIs
  <2> QED BY <2>1, <2>3, <2>4
<1>6. ASSUME NEW p \in Posts, Forward(p) PROVE Old
  <2>1. session[p] \in Inits /\ InSession(p)
    BY <1>6 DEF Forward, Settled, InSession
  <2>2. Underway(k, r)' <=> Underway(k, r) \/ (k = p /\ r = session[p])
    BY <1>6, <2>1, ForwardedIs
  <2>3. session' = session /\ \A x \in Posts \ {p} : pc'[x] = pc[x]
    BY <1>6 DEF Forward, Forwarded, PostsTyped
  <2> QED BY <2>1, <2>2, <2>3 DEF Holds, InSession
<1>7. ASSUME NEW p \in Posts, Flush(p) \/ ForwardFails(p) \/ Respond(p) \/ HangUp(p)
      PROVE  Old
  BY <1>7 DEF Flush, ForwardFails, Forwarded, Respond, HangUp, Holds, InSession, Underway,
              PostsTyped, sessionVars
<1>8. ASSUME NEW s \in Inits, Take(s) \/ TakeInitialize(s) PROVE Old
  <2>1. TakeNext(s) /\ UNCHANGED <<pc, session>>
    BY <1>8 DEF Take, TakeInitialize, postVars
  <2>2. k \notin serving'
    BY <1>8 DEF Take, TakeInitialize, ServerTyped
  <2>3. Underway(k, r)' => Underway(k, r)
    BY <2>1, <2>2, TakenIs DEF Underway
  <2> QED BY <2>1, <2>3 DEF Holds, InSession
<1>9. ASSUME NEW s \in Inits, EndLoop(s) PROVE Old
  BY <1>9, EndedIs DEF Holds, InSession, Underway, postVars
<1>10. ASSUME NEW c \in Calls, Answer(c) PROVE Old
  BY <1>10 DEF Answer, Holds, InSession, Underway
<1>11. ASSUME NEW s \in Inits, SessionStep(s) PROVE Old
  BY <1>2, <1>11 DEF SessionStep, OpenStream, CloseStream, Delete, TimePasses, RemoveExpired,
                     postVars
<1>12. ASSUME ServerStep PROVE Old
  BY <1>2, <1>12 DEF ServerStep, CollectExpired, EndCleanup, Shutdown, SignalAll, ClearTable,
                     CloseListener, EndListener, sessionVars, postVars
<1> HIDE DEF Old, Goal
<1>13. ASSUME NEW p \in Posts, PostStep(p) PROVE Old \/ \E s \in Inits : LookUpCancel(k, s)
  BY <1>3, <1>4, <1>6, <1>7, <1>13 DEF PostStep
<1>14. ASSUME NEW s \in Inits, LoopStep(s) PROVE Old
  BY <1>8, <1>9, <1>14 DEF LoopStep, FailInitialize, StopLoop
<1>15. Goal
  BY <1>1, <1>5, <1>10, <1>11, <1>12, <1>13, <1>14 DEF Next
<1> QED BY <1>15 DEF Goal

LEMMA ParkedStep ==
  ASSUME QueuesTyped, PostsTyped, ServerTyped, Created, Settled, ParkedAreFull, Next
  PROVE  ParkedAreFull'
<1> USE PostAssumption, LimitAssumption DEF ParkedAreFull
<1>1. ASSUME NEW p \in Posts, Forward(p) PROVE ParkedAreFull'
  <2> DEFINE s == session[p]
  <2>1. s \in Inits
    BY <1>1 DEF Forward, Settled, InSession
  <2> HIDE DEF s
  <2>2. /\ loop' = loop /\ loop[s] = "running"
        /\ inbox' = [inbox EXCEPT ![s] = Append(inbox[s], p)]
        /\ \/ Len(inbox[s]) < IncomingBuffer /\ parked' = parked
           \/ /\ ~(Len(inbox[s]) < IncomingBuffer)
              /\ parked' = [parked EXCEPT ![s] = Append(parked[s], p)]
    BY <1>1 DEF Forward, HasRoom, s
  <2>3. /\ inbox[s] \in Seq(Posts) /\ parked[s] \in Seq(Posts)
        /\ Len(inbox[s]) <= IncomingBuffer + Len(parked[s])
    BY <2>1 DEF QueuesTyped
  <2>4. /\ Len(inbox[s]) \in Nat /\ Len(parked[s]) \in Nat
        /\ Len(Append(inbox[s], p)) = Len(inbox[s]) + 1
        /\ Len(Append(parked[s], p)) = Len(parked[s]) + 1
        /\ parked[s] = <<>> <=> Len(parked[s]) = 0
    BY <2>3, AppendIs, EmptyIs
  <2>5. \A r \in Inits \ {s} : inbox'[r] = inbox[r] /\ parked'[r] = parked[r]
    BY <2>2 DEF QueuesTyped
  <2>6. Len(inbox'[s]) = Len(inbox[s]) + 1
    BY <2>1, <2>2, <2>4 DEF QueuesTyped
  <2>7. CASE parked' = parked /\ Len(inbox[s]) < IncomingBuffer
    <3>1. parked[s] = <<>>
      BY <2>1, <2>3, <2>4, <2>7
    <3> QED BY <2>2, <2>5, <2>7, <3>1
  <2>8. CASE ~(Len(inbox[s]) < IncomingBuffer)
    <3>1. Len(parked'[s]) = Len(parked[s]) + 1
      BY <2>1, <2>2, <2>4, <2>8 DEF QueuesTyped
    <3>2. Len(inbox[s]) = IncomingBuffer + Len(parked[s])
      BY <2>1, <2>3, <2>4, <2>8
    <3>3. Len(inbox'[s]) = IncomingBuffer + Len(parked'[s])
      BY <2>4, <2>6, <3>1, <3>2
    <3> QED BY <2>2, <2>5, <3>3
  <2> QED BY <2>2, <2>7, <2>8
<1>2. ASSUME NEW s \in Inits, TakeNext(s), loop' = loop PROVE ParkedAreFull'
  <2>1. /\ inbox[s] \in Seq(Posts) /\ parked[s] \in Seq(Posts) /\ inbox[s] # <<>>
        /\ inbox'[s] = Tail(inbox[s])
        /\ parked'[s] = IF parked[s] = <<>> THEN parked[s] ELSE Tail(parked[s])
        /\ \A r \in Inits \ {s} : inbox'[r] = inbox[r] /\ parked'[r] = parked[r]
    BY <1>2 DEF TakeNext, QueuesTyped
  <2>2. Len(inbox[s]) \in Nat /\ Len(inbox'[s]) = Len(inbox[s]) - 1
    BY <2>1, TailIs
  <2>3. parked[s] # <<>> => Len(parked[s]) \in Nat /\ Len(parked'[s]) = Len(parked[s]) - 1
    BY <2>1, TailIs
  <2>4. ASSUME parked'[s] # <<>>
        PROVE  loop'[s] = "running" /\ Len(inbox'[s]) = IncomingBuffer + Len(parked'[s])
    <3>1. parked[s] # <<>>
      BY <2>1, <2>4
    <3>2. loop[s] = "running" /\ Len(inbox[s]) = IncomingBuffer + Len(parked[s])
      BY <3>1
    <3> QED BY <1>2, <2>2, <2>3, <3>1, <3>2
  <2> QED BY <1>2, <2>1, <2>4
<1>3. ASSUME NEW s \in Inits, EndLoop(s) PROVE ParkedAreFull'
  BY <1>3, EndedIs
<1>4. ASSUME UNCHANGED <<inbox, parked>>,
             \A s \in Inits : loop[s] = "running" => loop'[s] = "running"
      PROVE  ParkedAreFull'
  BY <1>4
<1>5. ASSUME NEW p \in Posts, PostStep(p), ~Forward(p) PROVE ParkedAreFull'
  BY <1>4, <1>5 DEF PostStep, CheckLimit, CreateSession, Flush, ForwardFails, Respond, HangUp,
     LookUp, LookUpCancel, LookUpNote, sessionVars, ServerTyped
<1>6. ASSUME NEW s \in Inits, LoopStep(s) PROVE ParkedAreFull'
  BY <1>2, <1>3, <1>6 DEF LoopStep, Take, TakeInitialize, FailInitialize, StopLoop
<1>7. ASSUME NEW s \in Inits, SessionStep(s) PROVE ParkedAreFull'
  BY <1>4, <1>7 DEF SessionStep, OpenStream, CloseStream, Delete, TimePasses, RemoveExpired
<1>8. ASSUME ServerStep PROVE ParkedAreFull'
  BY <1>4, <1>8 DEF ServerStep, CollectExpired, EndCleanup, Shutdown, SignalAll, ClearTable,
                    CloseListener, EndListener, sessionVars
<1>9. ASSUME NEW c \in Calls, Answer(c) PROVE ParkedAreFull'
  BY <1>4, <1>9 DEF Answer
<1> QED BY <1>1, <1>5, <1>6, <1>7, <1>8, <1>9 DEF Next

LEMMA ProgressStep == ASSUME IInv, Progress, [Next]_vars PROVE Progress'
<1>1. CASE Next
  BY <1>1, SendersStep, ForgottenStep, CancelsStep, ParkedStep DEF IInv, Progress
<1>2. CASE UNCHANGED vars
  BY <1>2 DEF Progress, Senders, NobodyForgotten, CancelsReleased, ParkedAreFull, Holds,
              InSession, Underway, Overtaken, vars, tableVars, sessionVars, postVars
<1> QED BY <1>1, <1>2

LEMMA ProgressInvariance == Spec => []Progress
<1>1. IInv /\ IInv' /\ Progress /\ [Next]_vars => Progress'
  BY ProgressStep
<1> QED BY <1>1, InitProgress, Invariance, PTL DEF Spec

\* The POST of a request whose session goes on has its answer or was released, or
\* its loop still has the request or a handler of it, unless a cancellation of it
\* was handled before the POST itself: nothing else can leave a POST waiting for
\* nobody.  A POST that is parked waits for a loop with messages to take.  With the
\* fairness of the tasks this is why the POST ends (AnsweredOrEnded).
THEOREM NoPostStarves == Spec => []AnswerIsComing
<1>1. IInv /\ Progress => AnswerIsComing
  <2> SUFFICES ASSUME IInv, Progress, NEW c \in Calls, NEW s \in Inits,
                      Holds(c, s), loop[s] = "running"
               PROVE  /\ pc[c] = "waiting" =>
                           \/ chan[c] \in {"result", "error", "closed"}
                           \/ Underway(c, s) \/ Overtaken(c, s)
                      /\ \A i \in 1..Len(parked[s]) : parked[s][i] = c => inbox[s] # <<>>
    BY DEF AnswerIsComing
  <2>1. pc[c] = "waiting" =>
           \/ chan[c] \in {"result", "error", "closed"}
           \/ Underway(c, s) \/ Overtaken(c, s)
    BY DEF Progress, Senders, NobodyForgotten, Holds, IInv, PostsTyped, Posts
  <2>2. ASSUME NEW i \in 1..Len(parked[s]), inbox[s] = <<>> PROVE FALSE
    <3>1. inbox[s] \in Seq(Posts) /\ parked[s] \in Seq(Posts)
      BY DEF IInv, QueuesTyped
    <3>2. parked[s] # <<>> /\ Len(parked[s]) \in Nat /\ Len(inbox[s]) = 0
      BY <2>2, <3>1, EmptyIs
    <3> QED BY <3>2, LimitAssumption DEF Progress, ParkedAreFull
  <2> QED BY <2>1, <2>2
<1> QED BY <1>1, Invariance, ProgressInvariance, PTL

\* A cancellation that is on its way to the loop of a session, where it suppresses
\* the response, has released the POST of its target before, or was handled before
\* that POST and released nothing (handle_post).
THEOREM CancelReleasesFirst == Spec => []CancelsReleased
<1>1. Progress => CancelsReleased
  BY DEF Progress
<1> QED BY <1>1, ProgressInvariance, PTL
=============================================================================
