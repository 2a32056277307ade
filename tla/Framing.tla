------------------------------- MODULE Framing -------------------------------
(***************************************************************************)
(* One direction of a stream transport: bytes are written, arrive in       *)
(* pieces of any size, and JsonRpcCodec splits them into lines, resuming   *)
(* its scan for a newline where the last one ended.  The writer is another *)
(* JsonRpcCodec, or a program that prints what it likes.                   *)
(*                                                                         *)
(* The receive buffer is a window of the stream: decode drops bytes at its *)
(* front, the transport adds them at its end.  Of a byte it matters that   *)
(* it is a newline or that no JSON can hold it.                            *)
(***************************************************************************)
EXTENDS Integers, Sequences

CONSTANTS MaxFrame,   \* MAX_FRAME_LENGTH
          MaxStream   \* bound on the bytes written

ASSUME FrameAssumption == MaxFrame \in Nat \ {0} /\ MaxStream \in Nat

VARIABLES
  codec,      \* the writer is a JsonRpcCodec
  stream,     \* every byte that was written and not lost
  closed,     \* the writer closed its end, or died
  received,   \* bytes that arrived
  consumed,   \* bytes that decode has split off: src is what lies between
  scan,       \* next_scan_index
  reader,     \* what the framed stream does next, or how it ended
  frames      \* history: the frames that decode returned, as parts of the stream

writerVars == <<codec, stream, closed>>
readerVars == <<received, consumed, scan, reader, frames>>
vars == <<writerVars, readerVars>>

Byte == {"newline", "json", "junk"}
Frame == [first : Nat \ {0}, last : Nat, message : BOOLEAN]

TypeOK ==
  /\ codec \in BOOLEAN /\ stream \in Seq(Byte) /\ closed \in BOOLEAN
  /\ received \in 0..Len(stream) /\ consumed \in 0..received
  /\ scan \in 0..(received - consumed)
  /\ reader \in {"reading", "decoding", "oversized", "truncated", "ended"}
  /\ frames \in Seq(Frame)

Init ==
  /\ codec \in BOOLEAN /\ stream = <<>> /\ closed = FALSE
  /\ received = 0 /\ consumed = 0 /\ scan = 0
  /\ reader = "decoding" /\ frames = <<>>

-----------------------------------------------------------------------------
(* The writer.                                                             *)

FitsAlways(n) == TRUE    \* Fits: the decoder of the peer is the only guard

\* encode refuses a message of n bytes that would not fit into one frame.
Fits(n) == n < MaxFrame

\* encode writes a message of n bytes and a newline.
Encode(n) ==
  /\ codec /\ ~closed /\ Fits(n) /\ Len(stream) + n < MaxStream
  /\ stream' = stream \o [i \in 1..(n + 1) |-> IF i <= n THEN "json" ELSE "newline"]
  /\ UNCHANGED <<codec, closed, readerVars>>

\* A program without the codec writes a byte.
Prints(b) ==
  /\ ~codec /\ ~closed /\ Len(stream) < MaxStream
  /\ stream' = Append(stream, b)
  /\ UNCHANGED <<codec, closed, readerVars>>

\* The writer ends; what it had buffered is lost, within a frame or not.
Close ==
  /\ ~closed /\ closed' = TRUE
  /\ \E n \in received..Len(stream) : stream' = SubSeq(stream, 1, n)
  /\ UNCHANGED <<codec, readerVars>>

-----------------------------------------------------------------------------
(* The reader.                                                             *)

Newline(i) == stream[i] = "newline"

\* Framed reads what has arrived, some of it or all.
Receive ==
  /\ reader = "reading"
  /\ received' \in (received + 1)..Len(stream)
  /\ reader' = "decoding"
  /\ UNCHANGED <<writerVars, consumed, scan, frames>>

\* Framed reads the end of the stream: it asks decode for the last time, which
\* has nothing new to find, and bytes that are left over are an error.
Eof ==
  /\ reader = "reading" /\ closed /\ received = Len(stream)
  /\ reader' = IF consumed < received THEN "truncated" ELSE "ended"
  /\ UNCHANGED <<writerVars, received, consumed, scan, frames>>

\* The loop of decode skips empty lines, which end at `from`: only a scan from
\* the front of the buffer meets any.
Skips(from) ==
  \/ scan > 0 /\ from = consumed
  \/ /\ scan = 0
     /\ \A i \in (consumed + 1)..from : Newline(i)
     /\ from < received => ~Newline(from + 1)

ResumesLate(from) ==     \* Resumes: one byte too far
  IF from = consumed /\ scan > 0 THEN consumed + scan + 1 ELSE from

\* Where the search for a newline resumes.
Resumes(from) == IF from = consumed THEN consumed + scan ELSE from

RewindsNever == UNCHANGED scan   \* Rewinds: keeps the index of the line before

\* A line was split off: the next scan begins at the front.
Rewinds == scan' = 0

\* A line up to the newline p is split off and parsed.
Split(from, p) ==
  /\ consumed' = p /\ Rewinds
  /\ frames' = Append(frames, [first |-> from + 1, last |-> p - 1,
                               message |-> \A i \in (from + 1)..(p - 1) : stream[i] = "json"])
  /\ UNCHANGED <<received, reader>>

\* There is no newline in the buffer, which may grow no further.
Wait(from) ==
  /\ consumed' = from /\ UNCHANGED <<received, frames>>
  /\ IF received - from > MaxFrame
     THEN reader' = "oversized" /\ scan' = Resumes(from) - from
     ELSE reader' = "reading" /\ scan' = received - from

Decode ==
  /\ reader = "decoding"
  /\ \E from \in consumed..received :
       /\ Skips(from)
       /\ LET rest == (Resumes(from) + 1)..received
          IN  \/ \E p \in rest : /\ Newline(p) /\ \A i \in rest : Newline(i) => p <= i
                                 /\ Split(from, p)
              \/ (\A i \in rest : ~Newline(i)) /\ Wait(from)
  /\ UNCHANGED writerVars

Next ==
  \/ \E n \in 1..MaxStream : Encode(n)
  \/ \E b \in Byte : Prints(b)
  \/ Close \/ Receive \/ Eof \/ Decode

Spec == Init /\ [][Next]_vars

-----------------------------------------------------------------------------
(* Properties.                                                             *)

\* A line of the stream that is not empty, without its newline.
Line(first, last) ==
  /\ first <= last /\ last < Len(stream) /\ Newline(last + 1)
  /\ first = 1 \/ Newline(first - 1)
  /\ \A i \in first..last : ~Newline(i)

\* The frames are the lines of the bytes that were consumed, each once, whole
\* and in order, however the bytes were cut into pieces; a line that does not
\* parse costs no other.
FramesAreLines ==
  /\ \A k \in 1..Len(frames) :
       /\ Line(frames[k].first, frames[k].last)
       /\ frames[k].last < consumed
       /\ frames[k].message = \A i \in frames[k].first..frames[k].last : stream[i] = "json"
  /\ \A j, k \in 1..Len(frames) : j < k => frames[j].last < frames[k].first
  /\ \A first, last \in 1..consumed :
       Line(first, last) /\ last < consumed =>
         \E k \in 1..Len(frames) : frames[k].first = first /\ frames[k].last = last

\* A line that has arrived is not held back until more bytes come.
NothingHeld == reader = "reading" => \A i \in (consumed + 1)..received : ~Newline(i)

\* "The encoder refuses an oversized message before it reaches the wire": what
\* it lets pass never makes the decoder of the peer end the connection.
EncodedNeverSevers == codec => reader # "oversized"

\* "A frame exceeding MAX_FRAME_LENGTH is reported as the fatal error in either
\* direction."  The decoder only measures a line that has not ended.
LimitHolds == \A k \in 1..Len(frames) : frames[k].last - frames[k].first < MaxFrame
=============================================================================
