---------------------------- MODULE FramingProofs ----------------------------
(***************************************************************************)
(* Proofs about Framing, for any frame limit and any stream.  The scan     *)
(* index is sound because the bytes before it hold no newline (Scanned),   *)
(* a line begins where the one before ended because decode only stops at   *)
(* newlines (AtLineStart), and a codec never severs its peer because no    *)
(* run of bytes without a newline that it wrote reaches the limit.         *)
(***************************************************************************)
EXTENDS Framing, SequenceTheorems, TLAPS

Scanned == \A i \in (consumed + 1)..(consumed + scan) : ~Newline(i)

AtLineStart == consumed = 0 \/ Newline(consumed)

\* Every run of bytes without a newline fits into a frame with its newline.
RunsFit ==
  \A a, b \in 1..Len(stream) :
    a <= b /\ (\A i \in a..b : ~Newline(i)) => b - a + 1 < MaxFrame

\* The codec writes whole frames, until it ends.
EndsWhole == ~closed => stream = <<>> \/ Newline(Len(stream))

Wire == codec => RunsFit /\ EndsWhole

\* The two halves of FramesAreLines.
Faithful ==
  /\ \A k \in 1..Len(frames) :
       /\ Line(frames[k].first, frames[k].last)
       /\ frames[k].last < consumed
       /\ frames[k].message = \A i \in frames[k].first..frames[k].last : stream[i] = "json"
  /\ \A j, k \in 1..Len(frames) : j < k => frames[j].last < frames[k].first
Complete ==
  \A first, last \in 1..consumed :
    Line(first, last) /\ last < consumed =>
      \E k \in 1..Len(frames) : frames[k].first = first /\ frames[k].last = last

IInv ==
  /\ TypeOK /\ Scanned /\ AtLineStart /\ Faithful /\ Complete
  /\ NothingHeld /\ Wire /\ EncodedNeverSevers

-----------------------------------------------------------------------------

\* What the reader has got stays as it was.
Kept ==
  /\ stream' \in Seq(Byte) /\ received <= Len(stream')
  /\ \A i \in 1..received : stream'[i] = stream[i]

LEMMA EncodeKeeps ==
  ASSUME TypeOK, NEW n \in 1..MaxStream, Encode(n)
  PROVE  /\ Kept /\ Len(stream') = Len(stream) + n + 1
         /\ \A i \in 1..Len(stream) : stream'[i] = stream[i]
         /\ \A i \in (Len(stream) + 1)..(Len(stream) + n) : stream'[i] = "json"
         /\ stream'[Len(stream) + n + 1] = "newline"
<1> DEFINE new == [i \in 1..(n + 1) |-> IF i <= n THEN "json" ELSE "newline"]
<1>1. n \in Nat /\ n + 1 \in Nat
  BY FrameAssumption
<1>2. new \in Seq(Byte) /\ Len(new) = n + 1
  BY <1>1 DEF Byte
<1>3. stream \in Seq(Byte) /\ received \in 0..Len(stream)
  BY DEF TypeOK
<1>4. stream' = stream \o new
  BY DEF Encode
<1>5. \A i \in 1..(n + 1) : new[i] = IF i <= n THEN "json" ELSE "newline"
  BY DEF new
<1> HIDE DEF new
<1>6. stream' \in Seq(Byte) /\ Len(stream') = Len(stream) + Len(new)
  BY <1>2, <1>3, <1>4, ConcatProperties
<1>7. \A i \in 1..Len(stream) : stream'[i] = stream[i]
  BY <1>2, <1>3, <1>4, ConcatProperties
<1>8. \A i \in 1..(n + 1) : stream'[Len(stream) + i] = new[i]
  <2> TAKE i \in 1..(n + 1)
  <2>1. \A j \in 1..(Len(stream) + Len(new)) :
          (stream \o new)[j] = IF j <= Len(stream) THEN stream[j] ELSE new[j - Len(stream)]
    BY <1>2, <1>3, ConcatProperties
  <2>2. /\ Len(stream) + i \in 1..(Len(stream) + Len(new)) /\ ~(Len(stream) + i <= Len(stream))
        /\ (Len(stream) + i) - Len(stream) = i
    BY <1>1, <1>2, <1>3
  <2> QED
    BY <1>4, <2>1, <2>2
<1>9. \A i \in (Len(stream) + 1)..(Len(stream) + n) : stream'[i] = "json"
  <2> TAKE i \in (Len(stream) + 1)..(Len(stream) + n)
  <2>1. i - Len(stream) \in 1..(n + 1) /\ i - Len(stream) <= n /\ Len(stream) + (i - Len(stream)) = i
    BY <1>1, <1>3
  <2> QED
    BY <2>1, <1>5, <1>8
<1>10. stream'[Len(stream) + n + 1] = "newline"
  <2>1. n + 1 \in 1..(n + 1) /\ ~(n + 1 <= n) /\ Len(stream) + (n + 1) = Len(stream) + n + 1
    BY <1>1, <1>3
  <2> QED
    BY <2>1, <1>5, <1>8
<1> QED
  BY <1>1, <1>2, <1>3, <1>6, <1>7, <1>9, <1>10 DEF Kept

LEMMA PrintKeeps ==
  ASSUME TypeOK, NEW b \in Byte, Prints(b)
  PROVE  Kept
BY DEF TypeOK, Prints, Kept

LEMMA CloseKeeps ==
  ASSUME TypeOK, NEW n \in received..Len(stream), stream' = SubSeq(stream, 1, n)
  PROVE  Kept /\ Len(stream') = n /\ \A i \in 1..n : stream'[i] = stream[i]
BY DEF TypeOK, Kept

-----------------------------------------------------------------------------

\* A step of the writer preserves what is said of the reader.
LEMMA WriterKeepsReader ==
  ASSUME IInv, Kept, codec' = codec, closed' \in BOOLEAN, UNCHANGED readerVars
  PROVE  /\ TypeOK' /\ Scanned' /\ AtLineStart' /\ Faithful' /\ Complete'
         /\ NothingHeld' /\ EncodedNeverSevers'
<1> USE DEF readerVars
<1>1. TypeOK /\ received \in 0..Len(stream) /\ consumed \in 0..received /\ scan \in 0..(received - consumed)
      /\ stream \in Seq(Byte) /\ Len(stream) \in Nat /\ Len(stream') \in Nat
  BY DEF IInv, TypeOK, Kept
<1>2. TypeOK'
  BY <1>1 DEF TypeOK, Kept
<1>3. \A i \in 1..received : Newline(i)' = Newline(i)
  BY DEF Kept, Newline
<1>4. \A a, b \in 0..received : b < received /\ 1 <= a => Line(a, b)' = Line(a, b)
  <2> SUFFICES ASSUME NEW a \in 0..received, NEW b \in 0..received, b < received, 1 <= a
               PROVE  Line(a, b)' = Line(a, b)
    OBVIOUS
  <2>1. b < Len(stream) /\ b < Len(stream') /\ b + 1 \in 1..received
    BY <1>1 DEF Kept
  <2>2. CASE a <= b
    <3>1. a = 1 \/ a - 1 \in 1..received
      BY <2>2, <1>1
    <3>2. \A i \in a..b : i \in 1..received
      BY <1>1
    <3> QED
      BY <2>1, <3>1, <3>2, <1>3 DEF Line
  <2>3. CASE ~(a <= b)
    BY <2>3 DEF Line
  <2> QED
    BY <2>2, <2>3
<1>5. Scanned' /\ AtLineStart' /\ NothingHeld' /\ EncodedNeverSevers'
  <2>1. Scanned'
    BY <1>1, <1>3 DEF IInv, Scanned
  <2>2. AtLineStart'
    BY <1>1, <1>3 DEF IInv, AtLineStart
  <2>3. NothingHeld'
    BY <1>1, <1>3 DEF IInv, NothingHeld
  <2> QED
    BY <2>1, <2>2, <2>3 DEF IInv, EncodedNeverSevers
<1>6. Faithful'
  <2>1. ASSUME NEW k \in 1..Len(frames)
        PROVE  /\ Line(frames[k].first, frames[k].last)'
               /\ frames[k].last < consumed
               /\ frames[k].message = \A i \in frames[k].first..frames[k].last : stream'[i] = "json"
    <3>1. /\ Line(frames[k].first, frames[k].last) /\ frames[k].last < consumed
          /\ frames[k].message = \A i \in frames[k].first..frames[k].last : stream[i] = "json"
      BY DEF IInv, Faithful
    <3>2. frames[k] \in Frame
      BY <1>1 DEF TypeOK
    <3>3. /\ frames[k].first \in 0..received /\ frames[k].last \in 0..received
          /\ 1 <= frames[k].first /\ frames[k].last < received
      BY <3>1, <3>2, <1>1 DEF Frame, Line
    <3>4. Line(frames[k].first, frames[k].last)'
      BY <3>1, <3>3, <1>4
    <3>5. \A i \in frames[k].first..frames[k].last : stream'[i] = stream[i]
      <4> TAKE i \in frames[k].first..frames[k].last
      <4>1. i \in 1..received
        BY <3>3, <1>1
      <4> QED
        BY <4>1 DEF Kept
    <3> QED
      BY <3>1, <3>4, <3>5
  <2>2. \A j, k \in 1..Len(frames) : j < k => frames[j].last < frames[k].first
    BY DEF IInv, Faithful
  <2> QED
    BY <2>1, <2>2 DEF Faithful
<1>7. Complete'
  <2> SUFFICES ASSUME NEW first \in 1..consumed, NEW last \in 1..consumed,
                      Line(first, last)', last < consumed
               PROVE  \E k \in 1..Len(frames) : frames[k].first = first /\ frames[k].last = last
    BY DEF Complete
  <2>1. first \in 0..received /\ last \in 0..received /\ last < received /\ 1 <= first
    BY <1>1
  <2>2. Line(first, last)
    BY <2>1, <1>4
  <2> QED
    BY <2>2 DEF IInv, Complete
<1> QED
  BY <1>2, <1>5, <1>6, <1>7

-----------------------------------------------------------------------------

\* What the codec wrote fits into frames, and stays so.
LEMMA EncodeFits ==
  ASSUME IInv, NEW n \in 1..MaxStream, Encode(n)
  PROVE  Wire'
<1> DEFINE L == Len(stream)
<1>1. TypeOK /\ codec /\ ~closed /\ n < MaxFrame
  BY DEF IInv, Encode, Fits
<1>2. RunsFit /\ (stream = <<>> \/ Newline(Len(stream)))
  BY <1>1 DEF IInv, Wire, EndsWhole
<1>3. /\ Len(stream') = L + n + 1
      /\ \A i \in 1..L : stream'[i] = stream[i]
      /\ stream'[L + n + 1] = "newline"
  BY <1>1, EncodeKeeps
<1>4. L \in Nat /\ n \in Nat \ {0} /\ MaxFrame \in Nat
  BY <1>1, FrameAssumption DEF TypeOK
<1>5. RunsFit'
  <2> SUFFICES ASSUME NEW a \in 1..(L + n + 1), NEW b \in 1..(L + n + 1), a <= b,
                      \A i \in a..b : stream'[i] # "newline"
               PROVE  b - a + 1 < MaxFrame
    BY <1>3 DEF RunsFit, Newline
  <2>1. a \in a..b /\ b \in a..b
    BY <1>4
  <2>2. b # L + n + 1
    BY <2>1, <1>3
  <2>3. CASE b <= L
    <3>1. a \in 1..L /\ b \in 1..L /\ \A i \in a..b : i \in 1..L
      BY <2>3, <1>4
    <3>2. \A i \in a..b : ~Newline(i)
      BY <3>1, <1>3 DEF Newline
    <3> QED
      BY <3>1, <3>2, <1>2 DEF RunsFit
  <2>4. CASE b > L
    <3>1. a > L
      <4> SUFFICES ASSUME a <= L PROVE FALSE
        BY <1>4
      <4>1. L \in 1..L /\ L \in a..b /\ stream # <<>>
        BY <2>4, <1>4
      <4>2. Newline(L)
        BY <4>1, <1>2
      <4>3. stream'[L] = "newline"
        BY <4>1, <4>2, <1>3 DEF Newline
      <4> QED
        BY <4>1, <4>3
    <3> QED
      BY <3>1, <2>2, <1>1, <1>4
  <2> QED
    BY <2>3, <2>4, <1>4
<1>6. EndsWhole'
  BY <1>3 DEF EndsWhole, Newline
<1> QED
  BY <1>5, <1>6 DEF Wire

LEMMA CloseFits ==
  ASSUME IInv, Close
  PROVE  Wire'
<1>1. TypeOK /\ closed' /\ codec' = codec
  BY DEF IInv, Close
<1>2. PICK n \in received..Len(stream) : stream' = SubSeq(stream, 1, n)
  BY DEF Close
<1>3. Len(stream') = n /\ \A i \in 1..n : stream'[i] = stream[i]
  BY <1>1, <1>2, CloseKeeps
<1>4. n \in Nat /\ n <= Len(stream) /\ Len(stream) \in Nat
  BY <1>1 DEF TypeOK
<1>5. RunsFit => RunsFit'
  <2> SUFFICES ASSUME RunsFit, NEW a \in 1..n, NEW b \in 1..n, a <= b,
                      \A i \in a..b : stream'[i] # "newline"
               PROVE  b - a + 1 < MaxFrame
    BY <1>3 DEF RunsFit, Newline
  <2>1. a \in 1..Len(stream) /\ b \in 1..Len(stream) /\ \A i \in a..b : i \in 1..n
    BY <1>4
  <2>2. \A i \in a..b : ~Newline(i)
    BY <2>1, <1>3 DEF Newline
  <2> QED
    BY <2>1, <2>2 DEF RunsFit
<1> QED
  BY <1>1, <1>5 DEF IInv, Wire, EndsWhole

-----------------------------------------------------------------------------

\* A newline of the bytes that were received ends the line from the front of
\* the buffer to it: the search skips no newline, and all before `from` are
\* empty lines.
LEMMA SkipsWell ==
  ASSUME IInv, NEW from \in consumed..received, Skips(from)
  PROVE  /\ \A i \in (consumed + 1)..from : Newline(i)
         /\ \A i \in (from + 1)..Resumes(from) : ~Newline(i)
         /\ Resumes(from) \in from..received
         /\ from = 0 \/ Newline(from)
<1>1. /\ received \in Nat /\ consumed \in 0..received /\ scan \in 0..(received - consumed)
  BY DEF IInv, TypeOK
<1>2. \A i \in (consumed + 1)..from : Newline(i)
  BY <1>1 DEF Skips
<1>3. from = 0 \/ Newline(from)
  <2>1. CASE from = consumed
    BY <2>1 DEF IInv, AtLineStart
  <2>2. CASE from > consumed
    BY <2>2, <1>1, <1>2
  <2> QED
    BY <2>1, <2>2, <1>1
<1>4. CASE from = consumed
  <2>1. Resumes(from) = from + scan
    BY <1>4 DEF Resumes
  <2> QED
    BY <2>1, <1>1, <1>2, <1>3, <1>4 DEF IInv, Scanned
<1>5. CASE from # consumed
  <2>1. Resumes(from) = from
    BY <1>5 DEF Resumes
  <2> QED
    BY <2>1, <1>1, <1>2, <1>3
<1> QED
  BY <1>4, <1>5

\* A line that ends between consumed and p is the one that was split off.
LEMMA SplitsTheLine ==
  ASSUME IInv, NEW from \in consumed..received, Skips(from),
         NEW p \in (Resumes(from) + 1)..received, Newline(p),
         \A i \in (Resumes(from) + 1)..received : Newline(i) => p <= i
  PROVE  /\ p \in (from + 1)..received /\ p > consumed
         /\ \A i \in (from + 1)..(p - 1) : ~Newline(i)
         /\ from + 1 < p => Line(from + 1, p - 1)
         /\ \A first, last \in 1..p :
              Line(first, last) /\ last < p =>
                last < consumed \/ (first = from + 1 /\ last = p - 1)
<1>1. received \in Nat /\ consumed \in 0..received /\ received <= Len(stream) /\ Len(stream) \in Nat
  BY DEF IInv, TypeOK
<1>2. /\ \A i \in (consumed + 1)..from : Newline(i)
      /\ \A i \in (from + 1)..Resumes(from) : ~Newline(i)
      /\ Resumes(from) \in from..received
      /\ from = 0 \/ Newline(from)
  BY SkipsWell
<1>3. p \in (from + 1)..received /\ p > consumed
  BY <1>1, <1>2
<1>4. \A i \in (from + 1)..(p - 1) : ~Newline(i)
  BY <1>1, <1>2, <1>3
<1>5. from + 1 < p => Line(from + 1, p - 1)
  <2> SUFFICES ASSUME from + 1 < p
               PROVE  Line(from + 1, p - 1)
    OBVIOUS
  <2>1. (p - 1) + 1 = p /\ (from + 1) - 1 = from /\ from + 1 <= p - 1 /\ p - 1 < Len(stream)
    BY <1>1, <1>3
  <2>2. from + 1 = 1 \/ Newline((from + 1) - 1)
    BY <2>1, <1>1, <1>2
  <2> QED
    BY <2>1, <2>2, <1>4 DEF Line
<1>6. ASSUME NEW first \in 1..p, NEW last \in 1..p, Line(first, last), last < p, ~(last < consumed)
      PROVE  first = from + 1 /\ last = p - 1
  <2>1. /\ first <= last /\ Newline(last + 1) /\ (first = 1 \/ Newline(first - 1))
        /\ \A i \in first..last : ~Newline(i)
    BY <1>6 DEF Line
  <2>2. last \in first..last /\ ~Newline(last)
    BY <2>1, <1>3
  <2>3. last # consumed
    BY <2>2, <1>1 DEF IInv, AtLineStart
  <2>4. last \notin (consumed + 1)..from
    BY <2>2, <1>2
  <2>5. last > from
    BY <2>3, <2>4, <1>6, <1>1, <1>3
  <2>6. last + 1 = p
    BY <2>1, <2>5, <1>4, <1>6, <1>1, <1>3
  <2>7. first > from
    <3> SUFFICES ASSUME first <= from PROVE FALSE
      BY <1>1, <1>3
    <3>1. from \in first..last /\ from # 0
      BY <2>5, <1>1, <1>3
    <3> QED
      BY <3>1, <2>1, <1>2
  <2>8. ~(first > from + 1)
    <3> SUFFICES ASSUME first > from + 1 PROVE FALSE
      OBVIOUS
    <3>1. first - 1 \in (from + 1)..(p - 1) /\ first # 1
      BY <1>1, <1>3
    <3> QED
      BY <3>1, <2>1, <1>4
  <2> QED
    BY <2>6, <2>7, <2>8, <1>1, <1>3
<1> QED
  BY <1>3, <1>4, <1>5, <1>6

-----------------------------------------------------------------------------

LEMMA SplitKeeps ==
  ASSUME IInv, reader = "decoding", UNCHANGED writerVars,
         NEW from \in consumed..received, Skips(from),
         NEW p \in (Resumes(from) + 1)..received, Newline(p),
         \A i \in (Resumes(from) + 1)..received : Newline(i) => p <= i,
         Split(from, p)
  PROVE  IInv'
<1> USE DEF writerVars
<1>1. /\ received \in 0..Len(stream) /\ received \in Nat /\ Len(stream) \in Nat
      /\ consumed \in 0..received /\ scan \in 0..(received - consumed)
      /\ frames \in Seq(Frame) /\ Len(frames) \in Nat /\ stream \in Seq(Byte)
  BY DEF IInv, TypeOK
<1>2. /\ p \in (from + 1)..received /\ p > consumed
      /\ \A i \in (from + 1)..(p - 1) : ~Newline(i)
      /\ from + 1 < p => Line(from + 1, p - 1)
      /\ \A first, last \in 1..p :
           Line(first, last) /\ last < p =>
             last < consumed \/ (first = from + 1 /\ last = p - 1)
  BY SplitsTheLine
<1>3. from + 1 < p
  <2>1. CASE scan > 0
    BY <2>1, <1>1, <1>2 DEF Skips, Resumes
  <2>2. CASE scan = 0
    <3>1. p # from + 1
      BY <2>2, <1>1, <1>2 DEF Skips
    <3> QED
      BY <3>1, <1>1, <1>2
  <2> QED
    BY <2>1, <2>2, <1>1
<1> DEFINE new == [first |-> from + 1, last |-> p - 1,
                   message |-> \A i \in (from + 1)..(p - 1) : stream[i] = "json"]
<1>4. /\ consumed' = p /\ scan' = 0 /\ frames' = Append(frames, new)
      /\ received' = received /\ reader' = "decoding" /\ stream' = stream
      /\ codec' = codec /\ closed' = closed
  BY DEF Split, Rewinds
<1>5. new \in Frame /\ new.first = from + 1 /\ new.last = p - 1
      /\ new.message = \A i \in new.first..new.last : stream[i] = "json"
  BY <1>1, <1>2, <1>3 DEF Frame
<1> HIDE DEF new
<1>6. /\ frames' \in Seq(Frame) /\ Len(frames') = Len(frames) + 1
      /\ \A k \in 1..Len(frames) : frames'[k] = frames[k]
      /\ frames'[Len(frames) + 1] = new
  BY <1>1, <1>4, <1>5
<1>7. TypeOK'
  BY <1>1, <1>2, <1>4, <1>6 DEF IInv, TypeOK
<1>8. Scanned' /\ NothingHeld' /\ EncodedNeverSevers'
  BY <1>1, <1>2, <1>4 DEF Scanned, NothingHeld, EncodedNeverSevers
<1>9. AtLineStart'
  BY <1>4 DEF AtLineStart, Newline
<1>10. Wire'
  BY <1>4 DEF IInv, Wire, RunsFit, EndsWhole, Newline
<1>11. \A a, b : Line(a, b)' = Line(a, b)
  BY <1>4 DEF Line, Newline
<1>12. consumed \in Nat /\ from \in Nat /\ p \in Nat /\ consumed <= from /\ consumed < p
  BY <1>1, <1>2
<1>13. Faithful'
  <2>1. ASSUME NEW k \in 1..Len(frames')
        PROVE  /\ Line(frames'[k].first, frames'[k].last)
               /\ frames'[k].last < p
               /\ frames'[k].message = \A i \in frames'[k].first..frames'[k].last : stream[i] = "json"
    <3>1. CASE k \in 1..Len(frames)
      <4>1. /\ Line(frames[k].first, frames[k].last) /\ frames[k].last < consumed
            /\ frames[k].message = \A i \in frames[k].first..frames[k].last : stream[i] = "json"
        BY <3>1 DEF IInv, Faithful
      <4>2. frames[k] \in Frame
        BY <3>1, <1>1
      <4>3. frames[k].last < p
        <5>1. frames[k].last \in Nat
          BY <4>2 DEF Frame
        <5> QED
          BY <5>1, <4>1, <1>12
      <4> QED
        BY <3>1, <4>1, <4>3, <1>6
    <3>2. CASE k = Len(frames) + 1
      <4>1. frames'[k] = new
        BY <3>2, <1>6
      <4>2. new.last < p
        BY <1>1, <1>2, <1>5
      <4> QED
        BY <4>1, <4>2, <1>2, <1>3, <1>5
    <3>3. k \in 1..Len(frames) \/ k = Len(frames) + 1
      BY <1>1, <1>6
    <3> QED
      BY <3>1, <3>2, <3>3
  <2>2. ASSUME NEW j \in 1..Len(frames'), NEW k \in 1..Len(frames'), j < k
        PROVE  frames'[j].last < frames'[k].first
    <3>1. j \in 1..Len(frames)
      BY <2>2, <1>1, <1>6
    <3>2. CASE k \in 1..Len(frames)
      BY <2>2, <3>1, <3>2, <1>6 DEF IInv, Faithful
    <3>3. CASE k = Len(frames) + 1
      <4>1. frames[j].last < consumed /\ frames[j] \in Frame
        <5>1. frames[j] \in Frame
          BY <3>1, <1>1
        <5> QED
          BY <5>1, <3>1 DEF IInv, Faithful
      <4>2. frames[j].last < new.first
        <5>1. frames[j].last \in Nat
          BY <4>1 DEF Frame
        <5> QED
          BY <5>1, <4>1, <1>12, <1>5
      <4> QED
        BY <4>2, <3>1, <3>3, <1>6
    <3> QED
      BY <3>2, <3>3, <1>1, <1>6
  <2> QED
    BY <2>1, <2>2, <1>4, <1>11 DEF Faithful
<1>14. Complete'
  <2> SUFFICES ASSUME NEW first \in 1..p, NEW last \in 1..p, Line(first, last), last < p
               PROVE  \E k \in 1..Len(frames') : frames'[k].first = first /\ frames'[k].last = last
    BY <1>4, <1>11 DEF Complete
  <2>1. CASE last < consumed
    <3>1. first \in 1..consumed /\ last \in 1..consumed
      BY <2>1, <1>1, <1>2 DEF Line
    <3>2. PICK k \in 1..Len(frames) : frames[k].first = first /\ frames[k].last = last
      BY <2>1, <3>1 DEF IInv, Complete
    <3> QED
      BY <3>2, <1>1, <1>6
  <2>2. CASE first = from + 1 /\ last = p - 1
    <3>1. Len(frames) + 1 \in 1..Len(frames')
      BY <1>1, <1>6
    <3> QED
      BY <2>2, <3>1, <1>5, <1>6
  <2> QED
    BY <2>1, <2>2, <1>2
<1> QED
  BY <1>7, <1>8, <1>9, <1>10, <1>13, <1>14 DEF IInv

LEMMA WaitKeeps ==
  ASSUME IInv, reader = "decoding", UNCHANGED writerVars,
         NEW from \in consumed..received, Skips(from),
         \A i \in (Resumes(from) + 1)..received : ~Newline(i),
         Wait(from)
  PROVE  IInv'
<1> USE DEF writerVars
<1>1. /\ received \in 0..Len(stream) /\ received \in Nat /\ Len(stream) \in Nat
      /\ consumed \in 0..received /\ scan \in 0..(received - consumed)
  BY DEF IInv, TypeOK
<1>2. /\ \A i \in (consumed + 1)..from : Newline(i)
      /\ \A i \in (from + 1)..Resumes(from) : ~Newline(i)
      /\ Resumes(from) \in from..received
      /\ from = 0 \/ Newline(from)
  BY SkipsWell
<1>3. \A i \in (from + 1)..received : ~Newline(i)
  BY <1>1, <1>2
<1>4. /\ consumed' = from /\ received' = received /\ frames' = frames /\ stream' = stream
      /\ codec' = codec /\ closed' = closed
  BY DEF Wait
<1>5. ASSUME received - from > MaxFrame
      PROVE  ~codec
  <2> SUFFICES ASSUME codec PROVE FALSE
    OBVIOUS
  <2>1. RunsFit
    BY DEF IInv, Wire
  <2>2. from + 1 \in 1..Len(stream) /\ received \in 1..Len(stream) /\ from + 1 <= received
    BY <1>1, <1>5, FrameAssumption
  <2>3. received - (from + 1) + 1 < MaxFrame
    BY <2>1, <2>2, <1>3 DEF RunsFit
  <2> QED
    BY <2>3, <1>1, <1>5, FrameAssumption
<1>6. Resumes(from) - from \in 0..(received - from) /\ from + (Resumes(from) - from) = Resumes(from)
  BY <1>1, <1>2
<1>7. /\ reader' \in {"reading", "oversized"}
      /\ codec => reader' # "oversized"
      /\ scan' \in 0..(received - from)
      /\ \A i \in (from + 1)..(from + scan') : ~Newline(i)
  <2>1. CASE received - from > MaxFrame
    <3>1. reader' = "oversized" /\ scan' = Resumes(from) - from
      BY <2>1 DEF Wait
    <3> QED
      BY <3>1, <2>1, <1>2, <1>5, <1>6
  <2>2. CASE ~(received - from > MaxFrame)
    BY <2>2, <1>1, <1>3 DEF Wait
  <2> QED
    BY <2>1, <2>2
<1>8. TypeOK'
  BY <1>1, <1>4, <1>7 DEF IInv, TypeOK
<1>9. Scanned' /\ NothingHeld' /\ EncodedNeverSevers' /\ AtLineStart'
  <2>1. \A i : Newline(i)' = Newline(i)
    BY <1>4 DEF Newline
  <2>2. Scanned'
    BY <2>1, <1>4, <1>7 DEF Scanned
  <2>3. NothingHeld' /\ EncodedNeverSevers'
    BY <2>1, <1>3, <1>4, <1>7 DEF NothingHeld, EncodedNeverSevers
  <2>4. AtLineStart'
    BY <2>1, <1>2, <1>4 DEF AtLineStart
  <2> QED
    BY <2>2, <2>3, <2>4
<1>10. Wire'
  BY <1>4 DEF IInv, Wire, RunsFit, EndsWhole, Newline
<1>11. \A a, b : Line(a, b)' = Line(a, b)
  BY <1>4 DEF Line, Newline
<1>12. Faithful'
  <2>1. \A k \in 1..Len(frames) : frames[k].last < from
    <3> TAKE k \in 1..Len(frames)
    <3>1. frames[k].last < consumed
      BY DEF IInv, Faithful
    <3>2. frames \in Seq(Frame)
      BY DEF IInv, TypeOK
    <3>3. frames[k] \in Frame
      BY <3>2
    <3> QED
      BY <3>1, <3>3, <1>1 DEF Frame
  <2> QED
    BY <2>1, <1>4, <1>11 DEF IInv, Faithful
<1>13. Complete'
  <2> SUFFICES ASSUME NEW first \in 1..from, NEW last \in 1..from, Line(first, last), last < from
               PROVE  \E k \in 1..Len(frames) : frames[k].first = first /\ frames[k].last = last
    BY <1>4, <1>11 DEF Complete
  <2>1. /\ first <= last /\ \A i \in first..last : ~Newline(i)
    BY DEF Line
  <2>2. last \in first..last /\ ~Newline(last)
    BY <2>1, <1>1
  <2>3. last # consumed /\ last \notin (consumed + 1)..from
    BY <2>2, <1>1, <1>2 DEF IInv, AtLineStart
  <2>4. last < consumed /\ first \in 1..consumed /\ last \in 1..consumed
    BY <2>1, <2>3, <1>1
  <2> QED
    BY <2>4 DEF IInv, Complete
<1> QED
  BY <1>8, <1>9, <1>10, <1>12, <1>13 DEF IInv

-----------------------------------------------------------------------------

LEMMA Initially == Init => IInv
<1> SUFFICES ASSUME Init PROVE IInv
  OBVIOUS
<1>1. TypeOK
  <2>1. stream \in Seq(Byte) /\ frames \in Seq(Frame) /\ Len(stream) = 0
    BY DEF Init
  <2>2. /\ received \in 0..Len(stream) /\ consumed \in 0..received
        /\ scan \in 0..(received - consumed)
    BY <2>1 DEF Init
  <2>3. codec \in BOOLEAN /\ closed \in BOOLEAN
    BY DEF Init
  <2> QED
    BY <2>1, <2>2, <2>3 DEF Init, TypeOK
<1>2. Scanned /\ AtLineStart /\ NothingHeld /\ EncodedNeverSevers
  BY DEF Init, Scanned, AtLineStart, NothingHeld, EncodedNeverSevers
<1>3. Faithful /\ Complete
  BY DEF Init, Faithful, Complete
<1>4. Wire
  BY DEF Init, Wire, RunsFit, EndsWhole
<1> QED
  BY <1>1, <1>2, <1>3, <1>4 DEF IInv

LEMMA Inductive ==
  ASSUME IInv, [Next]_vars
  PROVE  IInv'
<1>1. TypeOK /\ received \in Nat /\ consumed \in 0..received /\ received <= Len(stream)
      /\ Len(stream) \in Nat
  BY DEF IInv, TypeOK
<1>2. ASSUME NEW n \in 1..MaxStream, Encode(n)
      PROVE  IInv'
  <2>1. Kept /\ codec' = codec /\ closed' = closed /\ UNCHANGED readerVars
    BY <1>1, <1>2, EncodeKeeps DEF Encode
  <2>2. closed' \in BOOLEAN
    BY <2>1, <1>1 DEF TypeOK
  <2>3. Wire'
    BY <1>2, EncodeFits
  <2> QED
    BY <2>1, <2>2, <2>3, WriterKeepsReader DEF IInv
<1>3. ASSUME NEW b \in Byte, Prints(b)
      PROVE  IInv'
  <2>1. Kept
    BY <1>1, <1>3, PrintKeeps
  <2>2. ~codec /\ codec' = codec /\ closed' \in BOOLEAN /\ UNCHANGED readerVars
    BY <1>1, <1>3 DEF Prints, TypeOK
  <2>3. Wire'
    BY <2>2 DEF Wire
  <2> QED
    BY <2>1, <2>2, <2>3, WriterKeepsReader DEF IInv
<1>4. CASE Close
  <2>1. PICK n \in received..Len(stream) : stream' = SubSeq(stream, 1, n)
    BY <1>4 DEF Close
  <2>2. Kept
    BY <1>1, <2>1, CloseKeeps
  <2>3. codec' = codec /\ closed' \in BOOLEAN /\ UNCHANGED readerVars
    BY <1>4 DEF Close
  <2>4. Wire'
    BY <1>4, CloseFits
  <2> QED
    BY <2>2, <2>3, <2>4, WriterKeepsReader DEF IInv
<1>5. CASE Receive \/ Eof \/ UNCHANGED vars
  <2>1. /\ stream' = stream /\ consumed' = consumed /\ scan' = scan /\ frames' = frames
        /\ codec' = codec /\ closed' = closed
    BY <1>5 DEF Receive, Eof, vars, writerVars, readerVars
  <2>2. /\ received' \in received..Len(stream)
        /\ \/ reader' \in {"decoding", "truncated", "ended"}
           \/ reader' = reader /\ received' = received
    BY <1>1, <1>5 DEF Receive, Eof, vars, writerVars, readerVars
  <2>3. TypeOK'
    <3>1. /\ received' \in 0..Len(stream') /\ consumed' \in 0..received'
          /\ scan' \in 0..(received' - consumed')
      <4>1. received' \in received..Len(stream)
        BY <2>2, <1>1
      <4>2. scan \in 0..(received - consumed)
        BY <1>1 DEF TypeOK
      <4>3. received' \in 0..Len(stream')
        BY <4>1, <2>1, <1>1
      <4>4. consumed' \in 0..received'
        BY <4>1, <2>1, <1>1
      <4>5. scan' \in 0..(received' - consumed')
        <5> DEFINE r == received'
        <5>1. r \in Nat /\ received <= r /\ received \in Nat /\ consumed \in Nat
          BY <4>1, <1>1
        <5>2. scan \in Nat /\ scan <= received - consumed
          BY <4>2, <1>1
        <5> HIDE DEF r
        <5>3. scan \in 0..(r - consumed)
          BY <5>1, <5>2
        <5> QED
          BY <5>3, <2>1 DEF r
      <4> QED
        BY <4>3, <4>4, <4>5
    <3>2. reader' \in {"reading", "decoding", "oversized", "truncated", "ended"}
      BY <2>2, <1>1 DEF TypeOK
    <3>3. /\ codec' \in BOOLEAN /\ closed' \in BOOLEAN
          /\ stream' \in Seq(Byte) /\ frames' \in Seq(Frame)
      BY <2>1, <1>1 DEF TypeOK
    <3> QED
      BY <3>1, <3>2, <3>3 DEF TypeOK
  <2>4. Scanned' /\ AtLineStart' /\ NothingHeld' /\ EncodedNeverSevers'
    BY <2>1, <2>2 DEF IInv, Scanned, AtLineStart, NothingHeld, EncodedNeverSevers, Newline
  <2>5. Faithful' /\ Complete' /\ Wire'
    <3>1. \A a, b : Line(a, b)' = Line(a, b)
      BY <2>1 DEF Line, Newline
    <3>2. Faithful'
      BY <3>1, <2>1 DEF IInv, Faithful
    <3>3. Complete'
      BY <3>1, <2>1 DEF IInv, Complete
    <3>4. Wire'
      BY <2>1 DEF IInv, Wire, RunsFit, EndsWhole, Newline
    <3> QED
      BY <3>2, <3>3, <3>4
  <2> QED
    BY <2>3, <2>4, <2>5 DEF IInv
<1>6. CASE Decode
  <2>1. reader = "decoding" /\ UNCHANGED writerVars
    BY <1>6 DEF Decode
  <2>2. PICK from \in consumed..received :
          /\ Skips(from)
          /\ \/ \E p \in (Resumes(from) + 1)..received :
                  /\ Newline(p) /\ \A i \in (Resumes(from) + 1)..received : Newline(i) => p <= i
                  /\ Split(from, p)
             \/ (\A i \in (Resumes(from) + 1)..received : ~Newline(i)) /\ Wait(from)
    BY <1>6 DEF Decode
  <2>3. CASE (\A i \in (Resumes(from) + 1)..received : ~Newline(i)) /\ Wait(from)
    BY <2>1, <2>2, <2>3, WaitKeeps
  <2>4. ASSUME NEW p \in (Resumes(from) + 1)..received, Newline(p),
               \A i \in (Resumes(from) + 1)..received : Newline(i) => p <= i,
               Split(from, p)
        PROVE  IInv'
    BY <2>1, <2>2, <2>4, SplitKeeps
  <2> QED
    BY <2>2, <2>3, <2>4
<1> QED
  BY <1>2, <1>3, <1>4, <1>5, <1>6 DEF Next

LEMMA Invariance == Spec => []IInv
<1>1. IInv /\ [Next]_vars => IInv'
  BY Inductive
<1> QED
  BY <1>1, Initially, PTL DEF Spec

\* The counters of the codec stay within the stream and the scan index within
\* the buffer: decode never slices past its end.
THEOREM TypeCorrect == Spec => []TypeOK
<1>1. IInv => TypeOK
  BY DEF IInv
<1> QED
  BY <1>1, Invariance, PTL

\* What decode returns are the lines of the stream, each once, whole and in
\* order, however they arrive in pieces.
THEOREM LinesOnceInOrder == Spec => []FramesAreLines
<1>1. IInv => FramesAreLines
  BY DEF IInv, Faithful, Complete, FramesAreLines
<1> QED
  BY <1>1, Invariance, PTL

\* The framed stream never waits for bytes while a whole line is in its buffer.
THEOREM NoLineWaits == Spec => []NothingHeld
<1>1. IInv => NothingHeld
  BY DEF IInv
<1> QED
  BY <1>1, Invariance, PTL

\* The two limits agree: what encode writes, decode takes, for every frame
\* limit and every way the bytes arrive.
THEOREM LimitsAgree == Spec => []EncodedNeverSevers
<1>1. IInv => EncodedNeverSevers
  BY DEF IInv
<1> QED
  BY <1>1, Invariance, PTL
=============================================================================
