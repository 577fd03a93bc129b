--------------------------- MODULE FramingProofs ---------------------------
(***************************************************************************)
(* What TLAPS proves of Framing, for all lengths of bodies, every length   *)
(* of the stream and every cut of it: the reader stays at the boundary of  *)
(* a frame, so that next() is a FIFO link for the frames.                  *)
(*                                                                         *)
(* AtBoundary speaks of one position.  Why it is kept is a matter of all   *)
(* frames: they lie in the stream one behind the other (ChainInv), and the *)
(* writer is at the end of them, or in the last one (WriterInv).           *)
(***************************************************************************)
EXTENDS Framing, SequenceTheorems, TLAPS

-----------------------------------------------------------------------------
(* The inductive invariant *)

(* Where the frames that were written, or begun, end. *)
EndOfFrames == IF Started = <<>> THEN 0 ELSE FrameEnd(Started[Len(Started)])

(* Each frame starts where the one before it ends, the first at zero. *)
ChainInv ==
  /\ Started # <<>> => Started[1].start = 0
  /\ \A k \in 1 .. Len(Started) - 1 : Started[k + 1].start = FrameEnd(Started[k])
  /\ \A j, k \in 1 .. Len(Started) : j < k => FrameEnd(Started[j]) <= Started[k].start

(* Between two frames everything begun is pushed, and nothing else as long *)
(* as the writer is there; within a frame, its header and part of its body. *)
WriterInv ==
  /\ current = <<>> => pushed >= EndOfFrames /\ (open => pushed = EndOfFrames)
  /\ current # <<>> => /\ pushed < EndOfFrames
                       /\ open => pushed = current[1].start + HeaderLen

(* The frames returned are the first of those written, and the reader has *)
(* advanced to where the next one starts, or will.                        *)
ReaderInv ==
  /\ Len(parsed) <= Len(frames)
  /\ \A k \in 1 .. Len(parsed) : parsed[k] = frames[k]
  /\ consumed = IF Len(parsed) < Len(Started)
                  THEN Started[Len(parsed) + 1].start
                  ELSE EndOfFrames

FramingInv == FramingTypeOK /\ ChainInv /\ WriterInv /\ ReaderInv

-----------------------------------------------------------------------------
(* Frames and sequences of them *)

LEMMA FrameFacts ==
  ASSUME NEW f \in Frame
  PROVE  f.start \in Nat /\ f.len \in Nat \ {0} /\ FrameEnd(f) \in Nat
         /\ FrameEnd(f) = f.start + HeaderLen + f.len
<1>1. f.start \in 0 .. StreamLen /\ f.len \in BodyLen
  BY DEF Frame
<1>2. f.start \in Nat
  BY <1>1, StreamLenAssumption
<1>3. f.len \in Nat \ {0}
  BY <1>1, BodyLenAssumption
<1> QED
  BY <1>2, <1>3 DEF FrameEnd, HeaderLen

(* What is begun is what is written in full and the frame in progress. *)
LEMMA StartedFacts ==
  ASSUME FramingTypeOK
  PROVE  /\ Started \in Seq(Frame)
         /\ Len(Started) = Len(frames) + Len(current)
         /\ \A k \in 1 .. Len(frames) : Started[k] = frames[k]
         /\ current = <<>> => Started = frames
         /\ current # <<>> => /\ Len(current) = 1 /\ current[1] \in Frame
                              /\ Started = Append(frames, current[1])
                              /\ Started[Len(Started)] = current[1]
<1>1. frames \in Seq(Frame) /\ current \in Seq(Frame) /\ Len(current) <= 1
  BY DEF FramingTypeOK
<1>2. Started \in Seq(Frame) /\ Len(Started) = Len(frames) + Len(current)
      /\ \A k \in 1 .. Len(frames) : Started[k] = frames[k]
  BY <1>1, ConcatProperties DEF Started
<1>3. CASE current = <<>>
  BY <1>1, <1>2, <1>3, ConcatEmptySeq DEF Started
<1>4. CASE current # <<>>
  <2>1. Len(current) = 1 /\ current[1] \in Frame /\ current = <<current[1]>>
    <3>1. Len(current) # 0 /\ Len(current) \in Nat
      BY <1>1, <1>4, EmptySeq, LenProperties
    <3>2. Len(current) = 1 /\ 1 \in 1 .. Len(current)
      <4> DEFINE n == Len(current)
      <4>1. n \in Nat /\ n # 0 /\ n <= 1
        BY <1>1, <3>1
      <4> HIDE DEF n
      <4>2. n = 1 /\ 1 \in 1 .. n
        BY <4>1
      <4> QED
        BY <4>2 DEF n
    <3>3. current[1] \in Frame
      BY <1>1, <3>2, ElementOfSeq
    <3>4. current = <<current[1]>>
      <4> DEFINE x == current[1]
      <4> HIDE DEF x
      <4>1. <<x>> \in Seq(Frame) /\ Len(<<x>>) = 1 /\ <<x>>[1] = x
        BY <3>3 DEF x
      <4>2. \A i \in 1 .. 1 : current[i] = <<x>>[i]
        BY <4>1 DEF x
      <4>3. current = <<x>>
        BY <1>1, <3>2, <4>1, <4>2, SeqEqual
      <4> QED
        BY <4>3 DEF x
    <3> QED
      BY <3>2, <3>3, <3>4
  <2>2. Started = Append(frames, current[1])
    BY <1>1, <2>1, AppendIsConcat DEF Started
  <2> QED
    BY <1>1, <1>4, <2>1, <2>2, AppendProperties
<1> QED
  BY <1>2, <1>3, <1>4

(* No frame ends behind the last one. *)
LEMMA EndIsLast ==
  ASSUME FramingTypeOK, ChainInv
  PROVE  /\ EndOfFrames \in Nat
         /\ \A k \in 1 .. Len(Started) :
              Started[k].start < FrameEnd(Started[k]) /\ FrameEnd(Started[k]) <= EndOfFrames
<1>1. Started \in Seq(Frame) /\ Len(Started) \in Nat
  BY StartedFacts, LenProperties
<1>2. \A k \in 1 .. Len(Started) :
        /\ Started[k].start \in Nat /\ FrameEnd(Started[k]) \in Nat
        /\ Started[k].start < FrameEnd(Started[k])
  <2> TAKE k \in 1 .. Len(Started)
  <2>1. Started[k] \in Frame
    BY <1>1, ElementOfSeq
  <2> QED
    BY <2>1, FrameFacts DEF HeaderLen
<1>3. CASE Started = <<>>
  BY <1>3 DEF EndOfFrames
<1>4. CASE Started # <<>>
  <2>1. Len(Started) \in 1 .. Len(Started)
    BY <1>1, <1>4, EmptySeq
  <2>2. EndOfFrames = FrameEnd(Started[Len(Started)]) /\ EndOfFrames \in Nat
    BY <1>2, <1>4, <2>1 DEF EndOfFrames
  <2>3. ASSUME NEW k \in 1 .. Len(Started), k < Len(Started)
        PROVE  FrameEnd(Started[k]) <= EndOfFrames
    <3>1. FrameEnd(Started[k]) <= Started[Len(Started)].start
      BY <2>1, <2>3 DEF ChainInv
    <3>2. FrameEnd(Started[k]) \in Nat /\ Started[Len(Started)].start \in Nat
          /\ Started[Len(Started)].start < FrameEnd(Started[Len(Started)])
          /\ FrameEnd(Started[Len(Started)]) \in Nat
      BY <1>2, <2>1
    <3> QED
      BY <2>2, <3>1, <3>2
  <2>4. ASSUME NEW k \in 1 .. Len(Started), k = Len(Started)
        PROVE  FrameEnd(Started[k]) <= EndOfFrames
    BY <2>2, <2>4
  <2>5. \A k \in 1 .. Len(Started) : k < Len(Started) \/ k = Len(Started)
    BY <1>1
  <2> QED
    BY <1>2, <2>2, <2>3, <2>4, <2>5
<1> QED
  BY <1>3, <1>4

-----------------------------------------------------------------------------
(* The initial state *)

LEMMA FramingInitInv == Init => FramingInv
  BY DEF Init, FramingInv, FramingTypeOK, ChainInv, WriterInv, ReaderInv, Started, EndOfFrames

-----------------------------------------------------------------------------
(* The writer's steps *)

(* The order of the frames is a matter of what was begun alone. *)
LEMMA SameFrames ==
  ASSUME ChainInv, Started' = Started
  PROVE  ChainInv' /\ EndOfFrames' = EndOfFrames
BY DEF ChainInv, EndOfFrames

(* A frame that is begun where the others end is the last of the chain. *)
LEMMA WriteHeaderStep ==
  ASSUME FramingInv, NEW len \in BodyLen, WriteHeader(len)
  PROVE  FramingInv'
<1> DEFINE f == [start |-> pushed, len |-> len]
           n == Len(frames)
<1>1. FramingTypeOK /\ ChainInv /\ WriterInv /\ ReaderInv
  BY DEF FramingInv
<1>2. f \in Frame /\ f.start = pushed /\ FrameEnd(f) = pushed + HeaderLen + len
  <2>1. len \in Nat /\ pushed \in Nat /\ pushed + HeaderLen + len <= StreamLen
    BY <1>1, BodyLenAssumption DEF FramingTypeOK, WriteHeader
  <2>2. pushed \in 0 .. StreamLen
    BY <2>1, StreamLenAssumption DEF HeaderLen
  <2> QED
    BY <2>2 DEF Frame, FrameEnd
<1> HIDE DEF f
<1>3. /\ current = <<>> /\ open /\ Started = frames /\ frames \in Seq(Frame) /\ n \in Nat
      /\ pushed = EndOfFrames /\ pushed \in Nat
  BY <1>1, StartedFacts, LenProperties DEF WriteHeader, WriterInv, FramingTypeOK
<1>4. current' = <<f>> /\ frames' = frames /\ pushed' = pushed + HeaderLen /\ open' = open
      /\ UNCHANGED <<consumed, buffered, parsed, reader>>
  BY DEF WriteHeader, f
<1>5. /\ Started' = Append(frames, f) /\ Len(Started') = n + 1 /\ Started' # <<>>
      /\ Started'[n + 1] = f /\ \A k \in 1 .. n : Started'[k] = frames[k]
  <2>1. Started' = Append(frames, f)
    BY <1>2, <1>3, <1>4, AppendIsConcat DEF Started
  <2> QED
    BY <1>2, <1>3, <2>1, AppendProperties
<1> HIDE DEF n
<1>6. FramingTypeOK'
  <2>1. current' \in Seq(Frame) /\ Len(current') <= 1
    BY <1>2, <1>4
  <2>2. pushed' \in Nat /\ consumed + buffered <= pushed'
    BY <1>1, <1>4 DEF FramingTypeOK, HeaderLen
  <2> QED
    BY <1>1, <1>4, <2>1, <2>2 DEF FramingTypeOK
<1>7. \A k \in 1 .. n : /\ frames[k].start \in Nat /\ FrameEnd(frames[k]) \in Nat
                       /\ FrameEnd(frames[k]) <= pushed
  <2>1. \A k \in 1 .. n : FrameEnd(frames[k]) <= pushed
    BY <1>1, <1>3, EndIsLast DEF n
  <2>2. \A k \in 1 .. n : frames[k] \in Frame
    BY <1>3, ElementOfSeq DEF n
  <2> QED
    BY <2>1, <2>2, FrameFacts
<1>8. ChainInv'
  <2>1. Started'[1].start = 0
    <3>1. CASE n = 0
      BY <1>2, <1>3, <1>5, <3>1, EmptySeq DEF EndOfFrames, n
    <3>2. CASE n # 0
      <4>1. 1 \in 1 .. n /\ frames # <<>>
        BY <1>3, <3>2, EmptySeq DEF n
      <4> QED
        BY <1>1, <1>3, <1>5, <4>1 DEF ChainInv
    <3> QED
      BY <3>1, <3>2
  <2>2. ASSUME NEW k \in 1 .. n PROVE Started'[k + 1].start = FrameEnd(Started'[k])
    <3>1. CASE k < n
      <4>1. k \in 1 .. n - 1 /\ k + 1 \in 1 .. n
        BY <1>3, <3>1
      <4> QED
        BY <1>1, <1>3, <1>5, <4>1 DEF ChainInv, n
    <3>2. CASE k = n
      <4>1. frames # <<>>
        BY <1>3, <3>2, EmptySeq DEF n
      <4> QED
        BY <1>2, <1>3, <1>5, <3>2, <4>1 DEF EndOfFrames, n
    <3> QED
      BY <1>3, <3>1, <3>2
  <2>3. ASSUME NEW j \in 1 .. n + 1, NEW k \in 1 .. n + 1, j < k
        PROVE  FrameEnd(Started'[j]) <= Started'[k].start
    <3>1. j \in 1 .. n
      BY <1>3, <2>3
    <3>2. CASE k = n + 1
      BY <1>2, <1>5, <1>7, <3>1, <3>2
    <3>3. CASE k # n + 1
      <4>1. k \in 1 .. n
        BY <1>3, <3>3
      <4> QED
        BY <1>1, <1>3, <1>5, <2>3, <3>1, <4>1 DEF ChainInv, n
    <3> QED
      BY <3>2, <3>3
  <2>4. Len(Started') = n + 1 /\ Len(Started') - 1 = n
    BY <1>3, <1>5
  <2>5. \A k \in 1 .. Len(Started') - 1 : Started'[k + 1].start = FrameEnd(Started'[k])
    BY <2>2, <2>4
  <2>6. \A j, k \in 1 .. Len(Started') : j < k => FrameEnd(Started'[j]) <= Started'[k].start
    BY <2>3, <2>4
  <2> QED
    BY <2>1, <2>5, <2>6 DEF ChainInv, FrameEnd
<1>9. EndOfFrames' = pushed + HeaderLen + len /\ EndOfFrames' > pushed'
  <2>1. EndOfFrames' = FrameEnd(f)
    BY <1>5 DEF EndOfFrames, FrameEnd
  <2>2. len \in Nat \ {0}
    BY BodyLenAssumption
  <2> QED
    BY <1>2, <1>3, <1>4, <2>1, <2>2 DEF HeaderLen
<1>10. WriterInv'
  <2>1. current' # <<>> /\ current'[1].start = pushed /\ pushed' < EndOfFrames'
    BY <1>2, <1>3, <1>4, <1>9 DEF HeaderLen
  <2> QED
    BY <1>4, <2>1 DEF WriterInv
<1>11. ReaderInv'
  <2>1. Len(parsed) \in Nat /\ Len(parsed) <= n
    BY <1>1, LenProperties DEF FramingTypeOK, ReaderInv, n
  <2>2. consumed = IF Len(parsed) < n THEN frames[Len(parsed) + 1].start ELSE pushed
    BY <1>1, <1>3 DEF ReaderInv, n
  <2>3. consumed = Started'[Len(parsed) + 1].start
    <3>1. CASE Len(parsed) < n
      <4>1. Len(parsed) + 1 \in 1 .. n
        BY <1>3, <2>1, <3>1
      <4> QED
        BY <1>5, <2>2, <3>1, <4>1
    <3>2. CASE Len(parsed) = n
      BY <1>2, <1>3, <1>5, <2>2, <3>2
    <3> QED
      BY <1>3, <2>1, <3>1, <3>2
  <2>4. Len(parsed) < Len(Started')
    BY <1>3, <1>5, <2>1
  <2> QED
    BY <1>1, <1>4, <2>3, <2>4 DEF ReaderInv
<1> QED
  BY <1>6, <1>8, <1>10, <1>11 DEF FramingInv

(* The frame in progress becomes one that was written: nothing moves. *)
LEMMA WriteBodyStep ==
  ASSUME FramingInv, WriteBody
  PROVE  FramingInv'
<1>1. FramingTypeOK /\ ChainInv /\ WriterInv /\ ReaderInv
  BY DEF FramingInv
<1> DEFINE c == current[1]
<1>2. /\ Started \in Seq(Frame) /\ frames \in Seq(Frame) /\ c \in Frame
      /\ Started = Append(frames, c) /\ Started[Len(Started)] = c
  BY <1>1, StartedFacts DEF WriteBody, FramingTypeOK
<1>3. Started' = Started /\ frames' = Started /\ current' = <<>>
      /\ pushed' = pushed + c.len /\ UNCHANGED <<open, consumed, buffered, parsed, reader>>
  <2>1. frames' = Started /\ current' = <<>>
    BY DEF WriteBody, Started
  <2> QED
    BY <1>2, <2>1, ConcatEmptySeq DEF WriteBody, Started
<1> HIDE DEF c
<1>4. pushed' = EndOfFrames /\ pushed' \in Nat /\ pushed <= pushed'
  <2>1. Started # <<>>
    BY <1>2, AppendProperties
  <2>2. EndOfFrames = FrameEnd(c) /\ pushed = c.start + HeaderLen /\ pushed \in Nat
    BY <1>1, <1>2, <2>1 DEF EndOfFrames, WriterInv, WriteBody, c, FramingTypeOK
  <2> QED
    BY <1>2, <1>3, <2>2, FrameFacts DEF HeaderLen
<1>5. FramingTypeOK'
  <2>1. consumed' + buffered' <= pushed'
    BY <1>1, <1>3, <1>4 DEF FramingTypeOK
  <2>2. current' \in Seq(Frame) /\ Len(current') <= 1
    BY <1>3
  <2> QED
    BY <1>1, <1>2, <1>3, <1>4, <2>1, <2>2 DEF FramingTypeOK
<1>6. ChainInv' /\ EndOfFrames' = EndOfFrames
  BY <1>1, <1>3, SameFrames
<1>7. WriterInv'
  BY <1>3, <1>4, <1>6, EndIsLast, <1>1 DEF WriterInv
<1>8. ReaderInv'
  <2>1. Len(frames') = Len(frames) + 1 /\ Len(frames) \in Nat /\ Len(parsed) \in Nat
        /\ \A k \in 1 .. Len(frames) : frames'[k] = frames[k]
    BY <1>1, <1>2, <1>3, AppendProperties, LenProperties DEF FramingTypeOK
  <2>2. Len(parsed) <= Len(frames')
    BY <1>1, <2>1 DEF ReaderInv
  <2>3. \A k \in 1 .. Len(parsed) : parsed[k] = frames'[k]
    BY <1>1, <2>1 DEF ReaderInv
  <2> QED
    BY <1>1, <1>3, <1>6, <2>2, <2>3 DEF ReaderInv
<1> QED
  BY <1>5, <1>6, <1>7, <1>8 DEF FramingInv

(* What of a write gets through does not end its frame. *)
LEMMA WriterGoneStep ==
  ASSUME FramingInv, WriterGone
  PROVE  FramingInv'
<1>1. FramingTypeOK /\ ChainInv /\ WriterInv /\ ReaderInv
  BY DEF FramingInv
<1>2. UNCHANGED <<frames, current, consumed, buffered, parsed, reader>> /\ open /\ ~open'
  BY <1>1 DEF WriterGone, FramingTypeOK
<1>3. Started' = Started
  BY <1>2 DEF Started
<1>4. ChainInv' /\ EndOfFrames' = EndOfFrames /\ EndOfFrames \in Nat
  BY <1>1, <1>3, SameFrames, EndIsLast
<1>5. PICK k \in 0 .. (IF current = <<>> THEN HeaderLen ELSE current[1].len) - 1 :
        pushed' = pushed + k
  BY DEF WriterGone
<1>6. /\ pushed' \in Nat /\ pushed <= pushed'
      /\ current # <<>> => pushed' < EndOfFrames
  <2>1. CASE current = <<>>
    BY <1>1, <1>5, <2>1 DEF FramingTypeOK, HeaderLen
  <2>2. CASE current # <<>>
    <3> DEFINE c == current[1]
    <3>1. c \in Frame /\ Started # <<>> /\ EndOfFrames = FrameEnd(c)
      <4>1. frames \in Seq(Frame) /\ c \in Frame /\ Started = Append(frames, c)
            /\ Started[Len(Started)] = c
        BY <1>1, <2>2, StartedFacts DEF FramingTypeOK
      <4>2. Started # <<>>
        BY <4>1, AppendProperties
      <4> QED
        BY <4>1, <4>2 DEF EndOfFrames
    <3>2. pushed = c.start + HeaderLen /\ k \in 0 .. c.len - 1 /\ pushed \in Nat
      BY <1>1, <1>2, <1>5, <2>2 DEF WriterInv, FramingTypeOK
    <3> HIDE DEF c
    <3> QED
      BY <1>5, <3>1, <3>2, FrameFacts
  <2> QED
    BY <2>1, <2>2
<1>7. FramingTypeOK'
  <2>1. consumed' + buffered' <= pushed'
    BY <1>1, <1>2, <1>6 DEF FramingTypeOK
  <2> QED
    BY <1>1, <1>2, <1>6, <2>1 DEF FramingTypeOK, WriterGone
<1>8. WriterInv'
  <2>1. current = <<>> => pushed' >= EndOfFrames
    BY <1>1, <1>4, <1>6 DEF WriterInv, FramingTypeOK
  <2> QED
    BY <1>2, <1>4, <1>6, <2>1 DEF WriterInv
<1>9. ReaderInv'
  BY <1>1, <1>2, <1>3, <1>4 DEF ReaderInv
<1> QED
  BY <1>4, <1>7, <1>8, <1>9 DEF FramingInv

-----------------------------------------------------------------------------
(* The reader's steps *)

(* The header that the reader finds at its position is that of the frame   *)
(* behind those it returned, and a frame it finds complete is written in   *)
(* full: bytes of two frames are never taken for one.                      *)
LEMMA FrameFound ==
  ASSUME FramingInv, NEW n \in Nat, consumed + buffered + n <= pushed,
         NEW k \in 1 .. Len(Started), Started[k].start = consumed,
         Complete(buffered + n, Started[k].len)
  PROVE  /\ k = Len(parsed) + 1 /\ k <= Len(frames) /\ Started[k] = frames[k]
         /\ Started[k] \in Frame
         /\ FrameEnd(Started[k]) <= consumed + buffered + n
<1> DEFINE f == Started[k]
           m == Len(parsed)
           l == Len(Started)
<1>1. FramingTypeOK /\ ChainInv /\ WriterInv /\ ReaderInv
  BY DEF FramingInv
<1>2. Started \in Seq(Frame) /\ l \in Nat /\ m \in Nat /\ f \in Frame /\ k \in 1 .. l
  <2>1. Started \in Seq(Frame) /\ parsed \in Seq(Frame)
    BY <1>1, StartedFacts DEF FramingTypeOK
  <2> QED
    BY <2>1, LenProperties, ElementOfSeq
<1>3. /\ \A i \in 1 .. l : /\ FrameEnd(Started[i]) \in Nat /\ Started[i].start \in Nat
                         /\ Started[i].start < FrameEnd(Started[i])
                         /\ FrameEnd(Started[i]) <= EndOfFrames
      /\ \A i, j \in 1 .. l : i < j => FrameEnd(Started[i]) <= Started[j].start
      /\ EndOfFrames \in Nat
  <2>1. \A i \in 1 .. l : Started[i] \in Frame
    BY <1>2, ElementOfSeq
  <2> QED
    BY <1>1, <2>1, EndIsLast, FrameFacts DEF ChainInv
<1>4. consumed = IF m < l THEN Started[m + 1].start ELSE EndOfFrames
  BY <1>1 DEF ReaderInv
<1>5. /\ f.len \in Nat /\ consumed \in Nat /\ buffered \in Nat /\ pushed \in Nat
      /\ FrameEnd(f) = consumed + HeaderLen + f.len
      /\ f.start = consumed /\ Complete(buffered + n, f.len)
  BY <1>1, <1>2, FrameFacts DEF FramingTypeOK
<1> HIDE DEF f, m, l
<1>6. FrameEnd(f) <= consumed + buffered + n /\ FrameEnd(f) < pushed
  BY <1>5 DEF Complete, HeaderLen
<1>7. k = m + 1
  <2>1. m < l
    <3>1. SUFFICES ASSUME m >= l PROVE FALSE
      BY <1>2
    <3>2. consumed = EndOfFrames
      BY <1>2, <1>4, <3>1
    <3>3. f.start < FrameEnd(f) /\ FrameEnd(f) <= EndOfFrames /\ FrameEnd(f) \in Nat
      BY <1>2, <1>3 DEF f
    <3> QED
      BY <1>3, <1>5, <3>2, <3>3
  <2>2. m + 1 \in 1 .. l /\ Started[m + 1].start = consumed /\ Started[k].start = consumed
    BY <1>2, <1>4, <1>5, <2>1 DEF f
  <2>3. ASSUME NEW i \in 1 .. l, NEW j \in 1 .. l, i < j
        PROVE  Started[i].start # Started[j].start
    <3>1. FrameEnd(Started[i]) <= Started[j].start /\ Started[i].start < FrameEnd(Started[i])
          /\ FrameEnd(Started[i]) \in Nat /\ Started[j].start \in Nat /\ Started[i].start \in Nat
      BY <1>3, <2>3
    <3> QED
      BY <3>1
  <2>4. ~(k < m + 1) /\ ~(m + 1 < k)
    BY <1>2, <2>2, <2>3
  <2> QED
    BY <1>2, <2>4
<1>8. k <= Len(frames)
  <2>1. /\ Len(frames) \in Nat /\ l = Len(frames) + Len(current)
        /\ current = <<>> => l = Len(frames)
    BY <1>1, StartedFacts, LenProperties DEF FramingTypeOK, l
  <2>2. CASE current = <<>>
    BY <1>2, <2>1, <2>2
  <2>3. CASE current # <<>>
    <3>1. l = Len(frames) + 1 /\ Started # <<>>
      <4>1. Len(current) = 1 /\ Started = Append(frames, current[1]) /\ frames \in Seq(Frame)
            /\ current[1] \in Frame
        BY <1>1, <2>3, StartedFacts DEF FramingTypeOK
      <4> QED
        BY <2>1, <4>1, AppendProperties DEF l
    <3>2. k # l
      <4>1. EndOfFrames = FrameEnd(Started[l]) /\ pushed < EndOfFrames
        BY <1>1, <2>3, <3>1 DEF EndOfFrames, WriterInv, l
      <4> SUFFICES ASSUME k = l PROVE FALSE
        OBVIOUS
      <4>2. FrameEnd(f) = EndOfFrames
        BY <4>1 DEF f
      <4> QED
        BY <1>3, <1>5, <1>6, <4>1, <4>2
    <3> QED
      BY <1>2, <2>1, <3>1, <3>2
  <2> QED
    BY <2>2, <2>3
<1>9. Started[k] = frames[k]
  <2>1. k \in 1 .. Len(frames)
    BY <1>2, <1>8, <1>1, LenProperties DEF FramingTypeOK
  <2> QED
    BY <1>1, <2>1, StartedFacts
<1> QED
  BY <1>2, <1>6, <1>7, <1>8, <1>9 DEF f, m

(* What a step that returns a frame returns, and where it leaves the reader. *)
LEMMA ReadFrameFacts ==
  ASSUME FramingInv, NEW n \in 1 .. pushed, ReadFrame(n)
  PROVE  \E k \in 1 .. Len(frames) :
           /\ k = Len(parsed) + 1
           /\ Started[k] = frames[k] /\ frames[k] \in Frame
           /\ parsed' = Append(parsed, frames[k])
           /\ consumed' = FrameEnd(frames[k])
           /\ FrameEnd(frames[k]) <= consumed + buffered + n
           /\ consumed + buffered + n <= pushed
<1>1. FramingTypeOK
  BY DEF FramingInv
<1>2. n \in Nat /\ consumed + buffered + n <= pushed
  <2>1. Readable(n)
    BY DEF ReadFrame
  <2>2. pushed \in Nat /\ consumed \in Nat /\ buffered \in Nat /\ n \in Nat
    BY <1>1 DEF FramingTypeOK
  <2> QED
    BY <2>1, <2>2 DEF Readable
<1>3. PICK k \in 1 .. Len(Started) :
        /\ Started[k].start = consumed
        /\ Complete(buffered + n, Started[k].len)
        /\ Advance(Started[k])
        /\ parsed' = Append(parsed, Started[k])
  BY DEF ReadFrame
<1>4. /\ k = Len(parsed) + 1 /\ k <= Len(frames) /\ Started[k] = frames[k]
      /\ Started[k] \in Frame
      /\ FrameEnd(Started[k]) <= consumed + buffered + n
  BY <1>2, <1>3, FrameFound
<1>5. k \in 1 .. Len(frames)
  <2>1. Len(frames) \in Nat /\ Len(Started) \in Nat
    BY <1>1, StartedFacts, LenProperties DEF FramingTypeOK
  <2> QED
    BY <1>3, <1>4, <2>1
<1>6. consumed' = FrameEnd(frames[k])
  BY <1>3, <1>4 DEF Advance, FrameEnd
<1> QED
  BY <1>2, <1>3, <1>4, <1>5, <1>6

LEMMA ReadFrameStep ==
  ASSUME FramingInv, NEW n \in 1 .. pushed, ReadFrame(n)
  PROVE  FramingInv'
<1>1. FramingTypeOK /\ ChainInv /\ WriterInv /\ ReaderInv
  BY DEF FramingInv
<1>2. UNCHANGED <<frames, current, pushed, open, reader>>
      /\ buffered' = (buffered + n + consumed) - consumed'
  BY DEF ReadFrame
<1>3. Started' = Started
  BY <1>2 DEF Started
<1>4. ChainInv' /\ EndOfFrames' = EndOfFrames
  BY <1>1, <1>3, SameFrames
<1>5. PICK k \in 1 .. Len(frames) :
           /\ k = Len(parsed) + 1
           /\ Started[k] = frames[k] /\ frames[k] \in Frame
           /\ parsed' = Append(parsed, frames[k])
           /\ consumed' = FrameEnd(frames[k])
           /\ FrameEnd(frames[k]) <= consumed + buffered + n
           /\ consumed + buffered + n <= pushed
  BY ReadFrameFacts
<1> DEFINE e == FrameEnd(frames[k])
           m == Len(parsed)
           l == Len(Started)
<1>6. /\ parsed \in Seq(Frame) /\ m \in Nat /\ l \in Nat /\ Len(frames) \in Nat
      /\ Len(frames) <= l /\ Started \in Seq(Frame)
  <2>1. /\ Started \in Seq(Frame) /\ parsed \in Seq(Frame) /\ frames \in Seq(Frame)
        /\ current \in Seq(Frame) /\ l = Len(frames) + Len(current)
    BY <1>1, StartedFacts DEF FramingTypeOK
  <2>2. Len(current) \in Nat /\ l \in Nat /\ Len(frames) \in Nat /\ m \in Nat
    BY <2>1, LenProperties
  <2> QED
    BY <2>1, <2>2
<1>7. Len(parsed') = m + 1 /\ parsed' \in Seq(Frame) /\ parsed'[m + 1] = frames[k]
      /\ \A i \in 1 .. m : parsed'[i] = parsed[i]
  BY <1>5, <1>6, AppendProperties
<1>8. e \in Nat
  BY <1>5, FrameFacts
<1>9. FramingTypeOK'
  <2>1. buffered' \in Nat /\ consumed' \in Nat /\ consumed' + buffered' <= pushed'
    <3>1. consumed' = e /\ e <= consumed + buffered + n /\ consumed + buffered + n <= pushed
      BY <1>5
    <3> HIDE DEF e
    <3> QED
      BY <1>1, <1>2, <1>8, <3>1 DEF FramingTypeOK
  <2> QED
    BY <1>1, <1>2, <1>7, <2>1 DEF FramingTypeOK
<1>10. WriterInv'
  BY <1>1, <1>2, <1>4 DEF WriterInv
<1>11. ReaderInv'
  <2>1. Len(parsed') <= Len(frames)
    BY <1>5, <1>6, <1>7
  <2>2. ASSUME NEW i \in 1 .. Len(parsed') PROVE parsed'[i] = frames[i]
    <3>1. CASE i = m + 1
      BY <1>5, <1>7, <3>1
    <3>2. CASE i # m + 1
      <4>1. i \in 1 .. m
        BY <1>6, <1>7, <3>2
      <4> QED
        BY <1>1, <1>7, <4>1 DEF ReaderInv
    <3> QED
      BY <3>1, <3>2
  <2>3. consumed' = IF k < l THEN Started[k + 1].start ELSE EndOfFrames
    <3>1. CASE k < l
      <4>1. k \in 1 .. Len(Started) - 1
        BY <1>5, <1>6, <3>1
      <4> QED
        BY <1>1, <1>5, <3>1, <4>1 DEF ChainInv
    <3>2. CASE ~(k < l)
      <4>1. k = l /\ Started # <<>>
        BY <1>5, <1>6, <3>2, EmptySeq
      <4> QED
        BY <1>5, <4>1 DEF EndOfFrames
    <3> QED
      BY <3>1, <3>2
  <2>4. Len(parsed') = k
    BY <1>5, <1>7
  <2> HIDE DEF l
  <2> QED
    BY <1>2, <1>3, <1>4, <2>1, <2>2, <2>3, <2>4 DEF ReaderInv, l
<1> QED
  BY <1>4, <1>9, <1>10, <1>11 DEF FramingInv

(* Where nothing is returned, only the buffer grows or the reader fails. *)
LEMMA OtherReaderSteps ==
  ASSUME FramingInv,
         UNCHANGED <<frames, current, pushed, open, consumed, parsed>>,
         buffered' \in Nat, consumed + buffered' <= pushed,
         reader' \in {"reading", "failed"}
  PROVE  FramingInv'
<1>1. Started' = Started
  BY DEF Started
<1>2. ChainInv' /\ EndOfFrames' = EndOfFrames
  BY <1>1, SameFrames DEF FramingInv
<1> QED
  BY <1>1, <1>2 DEF FramingInv, FramingTypeOK, WriterInv, ReaderInv

LEMMA FramingStepInv ==
  ASSUME FramingInv, [Next]_vars
  PROVE  FramingInv'
<1>1. ASSUME NEW len \in BodyLen, WriteHeader(len) PROVE FramingInv'
  BY <1>1, WriteHeaderStep
<1>2. CASE WriteBody
  BY <1>2, WriteBodyStep
<1>3. CASE WriterGone
  BY <1>3, WriterGoneStep
<1>4. ASSUME NEW n \in 1 .. pushed, ReadFrame(n) PROVE FramingInv'
  BY <1>4, ReadFrameStep
<1>5. ASSUME NEW n \in 1 .. pushed, ReadOn(n) \/ ReadGarbage(n) PROVE FramingInv'
  <2>1. buffered' \in Nat /\ consumed + buffered' <= pushed
    BY <1>5 DEF ReadOn, ReadGarbage, Readable, FramingInv, FramingTypeOK
  <2> QED
    BY <1>5, <2>1, OtherReaderSteps DEF ReadOn, ReadGarbage, Readable, FramingInv, FramingTypeOK
<1>6. CASE Eof \/ ReadFails \/ UNCHANGED vars
  <2>1. buffered' \in Nat /\ consumed + buffered' <= pushed
    BY <1>6 DEF Eof, ReadFails, vars, FramingInv, FramingTypeOK
  <2> QED
    BY <1>6, <2>1, OtherReaderSteps DEF Eof, ReadFails, vars, FramingInv, FramingTypeOK
<1> QED
  BY <1>1, <1>2, <1>3, <1>4, <1>5, <1>6 DEF Next

(* The frames lie in the stream one behind the other, and reader and writer *)
(* are where the frames returned and begun say.                             *)
THEOREM FramesAreChained == Spec => []FramingInv
<1>1. FramingInv /\ [Next]_vars => FramingInv'
  BY FramingStepInv
<1> QED
  BY FramingInitInv, <1>1, PTL DEF Spec

(* Type correctness: what the reader has taken and has in its buffer was    *)
(* written, and the buffer's length never goes below zero.                  *)
THEOREM FramingTypeCorrect == Spec => []FramingTypeOK
<1>1. FramingInv => FramingTypeOK
  BY DEF FramingInv
<1> QED
  BY FramesAreChained, <1>1, PTL

(* next() looks for a header only where write() has put one or will.        *)
THEOREM ReaderIsAtBoundary == Spec => []AtBoundary
<1>1. FramingInv => AtBoundary
  <2> SUFFICES ASSUME FramingInv PROVE AtBoundary
    OBVIOUS
  <2> DEFINE m == Len(parsed)
  <2>1. FramingTypeOK /\ ChainInv /\ WriterInv /\ ReaderInv
    BY DEF FramingInv
  <2>2. /\ m \in Nat /\ Len(Started) \in Nat /\ Len(frames) \in Nat /\ m <= Len(frames)
        /\ current = <<>> => Len(Started) = Len(frames)
        /\ current # <<>> => Len(Started) = Len(frames) + 1
    <3>1. /\ Started \in Seq(Frame) /\ parsed \in Seq(Frame) /\ frames \in Seq(Frame)
          /\ m <= Len(frames) /\ Len(Started) = Len(frames) + Len(current)
          /\ current = <<>> => Started = frames
          /\ current # <<>> => Len(current) = 1
      BY <2>1, StartedFacts DEF FramingTypeOK, ReaderInv
    <3> QED
      BY <3>1, LenProperties
  <2>3. consumed = IF m < Len(Started) THEN Started[m + 1].start ELSE EndOfFrames
    BY <2>1 DEF ReaderInv
  <2>4. CASE m < Len(Started)
    BY <2>2, <2>3, <2>4 DEF AtBoundary
  <2>5. CASE ~(m < Len(Started))
    <3>1. current = <<>> /\ ~(m + 1 <= Len(Started))
      BY <2>2, <2>5
    <3>2. consumed = pushed \/ ~open
      BY <2>1, <2>3, <2>5, <3>1 DEF WriterInv
    <3> QED
      BY <3>1, <3>2 DEF AtBoundary
  <2> QED
    BY <2>4, <2>5
<1> QED
  BY FramesAreChained, <1>1, PTL

-----------------------------------------------------------------------------
(* The refinement *)

LEMMA LinkInit == Init => Link!Init
  BY DEF Init, Link!Init

(* A body that is written offers its frame, as long as the reader can take  *)
(* it; a frame that is returned is delivered; a failure breaks the link.    *)
LEMMA LinkStep ==
  ASSUME FramingInv, [Next]_vars
  PROVE  [Link!Next]_(Link!vars)
<1>1. FramingTypeOK /\ ReaderInv
  BY DEF FramingInv
<1> USE DEF Link!vars
<1>2. ASSUME NEW len \in BodyLen, WriteHeader(len) PROVE UNCHANGED Link!vars
  BY <1>2 DEF WriteHeader
<1>3. CASE WriteBody
  <2>1. /\ current[1] \in Frame /\ frames' = Append(frames, current[1])
        /\ parsed' = parsed /\ reader' = reader
    BY <1>1, <1>3, StartedFacts DEF WriteBody, Started
  <2>2. CASE reader = "reading"
    <3>1. Link!Offer(current[1])
      BY <2>1, <2>2 DEF Link!Offer
    <3> QED
      BY <2>1, <3>1 DEF Link!Next
  <2>3. CASE reader # "reading"
    BY <2>1, <2>3
  <2> QED
    BY <2>2, <2>3
<1>4. CASE WriterGone
  BY <1>4 DEF WriterGone
<1>5. ASSUME NEW n \in 1 .. pushed, ReadFrame(n) PROVE Link!Next
  <2>1. reader = "reading" /\ reader' = reader /\ frames' = frames
    BY <1>5 DEF ReadFrame, Readable
  <2>2. PICK k \in 1 .. Len(frames) :
          k = Len(parsed) + 1 /\ parsed' = Append(parsed, frames[k])
    BY <1>5, ReadFrameFacts
  <2>3. Len(parsed) < Len(frames)
    <3>1. Len(parsed) \in Nat /\ Len(frames) \in Nat
      BY <1>1, LenProperties DEF FramingTypeOK
    <3> QED
      BY <2>2, <3>1
  <2>4. Link!Deliver
    BY <2>1, <2>2, <2>3 DEF Link!Deliver
  <2> QED
    BY <2>4 DEF Link!Next
<1>6. ASSUME NEW n \in 1 .. pushed, ReadOn(n) PROVE UNCHANGED Link!vars
  BY <1>6 DEF ReadOn
<1>7. ASSUME (\E n \in 1 .. pushed : ReadGarbage(n)) \/ Eof \/ ReadFails PROVE Link!Next
  <2>1. reader = "reading" /\ reader' = "failed" /\ parsed' = parsed
    BY <1>7 DEF ReadGarbage, Readable, Eof, ReadFails
  <2>2. Link!Break
    BY <2>1 DEF Link!Break
  <2> QED
    BY <2>2 DEF Link!Next
<1>8. CASE UNCHANGED vars
  BY <1>8 DEF vars
<1> QED
  BY <1>2, <1>3, <1>4, <1>5, <1>6, <1>7, <1>8 DEF Next

(* next() is a FIFO link for the frames that write() wrote in full.         *)
THEOREM FramingIsFifoLink == Spec => ImplementsFifoLink
<1>1. FramingInv /\ [Next]_vars => [Link!Next]_(Link!vars)
  BY LinkStep
<1> QED
  BY LinkInit, FramesAreChained, <1>1, PTL DEF Spec, ImplementsFifoLink, Link!Spec

=============================================================================
