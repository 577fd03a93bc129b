------------------------------ MODULE Framing ------------------------------
(***************************************************************************)
(* Packets over a byte stream, one direction: Connection::write and        *)
(* Connection::next of connect/src/connection.rs over the TcpConnection of *)
(* im/src/tcp_connection.rs.                                               *)
(*                                                                         *)
(* write() pushes a header of four bytes, the length, and then the body.   *)
(* next() reads what the socket has into the buffer, and only then looks   *)
(* for one frame at the front of the buffer.  Bytes are counted, never     *)
(* built: a frame is the position at which its header starts and the       *)
(* length of its body, and what the reader finds at a position is the      *)
(* header that starts there.                                               *)
(***************************************************************************)
EXTENDS Naturals, Sequences

CONSTANTS
  BodyLen,   \* lengths that serialized packets have
  StreamLen  \* bound on the bytes written in a behaviour

ASSUME BodyLenAssumption == BodyLen \subseteq Nat \ {0}
ASSUME StreamLenAssumption == StreamLen \in Nat

HeaderLen == 4

VARIABLES
  frames,    \* frames written in full
  current,   \* the frame whose body is still to be written, <<>> when none
  pushed,    \* bytes written to the stream
  open,      \* the writer's end of the stream is open
  consumed,  \* bytes the reader has advanced over
  buffered,  \* bytes in the reader's buffer
  parsed,    \* frames that next() returned
  reader     \* "reading", or "failed" when next() returned an error

vars == <<frames, current, pushed, open, consumed, buffered, parsed, reader>>

Frame == [start : 0 .. StreamLen, len : BodyLen]

FrameEnd(f) == f.start + HeaderLen + f.len

FramingTypeOK ==
  /\ frames \in Seq(Frame)
  /\ current \in Seq(Frame) /\ Len(current) <= 1
  /\ pushed \in Nat
  /\ open \in BOOLEAN
  /\ consumed \in Nat
  /\ buffered \in Nat
  /\ consumed + buffered <= pushed
  /\ parsed \in Seq(Frame)
  /\ reader \in {"reading", "failed"}

Init ==
  /\ frames = <<>>
  /\ current = <<>>
  /\ pushed = 0
  /\ open = TRUE
  /\ consumed = 0
  /\ buffered = 0
  /\ parsed = <<>>
  /\ reader = "reading"

-----------------------------------------------------------------------------
(* Connection::write: two calls of write_buf *)

WriteHeader(len) ==
  /\ open
  /\ current = <<>>
  /\ pushed + HeaderLen + len <= StreamLen
  /\ current' = <<[start |-> pushed, len |-> len]>>
  /\ pushed' = pushed + HeaderLen
  /\ UNCHANGED <<frames, open, consumed, buffered, parsed, reader>>

WriteBody ==
  /\ open
  /\ current # <<>>
  /\ frames' = frames \o current
  /\ pushed' = pushed + current[1].len
  /\ current' = <<>>
  /\ UNCHANGED <<open, consumed, buffered, parsed, reader>>

(* The writer's end goes, between two writes or in the middle of one: some *)
(* bytes of a write_buf got through, not all.                              *)
WriterGone ==
  /\ open
  /\ open' = FALSE
  /\ \E k \in 0 .. (IF current = <<>> THEN HeaderLen ELSE current[1].len) - 1 :
       pushed' = pushed + k
  /\ UNCHANGED <<frames, current, consumed, buffered, parsed, reader>>

-----------------------------------------------------------------------------
(* Connection::next: a read, then one look at the front of the buffer *)

Started == frames \o current

(* Faulty variant: the body is not waited for. *)
AnyBody(have, len) == have > HeaderLen

(* With `have` bytes in the buffer, next() takes a frame with a body of    *)
(* `len` bytes.  get_u32 has moved the slice past the header by the time   *)
(* its length is compared with the body and the header together.           *)
Complete(have, len) ==
  /\ have > HeaderLen
  /\ have - HeaderLen >= len + HeaderLen

(* n bytes come from the socket. *)
Readable(n) ==
  /\ reader = "reading"
  /\ n \in 1 .. pushed - consumed - buffered

(* `continue`: the next turn of the loop awaits more bytes. *)
ReadOn(n) ==
  /\ Readable(n)
  /\ \A k \in 1 .. Len(Started) :
       Started[k].start = consumed => ~Complete(buffered + n, Started[k].len)
  /\ buffered' = buffered + n
  /\ UNCHANGED <<frames, current, pushed, open, consumed, parsed, reader>>

(* Faulty variant: the header is not advanced over. *)
AdvanceBodyOnly(f) == consumed' = consumed + f.len

Advance(f) == consumed' = consumed + HeaderLen + f.len

(* A frame is taken; the rest of the buffer is left for the next call. *)
ReadFrame(n) ==
  /\ Readable(n)
  /\ \E k \in 1 .. Len(Started) :
       /\ Started[k].start = consumed
       /\ Complete(buffered + n, Started[k].len)
       /\ Advance(Started[k])
       /\ parsed' = Append(parsed, Started[k])
  /\ buffered' = (buffered + n + consumed) - consumed'
  /\ UNCHANGED <<frames, current, pushed, open, reader>>

(* A frame is complete but its body does not decode: from_bytes()? *)
ReadGarbage(n) ==
  /\ Readable(n)
  /\ \E k \in 1 .. Len(Started) :
       Started[k].start = consumed /\ Complete(buffered + n, Started[k].len)
  /\ buffered' = buffered + n
  /\ reader' = "failed"
  /\ UNCHANGED <<frames, current, pushed, open, consumed, parsed>>

(* Faulty variant: an empty buffer, not an error, at the end of the stream. *)
EofAsEmptyBuffer ==
  /\ reader = "reading"
  /\ ~open
  /\ consumed + buffered = pushed
  /\ UNCHANGED vars

(* A read of zero bytes: what is left in the buffer is lost. *)
Eof ==
  /\ reader = "reading"
  /\ ~open
  /\ consumed + buffered = pushed
  /\ reader' = "failed"
  /\ UNCHANGED <<frames, current, pushed, open, consumed, buffered, parsed>>

(* The socket reports an error, or the reader's end is dropped by its loop. *)
ReadFails ==
  /\ reader = "reading"
  /\ reader' = "failed"
  /\ UNCHANGED <<frames, current, pushed, open, consumed, buffered, parsed>>

-----------------------------------------------------------------------------
Read == \E n \in 1 .. pushed : ReadOn(n) \/ ReadFrame(n)

Next ==
  \/ \E len \in BodyLen : WriteHeader(len)
  \/ WriteBody
  \/ WriterGone
  \/ \E n \in 1 .. pushed : ReadOn(n) \/ ReadFrame(n) \/ ReadGarbage(n)
  \/ Eof
  \/ ReadFails

Spec == Init /\ [][Next]_vars

(* A write in progress ends one way or the other; nothing makes the writer *)
(* go, or write.  The stream carries what was written, and the select loop *)
(* keeps polling next(), whose read loses no bytes when another arm wins.  *)
FairSpec ==
  /\ Spec
  /\ WF_vars(current # <<>> /\ (WriteBody \/ WriterGone))
  /\ WF_vars(Read)
  /\ WF_vars(Eof)

-----------------------------------------------------------------------------
(* Properties *)

(* The buffer starts where a frame starts: the one after the last that was *)
(* returned, or the position at which the next one will be written.        *)
AtBoundary ==
  reader = "reading" =>
    LET k == Len(parsed) + 1
    IN  IF k <= Len(Started)
          THEN Started[k].start = consumed
          ELSE consumed = pushed \/ ~open

Link == INSTANCE FifoLink
          WITH Item      <- Frame,
               offered   <- IF reader = "reading" THEN frames ELSE parsed,
               delivered <- parsed,
               up        <- reader = "reading"

(* next() returns the packets that were written in full, in order, none    *)
(* twice and none skipped, whatever the reads cut the stream into.         *)
ImplementsFifoLink == Link!Spec

(* When the writer's end goes, next() fails, so that the loop of the       *)
(* connection returns; it does not spin on an empty read.                  *)
LossIsNoticed == ~open ~> reader = "failed"

(* A bound on the number of frames. *)
MaxFrames == StreamLen \div (HeaderLen + 1)

(* What the comment on next() says: it returns a message that has come.    *)
(* While the stream stays up, every frame written is returned.             *)
WrittenIsReturned ==
  \A k \in 1 .. MaxFrames :
    Len(frames) >= k ~> Len(parsed) >= k \/ ~open \/ reader = "failed"

=============================================================================
