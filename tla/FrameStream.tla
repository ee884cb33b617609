----------------------------- MODULE FrameStream -----------------------------
(***************************************************************************)
(* One direction of a websocket connection: the frames that one side       *)
(* writes into the stream, and how the other side finds them again in      *)
(* whatever pieces the stream is read.  Frames of a client are masked and  *)
(* read by a WebsocketSession, frames of the server are read by a          *)
(* WebsocketAsync; the two readers are the same but for the mask, the end  *)
(* of a body and what they refuse.                                         *)
(*                                                                         *)
(* A byte is its position in the stream, counted from 0; a body is the     *)
(* positions from `from` up to `to`, exclusive.  tmp_buffer is the bytes   *)
(* from `start` up to `read`.                                              *)
(*                                                                         *)
(* The reader calls deserialize at positions where the writer has started  *)
(* a frame, as long as no byte was lost.  A write may take fewer bytes     *)
(* than it was given (async_write_some), and nobody writes the rest; when  *)
(* a reader runs past such a frame, or past what there is of its header,   *)
(* it reads what is no header, the model says `lost` and stops.            *)
(***************************************************************************)
EXTENDS Integers, Sequences

CONSTANTS
  Masked,       \* whether the frames are those of a client
  Lengths,      \* lengths of bodies
  ShortMax,     \* 125: the longest body with its length in the second byte
  MediumMax,    \* 65535: the longest body with a length of two bytes
  ReadMax,      \* MAX_LENGTH, 8192: the most that one read takes
  Shortfalls,   \* how many bytes a write may leave unwritten
  MaxFrames     \* bound: frames written

Word == MediumMax + 1   \* what two bytes can tell apart

ASSUME FrameAssumption ==
  /\ Masked \in BOOLEAN
  /\ ShortMax \in Nat /\ MediumMax \in Nat /\ ShortMax < MediumMax
  /\ Lengths \subseteq 0..((Word * Word) \div 2 - 1)
  /\ ReadMax \in Nat \ {0}
  /\ Shortfalls \subseteq Nat
  /\ MaxFrames \in Nat

VARIABLES
  frames,   \* the frames written
  end,      \* number of bytes written
  read,     \* number of bytes read
  start,    \* position of the first byte of tmp_buffer
  packets,  \* the bodies given to onReceive
  lost      \* whether the reader has gone on where no frame starts

vars == <<frames, end, read, start, packets, lost>>

(* "other" is an opcode that PacketType does not have, as that of a
   continuation. *)
Frame  == [at: Nat, opcode: {"packet", "other"}, length: Lengths, written: Nat]
Packet == {p \in [from: Nat, to: Nat] : p.from <= p.to}

-----------------------------------------------------------------------------
(* Writing: FrameData::serialize. *)

HeaderSize(n) ==
  (IF n <= ShortMax THEN 2 ELSE IF n <= MediumMax THEN 4 ELSE 10) + (IF Masked THEN 4 ELSE 0)

(* Reading: FrameData::deserialize.  What the length fields of 1, 2 and 8
   bytes give back: four of the 8 bytes are used. *)
payload_length(f) ==
  IF f.length <= ShortMax THEN f.length
  ELSE IF f.length <= MediumMax THEN f.length % Word
  ELSE f.length % (Word * Word)

LengthEnd(f)  == IF f.length <= ShortMax THEN 2 ELSE IF f.length <= MediumMax THEN 4 ELSE 10
HeaderEnd(f)  == LengthEnd(f) + (IF Masked THEN 4 ELSE 0)

(* The server refuses opcodes that PacketType does not have. *)
Throws(f, avail) == avail >= 2 /\ Masked /\ f.opcode = "other"

\* Mutant: the mask is not counted.
Complete_NoMask(f, avail) == avail >= LengthEnd(f) /\ avail >= LengthEnd(f) + payload_length(f)

(* Of `avail` bytes from the start of the frame, the headers and the body
   are there. *)
Complete(f, avail) ==
  /\ avail >= LengthEnd(f)
  /\ avail >= HeaderEnd(f)
  /\ avail >= HeaderEnd(f) + payload_length(f)

(* The server takes all that is in the buffer for the body, the client what
   the length says. *)
Body(f, stop) ==
  [from |-> f.at + HeaderEnd(f),
   to   |-> IF Masked THEN stop ELSE f.at + HeaderEnd(f) + payload_length(f)]

\* Mutant: a boundary is taken for the next kind of length.
PacketSize_Boundary(p) ==
  p + (IF p < ShortMax THEN 2 ELSE IF p <= MediumMax THEN 4 ELSE 10) + (IF Masked THEN 4 ELSE 0)

(* How far createWebsocketData goes on after a frame. *)
PacketSize(p) ==
  p + (IF p <= ShortMax THEN 2 ELSE IF p <= MediumMax THEN 4 ELSE 10) + (IF Masked THEN 4 ELSE 0)

-----------------------------------------------------------------------------
Init ==
  /\ frames = <<>> /\ end = 0
  /\ read = 0 /\ start = 0
  /\ packets = <<>>
  /\ lost = FALSE

(* serialize and write; `short` bytes are not taken. *)
Write(op, n, short) ==
  /\ Len(frames) < MaxFrames
  /\ short < HeaderSize(n) + n
  /\ LET size == HeaderSize(n) + n - short
     IN /\ frames' = Append(frames, [at |-> end, opcode |-> op, length |-> n, written |-> size])
        /\ end' = end + size
  /\ UNCHANGED <<read, start, packets, lost>>

(* Where the frame after the i-th starts, and where the reader looks for it. *)
NextAt(i)   == frames[i].at + frames[i].written
NextSeen(i) == frames[i].at + PacketSize(payload_length(frames[i]))

(* A part of the header was not written, and has been read nevertheless. *)
HeaderCut(f, avail) == f.written < HeaderEnd(f) /\ f.written < avail

(* The loop of createWebsocketData: the frames from the first up to the last
   are taken from a buffer that ends at `stop`. *)
Taken(first, last, stop) ==
  \A i \in first..last :
    /\ ~HeaderCut(frames[i], stop - frames[i].at)
    /\ ~Throws(frames[i], stop - frames[i].at)
    /\ Complete(frames[i], stop - frames[i].at)

(* There are bytes behind the last frame taken. *)
More(last, stop) == last < Len(frames) /\ frames[last + 1].at < stop

\* Mutant: one frame is taken from what is read.
Ends_AfterOne(last, stop) == last > 0

(* The loop ends there: no bytes, or a frame that is not complete. *)
Ends(last, stop) ==
  More(last, stop) =>
    LET f == frames[last + 1] IN ~Throws(f, stop - f.at) /\ ~Complete(f, stop - f.at)

(* deserialize throws there. *)
Stops(last, stop) ==
  More(last, stop) /\ Throws(frames[last + 1], stop - frames[last + 1].at)

(* The loop goes on where no frame starts, or in what is no header. *)
Loses(first, last, stop) ==
  \/ first <= last /\ NextAt(last) # NextSeen(last)
  \/ More(last, stop) /\ HeaderCut(frames[last + 1], stop - frames[last + 1].at)

Bodies(first, last, stop) ==
  [i \in 1..(last - first + 1) |-> Body(frames[first + i - 1], stop)]

(* A read of `n` bytes finds the frames from the first to the last.  If an
   exception ends the loop, they are given away, and stay in the buffer. *)
receivePacket(n, first, last) ==
  LET stop == read + n
  IN /\ ~lost
     /\ stop <= end
     /\ read' = stop
     /\ frames[first].at = start
     /\ Taken(first, last, stop)
     /\ \A i \in first..(last - 1) : NextAt(i) = NextSeen(i)
     /\ packets' = packets \o Bodies(first, last, stop)
     /\ lost' = Loses(first, last, stop)
     /\ \/ lost' /\ UNCHANGED start
        \/ /\ ~lost' /\ Ends(last, stop)
           /\ start' = IF first <= last THEN NextSeen(last) ELSE start
        \/ ~lost' /\ Stops(last, stop) /\ UNCHANGED start
     /\ UNCHANGED <<frames, end>>

Read ==
  \E n \in 1..ReadMax, first \in 1..Len(frames) :
    \E last \in (first - 1)..Len(frames) : receivePacket(n, first, last)

Next ==
  \/ \E op \in {"packet", "other"}, n \in Lengths, short \in Shortfalls : Write(op, n, short)
  \/ Read

Spec == Init /\ [][Next]_vars

(* The reader reads what has come. *)
LiveSpec == Spec /\ WF_vars(Read)

-----------------------------------------------------------------------------
(* PROPERTIES *)

(* Every variable has its type. *)
TypeOK ==
  /\ frames \in Seq(Frame)
  /\ end \in Nat
  /\ read \in Nat
  /\ start \in Nat
  /\ packets \in Seq(Packet)
  /\ lost \in BOOLEAN

(* A frame that the reader refuses, and one of which a part was not written. *)
Refused(f)   == Masked /\ f.opcode = "other"
Truncated(f) == f.written < HeaderSize(f.length) + f.length

Payload(f) == [from |-> f.at + HeaderSize(f.length), to |-> f.at + HeaderSize(f.length) + f.length]

(* The body of a packet is that of the frame, with what was read behind it. *)
Carries(p, f) ==
  /\ p.from = Payload(f).from
  /\ IF Masked THEN p.to >= Payload(f).to ELSE p.to = Payload(f).to

(* No frame up to the i-th is in the reader's way. *)
Clean(i) == \A j \in 1..i : ~Refused(frames[j]) /\ ~Truncated(frames[j])
Arrived(i) == NextAt(i) <= read

(* As long as no frame is refused or truncated, every frame that has been read
   is delivered at once, and once, in order, wherever the stream was cut
   (websocket_session.cc 483-542, websocket_async.cc 456-515). *)
PacketsAreFrames ==
  /\ \A i \in DOMAIN frames : Clean(i) =>
       /\ i <= Len(packets) <=> Arrived(i)
       /\ i <= Len(packets) => Carries(packets[i], frames[i])
  /\ Clean(Len(frames)) => Len(packets) <= Len(frames)

(* A reader loses its place only behind a truncated frame. *)
PlaceIsKept ==
  lost => \E i \in DOMAIN frames : Truncated(frames[i])

(* Whatever is delivered, and delivered again, is the body of a frame, and
   none of a frame that follows a refused one. *)
NothingPastRefused ==
  ~lost =>
    \A p \in DOMAIN packets : \E i \in DOMAIN frames :
      /\ packets[p].from = Payload(frames[i]).from
      /\ \A j \in 1..i : ~Refused(frames[j])

(* The reader keeps nothing but the frame it waits for, so that the buffer
   does not grow with the stream. *)
BufferIsOneFrame ==
  Clean(Len(frames)) => \A i \in DOMAIN frames : frames[i].at < start <=> Arrived(i)

(* A frame that has been written is delivered in the end, unless one before it
   is refused or truncated. *)
FramesArrive ==
  \A i \in 1..MaxFrames : (i <= Len(frames) /\ Clean(i)) ~> Len(packets) >= i

=============================================================================
