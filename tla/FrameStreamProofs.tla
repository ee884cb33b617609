-------------------------- MODULE FrameStreamProofs --------------------------
(***************************************************************************)
(* Proofs about the frames of a websocket connection, for bodies of any    *)
(* lengths and any number of frames, read in any pieces: the types, and    *)
(* the safety properties of FrameStream.                                   *)
(***************************************************************************)
EXTENDS FrameStream, TLAPS

-----------------------------------------------------------------------------
(* Reading undoes writing. *)

LEMMA ModSmall ==
  ASSUME NEW n \in Nat, NEW w \in Nat, n < w
  PROVE  n % w = n
OBVIOUS

LEMMA LengthSurvives ==
  ASSUME NEW f \in Frame
  PROVE  payload_length(f) = f.length /\ f.length \in Nat
<1>1. /\ f.length \in Nat /\ f.length \in 0..((Word * Word) \div 2 - 1)
      /\ ShortMax \in Nat /\ MediumMax \in Nat
  <2>1. f.length \in Lengths
    BY DEF Frame
  <2> DEFINE H == (Word * Word) \div 2 - 1
  <2>2. Lengths \subseteq 0..H /\ ShortMax \in Nat /\ MediumMax \in Nat
    BY FrameAssumption
  <2>3. H \in Int
    BY <2>2 DEF Word
  <2> HIDE DEF H
  <2>4. f.length \in 0..H
    BY <2>1, <2>2, Zenon
  <2>5. \A m \in 0..H : m \in Nat
    BY <2>3
  <2>6. f.length \in Nat
    BY <2>4, <2>5, Zenon
  <2> QED BY <2>2, <2>4, <2>6 DEF H
<1>2. Word \in Nat /\ Word = MediumMax + 1 /\ Word * Word \in Nat
  BY <1>1 DEF Word
<1>3. \A w \in Nat : w \div 2 <= w
  OBVIOUS
<1>4. f.length < Word * Word
  <2>1. (Word * Word) \div 2 <= Word * Word /\ (Word * Word) \div 2 \in Int
    BY <1>2, <1>3
  <2> DEFINE W == Word * Word
             H == W \div 2
  <2>2. W \in Nat /\ H \in Int /\ H <= W /\ f.length \in 0..(H - 1)
    BY <1>1, <1>2, <2>1
  <2> HIDE DEF W, H
  <2>3. f.length < W
    BY <2>2
  <2> QED BY <2>3 DEF W
<1>5. f.length % (Word * Word) = f.length
  BY <1>1, <1>2, <1>4, ModSmall
<1>6. f.length <= MediumMax => f.length % Word = f.length
  BY <1>1, <1>2, ModSmall
<1> QED BY <1>1, <1>5, <1>6 DEF payload_length

(* A frame is read with the header and the size it was written with. *)
LEMMA FrameFacts ==
  ASSUME NEW f \in Frame
  PROVE  /\ f.at \in Nat /\ f.written \in Nat /\ f.length \in Nat
         /\ HeaderSize(f.length) \in Nat /\ HeaderSize(f.length) >= 2
         /\ HeaderEnd(f) = HeaderSize(f.length) /\ LengthEnd(f) \in Nat
         /\ LengthEnd(f) <= HeaderEnd(f)
         /\ PacketSize(payload_length(f)) = HeaderSize(f.length) + f.length
<1>1. payload_length(f) = f.length /\ f.length \in Nat
  BY LengthSurvives
<1>2. ShortMax \in Nat /\ MediumMax \in Nat /\ f.at \in Nat /\ f.written \in Nat
  BY FrameAssumption DEF Frame
<1> QED BY <1>1, <1>2 DEF HeaderSize, HeaderEnd, LengthEnd, PacketSize

LEMMA CompleteFacts ==
  ASSUME NEW f \in Frame, NEW avail \in Int
  PROVE  /\ Complete(f, avail) <=> avail >= HeaderSize(f.length) + f.length
         /\ Throws(f, avail) <=> avail >= 2 /\ Refused(f)
BY FrameFacts, LengthSurvives DEF Complete, Throws, Refused

-----------------------------------------------------------------------------
(* The invariant. *)

(* Where the i-th frame starts; one past the last, where the next will. *)
At(i) == IF i = Len(frames) + 1 THEN end ELSE frames[i].at

(* The frames follow each other without gaps, and no byte is read before it
   is written. *)
Layout ==
  /\ \A i \in 1..Len(frames) :
       /\ 1 <= frames[i].written
       /\ frames[i].written <= HeaderSize(frames[i].length) + frames[i].length
       /\ NextAt(i) = At(i + 1)
       /\ NextAt(i) <= end
  /\ \A i, j \in 1..Len(frames) : i < j => NextAt(i) <= frames[j].at
  /\ read <= end

Good(i) == ~Refused(frames[i]) /\ ~Truncated(frames[i])

(* The frames from the f-th on lie before one that is refused, and has come. *)
Blocked(f) ==
  \E r \in f..Len(frames) :
    /\ Refused(frames[r]) /\ frames[r].at + 2 <= read
    /\ \A i \in f..(r - 1) : Good(i)

(* The reader is about to read the f-th frame. *)
Position(f) ==
  /\ start = At(f)
  /\ \A i \in 1..(f - 1) : Good(i) /\ Arrived(i)
  /\ Len(packets) = f - 1 \/ Blocked(f)

Placed == ~lost => \E f \in 1..(Len(frames) + 1) : Position(f)

IInv ==
  /\ TypeOK
  /\ Layout
  /\ Placed
  /\ PacketsAreFrames
  /\ PlaceIsKept
  /\ NothingPastRefused

-----------------------------------------------------------------------------
LEMMA InitInvariant == Init => IInv
<1> SUFFICES ASSUME Init PROVE IInv
  OBVIOUS
<1>1. frames = <<>> /\ Len(frames) = 0 /\ DOMAIN frames = {} /\ packets = <<>> /\ Len(packets) = 0
      /\ DOMAIN packets = {} /\ end = 0 /\ read = 0 /\ start = 0 /\ lost = FALSE
      /\ 1..Len(frames) = {}
  BY DEF Init
<1>2. TypeOK
  <2>1. frames \in Seq(Frame) /\ packets \in Seq(Packet)
    BY <1>1
  <2> QED BY <1>1, <2>1 DEF TypeOK
<1>3. Layout /\ PacketsAreFrames /\ PlaceIsKept /\ NothingPastRefused
  BY <1>1 DEF Layout, PacketsAreFrames, PlaceIsKept, NothingPastRefused
<1>4. Position(1)
  BY <1>1 DEF Position, At
<1>5. Placed
  BY <1>1, <1>4 DEF Placed
<1> QED BY <1>2, <1>3, <1>5 DEF IInv

(* What the invariant says of single frames. *)
LEMMA FrameOf ==
  ASSUME TypeOK, NEW i \in 1..Len(frames)
  PROVE  /\ frames[i] \in Frame
         /\ frames[i].at \in Nat /\ frames[i].written \in Nat /\ frames[i].length \in Nat
         /\ HeaderSize(frames[i].length) \in Nat
         /\ NextAt(i) \in Nat
<1>1. frames[i] \in Frame
  BY DEF TypeOK
<1> QED BY <1>1, FrameFacts DEF NextAt

-----------------------------------------------------------------------------
(* Writing. *)

LEMMA WriteStep ==
  ASSUME IInv, NEW op \in {"packet", "other"}, NEW n \in Lengths, NEW short \in Shortfalls,
         Write(op, n, short)
  PROVE  IInv'
<1>0. PICK L \in Nat : L = Len(frames)
  BY DEF IInv, TypeOK
<1> DEFINE size == HeaderSize(n) + n - short
           new == [at |-> end, opcode |-> op, length |-> n, written |-> size]
<1>1. /\ n \in Nat /\ short \in Nat /\ short < HeaderSize(n) + n
      /\ HeaderSize(n) \in Nat /\ size \in Nat /\ size >= 1 /\ size <= HeaderSize(n) + n
      /\ end \in Nat /\ read \in Nat /\ L \in Nat
  <2>1. \A m \in Lengths : m \in Nat
    BY FrameAssumption, Z3
  <2>2. \A s \in Shortfalls : s \in Nat
    BY FrameAssumption
  <2>3. ShortMax \in Nat /\ MediumMax \in Nat
    BY FrameAssumption
  <2> QED BY <2>1, <2>2, <2>3 DEF Write, IInv, TypeOK, HeaderSize
<1>2. /\ frames' = Append(frames, new) /\ end' = end + size
      /\ read' = read /\ start' = start /\ packets' = packets /\ lost' = lost
  BY DEF Write
<1>3. new \in Frame
  BY <1>1 DEF Frame
<1>4. /\ Len(frames') = L + 1 /\ frames'[L + 1] = new
      /\ \A i \in 1..L : frames'[i] = frames[i]
      /\ DOMAIN frames' = 1..(L + 1) /\ DOMAIN frames = 1..L
      /\ \A i \in 1..(L + 1) : i \in 1..L \/ i = L + 1
      /\ \A i \in 1..L : i \in 1..(L + 1)
  BY <1>0, <1>1, <1>2 DEF IInv, TypeOK
<1>5. TypeOK'
  BY <1>0, <1>1, <1>2, <1>3 DEF IInv, TypeOK
<1>5a. new.at = end /\ new.written = size /\ new.length = n
  OBVIOUS
<1> HIDE DEF size, new
<1>6. /\ \A i \in 1..L : /\ NextAt(i)' = NextAt(i) /\ Good(i)' = Good(i) /\ Arrived(i)' = Arrived(i)
                         /\ Clean(i)' = Clean(i)
      /\ NextAt(L + 1)' = end + size
  <2>1. \A i \in 1..L : NextAt(i)' = NextAt(i) /\ Good(i)' = Good(i)
    BY <1>2, <1>4 DEF NextAt, Good
  <2>2. \A i \in 1..L : Arrived(i)' = Arrived(i)
    BY <1>2, <2>1 DEF Arrived
  <2>3. \A i \in 1..L : Clean(i)' = Clean(i)
    <3> TAKE i \in 1..L
    <3>1. \A j \in 1..i : j \in 1..L
      BY <1>1, <1>0
    <3> QED BY <1>4, <3>1 DEF Clean
  <2>4. NextAt(L + 1)' = end + size
    BY <1>4, <1>5a DEF NextAt
  <2> QED BY <2>1, <2>2, <2>3, <2>4
<1>7. \A i \in 1..(L + 1) : At(i)' = At(i) /\ At(i)' = frames'[i].at
  <2> TAKE i \in 1..(L + 1)
  <2>1. i # Len(frames') + 1
    BY <1>1, <1>4, <1>0
  <2>2. At(i)' = frames'[i].at
    BY <2>1 DEF At
  <2>3. CASE i = L + 1
    BY <1>0, <1>4, <1>5a, <2>2, <2>3 DEF At
  <2>4. CASE i \in 1..L
    <3>1. i # Len(frames) + 1
      BY <1>1, <2>4, <1>0
    <3> QED BY <1>4, <2>2, <2>4, <3>1 DEF At
  <2> QED BY <1>4, <2>2, <2>3, <2>4
<1>8. Layout'
  <2>1. ASSUME NEW i \in 1..(L + 1)
        PROVE  /\ 1 <= frames'[i].written
               /\ frames'[i].written <= HeaderSize(frames'[i].length) + frames'[i].length
               /\ NextAt(i)' = At(i + 1)'
               /\ NextAt(i)' <= end'
    <3>1. CASE i = L + 1
      <4>1. At(i + 1)' = end'
        BY <1>4, <3>1 DEF At
      <4> QED BY <1>1, <1>2, <1>4, <1>6, <3>1, <4>1, <1>5a
    <3>2. CASE i \in 1..L
      <4>1. i + 1 \in 1..(L + 1)
        BY <1>1, <3>2, <1>0
      <4>2. NextAt(i) = At(i + 1) /\ NextAt(i) <= end /\ NextAt(i) \in Nat
        BY <3>2, FrameOf, <1>0 DEF IInv, Layout
      <4>3. NextAt(i)' = At(i + 1)' /\ NextAt(i)' <= end'
        BY <1>1, <1>2, <1>6, <1>7, <3>2, <4>1, <4>2
      <4> QED BY <1>4, <3>2, <4>3, <1>0 DEF IInv, Layout
    <3> QED BY <1>4, <3>1, <3>2
  <2>2. ASSUME NEW i \in 1..(L + 1), NEW j \in 1..(L + 1), i < j
        PROVE  NextAt(i)' <= frames'[j].at
    <3>1. i \in 1..L
      BY <1>1, <2>2, <1>0
    <3>2. CASE j = L + 1
      BY <1>0, <1>4, <1>5a, <1>6, <3>1, <3>2 DEF IInv, Layout
    <3>3. CASE j \in 1..L
      BY <1>4, <1>6, <2>2, <3>1, <3>3, <1>0 DEF IInv, Layout
    <3> QED BY <1>4, <3>2, <3>3
  <2>3. read' <= end'
    BY <1>1, <1>2 DEF IInv, Layout
  <2> QED BY <1>4, <2>1, <2>2, <2>3, Zenon DEF Layout
<1>9. Placed'
  <2> SUFFICES ASSUME ~lost PROVE \E f \in 1..(Len(frames') + 1) : Position(f)'
    BY <1>2 DEF Placed
  <2>1. PICK f \in 1..(L + 1) : Position(f)
    BY <1>0 DEF IInv, Placed
  <2>2. f \in 1..(Len(frames') + 1) /\ \A i \in 1..(f - 1) : i \in 1..L
    BY <1>1, <1>4, <1>0
  <2>3. start' = At(f)' /\ \A i \in 1..(f - 1) : Good(i)' /\ Arrived(i)'
    BY <1>2, <1>6, <1>7, <2>1, <2>2 DEF Position
  <2>4. ASSUME Blocked(f) PROVE Blocked(f)'
    <3>1. PICK r \in f..L : /\ Refused(frames[r]) /\ frames[r].at + 2 <= read
                            /\ \A i \in f..(r - 1) : Good(i)
      BY <2>4, <1>0 DEF Blocked
    <3>2. r \in 1..L /\ r \in f..Len(frames') /\ \A i \in f..(r - 1) : i \in 1..L
      BY <1>1, <1>4, <2>2, <1>0
    <3>3. \A i \in f..(r - 1) : Good(i)'
      BY <1>6, <3>1, <3>2
    <3>4. Refused(frames'[r]) /\ frames'[r].at + 2 <= read'
      BY <1>2, <1>4, <3>1, <3>2
    <3> QED BY <3>2, <3>3, <3>4, Zenon DEF Blocked
  <2>5. Len(packets') = f - 1 \/ Blocked(f)'
    BY <1>2, <2>1, <2>4 DEF Position
  <2>6. Position(f)'
    BY <2>3, <2>5, Zenon DEF Position
  <2> QED BY <2>2, <2>6
<1>10. PacketsAreFrames'
  <2>1. Clean(L + 1)' => Clean(L)
    <3>1. \A j \in 1..L : j \in 1..(L + 1)
      BY <1>4
    <3> QED BY <1>4, <3>1, Zenon DEF Clean
  <2>2. Clean(L) => Len(packets) <= L
    BY <1>0 DEF IInv, PacketsAreFrames
  <2>3. ASSUME NEW i \in 1..(L + 1), Clean(i)'
        PROVE  /\ i <= Len(packets') <=> Arrived(i)'
               /\ i <= Len(packets') => Carries(packets'[i], frames'[i])
    <3>1. CASE i = L + 1
      <4>1. ~Arrived(i)'
        BY <1>1, <1>2, <1>6, <3>1 DEF Arrived, IInv, Layout
      <4>2. Len(packets') <= L /\ Len(packets') \in Nat
        BY <1>2, <2>1, <2>2, <2>3, <3>1 DEF IInv, TypeOK
      <4> QED BY <1>1, <3>1, <4>1, <4>2
    <3>2. CASE i \in 1..L
      <4>1. Clean(i) /\ i \in DOMAIN frames
        BY <1>4, <1>6, <2>3, <3>2
      <4>2. /\ i <= Len(packets) <=> Arrived(i)
            /\ i <= Len(packets) => Carries(packets[i], frames[i])
        BY <4>1 DEF IInv, PacketsAreFrames
      <4> QED BY <1>2, <1>4, <1>6, <3>2, <4>2
    <3> QED BY <1>4, <3>1, <3>2
  <2>4. Clean(L + 1)' => Len(packets') <= L + 1
    BY <1>1, <1>2, <2>1, <2>2 DEF IInv, TypeOK
  <2> QED BY <1>4, <2>3, <2>4, Zenon DEF PacketsAreFrames
<1>11. PlaceIsKept'
  <2> SUFFICES ASSUME lost PROVE \E i \in DOMAIN frames' : Truncated(frames'[i])
    BY <1>2 DEF PlaceIsKept
  <2>1. PICK i \in 1..L : Truncated(frames[i])
    BY <1>4 DEF IInv, PlaceIsKept
  <2> QED BY <1>4, <2>1
<1>12. NothingPastRefused'
  <2> SUFFICES ASSUME ~lost, NEW p \in DOMAIN packets
               PROVE  \E i \in DOMAIN frames' :
                        /\ packets[p].from = Payload(frames'[i]).from
                        /\ \A j \in 1..i : ~Refused(frames'[j])
    BY <1>2 DEF NothingPastRefused
  <2>1. PICK i \in 1..L : /\ packets[p].from = Payload(frames[i]).from
                          /\ \A j \in 1..i : ~Refused(frames[j])
    BY <1>4 DEF IInv, NothingPastRefused
  <2>2. \A j \in 1..i : j \in 1..L
    BY <1>1, <1>0
  <2> QED BY <1>4, <2>1, <2>2
<1> QED BY <1>5, <1>8, <1>9, <1>10, <1>11, <1>12 DEF IInv

-----------------------------------------------------------------------------
(* Reading. *)

(* What two frames, and the frames and the place, are to each other. *)
LEMMA Order ==
  ASSUME TypeOK, Layout, NEW i \in 1..Len(frames), NEW j \in 1..Len(frames)
  PROVE  /\ frames[i].at < NextAt(i) /\ NextAt(i) <= end
         /\ i < j => frames[i].at < frames[j].at
         /\ i <= j => NextAt(i) <= NextAt(j)
         /\ NextAt(i) <= NextSeen(i)
         /\ NextSeen(i) = frames[i].at + HeaderSize(frames[i].length) + frames[i].length
         /\ Truncated(frames[i]) <=> NextAt(i) # NextSeen(i)
         /\ NextSeen(i) \in Nat
<1>1. /\ frames[i].at \in Nat /\ frames[i].written \in Nat /\ NextAt(i) \in Nat
      /\ frames[i].length \in Nat /\ HeaderSize(frames[i].length) \in Nat
      /\ frames[j].at \in Nat /\ frames[j].written \in Nat /\ NextAt(j) \in Nat
      /\ end \in Nat
  BY FrameOf DEF TypeOK
<1>2. /\ 1 <= frames[i].written /\ 1 <= frames[j].written
      /\ frames[i].written <= HeaderSize(frames[i].length) + frames[i].length
      /\ NextAt(i) <= end
      /\ i < j => NextAt(i) <= frames[j].at
  BY DEF Layout
<1>3. PacketSize(payload_length(frames[i])) = HeaderSize(frames[i].length) + frames[i].length
  BY FrameOf, FrameFacts
<1>4. NextSeen(i) = frames[i].at + HeaderSize(frames[i].length) + frames[i].length
  BY <1>1, <1>3 DEF NextSeen
<1>5. frames[i].at < NextAt(i) /\ frames[j].at < NextAt(j)
  <2>1. NextAt(i) = frames[i].at + frames[i].written /\ NextAt(j) = frames[j].at + frames[j].written
    BY DEF NextAt
  <2>2. \A a, w \in Nat : 1 <= w => a < a + w
    OBVIOUS
  <2> QED BY <1>1, <1>2, <2>1, <2>2, Zenon
<1> DEFINE size == HeaderSize(frames[i].length) + frames[i].length
           at == frames[i].at
           written == frames[i].written
<1>a. /\ size \in Nat /\ at \in Nat /\ written \in Nat /\ written <= size
      /\ NextAt(i) = at + written /\ NextSeen(i) = at + size
      /\ Truncated(frames[i]) <=> written < size
  <2>1. NextSeen(i) = at + size
    BY <1>1, <1>4
  <2> QED BY <1>1, <1>2, <2>1 DEF NextAt, Truncated
<1> HIDE DEF size, at, written
<1>6. NextAt(i) <= NextSeen(i) /\ NextSeen(i) \in Nat
  BY <1>a
<1>7. i <= j => NextAt(i) <= NextAt(j)
  BY <1>1, <1>2, <1>5
<1>8. Truncated(frames[i]) <=> NextAt(i) # NextSeen(i)
  BY <1>a
<1> QED BY <1>1, <1>2, <1>4, <1>5, <1>6, <1>7, <1>8

(* The reader looks for its next frame in one place. *)
LEMMA PlaceUnique ==
  ASSUME TypeOK, Layout, NEW f \in 1..(Len(frames) + 1), NEW first \in 1..Len(frames),
         At(f) = frames[first].at
  PROVE  f = first
<1>0. PICK L \in Nat : L = Len(frames)
  BY DEF TypeOK
<1>1. frames[first].at \in Int /\ end \in Int /\ frames[first].at < end
  BY Order, FrameOf DEF TypeOK
<1>2. f # L + 1
  BY <1>0, <1>1 DEF At
<1>3. f \in 1..Len(frames)
  BY <1>0, <1>2
<1>4. frames[f].at = frames[first].at /\ frames[f].at \in Int
  BY <1>0, <1>2, <1>3, FrameOf DEF At
<1>5. ~(f < first) /\ ~(first < f)
  BY <1>1, <1>3, <1>4, Order
<1> QED BY <1>0, <1>3, <1>5

(* A frame that is taken is not refused; all that was written of it has come;
   and it is the body of that frame that is given away. *)
LEMMA TakenFrame ==
  ASSUME TypeOK, Layout, NEW i \in 1..Len(frames), NEW stop \in Nat,
         ~Throws(frames[i], stop - frames[i].at), Complete(frames[i], stop - frames[i].at)
  PROVE  /\ ~Refused(frames[i])
         /\ NextAt(i) <= stop
         /\ Body(frames[i], stop) \in Packet
         /\ Carries(Body(frames[i], stop), frames[i])
<1>1. /\ frames[i] \in Frame /\ frames[i].at \in Nat /\ frames[i].length \in Nat
      /\ HeaderSize(frames[i].length) \in Nat /\ HeaderSize(frames[i].length) >= 2
      /\ HeaderEnd(frames[i]) = HeaderSize(frames[i].length)
      /\ payload_length(frames[i]) = frames[i].length
      /\ NextAt(i) \in Nat /\ NextSeen(i) \in Nat
  BY FrameOf, FrameFacts, LengthSurvives, Order
<1>2. stop - frames[i].at \in Int
  BY <1>1
<1>3. stop - frames[i].at >= HeaderSize(frames[i].length) + frames[i].length
  BY <1>1, <1>2, CompleteFacts
<1>4. ~Refused(frames[i])
  BY <1>1, <1>2, <1>3, CompleteFacts
<1>5. NextAt(i) <= stop
  BY <1>1, <1>3, Order
<1> DEFINE from == frames[i].at + HeaderSize(frames[i].length)
<1>6. from \in Nat /\ from + frames[i].length \in Nat /\ from + frames[i].length <= stop
  <2> DEFINE a == frames[i].at
             h == HeaderSize(frames[i].length)
             l == frames[i].length
  <2>1. a \in Nat /\ h \in Nat /\ l \in Nat /\ stop - a >= h + l
    BY <1>1, <1>3
  <2> HIDE DEF a, h, l
  <2>2. a + h \in Nat /\ a + h + l \in Nat /\ a + h + l <= stop
    BY <2>1
  <2> QED BY <2>2 DEF a, h, l
<1>7. Masked \in BOOLEAN
  BY FrameAssumption
<1>8. Body(frames[i], stop) =
        [from |-> from, to |-> IF Masked THEN stop ELSE from + frames[i].length]
  BY <1>1 DEF Body
<1>9. Body(frames[i], stop) \in Packet
  BY <1>6, <1>7, <1>8, <1>1 DEF Packet
<1>10. Carries(Body(frames[i], stop), frames[i])
  BY <1>6, <1>7, <1>8, <1>1 DEF Carries, Payload
<1> QED BY <1>4, <1>5, <1>9, <1>10

(* What is appended to the packets. *)
LEMMA Appended ==
  ASSUME NEW a \in Nat, NEW b \in Nat, a >= 1, b >= a - 1, NEW stop \in Nat,
         \A i \in a..b : Body(frames[i], stop) \in Packet, packets \in Seq(Packet)
  PROVE  /\ (packets \o Bodies(a, b, stop)) \in Seq(Packet)
         /\ Len(packets \o Bodies(a, b, stop)) = Len(packets) + (b - a + 1)
         /\ \A p \in 1..Len(packets) : (packets \o Bodies(a, b, stop))[p] = packets[p]
         /\ \A i \in a..b :
              (packets \o Bodies(a, b, stop))[Len(packets) + (i - a + 1)] = Body(frames[i], stop)
<1> DEFINE B == Bodies(a, b, stop)
           new == packets \o B
<1>1. PICK m \in Nat : m = b - a + 1
  OBVIOUS
<1>2. B = [k \in 1..m |-> Body(frames[a + k - 1], stop)]
  BY <1>1 DEF Bodies
<1>3. \A k \in 1..m : a + k - 1 \in a..b
  BY <1>1
<1>4. \A k \in 1..m : Body(frames[a + k - 1], stop) \in Packet
  BY <1>3
<1>5. B \in Seq(Packet) /\ Len(B) = m
  BY <1>2, <1>4
<1>6. \A i \in a..b : i - a + 1 \in 1..m /\ B[i - a + 1] = Body(frames[i], stop)
  <2> TAKE i \in a..b
  <2>1. i - a + 1 \in 1..m /\ a + (i - a + 1) - 1 = i
    BY <1>1
  <2> HIDE DEF B
  <2> QED BY <1>2, <2>1
<1>7. Len(packets) \in Nat /\ packets \in Seq(Packet)
  OBVIOUS
<1> HIDE DEF B
<1>8. new \in Seq(Packet) /\ Len(new) = Len(packets) + m
  <2>1. packets \o B \in Seq(Packet)
    BY <1>5, <1>7
  <2>2. Len(packets \o B) = Len(packets) + Len(B)
    BY <1>5, <1>7
  <2> QED BY <1>5, <2>1, <2>2
<1>9. \A p \in 1..Len(packets) : new[p] = packets[p]
  BY <1>5, <1>7
<1>10. \A k \in 1..m : new[Len(packets) + k] = B[k]
  BY <1>1, <1>5, <1>7
<1> QED BY <1>1, <1>6, <1>8, <1>9, <1>10 DEF B

LEMMA ReadStep ==
  ASSUME IInv, NEW n \in 1..ReadMax, NEW first \in 1..Len(frames),
         NEW last \in (first - 1)..Len(frames), receivePacket(n, first, last)
  PROVE  IInv'
<1>0. PICK L \in Nat : L = Len(frames)
  BY DEF IInv, TypeOK
<1>1. PICK stop \in Nat : stop = read + n
  BY FrameAssumption DEF IInv, TypeOK
<1>2. /\ TypeOK /\ Layout
      /\ first \in Nat /\ 1 <= first /\ first <= L /\ last \in Nat /\ first - 1 <= last /\ last <= L
      /\ n \in Nat /\ read \in Nat /\ read < stop /\ end \in Nat
  BY <1>0, <1>1, FrameAssumption DEF IInv, TypeOK
<1>3. /\ ~lost /\ stop <= end /\ read' = stop /\ frames' = frames /\ end' = end
      /\ frames[first].at = start
      /\ Taken(first, last, stop)
      /\ packets' = packets \o Bodies(first, last, stop)
      /\ lost' = Loses(first, last, stop)
  BY <1>1 DEF receivePacket
<1>4. \A i \in first..(last - 1) : NextAt(i) = NextSeen(i)
  BY DEF receivePacket
<1>5. \/ Loses(first, last, stop) /\ start' = start
      \/ /\ ~Loses(first, last, stop) /\ Ends(last, stop)
         /\ start' = IF first <= last THEN NextSeen(last) ELSE start
      \/ /\ ~Loses(first, last, stop) /\ Stops(last, stop)
         /\ start' = start
  BY <1>1 DEF receivePacket
<1>22. ~Loses(first, last, stop) => (first <= last => NextAt(last) = NextSeen(last))
  BY DEF Loses
\* A reader is lost only behind, or in, a truncated frame.
<1>23. Loses(first, last, stop) =>
         \/ first <= last /\ NextAt(last) # NextSeen(last)
         \/ last + 1 \in 1..L /\ Truncated(frames[last + 1])
  <2> SUFFICES ASSUME More(last, stop), HeaderCut(frames[last + 1], stop - frames[last + 1].at)
               PROVE  last + 1 \in 1..L /\ Truncated(frames[last + 1])
    BY DEF Loses
  <2>1. last + 1 \in 1..L
    BY <1>0, <1>2 DEF More
  <2>2. frames[last + 1] \in Frame
    BY <1>0, <1>2, <2>1, FrameOf
  <2> DEFINE f == frames[last + 1]
  <2>3. f.written < HeaderEnd(f) /\ HeaderEnd(f) = HeaderSize(f.length)
    BY <2>2, FrameFacts DEF HeaderCut
  <2>4. f.written \in Nat /\ f.length \in Nat /\ HeaderSize(f.length) \in Nat
    BY <2>2, FrameFacts
  <2> HIDE DEF f
  <2>5. Truncated(f)
    BY <2>3, <2>4 DEF Truncated
  <2> QED BY <2>1, <2>5 DEF f
\* The frames are the same, and more has arrived.
<1>6. \A i \in 1..L : /\ NextAt(i)' = NextAt(i) /\ Good(i)' = Good(i) /\ Clean(i)' = Clean(i)
                      /\ NextAt(i) \in Nat
                      /\ Arrived(i) <=> NextAt(i) <= read
                      /\ Arrived(i)' <=> NextAt(i) <= stop
                      /\ Arrived(i) => Arrived(i)'
  <2> TAKE i \in 1..L
  <2>1. NextAt(i)' = NextAt(i) /\ Good(i)' = Good(i) /\ Clean(i)' = Clean(i)
    BY <1>3 DEF NextAt, Good, Clean
  <2>2. NextAt(i) \in Nat
    BY <1>0, <1>2, FrameOf
  <2>3. /\ Arrived(i) <=> NextAt(i) <= read
        /\ Arrived(i)' <=> NextAt(i) <= stop
    BY <1>3, <2>1 DEF Arrived
  <2> QED BY <1>2, <2>1, <2>2, <2>3
<1>7. /\ Len(frames') = L /\ DOMAIN frames = 1..L /\ DOMAIN frames' = 1..L
      /\ \A i : At(i)' = At(i)
  BY <1>0, <1>3 DEF IInv, TypeOK, At
\* What is taken.
<1>8. \A i \in first..last :
        /\ i \in 1..L
        /\ ~Refused(frames[i])
        /\ NextAt(i) <= stop
        /\ Body(frames[i], stop) \in Packet
        /\ Carries(Body(frames[i], stop), frames[i])
  <2> TAKE i \in first..last
  <2>1. i \in 1..L
    BY <1>2
  <2>2. ~Throws(frames[i], stop - frames[i].at) /\ Complete(frames[i], stop - frames[i].at)
    BY <1>3 DEF Taken
  <2> QED BY <1>0, <1>2, <2>1, <2>2, TakenFrame
<1>9. \A i \in first..last : i < last \/ NextAt(last) = NextSeen(last) => Good(i)
  <2> TAKE i \in first..last
  <2>1. SUFFICES ASSUME i < last \/ NextAt(last) = NextSeen(last) PROVE Good(i)
    OBVIOUS
  <2>2. i \in first..(last - 1) \/ i = last
    BY <1>2
  <2>3. NextAt(i) = NextSeen(i)
    BY <1>2, <1>4, <2>1, <2>2
  <2>4. ~Truncated(frames[i])
    BY <1>0, <1>2, <1>8, <2>3, Order
  <2> QED BY <1>8, <2>4 DEF Good
<1>10. /\ packets' \in Seq(Packet) /\ Len(packets) \in Nat
       /\ Len(packets') = Len(packets) + (last - first + 1)
       /\ \A p \in 1..Len(packets) : packets'[p] = packets[p]
       /\ \A i \in first..last : packets'[Len(packets) + (i - first + 1)] = Body(frames[i], stop)
  <2>1. packets \in Seq(Packet) /\ Len(packets) \in Nat
    BY DEF IInv, TypeOK
  <2>2. \A i \in first..last : Body(frames[i], stop) \in Packet
    BY <1>8
  <2>3. last >= first - 1 /\ first >= 1 /\ first \in Nat /\ last \in Nat
    BY <1>2
  <2>4. packets' = packets \o Bodies(first, last, stop)
    BY <1>3
  <2> DEFINE B == Bodies(first, last, stop)
  <2>5. /\ (packets \o B) \in Seq(Packet)
        /\ Len(packets \o B) = Len(packets) + (last - first + 1)
        /\ \A p \in 1..Len(packets) : (packets \o B)[p] = packets[p]
        /\ \A i \in first..last :
             (packets \o B)[Len(packets) + (i - first + 1)] = Body(frames[i], stop)
    BY <2>1, <2>2, <2>3, Appended
  <2> HIDE DEF B
  <2> QED BY <2>1, <2>4, <2>5, Zenon DEF B
<1>21. DOMAIN packets = 1..Len(packets) /\ DOMAIN packets' = 1..Len(packets')
  BY <1>10 DEF IInv, TypeOK
\* Where the reader is.
<1>11. Position(first)
  <2>1. PICK f \in 1..(Len(frames) + 1) : Position(f)
    BY <1>3 DEF IInv, Placed
  <2>2. f = first
    BY <1>2, <1>3, <2>1, PlaceUnique DEF Position
  <2> QED BY <2>1, <2>2
<1>12. \A i \in 1..(first - 1) : i \in 1..L /\ Good(i) /\ Arrived(i)
  BY <1>2, <1>11 DEF Position
<1>13. Len(packets) = first - 1 \/ Blocked(first)
  BY <1>11 DEF Position
<1>14. TypeOK'
  <2>1. start' \in Nat
    <3>1. first <= last => NextSeen(last) \in Nat
      BY <1>0, <1>2, Order
    <3>2. start \in Nat
      BY DEF IInv, TypeOK
    <3> QED BY <1>5, <3>1, <3>2
  <2>2. lost' \in BOOLEAN
    BY <1>3 DEF Loses
  <2> QED BY <1>2, <1>3, <1>10, <2>1, <2>2 DEF TypeOK
<1>15. Layout'
  <2>1. read' <= end'
    BY <1>3
  <2>2. \A i \in 1..L : NextAt(i)' = NextAt(i) /\ At(i + 1)' = At(i + 1)
    BY <1>6, <1>7
  <2> QED BY <1>0, <1>2, <1>3, <1>7, <2>1, <2>2 DEF Layout
<1>16. PlaceIsKept'
  <2> SUFFICES ASSUME lost' PROVE \E i \in 1..L : Truncated(frames[i])
    BY <1>3, <1>7 DEF PlaceIsKept
  <2>1. CASE first <= last /\ NextAt(last) # NextSeen(last)
    BY <1>0, <1>2, <2>1, Order
  <2>2. CASE last + 1 \in 1..L /\ Truncated(frames[last + 1])
    BY <2>2
  <2> QED BY <1>3, <1>23, <2>1, <2>2
\* Only packets of frames that are not refused, nor behind one that is.
<1>17. NothingPastRefused'
  <2> SUFFICES ASSUME NEW p \in 1..Len(packets')
               PROVE  \E i \in 1..L : /\ packets'[p].from = Payload(frames[i]).from
                                      /\ \A j \in 1..i : ~Refused(frames[j])
    BY <1>3, <1>7, <1>21 DEF NothingPastRefused
  <2>1. CASE p \in 1..Len(packets)
    <3>1. PICK i \in 1..L : /\ packets[p].from = Payload(frames[i]).from
                            /\ \A j \in 1..i : ~Refused(frames[j])
      BY <1>3, <1>7, <1>21, <2>1 DEF IInv, NothingPastRefused
    <3> QED BY <1>10, <2>1, <3>1
  <2>2. CASE p \notin 1..Len(packets)
    <3>1. PICK i \in first..last : p = Len(packets) + (i - first + 1)
      <4>1. p - Len(packets) + first - 1 \in first..last
        BY <1>2, <1>10, <2>2
      <4>2. p = Len(packets) + ((p - Len(packets) + first - 1) - first + 1)
        BY <1>2, <1>10
      <4> QED BY <4>1, <4>2
    <3>2. packets'[p].from = Payload(frames[i]).from
      BY <1>8, <1>10, <3>1 DEF Carries
    <3>3. \A j \in 1..i : j \in 1..(first - 1) \/ j \in first..last
      BY <1>2
    <3>4. \A j \in 1..i : ~Refused(frames[j])
      BY <1>8, <1>12, <3>3 DEF Good
    <3> QED BY <1>8, <3>2, <3>4
  <2> QED BY <2>1, <2>2
\* What the frames up to the last taken are, if none is truncated.
<1>18. ASSUME first <= last => NextAt(last) = NextSeen(last)
       PROVE  \A i \in 1..last : i \in 1..L /\ Good(i) /\ Arrived(i)'
  <2> TAKE i \in 1..last
  <2>1. i \in 1..L /\ (i \in 1..(first - 1) \/ i \in first..last)
    BY <1>2
  <2>2. CASE i \in 1..(first - 1)
    BY <1>6, <1>12, <2>1, <2>2
  <2>3. CASE i \in first..last
    <3>1. first <= last
      BY <1>2, <2>3
    <3> QED BY <1>6, <1>8, <1>9, <1>18, <2>1, <2>3, <3>1
  <2> QED BY <2>1, <2>2, <2>3
<1>19. Placed'
  <2> SUFFICES ASSUME ~lost' PROVE \E f \in 1..(L + 1) : Position(f)'
    BY <1>7 DEF Placed
  <2>1. first <= last => NextAt(last) = NextSeen(last)
    BY <1>3, <1>22
  <2>2. CASE Ends(last, stop) /\ start' = IF first <= last THEN NextSeen(last) ELSE start
    <3>1. start' = At(last + 1)'
      <4>1. CASE first <= last
        <5>1. last \in 1..Len(frames)
          BY <1>0, <1>2, <4>1
        <5>2. NextAt(last) = At(last + 1)
          BY <1>2, <5>1 DEF Layout
        <5> QED BY <1>7, <2>1, <2>2, <4>1, <5>2
      <4>2. CASE ~(first <= last)
        <5>1. last + 1 = first
          BY <1>2, <4>2
        <5> QED BY <1>7, <1>11, <2>2, <4>2, <5>1 DEF Position
      <4> QED BY <4>1, <4>2
    <3>2. \A i \in 1..((last + 1) - 1) : Good(i)' /\ Arrived(i)'
      <4>1. (last + 1) - 1 = last
        BY <1>2
      <4> QED BY <1>6, <1>18, <2>1, <4>1
    <3>3. Len(packets') = (last + 1) - 1 \/ Blocked(last + 1)'
      <4>1. CASE Len(packets) = first - 1
        BY <1>2, <1>10, <4>1
      <4>2. CASE Blocked(first)
        <5>1. PICK r \in first..L : /\ Refused(frames[r]) /\ frames[r].at + 2 <= read
                                    /\ \A i \in first..(r - 1) : Good(i)
          BY <1>0, <4>2 DEF Blocked
        <5>2. r \in 1..L /\ r \notin first..last
          BY <1>2, <1>8, <5>1
        <5>3. r \in (last + 1)..L /\ \A i \in (last + 1)..(r - 1) : i \in first..(r - 1) /\ i \in 1..L
          BY <1>2, <5>2
        <5>4. frames[r].at \in Nat /\ frames[r].at + 2 <= stop
          BY <1>0, <1>2, <5>1, <5>2, FrameOf
        <5>5. \A i \in (last + 1)..(r - 1) : Good(i)'
          BY <1>6, <5>1, <5>3
        <5>6. r \in (last + 1)..Len(frames') /\ Refused(frames'[r]) /\ frames'[r].at + 2 <= read'
          BY <1>3, <1>7, <5>1, <5>3, <5>4
        <5>7. Blocked(last + 1)'
          BY <5>5, <5>6, Zenon DEF Blocked
        <5> QED BY <5>7
      <4> QED BY <1>13, <4>1, <4>2
    <3>4. Position(last + 1)'
      BY <3>1, <3>2, <3>3, Zenon DEF Position
    <3>5. last + 1 \in 1..(L + 1)
      BY <1>2
    <3> QED BY <3>4, <3>5
  <2>3. CASE Stops(last, stop) /\ start' = start
    <3>1. start' = At(first)'
      BY <1>7, <1>11, <2>3 DEF Position
    <3>2. \A i \in 1..(first - 1) : Good(i)' /\ Arrived(i)'
      BY <1>6, <1>12
    <3>3. /\ last + 1 \in 1..L /\ last + 1 \in first..L
          /\ Refused(frames[last + 1]) /\ frames[last + 1].at + 2 <= stop
      <4>1. last + 1 \in 1..L /\ Throws(frames[last + 1], stop - frames[last + 1].at)
        BY <1>0, <1>2, <2>3 DEF Stops, More
      <4>2. frames[last + 1] \in Frame /\ frames[last + 1].at \in Nat
        BY <1>0, <1>2, <4>1, FrameOf
      <4>3. Refused(frames[last + 1]) /\ stop - frames[last + 1].at >= 2
        BY <4>1, <4>2, CompleteFacts
      <4> QED BY <1>2, <4>1, <4>2, <4>3
    <3>4. \A i \in first..((last + 1) - 1) : Good(i)'
      <4>1. \A i \in first..((last + 1) - 1) : i \in 1..last
        BY <1>2
      <4> QED BY <1>6, <1>18, <2>1, <4>1
    <3>5. last + 1 \in first..Len(frames') /\ Refused(frames'[last + 1])
          /\ frames'[last + 1].at + 2 <= read'
      BY <1>3, <1>7, <3>3
    <3>6. Blocked(first)'
      BY <3>4, <3>5, Zenon DEF Blocked
    <3>7. Position(first)'
      BY <3>1, <3>2, <3>6, Zenon DEF Position
    <3> QED BY <1>2, <3>7
  <2> QED BY <1>3, <1>5, <2>2, <2>3
<1>20. PacketsAreFrames'
  <2>1. \A i \in 1..L : Clean(i) =>
          /\ i <= Len(packets) <=> Arrived(i)
          /\ i <= Len(packets) => Carries(packets[i], frames[i])
    BY <1>7 DEF IInv, PacketsAreFrames
  \* A clean frame that lies before a refused one was delivered before.
  <2>2. CASE Blocked(first)
    <3>1. PICK r \in first..L : /\ Refused(frames[r]) /\ frames[r].at + 2 <= read
      BY <1>0, <2>2 DEF Blocked
    <3>2. r \in 1..L /\ frames[r].at \in Nat
      BY <1>0, <1>2, FrameOf
    <3>3. \A i \in 1..L : Clean(i) => i < r
      BY <3>1, <3>2 DEF Clean
    <3>4. \A i \in 1..L : Clean(i) => Arrived(i)
      <4> SUFFICES ASSUME NEW i \in 1..L, Clean(i) PROVE Arrived(i)
        OBVIOUS
      <4>1. NextAt(i) <= frames[r].at
        BY <1>0, <1>2, <3>2, <3>3 DEF Layout
      <4> QED BY <1>2, <1>6, <3>1, <3>2, <4>1
    <3>5. ~Clean(L)
      BY <3>2, <3>3
    <3>6. \A i \in 1..L : Clean(i) =>
            /\ i \in 1..Len(packets) /\ i <= Len(packets')
            /\ packets'[i] = packets[i]
            /\ Carries(packets[i], frames[i])
            /\ Arrived(i)'
      <4> SUFFICES ASSUME NEW i \in 1..L, Clean(i)
                   PROVE  /\ i \in 1..Len(packets) /\ i <= Len(packets')
                          /\ packets'[i] = packets[i]
                          /\ Carries(packets[i], frames[i])
                          /\ Arrived(i)'
        OBVIOUS
      <4>1. i <= Len(packets) /\ Carries(packets[i], frames[i])
        BY <2>1, <3>4
      <4>2. i \in 1..Len(packets) /\ i <= Len(packets')
        BY <1>2, <1>10, <4>1
      <4>3. Arrived(i)'
        BY <1>6, <3>4
      <4> QED BY <1>10, <4>1, <4>2, <4>3
    <3>7. \A i \in 1..L : Clean(i)' =>
            /\ i <= Len(packets') <=> Arrived(i)'
            /\ i <= Len(packets') => Carries(packets'[i], frames'[i])
      BY <1>3, <1>6, <3>6
    <3>8. ~Clean(Len(frames))'
      BY <1>0, <1>3, <3>5 DEF Clean
    <3> QED BY <1>7, <3>7, <3>8 DEF PacketsAreFrames
  \* Otherwise the i-th packet is the body of the i-th frame, up to the last.
  <2>3. CASE Len(packets) = first - 1
    <3>1. Len(packets') = last
      BY <1>2, <1>10, <2>3
    <3>2. ASSUME NEW i \in 1..L, Clean(i), i <= last
          PROVE  Arrived(i)' /\ Carries(packets'[i], frames[i])
      <4>1. CASE i < first
        <5>1. i \in 1..Len(packets) /\ i \in 1..(first - 1)
          BY <1>2, <1>10, <2>3, <4>1
        <5>2. Carries(packets[i], frames[i]) /\ Arrived(i)
          BY <1>10, <1>12, <2>1, <3>2, <5>1
        <5> QED BY <1>6, <1>10, <5>1, <5>2
      <4>2. CASE ~(i < first)
        <5>1. i \in first..last /\ Len(packets) + (i - first + 1) = i
          BY <1>2, <2>3, <3>2, <4>2
        <5>2. packets'[i] = Body(frames[i], stop)
          BY <1>10, <5>1
        <5> QED BY <1>6, <1>8, <5>1, <5>2
      <4> QED BY <4>1, <4>2
    <3>3. ASSUME NEW i \in 1..L, Clean(i), last < i
          PROVE  ~Arrived(i)'
      <4>1. /\ last + 1 \in 1..L /\ last + 1 \in 1..i
            /\ first <= last => last \in 1..i /\ last \in 1..L
        BY <1>2, <3>3
      <4>2. ~Refused(frames[last + 1]) /\ ~Truncated(frames[last + 1])
        BY <3>3, <4>1 DEF Clean
      <4>3. first <= last => NextAt(last) = NextSeen(last)
        BY <1>0, <1>2, <3>3, <4>1, Order DEF Clean
      <4> DEFINE f == frames[last + 1]
                 size == HeaderSize(f.length) + f.length
      <4>4. /\ f \in Frame /\ f.at \in Nat /\ size \in Nat
            /\ NextAt(last + 1) = f.at + size
            /\ NextAt(last + 1) <= NextAt(i)
            /\ f.at < NextAt(last + 1)
        <5>1. f \in Frame /\ f.at \in Nat /\ size \in Nat
          BY <1>0, <1>2, <4>1, FrameOf
        <5>2. /\ NextAt(last + 1) = NextSeen(last + 1)
              /\ NextAt(last + 1) <= NextAt(i)
              /\ f.at < NextAt(last + 1)
          BY <1>0, <1>2, <3>3, <4>1, <4>2, Order
        <5>3. NextSeen(last + 1) = f.at + HeaderSize(f.length) + f.length
          BY <1>0, <1>2, <4>1, Order
        <5>4. HeaderSize(f.length) \in Nat /\ f.length \in Nat
          BY <5>1, FrameFacts
        <5> QED BY <5>1, <5>2, <5>3, <5>4
      <4>5. ~Throws(f, stop - f.at)
        BY <1>2, <4>2, <4>4, CompleteFacts
      <4>6. Ends(last, stop)
        <5>1. ~Loses(first, last, stop)
          BY <1>23, <4>2, <4>3
        <5> QED BY <1>5, <4>5, <5>1 DEF Stops
      <4>7. More(last, stop) => ~(stop - f.at >= size)
        BY <1>2, <4>4, <4>6, CompleteFacts DEF Ends
      <4>8. ~More(last, stop) => stop <= f.at
        BY <1>0, <1>2, <4>1, <4>4 DEF More
      <4> HIDE DEF f, size
      <4>9. stop < NextAt(last + 1)
        BY <1>2, <4>4, <4>7, <4>8
      <4>10. NextAt(last + 1) \in Nat /\ NextAt(i) \in Nat
        BY <1>6, <4>1
      <4>11. stop < NextAt(i)
        BY <1>2, <4>4, <4>9, <4>10
      <4> QED BY <1>2, <1>6, <4>10, <4>11
    <3>4. \A i \in 1..L : Clean(i)' =>
            /\ i <= Len(packets') <=> Arrived(i)'
            /\ i <= Len(packets') => Carries(packets'[i], frames'[i])
      <4> SUFFICES ASSUME NEW i \in 1..L, Clean(i)
                   PROVE  /\ i <= last <=> Arrived(i)'
                          /\ i <= last => Carries(packets'[i], frames[i])
        BY <1>3, <1>6, <3>1
      <4>1. i <= last \/ last < i
        BY <1>2
      <4> QED BY <1>2, <3>2, <3>3, <4>1
    <3>5. Len(packets') <= Len(frames')
      BY <1>2, <1>7, <3>1
    <3> QED BY <1>7, <3>4, <3>5 DEF PacketsAreFrames
  <2> QED BY <1>13, <2>2, <2>3
<1> QED BY <1>14, <1>15, <1>16, <1>17, <1>19, <1>20 DEF IInv

-----------------------------------------------------------------------------
(* The theorems. *)

LEMMA StepInvariant == IInv /\ [Next]_vars => IInv'
<1> SUFFICES ASSUME IInv, [Next]_vars PROVE IInv'
  OBVIOUS
<1>1. CASE \E op \in {"packet", "other"}, n \in Lengths, short \in Shortfalls : Write(op, n, short)
  BY <1>1, WriteStep
<1>2. CASE Read
  BY <1>2, ReadStep DEF Read
<1>3. CASE UNCHANGED vars
  <2>1. /\ frames' = frames /\ end' = end /\ read' = read
        /\ start' = start /\ packets' = packets /\ lost' = lost
    BY <1>3 DEF vars
  <2>2. TypeOK' /\ PlaceIsKept' /\ NothingPastRefused'
    BY <2>1 DEF IInv, TypeOK, PlaceIsKept, NothingPastRefused
  <2>3. Layout'
    BY <2>1 DEF IInv, Layout, NextAt, At
  <2>4. Placed'
    BY <2>1 DEF IInv, Placed, Position, Blocked, At, Good, Arrived, NextAt
  <2>5. PacketsAreFrames'
    BY <2>1 DEF IInv, PacketsAreFrames, Clean, Arrived, NextAt
  <2> QED BY <2>2, <2>3, <2>4, <2>5 DEF IInv
<1> QED BY <1>1, <1>2, <1>3 DEF Next

(* The reader knows, at every moment and in whatever pieces the stream was
   read, where in the stream it is. *)
THEOREM StreamInvariance == Spec => []IInv
<1> QED BY InitInvariant, StepInvariant, PTL DEF Spec

(* Every variable keeps its type. *)
THEOREM StreamTypeCorrect == Spec => []TypeOK
<1>1. IInv => TypeOK
  BY DEF IInv
<1> QED BY <1>1, StreamInvariance, PTL

(* Every frame that was read, up to the first that is refused or truncated, is
   delivered once, in order, and as it was written. *)
THEOREM FramesDelivered == Spec => []PacketsAreFrames
<1>1. IInv => PacketsAreFrames
  BY DEF IInv
<1> QED BY <1>1, StreamInvariance, PTL

(* Only a write that was cut short makes a reader lose its place. *)
THEOREM PlaceHolds == Spec => []PlaceIsKept
<1>1. IInv => PlaceIsKept
  BY DEF IInv
<1> QED BY <1>1, StreamInvariance, PTL

(* No body that is not that of a frame is delivered, and nothing behind a
   frame that was refused. *)
THEOREM NoPacketPastRefused == Spec => []NothingPastRefused
<1>1. IInv => NothingPastRefused
  BY DEF IInv
<1> QED BY <1>1, StreamInvariance, PTL

(* The buffer begins at the first frame that has not been read whole. *)
THEOREM BufferStartsAtFrame == Spec => []BufferIsOneFrame
<1>1. IInv => BufferIsOneFrame
  <2> SUFFICES ASSUME IInv, Clean(Len(frames)), NEW i \in DOMAIN frames
               PROVE  frames[i].at < start <=> Arrived(i)
    BY DEF BufferIsOneFrame
  <2>1. PICK L \in Nat : L = Len(frames)
    BY DEF IInv, TypeOK
  <2>2. TypeOK /\ Layout /\ DOMAIN frames = 1..L /\ i \in 1..L
    BY <2>1 DEF IInv, TypeOK
  <2>3. ~lost
    BY <2>1, <2>2 DEF IInv, PlaceIsKept, Clean
  <2>4. PICK f \in 1..(L + 1) : Position(f)
    BY <2>1, <2>3 DEF IInv, Placed
  <2>5. ~Blocked(f)
    <3>1. \A r \in f..Len(frames) : r \in 1..L
      BY <2>1
    <3> QED BY <2>1, <3>1 DEF Blocked, Clean
  <2>6. Len(packets) = f - 1 /\ start = At(f)
    BY <2>4, <2>5 DEF Position
  <2>7. Clean(i)
    <3>1. \A j \in 1..i : j \in 1..L
      BY <2>1, <2>2
    <3> QED BY <2>1, <3>1 DEF Clean
  <2>8. Arrived(i) <=> i <= f - 1
    BY <2>2, <2>6, <2>7 DEF IInv, PacketsAreFrames
  <2>9. frames[i].at < At(f) <=> i < f
    <3>1. CASE f = L + 1
      BY <2>1, <2>2, <3>1, Order, FrameOf DEF At, TypeOK
    <3>2. CASE f \in 1..L
      <4>1. At(f) = frames[f].at
        BY <2>1, <3>2 DEF At
      <4>2. /\ frames[i].at \in Nat /\ frames[f].at \in Nat
            /\ i < f => frames[i].at < frames[f].at
            /\ f < i => frames[f].at < frames[i].at
        BY <2>1, <2>2, <3>2, Order, FrameOf
      <4> QED BY <2>2, <3>2, <4>1, <4>2
    <3> QED BY <2>1, <3>1, <3>2
  <2> QED BY <2>2, <2>4, <2>6, <2>8, <2>9
<1> QED BY <1>1, StreamInvariance, PTL

=============================================================================
