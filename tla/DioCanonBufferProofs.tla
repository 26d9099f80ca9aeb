------------------------ MODULE DioCanonBufferProofs ------------------------
(***************************************************************************)
(* Proofs about DioCanonBuffer, for a ring of any size, any bytes and any  *)
(* counts.  The ring implements LineQueue: what it holds between its two   *)
(* positions is a bounded queue, though they wrap, and a read takes bytes  *)
(* from its front.  IInv adds what a read that goes on relies on: it began *)
(* with an empty ring, and no line end is in it (Filling).                 *)
(***************************************************************************)
EXTENDS DioCanonBuffer, SequenceTheorems, TLAPS

USE CanonAssumption

\* A read is at its loop only while the ring holds no line end.
Filling ==
  /\ pc = "fill" => \A k \in 1 .. Held : buf[Cell(k)] \notin EndOfLine
  /\ pc # "idle" => asked \in Counts

IInv == TypeOK /\ Filling /\ WaitsAsTold

Byte == (Incoming \ {"cr"}) \union {"nl"}

-----------------------------------------------------------------------------
(* Positions that wrap. *)

LEMMA NextPosition ==
  ASSUME NEW p \in 0 .. Size - 1
  PROVE  (p + 1) % Size = IF p + 1 = Size THEN 0 ELSE p + 1
  BY SMT

\* What the ring holds fits, and is where positions are.
LEMMA CellsInRing ==
  ASSUME TypeOK
  PROVE  /\ Held \in 0 .. Size - 1
         /\ \A k \in 1 .. Held : Cell(k) \in 0 .. Size - 1 /\ Cell(k) # write_pos
  BY DEF TypeOK, Held, Cell

LEMMA Distance ==
  ASSUME NEW r \in 0 .. Size - 1, NEW w \in 0 .. Size - 1, NEW h,
         h = IF r <= w THEN w - r ELSE Size - r + w
  PROVE  h \in 0 .. Size - 1
  OBVIOUS

LEMMA Position ==
  ASSUME NEW r \in 0 .. Size - 1, NEW k \in 1 .. Size - 1, NEW c,
         c = IF r + k - 1 < Size THEN r + k - 1 ELSE r + k - 1 - Size
  PROVE  c \in 0 .. Size - 1
  OBVIOUS

LEMMA FullHolds ==
  ASSUME TypeOK
  PROVE  Full <=> Held = Size - 1
  BY NextPosition DEF TypeOK, Full, Held

\* dio_buffer_read() takes the count it is asked for or all there is, and moves
\* the position by as much, round the end of the ring if it has to.
LEMMA BufferRead ==
  ASSUME TypeOK, NEW n \in Counts
  PROVE  /\ dio_buffer_read(n).total = (IF n < Held THEN n ELSE Held)
         /\ dio_buffer_read(n).read_pos \in 0 .. Size - 1
         /\ dio_buffer_read(n).read_pos =
              (IF read_pos + dio_buffer_read(n).total < Size
               THEN read_pos + dio_buffer_read(n).total
               ELSE read_pos + dio_buffer_read(n).total - Size)
  <1>1. n \in Nat /\ n > 0
    OBVIOUS
  <1>2. CASE read_pos <= write_pos
    <2>1. /\ dio_buffer_read(n).total = Least(n, Held)
          /\ dio_buffer_read(n).read_pos = read_pos + Least(n, Held)
      BY <1>2 DEF dio_buffer_read, Held
    <2> QED BY <1>1, <1>2, <2>1 DEF Least, Held, TypeOK
  <1>3. CASE read_pos > write_pos /\ Size - read_pos > n
    <2>1. dio_buffer_read(n).total = n /\ dio_buffer_read(n).read_pos = read_pos + n
      BY <1>3 DEF dio_buffer_read, TypeOK
    <2> QED BY <1>1, <1>3, <2>1 DEF Held, TypeOK
  <1>4. CASE read_pos > write_pos /\ ~(Size - read_pos > n)
    <2> DEFINE rest == Least(n - (Size - read_pos), write_pos)
    <2>1. /\ dio_buffer_read(n).total = Size - read_pos + rest
          /\ dio_buffer_read(n).read_pos = rest
      BY <1>4 DEF dio_buffer_read, TypeOK
    <2>2. rest \in 0 .. write_pos
      BY <1>1, <1>4 DEF Least, TypeOK
    <2>3. rest = IF n - (Size - read_pos) < write_pos THEN n - (Size - read_pos) ELSE write_pos
      BY DEF Least
    <2> HIDE DEF rest
    <2> QED BY <1>1, <1>4, <2>1, <2>2, <2>3 DEF Held, TypeOK
  <1> QED BY <1>2, <1>3, <1>4 DEF TypeOK


-----------------------------------------------------------------------------
(* The contents of the ring as a sequence. *)

Stored == Incoming \union {"nl", Unset}

LEMMA SequenceOf ==
  ASSUME NEW m \in Nat, NEW T, NEW c, c \in [1 .. m -> T]
  PROVE  /\ c \in Seq(T) /\ Len(c) = m
         /\ c = <<>> <=> m = 0
  <1>1. c \in Seq(T)
    BY SeqDef
  <1>2. Len(c) = m
    BY <1>1, LenProperties
  <1> QED BY <1>1, <1>2, EmptySeq

LEMMA ContentsNow ==
  ASSUME TypeOK
  PROVE  /\ Contents \in Seq(Stored) /\ Len(Contents) = Held
         /\ Contents = <<>> <=> Held = 0
         /\ \A k \in 1 .. Held : Contents[k] = buf[Cell(k)]
  <1>1. Held \in Nat
    BY CellsInRing
  <1>2. Contents \in [1 .. Held -> Stored]
    BY CellsInRing DEF TypeOK, Contents, Stored
  <1> QED BY <1>1, <1>2, SequenceOf DEF Contents

LEMMA ContentsNext ==
  ASSUME TypeOK'
  PROVE  /\ Contents' \in Seq(Stored) /\ Len(Contents') = Held'
         /\ Contents' = <<>> <=> Held' = 0
         /\ \A k \in 1 .. Held' : Contents'[k] = buf'[Cell(k)']
  <1>1. Held' \in Nat /\ \A k \in 1 .. Held' : Cell(k)' \in 0 .. Size - 1
    <2>1. read_pos' \in 0 .. Size - 1 /\ write_pos' \in 0 .. Size - 1
      BY DEF TypeOK
    <2>2. Held' = IF read_pos' <= write_pos' THEN write_pos' - read_pos'
                                             ELSE Size - read_pos' + write_pos'
      BY DEF Held
    <2>3. Held' \in 0 .. Size - 1
      BY <2>1, <2>2, Distance
    <2>4. ASSUME NEW k \in 1 .. Held' PROVE Cell(k)' \in 0 .. Size - 1
      <3>1. k \in 1 .. Size - 1
        BY <2>3, <2>4
      <3> QED BY <2>1, <3>1, Position DEF Cell
    <2> QED BY <2>3, <2>4
  <1>2. Contents' \in [1 .. Held' -> Stored]
    BY <1>1 DEF TypeOK, Contents, Stored
  <1> QED BY <1>1, <1>2, SequenceOf DEF Contents

\* The ring and the state of the read stay: a stuttering step of the queue.
LEMMA RingStays ==
  ASSUME UNCHANGED <<canon, result>>, (pc = "idle") = (pc' = "idle")
  PROVE  UNCHANGED Queue!vars /\ Held' = Held /\ \A k \in 1 .. Held : Cell(k)' = Cell(k)
  BY DEF canon, Queue!vars, Contents, Held, Cell

\* The read, the ring, the options and what the driver does stay.
LEMMA AsideStep ==
  ASSUME IInv, UNCHANGED <<canon, options, pc, asked, result>>,
         end_of_file' \in BOOLEAN, wire' \in Seq(Incoming), ended' \in BOOLEAN
  PROVE  IInv' /\ UNCHANGED Queue!vars
  <1>1. TypeOK'
    BY DEF IInv, TypeOK, canon, options
  <1>2. /\ UNCHANGED Queue!vars /\ Held' = Held
        /\ \A k \in 1 .. Held : Cell(k)' = Cell(k)
    BY RingStays
  <1>3. Filling'
    BY <1>2 DEF IInv, Filling, canon
  <1>4. WaitsAsTold'
    BY DEF IInv, WaitsAsTold, options
  <1> QED BY <1>1, <1>2, <1>3, <1>4 DEF IInv

-----------------------------------------------------------------------------
(* Steps of a read. *)

\* The end of a read takes from the front what it reports.
LEMMA DeliverStep ==
  ASSUME IInv, NEW n \in Counts, Deliver(n), UNCHANGED <<options, wire, ended>>,
         end_of_file' \in BOOLEAN, asked' \in Counts
  PROVE  IInv' /\ \E k \in 0 .. Len(Contents) : Queue!Take(k)
  <1> DEFINE k == dio_buffer_read(n).total
  <1>1. /\ k \in 0 .. Held
        /\ read_pos' \in 0 .. Size - 1
        /\ read_pos' = IF read_pos + k < Size THEN read_pos + k ELSE read_pos + k - Size
        /\ result' = k /\ pc' = "idle"
        /\ UNCHANGED <<buf, write_pos>>
    BY BufferRead, CellsInRing DEF IInv, Deliver
  <1> HIDE DEF k
  <1>2. TypeOK'
    BY <1>1, CellsInRing DEF IInv, TypeOK, options
  <1>3. IInv'
    BY <1>1, <1>2 DEF IInv, Filling, WaitsAsTold, options
  <1>4. Held \in 0 .. Size - 1
    BY CellsInRing DEF IInv
  <1>5. Held' = Held - k /\ \A i \in 1 .. Held - k : Cell(i)' = Cell(k + i)
    BY <1>1, <1>4 DEF IInv, TypeOK, Held, Cell
  <1>6. Contents' = SubSeq(Contents, k + 1, Len(Contents))
    <2>1. Contents \in Seq(Stored) /\ Len(Contents) = Held
      BY ContentsNow DEF IInv
    <2>2. /\ k + 1 \in Int /\ Held \in Int /\ k \in Int
          /\ \A i \in k + 1 .. Held : Contents[i] \in Stored
      BY <1>1, <1>4, <2>1, ElementOfSeq
    <2> DEFINE rest == SubSeq(Contents, k + 1, Held)
    <2>3. /\ rest \in Seq(Stored)
          /\ Len(rest) = Held - k
          /\ \A i \in 1 .. Held - k : rest[i] = Contents[k + i]
      <3>1. /\ rest \in Seq(Stored)
            /\ Len(rest) = IF k + 1 <= Held THEN Held - (k + 1) + 1 ELSE 0
            /\ \A i \in 1 .. Held - (k + 1) + 1 : rest[i] = Contents[(k + 1) + i - 1]
        BY <2>2, SubSeqProperties
      <3> HIDE DEF rest
      <3>2. Held - (k + 1) + 1 = Held - k /\ (~(k + 1 <= Held) => Held - k = 0)
        BY <1>1, <1>4
      <3>3. \A i \in 1 .. Held - k : (k + 1) + i - 1 = k + i
        BY <2>2
      <3>4. \A i \in 1 .. Held - k : rest[i] = Contents[k + i]
        BY <3>1, <3>2, <3>3
      <3>5. Len(rest) = Held - k
        BY <3>1, <3>2
      <3> QED BY <3>1, <3>4, <3>5
    <2>4. /\ Contents' \in Seq(Stored) /\ Len(Contents') = Held - k
          /\ \A i \in 1 .. Held - k : Contents'[i] = buf[Cell(k + i)]
      BY <1>1, <1>2, <1>5, ContentsNext
    <2>5. \A i \in 1 .. Held - k : Contents[k + i] = buf[Cell(k + i)]
      BY <1>1, <1>4, ContentsNow DEF IInv
    <2>6. Contents' = rest
      BY <2>3, <2>4, <2>5, SeqEqual
    <2> QED BY <2>1, <2>6
  <1>7. Queue!Take(k)
    BY <1>1, <1>6 DEF Queue!Take
  <1>8. k \in 0 .. Len(Contents)
    BY <1>1, ContentsNow DEF IInv
  <1> QED BY <1>3, <1>7, <1>8

LEMMA ReadStep ==
  ASSUME IInv, NEW n \in Counts, dio_canonical_read(n)
  PROVE  IInv' /\ [Queue!Next]_(Queue!vars)
  <1>1. CASE dio_buffer_read(n).total > 0
    <2>1. /\ Deliver(n) /\ UNCHANGED <<options, wire, ended>>
          /\ end_of_file' \in BOOLEAN /\ asked' \in Counts
      BY <1>1 DEF dio_canonical_read, IInv, TypeOK, port
    <2> QED BY <2>1, DeliverStep DEF Queue!Next
  <1>2. CASE ~(dio_buffer_read(n).total > 0)
    <2>1. /\ pc = "idle" /\ pc' = "fill" /\ asked' = n
          /\ UNCHANGED <<canon, result, options, end_of_file, port>>
      BY <1>2 DEF dio_canonical_read
    <2>2. Held = 0
      BY <1>2, BufferRead, CellsInRing DEF IInv
    <2>3. Contents' = Contents /\ Contents = <<>> /\ Held' = 0
      BY <2>1, <2>2, ContentsNow DEF IInv, canon, Contents, Held, Cell
    <2>4. TypeOK'
      BY <2>1 DEF IInv, TypeOK, canon, options, port
    <2>5. IInv'
      BY <2>1, <2>3, <2>4 DEF IInv, Filling, WaitsAsTold, options
    <2> QED BY <2>1, <2>3, <2>5 DEF Queue!Next, Queue!Begin
  <1> QED BY <1>1, <1>2

\* A byte that is not a line end leaves the loop as it was.
LEMMA FillByteStep ==
  ASSUME IInv, FillByte
  PROVE  IInv' /\ [Queue!Next]_(Queue!vars)
  <1> DEFINE ch == Translated(Head(wire))
  <1>1. Head(wire) \in Incoming /\ Tail(wire) \in Seq(Incoming)
    BY HeadTailProperties DEF IInv, TypeOK, FillByte
  <1>2. ch \in Byte
    BY <1>1 DEF Translated, Byte
  <1>3. /\ pc = "fill" /\ buf' = [buf EXCEPT ![write_pos] = ch]
        /\ pc' = IF ch \in EndOfLine THEN "deliver" ELSE "fill"
        /\ write_pos' = IF write_pos + 1 = Size THEN 0 ELSE write_pos + 1
        /\ wire' = Tail(wire)
        /\ UNCHANGED <<read_pos, options, end_of_file, asked, result, ended>>
    BY DEF FillByte, IInv, TypeOK
  <1> HIDE DEF ch
  <1>4. TypeOK'
    BY <1>1, <1>2, <1>3 DEF IInv, TypeOK, options, Byte
  <1>5. Held \in 0 .. Size - 2
    BY FullHolds, CellsInRing DEF IInv, FillByte
  <1>6. /\ Held' = Held + 1
        /\ Cell(Held + 1) = write_pos
        /\ \A k \in 1 .. Held + 1 : Cell(k)' = Cell(k)
    BY <1>3, <1>5 DEF IInv, TypeOK, Held, Cell
  <1>7. /\ buf'[write_pos] = ch
        /\ \A k \in 1 .. Held : buf'[Cell(k)] = buf[Cell(k)]
    BY <1>3, CellsInRing DEF IInv, TypeOK
  <1>8. Filling'
    <2>1. ASSUME ch \notin EndOfLine, NEW k \in 1 .. Held + 1
          PROVE  buf'[Cell(k)] \notin EndOfLine
      <3>1. CASE k = Held + 1
        BY <1>6, <1>7, <2>1, <3>1
      <3>2. CASE k # Held + 1
        <4>1. k \in 1 .. Held
          BY <1>5, <3>2
        <4> QED BY <1>3, <1>7, <4>1 DEF IInv, Filling
      <3> QED BY <3>1, <3>2
    <2> QED BY <1>3, <1>6, <2>1 DEF IInv, Filling
  <1>9. IInv'
    BY <1>3, <1>4, <1>8 DEF IInv, WaitsAsTold, options
  <1>10. Contents' = Append(Contents, ch)
    <2>1. /\ Contents \in Seq(Stored) /\ Len(Contents) = Held
          /\ \A k \in 1 .. Held : Contents[k] = buf[Cell(k)]
      BY ContentsNow DEF IInv
    <2>2. ch \in Stored
      BY <1>2 DEF Byte, Stored
    <2>3. /\ Append(Contents, ch) \in Seq(Stored)
          /\ Len(Append(Contents, ch)) = Held + 1
          /\ \A k \in 1 .. Held : Append(Contents, ch)[k] = Contents[k]
          /\ Append(Contents, ch)[Held + 1] = ch
      BY <2>1, <2>2, AppendProperties
    <2>4. /\ Contents' \in Seq(Stored) /\ Len(Contents') = Held + 1
          /\ \A k \in 1 .. Held + 1 : Contents'[k] = buf'[Cell(k)]
      BY <1>4, <1>6, ContentsNext
    <2>5. \A k \in 1 .. Held + 1 : Contents'[k] = Append(Contents, ch)[k]
      <3> SUFFICES ASSUME NEW k \in 1 .. Held + 1
                   PROVE  Contents'[k] = Append(Contents, ch)[k]
        OBVIOUS
      <3>1. CASE k = Held + 1
        BY <1>6, <1>7, <2>3, <2>4, <3>1
      <3>2. CASE k # Held + 1
        <4>1. k \in 1 .. Held
          BY <1>5, <3>2
        <4> QED BY <1>7, <2>1, <2>3, <2>4, <4>1
      <3> QED BY <3>1, <3>2
    <2> QED BY <2>3, <2>4, <2>5, SeqEqual
  <1>11. ~Queue!HasLine
    <2>1. \A k \in 1 .. Len(Contents) : Contents[k] \notin EndOfLine
      BY <1>3, ContentsNow DEF IInv, Filling
    <2> QED BY <2>1 DEF Queue!HasLine
  <1>12. Len(Contents) < Size - 1
    BY <1>5, ContentsNow DEF IInv
  <1>13. Queue!Put(ch)
    BY <1>3, <1>10, <1>11, <1>12 DEF Queue!Put
  <1> QED BY <1>2, <1>9, <1>13 DEF Queue!Next, Byte

\* The loop ends without a byte.
LEMMA FillEndsStep ==
  ASSUME IInv, FillFull \/ FillNothing \/ FillError
  PROVE  IInv' /\ UNCHANGED Queue!vars
  <1>1. /\ pc = "fill" /\ pc' = "deliver" /\ end_of_file' \in BOOLEAN
        /\ UNCHANGED <<canon, options, asked, result, port>>
    BY DEF FillFull, FillNothing, FillError, IInv, TypeOK
  <1>2. TypeOK'
    BY <1>1 DEF IInv, TypeOK, canon, options, port
  <1> QED BY <1>1, <1>2, RingStays DEF IInv, Filling, WaitsAsTold, options

LEMMA FillDoneStep ==
  ASSUME IInv, FillDone
  PROVE  IInv' /\ [Queue!Next]_(Queue!vars)
  <1>1. /\ asked \in Counts /\ Deliver(asked) /\ asked' = asked
        /\ UNCHANGED <<options, wire, ended>> /\ end_of_file' \in BOOLEAN
    BY DEF FillDone, IInv, TypeOK, Filling, port
  <1> QED BY <1>1, DeliverStep DEF Queue!Next

-----------------------------------------------------------------------------
(* The other operations, and the port. *)

LEMMA PurgeStep ==
  ASSUME IInv, dio_serial_purge
  PROVE  IInv' /\ [Queue!Next]_(Queue!vars)
  <1>1. TypeOK'
    BY EmptySeq DEF dio_serial_purge, IInv, TypeOK, options, call
  <1>2. Held' = 0 /\ pc = "idle" /\ pc' = "idle" /\ result' = result
    BY DEF dio_serial_purge, Held, call
  <1>3. IInv'
    BY <1>1, <1>2 DEF dio_serial_purge, IInv, Filling, WaitsAsTold, options
  <1>4. Contents' = <<>>
    BY <1>1, <1>2, ContentsNext
  <1> QED BY <1>2, <1>3, <1>4 DEF Queue!Next, Queue!Purge

LEMMA SetOptionStep ==
  ASSUME IInv, NEW v \in BOOLEAN, SetBlocking(v) \/ SetReadTimeout(v)
  PROVE  IInv' /\ UNCHANGED Queue!vars
  <1>1. /\ pc = "idle" /\ pc' = "idle" /\ asked' = asked /\ end_of_file' = end_of_file
        /\ UNCHANGED <<canon, result, port>>
        /\ is_blocking' \in BOOLEAN /\ has_timeout' \in BOOLEAN
        /\ waits' \in BOOLEAN /\ refused' \in BOOLEAN
    BY DEF SetBlocking, SetReadTimeout, SetCommTimeouts, call, IInv, TypeOK
  <1>2. TypeOK'
    BY <1>1 DEF IInv, TypeOK, canon, port
  <1>3. WaitsAsTold'
    BY DEF SetBlocking, SetReadTimeout, SetCommTimeouts, IInv, TypeOK, WaitsAsTold
  <1> QED BY <1>1, <1>2, <1>3, RingStays DEF IInv, Filling

LEMMA PortStep ==
  ASSUME IInv, (\E ch \in Incoming : Arrive(ch)) \/ End
  PROVE  IInv' /\ UNCHANGED Queue!vars
  <1>1. /\ wire' \in Seq(Incoming) /\ ended' \in BOOLEAN /\ end_of_file' \in BOOLEAN
        /\ UNCHANGED <<canon, options, pc, asked, result>>
    BY AppendProperties DEF Arrive, End, call, IInv, TypeOK
  <1> QED BY <1>1, AsideStep

-----------------------------------------------------------------------------
(* The invariant, the queue and what follows. *)

LEMMA InitStep == Init => IInv /\ Queue!Init
  <1> SUFFICES ASSUME Init PROVE IInv /\ Queue!Init
    OBVIOUS
  <1>1. TypeOK /\ Held = 0
    BY EmptySeq DEF Init, TypeOK, Held
  <1>2. IInv
    BY <1>1 DEF Init, IInv, Filling, WaitsAsTold
  <1>3. Contents = <<>>
    BY <1>1, ContentsNow
  <1> QED BY <1>2, <1>3 DEF Init, Queue!Init

LEMMA Step == IInv /\ [Next]_vars => IInv' /\ [Queue!Next]_(Queue!vars)
  <1> SUFFICES ASSUME IInv, [Next]_vars PROVE IInv' /\ [Queue!Next]_(Queue!vars)
    OBVIOUS
  <1>1. CASE UNCHANGED vars
    <2>1. /\ UNCHANGED <<canon, options, pc, asked, result>>
          /\ end_of_file' \in BOOLEAN /\ wire' \in Seq(Incoming) /\ ended' \in BOOLEAN
      BY <1>1 DEF vars, call, port, IInv, TypeOK
    <2> QED BY <2>1, AsideStep
  <1>2. CASE \E n \in Counts : dio_canonical_read(n)
    BY <1>2, ReadStep
  <1>3. CASE FillByte
    BY <1>3, FillByteStep
  <1>4. CASE FillFull \/ FillNothing \/ FillError
    BY <1>4, FillEndsStep
  <1>5. CASE FillDone
    BY <1>5, FillDoneStep
  <1>6. CASE dio_serial_purge
    BY <1>6, PurgeStep
  <1>7. CASE \E v \in BOOLEAN : SetBlocking(v) \/ SetReadTimeout(v)
    BY <1>7, SetOptionStep
  <1>8. CASE (\E ch \in Incoming : Arrive(ch)) \/ End
    BY <1>8, PortStep
  <1> QED
    BY <1>1, <1>2, <1>3, <1>4, <1>5, <1>6, <1>7, <1>8 DEF Next, Loop

LEMMA Invariance == Spec => []IInv
  BY InitStep, Step, PTL DEF Spec

\* The values that the model's variables take, the positions of the ring first.
THEOREM TypeCorrect == Spec => []TypeOK
  <1>1. IInv => TypeOK
    BY DEF IInv
  <1> QED BY <1>1, Invariance, PTL

\* The driver waits exactly if the options say so, once it accepted what it was
\* asked last.
THEOREM DriverWaitsAsTold == Spec => []WaitsAsTold
  <1>1. IInv => WaitsAsTold
    BY DEF IInv
  <1> QED BY <1>1, Invariance, PTL

\* Between its positions the ring is a bounded queue of one line at most.
THEOREM RingIsQueue == Spec => IsQueue
  BY InitStep, Step, Invariance, PTL DEF Spec, IsQueue, Queue!Spec

\* A read that comes back with less than it asked for leaves the ring empty.
LEMMA DeliverEmpties ==
  ASSUME IInv, NEW n \in Counts, Deliver(n)
  PROVE  Held' = 0 \/ result' = n
  <1>1. /\ Held \in 0 .. Size - 1 /\ n \in Nat
        /\ dio_buffer_read(n).total = IF n < Held THEN n ELSE Held
        /\ result' = dio_buffer_read(n).total
    BY BufferRead, CellsInRing DEF IInv, Deliver
  <1>2. CASE n < Held
    BY <1>1, <1>2
  <1>3. CASE ~(n < Held)
    <2>1. dio_buffer_read(n).total = Held
      BY <1>1, <1>3
    <2>2. /\ read_pos' = IF read_pos + Held < Size THEN read_pos + Held ELSE read_pos + Held - Size
          /\ write_pos' = write_pos
      BY <2>1, BufferRead DEF IInv, Deliver
    <2> QED BY <2>2 DEF IInv, TypeOK, Held
  <1> QED BY <1>2, <1>3

\* Between two reads bytes are in the ring only if the first got all that it
\* asked for: for a ring of any size and reads of any counts.
THEOREM NothingStaysHidden == Spec => []NothingHidden
  <1>1. Init => NothingHidden
    BY DEF Init, NothingHidden, Held
  <1>2. IInv /\ NothingHidden /\ [Next]_vars => NothingHidden'
    <2> SUFFICES ASSUME IInv, NothingHidden, [Next]_vars, pc' = "idle"
                 PROVE  Held' = 0 \/ result' = asked'
      BY DEF NothingHidden
    <2>1. ASSUME NEW n \in Counts, dio_canonical_read(n)
          PROVE  Held' = 0 \/ result' = asked'
      <3>1. Deliver(n) /\ asked' = n
        BY <2>1 DEF dio_canonical_read
      <3> QED BY <3>1, DeliverEmpties
    <2>2. ASSUME FillDone PROVE Held' = 0 \/ result' = asked'
      <3>1. asked \in Counts /\ Deliver(asked) /\ asked' = asked
        BY <2>2 DEF FillDone, IInv, Filling
      <3> QED BY <3>1, DeliverEmpties
    <2>3. ASSUME FillByte \/ FillFull \/ FillNothing \/ FillError PROVE FALSE
      BY <2>3 DEF FillByte, FillFull, FillNothing, FillError
    <2>4. ASSUME dio_serial_purge PROVE Held' = 0
      BY <2>4 DEF dio_serial_purge, Held
    <2>5. ASSUME pc' = pc, UNCHANGED <<canon, result, asked>>
          PROVE  Held' = 0 \/ result' = asked'
      BY <2>5 DEF canon, Held, NothingHidden
    <2>6. ASSUME NEW v \in BOOLEAN, SetBlocking(v) \/ SetReadTimeout(v)
          PROVE  Held' = 0 \/ result' = asked'
      BY <2>5, <2>6 DEF SetBlocking, SetReadTimeout, call
    <2>7. ASSUME (\E ch \in Incoming : Arrive(ch)) \/ End
          PROVE  Held' = 0 \/ result' = asked'
      BY <2>5, <2>7 DEF Arrive, End, call
    <2>8. CASE UNCHANGED vars
      BY <2>5, <2>8 DEF vars, call
    <2> QED BY <2>1, <2>2, <2>3, <2>4, <2>6, <2>7, <2>8 DEF Next, Loop
  <1> QED BY <1>1, <1>2, Invariance, PTL DEF Spec

-----------------------------------------------------------------------------
(* What a read delivers. *)

\* A queue that is fed as LineQueue says has a line end at its end only: what a
\* step adds comes to a queue without one, and what a step leaves is its rest.
LEMMA QueueStepKeepsLine ==
  ASSUME Contents \in Seq(Stored), Contents' \in Seq(Stored), Queue!OneLine,
         [Queue!Next]_(Queue!vars)
  PROVE  Queue!OneLine'
  <1> DEFINE len == Len(Contents)
  <1>1. len \in Nat /\ \A i \in 1 .. len : Contents[i] \in Stored
    BY LenProperties, ElementOfSeq
  <1>2. \A i \in 1 .. len - 1 : Contents[i] \notin EndOfLine
    BY DEF Queue!OneLine
  <1>3. SUFFICES \A i \in 1 .. Len(Contents') - 1 : Contents'[i] \notin EndOfLine
    BY DEF Queue!OneLine
  <1>4. CASE Contents' = Contents
    BY <1>2, <1>4
  <1>5. CASE Contents' = <<>>
    BY <1>5, EmptySeq
  <1>6. ASSUME NEW b, Queue!Put(b)
        PROVE  \A i \in 1 .. Len(Contents') - 1 : Contents'[i] \notin EndOfLine
    <2>1. \A i \in 1 .. len : Contents[i] \notin EndOfLine
      BY <1>6 DEF Queue!Put, Queue!HasLine
    <2>2. Contents' = Append(Contents, b)
      BY <1>6 DEF Queue!Put
    <2>3. Len(Append(Contents, b)) = len + 1 /\ \A i \in 1 .. len : Append(Contents, b)[i] = Contents[i]
      <3>1. Contents \in Seq(Stored \union {b}) /\ b \in Stored \union {b}
        BY SeqMonotonic
      <3> QED BY <3>1, AppendProperties
    <2> QED BY <1>1, <2>1, <2>2, <2>3
  <1>7. ASSUME NEW k \in 0 .. len, Queue!Take(k)
        PROVE  \A i \in 1 .. Len(Contents') - 1 : Contents'[i] \notin EndOfLine
    <2>1. Contents' = SubSeq(Contents, k + 1, len)
      BY <1>7 DEF Queue!Take
    <2>2. /\ Len(Contents') = len - k
          /\ \A i \in 1 .. len - k : Contents'[i] = Contents[k + i]
      <3>1. k + 1 \in Int /\ len \in Int /\ \A i \in k + 1 .. len : Contents[i] \in Stored
        BY <1>1
      <3>2. /\ Len(Contents') = IF k + 1 <= len THEN len - (k + 1) + 1 ELSE 0
            /\ \A i \in 1 .. len - (k + 1) + 1 : Contents'[i] = Contents[(k + 1) + i - 1]
        BY <2>1, <3>1, SubSeqProperties
      <3> HIDE DEF len
      <3>3. /\ len - (k + 1) + 1 = len - k
            /\ ~(k + 1 <= len) => len - k = 0
            /\ \A i \in 1 .. len - k : (k + 1) + i - 1 = k + i
        BY <1>1
      <3>4. Len(Contents') = len - k
        BY <3>2, <3>3
      <3>5. \A i \in 1 .. len - k : Contents'[i] = Contents[k + i]
        BY <3>2, <3>3
      <3> QED BY <3>4, <3>5
    <2>3. \A i \in 1 .. len - k - 1 : k + i \in 1 .. len - 1
      BY <1>1
    <2> QED BY <1>1, <1>2, <2>2, <2>3
  <1> QED BY <1>4, <1>5, <1>6, <1>7 DEF Queue!Next, Queue!Begin, Queue!Purge, Queue!vars

LEMMA LineInvariance == Spec => []Queue!OneLine
  <1>1. Init => Queue!OneLine
    BY InitStep, EmptySeq DEF Queue!Init, Queue!OneLine
  <1>2. IInv /\ IInv' /\ Queue!OneLine /\ [Next]_vars => Queue!OneLine'
    <2>1. IInv => Contents \in Seq(Stored)
      BY ContentsNow DEF IInv
    <2>2. IInv' => Contents' \in Seq(Stored)
      BY ContentsNext DEF IInv
    <2> QED BY <2>1, <2>2, Step, QueueStepKeepsLine
  <1> QED BY <1>1, <1>2, Invariance, PTL DEF Spec

\* A caller's buffer that begins with the oldest bytes of the ring.
LEMMA SamePrefix ==
  ASSUME IInv, NEW k \in 0 .. Held, NEW bytes,
         \A i \in 1 .. k : bytes[i] = Contents[i]
  PROVE  SubSeq(bytes, 1, k) = SubSeq(Contents, 1, k)
  <1>1. /\ Held \in Nat /\ k \in Int /\ 1 \in Int
        /\ \A i \in 1 .. k : Contents[i] \in Stored
    BY CellsInRing, ContentsNow, ElementOfSeq DEF IInv
  <1>2. /\ SubSeq(bytes, 1, k) \in Seq(Stored) /\ SubSeq(Contents, 1, k) \in Seq(Stored)
        /\ Len(SubSeq(bytes, 1, k)) = Len(SubSeq(Contents, 1, k))
        /\ Len(SubSeq(Contents, 1, k)) = IF 1 <= k THEN k - 1 + 1 ELSE 0
        /\ \A i \in 1 .. k - 1 + 1 : /\ SubSeq(bytes, 1, k)[i] = bytes[1 + i - 1]
                                     /\ SubSeq(Contents, 1, k)[i] = Contents[1 + i - 1]
    BY <1>1, SubSeqProperties
  <1>3. k - 1 + 1 = k /\ \A i \in 1 .. k : 1 + i - 1 = i
    BY <1>1
  <1>4. \A i \in 1 .. Len(SubSeq(bytes, 1, k)) : SubSeq(bytes, 1, k)[i] = SubSeq(Contents, 1, k)[i]
    BY <1>1, <1>2, <1>3
  <1> QED BY <1>2, <1>4, SeqEqual

\* Unless the bytes wrap, dio_buffer_read() stores the oldest ones.
LEMMA BufferReadCopies ==
  ASSUME IInv, NEW n \in Counts, read_pos + dio_buffer_read(n).total <= Size
  PROVE  dio_buffer_read(n).out = SubSeq(Contents, 1, dio_buffer_read(n).total)
  <1> DEFINE k      == dio_buffer_read(n).total
             caller == [i \in 1 .. n |-> Unset]
  <1>1. /\ n \in Nat /\ n > 0
        /\ k = (IF n < Held THEN n ELSE Held)
        /\ Held \in 0 .. Size - 1
        /\ read_pos \in 0 .. Size - 1 /\ write_pos \in 0 .. Size - 1
        /\ \A i \in 1 .. Held : Contents[i] = buf[Cell(i)]
    BY BufferRead, CellsInRing, ContentsNow DEF IInv, TypeOK
  <1>2. ASSUME NEW dst, DOMAIN dst = 1 .. n, NEW j \in 0 .. k, read_pos + j <= Size
        PROVE  \A i \in 1 .. j : CopyToStart(dst, read_pos, j)[i] = Contents[i]
    <2> SUFFICES ASSUME NEW i \in 1 .. j
                 PROVE  CopyToStart(dst, read_pos, j)[i] = Contents[i]
      OBVIOUS
    <2>1. i \in 1 .. n /\ i \in 1 .. Held /\ i <= j /\ Cell(i) = read_pos + i - 1
      BY <1>1, <1>2 DEF Cell
    <2> QED BY <1>1, <1>2, <2>1 DEF CopyToStart
  <1>3. k \in 0 .. Held /\ read_pos + k <= Size
    BY <1>1
  <1>4. CASE read_pos <= write_pos \/ Size - read_pos > n
    <2>1. dio_buffer_read(n).out = SubSeq(CopyToStart(caller, read_pos, k), 1, k)
      BY <1>4 DEF dio_buffer_read
    <2> HIDE DEF k
    <2>2. \A i \in 1 .. k : CopyToStart(caller, read_pos, k)[i] = Contents[i]
      BY <1>2, <1>3
    <2> QED BY <1>3, <2>1, <2>2, SamePrefix DEF k
  <1>5. CASE ~(read_pos <= write_pos) /\ ~(Size - read_pos > n)
    <2> DEFINE atEnd == Size - read_pos
               rest  == Least(n - atEnd, write_pos)
               first == CopyToStart(caller, read_pos, atEnd)
    <2>1. /\ k = atEnd + rest
          /\ dio_buffer_read(n).out = SubSeq(CopyToStart(first, 0, rest), 1, k)
      BY <1>5 DEF dio_buffer_read
    <2>2. rest = 0
      <3>1. atEnd \in Nat /\ n - atEnd \in Nat
        BY <1>1, <1>5
      <3>2. rest \in Nat
        BY <1>1, <3>1 DEF Least
      <3> HIDE DEF rest
      <3> QED BY <1>1, <1>3, <2>1, <3>1, <3>2
    <2>3. k = atEnd
      BY <1>1, <2>1, <2>2
    <2> HIDE DEF k, rest
    <2>4. \A i \in 1 .. k : first[i] = Contents[i]
      BY <1>2, <1>3, <2>3
    <2>5. DOMAIN first = 1 .. n
      BY DEF CopyToStart
    <2> HIDE DEF first
    <2>6. \A i \in 1 .. k : CopyToStart(first, 0, rest)[i] = first[i]
      BY <1>1, <1>3, <2>2, <2>5 DEF CopyToStart, k
    <2> QED BY <1>3, <2>1, <2>4, <2>6, SamePrefix DEF k
  <1> QED BY <1>4, <1>5

\* A read takes one line at most, and stores the oldest bytes unless they wrap.
THEOREM ReadsDeliverALine == Spec => DeliversALine
  <1> DEFINE A == out' # out =>
                    /\ \A i \in 1 .. result' - 1 : Contents[i] \notin EndOfLine
                    /\ read_pos + result' <= Size => out' = SubSeq(Contents, 1, result')
  <1>1. ASSUME IInv, Queue!OneLine, NEW n \in Counts, Deliver(n)
        PROVE  A
    <2>1. /\ result' = dio_buffer_read(n).total /\ out' = dio_buffer_read(n).out
          /\ result' \in 0 .. Held
      BY <1>1, BufferRead, CellsInRing DEF Deliver, IInv
    <2>2. Len(Contents) = Held /\ Held \in Nat
      BY <1>1, ContentsNow, CellsInRing DEF IInv
    <2>3. \A i \in 1 .. Held - 1 : Contents[i] \notin EndOfLine
      BY <1>1, <2>2 DEF Queue!OneLine
    <2>4. \A i \in 1 .. result' - 1 : Contents[i] \notin EndOfLine
      BY <2>1, <2>2, <2>3
    <2> QED BY <1>1, <2>1, <2>4, BufferReadCopies
  <1>2. ASSUME IInv, Queue!OneLine, [Next]_vars
        PROVE  [A]_vars
    <2> SUFFICES ASSUME out' # out PROVE A
      OBVIOUS
    <2>1. CASE \E n \in Counts : dio_canonical_read(n)
      BY <1>1, <1>2, <2>1 DEF dio_canonical_read
    <2>2. CASE FillDone
      <3>1. asked \in Counts /\ Deliver(asked)
        BY <1>2, <2>2 DEF FillDone, IInv, Filling
      <3> QED BY <1>1, <1>2, <3>1
    <2>3. CASE FillByte \/ FillFull \/ FillNothing \/ FillError
      BY <2>3 DEF FillByte, FillFull, FillNothing, FillError
    <2>4. CASE dio_serial_purge
      BY <2>4 DEF dio_serial_purge, call
    <2>5. CASE \E v \in BOOLEAN : SetBlocking(v) \/ SetReadTimeout(v)
      BY <2>5 DEF SetBlocking, SetReadTimeout, call
    <2>6. CASE (\E ch \in Incoming : Arrive(ch)) \/ End
      BY <2>6 DEF Arrive, End, call
    <2>7. CASE UNCHANGED vars
      BY <2>7 DEF vars, call
    <2> QED BY <1>2, <2>1, <2>2, <2>3, <2>4, <2>5, <2>6, <2>7 DEF Next, Loop
  <1>3. Spec => [][A]_vars
    BY <1>2, Invariance, LineInvariance, PTL DEF Spec
  <1> QED BY <1>3 DEF DeliversALine

-----------------------------------------------------------------------------
(* What the end of a read rests on: LineEnds itself is left to the run.      *)

\* A read that stays at its loop, past a byte, has one byte more in a ring that
\* is not full yet; one that stays there otherwise still has all that waited in
\* the port.
LoopFillsRing ==
  [][pc = "fill" /\ pc' = "fill" =>
       \/ Held' = Held + 1 /\ Held' < Size /\ wire' = Tail(wire)
       \/ Held' = Held /\ \A i \in 1 .. Len(wire) : wire'[i] = wire[i]]_vars

\* Whatever arrives, the loop of a read ends before it took as many bytes as
\* the ring has cells, and no byte is lost that could end it earlier.
THEOREM LoopComesToItsEnd == Spec => LoopFillsRing
  <1> DEFINE A == pc = "fill" /\ pc' = "fill" =>
                    \/ Held' = Held + 1 /\ Held' < Size /\ wire' = Tail(wire)
                    \/ Held' = Held /\ \A i \in 1 .. Len(wire) : wire'[i] = wire[i]
  <1>1. ASSUME IInv, IInv', Next, pc = "fill", pc' = "fill"
        PROVE  \/ Held' = Held + 1 /\ Held' < Size /\ wire' = Tail(wire)
               \/ Held' = Held /\ \A i \in 1 .. Len(wire) : wire'[i] = wire[i]
    <2>1. CASE FillByte
      <3>1. /\ read_pos' = read_pos /\ wire' = Tail(wire)
            /\ write_pos' = IF write_pos + 1 = Size THEN 0 ELSE write_pos + 1
        BY <1>1, <2>1 DEF FillByte, IInv, TypeOK
      <3>2. Held \in 0 .. Size - 2
        BY <1>1, <2>1, FullHolds, CellsInRing DEF IInv, FillByte
      <3>3. Held' = Held + 1
        BY <1>1, <3>1, <3>2 DEF IInv, TypeOK, Held
      <3> QED BY <3>1, <3>2, <3>3
    <2>2. ASSUME NEW ch \in Incoming, Arrive(ch)
          PROVE  Held' = Held /\ \A i \in 1 .. Len(wire) : wire'[i] = wire[i]
      <3>1. \A i \in 1 .. Len(wire) : wire'[i] = wire[i]
        BY <1>1, <2>2, AppendProperties DEF Arrive, IInv, TypeOK
      <3> QED BY <2>2, <3>1 DEF Arrive, canon, Held
    <2>3. CASE End
      BY <2>3 DEF End, canon, Held
    <2>4. ASSUME \/ FillFull \/ FillNothing \/ FillError \/ FillDone \/ dio_serial_purge
                 \/ \E n \in Counts : dio_canonical_read(n)
                 \/ \E v \in BOOLEAN : SetBlocking(v) \/ SetReadTimeout(v)
          PROVE  FALSE
      BY <1>1, <2>4 DEF FillFull, FillNothing, FillError, FillDone, dio_serial_purge,
         dio_canonical_read, SetBlocking, SetReadTimeout
    <2> QED BY <1>1, <2>1, <2>2, <2>3, <2>4 DEF Next, Loop
  <1>2. IInv /\ IInv' /\ [Next]_vars => [A]_vars
    BY <1>1
  <1>3. Spec => [][A]_vars
    BY <1>2, Invariance, PTL DEF Spec
  <1> QED BY <1>3 DEF LoopFillsRing

=============================================================================
