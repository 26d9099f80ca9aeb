--------------------------- MODULE DioCanonBuffer ---------------------------
(***************************************************************************)
(* Reading from a serial stream in canonical mode on Windows, which has no *)
(* line discipline of its own: dio_canonical_read() gathers a line byte by *)
(* byte in a ring buffer of the stream and hands it out from there.  The   *)
(* driver keeps the port's timeouts, which decide whether ReadFile() waits *)
(* for a byte; stream_set_blocking() and stream_set_timeout() replace them.*)
(***************************************************************************)
EXTENDS Integers, Sequences

CONSTANTS
  Size,        \* DIO_WIN32_CANON_BUF_SIZE
  Counts,      \* the counts that reads are called with
  Incoming,    \* the bytes the port may receive: "cr", "nl", "eot", and others
  MaxWire      \* bound: bytes waiting in the port

ASSUME CanonAssumption ==
  /\ Size \in Nat /\ Size > 1
  /\ Counts \subseteq Nat \ {0}
  /\ MaxWire \in Nat

VARIABLES
  buf, read_pos, write_pos,  \* php_dio_win32_canon_data
  is_blocking, has_timeout,  \* stream data: the options
  end_of_file,  \* stream data: what stream->eof is set from after a read
  pc,           \* "idle", or in a read: at its loop ("fill") or past ("deliver")
  asked,        \* the count of that read
  result, out,  \* what the last read returned, and the bytes it stored
  waits,        \* driver: whether the COMMTIMEOUTS are all zero
  refused,      \* history: the driver refused them the last time it was asked
  wire, ended   \* external: bytes in the port, and whether no more will come

canon   == <<buf, read_pos, write_pos>>
options == <<is_blocking, has_timeout, waits, refused>>
call    == <<pc, asked, result, out>>
port    == <<wire, ended>>
vars    == <<canon, options, end_of_file, call, port>>

Unset == "unset"   \* a cell, or a byte of the caller's buffer, not written yet

Init ==
  /\ buf = [i \in 0 .. Size - 1 |-> Unset]
  /\ read_pos = 0 /\ write_pos = 0
  /\ is_blocking \in BOOLEAN /\ has_timeout \in BOOLEAN
  /\ waits = (is_blocking /\ ~has_timeout)   \* dio_serial_open_stream()
  /\ refused = FALSE
  /\ end_of_file = FALSE
  /\ pc = "idle" /\ asked = 0 /\ result = 0 /\ out = <<>>
  /\ wire = <<>> /\ ended = FALSE

-----------------------------------------------------------------------------

Least(a, b) == IF a < b THEN a ELSE b

\* Mutant of CopyToStart: the bytes are those from the next position on.
CopyFromNext(dst, p, k) ==
  [i \in DOMAIN dst |-> IF i <= k THEN buf[(p + i) % Size] ELSE dst[i]]

\* memcpy() to the start of dst of k bytes of the ring from position p on.
CopyToStart(dst, p, k) ==
  [i \in DOMAIN dst |-> IF i <= k THEN buf[p + i - 1] ELSE dst[i]]

\* Mutant of dio_buffer_read: of data that wraps only the first block is copied.
FirstBlockRead(n) ==
  LET end  == IF read_pos <= write_pos THEN write_pos ELSE Size
      held == Least(n, end - read_pos)
  IN  [total |-> held, read_pos |-> (read_pos + held) % Size,
       out |-> [i \in 1 .. held |-> buf[read_pos + i - 1]]]

\* dio_buffer_read(): how many bytes it returns, the new read_pos, and what is
\* then in the caller's buffer.  If the data wraps, both blocks are copied to
\* the start of that buffer.
dio_buffer_read(n) ==
  LET caller == [i \in 1 .. n |-> Unset]
      atEnd  == Size - read_pos
      held   == write_pos - read_pos
      rest   == Least(n - atEnd, write_pos)
      r(total, pos, bytes) ==
        [total |-> total, read_pos |-> pos, out |-> SubSeq(bytes, 1, total)]
  IN  IF read_pos <= write_pos
      THEN r(Least(n, held), read_pos + Least(n, held),
             CopyToStart(caller, read_pos, Least(n, held)))
      ELSE IF atEnd > n
      THEN r(n, read_pos + n, CopyToStart(caller, read_pos, n))
      ELSE r(atEnd + rest, rest,
             CopyToStart(CopyToStart(caller, read_pos, atEnd), 0, rest))

\* The read returns what dio_buffer_read() found.
Deliver(n) ==
  LET r == dio_buffer_read(n)
  IN  /\ read_pos' = r.read_pos
      /\ result' = r.total
      /\ out' = r.out
      /\ pc' = "idle"
      /\ UNCHANGED <<buf, write_pos>>

dio_canonical_read(n) ==
  /\ pc = "idle"
  /\ asked' = n
  /\ IF dio_buffer_read(n).total > 0
     THEN Deliver(n)
     ELSE pc' = "fill" /\ UNCHANGED <<canon, result, out>>
  /\ UNCHANGED <<options, end_of_file, port>>

\* Mutant of Full: the next position is not wrapped.
FullUnwrapped == write_pos + 1 = read_pos

Full == (write_pos + 1) % Size = read_pos

\* Mutant of Translated: a carriage return stays one.
Untranslated(ch) == ch

\* As ICRNL does.
Translated(ch) == IF ch = "cr" THEN "nl" ELSE ch

EndOfLine == {"nl", "eot"}

\* Mutant of FillByte: the position after the last cell is the one past it.
FillByteOff ==
  /\ pc = "fill" /\ ~Full
  /\ wire # <<>>
  /\ LET ch == Translated(Head(wire))
     IN  /\ buf' = [buf EXCEPT ![write_pos] = ch]
         /\ pc' = IF ch \in EndOfLine THEN "deliver" ELSE "fill"
  /\ write_pos' = (IF write_pos + 1 > Size THEN 0 ELSE write_pos + 1)
  /\ wire' = Tail(wire)
  /\ UNCHANGED <<read_pos, options, end_of_file, asked, result, out, ended>>

FillByte ==
  /\ pc = "fill" /\ ~Full
  /\ wire # <<>>
  /\ LET ch == Translated(Head(wire))
     IN  /\ buf' = [buf EXCEPT ![write_pos] = ch]
         /\ pc' = IF ch \in EndOfLine THEN "deliver" ELSE "fill"
  /\ write_pos' = (IF write_pos + 1 >= Size THEN 0 ELSE write_pos + 1)
  /\ wire' = Tail(wire)
  /\ UNCHANGED <<read_pos, options, end_of_file, asked, result, out, ended>>

FillFull ==
  /\ pc = "fill" /\ Full
  /\ pc' = "deliver"
  /\ UNCHANGED <<canon, options, end_of_file, asked, result, out, port>>

\* dio_com_read() takes ReadFile() without a byte for the end of the input.
FillNothing ==
  /\ pc = "fill" /\ ~Full
  /\ wire = <<>> /\ (ended \/ ~waits)
  /\ end_of_file' = TRUE
  /\ pc' = "deliver"
  /\ UNCHANGED <<canon, options, asked, result, out, port>>

\* ReadFile() fails, at the end of the input with ERROR_HANDLE_EOF.
FillError ==
  /\ pc = "fill" /\ ~Full
  /\ end_of_file' = (end_of_file \/ (ended /\ wire = <<>>))
  /\ pc' = "deliver"
  /\ UNCHANGED <<canon, options, asked, result, out, port>>

FillDone ==
  /\ pc = "deliver"
  /\ Deliver(asked)
  /\ UNCHANGED <<options, end_of_file, asked, port>>

-----------------------------------------------------------------------------

\* fflush() on a serial stream: the ring loses what it holds, and so does the
\* port unless PurgeComm() fails.
dio_serial_purge ==
  /\ pc = "idle"
  /\ read_pos' = 0 /\ write_pos' = 0
  /\ wire' \in {<<>>, wire}
  /\ UNCHANGED <<buf, options, end_of_file, call, ended>>

\* SetCommTimeouts() replaces all the timeouts, or fails; the options keep the
\* values they were given.
SetCommTimeouts(w) ==
  \/ waits' = w /\ refused' = FALSE
  \/ refused' = TRUE /\ UNCHANGED waits

\* dio_common_set_option() asks the driver only if the blocking option changes,
\* which it does not, a second time, if the driver refused the first.
SetBlocking(v) ==
  /\ pc = "idle"
  /\ is_blocking' = v
  /\ IF v # is_blocking THEN SetCommTimeouts(v /\ ~has_timeout)
                        ELSE UNCHANGED <<waits, refused>>
  /\ UNCHANGED <<canon, has_timeout, end_of_file, call, port>>

\* Mutant of SetReadTimeout: a stream without a timeout waits again, also one
\* that does not block.
LimitForgetsBlocking(some) ==
  /\ pc = "idle"
  /\ has_timeout' = some
  /\ SetCommTimeouts(~some)
  /\ UNCHANGED <<canon, is_blocking, end_of_file, call, port>>

SetReadTimeout(some) ==
  /\ pc = "idle"
  /\ has_timeout' = some
  /\ SetCommTimeouts(~some /\ is_blocking)
  /\ UNCHANGED <<canon, is_blocking, end_of_file, call, port>>

-----------------------------------------------------------------------------
(* The port: external. *)

Arrive(ch) ==
  /\ ~ended /\ Len(wire) < MaxWire
  /\ wire' = Append(wire, ch)
  /\ UNCHANGED <<canon, options, end_of_file, call, ended>>

End ==
  /\ ~ended
  /\ ended' = TRUE
  /\ UNCHANGED <<canon, options, end_of_file, call, wire>>

Loop == FillByte \/ FillFull \/ FillNothing \/ FillDone

Next ==
  \/ \E n \in Counts : dio_canonical_read(n)
  \/ Loop \/ FillError
  \/ dio_serial_purge
  \/ \E v \in BOOLEAN : SetBlocking(v) \/ SetReadTimeout(v)
  \/ \E ch \in Incoming : Arrive(ch)
  \/ End

\* The loop goes on while the port has a byte or an answer for it.
Spec == Init /\ [][Next]_vars /\ WF_vars(Loop)

-----------------------------------------------------------------------------
(* Properties. *)

TypeOK ==
  /\ buf \in [0 .. Size - 1 -> Incoming \union {"nl", Unset}]
  /\ read_pos \in 0 .. Size - 1 /\ write_pos \in 0 .. Size - 1
  /\ is_blocking \in BOOLEAN /\ has_timeout \in BOOLEAN
  /\ waits \in BOOLEAN /\ refused \in BOOLEAN
  /\ end_of_file \in BOOLEAN /\ ended \in BOOLEAN
  /\ pc \in {"idle", "fill", "deliver"}
  /\ asked \in Counts \union {0}
  /\ result \in 0 .. Size - 1
  /\ wire \in Seq(Incoming)

\* What the ring holds, the oldest byte first: its k-th byte is in Cell(k).
Held     == IF read_pos <= write_pos THEN write_pos - read_pos
                                     ELSE Size - read_pos + write_pos
Cell(k)  == IF read_pos + k - 1 < Size THEN read_pos + k - 1 ELSE read_pos + k - 1 - Size
Contents == [k \in 1 .. Held |-> buf[Cell(k)]]

\* The ring is the queue that it promises to be: it never loses or repeats a
\* place, it holds one line at most, and what a read reports is what it takes.
Queue == INSTANCE LineQueue
           WITH Byte <- (Incoming \ {"cr"}) \union {"nl"}, LineEnd <- EndOfLine,
                Capacity <- Size - 1, queue <- Contents, reading <- pc # "idle",
                reported <- result

IsQueue == Queue!Spec

\* Bytes stay in the ring between two reads, where no script could tell that they
\* are there (neither by feof(), which is TRUE once a read met the end of the
\* input, nor by stream_select()), only after a read that got all it asked for
\* ("Excess data will be retained in the buffer until the next read"): a read
\* that comes back with less, as one of PHP's for 8192 bytes always does, has
\* emptied the ring, wherever its data wrapped.
NothingHidden == pc = "idle" => Held = 0 \/ result = asked

\* A read returns once a line end is in the port, also on a blocking stream.
LineEnds ==
  (pc = "fill" /\ \E i \in 1 .. Len(wire) : wire[i] \in {"cr", "nl", "eot"})
    ~> pc = "idle"

\* The driver waits for a byte exactly if the options say so, in whatever order
\* they were set, once it accepted what it was asked last:
\* dio_common_set_option() leaves the driver alone when it is told the value it
\* has, and a timeout comes and goes without the blocking being told again.
WaitsAsTold == ~refused => waits = (is_blocking /\ ~has_timeout)

\* What a read takes is at most one line, with its end; and it is what the read
\* stores, unless it wraps round the end of the ring.
DeliversALine ==
  [][out' # out =>
       /\ \A i \in 1 .. result' - 1 : Contents[i] \notin EndOfLine
       /\ read_pos + result' <= Size => out' = SubSeq(Contents, 1, result')]_vars

\* What the comments in dio_buffer_read() say: the function "reads any available
\* chars from the canonical buffer" and copies "both blocks" of them if they
\* wrap: what a read stores are the oldest bytes of the ring.
DeliversOldest ==
  [][out' # out => out' = SubSeq(Contents, 1, result')]_vars

=============================================================================
