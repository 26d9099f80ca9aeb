----------------------------- MODULE LineQueue -----------------------------
(***************************************************************************)
(* What the canonical buffer of a Windows stream promises: a bounded queue *)
(* of bytes.  A read puts bytes into it, none after a line end until that  *)
(* line was taken, and ends by taking bytes from the front, as many as it  *)
(* reports.  Between two reads the queue may be purged.                    *)
(***************************************************************************)
EXTENDS Integers, Sequences

CONSTANTS
  Byte,      \* what can be queued
  LineEnd,   \* the bytes that end a line
  Capacity   \* how many bytes fit

VARIABLES
  queue,     \* the bytes, the oldest first
  reading,   \* whether a read goes on
  reported   \* how many bytes the last read reported

vars == <<queue, reading, reported>>

HasLine == \E i \in 1 .. Len(queue) : queue[i] \in LineEnd

Init == queue = <<>> /\ reading = FALSE /\ reported = 0

\* A read that finds nothing begins to wait for a line.
Begin ==
  /\ ~reading /\ queue = <<>>
  /\ reading' = TRUE
  /\ UNCHANGED <<queue, reported>>

Put(b) ==
  /\ reading
  /\ Len(queue) < Capacity
  /\ ~HasLine
  /\ queue' = Append(queue, b)
  /\ UNCHANGED <<reading, reported>>

\* The end of a read, or a whole read that finds bytes left from an earlier one.
Take(k) ==
  /\ queue' = SubSeq(queue, k + 1, Len(queue))
  /\ reading' = FALSE
  /\ reported' = k

Purge ==
  /\ ~reading
  /\ queue' = <<>>
  /\ UNCHANGED <<reading, reported>>

Next ==
  \/ Begin
  \/ \E b \in Byte : Put(b)
  \/ \E k \in 0 .. Len(queue) : Take(k)
  \/ Purge

Spec == Init /\ [][Next]_vars

-----------------------------------------------------------------------------

\* A line end is the last byte of the queue.
OneLine == \A i \in 1 .. Len(queue) - 1 : queue[i] \notin LineEnd

=============================================================================
