-------------------------- MODULE DioPosixStream --------------------------
(***************************************************************************)
(* One dio stream on a POSIX system, and the device behind it: a serial    *)
(* line, a terminal or a FIFO.  PHP's streams layer calls the read, write  *)
(* and set_option operations, one at a time; inside a call the process     *)
(* waits in select(), read() or write(), and meanwhile bytes arrive, the   *)
(* line hangs up, another reader takes bytes, a signal interrupts the      *)
(* wait, time passes, or the clock is set back.                            *)
(*                                                                         *)
(* The bytes of a call are counted, not named: ptr is where in the caller's*)
(* buffer the next ones go.  size_t arithmetic wraps at SizeModulus, and   *)
(* -1 is its largest value.                                                *)
(***************************************************************************)
EXTENDS DioTimeval

CONSTANTS
  SizeModulus,   \* 2^64: a size_t counts modulo this
  Asked,         \* the counts that read and write are called with
  TickUsec,      \* resolution of time: microseconds in a tick
  StartClocks,   \* what the clock may show when a call starts, in ticks
  Limits,        \* read timeouts that are set, in ticks; 0 is no timeout
  MayDisable,    \* whether scripts call stream_set_timeout() with zero
  MayLimit,      \* whether scripts call it with a timeout
  MayBlock,      \* whether scripts call stream_set_blocking()
  MaxInput,      \* bound: bytes waiting in the device
  MaxRoom,       \* bound: bytes the device takes before it is full
  MaxClock,      \* bound: ticks the clock counts in a call
  MaxSignal,     \* bound: signals that arrive in a behaviour
  MaxSteal       \* bound: times another reader takes a byte

Error == SizeModulus - 1   \* -1 in a size_t

ASSUME StreamAssumption ==
  /\ SizeModulus \in Nat /\ SizeModulus > 2
  /\ Asked \subseteq 1 .. SizeModulus \div 2 - 1
  /\ TickUsec \in Nat \ {0}
  /\ Limits \subseteq Nat
  /\ MayDisable \in BOOLEAN /\ MayLimit \in BOOLEAN /\ MayBlock \in BOOLEAN
  /\ MaxInput \in Nat /\ MaxRoom \in Nat /\ MaxClock \in Nat
  /\ StartClocks \subseteq 0 .. MaxClock
  /\ MaxSignal \in Nat /\ MaxSteal \in Nat

VARIABLES
  is_blocking, has_timeout, limit, timed_out, end_of_file, \* stream data
  nonblock,    \* kernel: O_NONBLOCK of the open file description
  pc,          \* where the call is: "idle" between two calls
  asked,       \* the count the call was made with
  timeout, before,     \* locals of dio_common_read: struct timevals
  ptr, count, total,   \* its locals: the offset to read to, size_t counts
  moved,       \* history: bytes the kernel moved for this call
  result,      \* what the last call returned, as a ssize_t
  errno,       \* why the last system call failed
  input, hungup, room, \* device: bytes to read, end of line, room to write
  clock,       \* gettimeofday(), in ticks
  waited,      \* ticks since select() was entered
  signals, stolen      \* events of the environment so far

options == <<is_blocking, has_timeout, limit, nonblock>>
flags   == <<timed_out, end_of_file>>
locals  == <<asked, timeout, before, ptr, count, total>>
outcome == <<moved, result, errno>>
device  == <<input, hungup, room>>
time    == <<clock, waited>>
budget  == <<signals, stolen>>
vars    == <<options, flags, pc, locals, outcome, device, time, budget>>

\* A number of ticks as a struct timeval.
AsTimeval(t) == [sec  |-> (t * TickUsec) \div UsecPerSec,
                 usec |-> (t * TickUsec) % UsecPerSec]
AsTicks(tv)  == Micros(tv) \div TickUsec

\* A size_t returned as a ssize_t.
Signed(n) == IF n >= SizeModulus \div 2 THEN n - SizeModulus ELSE n

\* The options "is_blocking", "timeout_secs" and "timeout_usecs", or what
\* dio_init_stream_data() makes of a stream without them.
dio_assoc_array_get_basic_options ==
  /\ is_blocking \in BOOLEAN
  /\ limit \in Limits \union {0}
  /\ has_timeout = (limit # 0)

\* The stream as dio_raw_open_stream() opens it.
Init ==
  /\ dio_assoc_array_get_basic_options
  /\ nonblock = (~is_blocking \/ has_timeout)
  /\ timed_out = FALSE /\ end_of_file = FALSE
  /\ pc = "idle"
  /\ asked = 0 /\ ptr = 0 /\ count = 0 /\ total = 0 /\ moved = 0 /\ result = 0
  /\ timeout = Zero /\ before = Zero
  /\ errno = "none"
  /\ input = 0 /\ hungup = FALSE /\ room = 0
  /\ clock = 0 /\ waited = 0 /\ signals = 0 /\ stolen = 0

Return(r) ==
  /\ pc' = "idle"
  /\ result' = r

-----------------------------------------------------------------------------
(* dio_common_read *)

\* A call on a stream without a timeout goes to read(), the other one clears
\* the flag and goes round its loop with the whole timeout.
dio_common_read(n) ==
  /\ pc = "idle"
  /\ asked' = n /\ ptr' = 0 /\ count' = n /\ total' = 0 /\ moved' = 0
  /\ clock' \in StartClocks
  /\ IF has_timeout
     THEN /\ pc' = "select"
          /\ timed_out' = FALSE
          /\ timeout' = AsTimeval(limit)
          /\ before' = AsTimeval(clock')
          /\ waited' = 0
     ELSE /\ pc' = "read"
          /\ UNCHANGED <<timed_out, timeout, before, waited>>
  /\ UNCHANGED <<options, end_of_file, result, errno, device, budget>>

\* read() without a timeout: data, the end, or an error, which as a size_t is
\* above 0 and so returned like data, EINTR too.
ReadReturns ==
  /\ pc = "read"
  /\ input > 0
  /\ \E k \in 1 .. asked :
       /\ k <= input
       /\ input' = input - k
       /\ moved' = k
       /\ Return(k)
  /\ UNCHANGED <<options, flags, locals, errno, hungup, room, time, budget>>

ReadEnds ==
  /\ pc = "read"
  /\ input = 0 /\ hungup
  /\ end_of_file' = TRUE
  /\ Return(0)
  /\ UNCHANGED <<options, timed_out, locals, moved, errno, device, time, budget>>

\* Why a system call with nothing to do fails: O_NONBLOCK, or a signal that
\* interrupts the wait.
Again     == nonblock /\ errno' = "EAGAIN" /\ UNCHANGED budget
Interrupt == /\ signals < MaxSignal
             /\ signals' = signals + 1
             /\ errno' = "EINTR"
             /\ UNCHANGED stolen

ReadFails(Cause) ==
  /\ pc = "read"
  /\ input = 0 /\ ~hungup
  /\ Cause
  /\ Return(Signed(Error))
  /\ UNCHANGED <<options, flags, locals, moved, device, time>>

\* select() says that read() will not block.
SelectReady ==
  /\ pc = "select"
  /\ input > 0 \/ hungup
  /\ pc' = "timedRead"
  /\ UNCHANGED <<options, flags, locals, outcome, device, time, budget>>

SelectTimesOut ==
  /\ pc = "select"
  /\ input = 0 /\ ~hungup
  /\ waited >= AsTicks(timeout)
  /\ pc' = "adjust"
  /\ UNCHANGED <<options, flags, locals, outcome, device, time, budget>>

\* select() fails: its result is not below 0 but above, and the set that it
\* left alone still holds the descriptor, so the code reads.
SelectInterrupted ==
  /\ pc = "select"
  /\ Interrupt
  /\ pc' = "timedRead"
  /\ UNCHANGED <<options, flags, locals, moved, result, device, time>>

\* Mutants of Account: the bytes are not added up, or count does not wrap.
AccountForgets(n) ==
  /\ ptr' = ptr + Signed(n)
  /\ count' = (count - n) % SizeModulus
  /\ UNCHANGED total

AccountUnwrapped(n) ==
  /\ ptr' = ptr + Signed(n)
  /\ total' = (total + n) % SizeModulus
  /\ count' = count - n

\* What the loop does with the size_t that read() returned, if it is above 0.
Account(n) ==
  /\ ptr' = ptr + Signed(n)
  /\ total' = (total + n) % SizeModulus
  /\ count' = (count - n) % SizeModulus

TimedReadGets ==
  /\ pc = "timedRead"
  /\ input > 0
  /\ \E k \in 1 .. count :
       /\ k <= input
       /\ input' = input - k
       /\ moved' = moved + k
       /\ Account(k)
  /\ pc' = "adjust"
  /\ UNCHANGED <<options, flags, asked, timeout, before, result, errno, hungup, room,
                 time, budget>>

\* Mutant of TimedReadEnds: the end of the line ends the call only.
TimedReadForgetsEnd ==
  /\ pc = "timedRead"
  /\ input = 0 /\ hungup
  /\ Return(Signed(total))
  /\ UNCHANGED <<options, flags, locals, moved, errno, device, time, budget>>

TimedReadEnds ==
  /\ pc = "timedRead"
  /\ input = 0 /\ hungup
  /\ end_of_file' = TRUE
  /\ Return(Signed(total))
  /\ UNCHANGED <<options, timed_out, locals, moved, errno, device, time, budget>>

TimedReadFails(Cause) ==
  /\ pc = "timedRead"
  /\ input = 0 /\ ~hungup
  /\ Cause
  /\ Account(Error)
  /\ pc' = "adjust"
  /\ UNCHANGED <<options, flags, asked, timeout, before, moved, result, device, time>>

\* The end of a pass: all is read, or the time it took is taken from the
\* timeout and either nothing is left of that or the loop goes round again.
Adjust ==
  /\ pc = "adjust"
  /\ LET now   == AsTimeval(clock)
         spent == dio_timeval_subtract(now, before).diff
         rest  == SubtractInPlace(timeout, spent)
     IN  IF count = 0 \/ OutOfTime(rest)
         THEN /\ timed_out' = (count # 0)
              /\ Return(Signed(total))
              /\ UNCHANGED <<timeout, before, waited>>
         ELSE /\ timeout' = rest.diff
              /\ before' = now
              /\ waited' = 0
              /\ pc' = "select"
              /\ UNCHANGED <<timed_out, result>>
  /\ UNCHANGED <<options, end_of_file, asked, ptr, count, total, moved, errno, device,
                 clock, budget>>

-----------------------------------------------------------------------------
(* dio_common_write *)

dio_common_write(n) ==
  /\ pc = "idle"
  /\ pc' = "write"
  /\ asked' = n /\ moved' = 0
  /\ UNCHANGED <<options, flags, timeout, before, ptr, count, total, result, errno, device,
                 time, budget>>

WriteReturns ==
  /\ pc = "write" /\ ~hungup
  /\ \E k \in 1 .. asked :
       /\ k <= room
       /\ room' = room - k
       /\ moved' = moved + k
       /\ Return(k)
  /\ UNCHANGED <<options, flags, locals, errno, input, hungup, time, budget>>

Unplugged == hungup /\ errno' = "EIO" /\ UNCHANGED budget

\* An interrupted write is tried again; any other error is returned.
WriteFails(Cause) ==
  /\ pc = "write"
  /\ hungup \/ room = 0
  /\ Cause
  /\ IF errno' = "EINTR" THEN UNCHANGED <<pc, result>> ELSE Return(-1)
  /\ UNCHANGED <<options, flags, locals, moved, device, time>>

-----------------------------------------------------------------------------
(* dio_common_set_option *)

\* stream_set_timeout(): F_SETFL replaces all the flags, and what it does to
\* O_NONBLOCK does not depend on is_blocking.
SetReadTimeout(t) ==
  /\ pc = "idle"
  /\ limit' = t
  /\ has_timeout' = (t # 0)
  /\ nonblock' = (t = 0)
  /\ timed_out' = (t # 0 /\ timed_out)
  /\ UNCHANGED <<is_blocking, end_of_file, pc, locals, outcome, device, time, budget>>

SetBlocking(v) ==
  /\ pc = "idle"
  /\ nonblock' = ~v
  /\ is_blocking' = v
  /\ UNCHANGED <<has_timeout, limit, flags, pc, locals, outcome, device, time, budget>>

-----------------------------------------------------------------------------
(* The device, the other processes and the clock: external. *)

Arrive ==
  /\ ~hungup /\ input < MaxInput
  /\ input' = input + 1
  /\ UNCHANGED <<options, flags, pc, locals, outcome, hungup, room, time, budget>>

HangUp ==
  /\ ~hungup
  /\ hungup' = TRUE
  /\ UNCHANGED <<options, flags, pc, locals, outcome, input, room, time, budget>>

\* Another process that has the device open reads from it.
Steal ==
  /\ input > 0 /\ stolen < MaxSteal
  /\ input' = input - 1
  /\ stolen' = stolen + 1
  /\ UNCHANGED <<options, flags, pc, locals, outcome, hungup, room, time, signals>>

\* The device sends what was written and has room again.
Drain ==
  /\ ~hungup /\ room < MaxRoom
  /\ room' = MaxRoom
  /\ UNCHANGED <<options, flags, pc, locals, outcome, input, hungup, time, budget>>

\* Time passes in a read with a timeout.
Tick ==
  /\ pc \in {"select", "timedRead", "adjust"}
  /\ waited' = IF waited < MaxClock THEN waited + 1 ELSE waited
  /\ clock' = IF clock < MaxClock THEN clock + 1 ELSE clock
  /\ UNCHANGED <<options, flags, pc, locals, outcome, device, budget>>

ClockSetBack ==
  /\ pc \in {"select", "timedRead", "adjust"}
  /\ clock > 0
  /\ clock' = 0
  /\ UNCHANGED <<options, flags, pc, locals, outcome, device, waited, budget>>

-----------------------------------------------------------------------------

Call ==
  \/ \E n \in Asked : dio_common_read(n) \/ dio_common_write(n)
  \/ MayLimit /\ \E t \in Limits \ {0} : SetReadTimeout(t)
  \/ MayDisable /\ SetReadTimeout(0)
  \/ MayBlock /\ \E v \in BOOLEAN : SetBlocking(v)

\* What the process goes on with inside a call.
Process ==
  \/ ReadReturns \/ ReadEnds \/ ReadFails(Again)
  \/ SelectReady \/ SelectTimesOut
  \/ TimedReadGets \/ TimedReadEnds \/ TimedReadFails(Again) \/ Adjust
  \/ WriteReturns \/ WriteFails(Again) \/ WriteFails(Unplugged)

\* A signal arrives while the process waits in a system call.
Signalled ==
  \/ SelectInterrupted
  \/ ~nonblock /\ (ReadFails(Interrupt) \/ TimedReadFails(Interrupt) \/ WriteFails(Interrupt))

Environment == Arrive \/ HangUp \/ Steal \/ Drain \/ Tick \/ ClockSetBack

Next == Call \/ Process \/ Signalled \/ Environment

\* A call goes on when it can, time passes, and a device that can send sends.
\* Nothing has to arrive, no signal has to come, and no script has to call.
Fairness == WF_vars(Process) /\ WF_vars(Tick) /\ WF_vars(Drain)

Spec == Init /\ [][Next]_vars /\ Fairness

\* A script that keeps reading from the stream, whatever else it calls.
ReadingSpec == Spec /\ SF_vars(\E n \in Asked : dio_common_read(n))

-----------------------------------------------------------------------------
(* Properties. *)

TypeOK ==
  /\ is_blocking \in BOOLEAN /\ has_timeout \in BOOLEAN /\ nonblock \in BOOLEAN
  /\ timed_out \in BOOLEAN /\ end_of_file \in BOOLEAN /\ hungup \in BOOLEAN
  /\ limit \in Nat
  /\ pc \in {"idle", "read", "select", "timedRead", "adjust", "write"}
  /\ asked \in Asked \union {0} /\ moved \in Nat
  /\ ptr \in Int /\ count \in 0 .. Error /\ total \in 0 .. Error
  /\ result \in -1 .. SizeModulus \div 2 - 1
  /\ errno \in {"none", "EAGAIN", "EINTR", "EIO"}
  /\ timeout.sec \in Nat /\ timeout.usec \in Nat /\ before.sec \in Nat /\ before.usec \in Nat
  /\ input \in 0 .. MaxInput /\ room \in 0 .. MaxRoom
  /\ clock \in 0 .. MaxClock /\ waited \in 0 .. MaxClock
  /\ signals \in 0 .. MaxSignal /\ stolen \in 0 .. MaxSteal

\* A call returns the number of bytes the kernel moved for it, no more than
\* were asked for, and an error only if none were: no read loses bytes that it
\* took from the device, and no write sends bytes that its caller sends again.
CallAccounts ==
  [][pc # "idle" /\ pc' = "idle" =>
       /\ moved' <= asked
       /\ result' = moved' \/ (result' = -1 /\ moved' = 0)]_vars

\* Where dio_common_read() calls read() in its loop, ptr and count describe the
\* part of the caller's buffer that no byte went to yet, also after a failed
\* select() whose result, a size_t, is not below zero.
ReadsIntoTheRest ==
  pc = "timedRead" => ptr = moved /\ ptr + count = asked

\* A call on a stream whose descriptor has O_NONBLOCK set returns, whatever the
\* device does, and so does every write to a device that has room again or
\* hangs up.
CallsReturn ==
  pc # "idle" /\ (nonblock \/ pc = "write") ~> pc = "idle"

\* A script that keeps reading sees the end of a line that hung up, whether the
\* stream blocks, has a timeout or neither.
EndIsSeen == hungup ~> end_of_file

\* What the comment in dio_common_read says of reads that block: "If
\* interrupted try again."
ReadOutlivesSignals ==
  [][pc = "read" /\ pc' = "idle" /\ result' = -1 => errno' # "EINTR"]_vars

\* What the comment at "timed_out = 1" says: "we've run out of time".
TimedOutInTime ==
  [][timed_out' /\ ~timed_out => waited >= AsTicks(timeout)]_vars

=============================================================================
