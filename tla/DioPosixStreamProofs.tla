----------------------- MODULE DioPosixStreamProofs -----------------------
(***************************************************************************)
(* Proofs about the calls of DioPosixStream, for every size_t, every count *)
(* and every behaviour of the device, of signals and of the clock.         *)
(***************************************************************************)
EXTENDS DioPosixStream, DioTimevalLemmas, TLAPS

\* Between the call of a read or write and its first transfer nothing has been
\* moved; the loop of dio_common_read() gets back there never, so at the end of
\* its only pass its locals hold one transfer, one error or a time out.
Phases ==
  /\ pc \in {"read", "write", "select", "timedRead", "adjust"} => asked \in Asked
  /\ pc \in {"read", "write", "select", "timedRead"} => moved = 0
  /\ pc \in {"select", "timedRead"} => ptr = 0 /\ total = 0 /\ count = asked
  /\ pc = "adjust" =>
       \/ moved \in 0 .. asked /\ total = moved
       \/ moved = 0 /\ total = Error

Clocks ==
  /\ clock \in Nat
  /\ pc \in {"select", "timedRead", "adjust"} => before \in Timeval

IInv ==
  /\ pc \in {"idle", "read", "write", "select", "timedRead", "adjust"}
  /\ Phases
  /\ Clocks

-----------------------------------------------------------------------------
(* Arithmetic. *)

LEMMA SmallMod ==
  ASSUME NEW m \in Nat \ {0}, NEW x \in 0 .. m - 1
  PROVE  x % m = x
BY SMT

LEMMA Sizes ==
  ASSUME StreamAssumption
  PROVE  /\ SizeModulus \in Nat \ {0} /\ Error \in Nat
         /\ Signed(Error) = -1
         /\ (0 + Error) % SizeModulus = Error
         /\ \A n \in Asked : n \in Nat /\ n > 0
         /\ \A n \in Asked : \A k \in 0 .. n :
              /\ Signed(k) = k
              /\ (0 + k) % SizeModulus = k
BY SmallMod, SMT DEF StreamAssumption, Error, Signed

LEMMA TicksAreTimeval ==
  ASSUME StreamAssumption, NEW t \in Nat
  PROVE  AsTimeval(t) \in Timeval
<1>1. t * TickUsec \in Nat
  BY DEF StreamAssumption
<1>2. UsecPerSec \in Nat \ {0}
  BY SMT DEF UsecPerSec
<1>3. \A u \in Nat : u \div UsecPerSec \in Nat /\ u % UsecPerSec \in 0 .. UsecPerSec - 1
  BY SMT, <1>2
<1>. QED  BY <1>1, <1>3 DEF AsTimeval, Timeval

-----------------------------------------------------------------------------
(* The steps. *)

LEMMA InitIInv == StreamAssumption /\ Init => IInv
  BY DEF Init, dio_assoc_array_get_basic_options, IInv, Phases, Clocks

\* At the end of a pass nothing is left of the timeout: the call returns.
LEMMA AdjustReturns ==
  ASSUME StreamAssumption, IInv, Adjust
  PROVE  /\ pc' = "idle" /\ result' = Signed(total) /\ moved' = moved /\ clock' = clock
<1> DEFINE now   == AsTimeval(clock)
           spent == dio_timeval_subtract(now, before).diff
<1>1. pc = "adjust"
  BY DEF Adjust
<1>2. now \in Timeval /\ before \in Timeval
  BY <1>1, TicksAreTimeval DEF IInv, Clocks
<1>3. spent \in Timeval
  BY <1>2, SubtractIsTimeval
<1>4. OutOfTime(SubtractInPlace(timeout, spent))
  BY <1>3, InPlaceIsZero
<1>. HIDE DEF spent
<1>5. count = 0 \/ OutOfTime(SubtractInPlace(timeout, spent))
  BY <1>4
<1>. QED  BY <1>5 DEF Adjust, Return, spent

LEMMA CallStep ==
  ASSUME StreamAssumption, IInv, Call
  PROVE  IInv'
<1>1. ASSUME NEW n \in Asked, dio_common_read(n)
      PROVE  IInv'
  <2>1. clock' \in Nat
    BY <1>1 DEF dio_common_read, StreamAssumption
  <2>2. CASE has_timeout
    BY <1>1, <2>1, <2>2, TicksAreTimeval DEF dio_common_read, IInv, Phases, Clocks
  <2>3. CASE ~has_timeout
    BY <1>1, <2>1, <2>3 DEF dio_common_read, IInv, Phases, Clocks
  <2>. QED  BY <2>2, <2>3
<1>2. ASSUME NEW n \in Asked, dio_common_write(n)
      PROVE  IInv'
  BY <1>2 DEF dio_common_write, IInv, Phases, Clocks, time
<1>3. ASSUME NEW t, SetReadTimeout(t)
      PROVE  IInv'
  BY <1>3 DEF SetReadTimeout, IInv, Phases, Clocks, time
<1>4. ASSUME NEW v, SetBlocking(v)
      PROVE  IInv'
  BY <1>4 DEF SetBlocking, IInv, Phases, Clocks, time
<1>. QED  BY <1>1, <1>2, <1>3, <1>4 DEF Call

\* The steps that end a call, or leave it where it is.
LEMMA ReturnStep ==
  ASSUME StreamAssumption, IInv,
         \/ ReadReturns \/ ReadEnds \/ TimedReadEnds \/ Adjust \/ WriteReturns
         \/ ReadFails(Again) \/ ReadFails(Interrupt)
         \/ WriteFails(Again) \/ WriteFails(Unplugged) \/ WriteFails(Interrupt)
  PROVE  IInv'
<1>1. CASE Adjust
  BY <1>1, AdjustReturns DEF IInv, Phases, Clocks
<1>2. CASE ReadReturns \/ ReadEnds \/ TimedReadEnds \/ WriteReturns
             \/ ReadFails(Again) \/ ReadFails(Interrupt)
  BY <1>2 DEF ReadReturns, ReadEnds, TimedReadEnds, WriteReturns, ReadFails, Return,
              IInv, Phases, Clocks, time
<1>3. CASE WriteFails(Again) \/ WriteFails(Unplugged) \/ WriteFails(Interrupt)
  BY <1>3 DEF WriteFails, Return, IInv, Phases, Clocks, time, locals
<1>. QED  BY <1>1, <1>2, <1>3

LEMMA SelectStep ==
  ASSUME StreamAssumption, IInv, SelectReady \/ SelectTimesOut \/ SelectInterrupted
  PROVE  IInv'
<1>1. CASE SelectReady \/ SelectInterrupted
  BY <1>1 DEF SelectReady, SelectInterrupted, IInv, Phases, Clocks, time, locals, outcome
<1>2. CASE SelectTimesOut
  <2>1. asked \in Asked /\ moved = 0 /\ total = 0
    BY <1>2 DEF SelectTimesOut, IInv, Phases
  <2>2. moved \in 0 .. asked /\ total = moved
    BY <2>1, Sizes DEF StreamAssumption
  <2>. QED  BY <1>2, <2>1, <2>2 DEF SelectTimesOut, IInv, Phases, Clocks, time, locals, outcome
<1>. QED  BY <1>1, <1>2

LEMMA TransferStep ==
  ASSUME StreamAssumption, IInv,
         TimedReadGets \/ TimedReadFails(Again) \/ TimedReadFails(Interrupt)
  PROVE  IInv'
<1>1. pc = "timedRead" /\ asked \in Asked /\ moved = 0 /\ total = 0 /\ count = asked
  BY DEF TimedReadGets, TimedReadFails, IInv, Phases
<1>2. pc' = "adjust" /\ asked' = asked /\ clock' = clock /\ before' = before
  BY DEF TimedReadGets, TimedReadFails, time
<1>3. CASE TimedReadGets
  <2>1. PICK k \in 1 .. asked : moved' = 0 + k /\ total' = (0 + k) % SizeModulus
    BY <1>1, <1>3 DEF TimedReadGets, Account
  <2>2. k \in 0 .. asked
    BY <1>1, Sizes
  <2>3. moved' = k /\ total' = k
    BY <1>1, <2>1, <2>2, Sizes
  <2>. QED  BY <1>1, <1>2, <2>2, <2>3 DEF IInv, Phases, Clocks
<1>4. CASE TimedReadFails(Again) \/ TimedReadFails(Interrupt)
  <2>1. moved' = 0 /\ total' = (0 + Error) % SizeModulus
    BY <1>1, <1>4 DEF TimedReadFails, Account
  <2>. QED  BY <1>1, <1>2, <2>1, Sizes DEF IInv, Phases, Clocks
<1>. QED  BY <1>3, <1>4

LEMMA EnvironmentStep ==
  ASSUME StreamAssumption, IInv, Environment
  PROVE  IInv'
BY DEF Environment, Arrive, HangUp, Steal, Drain, Tick, ClockSetBack, IInv, Phases, Clocks,
       StreamAssumption, locals, outcome, time

LEMMA StepKeepsIInv == StreamAssumption /\ IInv /\ [Next]_vars => IInv'
<1> SUFFICES ASSUME StreamAssumption, IInv, [Next]_vars
             PROVE  IInv'
  OBVIOUS
<1>1. CASE Next
  BY <1>1, CallStep, ReturnStep, SelectStep, TransferStep, EnvironmentStep
     DEF Next, Process, Signalled
<1>2. CASE UNCHANGED vars
  BY <1>2 DEF vars, locals, outcome, time, IInv, Phases, Clocks
<1>. QED  BY <1>1, <1>2

LEMMA SpecIInv == Spec => []IInv
  BY StreamAssumption, InitIInv, StepKeepsIInv, PTL DEF Spec

-----------------------------------------------------------------------------
(* What follows. *)

\* Whenever the loop of dio_common_read() reads, it reads into the part of the
\* buffer that is free, whatever select() returned before.
THEOREM LoopReadsIntoTheRest == Spec => []ReadsIntoTheRest
<1>1. IInv => ReadsIntoTheRest
  <2> SUFFICES ASSUME IInv, pc = "timedRead"
               PROVE  ptr = moved /\ ptr + count = asked
    BY DEF ReadsIntoTheRest
  <2>1. asked \in Asked /\ moved = 0 /\ ptr = 0 /\ count = asked
    BY DEF IInv, Phases
  <2>2. asked \in Nat
    BY <2>1, Sizes, StreamAssumption
  <2>. QED  BY <2>1, <2>2
<1>. QED  BY <1>1, SpecIInv, PTL

LEMMA EndOfCall ==
  ASSUME StreamAssumption, IInv, Next, pc # "idle", pc' = "idle"
  PROVE  /\ moved' <= asked
         /\ result' = moved' \/ (result' = -1 /\ moved' = 0)
<1>1. asked \in Asked /\ asked \in Nat /\ asked > 0
  BY Sizes DEF IInv, Phases
<1>2. CASE ReadReturns \/ WriteReturns
  <2>1. PICK k \in 1 .. asked : moved' \in {k, moved + k} /\ result' = k
    BY <1>2 DEF ReadReturns, WriteReturns, Return
  <2>2. moved = 0
    BY <1>2 DEF ReadReturns, WriteReturns, IInv, Phases
  <2>. QED  BY <1>1, <2>1, <2>2
<1>3. CASE ReadEnds \/ TimedReadEnds
  <2>1. moved' = 0 /\ (result' = 0 \/ result' = Signed(0))
    BY <1>3 DEF ReadEnds, TimedReadEnds, Return, IInv, Phases
  <2>. QED  BY <1>1, <2>1, Sizes
<1>4. CASE Adjust
  <2>1. moved' = moved /\ result' = Signed(total) /\ pc = "adjust"
    BY <1>4, AdjustReturns DEF Adjust
  <2>2. CASE moved \in 0 .. asked /\ total = moved
    BY <1>1, <2>1, <2>2, Sizes
  <2>3. CASE moved = 0 /\ total = Error
    BY <1>1, <2>1, <2>3, Sizes
  <2>. QED  BY <2>1, <2>2, <2>3 DEF IInv, Phases
<1>5. CASE ReadFails(Again) \/ ReadFails(Interrupt)
  BY <1>1, <1>5, Sizes DEF ReadFails, Return, IInv, Phases
<1>6. CASE WriteFails(Again) \/ WriteFails(Unplugged) \/ WriteFails(Interrupt)
  BY <1>1, <1>6 DEF WriteFails, Return, IInv, Phases
<1>7. ASSUME Call \/ Environment \/ SelectReady \/ SelectTimesOut \/ SelectInterrupted
             \/ TimedReadGets \/ TimedReadFails(Again) \/ TimedReadFails(Interrupt)
      PROVE  FALSE
  BY <1>7 DEF Call, dio_common_read, dio_common_write, SetReadTimeout, SetBlocking,
     Environment, Arrive, HangUp, Steal, Drain, Tick, ClockSetBack, SelectReady,
     SelectTimesOut, SelectInterrupted, TimedReadGets, TimedReadFails
<1>. QED  BY <1>2, <1>3, <1>4, <1>5, <1>6, <1>7 DEF Next, Process, Signalled

\* A read with a timeout makes one pass of its loop, and unless that pass got
\* all its bytes the read is reported as timed out, however little time it took.
OnePass ==
  [][pc = "adjust" /\ pc' # pc => pc' = "idle" /\ timed_out' = (count # 0)]_vars

\* For every timeout and every behaviour of the clock: the loop that is to wait
\* for the rest of the bytes is none.
THEOREM TimedReadMakesOnePass == Spec => OnePass
<1>1. ASSUME IInv, Next, pc = "adjust", pc' # pc
      PROVE  pc' = "idle" /\ timed_out' = (count # 0)
  <2>1. CASE Adjust
    <3>1. pc' = "idle"
      BY <1>1, <2>1, AdjustReturns, StreamAssumption
    <3>. QED  BY <2>1, <3>1 DEF Adjust
  <2>2. ASSUME ~Adjust PROVE FALSE
    BY <1>1, <2>2 DEF Next, Call, dio_common_read, dio_common_write, SetReadTimeout,
       SetBlocking, Environment, Arrive, HangUp, Steal, Drain, Tick, ClockSetBack, Process,
       Signalled, SelectReady, SelectTimesOut, SelectInterrupted, TimedReadGets,
       TimedReadFails, TimedReadEnds, ReadReturns, ReadEnds, ReadFails, WriteReturns, WriteFails
  <2>. QED  BY <2>1, <2>2
<1>2. IInv /\ [Next]_vars =>
        [pc = "adjust" /\ pc' # pc => pc' = "idle" /\ timed_out' = (count # 0)]_vars
  BY <1>1
<1>. QED  BY <1>2, SpecIInv, PTL DEF Spec, OnePass

\* Every call returns the number of bytes moved for it, or an error and none
\* were: for every width of size_t and every count that fits a ssize_t.
THEOREM CallsAccount == Spec => CallAccounts
<1>1. IInv /\ [Next]_vars =>
        [pc # "idle" /\ pc' = "idle" =>
           /\ moved' <= asked
           /\ result' = moved' \/ (result' = -1 /\ moved' = 0)]_vars
  BY EndOfCall, StreamAssumption
<1>. QED  BY <1>1, SpecIInv, PTL DEF Spec, CallAccounts

-----------------------------------------------------------------------------
(* The types.  Clocks, timeouts and counts stay in their ranges because of   *)
(* what Phases says of a call.                                               *)

\* What a call may return, as a ssize_t.
LEMMA Results ==
  ASSUME StreamAssumption
  PROVE  /\ {-1, 0} \subseteq -1 .. SizeModulus \div 2 - 1
         /\ Signed(0) = 0 /\ Signed(Error) = -1
         /\ \A n \in Asked : \A k \in 0 .. n :
              Signed(k) = k /\ k \in -1 .. SizeModulus \div 2 - 1
<1>1. \A n \in Asked : n \in 1 .. SizeModulus \div 2 - 1
  BY DEF StreamAssumption
<1>2. SizeModulus \div 2 - 1 \in Nat /\ Signed(0) = 0
  BY SMT DEF StreamAssumption, Signed
<1>. QED  BY <1>1, <1>2, Sizes

LEMMA CauseTypes ==
  ASSUME StreamAssumption, TypeOK
  PROVE  /\ Again => errno' = "EAGAIN" /\ stolen' = stolen /\ signals' = signals
         /\ Unplugged => errno' = "EIO" /\ stolen' = stolen /\ signals' = signals
         /\ Interrupt => errno' = "EINTR" /\ stolen' = stolen /\ signals' \in 0 .. MaxSignal
         /\ stolen \in 0 .. MaxSteal /\ signals \in 0 .. MaxSignal
BY DEF StreamAssumption, TypeOK, Again, Unplugged, Interrupt, budget

LEMMA AccountTypes ==
  ASSUME StreamAssumption, TypeOK, NEW n \in 0 .. Error, Account(n)
  PROVE  ptr' \in Int /\ count' \in 0 .. Error /\ total' \in 0 .. Error
<1>1. SizeModulus \in Nat \ {0} /\ Signed(n) \in Int
  BY SMT DEF StreamAssumption, Signed, Error
<1>2. \A x \in Int : x % SizeModulus \in 0 .. Error
  BY <1>1, SMT DEF Error
<1>3. count - n \in Int /\ total + n \in Int /\ ptr + Signed(n) \in Int
  BY <1>1 DEF TypeOK, Error, StreamAssumption
<1>. QED  BY <1>2, <1>3 DEF Account

LEMMA CallTypes ==
  ASSUME StreamAssumption, TypeOK, Call
  PROVE  TypeOK'
<1>1. ASSUME NEW n \in Asked, dio_common_read(n)
      PROVE  TypeOK'
  <2>1. clock' \in 0 .. MaxClock /\ n \in 0 .. Error
    BY <1>1, Sizes DEF dio_common_read, StreamAssumption, Error
  <2>2. 0 \in 0 .. Error /\ 0 \in 0 .. MaxClock
    BY DEF StreamAssumption, Error
  <2>3. \A t \in Nat : AsTimeval(t).sec \in Nat /\ AsTimeval(t).usec \in Nat
    BY TicksAreTimeval, Fields
  <2>4. CASE has_timeout
    <3>1. limit \in Nat /\ clock' \in Nat
      BY <2>1 DEF TypeOK, StreamAssumption
    <3>2. timeout' = AsTimeval(limit) /\ before' = AsTimeval(clock') /\ waited' = 0
      BY <1>1, <2>4 DEF dio_common_read
    <3>3. /\ timeout'.sec \in Nat /\ timeout'.usec \in Nat
          /\ before'.sec \in Nat /\ before'.usec \in Nat
      BY <2>3, <3>1, <3>2
    <3>4. /\ pc' = "select" /\ asked' = n /\ moved' = 0 /\ timed_out' = FALSE
          /\ ptr' = 0 /\ count' = n /\ total' = 0
          /\ UNCHANGED <<options, end_of_file, result, errno, device, budget>>
      BY <1>1, <2>4 DEF dio_common_read
    <3>5. /\ is_blocking' \in BOOLEAN /\ has_timeout' \in BOOLEAN /\ nonblock' \in BOOLEAN
          /\ end_of_file' \in BOOLEAN /\ hungup' \in BOOLEAN /\ limit' \in Nat
          /\ errno' \in {"none", "EAGAIN", "EINTR", "EIO"}
          /\ result' \in -1 .. SizeModulus \div 2 - 1
      BY <3>4 DEF TypeOK, options, device
    <3>6. /\ input' \in 0 .. MaxInput /\ room' \in 0 .. MaxRoom
          /\ signals' \in 0 .. MaxSignal /\ stolen' \in 0 .. MaxSteal
      BY <3>4 DEF TypeOK, device, budget
    <3>7. /\ asked' \in Asked \union {0} /\ moved' \in Nat /\ ptr' \in Int
          /\ count' \in 0 .. Error /\ total' \in 0 .. Error
          /\ waited' \in 0 .. MaxClock
      BY <2>1, <2>2, <3>2, <3>4
    <3>8. timed_out' \in BOOLEAN /\ pc' = "select"
      BY <3>4
    <3>. QED
      BY <2>1, <3>3, <3>5, <3>6, <3>7, <3>8 DEF TypeOK
  <2>5. CASE ~has_timeout
    BY <1>1, <2>1, <2>2, <2>5 DEF dio_common_read, TypeOK, options, device, budget
  <2>. QED  BY <2>4, <2>5
<1>2. ASSUME NEW n \in Asked, dio_common_write(n)
      PROVE  TypeOK'
  BY <1>2 DEF dio_common_write, TypeOK, options, flags, device, time, budget
<1>3. ASSUME NEW t \in Limits \union {0}, SetReadTimeout(t)
      PROVE  TypeOK'
  BY <1>3 DEF SetReadTimeout, TypeOK, locals, outcome, device, time, budget, StreamAssumption
<1>4. ASSUME NEW v \in BOOLEAN, SetBlocking(v)
      PROVE  TypeOK'
  BY <1>4 DEF SetBlocking, TypeOK, flags, locals, outcome, device, time, budget
<1>. QED  BY <1>1, <1>2, <1>3, <1>4 DEF Call

LEMMA ReadTypes ==
  ASSUME StreamAssumption, IInv, TypeOK,
         \/ ReadReturns \/ ReadEnds \/ TimedReadEnds \/ Adjust
         \/ ReadFails(Again) \/ ReadFails(Interrupt)
  PROVE  TypeOK'
<1>1. CASE ReadReturns
  <2>1. PICK k \in 1 .. asked : k <= input /\ input' = input - k /\ moved' = k /\ result' = k
    BY <1>1 DEF ReadReturns, Return
  <2>2. asked \in Asked /\ pc' = "idle"
    BY <1>1 DEF ReadReturns, Return, IInv, Phases
  <2>3. input' \in 0 .. MaxInput /\ moved' \in Nat
    BY <2>1, <2>2, Sizes DEF TypeOK, StreamAssumption
  <2>4. result' \in -1 .. SizeModulus \div 2 - 1
    BY <2>1, <2>2, Results
  <2>. QED
    BY <1>1, <2>2, <2>3, <2>4 DEF ReadReturns, TypeOK, options, flags, locals, time, budget
<1>2. CASE ReadEnds
  BY <1>2, Results DEF ReadEnds, Return, TypeOK, options, locals, device, time, budget
<1>3. CASE TimedReadEnds
  <2>1. total = 0
    BY <1>3 DEF TimedReadEnds, IInv, Phases
  <2>2. result' = 0 /\ 0 \in -1 .. SizeModulus \div 2 - 1
    BY <1>3, <2>1, Results DEF TimedReadEnds, Return
  <2>. QED
    BY <1>3, <2>2 DEF TimedReadEnds, Return, TypeOK, options, locals, device, time, budget
<1>4. CASE Adjust
  <2>1. pc = "adjust" /\ pc' = "idle" /\ result' = Signed(total)
    BY <1>4, AdjustReturns DEF Adjust
  <2>2. total \in 0 .. asked \/ total = Error
    BY <2>1 DEF IInv, Phases
  <2>3. result' \in -1 .. SizeModulus \div 2 - 1
    BY <2>1, <2>2, Results DEF IInv, Phases
  <2>4. /\ UNCHANGED <<options, end_of_file, asked, ptr, count, total, moved, errno, device,
                       clock, budget>>
        /\ UNCHANGED <<timeout, before, waited>> /\ timed_out' \in BOOLEAN
    BY <1>4, <2>1 DEF Adjust
  <2>. QED  BY <2>1, <2>3, <2>4 DEF TypeOK, options, device, budget
<1>5. CASE ReadFails(Again) \/ ReadFails(Interrupt)
  <2>1. /\ pc' = "idle" /\ result' \in -1 .. SizeModulus \div 2 - 1
        /\ UNCHANGED <<options, flags, locals, moved, device, time>>
    BY <1>5, Results DEF ReadFails, Return
  <2>2. /\ errno' \in {"EAGAIN", "EINTR"} /\ stolen' \in 0 .. MaxSteal
        /\ signals' \in 0 .. MaxSignal
    BY <1>5, CauseTypes DEF ReadFails
  <2>. QED  BY <2>1, <2>2 DEF TypeOK, options, flags, locals, device, time
<1>. QED  BY <1>1, <1>2, <1>3, <1>4, <1>5

LEMMA WriteTypes ==
  ASSUME StreamAssumption, IInv, TypeOK,
         WriteReturns \/ WriteFails(Again) \/ WriteFails(Unplugged) \/ WriteFails(Interrupt)
  PROVE  TypeOK'
<1>1. CASE WriteReturns
  <2>1. PICK k \in 1 .. asked :
          k <= room /\ room' = room - k /\ moved' = moved + k /\ result' = k
    BY <1>1 DEF WriteReturns, Return
  <2>2. asked \in Asked /\ pc' = "idle"
    BY <1>1 DEF WriteReturns, Return, IInv, Phases
  <2>3. room' \in 0 .. MaxRoom /\ moved' \in Nat
    BY <2>1, <2>2, Sizes DEF TypeOK, StreamAssumption
  <2>4. result' \in -1 .. SizeModulus \div 2 - 1
    BY <2>1, <2>2, Results
  <2>. QED
    BY <1>1, <2>2, <2>3, <2>4 DEF WriteReturns, TypeOK, options, flags, locals, time, budget
<1>2. CASE WriteFails(Again) \/ WriteFails(Unplugged) \/ WriteFails(Interrupt)
  <2>1. /\ pc' \in {"idle", pc} /\ result' \in {-1, result}
        /\ UNCHANGED <<options, flags, locals, moved, device, time>>
    BY <1>2 DEF WriteFails, Return
  <2>2. result' \in -1 .. SizeModulus \div 2 - 1
    BY <2>1, Results DEF TypeOK
  <2>3. /\ errno' \in {"EAGAIN", "EINTR", "EIO"} /\ stolen' \in 0 .. MaxSteal
        /\ signals' \in 0 .. MaxSignal
    BY <1>2, CauseTypes DEF WriteFails
  <2>. QED  BY <2>1, <2>2, <2>3 DEF TypeOK, options, flags, locals, device, time
<1>. QED  BY <1>1, <1>2

LEMMA LoopTypes ==
  ASSUME StreamAssumption, IInv, TypeOK,
         \/ SelectReady \/ SelectTimesOut \/ SelectInterrupted
         \/ TimedReadGets \/ TimedReadFails(Again) \/ TimedReadFails(Interrupt)
  PROVE  TypeOK'
<1>1. CASE SelectReady \/ SelectTimesOut
  BY <1>1 DEF SelectReady, SelectTimesOut, TypeOK, options, flags, locals, outcome, device,
              time, budget
<1>2. CASE SelectInterrupted
  BY <1>2, CauseTypes DEF SelectInterrupted, TypeOK, options, flags, locals, device, time
<1>3. CASE TimedReadGets
  <2>1. PICK k \in 1 .. count :
          k <= input /\ input' = input - k /\ moved' = moved + k /\ Account(k)
    BY <1>3 DEF TimedReadGets
  <2>2. count \in Asked
    BY <1>3 DEF TimedReadGets, IInv, Phases
  <2>3. k \in 0 .. Error
    BY <2>1, <2>2 DEF StreamAssumption, Error
  <2>4. input' \in 0 .. MaxInput /\ moved' \in Nat
    BY <2>1, <2>3 DEF TypeOK, StreamAssumption, Error
  <2>5. ptr' \in Int /\ count' \in 0 .. Error /\ total' \in 0 .. Error
    BY <2>1, <2>3, AccountTypes
  <2>. QED
    BY <1>3, <2>4, <2>5 DEF TimedReadGets, TypeOK, options, flags, time, budget
<1>4. CASE TimedReadFails(Again) \/ TimedReadFails(Interrupt)
  <2>1. ptr' \in Int /\ count' \in 0 .. Error /\ total' \in 0 .. Error
    <3>1. Error \in 0 .. Error
      BY DEF StreamAssumption, Error
    <3>. QED  BY <1>4, <3>1, AccountTypes DEF TimedReadFails
  <2>2. /\ errno' \in {"EAGAIN", "EINTR"} /\ stolen' \in 0 .. MaxSteal
        /\ signals' \in 0 .. MaxSignal
    BY <1>4, CauseTypes DEF TimedReadFails
  <2>. QED
    BY <1>4, <2>1, <2>2 DEF TimedReadFails, TypeOK, options, flags, device, time
<1>. QED  BY <1>1, <1>2, <1>3, <1>4

LEMMA EnvironmentTypes ==
  ASSUME StreamAssumption, TypeOK, Environment
  PROVE  TypeOK'
<1>1. CASE Tick \/ ClockSetBack
  <2>1. clock' \in 0 .. MaxClock /\ waited' \in 0 .. MaxClock
    BY <1>1 DEF Tick, ClockSetBack, TypeOK, StreamAssumption
  <2>2. UNCHANGED <<options, flags, pc, locals, outcome, device, budget>>
    BY <1>1 DEF Tick, ClockSetBack
  <2>. QED
    BY <2>1, <2>2 DEF TypeOK, options, flags, locals, outcome, device, budget
<1>2. CASE Arrive \/ HangUp \/ Steal \/ Drain
  <2>1. /\ input' \in 0 .. MaxInput /\ stolen' \in 0 .. MaxSteal
        /\ room' \in 0 .. MaxRoom /\ UNCHANGED signals
    BY <1>2 DEF Arrive, HangUp, Steal, Drain, TypeOK, StreamAssumption, budget
  <2>2. hungup' \in BOOLEAN
    BY <1>2 DEF Arrive, HangUp, Steal, Drain, TypeOK
  <2>3. UNCHANGED <<options, flags, pc, locals, outcome, time>>
    BY <1>2 DEF Arrive, HangUp, Steal, Drain
  <2>. QED
    BY <2>1, <2>2, <2>3 DEF TypeOK, options, flags, locals, outcome, time
<1>. QED  BY <1>1, <1>2 DEF Environment

\* Every variable keeps its type: no count of the loop leaves the size_t, and
\* no result the ssize_t.
THEOREM TypeCorrect == Spec => []TypeOK
<1>1. StreamAssumption /\ Init => TypeOK
  <2> SUFFICES ASSUME StreamAssumption, Init
               PROVE  TypeOK
    OBVIOUS
  <2>1. /\ limit \in Limits \union {0} /\ is_blocking \in BOOLEAN
        /\ has_timeout = (limit # 0) /\ nonblock = (~is_blocking \/ has_timeout)
    BY DEF Init, dio_assoc_array_get_basic_options
  <2>2. limit \in Nat
    BY <2>1 DEF StreamAssumption
  <2>3. is_blocking \in BOOLEAN /\ has_timeout \in BOOLEAN /\ nonblock \in BOOLEAN
    BY <2>1, Zenon
  <2>4. 0 \in 0 .. Error /\ 0 \in -1 .. SizeModulus \div 2 - 1
    BY Results DEF StreamAssumption, Error
  <2>5. /\ timed_out \in BOOLEAN /\ end_of_file \in BOOLEAN /\ hungup \in BOOLEAN
        /\ timeout = Zero /\ before = Zero /\ pc = "idle" /\ errno = "none"
    BY DEF Init
  <2>6. /\ asked \in Asked \union {0} /\ moved \in Nat
        /\ ptr \in Int /\ count \in 0 .. Error /\ total \in 0 .. Error
        /\ result \in -1 .. SizeModulus \div 2 - 1
    BY <2>4 DEF Init
  <2>7. /\ input \in 0 .. MaxInput /\ room \in 0 .. MaxRoom
        /\ clock \in 0 .. MaxClock /\ waited \in 0 .. MaxClock
        /\ signals \in 0 .. MaxSignal /\ stolen \in 0 .. MaxSteal
    BY DEF Init, StreamAssumption
  <2>8. Zero.sec \in Nat /\ Zero.usec \in Nat
    BY DEF Zero
  <2>. QED  BY <2>2, <2>3, <2>5, <2>6, <2>7, <2>8 DEF TypeOK
<1>2. StreamAssumption /\ IInv /\ TypeOK /\ [Next]_vars => TypeOK'
  <2>1. UNCHANGED vars /\ TypeOK => TypeOK'
    BY DEF vars, options, flags, locals, outcome, device, time, budget, TypeOK
  <2>. QED
    BY <2>1, CallTypes, ReadTypes, WriteTypes, LoopTypes, EnvironmentTypes
       DEF Next, Process, Signalled
<1>. QED  BY <1>1, <1>2, SpecIInv, StreamAssumption, PTL DEF Spec

===========================================================================
