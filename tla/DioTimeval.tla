---------------------------- MODULE DioTimeval ----------------------------
(***************************************************************************)
(* The arithmetic on struct timeval that dio_common_read() uses to find    *)
(* how much of a read timeout is left.  The function is called twice in a  *)
(* pass of the read loop: once with three different structures, and once   *)
(* with the result going into the structure it subtracts from.             *)
(***************************************************************************)
EXTENDS Integers

UsecPerSec  == 1000000
UsecPerMsec == 1000

\* What gettimeofday() and a valid timeout are: microseconds below a second.
Timeval == [sec : Nat, usec : 0 .. UsecPerSec - 1]

Zero == [sec |-> 0, usec |-> 0]

Micros(tv) == tv.sec * UsecPerSec + tv.usec

Earlier(a, b) == a.sec < b.sec \/ (a.sec = b.sec /\ a.usec < b.usec)

\* Mutant of Difference: the fields are subtracted without a borrow.
DifferenceWithoutBorrow(late, early) ==
  [sec |-> late.sec - early.sec, usec |-> late.usec - early.usec]

\* A microsecond field below the other borrows a second before the two fields
\* are subtracted.
Difference(late, early) ==
  LET borrow == IF late.usec < early.usec THEN 1 ELSE 0
  IN  [sec  |-> late.sec - borrow - early.sec,
       usec |-> late.usec + borrow * UsecPerSec - early.usec]

\* dio_timeval_subtract(late, early, diff): diff is cleared first, and stays
\* cleared, with the result 0, when late is the earlier of the two.  What the
\* borrow does to late is left out: no caller looks at late again.
dio_timeval_subtract(late, early) ==
  IF Earlier(late, early)
  THEN [ret |-> 0, diff |-> Zero]
  ELSE [ret |-> 1, diff |-> Difference(late, early)]

\* Mutant of SubtractInPlace: late and diff are different structures.
SubtractApart(timeout, early) == dio_timeval_subtract(timeout, early)

\* dio_timeval_subtract(timeout, early, timeout): clearing diff clears the
\* structure that late points to as well, before it is looked at.
SubtractInPlace(timeout, early) == dio_timeval_subtract(Zero, early)

\* Mutant of OutOfTime: only the result of the subtraction is looked at.
OutOfTimeOnError(rest) == rest.ret = 0

\* "If it errors we've run out of time", or less than a millisecond is left.
OutOfTime(rest) ==
  rest.ret = 0 \/ (rest.diff.sec = 0 /\ rest.diff.usec \div UsecPerMsec = 0)

===========================================================================
