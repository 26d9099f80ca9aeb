------------------------- MODULE DioTimevalLemmas -------------------------
(***************************************************************************)
(* What dio_timeval_subtract() computes, for all normalised times.         *)
(***************************************************************************)
EXTENDS DioTimeval, TLAPS

LEMMA Fields ==
  ASSUME NEW tv \in Timeval
  PROVE  tv.sec \in Nat /\ tv.usec \in Nat /\ tv.usec < UsecPerSec
<1>1. UsecPerSec \in Nat
  BY SMT DEF UsecPerSec
<1>. QED  BY SMT, <1>1 DEF Timeval

\* The order of two times is the order of their fields.
LEMMA FieldOrder ==
  ASSUME NEW s \in Nat, NEW u \in Nat, u < UsecPerSec,
         NEW t \in Nat, NEW v \in Nat, v < UsecPerSec
  PROVE  (s < t \/ (s = t /\ u < v)) <=> s * UsecPerSec + u < t * UsecPerSec + v
BY SMT DEF UsecPerSec

\* Comparing field by field compares the times.
LEMMA EarlierIsLess ==
  ASSUME NEW a \in Timeval, NEW b \in Timeval
  PROVE  Earlier(a, b) <=> Micros(a) < Micros(b)
BY Fields, FieldOrder DEF Earlier, Micros

\* Borrowing a second where it is needed keeps the second field in its range
\* and loses no time.
LEMMA DifferenceIsExact ==
  ASSUME NEW late \in Timeval, NEW early \in Timeval, ~Earlier(late, early)
  PROVE  /\ Difference(late, early) \in Timeval
         /\ Micros(Difference(late, early)) = Micros(late) - Micros(early)
<1>1. PICK s \in Nat, u \in Nat : s = late.sec /\ u = late.usec /\ u < UsecPerSec
  BY Fields
<1>2. PICK t \in Nat, v \in Nat : t = early.sec /\ v = early.usec /\ v < UsecPerSec
  BY Fields
<1> DEFINE borrow == IF u < v THEN 1 ELSE 0
           sec    == s - borrow - t
           usec   == u + borrow * UsecPerSec - v
<1>3. t < s \/ (s = t /\ v <= u)
  BY SMT, <1>1, <1>2 DEF Earlier
<1>4. /\ sec \in Nat /\ usec \in Nat /\ usec < UsecPerSec
      /\ sec * UsecPerSec + usec = (s * UsecPerSec + u) - (t * UsecPerSec + v)
  <2>1. CASE u < v
    <3>1. sec = s - 1 - t /\ usec = u + UsecPerSec - v
      BY SMT, <2>1 DEF UsecPerSec
    <3>. HIDE DEF sec, usec
    <3>. QED  BY SMT, <1>1, <1>2, <1>3, <2>1, <3>1 DEF UsecPerSec
  <2>2. CASE ~(u < v)
    <3>1. sec = s - t /\ usec = u - v
      BY SMT, <2>2 DEF UsecPerSec
    <3>. HIDE DEF sec, usec
    <3>2. s >= t /\ u >= v /\ u < UsecPerSec /\ UsecPerSec \in Nat
      BY SMT, <1>1, <1>3, <2>2 DEF UsecPerSec
    <3>3. sec \in Nat /\ usec \in Nat /\ usec < UsecPerSec
      BY SMT, <3>1, <3>2
    <3>4. sec * UsecPerSec + usec = (s * UsecPerSec + u) - (t * UsecPerSec + v)
      BY SMT, <3>1 DEF UsecPerSec
    <3>. QED  BY <3>3, <3>4
  <2>. QED  BY <2>1, <2>2
<1>5. Difference(late, early) = [sec |-> sec, usec |-> usec]
  BY <1>1, <1>2 DEF Difference
<1>6. UsecPerSec \in Nat
  BY SMT DEF UsecPerSec
<1>. HIDE DEF sec, usec
<1>. QED  BY SMT, <1>1, <1>2, <1>4, <1>5, <1>6 DEF Timeval, Micros

LEMMA InPlaceIsZero ==
  ASSUME NEW timeout, NEW early \in Timeval
  PROVE  /\ SubtractInPlace(timeout, early).diff = Zero
         /\ OutOfTime(SubtractInPlace(timeout, early))
<1>1. early.sec \in Nat /\ early.usec \in Nat
  BY Fields
<1>2. CASE early.sec = 0 /\ early.usec = 0
  <2>1. SubtractInPlace(timeout, early) = [ret |-> 1, diff |-> Difference(Zero, early)]
    BY <1>2 DEF SubtractInPlace, dio_timeval_subtract, Earlier, Zero
  <2>2. Difference(Zero, early) = Zero
    BY <1>2, SMT DEF Difference, Zero, UsecPerSec
  <2>3. 0 \div UsecPerMsec = 0
    BY SMT DEF UsecPerMsec
  <2>. QED  BY <2>1, <2>2, <2>3 DEF OutOfTime, Zero
<1>3. CASE early.sec > 0 \/ early.usec > 0
  <2>1. Earlier(Zero, early)
    BY SMT, <1>1, <1>3 DEF Earlier, Zero
  <2>. QED  BY <2>1 DEF SubtractInPlace, dio_timeval_subtract, OutOfTime
<1>. QED  BY <1>1, <1>2, <1>3

\* The difference of two normalised times is a normalised time.
LEMMA SubtractIsTimeval ==
  ASSUME NEW late \in Timeval, NEW early \in Timeval
  PROVE  dio_timeval_subtract(late, early).diff \in Timeval
<1>1. UsecPerSec \in Nat /\ UsecPerSec > 0
  BY SMT DEF UsecPerSec
<1>2. Zero \in Timeval
  BY <1>1 DEF Zero, Timeval
<1>. QED  BY <1>2, DifferenceIsExact DEF dio_timeval_subtract

===========================================================================
