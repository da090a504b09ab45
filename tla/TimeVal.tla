------------------------------ MODULE TimeVal -------------------------------
(***************************************************************************)
(* The arithmetic of timeval.h, with which iomanage keeps its timers, and  *)
(* the use that timer() and run() make of it.  A time_t is an integer; the *)
(* program's times are far from its ends.                                  *)
(***************************************************************************)
EXTENDS Integers

\* Microseconds in a second
Million == 1000000

\* A time, and a time in normal form
Time == [tv_sec : Int, tv_usec : Int]
Normal == [tv_sec : Int, tv_usec : 0 .. Million - 1]

At(sec, usec) == [tv_sec |-> sec, tv_usec |-> usec]

\* a + b and a - b
Sum(a, b) ==
  LET usec == a.tv_usec + b.tv_usec IN
  IF usec >= Million
  THEN At(a.tv_sec + b.tv_sec + 1, usec - Million)
  ELSE At(a.tv_sec + b.tv_sec, usec)

Difference(a, b) ==
  LET usec == a.tv_usec - b.tv_usec IN
  IF usec < 0
  THEN At(a.tv_sec - b.tv_sec - 1, usec + Million)
  ELSE At(a.tv_sec - b.tv_sec, usec)

\* ... with a number of seconds on the right, and on the left
SumSec(a, s) == At(a.tv_sec + s, a.tv_usec)
DifferenceSec(a, s) == At(a.tv_sec - s, a.tv_usec)
SecDifference(s, b) == Difference(At(s, 0), b)

\* a < b and a <= b
Less(a, b) == IF a.tv_sec = b.tv_sec THEN a.tv_usec < b.tv_usec ELSE a.tv_sec < b.tv_sec
LessEq(a, b) == ~Less(b, a)

\* ... with a number of seconds on the right: <, <=, >, >=
LessSec(a, s) == a.tv_sec < s
LessEqSec(a, s) == IF a.tv_sec = s THEN a.tv_usec = 0 ELSE a.tv_sec < s
GreaterSec(a, s) == IF a.tv_sec = s THEN a.tv_usec > 0 ELSE a.tv_sec > s
GreaterEqSec(a, s) == a.tv_sec >= s

\* ... and on the left: >, <=
SecGreater(s, b) == s > b.tv_sec
SecLessEq(s, b) == s <= b.tv_sec

\* A number of seconds, and of milliseconds and microseconds that are not
\* negative, as all that the program gives
Seconds(s) == At(s, 0)
Millisec(s) == At(s \div 1000, (s % 1000) * 1000)
Microsec(s) == At(s \div Million, s % Million)

-----------------------------------------------------------------------------
\* iomanage::timer: when the timer fires
TimerAt(when, now) == Sum(when, now)

\* timeout::operator<, and the element that std::priority_queue has on top
TimeoutLess(a, b) == Less(b, a)
IsTop(wait, t) == t \in wait /\ \A u \in wait : ~TimeoutLess(t, u)

\* run(): the timer on top fires; otherwise select() waits for at most this
Due(t, now) == LessEqSec(Difference(t, now), 0)
SelectWait(t, now) == Difference(t, now)

-----------------------------------------------------------------------------
\* What a time means
Micro(t) == t.tv_sec * Million + t.tv_usec
=============================================================================
