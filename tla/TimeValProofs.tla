--------------------------- MODULE TimeValProofs ----------------------------
(***************************************************************************)
(* timeval.h computes with times as with numbers of microseconds, and the  *)
(* timers of iomanage fire in order and neither early nor late.            *)
(***************************************************************************)
EXTENDS TimeVal, TLAPS

LEMMA MillionPositive == Million \in Nat /\ Million > 999
  BY SMT DEF Million

LEMMA NormalParts ==
  ASSUME NEW a \in Normal
  PROVE  a.tv_sec \in Int /\ a.tv_usec \in Int /\ 0 <= a.tv_usec /\ a.tv_usec < Million
BY MillionPositive DEF Normal

LEMMA NormalAt ==
  ASSUME NEW s \in Int, NEW u \in Int, 0 <= u, u < Million
  PROVE  At(s, u) \in Normal
BY MillionPositive DEF At, Normal

\* Sums and differences of times in normal form are exact and in normal form
\* (timeval.h: operator+=, operator-=).
THEOREM ArithmeticExact ==
  ASSUME NEW a \in Normal, NEW b \in Normal
  PROVE  /\ Sum(a, b) \in Normal /\ Micro(Sum(a, b)) = Micro(a) + Micro(b)
         /\ Difference(a, b) \in Normal /\ Micro(Difference(a, b)) = Micro(a) - Micro(b)
<1>1. /\ a.tv_sec \in Int /\ a.tv_usec \in Int /\ 0 <= a.tv_usec /\ a.tv_usec < Million
      /\ b.tv_sec \in Int /\ b.tv_usec \in Int /\ 0 <= b.tv_usec /\ b.tv_usec < Million
  BY NormalParts
<1>2. Sum(a, b) \in Normal
  BY <1>1, MillionPositive, NormalAt DEF Sum
<1>3. Micro(Sum(a, b)) = Micro(a) + Micro(b)
  BY <1>1, SMT DEF Sum, At, Micro, Million
<1>4. Difference(a, b) \in Normal
  BY <1>1, MillionPositive, NormalAt DEF Difference
<1>5. Micro(Difference(a, b)) = Micro(a) - Micro(b)
  BY <1>1, SMT DEF Difference, At, Micro, Million
<1>6. QED
  BY <1>2, <1>3, <1>4, <1>5

\* ... with a number of seconds too.
THEOREM SecondsExact ==
  ASSUME NEW a \in Normal, NEW s \in Int
  PROVE  /\ SumSec(a, s) \in Normal /\ Micro(SumSec(a, s)) = Micro(a) + s * Million
         /\ DifferenceSec(a, s) \in Normal /\ Micro(DifferenceSec(a, s)) = Micro(a) - s * Million
         /\ SecDifference(s, a) \in Normal /\ Micro(SecDifference(s, a)) = s * Million - Micro(a)
<1>1. a.tv_sec \in Int /\ a.tv_usec \in Int /\ 0 <= a.tv_usec /\ a.tv_usec < Million
  BY NormalParts
<1>2. SumSec(a, s) \in Normal /\ DifferenceSec(a, s) \in Normal
  BY <1>1, NormalAt DEF SumSec, DifferenceSec
<1>3. /\ Micro(SumSec(a, s)) = Micro(a) + s * Million
      /\ Micro(DifferenceSec(a, s)) = Micro(a) - s * Million
  BY <1>1, SMT DEF SumSec, DifferenceSec, At, Micro, Million
<1>4. Seconds(s) \in Normal /\ Micro(Seconds(s)) = s * Million
  <2>1. Seconds(s) \in Normal
    BY MillionPositive, NormalAt DEF Seconds
  <2>2. Micro(Seconds(s)) = s * Million
    BY SMT DEF Seconds, At, Micro, Million
  <2>3. QED
    BY <2>1, <2>2
<1>5. SecDifference(s, a) = Difference(Seconds(s), a)
  BY DEF SecDifference, Seconds
<1>6. QED
  BY <1>2, <1>3, <1>4, <1>5, ArithmeticExact

\* The comparisons of times in normal form, with each other and with numbers of
\* seconds, compare microseconds (timeval.h: operator<, <=, >, >=).
THEOREM OrderExact ==
  ASSUME NEW a \in Normal, NEW b \in Normal, NEW s \in Int
  PROVE  /\ Less(a, b) <=> Micro(a) < Micro(b)
         /\ LessEq(a, b) <=> Micro(a) <= Micro(b)
         /\ LessSec(a, s) <=> Micro(a) < s * Million
         /\ LessEqSec(a, s) <=> Micro(a) <= s * Million
         /\ GreaterSec(a, s) <=> Micro(a) > s * Million
         /\ GreaterEqSec(a, s) <=> Micro(a) >= s * Million
         /\ SecGreater(s, b) <=> s * Million > Micro(b)
         /\ SecLessEq(s, b) <=> s * Million <= Micro(b)
<1>1. /\ a.tv_sec \in Int /\ a.tv_usec \in Int /\ 0 <= a.tv_usec /\ a.tv_usec < Million
      /\ b.tv_sec \in Int /\ b.tv_usec \in Int /\ 0 <= b.tv_usec /\ b.tv_usec < Million
  BY NormalParts
<1>2. Less(a, b) <=> Micro(a) < Micro(b)
  BY <1>1, SMT DEF Less, Micro, Million
<1>3. LessEq(a, b) <=> Micro(a) <= Micro(b)
  <2>1. Less(b, a) <=> Micro(b) < Micro(a)
    BY <1>1, SMT DEF Less, Micro, Million
  <2>2. Micro(a) \in Int /\ Micro(b) \in Int
    BY <1>1, MillionPositive DEF Micro
  <2>3. QED
    BY <2>1, <2>2, SMT DEF LessEq
<1>4. LessSec(a, s) <=> Micro(a) < s * Million
  BY <1>1, SMT DEF LessSec, Micro, Million
<1>5. LessEqSec(a, s) <=> Micro(a) <= s * Million
  BY <1>1, SMT DEF LessEqSec, Micro, Million
<1>6. GreaterSec(a, s) <=> Micro(a) > s * Million
  BY <1>1, SMT DEF GreaterSec, Micro, Million
<1>7. GreaterEqSec(a, s) <=> Micro(a) >= s * Million
  BY <1>1, SMT DEF GreaterEqSec, Micro, Million
<1>8. SecGreater(s, b) <=> s * Million > Micro(b)
  BY <1>1, SMT DEF SecGreater, Micro, Million
<1>9. SecLessEq(s, b) <=> s * Million <= Micro(b)
  BY <1>1, SMT DEF SecLessEq, Micro, Million
<1>10. QED
  BY <1>2, <1>3, <1>4, <1>5, <1>6, <1>7, <1>8, <1>9

\* A number of microseconds is kept exactly (timeval.h: microsec).
LEMMA MicrosecExact ==
  ASSUME NEW s \in Nat
  PROVE  Microsec(s) \in Normal /\ Micro(Microsec(s)) = s
<1> DEFINE q == s \div Million
           r == s % Million
<1>1. s = Million * q + r /\ q \in Int /\ r \in Int /\ 0 <= r /\ r < Million
  BY SMT DEF Million
<1>2. Microsec(s) = At(q, r)
  BY DEF Microsec
<1> HIDE DEF q, r
<1>3. Micro(At(q, r)) = s
  BY <1>1, SMT DEF At, Micro, Million
<1>4. QED
  BY <1>1, <1>2, <1>3, NormalAt

\* The delay of a renumbering is in normal form and exact (timeval.h: millisec).
LEMMA MillisecExact ==
  ASSUME NEW s \in Nat
  PROVE  Millisec(s) \in Normal /\ Micro(Millisec(s)) = 1000 * s
<1>1. s = 1000 * (s \div 1000) + (s % 1000) /\ s % 1000 \in 0 .. 999 /\ s \div 1000 \in Int
  OBVIOUS
<1> DEFINE q == s \div 1000
           r == s % 1000
<1>2. q \in Int /\ r \in 0 .. 999 /\ s = 1000 * q + r /\ Millisec(s) = At(q, r * 1000)
  BY <1>1 DEF Millisec
<1> HIDE DEF q, r
<1>3. At(q, r * 1000) \in Normal
  <2>1. r * 1000 \in Int /\ 0 <= r * 1000 /\ r * 1000 < Million
    BY <1>2, SMT DEF Million
  <2>2. QED
    BY <1>2, <2>1, NormalAt
<1>4. Micro(At(q, r * 1000)) = 1000 * s
  BY <1>2, SMT DEF At, Micro, Million
<1>5. QED
  BY <1>2, <1>3, <1>4

\* The timer on top of the queue is one that fires first; it is due exactly when
\* its time has come; if it is not, select() is given a valid, positive time to
\* wait, at the end of which it is due (iomanage.h: timer, operator<; run()).
THEOREM TimersInOrder ==
  ASSUME NEW wait \in SUBSET Normal, NEW t, IsTop(wait, t), NEW now \in Normal
  PROVE  /\ \A u \in wait : Micro(t) <= Micro(u)
         /\ Due(t, now) <=> Micro(t) <= Micro(now)
         /\ ~Due(t, now) => /\ SelectWait(t, now) \in Normal
                            /\ SelectWait(t, now).tv_sec >= 0
                            /\ Micro(SelectWait(t, now)) = Micro(t) - Micro(now)
<1>1. t \in Normal /\ \A u \in wait : u \in Normal /\ ~Less(u, t)
  BY DEF IsTop, TimeoutLess
<1>2. ASSUME NEW u \in wait PROVE Micro(t) <= Micro(u)
  <2>1. u \in Normal /\ ~Less(u, t)
    BY <1>1
  <2>2. LessEq(t, u)
    BY <2>1 DEF LessEq
  <2>3. 0 \in Int
    OBVIOUS
  <2>4. QED
    BY <1>1, <2>1, <2>2, <2>3, OrderExact
<1> DEFINE d == Difference(t, now)
<1>3. d \in Normal /\ Micro(d) = Micro(t) - Micro(now)
  BY <1>1, ArithmeticExact
<1>4. Micro(t) \in Int /\ Micro(now) \in Int
  BY <1>1, NormalParts, MillionPositive DEF Micro
<1>5. Due(t, now) <=> LessEqSec(d, 0)
  BY DEF Due
<1> HIDE DEF d
<1>6. LessEqSec(d, 0) <=> Micro(d) <= 0
  <2>1. LessEqSec(d, 0) <=> Micro(d) <= 0 * Million
    BY <1>3, OrderExact
  <2>2. 0 * Million = 0
    BY MillionPositive
  <2>3. QED
    BY <2>1, <2>2
<1>7. Micro(d) > 0 => d.tv_sec >= 0
  <2>1. d.tv_sec \in Int /\ d.tv_usec \in Int /\ 0 <= d.tv_usec /\ d.tv_usec < Million
    BY <1>3, NormalParts
  <2>2. QED
    BY <2>1, SMT DEF Micro, Million
<1>8. Due(t, now) <=> Micro(t) <= Micro(now)
  BY <1>3, <1>4, <1>5, <1>6
<1>9. ~Due(t, now) => d.tv_sec >= 0
  BY <1>3, <1>4, <1>7, <1>8
<1>10. SelectWait(t, now) = d
  BY DEF SelectWait, d
<1>11. QED
  BY <1>2, <1>3, <1>8, <1>9, <1>10

\* A renumber timer set for s milliseconds at one time is due at another exactly
\* when s milliseconds have passed (proxy.cpp: timer in RENUMBER_CONNECTION).
THEOREM RetryOnTime ==
  ASSUME NEW s \in Nat, NEW set \in Normal, NEW now \in Normal
  PROVE  Due(TimerAt(Millisec(s), set), now) <=> Micro(now) - Micro(set) >= 1000 * s
<1> DEFINE t == TimerAt(Millisec(s), set)
<1>1. t \in Normal /\ Micro(t) = 1000 * s + Micro(set)
  BY MillisecExact, ArithmeticExact DEF TimerAt
<1>2. Micro(set) \in Int /\ Micro(now) \in Int
  BY NormalParts, MillionPositive DEF Micro
<1> HIDE DEF t
<1>3. IsTop({t}, t)
  <2>1. ~Less(t, t)
    <3>1. t.tv_usec \in Int
      BY <1>1, NormalParts
    <3>2. QED
      BY <3>1 DEF Less
  <2>2. QED
    BY <2>1 DEF IsTop, TimeoutLess
<1>4. {t} \in SUBSET Normal
  BY <1>1
<1>5. Due(t, now) <=> Micro(t) <= Micro(now)
  BY <1>3, <1>4, TimersInOrder
<1>6. Due(t, now) <=> Micro(now) - Micro(set) >= 1000 * s
  BY <1>1, <1>2, <1>5
<1>7. QED
  BY <1>6 DEF t
=============================================================================
