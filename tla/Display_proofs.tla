--------------------------- MODULE Display_proofs ---------------------------
(***************************************************************************)
(* What the pages show of a number says what the number is.                *)
(***************************************************************************)
EXTENDS Display, Integers, TLAPS

\* Division with remainder.
LEMMA Remainder ==
  ASSUME NEW a \in Nat, NEW b \in Nat \ {0}
  PROVE  /\ a \div b \in Nat /\ a % b \in 0 .. b - 1
         /\ a = (a \div b) * b + (a % b)
<1>1. /\ a \div b \in Int /\ a % b \in 0 .. b - 1
      /\ a = b * (a \div b) + (a % b)
  OBVIOUS
<1>2. a \div b >= 0
  BY <1>1
<1> QED
  BY <1>1, <1>2

\* formatDuration: minutes and seconds are below 60, and no two durations are
\* shown alike: what is shown, read as hours, minutes and seconds, is the
\* duration.
THEOREM DurationReadsBack ==
  ASSUME NEW d \in Nat
  PROVE  LET f == FormatDuration(d)
         IN  /\ Shown(f) = d
             /\ f[Len(f)] \in 0 .. 59
             /\ Len(f) = 3 => f[2] \in 0 .. 59
<1> DEFINE h == d \div 3600
           rest == d % 3600
           m == rest \div 60
           s == d % 60
           f == FormatDuration(d)
<1>1. h \in Nat /\ rest \in 0 .. 3599 /\ d = h * 3600 + rest
  BY Remainder
<1>2. s \in 0 .. 59 /\ d = (d \div 60) * 60 + s
  BY Remainder
<1>3. m \in Nat /\ rest % 60 \in 0 .. 59 /\ rest = m * 60 + (rest % 60)
  BY <1>1, Remainder
<1>4. d \div 60 \in Nat
  BY Remainder
<1> DEFINE q == d \div 60
           t == rest % 60
<1>5. f = IF h > 0 THEN <<h, m, s>> ELSE <<m, s>>
  BY DEF FormatDuration
<1>6. d = h * 3600 + m * 60 + t
  BY <1>1, <1>3
<1> HIDE DEF h, rest, m, s, f, q, t
<1>7. s = t /\ m \in 0 .. 59
  <2>1. /\ d \in Nat /\ h \in Nat /\ m \in Nat /\ q \in Nat
        /\ s \in 0 .. 59 /\ t \in 0 .. 59 /\ rest \in 0 .. 3599
        /\ d = q * 60 + s /\ d = h * 3600 + m * 60 + t /\ rest = m * 60 + t
    BY <1>1, <1>2, <1>3, <1>4, <1>6 DEF q, s, t
  <2> DEFINE k == q - h * 60 - m
  <2>2. k \in Int /\ 60 * k = t - s
    BY <2>1
  <2> HIDE DEF k
  <2>3. k = 0
    BY <2>1, <2>2
  <2>4. s = t
    BY <2>1, <2>2, <2>3
  <2>5. m * 60 <= 3599 /\ m \in Nat
    <3>1. rest \in Int /\ rest <= 3599 /\ t \in Int /\ t >= 0
      BY <2>1
    <3>2. m * 60 \in Int /\ rest = m * 60 + t
      BY <2>1
    <3> DEFINE n == m * 60
    <3> HIDE DEF n
    <3>3. n <= 3599
      BY <3>1, <3>2 DEF n
    <3> QED
      BY <2>1, <3>3 DEF n
  <2>6. m <= 59
    BY <2>5
  <2> QED
    BY <2>1, <2>4, <2>6
<1>8. CASE h > 0
  <2>1. f = <<h, m, s>>
    BY <1>5, <1>8
  <2>2. Len(f) = 3 /\ f[1] = h /\ f[2] = m /\ f[3] = s
    BY <2>1
  <2>3. Shown(f) = h * 3600 + m * 60 + s
    BY <2>2 DEF Shown
  <2>4. Shown(f) = d
    BY <1>6, <1>7, <2>3
  <2> QED
    BY <1>2, <1>7, <2>2, <2>4 DEF f, s
<1>9. CASE ~(h > 0)
  <2>1. f = <<m, s>>
    BY <1>5, <1>9
  <2>2. Len(f) = 2 /\ f[1] = m /\ f[2] = s
    BY <2>1
  <2>3. d = m * 60 + s
    BY <1>1, <1>6, <1>7, <1>9
  <2>4. Shown(f) = m * 60 + s
    BY <2>2 DEF Shown
  <2>5. Shown(f) = d
    BY <2>3, <2>4
  <2> QED
    BY <1>2, <2>2, <2>5 DEF f, s
<1> QED
  BY <1>8, <1>9 DEF f

\* successRate: a proper fraction for all counters, those of a keeper with more
\* fills than executions included.
THEOREM RateIsFraction ==
  ASSUME NEW executions \in Nat, NEW fills \in Nat
  PROVE  LET r == SuccessRate(executions, fills)
         IN  r[1] \in Nat /\ r[2] \in Nat \ {0} /\ r[1] <= r[2]
BY DEF SuccessRate

\* formatUSDC: what is shown differs from the amount by half a cent at most.
THEOREM CentsAreNear ==
  ASSUME NEW amount \in Nat, NEW cent \in Nat \ {0}
  PROVE  LET shown == InCents(amount, cent)
         IN  /\ shown \in Nat
             /\ 2 * (shown * cent) <= 2 * amount + cent
             /\ 2 * amount < 2 * (shown * cent) + cent
<1> DEFINE a == 2 * amount + cent
           b == 2 * cent
           shown == a \div b
<1>1. a \in Nat /\ b \in Nat \ {0}
  OBVIOUS
<1>2. shown \in Nat /\ a % b \in 0 .. b - 1 /\ a = shown * b + (a % b)
  BY <1>1, Remainder
<1>3. shown * b = 2 * (shown * cent)
  BY <1>2
<1> DEFINE p == shown * cent
           r == a % b
<1>4. InCents(amount, cent) = shown
  BY DEF InCents
<1>5. p \in Int /\ r \in 0 .. 2 * cent - 1 /\ 2 * amount + cent = 2 * p + r
  BY <1>2, <1>3
<1> HIDE DEF a, b, shown, r
<1>6. shown \in Nat
  BY <1>2
<1> QED
  BY <1>4, <1>5, <1>6
=============================================================================
