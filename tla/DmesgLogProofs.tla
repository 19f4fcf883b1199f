--------------------------- MODULE DmesgLogProofs ---------------------------
(***************************************************************************)
(* Proofs about the walk over the log in DmesgLog.                         *)
(*                                                                         *)
(* Everything is put in terms of the orbit of log_first_idx under          *)
(* log_next(), the places the walk would come to if it were never stopped. *)
(* A place outside of the log stays where it is.                           *)
(***************************************************************************)
EXTENDS DmesgLog, DataLemmas

\* Zenon proves every leaf that names no other prover; the limits, in seconds,
\* leave room for a slower machine.
USE ZenonT(30)

(***************************************************************************)
(* What comes up when h is applied to x again and again: for the first n   *)
(* times, and for ever.                                                    *)
(***************************************************************************)
IsStart(f, h, S, x, n) ==
    /\ f \in [0 .. n -> S]
    /\ f[0] = x
    /\ \A k \in 1 .. n : f[k] = h[f[k - 1]]

IsOrbit(f, h, S, x) ==
    /\ f \in [Nat -> S]
    /\ f[0] = x
    /\ \A n \in Nat : f[n + 1] = h[f[n]]

LEMMA StartExists ==
    ASSUME NEW S, NEW h \in [S -> S], NEW x \in S, NEW n \in Nat
    PROVE  \E f : IsStart(f, h, S, x, n)
<1> DEFINE T == {m \in Nat : ~ \E f : IsStart(f, h, S, x, m)}
<1> SUFFICES ASSUME T # {} PROVE FALSE
    OBVIOUS
<1>1. PICK m \in T : \A i \in T : m <= i
    <2>1. T \in SUBSET Nat
        OBVIOUS
    <2> HIDE DEF T
    <2> QED
        BY <2>1, LeastNatural
<1>2. m # 0
    <2>1. IsStart([k \in 0 .. 0 |-> x], h, S, x, 0)
        BY SMTT(20) DEF IsStart
    <2> QED
        BY <2>1
<1>3. m - 1 \in Nat /\ m - 1 \notin T
    BY <1>1, <1>2, SMTT(20)
<1>4. PICK f : IsStart(f, h, S, x, m - 1)
    BY <1>3
<1>5. PICK g : g = [k \in 0 .. m |-> IF k = m THEN h[f[m - 1]] ELSE f[k]]
    OBVIOUS
<1>6. f[m - 1] \in S /\ \A k \in 0 .. m - 1 : f[k] \in S /\ g[k] = f[k]
    BY <1>3, <1>4, <1>5, SMTT(20) DEF IsStart
<1>7. g \in [0 .. m -> S]
    <2>1. \A k \in 0 .. m : g[k] \in S
        BY <1>5, <1>6, SMTT(20)
    <2> QED
        BY <1>5, <2>1
<1>8. g[0] = x
    BY <1>2, <1>4, <1>5, SMTT(20) DEF IsStart
<1>9. ASSUME NEW k \in 1 .. m
      PROVE  g[k] = h[g[k - 1]]
    <2>1. g[k - 1] = f[k - 1]
        BY <1>6, SMTT(20)
    <2>2. CASE k = m
        BY <1>5, <2>1, <2>2, SMTT(20)
    <2>3. CASE k # m
        <3>1. k \in 1 .. m - 1 /\ k \in 0 .. m - 1
            BY <2>3, SMTT(20)
        <3>2. f[k] = h[f[k - 1]]
            BY <1>4, <3>1 DEF IsStart
        <3> QED
            BY <1>6, <2>1, <3>1, <3>2
    <2> QED
        BY <2>2, <2>3
<1>10. IsStart(g, h, S, x, m)
    BY <1>7, <1>8, <1>9 DEF IsStart
<1> QED
    BY <1>10

LEMMA StartsAgree ==
    ASSUME NEW S, NEW h, NEW x, NEW n \in Nat, NEW f, NEW g,
           IsStart(f, h, S, x, n), IsStart(g, h, S, x, n + 1)
    PROVE  f[n] = g[n]
<1> DEFINE m == n + 1
           T == {i \in Nat : i <= n /\ i <= m /\ f[i] # g[i]}
<1> SUFFICES ASSUME T # {} PROVE FALSE
    BY SMTT(20)
<1>1. PICK i \in T : \A j \in T : i <= j
    <2>1. T \in SUBSET Nat
        OBVIOUS
    <2> HIDE DEF T
    <2> QED
        BY <2>1, LeastNatural
<1>2. i \in Nat /\ i <= n /\ i <= m /\ f[i] # g[i]
    OBVIOUS
<1>3. i # 0
    BY <1>2 DEF IsStart
<1>4. i - 1 \in Nat /\ i - 1 <= n /\ i - 1 <= m /\ i - 1 \notin T
    BY <1>1, <1>2, <1>3, SMTT(20)
<1>5. f[i - 1] = g[i - 1]
    BY <1>4
<1>6. i \in 1 .. n /\ i \in 1 .. m
    BY <1>2, <1>3, SMTT(20)
<1>7. f[i] = h[f[i - 1]] /\ g[i] = h[g[i - 1]]
    BY <1>6 DEF IsStart
<1> QED
    BY <1>2, <1>5, <1>7

LEMMA OrbitExists ==
    ASSUME NEW S, NEW h \in [S -> S], NEW x \in S
    PROVE  \E f : IsOrbit(f, h, S, x)
<1>1. PICK s : s = [n \in Nat |-> CHOOSE f : IsStart(f, h, S, x, n)]
    OBVIOUS
<1>2. ASSUME NEW n \in Nat
      PROVE  IsStart(s[n], h, S, x, n)
    <2>1. \E f : IsStart(f, h, S, x, n)
        BY StartExists
    <2> QED
        BY <1>1, <2>1
<1>3. PICK f : f = [n \in Nat |-> s[n][n]]
    OBVIOUS
<1>4. f \in [Nat -> S]
    <2>1. ASSUME NEW n \in Nat
          PROVE  s[n][n] \in S
        <3>1. n \in 0 .. n
            BY SMTT(20)
        <3> QED
            BY <1>2, <3>1 DEF IsStart
    <2> QED
        BY <1>3, <2>1
<1>5. f[0] = x
    BY <1>2, <1>3 DEF IsStart
<1>6. ASSUME NEW n \in Nat
      PROVE  f[n + 1] = h[f[n]]
    <2>1. n + 1 \in Nat /\ n + 1 \in 1 .. n + 1 /\ (n + 1) - 1 = n /\ n <= n + 1 /\ n <= n
        BY SMTT(20)
    <2>2. f[n + 1] = s[n + 1][n + 1] /\ f[n] = s[n][n]
        BY <1>3, <2>1
    <2>3. s[n + 1][n + 1] = h[s[n + 1][n]]
        BY <1>2, <2>1 DEF IsStart
    <2>4. IsStart(s[n + 1], h, S, x, n + 1) /\ IsStart(s[n], h, S, x, n)
        BY <1>2, <2>1
    <2>5. s[n + 1][n] = s[n][n]
        BY <2>4, StartsAgree, SMTT(20)
    <2> QED
        BY <2>2, <2>3, <2>5
<1> QED
    BY <1>4, <1>5, <1>6 DEF IsOrbit
-----------------------------------------------------------------------------
(***************************************************************************)
(* An orbit that comes back to a value goes on as it did from there.       *)
(***************************************************************************)
LEMMA OrbitPeriodic ==
    ASSUME NEW S, NEW h, NEW x, NEW f, IsOrbit(f, h, S, x),
           NEW i \in Nat, NEW j \in Nat, f[i] = f[j], NEW k \in Nat
    PROVE  f[i + k] = f[j + k]
<1> DEFINE T == {m \in Nat : f[i + m] # f[j + m]}
<1> SUFFICES ASSUME T # {} PROVE FALSE
    OBVIOUS
<1>1. PICK m \in T : \A n \in T : m <= n
    <2>1. T \in SUBSET Nat
        OBVIOUS
    <2> HIDE DEF T
    <2> QED
        BY <2>1, LeastNatural
<1>2. m \in Nat /\ f[i + m] # f[j + m]
    OBVIOUS
<1>3. m # 0
    BY <1>2, SMTT(20)
<1>4. m - 1 \in Nat /\ m - 1 \notin T
    BY <1>1, <1>2, <1>3, SMTT(20)
<1>5. f[i + (m - 1)] = f[j + (m - 1)]
    BY <1>4
<1>6. /\ i + (m - 1) \in Nat /\ (i + (m - 1)) + 1 = i + m
      /\ j + (m - 1) \in Nat /\ (j + (m - 1)) + 1 = j + m
    BY <1>4, SMTT(20)
<1>7. f[i + m] = h[f[i + (m - 1)]] /\ f[j + m] = h[f[j + (m - 1)]]
    BY <1>6 DEF IsOrbit
<1> QED
    BY <1>2, <1>5, <1>7

\* All values before the n-th differ, and the n-th is the j-th.
FirstRepeat(f, j, n) ==
    /\ j \in Nat /\ n \in Nat /\ j < n
    /\ f[j] = f[n]
    /\ \A a, b \in 0 .. n - 1 : f[a] = f[b] => a = b

\* From j on the values come again every n - j times.
LEMMA CycleRepeats ==
    ASSUME NEW S, NEW h, NEW x, NEW f, IsOrbit(f, h, S, x),
           NEW j, NEW n, FirstRepeat(f, j, n), NEW k \in Nat, j <= k
    PROVE  f[k + (n - j)] = f[k]
<1>1. j \in Nat /\ n \in Nat /\ k - j \in Nat /\ f[j] = f[n]
    BY SMTT(20) DEF FirstRepeat
<1>2. f[j + (k - j)] = f[n + (k - j)]
    BY <1>1, OrbitPeriodic, SMTT(20)
<1>3. j + (k - j) = k /\ n + (k - j) = k + (n - j)
    BY <1>1, SMTT(20)
<1> QED
    BY <1>2, <1>3

LEMMA OnCycle ==
    ASSUME NEW S, NEW h, NEW x, NEW f, IsOrbit(f, h, S, x),
           NEW j, NEW n, FirstRepeat(f, j, n), NEW k \in Nat, j <= k
    PROVE  \E i \in j .. n - 1 : f[k] = f[i]
<1> DEFINE T == {m \in Nat : j <= m /\ ~ \E i \in j .. n - 1 : f[m] = f[i]}
<1> SUFFICES ASSUME T # {} PROVE FALSE
    OBVIOUS
<1>1. PICK m \in T : \A i \in T : m <= i
    <2>1. T \in SUBSET Nat
        OBVIOUS
    <2> HIDE DEF T
    <2> QED
        BY <2>1, LeastNatural
<1>2. j \in Nat /\ n \in Nat /\ j < n
    BY DEF FirstRepeat
<1>3. m \in Nat /\ j <= m /\ ~ \E i \in j .. n - 1 : f[m] = f[i]
    OBVIOUS
<1>4. m >= n
    BY <1>2, <1>3, SMTT(20)
<1>5. PICK i \in Nat : i = m - (n - j) /\ j <= i /\ i < m /\ i + (n - j) = m
    BY <1>2, <1>3, <1>4, SMTT(20)
<1>6. i \notin T
    BY <1>1, <1>5, SMTT(20)
<1>7. f[m] = f[i]
    <2>1. f[i + (n - j)] = f[i]
        BY <1>5, CycleRepeats, SMTT(20)
    <2> QED
        BY <1>5, <2>1
<1> QED
    BY <1>3, <1>5, <1>6, <1>7

\* Every value comes up before the first repetition.
LEMMA OrbitValues ==
    ASSUME NEW S, NEW h, NEW x, NEW f, IsOrbit(f, h, S, x),
           NEW j, NEW n, FirstRepeat(f, j, n), NEW k \in Nat
    PROVE  \E i \in 0 .. n - 1 : f[k] = f[i]
<1>1. j \in Nat /\ n \in Nat /\ j < n
    BY DEF FirstRepeat
<1>2. CASE j <= k
    <2>1. PICK i \in j .. n - 1 : f[k] = f[i]
        BY <1>2, OnCycle, SMTT(20)
    <2>2. i \in 0 .. n - 1
        BY <1>1, SMTT(20)
    <2> QED
        BY <2>1, <2>2
<1>3. CASE ~ (j <= k)
    <2>1. k \in 0 .. n - 1
        BY <1>1, <1>3, SMTT(20)
    <2> QED
        BY <2>1
<1> QED
    BY <1>2, <1>3

\* From any place on the cycle the orbit comes back to its start.
ComesTo(f, k, j) == \E m \in Nat : f[k + m] = f[j]

LEMMA BackToStart ==
    ASSUME NEW S, NEW h, NEW x, NEW f, IsOrbit(f, h, S, x),
           NEW j, NEW n, FirstRepeat(f, j, n), NEW k \in Nat, j <= k
    PROVE  ComesTo(f, k, j)
<1> DEFINE T == {i \in Nat : j <= i /\ ~ \E m \in Nat : f[i + m] = f[j]}
<1> SUFFICES ASSUME T # {} PROVE FALSE
    BY DEF ComesTo
<1>1. PICK i \in T : \A a \in T : i <= a
    <2>1. T \in SUBSET Nat
        OBVIOUS
    <2> HIDE DEF T
    <2> QED
        BY <2>1, LeastNatural
<1>2. j \in Nat /\ n \in Nat /\ j < n
    BY DEF FirstRepeat
<1>3. i \in Nat /\ j <= i /\ ~ \E m \in Nat : f[i + m] = f[j]
    OBVIOUS
<1>4. i # j
    <2>1. f[j + 0] = f[j]
        BY <1>2, SMTT(20)
    <2> QED
        BY <1>3, <2>1
<1>5. PICK a \in Nat : a = i - 1 /\ j <= a /\ a \notin T
    BY <1>1, <1>2, <1>3, <1>4, SMTT(20)
<1>6. PICK m \in Nat : f[a + m] = f[j]
    BY <1>5
<1>7. CASE m # 0
    <2>1. m - 1 \in Nat /\ i + (m - 1) = a + m
        BY <1>5, <1>7, SMTT(20)
    <2> QED
        BY <1>3, <1>6, <2>1
<1>8. CASE m = 0
    <2>1. f[a] = f[j]
        BY <1>6, <1>8, SMTT(20)
    <2>2. f[a + (n - j)] = f[a]
        BY <1>5, CycleRepeats, SMTT(20)
    <2>3. (n - j) - 1 \in Nat /\ i + ((n - j) - 1) = a + (n - j)
        BY <1>2, <1>5, SMTT(20)
    <2> QED
        BY <1>3, <2>1, <2>2, <2>3
<1> QED
    BY <1>7, <1>8
\* A value that comes again is on the cycle.
LEMMA RepeatOnCycle ==
    ASSUME NEW S, NEW h, NEW x, NEW f, IsOrbit(f, h, S, x),
           NEW j, NEW n, FirstRepeat(f, j, n),
           NEW i \in Nat, NEW c \in Nat \ {0}, f[i] = f[i + c]
    PROVE  j <= i
<1> SUFFICES ASSUME i < j PROVE FALSE
    BY SMTT(20) DEF FirstRepeat
<1>1. j \in Nat /\ n \in Nat /\ j < n
    BY DEF FirstRepeat
<1>2. PICK k \in Nat : k = j - 1 - i
    BY <1>1, SMTT(20)
<1>3. i + k = j - 1 /\ i + c + k = j - 1 + c /\ i + c \in Nat
    BY <1>1, <1>2, SMTT(20)
<1>4. f[i + k] = f[(i + c) + k]
    BY <1>3, OrbitPeriodic, SMTT(20)
<1>5. PICK b \in Nat : b = j - 1 + c /\ j <= b
    BY <1>1, SMTT(20)
<1>6. PICK a \in j .. n - 1 : f[b] = f[a]
    BY <1>5, OnCycle, SMTT(20)
<1>7. f[j - 1] = f[a]
    BY <1>3, <1>4, <1>5, <1>6
<1>8. j - 1 \in 0 .. n - 1 /\ a \in 0 .. n - 1 /\ a # j - 1
    BY <1>1, SMTT(20)
<1> QED
    BY <1>7, <1>8 DEF FirstRepeat

LEMMA RepeatAtStart ==
    ASSUME NEW S, NEW h, NEW x, NEW f, IsOrbit(f, h, S, x),
           NEW j \in Nat, NEW n, FirstRepeat(f, j, n),
           NEW i \in Nat, j <= i, NEW c \in Nat, f[i] = f[i + c]
    PROVE  f[j] = f[j + c]
<1>1. ComesTo(f, i, j)
    BY BackToStart
<1>2. PICK m \in Nat : f[i + m] = f[j]
    BY <1>1 DEF ComesTo
<1>3. PICK a \in Nat, b \in Nat : a = i + m /\ b = i + c
    BY SMTT(20)
<1>4. f[i + m] = f[b + m]
    BY <1>3, OrbitPeriodic, SMTT(20)
<1>5. b + m = a + c
    BY <1>3, SMTT(20)
<1>6. f[a] = f[j]
    BY <1>2, <1>3
<1>7. f[a + c] = f[j + c]
    BY <1>6, OrbitPeriodic, SMTT(20)
<1> QED
    BY <1>2, <1>4, <1>5, <1>7

(***************************************************************************)
(* A value that comes again after c times, and not before, tells the     *)
(* length of the cycle.                                                    *)
(***************************************************************************)
FirstReturn(f, i, c) ==
    /\ i \in Nat /\ c \in Nat \ {0}
    /\ f[i] = f[i + c]
    /\ \A k \in 1 .. c - 1 : f[i + k] # f[i]

LEMMA RepeatIsLength ==
    ASSUME NEW S, NEW h, NEW x, NEW f, IsOrbit(f, h, S, x),
           NEW j, NEW n, FirstRepeat(f, j, n),
           NEW i, NEW c, FirstReturn(f, i, c)
    PROVE  c = n - j
<1>0. /\ i \in Nat /\ c \in Nat \ {0} /\ f[i] = f[i + c]
      /\ \A k \in 1 .. c - 1 : f[i + k] # f[i]
    BY DEF FirstReturn
<1>1. j \in Nat /\ n \in Nat /\ j < n /\ j <= i
    BY <1>0, RepeatOnCycle DEF FirstRepeat
<1>2. c <= n - j
    <2>1. f[i + (n - j)] = f[i]
        BY <1>0, <1>1, CycleRepeats, SMTT(20)
    <2> QED
        BY <1>0, <1>1, <2>1, SMTT(20)
<1>3. f[j] = f[j + c]
    BY <1>0, <1>1, RepeatAtStart, SMTT(20)
<1>4. ASSUME c < n - j
      PROVE  FALSE
    <2>1. j \in 0 .. n - 1 /\ j + c \in 0 .. n - 1 /\ j # j + c
        BY <1>0, <1>1, <1>4, SMTT(20)
    <2> QED
        BY <1>3, <2>1 DEF FirstRepeat
<1> QED
    BY <1>0, <1>1, <1>2, <1>4, SMTT(20)

\* Values from a finite set come again.
LEMMA RepeatExists ==
    ASSUME NEW f, NEW N \in Nat, NEW T, IsFiniteSet(T), Cardinality(T) <= N,
           \A k \in 0 .. N : f[k] \in T
    PROVE  \E a, b \in 0 .. N : a # b /\ f[a] = f[b]
<1>1. PICK g : g = [k \in 0 .. N |-> f[k]]
    OBVIOUS
<1>2. g \in [0 .. N -> T]
    BY <1>1
<1>3. IsFiniteSet(0 .. N) /\ Cardinality(0 .. N) = N + 1
    BY FS_Interval, SMTT(20)
<1>4. Cardinality(T) < Cardinality(0 .. N)
    <2>1. Cardinality(T) \in Nat
        BY FS_CardinalityType
    <2> QED
        BY <1>3, <2>1, SMTT(20)
<1>5. PICK a, b \in 0 .. N : a # b /\ g[a] = g[b]
    BY <1>2, <1>3, <1>4, FS_PigeonHole
<1> QED
    BY <1>1, <1>5
\* Values that come again come again a first time.
LEMMA FirstRepeatExists ==
    ASSUME NEW f, NEW a \in Nat, NEW b \in Nat, a < b, f[a] = f[b]
    PROVE  \E n \in 0 .. b : \E j \in 0 .. n - 1 : FirstRepeat(f, j, n)
<1> DEFINE T == {k \in Nat : \E i \in 0 .. k - 1 : f[i] = f[k]}
<1>1. b \in T
    BY SMTT(20)
<1>2. PICK n \in T : \A k \in T : n <= k
    <2>1. T \in SUBSET Nat /\ T # {}
        BY <1>1
    <2> HIDE DEF T
    <2> QED
        BY <2>1, LeastNatural
<1>3. n \in 0 .. b
    BY <1>1, <1>2, SMTT(20)
<1>4. PICK j \in 0 .. n - 1 : f[j] = f[n]
    OBVIOUS
<1>5. ASSUME NEW c \in 0 .. n - 1, NEW d \in 0 .. n - 1, f[c] = f[d], c < d
      PROVE  FALSE
    <2>1. d \in T
        BY <1>5, SMTT(20)
    <2> QED
        BY <1>2, <1>3, <2>1, SMTT(20)
<1>6. \A c, d \in 0 .. n - 1 : f[c] = f[d] => c = d
    <2> SUFFICES ASSUME NEW c \in 0 .. n - 1, NEW d \in 0 .. n - 1,
                        f[c] = f[d], c # d
                 PROVE  FALSE
        OBVIOUS
    <2>1. c < d \/ d < c
        BY SMTT(20)
    <2> QED
        BY <1>5, <2>1
<1>7. FirstRepeat(f, j, n)
    BY <1>3, <1>4, <1>6, SMTT(20) DEF FirstRepeat
<1> QED
    BY <1>3, <1>7

-----------------------------------------------------------------------------
Hop(l) == [v \in Nat |-> IF v \in Places THEN LogNext(l)[v] ELSE v]

Orbit(l) == CHOOSE f : IsOrbit(f, Hop(l), Nat, l.first)

\* The walk writes m records and goes on after each.
Goes(l, m) ==
    /\ m \in Nat
    /\ \A k \in 0 .. m - 1 : Orbit(l)[k] \in Places /\ Orbit(l)[k] # l.next

\* The records of the first m places.
Recs(l, m) == [k \in 1 .. m |-> LogFromPtr(l, Orbit(l)[k - 1])]

\* The path that Path() describes has n places.
PathEnds(l, n) ==
    /\ Goes(l, n)
    /\ \A a, b \in 0 .. n - 1 : Orbit(l)[a] = Orbit(l)[b] => a = b
    /\ \/ Orbit(l)[n] \notin Places \/ Orbit(l)[n] = l.next
       \/ \E j \in 0 .. n - 1 : Orbit(l)[j] = Orbit(l)[n]

\* The walk comes to the place j a second time after n records.
Cycles(l, j, n) == FirstRepeat(Orbit(l), j, n) /\ Goes(l, n)

-----------------------------------------------------------------------------
\* The places of a log and what log_next() returns.
LEMMA LogType ==
    ASSUME NEW l \in Logs
    PROVE  /\ LogBufLen \in Nat \ {0} /\ Places \subseteq Nat /\ 0 \in Places
           /\ l.first \in Places /\ l.next \in Places
           /\ l.len \in [Places -> Nat]
           /\ \A p \in Places : LogNext(l)[p] \in Nat
<1>1. /\ LogBufLen \in Nat \ {0}
      /\ l.first \in Places /\ l.next \in Places
      /\ l.len \in [Places -> Nat]
    BY LogsAssumption
<1>2. Places \subseteq Nat /\ 0 \in Places
    BY <1>1, SMTT(20) DEF Places
<1>3. \A p \in Places : LogNext(l)[p] \in Nat
    BY <1>1, <1>2, SMTT(20) DEF LogNext
<1> QED
    BY <1>1, <1>2, <1>3

LEMMA OrbitIs ==
    ASSUME NEW l \in Logs
    PROVE  IsOrbit(Orbit(l), Hop(l), Nat, l.first)
<1>1. l.first \in Nat
    BY LogType
<1>2. Hop(l) \in [Nat -> Nat]
    BY LogType DEF Hop
<1>3. \E f : IsOrbit(f, Hop(l), Nat, l.first)
    BY <1>1, <1>2, OrbitExists
<1> QED
    BY <1>3 DEF Orbit

\* log_next() takes the walk from each place of the orbit to the next.
LEMMA OrbitStep ==
    ASSUME NEW l \in Logs, NEW k \in Nat
    PROVE  /\ Orbit(l)[0] = l.first
           /\ Orbit(l)[k] \in Nat
           /\ Orbit(l)[k] \in Places => LogNext(l)[Orbit(l)[k]] = Orbit(l)[k + 1]
           /\ Orbit(l)[k] \notin Places => Orbit(l)[k + 1] = Orbit(l)[k]
<1>1. /\ Orbit(l) \in [Nat -> Nat] /\ Orbit(l)[0] = l.first
      /\ Orbit(l)[k + 1] = Hop(l)[Orbit(l)[k]]
    BY OrbitIs DEF IsOrbit
<1>2. Orbit(l)[k] \in Nat
    BY <1>1
<1> QED
    BY <1>1, <1>2 DEF Hop

-----------------------------------------------------------------------------
\* Path(l), with the definitions in its LET given names.
AtStep(l, g) ==
    [k \in 0 .. LogBufLen |->
        IF k = 0 THEN l.first
        ELSE IF g[k - 1] \in Places THEN LogNext(l)[g[k - 1]]
        ELSE g[k - 1]]

At(l) == CHOOSE g : g = AtStep(l, g)

Ends(l) ==
    {k \in 0 .. LogBufLen :
        \/ At(l)[k] \notin Places \/ At(l)[k] = l.next
        \/ \E j \in 0 .. k - 1 : At(l)[j] = At(l)[k]}

End(l) == CHOOSE k \in Ends(l) : \A j \in Ends(l) : k <= j

LEMMA PathDef ==
    ASSUME NEW l
    PROVE  Path(l) = [path |-> [k \in 1 .. End(l) |-> At(l)[k - 1]],
                      end |-> At(l)[End(l)]]
    BY DEF Path, At, AtStep, Ends, End

\* A solution of the recursion of Path() has the places of the orbit.
LEMMA AtUnique ==
    ASSUME NEW l \in Logs, NEW g, g = AtStep(l, g)
    PROVE  \A k \in 0 .. LogBufLen : g[k] = Orbit(l)[k]
<1> DEFINE T == {k \in 0 .. LogBufLen : g[k] # Orbit(l)[k]}
<1> SUFFICES ASSUME T # {} PROVE FALSE
    OBVIOUS
<1>0. LogBufLen \in Nat
    BY LogType
<1>1. PICK k \in T : \A i \in T : k <= i
    <2>1. T \in SUBSET Nat
        BY <1>0, SMTT(20)
    <2> HIDE DEF T
    <2> QED
        BY <2>1, LeastNatural
<1>2. k \in 0 .. LogBufLen /\ k \in Nat
    BY <1>0, SMTT(20)
<1>3. g[k] = IF k = 0 THEN l.first
             ELSE IF g[k - 1] \in Places THEN LogNext(l)[g[k - 1]]
             ELSE g[k - 1]
    BY <1>2 DEF AtStep
<1>4. k # 0
    BY <1>3, OrbitStep
<1>5. PICK i \in Nat : i = k - 1 /\ i + 1 = k /\ i \in 0 .. LogBufLen
    BY <1>0, <1>2, <1>4, SMTT(20)
<1>6. g[i] = Orbit(l)[i]
    BY <1>0, <1>1, <1>5, SMTT(20)
<1>7. g[k] = IF Orbit(l)[i] \in Places THEN LogNext(l)[Orbit(l)[i]]
             ELSE Orbit(l)[i]
    BY <1>3, <1>4, <1>5, <1>6
<1>8. g[k] = Orbit(l)[i + 1]
    BY <1>7, OrbitStep
<1> QED
    BY <1>5, <1>8

LEMMA AtIs ==
    ASSUME NEW l \in Logs, NEW k \in 0 .. LogBufLen
    PROVE  At(l)[k] = Orbit(l)[k]
<1>0. LogBufLen \in Nat
    BY LogType
<1>1. PICK g : g = [i \in 0 .. LogBufLen |-> Orbit(l)[i]]
    OBVIOUS
<1>2. ASSUME NEW i \in 0 .. LogBufLen
      PROVE  g[i] = IF i = 0 THEN l.first
                    ELSE IF g[i - 1] \in Places THEN LogNext(l)[g[i - 1]]
                    ELSE g[i - 1]
    <2>1. CASE i = 0
        BY <1>0, <1>1, <2>1, OrbitStep
    <2>2. CASE i # 0
        <3>1. PICK a \in Nat : a = i - 1 /\ a + 1 = i /\ a \in 0 .. LogBufLen
            BY <1>0, <2>2, SMTT(20)
        <3>2. g[a] = Orbit(l)[a] /\ g[i] = Orbit(l)[a + 1]
            BY <1>1, <3>1
        <3> QED
            BY <2>2, <3>1, <3>2, OrbitStep, SMTT(20)
    <2> QED
        BY <2>1, <2>2
<1>3. g = AtStep(l, g)
    BY <1>1, <1>2 DEF AtStep
<1>4. At(l) = AtStep(l, At(l))
    BY <1>3 DEF At
<1> QED
    BY <1>4, AtUnique
\* A path without a repetition fits into the log.
LEMMA PathFits ==
    ASSUME NEW l \in Logs, NEW n, PathEnds(l, n)
    PROVE  n \in 0 .. LogBufLen
<1>1. n \in Nat /\ LogBufLen \in Nat
    BY LogType DEF PathEnds, Goes
<1> SUFFICES ASSUME n > LogBufLen PROVE FALSE
    BY <1>1, SMTT(20)
<1>2. \A k \in 0 .. LogBufLen : k \in 0 .. n - 1
    BY <1>1, SMTT(20)
<1>3. \A k \in 0 .. LogBufLen : Orbit(l)[k] \in Places
    BY <1>2 DEF PathEnds, Goes
<1>4. IsFiniteSet(Places) /\ Cardinality(Places) = LogBufLen
    <2>1. LogBufLen - 1 \in Int /\ 0 \in Int
        BY <1>1, SMTT(20)
    <2>2. IsFiniteSet(0 .. LogBufLen - 1) /\ Cardinality(0 .. LogBufLen - 1) =
                IF 0 > LogBufLen - 1 THEN 0 ELSE LogBufLen - 1 - 0 + 1
        BY <2>1, FS_Interval
    <2> QED
        BY <1>1, <2>2, SMTT(20) DEF Places
<1>5. PICK a, b \in 0 .. LogBufLen : a # b /\ Orbit(l)[a] = Orbit(l)[b]
    <2>1. Cardinality(Places) <= LogBufLen
        BY <1>1, <1>4, SMTT(20)
    <2> QED
        BY <1>1, <1>3, <1>4, <2>1, RepeatExists
<1> QED
    BY <1>2, <1>5 DEF PathEnds

LEMMA PathIs ==
    ASSUME NEW l \in Logs, NEW n, PathEnds(l, n)
    PROVE  /\ Path(l).path = [k \in 1 .. n |-> Orbit(l)[k - 1]]
           /\ Path(l).end = Orbit(l)[n]
<1>1. n \in Nat /\ LogBufLen \in Nat /\ n \in 0 .. LogBufLen
    BY LogType, PathFits DEF PathEnds, Goes
<1>2. n \in Ends(l)
    <2>1. CASE Orbit(l)[n] \notin Places \/ Orbit(l)[n] = l.next
        BY <1>1, <2>1, AtIs DEF Ends
    <2>2. CASE \E j \in 0 .. n - 1 : Orbit(l)[j] = Orbit(l)[n]
        <3>1. PICK j \in 0 .. n - 1 : Orbit(l)[j] = Orbit(l)[n]
            BY <2>2
        <3>2. j \in 0 .. LogBufLen
            BY <1>1, SMTT(20)
        <3>3. At(l)[j] = At(l)[n]
            BY <1>1, <3>1, <3>2, AtIs
        <3> QED
            BY <1>1, <3>3 DEF Ends
    <2> QED
        BY <2>1, <2>2 DEF PathEnds
<1>3. ASSUME NEW k \in Ends(l)
      PROVE  n <= k
    <2>1. k \in 0 .. LogBufLen
        BY DEF Ends
    <2> SUFFICES ASSUME k < n PROVE FALSE
        BY <1>1, <2>1, SMTT(20)
    <2>2. k \in 0 .. n - 1
        BY <1>1, <2>1, SMTT(20)
    <2>3. At(l)[k] \in Places /\ At(l)[k] # l.next
        BY <2>1, <2>2, AtIs DEF PathEnds, Goes
    <2>4. PICK j \in 0 .. k - 1 : At(l)[j] = At(l)[k]
        BY <2>3 DEF Ends
    <2>5. j \in 0 .. n - 1 /\ j \in 0 .. LogBufLen /\ j # k
        BY <1>1, <2>1, <2>2, SMTT(20)
    <2>6. Orbit(l)[j] = Orbit(l)[k]
        BY <2>1, <2>4, <2>5, AtIs
    <2> QED
        BY <2>2, <2>5, <2>6 DEF PathEnds
<1>4. End(l) = n
    <2>1. End(l) \in Ends(l) /\ \A j \in Ends(l) : End(l) <= j
        BY <1>2, <1>3 DEF End
    <2>2. End(l) <= n /\ n <= End(l) /\ End(l) \in Nat
        BY <1>1, <1>2, <1>3, <2>1, SMTT(20) DEF Ends
    <2> QED
        BY <1>1, <2>2, SMTT(20)
<1>5. \A k \in 1 .. n : At(l)[k - 1] = Orbit(l)[k - 1]
    <2>1. \A k \in 1 .. n : k - 1 \in 0 .. LogBufLen
        BY <1>1, SMTT(20)
    <2> QED
        BY <2>1, AtIs
<1>6. Path(l) = [path |-> [k \in 1 .. n |-> At(l)[k - 1]], end |-> At(l)[n]]
    BY <1>4, PathDef
<1>7. [k \in 1 .. n |-> At(l)[k - 1]] = [k \in 1 .. n |-> Orbit(l)[k - 1]]
    BY <1>5
<1>8. At(l)[n] = Orbit(l)[n]
    BY <1>1, AtIs
<1> QED
    BY <1>6, <1>7, <1>8, SMTT(20)
LEMMA PathLen ==
    ASSUME NEW l \in Logs, NEW n, PathEnds(l, n)
    PROVE  /\ n \in Nat /\ Len(Path(l).path) = n
           /\ DOMAIN Path(l).path = 1 .. n
           /\ \A k \in 1 .. n : Path(l).path[k] = Orbit(l)[k - 1]
<1>1. n \in Nat
    BY DEF PathEnds, Goes
<1>2. PICK p : p = [k \in 1 .. n |-> Orbit(l)[k - 1]]
    OBVIOUS
<1>3. p \in Seq(Nat)
    <2>1. \A k \in 1 .. n : Orbit(l)[k - 1] \in Nat
        <3>1. \A k \in 1 .. n : k - 1 \in Nat
            BY <1>1, SMTT(20)
        <3> QED
            BY <3>1, OrbitStep
    <2> QED
        BY <1>1, <1>2, <2>1, SMTT(20)
<1>4. Len(p) = n /\ DOMAIN p = 1 .. n
    BY <1>1, <1>2, <1>3, SMTT(20)
<1> QED
    BY <1>1, <1>2, <1>4, PathIs, SMTT(20)

LEMMA RecordsAre ==
    ASSUME NEW l \in Logs, NEW n, PathEnds(l, n)
    PROVE  Records(l) = Recs(l, n)
    BY PathLen DEF Records, Recs

LEMMA CyclicIs ==
    ASSUME NEW l \in Logs, NEW n, PathEnds(l, n)
    PROVE  Cyclic(l) <=> \E j \in 0 .. n - 1 : Orbit(l)[j] = Orbit(l)[n]
<1>1. /\ n \in Nat /\ DOMAIN Path(l).path = 1 .. n
      /\ \A k \in 1 .. n : Path(l).path[k] = Orbit(l)[k - 1]
      /\ Path(l).end = Orbit(l)[n]
    BY PathIs, PathLen
<1>2. ASSUME Cyclic(l)
      PROVE  \E j \in 0 .. n - 1 : Orbit(l)[j] = Orbit(l)[n]
    <2>1. PICK k \in 1 .. n : Path(l).path[k] = Orbit(l)[n]
        BY <1>1, <1>2 DEF Cyclic, Range
    <2>2. k - 1 \in 0 .. n - 1
        BY <1>1, SMTT(20)
    <2> QED
        BY <1>1, <2>1, <2>2
<1>3. ASSUME NEW j \in 0 .. n - 1, Orbit(l)[j] = Orbit(l)[n]
      PROVE  Cyclic(l)
    <2>1. j + 1 \in 1 .. n /\ (j + 1) - 1 = j
        BY <1>1, SMTT(20)
    <2>2. Path(l).path[j + 1] = Path(l).end
        BY <1>1, <1>3, <2>1
    <2> QED
        BY <1>1, <2>1, <2>2 DEF Cyclic, Range
<1> QED
    BY <1>2, <1>3

\* A cycle ends the path.
LEMMA CycleEnds ==
    ASSUME NEW l \in Logs, NEW j, NEW n, Cycles(l, j, n)
    PROVE  /\ PathEnds(l, n) /\ Cyclic(l) /\ Path(l).end = Orbit(l)[j]
           /\ j \in Nat /\ n \in Nat /\ j < n
<1>1. j \in Nat /\ n \in Nat /\ j < n /\ Orbit(l)[j] = Orbit(l)[n]
    BY DEF Cycles, FirstRepeat
<1>2. j \in 0 .. n - 1
    BY <1>1, SMTT(20)
<1>3. PathEnds(l, n)
    BY <1>1, <1>2 DEF Cycles, FirstRepeat, PathEnds
<1> QED
    BY <1>1, <1>2, <1>3, CyclicIs, PathIs

LEMMA CycleLengthIs ==
    ASSUME NEW l \in Logs, NEW j, NEW n, Cycles(l, j, n)
    PROVE  CycleLength(l) = n - j
<1>1. j \in Nat /\ n \in Nat /\ j < n /\ PathEnds(l, n)
    BY CycleEnds
<1>2. /\ Len(Path(l).path) = n /\ Path(l).end = Orbit(l)[j]
      /\ \A k \in 1 .. n : Path(l).path[k] = Orbit(l)[k - 1]
    BY <1>1, CycleEnds, PathLen
<1> DEFINE C == {k \in 1 .. n : \E i \in 1 .. k : Path(l).path[i] = Path(l).end}
<1>3. C \subseteq j + 1 .. n
    <2> SUFFICES ASSUME NEW k \in 1 .. n, NEW i \in 1 .. k,
                        Path(l).path[i] = Path(l).end
                 PROVE  k \in j + 1 .. n
        OBVIOUS
    <2>1. i \in 1 .. n /\ i - 1 \in 0 .. n - 1 /\ j \in 0 .. n - 1
        BY <1>1, SMTT(20)
    <2>2. Orbit(l)[i - 1] = Orbit(l)[j]
        BY <1>2, <2>1
    <2>3. i - 1 = j
        BY <2>1, <2>2 DEF Cycles, FirstRepeat
    <2> QED
        BY <1>1, <2>1, <2>3, SMTT(20)
<1>4. j + 1 .. n \subseteq C
    <2> SUFFICES ASSUME NEW k \in j + 1 .. n PROVE k \in C
        OBVIOUS
    <2>1. k \in 1 .. n /\ j + 1 \in 1 .. k /\ j + 1 \in 1 .. n /\ (j + 1) - 1 = j
        BY <1>1, SMTT(20)
    <2>2. Path(l).path[j + 1] = Path(l).end
        BY <1>2, <2>1
    <2> QED
        BY <2>1, <2>2
<1>5. C = j + 1 .. n
    BY <1>3, <1>4
<1>6. CycleLength(l) = Cardinality(C)
    BY <1>2 DEF CycleLength
<1>7. Cardinality(j + 1 .. n) = IF j + 1 > n THEN 0 ELSE n - (j + 1) + 1
    BY <1>1, FS_Interval, SMTT(20)
<1> HIDE DEF C
<1> QED
    BY <1>1, <1>5, <1>6, <1>7, SMTT(20)

\* A walk that comes to log_next_idx or leaves the log has met no place twice.
LEMMA EndsOnce ==
    ASSUME NEW l \in Logs, NEW n, Goes(l, n),
           Orbit(l)[n] \notin Places \/ Orbit(l)[n] = l.next
    PROVE  PathEnds(l, n) /\ ~ Cyclic(l)
<1>1. n \in Nat
    BY DEF Goes
<1>2. ASSUME NEW a \in Nat, NEW b \in Nat, a < b, b <= n,
             Orbit(l)[a] = Orbit(l)[b]
      PROVE  FALSE
    <2>1. PICK m \in Nat : m = n - b
        BY <1>1, <1>2, SMTT(20)
    <2>2. Orbit(l)[a + m] = Orbit(l)[b + m]
        <3>1. PICK f, h, x : /\ f = Orbit(l) /\ IsOrbit(f, h, Nat, x)
                             /\ f[a] = f[b]
            BY <1>2, OrbitIs
        <3>2. f[a + m] = f[b + m]
            BY <3>1, OrbitPeriodic, SMTT(20)
        <3> QED
            BY <3>1, <3>2
    <2>3. b + m = n /\ a + m \in 0 .. n - 1
        BY <1>1, <1>2, <2>1, SMTT(20)
    <2> QED
        BY <2>2, <2>3 DEF Goes
<1>3. \A a, b \in 0 .. n - 1 : Orbit(l)[a] = Orbit(l)[b] => a = b
    <2> SUFFICES ASSUME NEW a \in 0 .. n - 1, NEW b \in 0 .. n - 1,
                        Orbit(l)[a] = Orbit(l)[b], a # b
                 PROVE  FALSE
        OBVIOUS
    <2>1. a \in Nat /\ b \in Nat /\ a <= n /\ b <= n /\ (a < b \/ b < a)
        BY <1>1, SMTT(20)
    <2> QED
        BY <1>2, <2>1
<1>4. PathEnds(l, n)
    BY <1>3 DEF PathEnds
<1>5. ASSUME NEW j \in 0 .. n - 1, Orbit(l)[j] = Orbit(l)[n]
      PROVE  FALSE
    <2>1. j \in Nat /\ j < n /\ n <= n
        BY <1>1, SMTT(20)
    <2> QED
        BY <1>1, <1>2, <1>5, <2>1
<1> QED
    BY <1>4, <1>5, CyclicIs
\* On a cycle the walk never leaves the log.
LEMMA CycleInside ==
    ASSUME NEW l \in Logs, NEW j, NEW n, Cycles(l, j, n), NEW k \in Nat
    PROVE  Orbit(l)[k] \in Places
<1>1. PICK i \in 0 .. n - 1 : Orbit(l)[k] = Orbit(l)[i]
    BY OrbitIs, OrbitValues, SMTT(20) DEF Cycles
<1> QED
    BY <1>1 DEF Cycles, Goes

\* The records of a longer and of an empty walk.
LEMMA RecsType ==
    ASSUME NEW l \in Logs, NEW m \in Nat,
           \A k \in 0 .. m - 1 : Orbit(l)[k] \in Places
    PROVE  Recs(l, m) \in Seq(Places) /\ Len(Recs(l, m)) = m
<1>1. \A k \in 1 .. m : k - 1 \in 0 .. m - 1
    BY SMTT(20)
<1>2. \A k \in 1 .. m : LogFromPtr(l, Orbit(l)[k - 1]) \in Places
    BY <1>1, LogType DEF LogFromPtr
<1> QED
    BY <1>2, SMTT(20) DEF Recs

LEMMA RecsNone ==
    ASSUME NEW l
    PROVE  Recs(l, 0) = << >>
    BY SMTT(20) DEF Recs

LEMMA RecsAppend ==
    ASSUME NEW l \in Logs, NEW m \in Nat,
           \A k \in 0 .. m : Orbit(l)[k] \in Places
    PROVE  Append(Recs(l, m), LogFromPtr(l, Orbit(l)[m])) = Recs(l, m + 1)
<1>1. Recs(l, m) \in Seq(Places) /\ Len(Recs(l, m)) = m
    <2>1. \A k \in 0 .. m - 1 : k \in 0 .. m
        BY SMTT(20)
    <2> QED
        BY <2>1, RecsType
<1>2. PICK r \in Places : r = LogFromPtr(l, Orbit(l)[m])
    BY LogType, SMTT(20) DEF LogFromPtr
<1>3. ASSUME NEW s \in Seq(Places), Len(s) = m
      PROVE  /\ Append(s, r) \in Seq(Places) /\ Len(Append(s, r)) = m + 1
             /\ \A k \in 1 .. m + 1 :
                  Append(s, r)[k] = IF k = m + 1 THEN r ELSE s[k]
    BY <1>3, SMTT(20)
<1>4. ASSUME NEW k \in 1 .. m + 1
      PROVE  Append(Recs(l, m), r)[k] = Recs(l, m + 1)[k]
    <2>1. CASE k = m + 1
        <3>1. k - 1 = m
            BY <2>1, SMTT(20)
        <3> QED
            BY <1>1, <1>2, <1>3, <2>1, <3>1 DEF Recs
    <2>2. CASE k # m + 1
        <3>1. k \in 1 .. m
            BY <2>2, SMTT(20)
        <3>2. Recs(l, m)[k] = Recs(l, m + 1)[k]
            BY <3>1 DEF Recs
        <3> QED
            BY <1>1, <1>3, <2>2, <3>2
    <2> QED
        BY <2>1, <2>2
<1>5. /\ Recs(l, m + 1) \in Seq(Places) /\ Len(Recs(l, m + 1)) = m + 1
      /\ Append(Recs(l, m), r) \in Seq(Places)
      /\ Len(Append(Recs(l, m), r)) = m + 1
    <2>1. m + 1 \in Nat /\ (m + 1) - 1 = m
        BY SMTT(20)
    <2>2. Recs(l, m + 1) \in Seq(Places) /\ Len(Recs(l, m + 1)) = m + 1
        BY <2>1, RecsType
    <2> QED
        BY <1>1, <1>3, <2>2
<1>6. Append(Recs(l, m), r) = Recs(l, m + 1)
    BY <1>4, <1>5, SMTT(20)
<1> QED
    BY <1>2, <1>6

\* Places with the same record have the same next place.
LEMMA SameRecord ==
    ASSUME NEW l \in Logs, NEW p \in Places, NEW q \in Places,
           LogFromPtr(l, p) = LogFromPtr(l, q)
    PROVE  LogNext(l)[p] = LogNext(l)[q]
<1>1. /\ l.len \in [Places -> Nat] /\ 0 \in Places /\ Places \subseteq Nat
      /\ l.len[p] \in Nat /\ l.len[q] \in Nat /\ l.len[0] \in Nat
    BY LogType
<1>2. /\ LogNext(l)[p] = IF l.len[p] = 0 THEN l.len[0] ELSE p + l.len[p]
      /\ LogNext(l)[q] = IF l.len[q] = 0 THEN l.len[0] ELSE q + l.len[q]
    BY DEF LogNext
<1>3. ASSUME NEW r \in Places, NEW s \in Places, l.len[r] = 0, l.len[s] # 0, s = 0
      PROVE  l.len[0] = s + l.len[s]
    BY <1>1, <1>3, SMTT(20)
<1>4. CASE l.len[p] = 0 /\ l.len[q] = 0
    BY <1>2, <1>4
<1>5. CASE l.len[p] = 0 /\ l.len[q] # 0
    BY <1>2, <1>3, <1>5 DEF LogFromPtr
<1>6. CASE l.len[p] # 0 /\ l.len[q] = 0
    BY <1>2, <1>3, <1>6 DEF LogFromPtr
<1>7. CASE l.len[p] # 0 /\ l.len[q] # 0
    BY <1>2, <1>7 DEF LogFromPtr
<1> QED
    BY <1>4, <1>5, <1>6, <1>7

\* The records of a walk that comes to its end are different.
LEMMA RecordsOnce ==
    ASSUME NEW l \in Logs, NEW n, Goes(l, n), Orbit(l)[n] = l.next
    PROVE  IsInjective(Recs(l, n))
<1>1. n \in Nat /\ PathEnds(l, n) /\ ~ Cyclic(l)
    BY EndsOnce DEF Goes
<1>2. ASSUME NEW a \in 1 .. n, NEW b \in 1 .. n, a < b,
             Recs(l, n)[a] = Recs(l, n)[b]
      PROVE  FALSE
    <2>1. PICK c \in Nat, d \in Nat : c = a - 1 /\ d = b - 1
        BY <1>1, SMTT(20)
    <2>2. /\ c \in 0 .. n - 1 /\ d \in 0 .. n - 1 /\ a = c + 1 /\ b = d + 1
          /\ a \in 0 .. n - 1 /\ b \in 0 .. n
        BY <1>1, <1>2, <2>1, SMTT(20)
    <2>3. LogFromPtr(l, Orbit(l)[c]) = LogFromPtr(l, Orbit(l)[d])
        BY <1>2, <2>1 DEF Recs
    <2>4. Orbit(l)[c] \in Places /\ Orbit(l)[d] \in Places
        BY <2>2 DEF Goes
    <2>5. Orbit(l)[a] = Orbit(l)[b]
        <3>1. LogNext(l)[Orbit(l)[c]] = LogNext(l)[Orbit(l)[d]]
            BY <2>3, <2>4, SameRecord
        <3> QED
            BY <2>2, <2>4, <3>1, OrbitStep
    <2>6. CASE b = n
        BY <1>1, <2>2, <2>5, <2>6, CyclicIs
    <2>7. CASE b # n
        <3>1. b \in 0 .. n - 1 /\ a # b
            BY <1>1, <1>2, <2>2, <2>7, SMTT(20)
        <3> QED
            BY <1>1, <2>2, <2>5, <3>1 DEF PathEnds
    <2> QED
        BY <2>6, <2>7
<1>3. DOMAIN Recs(l, n) = 1 .. n
    BY DEF Recs
<1>4. \A a, b \in 1 .. n : Recs(l, n)[a] = Recs(l, n)[b] => a = b
    <2> SUFFICES ASSUME NEW a \in 1 .. n, NEW b \in 1 .. n,
                        Recs(l, n)[a] = Recs(l, n)[b], a # b
                 PROVE  FALSE
        OBVIOUS
    <2>1. a < b \/ b < a
        BY <1>1, SMTT(20)
    <2> QED
        BY <1>2, <2>1
<1> QED
    BY <1>3, <1>4 DEF IsInjective
-----------------------------------------------------------------------------
\* What dc_next() keeps: slow_p is at the place s of the orbit, fast_p at the
\* place m, and slow_p was not met between them.
DcType == [head : Nat, fast_p : Nat, slow_p : Nat, length : Nat, power : Nat]

DcAt(l, d, s, m) ==
    /\ d \in DcType
    /\ s \in Nat /\ m \in Nat /\ m = s + d.length
    /\ d.head = l.first
    /\ d.slow_p = Orbit(l)[s] /\ Orbit(l)[s] \in Places
    /\ d.fast_p = Orbit(l)[m]
    /\ \A k \in 1 .. d.length - 1 : Orbit(l)[s + k] # Orbit(l)[s]

LEMMA AdvanceIs ==
    ASSUME NEW d \in DcType, NEW next, next[d.fast_p] \in Nat
    PROVE  /\ Advance(d, next) \in DcType
           /\ Advance(d, next).head = d.head
           /\ Advance(d, next).fast_p = next[d.fast_p]
           /\ d.length = d.power =>
                /\ Advance(d, next).slow_p = d.fast_p
                /\ Advance(d, next).length = 1
           /\ d.length # d.power =>
                /\ Advance(d, next).slow_p = d.slow_p
                /\ Advance(d, next).length = d.length + 1
<1>0. d.length + 1 \in Nat /\ 2 * d.power \in Nat /\ 0 + 1 \in Nat
    BY SMTT(20) DEF DcType
<1>1. CASE d.length = d.power
    <2>1. PICK e : e =
            [[d EXCEPT !.length = 0, !.power = 2 * @, !.slow_p = d.fast_p]
                EXCEPT !.fast_p = next[d.fast_p], !.length = @ + 1]
        OBVIOUS
    <2>2. Advance(d, next) = e
        BY <1>1, <2>1 DEF Advance, DcType
    <2>3. e.head = d.head /\ e.fast_p = next[d.fast_p]
          /\ e.slow_p = d.fast_p /\ e.length = 0 + 1
        BY <2>1 DEF DcType
    <2>4. e \in DcType
        BY <1>0, <2>1 DEF DcType
    <2> QED
        BY <1>1, <2>2, <2>3, <2>4, SMTT(20)
<1>2. CASE d.length # d.power
    <2>1. PICK e : e = [d EXCEPT !.fast_p = next[d.fast_p], !.length = @ + 1]
        OBVIOUS
    <2>2. Advance(d, next) = e
        BY <1>2, <2>1 DEF Advance
    <2>3. e.head = d.head /\ e.fast_p = next[d.fast_p]
          /\ e.slow_p = d.slow_p /\ e.length = d.length + 1
        BY <2>1 DEF DcType
    <2>4. e \in DcType
        BY <1>0, <2>1 DEF DcType
    <2> QED
        BY <1>2, <2>2, <2>3, <2>4
<1> QED
    BY <1>1, <1>2

LEMMA AdvanceAt ==
    ASSUME NEW l \in Logs, NEW d, NEW s, NEW m, DcAt(l, d, s, m),
           d.length = 0 \/ ~ Detected(d), Orbit(l)[m] \in Places
    PROVE  /\ Advance(d, LogNext(l)).length \in Nat \ {0}
           /\ \E t : DcAt(l, Advance(d, LogNext(l)), t, m + 1)
<1>1. d \in DcType /\ m \in Nat /\ s \in Nat /\ d.length \in Nat
      /\ d.fast_p = Orbit(l)[m] /\ m = s + d.length
    BY DEF DcAt, DcType
<1>2. LogNext(l)[d.fast_p] = Orbit(l)[m + 1] /\ Orbit(l)[m + 1] \in Nat
    BY <1>1, OrbitStep, LogType, SMTT(20)
<1>3. PICK e : e = Advance(d, LogNext(l))
    OBVIOUS
<1>4. /\ e \in DcType /\ e.head = l.first /\ e.fast_p = Orbit(l)[m + 1]
      /\ d.length = d.power => e.slow_p = Orbit(l)[m] /\ e.length = 1
      /\ d.length # d.power => e.slow_p = Orbit(l)[s] /\ e.length = d.length + 1
    BY <1>1, <1>2, <1>3, AdvanceIs DEF DcAt
<1>5. CASE d.length = d.power
    <2>1. m + 1 = m + e.length /\ e.length \in Nat \ {0}
        BY <1>4, <1>5, SMTT(20)
    <2>2. DcAt(l, e, m, m + 1)
        BY <1>1, <1>4, <1>5, <2>1, SMTT(20) DEF DcAt
    <2> QED
        BY <1>3, <2>1, <2>2
<1>6. CASE d.length # d.power
    <2>1. m + 1 = s + e.length /\ e.length \in Nat \ {0}
        BY <1>1, <1>4, <1>6, SMTT(20)
    <2>2. ASSUME NEW k \in 1 .. e.length - 1
          PROVE  Orbit(l)[s + k] # Orbit(l)[s]
        <3>1. CASE k = d.length
            BY <1>1, <3>1, SMTT(20) DEF Detected, DcAt
        <3>2. CASE k # d.length
            <4>1. k \in 1 .. d.length - 1
                BY <1>1, <1>4, <1>6, <3>2, SMTT(20)
            <4> QED
                BY <4>1 DEF DcAt
        <3> QED
            BY <3>1, <3>2
    <2>3. DcAt(l, e, s, m + 1)
        BY <1>1, <1>4, <1>6, <2>1, <2>2, SMTT(20) DEF DcAt
    <2> QED
        BY <1>3, <2>1, <2>3
<1> QED
    BY <1>5, <1>6

\* Where slow_p is met again there is a cycle of the length counted.
LEMMA DetectedCycle ==
    ASSUME NEW l \in Logs, NEW d, NEW s, NEW m, DcAt(l, d, s, m),
           d.length # 0, Detected(d), Goes(l, m)
    PROVE  \E j, n : Cycles(l, j, n) /\ d.length = n - j
<1>1. /\ s \in Nat /\ m \in Nat /\ d.length \in Nat \ {0} /\ s < m
      /\ m = s + d.length /\ Orbit(l)[s] = Orbit(l)[m]
    BY SMTT(20) DEF DcAt, DcType, Detected
<1>2. PICK n \in 0 .. m : \E j \in 0 .. n - 1 : FirstRepeat(Orbit(l), j, n)
    BY <1>1, FirstRepeatExists
<1>3. PICK j \in 0 .. n - 1 : FirstRepeat(Orbit(l), j, n)
    BY <1>2
<1>4. Goes(l, n)
    <2>1. n \in Nat /\ \A k \in 0 .. n - 1 : k \in 0 .. m - 1
        BY <1>1, SMTT(20)
    <2> QED
        BY <2>1 DEF Goes
<1>5. Cycles(l, j, n)
    BY <1>3, <1>4 DEF Cycles
<1>6. d.length = n - j
    <2>1. Orbit(l)[s] = Orbit(l)[s + d.length]
        BY <1>1
    <2>2. \A k \in 1 .. d.length - 1 : Orbit(l)[s + k] # Orbit(l)[s]
        BY DEF DcAt
    <2>3. FirstReturn(Orbit(l), s, d.length)
        BY <1>1, <2>1, <2>2 DEF FirstReturn
    <2> QED
        BY <1>3, <2>3, OrbitIs, RepeatIsLength, SMTT(20)
<1> QED
    BY <1>5, <1>6
-----------------------------------------------------------------------------
(***************************************************************************)
(* The inductive invariant: where in the orbit each variable is.           *)
(***************************************************************************)
Typed == TypeOK /\ log \in Logs /\ dc \in DcType /\ written \in Seq(Places)

\* m records are written, slow_p of the detection is at the place s.
Walking(l, d, p, w, s, m) ==
    /\ DcAt(l, d, s, m)
    /\ d.length = 0 \/ ~ Detected(d)
    /\ p = Orbit(l)[m] /\ p \in Places
    /\ w = Recs(l, m) /\ Goes(l, m)

\* slow_p of dc_find_start() is at the place i, before the cycle.
Ahead(l, sp, fp, t, j, n, i) ==
    /\ i \in 0 .. j /\ t \in 0 .. n - j
    /\ sp = Orbit(l)[i] /\ fp = Orbit(l)[(i + (n - j)) - t]
    /\ t # 0 => i = 0

\* q records are written again.
Again(l, p, w, q) == q \in Nat /\ p = Orbit(l)[q] /\ w = Recs(l, q)

WalkInv == pc = "walk" => \E s, m : Walking(log, dc, ptr, written, s, m)

AheadInv ==
    pc = "ahead" =>
        /\ ptr = log.first /\ written = << >>
        /\ \E j, n, i : /\ Cycles(log, j, n) /\ dc.length = n - j
                        /\ Ahead(log, slow_p, fast_p, tmp, j, n, i)

RewriteInv ==
    pc = "rewrite" =>
        \E j, n, q : /\ Cycles(log, j, n) /\ first = Orbit(log)[j]
                     /\ Again(log, ptr, written, q)
                     /\ q = 0 => len = n - j

DoneInv ==
    pc = "done" =>
        \E n : /\ Goes(log, n) /\ Orbit(log)[n] = log.next
               /\ written = Recs(log, n)

OutsideInv ==
    pc = "outside" => \E n : Goes(log, n) /\ Orbit(log)[n] \notin Places

Inv == Typed /\ WalkInv /\ AheadInv /\ RewriteInv /\ DoneInv /\ OutsideInv

LEMMA InvInit ==
    ASSUME Init
    PROVE  Inv
<1>1. /\ log \in Logs /\ pc = "walk" /\ ptr = log.first
      /\ dc = [head |-> log.first, fast_p |-> log.first, slow_p |-> log.first,
               length |-> 0, power |-> 2]
      /\ slow_p = 0 /\ fast_p = 0 /\ tmp = 0
      /\ first = 0 /\ len = 0 /\ in_cycle = FALSE /\ written = << >>
    BY DEF Init, dc_init
<1>2. /\ log.first \in Places /\ 0 \in Places /\ Places \subseteq Nat
      /\ Orbit(log)[0] = log.first
    BY <1>1, LogType, OrbitStep
<1>3. /\ dc \in DcType /\ dc.head = log.first /\ dc.slow_p = log.first
      /\ dc.fast_p = log.first /\ dc.length = 0
    BY <1>1, <1>2 DEF DcType
<1>4. written \in Seq(Places) /\ Len(written) = 0
    BY <1>1, SMTT(20)
<1>5. Typed
    <2>1. \A k \in 1 .. Len(written) : written[k] \in Places
        BY <1>4, SMTT(20)
    <2>2. in_cycle \in BOOLEAN
        BY <1>1
    <2>3. ptr \in Places /\ dc.head \in Places /\ dc.slow_p \in Places
        BY <1>1, <1>2, <1>3
    <2>4. slow_p \in Places /\ fast_p \in Places /\ first \in Places
          /\ tmp \in Nat /\ len \in Nat
        BY <1>1, <1>2
    <2> QED
        BY <1>1, <1>3, <1>4, <2>1, <2>2, <2>3, <2>4 DEF Typed, TypeOK
<1>6. DcAt(log, dc, 0, 0)
    BY <1>2, <1>3, SMTT(20) DEF DcAt
<1>7. Walking(log, dc, ptr, written, 0, 0)
    <2>1. Goes(log, 0)
        BY SMTT(20) DEF Goes
    <2>2. written = Recs(log, 0)
        BY <1>1, RecsNone
    <2> QED
        BY <1>1, <1>2, <1>3, <1>6, <2>1, <2>2 DEF Walking
<1> QED
    BY <1>1, <1>5, <1>7 DEF Inv, WalkInv, AheadInv, RewriteInv, DoneInv,
       OutsideInv

LEMMA TypedAppend ==
    ASSUME NEW w \in Seq(Places), NEW l \in Logs, NEW p \in Places
    PROVE  /\ Append(w, LogFromPtr(l, p)) \in Seq(Places)
           /\ \A k \in 1 .. Len(Append(w, LogFromPtr(l, p))) :
                  Append(w, LogFromPtr(l, p))[k] \in Places
<1>1. LogFromPtr(l, p) \in Places
    BY LogType DEF LogFromPtr
<1>2. PICK v : v = Append(w, LogFromPtr(l, p))
    OBVIOUS
<1>3. v \in Seq(Places)
    BY <1>1, <1>2, SMTT(20)
<1>4. \A k \in 1 .. Len(v) : v[k] \in Places
    BY <1>3, SMTT(20)
<1> QED
    BY <1>2, <1>3, <1>4

\* A record more is written.
LEMMA GoesOn ==
    ASSUME NEW l \in Logs, NEW m, Goes(l, m),
           Orbit(l)[m] \in Places, Orbit(l)[m] # l.next
    PROVE  /\ Goes(l, m + 1)
           /\ Append(Recs(l, m), LogFromPtr(l, Orbit(l)[m])) = Recs(l, m + 1)
<1>1. m \in Nat
    BY DEF Goes
<1>2. \A k \in 0 .. m : k \in 0 .. m - 1 \/ k = m
    BY <1>1, SMTT(20)
<1>3. \A k \in 0 .. m : Orbit(l)[k] \in Places /\ Orbit(l)[k] # l.next
    BY <1>2 DEF Goes
<1>4. Goes(l, m + 1)
    BY <1>1, <1>3, SMTT(20) DEF Goes
<1> QED
    BY <1>1, <1>3, <1>4, RecsAppend
LEMMA InvWalk ==
    ASSUME Inv, Walk
    PROVE  Inv'
<1>1. /\ log \in Logs /\ log' = log /\ pc = "walk" /\ ptr # log.next
      /\ UNCHANGED cycle /\ Typed /\ dc' = Advance(dc, LogNext(log))
    BY DEF Inv, Typed, Walk
<1>2. PICK s, m : Walking(log, dc, ptr, written, s, m)
    BY <1>1 DEF Inv, WalkInv
<1>3. /\ DcAt(log, dc, s, m) /\ (dc.length = 0 \/ ~ Detected(dc))
      /\ ptr = Orbit(log)[m] /\ ptr \in Places /\ Goes(log, m)
      /\ written = Recs(log, m)
    BY <1>2 DEF Walking
<1>4. /\ Goes(log, m + 1)
      /\ Append(written, LogFromPtr(log, ptr)) = Recs(log, m + 1)
    BY <1>1, <1>3, GoesOn
<1>5. /\ dc'.length \in Nat \ {0}
      /\ \E t : DcAt(log, dc', t, m + 1)
    BY <1>1, <1>3, AdvanceAt
<1>6. PICK t : DcAt(log, dc', t, m + 1)
    BY <1>5
<1>7. /\ dc' \in DcType /\ dc'.head = log.first /\ dc'.slow_p \in Places
      /\ dc'.fast_p = Orbit(log)[m + 1] /\ log.first \in Places
    BY <1>1, <1>6, LogType DEF DcAt
<1>8. /\ first' \in Places /\ len' \in Nat /\ in_cycle' \in BOOLEAN
      /\ slow_p \in Places /\ fast_p \in Places /\ tmp \in Nat
      /\ written \in Seq(Places)
    BY <1>1, SMTT(20) DEF Typed, TypeOK, cycle
<1>9. CASE /\ Detected(dc') /\ pc' = "ahead" /\ written' = << >>
           /\ ptr' = log.first
           /\ slow_p' = dc'.head /\ fast_p' = dc'.head /\ tmp' = dc'.length
    <2>1. PICK j, n : Cycles(log, j, n) /\ dc'.length = n - j
        BY <1>1, <1>4, <1>5, <1>6, <1>9, DetectedCycle
    <2>2. j \in Nat /\ n \in Nat /\ j < n
        BY <1>1, <2>1, CycleEnds
    <2>3. 0 \in 0 .. j /\ n - j \in 0 .. n - j /\ (0 + (n - j)) - (n - j) = 0
        BY <2>2, SMTT(20)
    <2>4. Orbit(log)[0] = log.first
        BY <1>1, OrbitStep
    <2>5. Ahead(log, slow_p', fast_p', tmp', j, n, 0)
        BY <1>7, <1>9, <2>1, <2>3, <2>4 DEF Ahead
    <2>6. written' \in Seq(Places) /\ Len(written') = 0
        BY <1>9, SMTT(20)
    <2>7. Typed'
        BY <1>1, <1>5, <1>7, <1>8, <1>9, <2>6, SMTT(20) DEF Typed, TypeOK
    <2> QED
        BY <1>1, <1>9, <2>1, <2>5, <2>7 DEF Inv, WalkInv, AheadInv, RewriteInv,
           DoneInv, OutsideInv
<1>10. CASE /\ pc' = "failed" /\ written' = Append(written, LogFromPtr(log, ptr))
            /\ UNCHANGED <<ptr, finding>>
    <2>1. Typed'
        BY <1>1, <1>3, <1>7, <1>8, <1>10, TypedAppend, SMTT(20) DEF Typed, TypeOK, finding
    <2> QED
        BY <1>10, <2>1 DEF Inv, WalkInv, AheadInv, RewriteInv, DoneInv,
           OutsideInv
<1>11. CASE /\ dc'.fast_p \notin Places /\ pc' = "outside"
            /\ written' = Append(written, LogFromPtr(log, ptr))
            /\ UNCHANGED <<ptr, finding>>
    <2>1. Typed'
        BY <1>1, <1>3, <1>7, <1>8, <1>11, TypedAppend, SMTT(20) DEF Typed, TypeOK, finding
    <2>2. Goes(log', m + 1) /\ Orbit(log')[m + 1] \notin Places
        BY <1>1, <1>4, <1>7, <1>11
    <2> QED
        BY <1>11, <2>1, <2>2, SMTT(20) DEF Inv, WalkInv, AheadInv, RewriteInv,
           DoneInv, OutsideInv
<1>12. CASE /\ ~ Detected(dc') /\ dc'.fast_p \in Places /\ pc' = pc
            /\ written' = Append(written, LogFromPtr(log, ptr))
            /\ ptr' = dc'.fast_p /\ UNCHANGED finding
    <2>1. Typed'
        BY <1>1, <1>3, <1>7, <1>8, <1>12, TypedAppend, SMTT(20) DEF Typed, TypeOK, finding
    <2>2. Walking(log', dc', ptr', written', t, m + 1)
        BY <1>1, <1>4, <1>6, <1>7, <1>12 DEF Walking
    <2> QED
        BY <1>1, <1>12, <2>1, <2>2 DEF Inv, WalkInv, AheadInv, RewriteInv,
           DoneInv, OutsideInv
<1> QED
    BY <1>1, <1>9, <1>10, <1>11, <1>12 DEF Walk
\* The steps that stop the walk: a failed write, and log_next_idx.
LEMMA InvStops ==
    ASSUME Inv, WriteFails \/ WalkEnds \/ RewriteEnds
    PROVE  Inv'
<1>1. UNCHANGED <<log, ptr, dc, finding, cycle, written>> /\ Typed
    BY DEF Inv, WriteFails, WalkEnds, RewriteEnds
<1>2. pc' \in {"failed", "done", "cycle"}
    BY DEF WriteFails, WalkEnds, RewriteEnds
<1>3. Typed'
    BY <1>1, <1>2 DEF Typed, TypeOK, finding, cycle
<1>4. CASE pc' = "done"
    <2>1. pc = "walk" /\ ptr = log.next
        BY <1>4 DEF WriteFails, WalkEnds, RewriteEnds
    <2>2. PICK s, m : Walking(log, dc, ptr, written, s, m)
        BY <2>1 DEF Inv, WalkInv
    <2>3. /\ Goes(log', m) /\ Orbit(log')[m] = log'.next
          /\ written' = Recs(log', m)
        BY <1>1, <2>1, <2>2 DEF Walking
    <2> QED
        BY <1>3, <1>4, <2>3 DEF Inv, WalkInv, AheadInv, RewriteInv, DoneInv,
           OutsideInv
<1>5. CASE pc' # "done"
    BY <1>2, <1>3, <1>5 DEF Inv, WalkInv, AheadInv, RewriteInv, DoneInv,
       OutsideInv
<1> QED
    BY <1>4, <1>5

\* dc_find_start(): fast_p goes ahead.
LEMMA InvGoAhead ==
    ASSUME Inv, GoAhead
    PROVE  Inv'
<1>1. /\ log \in Logs /\ Typed /\ pc = "ahead" /\ tmp # 0
      /\ UNCHANGED <<log, pc, ptr, dc, slow_p, cycle, written>>
      /\ fast_p' = LogNext(log)[fast_p] /\ tmp' = tmp - 1
    BY DEF Inv, Typed, GoAhead
<1>2. PICK j, n, i : /\ Cycles(log, j, n) /\ dc.length = n - j
                     /\ Ahead(log, slow_p, fast_p, tmp, j, n, i)
    BY <1>1 DEF Inv, AheadInv
<1>3. /\ j \in Nat /\ n \in Nat /\ j < n /\ i = 0 /\ tmp \in 0 .. n - j
      /\ slow_p = Orbit(log)[i] /\ fast_p = Orbit(log)[(i + (n - j)) - tmp]
    BY <1>1, <1>2, CycleEnds DEF Ahead
<1>4. PICK k \in Nat : k = (i + (n - j)) - tmp
    BY <1>3, SMTT(20)
<1>5. k + 1 = (i + (n - j)) - tmp' /\ tmp' \in 0 .. n - j
    BY <1>1, <1>3, <1>4, SMTT(20)
<1>6. fast_p' = Orbit(log)[k + 1] /\ fast_p' \in Places
    BY <1>1, <1>2, <1>3, <1>4, OrbitStep, CycleInside, SMTT(20)
<1>7. Ahead(log', slow_p', fast_p', tmp', j, n, i)
    BY <1>1, <1>3, <1>5, <1>6, SMTT(20) DEF Ahead
<1>8. Typed'
    BY <1>1, <1>3, <1>5, <1>6, SMTT(20) DEF Typed, TypeOK, cycle
<1> QED
    BY <1>1, <1>2, <1>7, <1>8 DEF Inv, WalkInv, AheadInv, RewriteInv, DoneInv,
       OutsideInv

\* dc_find_start(): both go on.
LEMMA InvMeet ==
    ASSUME Inv, Meet
    PROVE  Inv'
<1>1. /\ log \in Logs /\ Typed /\ pc = "ahead" /\ tmp = 0 /\ slow_p # fast_p
      /\ UNCHANGED <<log, pc, ptr, dc, tmp, cycle, written>>
      /\ slow_p' = LogNext(log)[slow_p] /\ fast_p' = LogNext(log)[fast_p]
    BY DEF Inv, Typed, Meet
<1>2. PICK j, n, i : /\ Cycles(log, j, n) /\ dc.length = n - j
                     /\ Ahead(log, slow_p, fast_p, tmp, j, n, i)
    BY <1>1 DEF Inv, AheadInv
<1>3. /\ j \in Nat /\ n \in Nat /\ j < n /\ i \in 0 .. j
      /\ slow_p = Orbit(log)[i] /\ fast_p = Orbit(log)[(i + (n - j)) - tmp]
    BY <1>1, <1>2, CycleEnds DEF Ahead
<1>4. PICK k \in Nat : k = i + (n - j)
    BY <1>3, SMTT(20)
<1>5. fast_p = Orbit(log)[k]
    BY <1>1, <1>3, <1>4, SMTT(20)
<1>6. i # j
    <2>1. SUFFICES ASSUME i = j PROVE FALSE
        OBVIOUS
    <2>2. k = n
        BY <1>3, <1>4, <2>1, SMTT(20)
    <2>3. Orbit(log)[j] = Orbit(log)[n]
        BY <1>2 DEF Cycles, FirstRepeat
    <2> QED
        BY <1>1, <1>3, <1>5, <2>1, <2>2, <2>3
<1>7. i \in Nat /\ i + 1 \in 0 .. j /\ k + 1 = ((i + 1) + (n - j)) - tmp'
    BY <1>1, <1>3, <1>4, <1>6, SMTT(20)
<1>8. /\ slow_p' = Orbit(log)[i + 1] /\ slow_p' \in Places
      /\ fast_p' = Orbit(log)[k + 1] /\ fast_p' \in Places
    BY <1>1, <1>2, <1>3, <1>5, <1>7, OrbitStep, CycleInside, SMTT(20)
<1>9. Ahead(log', slow_p', fast_p', tmp', j, n, i + 1)
    BY <1>1, <1>3, <1>7, <1>8, SMTT(20) DEF Ahead
<1>10. Typed'
    BY <1>1, <1>8 DEF Typed, TypeOK, cycle
<1> QED
    BY <1>1, <1>2, <1>9, <1>10 DEF Inv, WalkInv, AheadInv, RewriteInv, DoneInv,
       OutsideInv

\* dc_find_start(): where they meet the cycle starts.
LEMMA StartMet ==
    ASSUME Inv, StartFound
    PROVE  \E j, n : /\ Cycles(log, j, n) /\ first' = Orbit(log)[j]
                     /\ len' = n - j /\ len' \in Nat
<1>1. /\ log \in Logs /\ Typed /\ pc = "ahead" /\ tmp = 0 /\ slow_p = fast_p
      /\ first' = slow_p /\ len' = dc.length
    BY DEF Inv, Typed, StartFound
<1>2. PICK j, n, i : /\ Cycles(log, j, n) /\ dc.length = n - j
                     /\ Ahead(log, slow_p, fast_p, tmp, j, n, i)
    BY <1>1 DEF Inv, AheadInv
<1>3. /\ j \in Nat /\ n \in Nat /\ j < n /\ i \in 0 .. j
      /\ slow_p = Orbit(log)[i] /\ fast_p = Orbit(log)[(i + (n - j)) - tmp]
    BY <1>1, <1>2, CycleEnds DEF Ahead
<1>4. PICK c \in Nat \ {0} : c = n - j
    BY <1>3, SMTT(20)
<1>5. i \in Nat /\ i + c = (i + (n - j)) - tmp
    BY <1>1, <1>3, <1>4, SMTT(20)
<1>6. Orbit(log)[i] = Orbit(log)[i + c]
    BY <1>1, <1>3, <1>5
<1>7. j <= i
    <2>1. IsOrbit(Orbit(log), Hop(log), Nat, log.first)
        BY <1>1, OrbitIs
    <2>2. FirstRepeat(Orbit(log), j, n)
        BY <1>2 DEF Cycles
    <2> QED
        BY <1>5, <1>6, <2>1, <2>2, RepeatOnCycle
<1>8. i = j
    BY <1>3, <1>7, SMTT(20)
<1> QED
    BY <1>1, <1>2, <1>3, <1>4, <1>8

LEMMA InvStartFound ==
    ASSUME Inv, StartFound
    PROVE  Inv'
<1>1. /\ log \in Logs /\ Typed /\ pc = "ahead" /\ in_cycle' = FALSE
      /\ pc' = "rewrite" /\ first' = slow_p
      /\ UNCHANGED <<log, ptr, dc, finding, written>>
      /\ ptr = log.first /\ written = << >>
    BY DEF Inv, AheadInv, Typed, StartFound
<1>2. PICK j, n : /\ Cycles(log, j, n) /\ first' = Orbit(log)[j]
                  /\ len' = n - j /\ len' \in Nat
    BY StartMet
<1>3. Again(log', ptr', written', 0)
    BY <1>1, OrbitStep, RecsNone DEF Again
<1>4. Typed'
    <2>1. in_cycle' \in BOOLEAN /\ first' \in Places
        BY <1>1 DEF Typed, TypeOK
    <2> QED
        BY <1>1, <1>2, <2>1 DEF Typed, TypeOK, finding
<1> QED
    BY <1>1, <1>2, <1>3, <1>4 DEF Inv, WalkInv, AheadInv, RewriteInv, DoneInv,
       OutsideInv

\* A record is written again.
LEMMA AgainNext ==
    ASSUME NEW l \in Logs, NEW j, NEW n, Cycles(l, j, n),
           NEW p, NEW w, NEW q, Again(l, p, w, q)
    PROVE  /\ Again(l, LogNext(l)[p], Append(w, LogFromPtr(l, p)), q + 1)
           /\ p \in Places /\ LogNext(l)[p] \in Places
<1>1. q \in Nat /\ p = Orbit(l)[q] /\ w = Recs(l, q)
    BY DEF Again
<1>2. q + 1 \in Nat /\ q + 1 # 0
    BY <1>1, SMTT(20)
<1>3. \A k \in 0 .. q : Orbit(l)[k] \in Places
    <2>1. \A k \in 0 .. q : k \in Nat
        BY <1>1, SMTT(20)
    <2> QED
        BY <2>1, CycleInside
<1>4. p \in Places /\ Orbit(l)[q + 1] \in Places
    BY <1>1, <1>2, CycleInside
<1>5. LogNext(l)[p] = Orbit(l)[q + 1]
    BY <1>1, <1>4, OrbitStep
<1>6. Append(w, LogFromPtr(l, p)) = Recs(l, q + 1)
    BY <1>1, <1>3, RecsAppend
<1> QED
    BY <1>2, <1>4, <1>5, <1>6 DEF Again

LEMMA InvRewrite ==
    ASSUME Inv, Rewrite
    PROVE  Inv'
<1>1. /\ log \in Logs /\ Typed /\ pc = "rewrite" /\ len # 0
      /\ written' = Append(written, LogFromPtr(log, ptr))
      /\ ptr' = LogNext(log)[ptr] /\ len' \in {len - 1, len}
      /\ UNCHANGED <<log, pc, dc, finding, first>>
    BY DEF Inv, Typed, Rewrite
<1>2. PICK j, n, q : /\ Cycles(log, j, n) /\ first = Orbit(log)[j]
                     /\ Again(log, ptr, written, q)
    BY <1>1 DEF Inv, RewriteInv
<1>3. /\ Again(log', ptr', written', q + 1)
      /\ ptr \in Places /\ ptr' \in Places
    BY <1>1, <1>2, AgainNext
<1>4. q + 1 # 0
    BY <1>2, SMTT(20) DEF Again
<1>5. in_cycle' \in BOOLEAN
    BY DEF Rewrite
<1>6. len' \in Nat
    BY <1>1, SMTT(20) DEF Typed, TypeOK
<1>7. Typed'
    BY <1>1, <1>3, <1>5, <1>6, TypedAppend DEF Typed, TypeOK, finding
<1> QED
    BY <1>1, <1>2, <1>3, <1>4, <1>7 DEF Inv, WalkInv, AheadInv, RewriteInv,
       DoneInv, OutsideInv

LEMMA InvNext ==
    ASSUME Inv, [Next]_vars
    PROVE  Inv'
<1>1. CASE UNCHANGED vars
    <2>1. /\ log' = log /\ pc' = pc /\ ptr' = ptr /\ dc' = dc
          /\ slow_p' = slow_p /\ fast_p' = fast_p /\ tmp' = tmp
          /\ first' = first /\ len' = len /\ in_cycle' = in_cycle
          /\ written' = written
        BY <1>1 DEF vars, finding, cycle
    <2>2. Typed'
        BY <2>1 DEF Inv, Typed, TypeOK
    <2>3. WalkInv' /\ AheadInv'
        BY <2>1 DEF Inv, WalkInv, AheadInv
    <2>4. RewriteInv'
        <3>1. SUFFICES ASSUME pc = "rewrite" PROVE RewriteInv'
            BY <2>1 DEF RewriteInv
        <3>2. PICK j, n, q : /\ Cycles(log, j, n) /\ first = Orbit(log)[j]
                             /\ Again(log, ptr, written, q)
                             /\ q = 0 => len = n - j
            BY <3>1 DEF Inv, RewriteInv
        <3>3. /\ Cycles(log', j, n) /\ first' = Orbit(log')[j]
              /\ Again(log', ptr', written', q)
              /\ q = 0 => len' = n - j
            BY <2>1, <3>2
        <3> QED
            BY <3>3 DEF RewriteInv
    <2>5. DoneInv' /\ OutsideInv'
        BY <2>1 DEF Inv, DoneInv, OutsideInv
    <2> QED
        BY <2>2, <2>3, <2>4, <2>5 DEF Inv
<1>2. CASE Step
    BY <1>2, InvWalk, InvStops, InvGoAhead, InvMeet, InvStartFound, InvRewrite
       DEF Step
<1>3. CASE Stopped
    BY <1>1, <1>3 DEF Stopped
<1> QED
    BY <1>1, <1>2, <1>3 DEF Next
LEMMA InvAlways == Spec => []Inv
<1>1. Init => Inv
    BY InvInit
<1>2. Inv /\ [Next]_vars => Inv'
    BY InvNext
<1> QED
    BY <1>1, <1>2, PTL DEF Spec

(***************************************************************************)
(* For every log, of any length and with any contents, and with any write, *)
(* truncation or close failing: dump_dmesg() returns TRUE only if the      *)
(* records from log_first_idx to log_next_idx make no cycle, and has then  *)
(* written each of them once and in order.                                 *)
(***************************************************************************)
THEOREM WholeLogAlways == Spec => []WholeLogWhenDone
<1>1. ASSUME Inv
      PROVE  WholeLogWhenDone
    <2> SUFFICES ASSUME pc = "done"
                 PROVE  ~ Cyclic(log) /\ written = Records(log)
                        /\ IsInjective(written)
        BY DEF WholeLogWhenDone
    <2>1. log \in Logs
        BY <1>1 DEF Inv, Typed
    <2>2. PICK n : /\ Goes(log, n) /\ Orbit(log)[n] = log.next
                   /\ written = Recs(log, n)
        BY <1>1 DEF Inv, DoneInv
    <2>3. PathEnds(log, n) /\ ~ Cyclic(log)
        BY <2>1, <2>2, EndsOnce
    <2> QED
        BY <2>1, <2>2, <2>3, RecordsAre, RecordsOnce
<1> QED
    BY <1>1, InvAlways, PTL

(***************************************************************************)
(* For every log: what dc_next() and dc_find_start() report is the place   *)
(* the walk comes back to first and the length of the cycle, a walk that   *)
(* leaves the log has no cycle, and no place outside of the log is read.   *)
(***************************************************************************)
THEOREM CycleAlwaysFound == Spec => []CycleFound
<1>1. ASSUME Inv
      PROVE  CycleFound
    <2>1. log \in Logs /\ TypeOK
        BY <1>1 DEF Inv, Typed
    <2>2. ASSUME pc = "rewrite", written = << >>
          PROVE  /\ Cyclic(log) /\ first = Path(log).end
                 /\ len = CycleLength(log)
        <3>1. PICK j, n, q : /\ Cycles(log, j, n) /\ first = Orbit(log)[j]
                             /\ Again(log, ptr, written, q)
                             /\ q = 0 => len = n - j
            BY <1>1, <2>2 DEF Inv, RewriteInv
        <3>2. q \in Nat /\ Recs(log, q) = << >>
            BY <2>2, <3>1 DEF Again
        <3>3. Len(Recs(log, q)) = q
            <4>1. \A k \in 0 .. q - 1 : k \in Nat
                BY <3>2, SMTT(20)
            <4>2. \A k \in 0 .. q - 1 : Orbit(log)[k] \in Places
                BY <2>1, <3>1, <4>1, CycleInside
            <4> QED
                BY <2>1, <3>2, <4>2, RecsType
        <3>4. q = 0
            BY <3>2, <3>3
        <3> QED
            BY <2>1, <3>1, <3>4, CycleEnds, CycleLengthIs
    <2>3. ASSUME pc = "outside"
          PROVE  ~ Cyclic(log)
        <3>1. PICK n : Goes(log, n) /\ Orbit(log)[n] \notin Places
            BY <1>1, <2>3 DEF Inv, OutsideInv
        <3> QED
            BY <2>1, <3>1, EndsOnce
    <2> QED
        BY <2>1, <2>2, <2>3 DEF CycleFound
<1> QED
    BY <1>1, InvAlways, PTL

-----------------------------------------------------------------------------
(***************************************************************************)
(* What is written again.  A record is known by its place, and the code    *)
(* looks for the start of the cycle among the records: where the walk      *)
(* comes back to an end marker it is not among them, and where the walk is *)
(* at the record at the start of the buffer twice this record is written   *)
(* twice.  This part needs that neither is so.                             *)
(***************************************************************************)
StartIsRecord == \A l \in Logs : ~ BackToMarker(l)
StartOnce == \A l \in Logs : ~ TwiceAtStart(l)

\* How many records are written and what is left to write: before the cycle,
\* on it, or all but a cycle of one record that was written for an end marker.
Rewritten(l, q, left, inside, j, n) ==
    /\ q \in 0 .. n
    /\ \/ ~ inside /\ q <= j /\ left = n - j
       \/ inside /\ q > j /\ left = n - q
       \/ /\ inside /\ q = j /\ left = 0 /\ n = j + 1
          /\ Range(Recs(l, q)) = Range(Recs(l, n))

Exact ==
    pc \in {"rewrite", "cycle"} =>
        /\ \E j, n, q : /\ Cycles(log, j, n) /\ first = Orbit(log)[j]
                        /\ Again(log, ptr, written, q)
                        /\ Rewritten(log, q, len, in_cycle, j, n)
        /\ pc = "cycle" => len = 0

\* Before the cycle the start of the cycle is met only as the record that an
\* end marker stands for, one place before a cycle of one record.
LEMMA StartMetEarly ==
    ASSUME StartIsRecord, NEW l \in Logs, NEW j, NEW n, Cycles(l, j, n),
           NEW q \in Nat, q < j, LogFromPtr(l, Orbit(l)[q]) = Orbit(l)[j]
    PROVE  n = j + 1 /\ q + 1 = j /\ Range(Recs(l, j)) = Range(Recs(l, n))
<1>1. /\ j \in Nat /\ n \in Nat /\ j < n /\ Cyclic(l)
      /\ Path(l).end = Orbit(l)[j]
      /\ Orbit(l)[j] = Orbit(l)[n]
      /\ \A a, b \in 0 .. n - 1 : Orbit(l)[a] = Orbit(l)[b] => a = b
    BY CycleEnds DEF Cycles, FirstRepeat
<1>2. LogFromPtr(l, Orbit(l)[j]) = Orbit(l)[j]
    BY <1>1 DEF StartIsRecord, BackToMarker
<1>3. Orbit(l)[q] \in Places /\ Orbit(l)[j] \in Places
    BY <1>1, CycleInside
<1>4. Orbit(l)[q + 1] = Orbit(l)[j + 1]
    <2>1. LogNext(l)[Orbit(l)[q]] = LogNext(l)[Orbit(l)[j]]
        BY <1>2, <1>3, SameRecord
    <2> QED
        BY <1>1, <1>3, <2>1, OrbitStep
<1>5. n = j + 1
    <2> SUFFICES ASSUME n # j + 1 PROVE FALSE
        OBVIOUS
    <2>1. q + 1 \in 0 .. n - 1 /\ j + 1 \in 0 .. n - 1 /\ q + 1 # j + 1
        BY <1>1, SMTT(20)
    <2> QED
        BY <1>1, <1>4, <2>1
<1>6. q + 1 = j
    <2>1. q + 1 \in 0 .. n - 1 /\ j \in 0 .. n - 1
        BY <1>1, SMTT(20)
    <2>2. Orbit(l)[q + 1] = Orbit(l)[j]
        BY <1>1, <1>4, <1>5
    <2> QED
        BY <1>1, <2>1, <2>2
<1>7. Range(Recs(l, j)) = Range(Recs(l, n))
    <2>1. DOMAIN Recs(l, j) = 1 .. j /\ DOMAIN Recs(l, n) = 1 .. n
        BY DEF Recs
    <2>2. \A k \in 1 .. j : k \in 1 .. n
        BY <1>1, SMTT(20)
    <2>3. \A k \in 1 .. n : k \in 1 .. j \/ k = n
        BY <1>1, <1>5, SMTT(20)
    <2>4. \A k \in 1 .. j : Recs(l, j)[k] = Recs(l, n)[k]
        BY <2>2 DEF Recs
    <2>5. j \in 1 .. j /\ n \in 1 .. n /\ n - 1 = j /\ j - 1 = q
        BY <1>1, <1>5, <1>6, SMTT(20)
    <2>6. Recs(l, n)[n] = Recs(l, j)[j]
        BY <1>2, <2>5 DEF Recs
    <2>7. \A k \in 1 .. n : \E i \in 1 .. j : Recs(l, n)[k] = Recs(l, j)[i]
        BY <2>3, <2>4, <2>5, <2>6
    <2> QED
        BY <2>1, <2>2, <2>4, <2>7 DEF Range
<1> QED
    BY <1>5, <1>6, <1>7
\* The records of a shorter walk are a prefix of those of a longer one.
LEMMA RecsPrefix ==
    ASSUME NEW l \in Logs, NEW j, NEW n \in Nat, Cycles(l, j, n),
           NEW q \in 0 .. n
    PROVE  /\ Len(Recs(l, q)) <= Len(Recs(l, n))
           /\ Recs(l, q) = SubSeq(Recs(l, n), 1, Len(Recs(l, q)))
<1>1. \A k \in 0 .. n - 1 : Orbit(l)[k] \in Places
    BY DEF Cycles, Goes
<1>2. \A k \in 0 .. q - 1 : k \in 0 .. n - 1
    BY SMTT(20)
<1>3. q \in Nat /\ \A k \in 0 .. q - 1 : Orbit(l)[k] \in Places
    BY <1>1, <1>2, SMTT(20)
<1>4. PICK s \in Seq(Places), t \in Seq(Places) :
         s = Recs(l, q) /\ t = Recs(l, n) /\ Len(s) = q /\ Len(t) = n
    BY <1>1, <1>3, RecsType
<1>5. \A k \in 1 .. q : s[k] = t[k]
    <2>1. \A k \in 1 .. q : k \in 1 .. n
        BY SMTT(20)
    <2> QED
        BY <1>4, <2>1 DEF Recs
<1>6. SubSeq(t, 1, q) = s
    <2>1. /\ SubSeq(t, 1, q) \in Seq(Places) /\ Len(SubSeq(t, 1, q)) = q
          /\ \A k \in 1 .. q : SubSeq(t, 1, q)[k] = t[k]
        BY <1>3, <1>4, SMTT(20)
    <2> QED
        BY <1>4, <1>5, <2>1, SeqSame
<1> QED
    BY <1>4, <1>6, SMTT(20)

LEMMA RewrittenNext ==
    ASSUME StartIsRecord, NEW l \in Logs, NEW j, NEW n, Cycles(l, j, n),
           NEW q, NEW left, NEW inside \in BOOLEAN, left # 0,
           Rewritten(l, q, left, inside, j, n),
           NEW in \in BOOLEAN, NEW rest,
           in <=> (inside \/ LogFromPtr(l, Orbit(l)[q]) = Orbit(l)[j]),
           in => rest = left - 1, ~ in => rest = left
    PROVE  Rewritten(l, q + 1, rest, in, j, n)
<1>1. /\ j \in Nat /\ n \in Nat /\ j < n /\ Cyclic(l) /\ q \in Nat /\ q \in 0 .. n
      /\ Path(l).end = Orbit(l)[j]
    BY CycleEnds, SMTT(20) DEF Rewritten
<1>2. CASE ~ inside /\ q <= j /\ left = n - j
    <2>1. CASE q = j
        <3>1. LogFromPtr(l, Orbit(l)[q]) = Orbit(l)[j]
            BY <1>1, <2>1 DEF StartIsRecord, BackToMarker
        <3>2. in /\ rest = left - 1
            BY <3>1
        <3>3. q + 1 \in 0 .. n /\ q + 1 > j /\ rest = n - (q + 1)
            BY <1>1, <1>2, <2>1, <3>2, SMTT(20)
        <3> QED
            BY <3>2, <3>3 DEF Rewritten
    <2>2. CASE q < j /\ LogFromPtr(l, Orbit(l)[q]) = Orbit(l)[j]
        <3>1. n = j + 1 /\ q + 1 = j /\ Range(Recs(l, j)) = Range(Recs(l, n))
            BY <1>1, <2>2, StartMetEarly, SMTT(20)
        <3>2. in /\ rest = left - 1
            BY <2>2
        <3>3. rest = 0 /\ q + 1 \in 0 .. n
            BY <1>1, <1>2, <3>1, <3>2, SMTT(20)
        <3> QED
            BY <3>1, <3>2, <3>3 DEF Rewritten
    <2>3. CASE q < j /\ LogFromPtr(l, Orbit(l)[q]) # Orbit(l)[j]
        <3>1. ~ in /\ rest = n - j
            BY <1>2, <2>3
        <3>2. q + 1 \in 0 .. n /\ q + 1 <= j
            BY <1>1, <2>3, SMTT(20)
        <3> QED
            BY <3>1, <3>2 DEF Rewritten
    <2> QED
        BY <1>1, <1>2, <2>1, <2>2, <2>3, SMTT(20)
<1>3. CASE inside /\ q > j /\ left = n - q
    <2>1. in /\ rest = left - 1
        BY <1>3
    <2>2. q + 1 \in 0 .. n /\ q + 1 > j /\ rest = n - (q + 1)
        BY <1>1, <1>3, <2>1, SMTT(20)
    <2> QED
        BY <2>1, <2>2 DEF Rewritten
<1> QED
    BY <1>2, <1>3 DEF Rewritten

LEMMA ExactRewrite ==
    ASSUME StartIsRecord, Inv, Exact, Rewrite
    PROVE  Exact'
<1>1. /\ log \in Logs /\ pc = "rewrite" /\ len # 0 /\ in_cycle \in BOOLEAN
      /\ written' = Append(written, LogFromPtr(log, ptr))
      /\ ptr' = LogNext(log)[ptr] /\ log' = log /\ first' = first /\ pc' = pc
    BY DEF Inv, Typed, TypeOK, Rewrite
<1>2. PICK j, n, q : /\ Cycles(log, j, n) /\ first = Orbit(log)[j]
                     /\ Again(log, ptr, written, q)
                     /\ Rewritten(log, q, len, in_cycle, j, n)
    BY <1>1 DEF Exact
<1>3. /\ in_cycle' \in BOOLEAN
      /\ in_cycle' <=> (in_cycle \/ LogFromPtr(log, Orbit(log)[q]) = Orbit(log)[j])
      /\ in_cycle' => len' = len - 1
      /\ ~ in_cycle' => len' = len
    <2>1. ptr = Orbit(log)[q] /\ first = Orbit(log)[j]
        BY <1>2 DEF Again
    <2>2. /\ in_cycle' = (in_cycle \/ LogFromPtr(log, ptr) = first)
          /\ len' = IF in_cycle' THEN len - 1 ELSE len
        BY DEF Rewrite
    <2> QED
        BY <1>1, <2>1, <2>2
<1>4. Rewritten(log, q + 1, len', in_cycle', j, n)
    BY <1>1, <1>2, <1>3, RewrittenNext
<1>5. Again(log, ptr', written', q + 1)
    BY <1>1, <1>2, AgainNext
<1> QED
    BY <1>1, <1>2, <1>4, <1>5 DEF Exact

LEMMA ExactStart ==
    ASSUME Inv, StartFound
    PROVE  Exact'
<1>1. /\ log \in Logs /\ pc = "ahead" /\ in_cycle' = FALSE
      /\ pc' = "rewrite" /\ log' = log /\ ptr' = ptr /\ written' = written
      /\ ptr = log.first /\ written = << >>
    BY DEF Inv, AheadInv, Typed, StartFound
<1>2. PICK j, n : /\ Cycles(log, j, n) /\ first' = Orbit(log)[j]
                  /\ len' = n - j
    BY StartMet
<1>3. Again(log', ptr', written', 0)
    BY <1>1, OrbitStep, RecsNone DEF Again
<1>4. 0 \in 0 .. n /\ 0 <= j
    BY <1>1, <1>2, CycleEnds, SMTT(20)
<1>5. Rewritten(log', 0, len', in_cycle', j, n)
    BY <1>1, <1>2, <1>4 DEF Rewritten
<1> QED
    BY <1>1, <1>2, <1>3, <1>5 DEF Exact

LEMMA ExactNext ==
    ASSUME StartIsRecord, Inv, Exact, [Next]_vars
    PROVE  Exact'
<1>1. CASE UNCHANGED vars
    BY <1>1 DEF Exact, vars, cycle
<1>2. CASE Rewrite
    BY <1>2, ExactRewrite
<1>3. CASE StartFound
    BY <1>3, ExactStart
<1>4. CASE RewriteEnds
    BY <1>4 DEF Exact, RewriteEnds, cycle
<1>5. CASE WriteFails \/ Walk \/ WalkEnds \/ GoAhead \/ Meet
    <2>1. pc' \notin {"rewrite", "cycle"}
        BY <1>5 DEF WriteFails, Walk, WalkEnds, GoAhead, Meet
    <2> QED
        BY <2>1 DEF Exact
<1>6. CASE Stopped
    BY <1>1, <1>6 DEF Stopped
<1> QED
    BY <1>1, <1>2, <1>3, <1>4, <1>5, <1>6 DEF Next, Step

\* The places up to the cycle and once around it differ; so do their records,
\* for only the one at the start of the buffer has several places.
LEMMA RecsInjective ==
    ASSUME StartOnce, NEW l \in Logs, NEW j, NEW n, Cycles(l, j, n),
           NEW q \in Nat, q \in 0 .. n
    PROVE  IsInjective(Recs(l, q))
<1>1. /\ n \in Nat /\ Records(l) = Recs(l, n) /\ Len(Recs(l, n)) = n
      /\ \A a, b \in 0 .. n - 1 : Orbit(l)[a] = Orbit(l)[b] => a = b
    <2>1. n \in Nat /\ PathEnds(l, n)
        BY CycleEnds
    <2>2. \A k \in 0 .. n - 1 : Orbit(l)[k] \in Places
        <3>1. \A k \in 0 .. n - 1 : k \in Nat
            BY <2>1, SMTT(20)
        <3> QED
            BY <3>1, CycleInside
    <2> QED
        BY <2>1, <2>2, RecordsAre, RecsType DEF Cycles, FirstRepeat
<1> SUFFICES ASSUME NEW a \in 1 .. q, NEW b \in 1 .. q,
                    Recs(l, q)[a] = Recs(l, q)[b]
             PROVE  a = b
    BY DEF IsInjective, Recs
<1>2. /\ a \in 1 .. n /\ b \in 1 .. n
      /\ a - 1 \in 0 .. n - 1 /\ b - 1 \in 0 .. n - 1
    BY <1>1, SMTT(20)
<1>3. PICK x, y : x = Orbit(l)[a - 1] /\ y = Orbit(l)[b - 1]
    OBVIOUS
<1>4. /\ Recs(l, n)[a] = LogFromPtr(l, x) /\ Recs(l, n)[b] = LogFromPtr(l, y)
      /\ LogFromPtr(l, x) = LogFromPtr(l, y)
    BY <1>2, <1>3 DEF Recs
<1>5. CASE LogFromPtr(l, x) = 0
    <2>1. ~ TwiceAtStart(l)
        BY DEF StartOnce
    <2>2. Records(l)[a] = 0 /\ Records(l)[b] = 0
        BY <1>1, <1>4, <1>5
    <2> QED
        BY <1>1, <1>2, <2>1, <2>2 DEF TwiceAtStart
<1>6. CASE LogFromPtr(l, x) # 0
    <2>1. x = y
        BY <1>4, <1>6 DEF LogFromPtr
    <2>2. a - 1 = b - 1
        BY <1>1, <1>2, <1>3, <2>1
    <2> QED
        BY <2>2, SMTT(20)
<1> QED
    BY <1>5, <1>6

(***************************************************************************)
(* For every log whose walk neither comes back to an end marker nor is     *)
(* twice at the start of the buffer: on a cycle dump_dmesg() writes the    *)
(* file again with the records up to the cycle and once around it, in      *)
(* order and none twice, and stops when all are written.                   *)
(***************************************************************************)
THEOREM OnlyUpToCorruptionAlways ==
    ASSUME StartIsRecord, StartOnce
    PROVE  Spec => []OnlyUpToCorruption
<1>1. Init => Exact
    BY DEF Init, Exact
<1>2. Inv /\ Exact /\ [Next]_vars => Exact'
    BY ExactNext
<1>3. ASSUME Inv, Exact
      PROVE  OnlyUpToCorruption
    <2> SUFFICES ASSUME pc \in {"rewrite", "cycle"}
                 PROVE  /\ Len(written) <= Len(Records(log))
                        /\ written = SubSeq(Records(log), 1, Len(written))
                        /\ IsInjective(written)
                        /\ pc = "cycle" =>
                              Range(written) = Range(Records(log))
        BY DEF OnlyUpToCorruption
    <2>1. log \in Logs
        BY <1>3 DEF Inv, Typed
    <2>2. PICK j, n, q : /\ Cycles(log, j, n) /\ Again(log, ptr, written, q)
                         /\ Rewritten(log, q, len, in_cycle, j, n)
        BY <1>3 DEF Exact
    <2>3. j \in Nat /\ n \in Nat /\ j < n /\ q \in 0 .. n /\ q \in Nat
          /\ written = Recs(log, q) /\ Records(log) = Recs(log, n)
        BY <2>1, <2>2, CycleEnds, RecordsAre DEF Rewritten, Again
    <2>4. /\ Len(Recs(log, q)) <= Len(Recs(log, n))
          /\ Recs(log, q) = SubSeq(Recs(log, n), 1, Len(Recs(log, q)))
        BY <2>1, <2>2, <2>3, RecsPrefix
    <2>5. ASSUME pc = "cycle"
          PROVE  Range(written) = Range(Records(log))
        <3>1. len = 0
            BY <1>3, <2>5 DEF Exact
        <3>2. q = n \/ Range(Recs(log, q)) = Range(Recs(log, n))
            BY <2>2, <2>3, <3>1, SMTT(20) DEF Rewritten
        <3> QED
            BY <2>3, <3>2
    <2>6. IsInjective(Recs(log, q))
        BY <2>1, <2>2, <2>3, RecsInjective
    <2> QED
        BY <2>3, <2>4, <2>5, <2>6
<1> QED
    BY <1>1, <1>2, <1>3, InvAlways, PTL DEF Spec
=============================================================================
