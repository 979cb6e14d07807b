------------------------ MODULE ServerLifecycle_proofs ------------------------
(***************************************************************************)
(* Safety of the accept loop and of the tick loop, for every period, every *)
(* length of a tick and every delay of the timer.                          *)
(*                                                                         *)
(* NoBurst speaks of the step that starts a tick; what makes it hold is    *)
(* that the deadline and the time since the last tick move together        *)
(* (Paced). StopsOnlyWhenAsked needs that an interrupt a future has heard  *)
(* was pressed (Caused).                                                   *)
(*                                                                         *)
(* NearestRank speaks of a sorted copy of the window. There is one         *)
(* (OrderExists), every sorted copy has the same entries as the window     *)
(* (SortedIs), so the entries at or below the one at a rank are as many as *)
(* the rank says, whichever equal entries were swapped (CountedByRank).    *)
(* The rank is rounded up from a product that is rounded before: that      *)
(* falls short by less than one part in 2^Precision, and never passes a    *)
(* whole number that the exact product does not (RoundedIs).               *)
(***************************************************************************)
EXTENDS ServerLifecycle, Arithmetic, SequenceTheorems

\* Until a tick is a period old, its age and the time left add up to a period, or
\* less by a lateness the timer made nothing of; before the first tick there is nothing to wait for, and the tick loop is not
\* there before run has started it.
Paced ==
    /\ ticker \in {"none", "spawned", "select", "tick", "stopped", "panicked"}
    /\ run = "bound" => ticker = "none"
    /\ due \in Int /\ since \in Int
    /\ since = Period \/ due + since \in Period - Tolerance .. Period
    /\ since <= Period
    /\ ticker \in {"none", "spawned"} => since = Period

\* Whatever ends the loop was an interrupt.
Caused ==
    /\ presses \in Nat
    /\ run \in {"bound", "select", "draining", "stopped", "killed"}
    /\ heard => presses > 0
    /\ run \in {"draining", "stopped", "killed"} => presses > 0

\* Every task was a connection in the queue, and every one of those arrived.
Counted == queued + tasks <= arrived

\* A period is a natural number, zero where the rate is more than two to the
\* nanosecond.
LEMMA PeriodIsNat == Period \in Nat
<1>1. Second \in Nat /\ TickRate \in Nat \ {0}
  BY ServerLifecycleAssumption
<1>2. \A n \in Nat, d \in Nat \ {0} : (n \div d) \in Nat
  BY SMT
<1>3. 2 * Second + TickRate \in Nat /\ 2 * TickRate \in Nat \ {0}
  BY <1>1
<1> QED
  BY <1>2, <1>3 DEF Period

LEMMA InitHolds == Init => Paced /\ Caused
BY PeriodIsNat DEF Init, Paced, Caused

LEMMA PacedKept == Paced /\ [Next]_vars => Paced'
<1> SUFFICES ASSUME Paced, [Next]_vars PROVE Paced'
  OBVIOUS
<1>0. Tolerance \in Nat
  BY ServerLifecycleAssumption
<1> USE <1>0, PeriodIsNat DEF Paced
<1>1. CASE UNCHANGED <<ticker, due, since>> /\ (run' = run \/ run' # "bound")
  BY <1>1
<1>2. CASE StartTicker
  <2>1. run' = "select" /\ ticker' = "spawned" /\ UNCHANGED <<due, since>> /\ ticker = "none"
    BY <1>2 DEF StartTicker, clock
  <2> QED
    BY <2>1
<1>3. CASE TickerBegins
  BY <1>3 DEF TickerBegins
<1>4. CASE Tick
  BY <1>4 DEF Tick, server
<1>5. CASE TickDone
  BY <1>5 DEF TickDone, server
<1>6. CASE TickerStops
  BY <1>6 DEF TickerStops, clock
<1>7. CASE Elapse
  BY <1>7 DEF Elapse, server
<1>8. CASE AcceptWins \/ InterruptWins \/ NobodyWins \/ Stop \/ TaskEnds \/ Connect \/ Press
  BY <1>1, <1>8 DEF AcceptWins, InterruptWins, NobodyWins, Stop, TaskEnds, Connect, Press, clock
<1>9. CASE UNCHANGED vars
  BY <1>1, <1>9 DEF vars, clock, server
<1> QED
  BY <1>2, <1>3, <1>4, <1>5, <1>6, <1>7, <1>8, <1>9 DEF Next, Process, Turn

LEMMA CausedKept == Caused /\ [Next]_vars => Caused'
<1> SUFFICES ASSUME Caused, [Next]_vars PROVE Caused'
  OBVIOUS
<1> USE DEF Caused
<1>1. CASE UNCHANGED <<run, presses, heard>>
  BY <1>1
<1>2. CASE StartTicker
  BY <1>2 DEF StartTicker
<1>3. CASE AcceptWins
  BY <1>3 DEF AcceptWins
<1>4. CASE InterruptWins
  BY <1>4 DEF InterruptWins
<1>5. CASE Stop
  BY <1>5 DEF Stop
<1>6. CASE Press
  BY <1>6 DEF Press
<1>7. CASE NobodyWins \/ TickerBegins \/ TickerStops \/ Connect \/ TaskEnds
  BY <1>1, <1>7 DEF NobodyWins, TickerBegins, TickerStops, Connect, TaskEnds
<1>8. CASE Tick \/ TickDone \/ Elapse
  BY <1>1, <1>8 DEF Tick, TickDone, Elapse, server
<1>9. CASE UNCHANGED vars
  BY <1>1, <1>9 DEF vars, server
<1> QED
  BY <1>2, <1>3, <1>4, <1>5, <1>6, <1>7, <1>8, <1>9 DEF Next, Process, Turn

\* The window stays within its capacity: what makes room is the oldest sample.
LEMMA RecordKept ==
    ASSUME window \in Seq(0 .. MaxBody), Len(window) <= Capacity,
           NEW elapsed \in 0 .. MaxBody, Record(elapsed)
    PROVE  window' \in Seq(0 .. MaxBody) /\ Len(window') <= Capacity
<1>1. Capacity \in Nat \ {0}
  BY TickMetricsAssumption
<1>. DEFINE kept == IF Len(window) = Capacity THEN Tail(window) ELSE window
<1>2. kept \in Seq(0 .. MaxBody) /\ Len(kept) \in Nat /\ Len(kept) < Capacity
  <2>1. CASE Len(window) = Capacity
    <3>1. window # <<>>
      BY <1>1, <2>1, EmptySeq
    <3>2. Tail(window) \in Seq(0 .. MaxBody) /\ Len(Tail(window)) = Len(window) - 1
      BY <3>1, HeadTailProperties
    <3> QED
      BY <1>1, <2>1, <3>2
  <2>2. CASE Len(window) # Capacity
    <3>1. Len(window) \in Nat
      BY LenProperties
    <3> QED
      BY <1>1, <2>2, <3>1
  <2> QED
    BY <2>1, <2>2
<1>. HIDE DEF kept
<1>3. Append(kept, elapsed) \in Seq(0 .. MaxBody) /\ Len(Append(kept, elapsed)) = Len(kept) + 1
  BY <1>2, AppendProperties
<1>4. window' = Append(kept, elapsed)
  BY DEF Record, kept
<1> QED
  BY <1>1, <1>2, <1>3, <1>4

\* One of those in the backlog is taken out, to be served or not.
LEMMA OneTaken ==
    ASSUME NEW most \in Nat, NEW all \in Nat, NEW q \in 0 .. most, NEW n \in 0 .. all,
           NEW a \in 0 .. all, q + n <= a, q > 0
    PROVE  /\ q - 1 \in 0 .. most
           /\ \A t \in {n, n + 1} : t \in 0 .. all /\ (q - 1) + t <= a
OBVIOUS

LEMMA TypeKept == TypeOK /\ Counted /\ [Next]_vars => TypeOK' /\ Counted'
<1> SUFFICES ASSUME TypeOK, Counted, [Next]_vars PROVE TypeOK' /\ Counted'
  OBVIOUS
<1>0. /\ Arrivals \in Nat /\ Backlog \in Nat /\ MaxPresses \in Nat /\ MaxBody \in Nat
      /\ MaxLate \in Nat /\ Period \in Nat
  BY ServerLifecycleAssumption, PeriodIsNat
<1> USE <1>0 DEF TypeOK, Counted
<1>1. CASE StartTicker
  BY <1>1 DEF StartTicker, clock
<1>2. CASE AcceptWins
  <2>1. /\ queued' = queued - 1 /\ queued > 0 /\ tasks' \in {tasks, tasks + 1}
        /\ UNCHANGED <<run, subscribed, arrived, presses, told, ticker, window, due, since, body>>
        /\ hooked' \in {hooked, TRUE} /\ listening' = FALSE /\ heard' = FALSE
    BY <1>2 DEF AcceptWins, clock
  <2>2. /\ queued \in 0 .. Backlog /\ tasks \in 0 .. Arrivals /\ arrived \in 0 .. Arrivals
        /\ queued + tasks <= arrived
    OBVIOUS
  <2>3. queued' \in 0 .. Backlog /\ tasks' \in 0 .. Arrivals /\ queued' + tasks' <= arrived'
    <3>1. queued' = queued - 1 /\ queued > 0 /\ tasks' \in {tasks, tasks + 1} /\ arrived' = arrived
      BY <2>1
    <3>2. /\ queued - 1 \in 0 .. Backlog
          /\ \A t \in {tasks, tasks + 1} : t \in 0 .. Arrivals /\ (queued - 1) + t <= arrived
      BY <1>0, <2>2, <3>1, OneTaken
    <3> QED
      BY <3>1, <3>2, Zenon
  <2>4. {subscribed', hooked', listening', heard', told'} \subseteq BOOLEAN
    BY <2>1
  <2> QED
    BY <2>1, <2>3, <2>4
<1>3. CASE InterruptWins
  BY <1>3 DEF InterruptWins, clock
<1>4. CASE NobodyWins
  BY <1>4 DEF NobodyWins, clock
<1>5. CASE Stop
  BY <1>5 DEF Stop, clock
<1>6. CASE TickerBegins
  BY <1>6 DEF TickerBegins
<1>7. CASE Tick
  BY <1>7 DEF Tick, server
<1>8. CASE TickDone
  <2>1. body \in 0 .. MaxBody /\ Record(body)
    BY <1>8 DEF TickDone
  <2>2. window' \in Seq(0 .. MaxBody) /\ Len(window') <= Capacity
    BY <2>1, RecordKept
  <2> QED
    BY <1>8, <2>2 DEF TickDone, server
<1>9. CASE TickerStops
  BY <1>9 DEF TickerStops, clock
<1>10. CASE Elapse
  BY <1>10 DEF Elapse, server
<1>11. CASE TaskEnds
  BY <1>11 DEF TaskEnds, clock
<1>12. CASE Connect
  BY <1>12 DEF Connect, clock
<1>13. CASE Press
  BY <1>13 DEF Press, clock
<1>14. CASE UNCHANGED vars
  BY <1>14 DEF vars, server, clock
<1> QED
  BY <1>1, <1>2, <1>3, <1>4, <1>5, <1>6, <1>7, <1>8, <1>9, <1>10, <1>11, <1>12, <1>13, <1>14
     DEF Next, Process, Turn

\* server.rs and tick.rs: no task runs that was not a connection, and the window
\* of tick durations never outgrows its capacity, however long the server runs.
THEOREM LifecycleTypes == Spec => []TypeOK
<1>1. Init => TypeOK /\ Counted
  <2> SUFFICES ASSUME Init PROVE TypeOK /\ Counted
    OBVIOUS
  <2>1. <<>> \in Seq(0 .. MaxBody) /\ Len(<<>>) = 0
    BY EmptySeq
  <2> QED
    <3>1. /\ Arrivals \in Nat /\ Backlog \in Nat /\ MaxPresses \in Nat /\ MaxBody \in Nat
          /\ MaxLate \in Nat /\ Period \in Nat /\ Capacity \in Nat
      BY ServerLifecycleAssumption, PeriodIsNat, TickMetricsAssumption
    <3>2. {subscribed, hooked, listening, heard, told} \subseteq BOOLEAN
      BY DEF Init
    <3>3. window \in Seq(0 .. MaxBody) /\ Len(window) <= Capacity
      BY <2>1, <3>1 DEF Init
    <3> QED
      BY <3>1, <3>2, <3>3 DEF Init, TypeOK, Counted
<1> QED
  BY <1>1, TypeKept, PTL DEF Spec

\* server.rs, run: accept errors, connections that come and go and the tick loop
\* never end the server; if it is over, an interrupt came first.
THEOREM EndsOnlyWhenAsked == Spec => []StopsOnlyWhenAsked
<1>1. Init => Caused
  BY InitHolds
<1>2. Caused => StopsOnlyWhenAsked
  BY DEF Caused, StopsOnlyWhenAsked
<1> QED
  BY <1>1, <1>2, CausedKept, PTL DEF Spec

\* server.rs, tick_loop with MissedTickBehavior::Delay: two ticks start at least
\* a period less the tolerance apart, whatever the first took and however late the timer fired.
THEOREM TicksNeverBurst == Spec => NoBurst
<1>1. Init => Paced
  BY InitHolds
<1>2. ASSUME Paced, [Next]_vars
      PROVE  [ticker = "select" /\ ticker' = "tick" => since >= Period - Tolerance]_vars
  <2> SUFFICES ASSUME Next, ticker = "select", ticker' = "tick" PROVE since >= Period - Tolerance
    BY <1>2
  <2>1. Tick
    BY DEF Next, Process, Turn, StartTicker, AcceptWins, InterruptWins, NobodyWins, Stop,
           TickerBegins, TickDone, TickerStops, Elapse, Connect, TaskEnds, Press
  <2> QED
    BY <1>2, <2>1, PeriodIsNat, ServerLifecycleAssumption DEF Tick, Paced
<1> QED
  BY <1>1, <1>2, PacedKept, PTL DEF Spec, NoBurst

-----------------------------------------------------------------------------
(* The percentile of the window.                                           *)

\* A sequence of numbers can be put in order: its first samples are, and the next
\* one goes before the first that exceeds it.
LEMMA OrderExists ==
    ASSUME NEW s \in Seq(Nat)
    PROVE  \E p \in [DOMAIN s -> DOMAIN s] : Sorts(p, s)
<1>. DEFINE L == Len(s)
            Ordered(p, n) == \A i, j \in 1 .. n : i < j => p[i] # p[j] /\ s[p[i]] <= s[p[j]]
            S == {n \in 0 .. L : \E p \in [1 .. n -> 1 .. n] : Ordered(p, n)}
<1>1. L \in Nat /\ DOMAIN s = 1 .. L /\ \A i \in 1 .. L : s[i] \in Nat
  BY LenProperties
<1>. HIDE DEF L
<1>2. 0 \in S
  <2>1. [i \in 1 .. 0 |-> i] \in [1 .. 0 -> 1 .. 0] /\ Ordered([i \in 1 .. 0 |-> i], 0)
    OBVIOUS
  <2>2. 0 \in 0 .. L
    BY <1>1
  <2> QED
    BY <2>1, <2>2
<1>3. ASSUME NEW n \in 0 .. L - 1, n \in S
      PROVE  n + 1 \in S
  <2>1. PICK p \in [1 .. n -> 1 .. n] : Ordered(p, n)
    BY <1>3
  <2>. DEFINE new == n + 1
              K == {k \in 1 .. new : k = new \/ s[p[k]] > s[new]}
  <2>2. n \in Nat /\ new \in 1 .. L /\ new \in K /\ K \subseteq Nat
    BY <1>1
  <2>3. PICK k \in K : \A j \in K : k <= j
    BY <2>2, LeastMember
  <2>4. k \in 1 .. new
    OBVIOUS
  <2>5. \A i \in 1 .. n : p[i] \in 1 .. n /\ p[i] # new /\ s[p[i]] \in Nat
    BY <1>1, <2>2
  <2>6. s[new] \in Nat
    BY <1>1, <2>2
  <2>7. \A i \in 1 .. n : i < k => s[p[i]] <= s[new]
    <3>1. SUFFICES ASSUME NEW i \in 1 .. n, i < k PROVE s[p[i]] <= s[new]
      OBVIOUS
    <3>2. i \in 1 .. new /\ i \notin K
      <4>. HIDE DEF K
      <4> QED
        BY <2>2, <2>3, <2>4, <3>1
    <3>3. ~ (s[p[i]] > s[new])
      BY <3>2, Zenon
    <3>4. s[p[i]] \in Nat
      BY <2>5
    <3>. HIDE DEF K, new
    <3> QED
      BY <2>6, <3>3, <3>4
  <2>8. k # new => \A i \in 1 .. n : k <= i => s[new] <= s[p[i]]
    <3>1. SUFFICES ASSUME k # new, NEW i \in 1 .. n, k <= i PROVE s[new] <= s[p[i]]
      OBVIOUS
    <3>2. k \in 1 .. n /\ s[p[k]] > s[new]
      BY <2>2, <3>1
    <3>3. k = i \/ s[p[k]] <= s[p[i]]
      BY <2>1, <2>4, <3>1, <3>2
    <3>4. s[p[k]] \in Nat /\ s[p[i]] \in Nat
      BY <2>5, <3>2
    <3>5. s[p[k]] <= s[p[i]]
      BY <3>3, <3>4
    <3>6. \A a, b, c \in Nat : a > b /\ a <= c => b <= c
      OBVIOUS
    <3>. HIDE DEF K, new
    <3> QED
      BY <2>6, <3>2, <3>4, <3>5, <3>6, Zenon
  <2>. HIDE DEF K
  <2>. DEFINE q == [i \in 1 .. new |-> IF i < k THEN p[i] ELSE IF i = k THEN new ELSE p[i - 1]]
  <2>9. \A i \in 1 .. new : (i < k => i \in 1 .. n) /\ (i > k => i - 1 \in 1 .. n /\ k <= i - 1)
    BY <2>2, <2>4
  <2>10. q \in [1 .. new -> 1 .. new]
    BY <2>2, <2>4, <2>5, <2>9
  <2>11. ASSUME NEW i \in 1 .. new, NEW j \in 1 .. new, i < j
         PROVE  q[i] # q[j] /\ s[q[i]] <= s[q[j]]
    <3>0. q[i] = (IF i < k THEN p[i] ELSE IF i = k THEN new ELSE p[i - 1])
          /\ q[j] = (IF j < k THEN p[j] ELSE IF j = k THEN new ELSE p[j - 1])
      OBVIOUS
    <3>. HIDE DEF q, Ordered
    <3>1. \A a, b \in 1 .. n : a < b => p[a] # p[b] /\ s[p[a]] <= s[p[b]]
      BY <2>1 DEF Ordered
    <3>2. CASE j < k
      <4>1. i \in 1 .. n /\ j \in 1 .. n /\ q[i] = p[i] /\ q[j] = p[j]
        BY <2>4, <2>9, <2>11, <3>0, <3>2
      <4> QED
        BY <2>11, <3>1, <4>1
    <3>3. CASE j = k
      <4>1. i \in 1 .. n /\ i < k /\ q[i] = p[i] /\ q[j] = new
        BY <2>4, <2>9, <2>11, <3>0, <3>3
      <4> QED
        BY <2>5, <2>7, <4>1
    <3>4. CASE j > k /\ i = k
      <4>1. k # new /\ j - 1 \in 1 .. n /\ k <= j - 1 /\ q[i] = new /\ q[j] = p[j - 1]
        BY <2>2, <2>4, <2>9, <2>11, <3>0, <3>4
      <4> QED
        BY <2>5, <2>8, <4>1
    <3>5. CASE j > k /\ i < k
      <4>1. i \in 1 .. n /\ j - 1 \in 1 .. n /\ i < j - 1 /\ q[i] = p[i] /\ q[j] = p[j - 1]
        BY <2>4, <2>9, <2>11, <3>0, <3>5
      <4> QED
        BY <3>1, <4>1
    <3>6. CASE j > k /\ i > k
      <4>1. i - 1 \in 1 .. n /\ j - 1 \in 1 .. n /\ i - 1 < j - 1 /\ q[i] = p[i - 1] /\ q[j] = p[j - 1]
        <5>1. i - 1 \in 1 .. n /\ j - 1 \in 1 .. n
          BY <2>9, <3>6
        <5>2. i - 1 < j - 1
          BY <2>2, <2>11
        <5>3. ~ i < k /\ i # k /\ ~ j < k /\ j # k
          BY <2>2, <2>4, <3>6
        <5> QED
          BY <3>0, <5>1, <5>2, <5>3
      <4> QED
        BY <3>1, <4>1
    <3> QED
      BY <2>4, <2>11, <3>2, <3>3, <3>4, <3>5, <3>6
  <2>. HIDE DEF q
  <2>12. Ordered(q, new)
    BY <2>11
  <2>13. new \in 0 .. L
    BY <2>2
  <2> QED
    BY <2>10, <2>12, <2>13
<1>. HIDE DEF S
<1>4. \A n \in 0 .. L : n \in S
  BY <1>1, <1>2, <1>3, InductionUpTo
<1>5. L \in S
  BY <1>1, <1>4
<1>6. PICK p \in [1 .. L -> 1 .. L] : Ordered(p, L)
  BY <1>5 DEF S
<1> QED
  BY <1>1, <1>6 DEF Sorts

\* sorted is the window in the order of some permutation of it.
LEMMA SortedIs ==
    ASSUME NEW s \in Seq(Nat)
    PROVE  \E p \in [1 .. Len(s) -> 1 .. Len(s)] :
               /\ Sorted(s) = [i \in 1 .. Len(s) |-> s[p[i]]]
               /\ \A i, j \in 1 .. Len(s) : i < j => p[i] # p[j] /\ s[p[i]] <= s[p[j]]
<1>1. DOMAIN s = 1 .. Len(s)
  BY LenProperties
<1>. DEFINE order == CHOOSE p \in [DOMAIN s -> DOMAIN s] : Sorts(p, s)
<1>2. order \in [DOMAIN s -> DOMAIN s] /\ Sorts(order, s)
  BY OrderExists
<1>3. Sorted(s) = [i \in DOMAIN s |-> s[order[i]]]
  BY DEF Sorted
<1>. HIDE DEF order
<1> QED
  BY <1>1, <1>2, <1>3 DEF Sorts

\* The power of two a double is counted in: there is one.
LEMMA ExponentIs ==
    ASSUME NEW x \in Nat
    PROVE  /\ Exponent(x) \in Nat
           /\ x < 2^(Precision + Exponent(x))
           /\ Exponent(x) > 0 => 2^(Precision + Exponent(x) - 1) <= x
<1>. DEFINE K == {e \in Nat : x < 2^(Precision + e)}
<1>1. Precision \in Nat \ {0}
  BY TickMetricsAssumption
<1>2. x \in K
  <2>1. Precision + x \in Nat /\ x <= Precision + x
    BY <1>1
  <2>2. x < 2^x
    BY TwoExceeds
  <2>3. 2^x <= 2^(Precision + x) /\ 2^x \in Nat /\ 2^(Precision + x) \in Nat
    BY <2>1, TwoMonotone, TwoPositive
  <2> QED
    BY <2>2, <2>3
<1>3. PICK e \in K : \A j \in K : e <= j
  BY <1>2, LeastMember
<1>4. e \in 0 .. x
  BY <1>2, <1>3
<1>5. e > 0 => 2^(Precision + e - 1) <= x
  <2> SUFFICES ASSUME e > 0 PROVE 2^(Precision + e - 1) <= x
    OBVIOUS
  <2>1. e - 1 \in Nat /\ Precision + e - 1 \in Nat /\ Precision + (e - 1) = Precision + e - 1
    BY <1>1, <1>4
  <2>2. e - 1 \notin K
    BY <1>3, <1>4, <2>1
  <2>3. 2^(Precision + e - 1) \in Nat
    BY <2>1, TwoPositive
  <2> QED
    BY <2>1, <2>2, <2>3
<1>6. \E i \in 0 .. x : x < 2^(Precision + i) /\ (i > 0 => 2^(Precision + i - 1) <= x)
  BY <1>3, <1>4, <1>5
<1>7. /\ Exponent(x) \in 0 .. x
      /\ x < 2^(Precision + Exponent(x))
      /\ Exponent(x) > 0 => 2^(Precision + Exponent(x) - 1) <= x
  <2>. DEFINE Fits(i) == x < 2^(Precision + i) /\ (i > 0 => 2^(Precision + i - 1) <= x)
  <2>1. \E i \in 0 .. x : Fits(i)
    BY <1>6
  <2>2. Exponent(x) = CHOOSE i \in 0 .. x : Fits(i)
    BY DEF Exponent
  <2>3. Exponent(x) \in 0 .. x /\ Fits(Exponent(x))
    <3>. HIDE DEF Fits
    <3> QED
      BY <2>1, <2>2
  <2> QED
    BY <2>3
<1> QED
  BY <1>7

\* A rounded number is a natural one, short by less than one part in 2^Precision;
\* a whole number of units a double can tell apart is not rounded past.
LEMMA RoundedIs ==
    ASSUME NEW x \in Nat
    PROVE  /\ Rounded(x) \in Nat
           /\ (2^Precision + 1) * Rounded(x) >= 2^Precision * x
           /\ \A j \in Nat : j < 2^Precision /\ x <= j * One => Rounded(x) <= j * One
<1>. DEFINE e == Exponent(x)
            unit == 2^e
            whole == x \div unit
            rest == x % unit
            over == 2 * rest
            up == over > unit \/ (over = unit /\ whole % 2 = 1)
            r == (IF up THEN whole + 1 ELSE whole) * unit
            n == 2^Precision
<1>1. Precision \in Nat \ {0} /\ ShareBits \in Nat
  BY TickMetricsAssumption
<1>2. e \in Nat /\ x < 2^(Precision + e) /\ (e > 0 => 2^(Precision + e - 1) <= x)
  BY ExponentIs
<1>. HIDE DEF e
<1>3. unit \in Nat \ {0} /\ n \in Nat \ {0} /\ One \in Nat \ {0}
  BY <1>1, <1>2, TwoPositive DEF One
<1>4. e = 0 => unit = 1
  BY TwoValues
<1>. HIDE DEF unit, n
<1>5. whole \in Nat /\ rest \in 0 .. unit - 1 /\ x = whole * unit + rest
  BY <1>3, DivModOf
<1>6. Rounded(x) = r
  BY Zenon DEF Rounded, e, unit
<1>. HIDE DEF whole, rest
<1>7. /\ up => r = whole * unit + unit
      /\ ~up => r = whole * unit /\ 2 * rest <= unit
  <2>1. whole * unit \in Nat /\ (whole + 1) * unit = whole * unit + unit
    BY <1>3, <1>5, SMT
  <2>2. up => r = (whole + 1) * unit
    OBVIOUS
  <2>3. ~up => r = whole * unit
    OBVIOUS
  <2>4. ~up => ~(over > unit)
    OBVIOUS
  <2>5. ~up => 2 * rest <= unit
    BY <2>4, <1>3, <1>5
  <2> QED
    BY <2>1, <2>2, <2>3, <2>5
<1>. HIDE DEF up, r
<1>8. r \in Nat
  <2>1. whole * unit \in Nat
    BY <1>3, <1>5, SMT
  <2> QED
    BY <1>3, <1>7, <2>1
<1>9. (n + 1) * r >= n * x
  <2>1. CASE r >= x
    BY <1>3, <1>8, <2>1, SMT
  <2>2. CASE r < x
    <3>1. ~up /\ r = whole * unit /\ 2 * rest <= unit /\ x = r + rest
      <4>1. whole * unit \in Nat
        BY <1>3, <1>5, SMT
      <4> QED
        BY <1>3, <1>5, <1>7, <2>2, <4>1
    <3>2. e > 0
      BY <1>2, <1>4, <1>5, <1>8, <2>2, <3>1
    <3>. DEFINE half == 2^(e - 1)
    <3>3. e - 1 \in Nat /\ (e - 1) + 1 = e /\ Precision + (e - 1) = Precision + e - 1
      BY <1>1, <1>2, <3>2
    <3>4. unit = 2 * half /\ half \in Nat
      <4>1. 2^((e - 1) + 1) = 2^(e - 1) * 2^1
        BY <3>3, TwoSum
      <4>2. half \in Nat
        BY <3>3, TwoPositive
      <4> QED
        BY <3>3, <4>1, <4>2, TwoValues, SMT DEF unit
    <3>5. n * half <= x
      <4>1. 2^(Precision + (e - 1)) = 2^Precision * 2^(e - 1)
        BY <1>1, <3>3, TwoSum
      <4> QED
        BY <1>2, <3>2, <3>3, <4>1 DEF n
    <3>. HIDE DEF half
    <3>6. n * half <= r
      <4>. DEFINE a == n * half
                  m == Precision - 1
      <4>1. m \in Nat /\ m + 1 = Precision /\ 2^m \in Nat \ {0}
        BY <1>1, TwoPositive
      <4>2. n = 2 * 2^m
        <5>1. 2^(m + 1) = 2^m * 2^1
          BY <4>1, TwoSum
        <5> QED
          BY <4>1, <5>1, TwoValues, SMT DEF n
      <4>. HIDE DEF m
      <4>3. n * half = 2^m * unit
        BY <3>4, <4>1, <4>2, SMT
      <4>4. 2^m <= whole
        <5> SUFFICES ASSUME whole < 2^m PROVE FALSE
          BY <1>5, <4>1
        <5>1. (whole + 1) * unit <= 2^m * unit
          BY <1>3, <1>5, <4>1, SMT
        <5>2. (whole + 1) * unit = whole * unit + unit /\ whole * unit \in Nat
          BY <1>3, <1>5, SMT
        <5>3. a \in Nat /\ a <= x
          BY <1>3, <3>4, <3>5, SMT
        <5>4. a = 2^m * unit
          BY <4>3
        <5>. HIDE DEF a
        <5>. DEFINE b == whole * unit
        <5>5. b \in Nat /\ b + unit <= a /\ x = b + rest
          BY <1>5, <5>1, <5>2, <5>4
        <5>. HIDE DEF b
        <5> QED
          BY <1>3, <1>5, <5>3, <5>5
      <4>5. 2^m * unit <= whole * unit
        BY <1>3, <1>5, <4>1, <4>4, SMT
      <4> QED
        BY <3>1, <4>3, <4>5
    <3>7. rest <= half
      BY <1>3, <1>5, <3>1, <3>4
    <3>8. n * rest <= n * half
      BY <1>3, <1>5, <3>4, <3>7, SMT
    <3>9. n * x = n * r + n * rest /\ (n + 1) * r = n * r + r
      BY <1>3, <1>5, <1>8, <3>1, SMT
    <3>10. n * r \in Nat /\ n * rest \in Nat /\ n * half \in Nat
      BY <1>3, <1>5, <1>8, <3>4, SMT
    <3> QED
      BY <1>8, <3>6, <3>8, <3>9, <3>10
  <2> QED
    BY <1>8, <2>1, <2>2
<1>10. ASSUME NEW j \in Nat, j < n, x <= j * One
       PROVE  r <= j * One
  <2>1. CASE e <= ShareBits
    <3>. DEFINE times == 2^(ShareBits - e)
                m == j * times
    <3>1. ShareBits - e \in Nat /\ (ShareBits - e) + e = ShareBits
      BY <1>1, <1>2, <2>1
    <3>2. One = times * unit /\ times \in Nat
      <4>1. 2^((ShareBits - e) + e) = 2^(ShareBits - e) * 2^e
        BY <1>2, <3>1, TwoSum
      <4> QED
        BY <3>1, <4>1, TwoPositive DEF One, unit
    <3>. HIDE DEF times
    <3>3. m \in Nat /\ j * One = m * unit
      BY <1>3, <3>2, SMT
    <3>. HIDE DEF m
    <3>4. whole <= m
      <4> SUFFICES ASSUME m < whole PROVE FALSE
        BY <1>5, <3>3
      <4>1. (m + 1) * unit <= whole * unit
        BY <1>3, <1>5, <3>3, SMT
      <4>2. (m + 1) * unit = m * unit + unit /\ m * unit \in Nat
        BY <1>3, <3>3, SMT
      <4>3. whole * unit \in Nat
        BY <1>3, <1>5, SMT
      <4> QED
        BY <1>3, <1>5, <1>10, <3>3, <4>1, <4>2, <4>3
    <3>5. CASE whole = m
      <4>1. rest = 0
        BY <1>3, <1>5, <1>10, <3>3, <3>5, SMT
      <4>2. over = 0 /\ ~(over > unit) /\ over # unit
        BY <1>3, <4>1
      <4>3. ~up
        BY <4>2, Zenon DEF up
      <4> QED
        BY <1>7, <1>8, <3>3, <3>5, <4>3
    <3>6. CASE whole < m
      <4>1. (whole + 1) * unit <= m * unit
        BY <1>3, <1>5, <3>3, <3>6, SMT
      <4>2. (whole + 1) * unit = whole * unit + unit /\ whole * unit \in Nat /\ m * unit \in Nat
        BY <1>3, <1>5, <3>3, SMT
      <4> QED
        BY <1>3, <1>7, <3>3, <4>1, <4>2
    <3> QED
      BY <1>5, <3>3, <3>4, <3>5, <3>6
  <2>2. CASE e > ShareBits
    <3>1. e - 1 \in Nat /\ ShareBits <= e - 1 /\ e > 0 /\ Precision + (e - 1) = Precision + e - 1
      BY <1>1, <1>2, <2>2
    <3>2. 2^(Precision + (e - 1)) = n * 2^(e - 1)
      BY <1>1, <3>1, TwoSum DEF n
    <3>3. One <= 2^(e - 1) /\ 2^(e - 1) \in Nat
      BY <1>1, <3>1, TwoMonotone, TwoPositive DEF One
    <3>4. n * One <= n * 2^(e - 1)
      BY <1>3, <3>3, SMT
    <3>5. n * One <= x
      <4>1. n * One \in Nat
        BY <1>3, SMT
      <4>2. n * 2^(e - 1) <= x
        BY <1>2, <3>1, <3>2
      <4>3. n * 2^(e - 1) \in Nat
        BY <1>3, <3>3, SMT
      <4> QED
        BY <3>4, <4>1, <4>2, <4>3
    <3>6. j * One < n * One
      BY <1>3, <1>10, SMT
    <3>7. j * One \in Nat /\ n * One \in Nat
      BY <1>3, SMT
    <3> QED
      BY <1>10, <3>5, <3>6, <3>7
  <2> QED
    BY <1>1, <1>2, <2>1, <2>2
<1> QED
  BY <1>6, <1>8, <1>9, <1>10 DEF n

\* A quotient rounded up.
LEMMA CeilingIs ==
    ASSUME NEW r \in Nat, NEW d \in Nat \ {0}
    PROVE  LET k == (r + d - 1) \div d
           IN  /\ k \in Nat
               /\ k * d >= r
               /\ \A j \in Nat : r <= j * d => k <= j
<1>. DEFINE n == r + d - 1
            k == n \div d
            m == n % d
<1>1. n \in Nat
  OBVIOUS
<1>2. k \in Nat /\ m \in 0 .. d - 1 /\ n = k * d + m
  <2>. HIDE DEF n
  <2> QED
    BY <1>1, DivModOf
<1>. HIDE DEF k, m
<1>3. k * d \in Nat
  BY <1>2, SMT
<1>4. k * d >= r
  BY <1>2, <1>3
<1>5. ASSUME NEW j \in Nat, r <= j * d
      PROVE  k <= j
  <2> SUFFICES ASSUME j < k PROVE FALSE
    BY <1>2
  <2>1. (j + 1) * d <= k * d
    BY <1>2, SMT
  <2>2. (j + 1) * d = j * d + d /\ j * d \in Nat
    BY SMT
  <2> QED
    BY <1>2, <1>3, <1>5, <2>1, <2>2
<1> QED
  BY <1>2, <1>4, <1>5 DEF k

\* The index percentile_mspt looks at among `count` samples.
RankIndex(share, count) ==
    LET rank == Rank(share, count)
        saturated == IF rank = 0 THEN 0 ELSE rank - 1
    IN  IF saturated > count - 1 THEN count - 1 ELSE saturated

\* The rank reaches the share of a sample count that was asked for, up to one
\* rounding; the rank before it does not, and it is a place in the sorted window.
LEMMA RankIs ==
    ASSUME NEW share \in Int, NEW count \in Nat \ {0}, count < 2^Precision
    PROVE  /\ Rank(share, count) \in Nat
           /\ Clamped(share) * count \in Nat
           /\ RankIndex(share, count) + 1 \in 1 .. count
           /\ (2^Precision + 1) * ((RankIndex(share, count) + 1) * One)
                >= 2^Precision * (Clamped(share) * count)
           /\ RankIndex(share, count) # 0 =>
                RankIndex(share, count) * One < Clamped(share) * count
<1>. DEFINE w == Clamped(share) * count
            r == Rounded(w)
            rank == Rank(share, count)
            n == 2^Precision
<1>1. One \in Nat \ {0} /\ n \in Nat \ {0}
  BY TickMetricsAssumption, TwoPositive DEF One
<1>2. w \in Nat /\ w <= count * One
  <2>. DEFINE c == Clamped(share)
  <2>1. c \in Nat /\ c <= One
    BY <1>1 DEF Clamped
  <2>. HIDE DEF c
  <2>2. c * count \in Nat /\ c * count <= count * One
    BY <1>1, <2>1, SMT
  <2> QED
    BY <2>2 DEF c
<1>3. rank = (r + One - 1) \div One
  BY DEF Rank
<1>. HIDE DEF w
<1>4. /\ r \in Nat
      /\ (n + 1) * r >= n * w
      /\ \A j \in Nat : j < n /\ w <= j * One => r <= j * One
  BY <1>2, RoundedIs
<1>5. count < n
  OBVIOUS
<1>. HIDE DEF r, rank, n
<1>6. /\ rank \in Nat /\ rank * One >= r
      /\ \A j \in Nat : r <= j * One => rank <= j
  BY <1>1, <1>3, <1>4, CeilingIs
<1>7. rank <= count
  BY <1>2, <1>4, <1>5, <1>6
<1>. DEFINE saturated == IF rank = 0 THEN 0 ELSE rank - 1
            index == IF saturated > count - 1 THEN count - 1 ELSE saturated
<1>8. index + 1 \in 1 .. count /\ rank <= index + 1 /\ index \in Nat /\ (index # 0 => rank = index + 1)
  BY <1>6, <1>7
<1>9. index = RankIndex(share, count)
  BY Zenon DEF RankIndex, rank
<1>. HIDE DEF index
<1>10. (n + 1) * ((index + 1) * One) >= n * w
  <2>1. rank * One <= (index + 1) * One
    BY <1>1, <1>6, <1>8, SMT
  <2>2. r <= (index + 1) * One /\ (index + 1) * One \in Nat
    <3>1. rank * One \in Nat /\ (index + 1) * One \in Nat
      BY <1>1, <1>6, <1>8, SMT
    <3> QED
      BY <1>4, <1>6, <2>1, <3>1
  <2>. DEFINE b == (index + 1) * One
  <2>3. r <= b /\ b \in Nat
    BY <2>2
  <2>. HIDE DEF b
  <2>4. (n + 1) * r <= (n + 1) * b
    BY <1>1, <1>4, <2>3, SMT
  <2>5. (n + 1) * r \in Nat /\ (n + 1) * b \in Nat /\ n * w \in Nat
    BY <1>1, <1>2, <1>4, <2>3, SMT
  <2>6. (n + 1) * b >= n * w
    BY <1>4, <2>4, <2>5
  <2> QED
    BY <2>6 DEF b
<1>11. ASSUME index # 0
       PROVE  index * One < w
  <2>1. index * One \in Nat
    BY <1>1, <1>8, SMT
  <2> SUFFICES ASSUME w <= index * One PROVE FALSE
    BY <1>2, <2>1
  <2>2. index < n
    BY <1>1, <1>5, <1>8
  <2>3. r <= index * One
    BY <1>4, <1>8, <2>2
  <2>4. rank <= index
    BY <1>6, <1>8, <2>3
  <2> QED
    BY <1>6, <1>8, <1>11, <2>4
<1> QED
  BY <1>2, <1>6, <1>8, <1>9, <1>10, <1>11, Zenon DEF n, w, rank

\* Of a list in order, the samples up to place k are no larger than the one there,
\* and fewer than k are smaller.
LEMMA CountedByRank ==
    ASSUME NEW s \in Seq(Nat), NEW p \in [1 .. Len(s) -> 1 .. Len(s)],
           \A i, j \in 1 .. Len(s) : i < j => p[i] # p[j] /\ s[p[i]] <= s[p[j]],
           NEW k \in 1 .. Len(s)
    PROVE  /\ Cardinality({i \in DOMAIN s : s[i] <= s[p[k]]}) \in Nat
           /\ Cardinality({i \in DOMAIN s : s[i] <= s[p[k]]}) >= k
           /\ \A x \in Nat : x < s[p[k]] =>
                /\ Cardinality({i \in DOMAIN s : s[i] <= x}) \in Nat
                /\ Cardinality({i \in DOMAIN s : s[i] <= x}) <= k - 1
<1>. DEFINE L == Len(s)
            All == 1 .. L
<1>1. L \in Nat /\ DOMAIN s = All /\ \A i \in All : s[i] \in Nat
  BY LenProperties
<1>2. k \in Nat /\ k \in Int /\ L \in Int /\ 1 \in Int /\ 1 <= k /\ k <= L
  BY <1>1
<1>3. IsFiniteSet(All) /\ Cardinality(All) = L
  <2>. HIDE DEF L
  <2>1. (IF 1 > L THEN 0 ELSE L - 1 + 1) = L
    BY <1>1
  <2> QED
    BY <1>2, <2>1, FS_Interval
<1>4. IsFiniteSet(1 .. k) /\ Cardinality(1 .. k) = k
  BY <1>2, FS_Interval
<1>5. IsFiniteSet(k .. L) /\ Cardinality(k .. L) = L - k + 1
  BY <1>2, FS_Interval
<1>6. \A i \in All : p[i] \in All /\ s[p[i]] \in Nat
  BY <1>1
<1>7. \A i, j \in All : p[i] = p[j] => i = j
  BY <1>1
<1>. HIDE DEF L, All
<1>8. ASSUME NEW T, T \subseteq All
      PROVE  IsFiniteSet(T) /\ Cardinality(T) \in Nat
  BY <1>3, <1>8, FS_Subset, FS_CardinalityType
<1>9. ASSUME NEW D, D \subseteq All, NEW T, T \subseteq All, \A i \in D : p[i] \in T
      PROVE  Cardinality(D) <= Cardinality(T)
  <2>. DEFINE f == [i \in D |-> p[i]]
  <2>1. f \in Injection(D, T)
    BY <1>7, <1>9 DEF Injection, IsInjective
  <2>2. IsFiniteSet(T)
    BY <1>8, <1>9
  <2>. HIDE DEF f
  <2> QED
    BY <2>1, <2>2, FS_Injection
<1>10. \A i \in 1 .. k : i \in All /\ s[p[i]] <= s[p[k]]
  <2>1. SUFFICES ASSUME NEW i \in 1 .. k PROVE i \in All /\ s[p[i]] <= s[p[k]]
    OBVIOUS
  <2>2. i \in All /\ (i < k \/ i = k)
    BY <1>2 DEF All
  <2> QED
    BY <1>6, <2>2 DEF All, L
<1>11. \A i \in k .. L : i \in All /\ s[p[k]] <= s[p[i]]
  <2>1. SUFFICES ASSUME NEW i \in k .. L PROVE i \in All /\ s[p[k]] <= s[p[i]]
    OBVIOUS
  <2>2. i \in All /\ (k < i \/ i = k)
    BY <1>2 DEF All
  <2> QED
    BY <1>6, <2>2 DEF All, L
<1>12. /\ Cardinality({i \in All : s[i] <= s[p[k]]}) \in Nat
       /\ Cardinality({i \in All : s[i] <= s[p[k]]}) >= k
  <2>. DEFINE T == {i \in All : s[i] <= s[p[k]]}
  <2>1. T \subseteq All
    OBVIOUS
  <2>2. 1 .. k \subseteq All /\ \A i \in 1 .. k : p[i] \in T
    BY <1>6, <1>10
  <2>. HIDE DEF T
  <2>3. Cardinality(T) \in Nat /\ Cardinality(1 .. k) <= Cardinality(T)
    BY <1>8, <1>9, <2>1, <2>2
  <2> QED
    BY <1>2, <1>4, <2>3 DEF T
<1>13. ASSUME NEW x \in Nat, x < s[p[k]]
       PROVE  /\ Cardinality({i \in All : s[i] <= x}) \in Nat
              /\ Cardinality({i \in All : s[i] <= x}) <= k - 1
  <2>. DEFINE T == {i \in All : s[i] <= x}
              Rest == All \ T
  <2>1. T \subseteq All /\ Rest \subseteq All /\ All \cap T = T
    OBVIOUS
  <2>2. k .. L \subseteq All
    BY <1>11
  <2>3. \A i \in k .. L : p[i] \in Rest
    <3>1. SUFFICES ASSUME NEW i \in k .. L PROVE p[i] \in Rest
      OBVIOUS
    <3>2. i \in All /\ s[p[k]] <= s[p[i]] /\ k \in All
      BY <1>2, <1>11 DEF All
    <3>3. s[p[i]] \in Nat /\ s[p[k]] \in Nat /\ p[i] \in All
      BY <1>6, <3>2
    <3>4. ~ (s[p[i]] <= x)
      BY <1>13, <3>2, <3>3
    <3> QED
      BY <3>3, <3>4
  <2>. HIDE DEF T
  <2>4. Cardinality(Rest) = Cardinality(All) - Cardinality(T)
    BY <1>3, <2>1, FS_Difference
  <2>. HIDE DEF Rest
  <2>5. Cardinality(T) \in Nat /\ Cardinality(Rest) \in Nat
    BY <1>8, <2>1
  <2>6. Cardinality(k .. L) <= Cardinality(Rest)
    BY <1>9, <2>1, <2>2, <2>3
  <2>7. L - k + 1 <= L - Cardinality(T)
    BY <1>3, <1>5, <2>4, <2>6
  <2>8. Cardinality(T) <= k - 1
    BY <1>2, <2>5, <2>7
  <2> QED
    BY <2>5, <2>8 DEF T
<1> QED
  BY <1>1, <1>12, <1>13

\* tick.rs, percentile_mspt: for every window of samples, the reported percentile
\* is the nearest rank.
LEMMA PercentileIsNearestRank ==
    ASSUME window \in Seq(Nat), Len(window) <= Capacity
    PROVE  NearestRank
<1>1. SUFFICES ASSUME window # <<>>, NEW share \in Shares
      PROVE  LET AtMost(x) == Cardinality({i \in DOMAIN window : window[i] <= x}) * One
                 asked == Clamped(share) * Len(window)
                 figure == Percentile(share)
             IN  /\ figure \in Samples(window)
                 /\ \A x \in Samples(window) : x < figure => AtMost(x) < asked
                 /\ (2^Precision + 1) * AtMost(figure) >= 2^Precision * asked
  BY DEF NearestRank
<1>. DEFINE L == Len(window)
            Count(x) == Cardinality({i \in DOMAIN window : window[i] <= x})
            n == 2^Precision
<1>2. L \in Nat \ {0} /\ DOMAIN window = 1 .. L /\ \A i \in 1 .. L : window[i] \in Nat
  BY <1>1, LenProperties, EmptySeq
<1>3. PICK p \in [1 .. L -> 1 .. L] :
          /\ Sorted(window) = [i \in 1 .. L |-> window[p[i]]]
          /\ \A i, j \in 1 .. L : i < j => p[i] # p[j] /\ window[p[i]] <= window[p[j]]
  BY SortedIs
<1>4. n \in Nat \ {0} /\ One \in Nat \ {0} /\ share \in Int /\ L < n
  <2>1. Capacity \in Nat /\ Capacity < n /\ Precision \in Nat /\ ShareBits \in Nat /\ share \in Int
    BY <1>1, TickMetricsAssumption
  <2>2. n \in Nat \ {0} /\ One \in Nat \ {0}
    BY <2>1, TwoPositive DEF One
  <2> QED
    BY <1>2, <2>1, <2>2
<1>5. Len(Sorted(window)) = L
  <2>1. Sorted(window) \in Seq(Nat) /\ DOMAIN Sorted(window) = 1 .. L
    <3>1. Sorted(window) \in [1 .. L -> Nat]
      BY <1>2, <1>3
    <3> QED
      BY <1>2, <3>1, SeqDef
  <2>. DEFINE m == Len(Sorted(window))
  <2>2. m \in Nat /\ DOMAIN Sorted(window) = 1 .. m
    BY <2>1, LenProperties
  <2>. HIDE DEF m, L
  <2>3. 1 .. m = 1 .. L
    BY <2>1, <2>2
  <2>4. m = L
    BY <1>2, <2>2, <2>3, SMT
  <2> QED
    BY <2>4 DEF m
<1>. DEFINE w == Clamped(share) * L
            rank == Rank(share, L)
            saturated == IF rank = 0 THEN 0 ELSE rank - 1
            index == IF saturated > L - 1 THEN L - 1 ELSE saturated
            k == index + 1
<1>6. Percentile(share) = Sorted(window)[k]
  BY <1>5 DEF Percentile
<1>7. /\ rank \in Nat /\ w \in Nat /\ k \in 1 .. L
      /\ (n + 1) * (k * One) >= n * w
      /\ index # 0 => index * One < w
  <2>1. index = RankIndex(share, L)
    BY Zenon DEF RankIndex
  <2>. HIDE DEF index
  <2> QED
    BY <1>2, <1>4, <2>1, RankIs
<1>. HIDE DEF w, rank
<1>8. index \in Nat
  BY <1>2, <1>7
<1>. HIDE DEF index
<1>9. k - 1 = index /\ k \in Nat
  BY <1>8
<1>. HIDE DEF L, saturated, n
<1>. HIDE DEF k
<1>10. Percentile(share) = window[p[k]] /\ p[k] \in 1 .. L /\ window[p[k]] \in Nat
  BY <1>2, <1>3, <1>6, <1>7
<1>11. Percentile(share) \in Samples(window)
  BY <1>2, <1>10 DEF Samples
<1>12. /\ Count(window[p[k]]) \in Nat
       /\ Count(window[p[k]]) >= k
       /\ \A x \in Nat : x < window[p[k]] => Count(x) \in Nat /\ Count(x) <= k - 1
  BY <1>3, <1>7, CountedByRank DEF L
<1>13. (n + 1) * (Count(Percentile(share)) * One) >= n * w
  <2>. DEFINE c == Count(window[p[k]])
              a == k * One
              b == c * One
  <2>1. c \in Nat /\ c >= k
    BY <1>12
  <2>. HIDE DEF c
  <2>2. a \in Nat /\ b \in Nat /\ a <= b
    BY <1>4, <1>9, <2>1, SMT
  <2>3. (n + 1) * a >= n * w
    BY <1>7
  <2>. HIDE DEF a, b
  <2>4. (n + 1) * a <= (n + 1) * b
    BY <1>4, <2>2, SMT
  <2>5. (n + 1) * a \in Nat /\ (n + 1) * b \in Nat /\ n * w \in Nat
    BY <1>4, <1>7, <2>2, SMT
  <2>6. (n + 1) * b >= n * w
    BY <2>3, <2>4, <2>5
  <2> QED
    BY <1>10, <2>6 DEF b, c
<1>14. ASSUME NEW x \in Samples(window), x < Percentile(share)
       PROVE  Count(x) * One < w
  <2>1. PICK j \in 1 .. L : x = window[j]
    BY <1>2 DEF Samples
  <2>2. x \in Nat
    BY <1>2, <2>1
  <2>3. Count(x) \in Nat /\ Count(x) <= k - 1
    BY <1>10, <1>12, <1>14, <2>2
  <2>4. Count(x) # 0
    <3>. DEFINE T == {i \in DOMAIN window : window[i] <= x}
    <3>1. j \in T
      BY <1>2, <2>1, <2>2
    <3>2. T \subseteq 1 .. L
      BY <1>2
    <3>3. IsFiniteSet(1 .. L)
      BY <1>2, FS_Interval
    <3>. HIDE DEF T
    <3>4. IsFiniteSet(T)
      BY <3>2, <3>3, FS_Subset
    <3>5. Cardinality(T) # 0
      BY <3>1, <3>4, FS_EmptySet
    <3> QED
      BY <3>5 DEF T
  <2>. DEFINE c == Count(x)
  <2>5. c \in Nat /\ c <= index /\ c # 0
    BY <1>8, <1>9, <2>3, <2>4
  <2>. HIDE DEF c
  <2>6. c * One \in Nat /\ index * One \in Nat /\ c * One <= index * One
    BY <1>4, <1>8, <2>5, SMT
  <2>7. index * One < w
    BY <1>7, <1>8, <2>5
  <2>8. c * One < w
    BY <1>7, <2>6, <2>7
  <2> QED
    BY <2>8 DEF c
<1> QED
  BY <1>11, <1>13, <1>14, Zenon DEF w, L, n

\* tick.rs, percentile_mspt: whatever durations the last ticks had and whichever
\* double is asked for, the answer is a sample of the window at that rank, the
\* rounding of the product included.
THEOREM PercentilesAreSamples == Spec => []NearestRank
<1>1. TypeOK => NearestRank
  <2>1. SUFFICES ASSUME window \in Seq(0 .. MaxBody), Len(window) <= Capacity PROVE NearestRank
    BY DEF TypeOK
  <2>2. 0 .. MaxBody \subseteq Nat
    OBVIOUS
  <2>3. window \in Seq(Nat)
    BY <2>1, <2>2, SeqMonotonic
  <2> QED
    BY <2>1, <2>3, PercentileIsNearestRank
<1> QED
  BY <1>1, LifecycleTypes, PTL
=============================================================================
