----------------------------- MODULE TickMetrics -----------------------------
(***************************************************************************)
(* The rolling tick statistics of rukkit-server (tick.rs).  Durations are  *)
(* whole units of time.  A percentile p is a double, and so is its product *)
(* with the number of samples, from which the rank is made: every double   *)
(* from 0 to 1 is a number of shares of 1 / 2^ShareBits, of which at most  *)
(* Precision bits, from the first one set, differ from zero.               *)
(***************************************************************************)
EXTENDS Integers, Sequences, FiniteSets

CONSTANTS
    Capacity,   \* samples kept (TICK_WINDOW, 1200 in the code)
    Precision,  \* bits of a double's significand, 53
    ShareBits,  \* the smallest double is 1 / 2^ShareBits, 1074
    Shares      \* the percentiles asked for, p = share / 2^ShareBits

One == 2^ShareBits

\* The power of two in which a double of about x shares is counted.
Exponent(x) ==
    CHOOSE e \in 0 .. x :
        /\ x < 2^(Precision + e)
        /\ e > 0 => 2^(Precision + e - 1) <= x

\* The double nearest to x shares, of two equally near ones the even one.
Rounded(x) ==
    LET unit == 2^Exponent(x)
        whole == x \div unit
        over == 2 * (x % unit)
    IN  (IF over > unit \/ (over = unit /\ whole % 2 = 1) THEN whole + 1 ELSE whole) * unit

ASSUME TickMetricsAssumption ==
    /\ Precision \in Nat \ {0}
    /\ ShareBits \in Nat
    /\ Capacity \in Nat \ {0}
    /\ Capacity < 2^Precision
    /\ Shares \subseteq Int
    /\ \A share \in Shares : share >= 0 => Rounded(share) = share

VARIABLE window   \* the most recent samples, oldest first

\* Mutated: nothing makes room.
RecordAll(elapsed) == window' = Append(window, elapsed)

\* record: the oldest sample makes room for the new one.
Record(elapsed) ==
    window' = Append(IF Len(window) = Capacity THEN Tail(window) ELSE window, elapsed)

Samples(s) == {s[i] : i \in DOMAIN s}

\* sort_unstable_by: the samples in ascending order.  `order` names them by their
\* place in the window.
Sorts(order, s) ==
    \A i, j \in DOMAIN s : i < j => order[i] # order[j] /\ s[order[i]] <= s[order[j]]

Sorted(s) ==
    LET order == CHOOSE p \in [DOMAIN s -> DOMAIN s] : Sorts(p, s)
    IN  [i \in DOMAIN s |-> s[order[i]]]

\* p.clamp(0.0, 1.0)
Clamped(share) == IF share < 0 THEN 0 ELSE IF share > One THEN One ELSE share

\* (clamped * len as f64).ceil(): the product is rounded to a double first.
Rank(share, count) == (Rounded(Clamped(share) * count) + One - 1) \div One

\* Mutated: the rank is used as an index into a vector that starts at zero.
PercentileOffByOne(share) ==
    LET sorted == Sorted(window)
        rank == Rank(share, Len(sorted))
        index == IF rank > Len(sorted) - 1 THEN Len(sorted) - 1 ELSE rank
    IN  sorted[index + 1]

\* percentile_mspt: the rank is turned into an index that is kept inside the
\* sorted window at both ends.
Percentile(share) ==
    LET sorted == Sorted(window)
        rank == Rank(share, Len(sorted))
        saturated == IF rank = 0 THEN 0 ELSE rank - 1
        index == IF saturated > Len(sorted) - 1 THEN Len(sorted) - 1 ELSE saturated
    IN  sorted[index + 1]

-----------------------------------------------------------------------------

\* tick.rs:89, "index of the smallest sample at or above the rank".  For every
\* double p, below 0 and above 1 included, the figure reported is a sample.  It is
\* never exaggerated: no smaller sample has p of the window at or below it, with
\* no allowance for rounding.  And the tail is hidden by no more than one rounding:
\* those at or below the figure fall short of p of the window by less than
\* one part in 2^Precision, however often the product lands next to a whole number.
NearestRank ==
    window # <<>> =>
        \A share \in Shares :
            LET AtMost(x) == Cardinality({i \in DOMAIN window : window[i] <= x}) * One
                asked == Clamped(share) * Len(window)
                figure == Percentile(share)
            IN  /\ figure \in Samples(window)
                /\ \A x \in Samples(window) : x < figure => AtMost(x) < asked
                /\ (2^Precision + 1) * AtMost(figure) >= 2^Precision * asked
=============================================================================
