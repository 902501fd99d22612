------------------------------ MODULE Percent ------------------------------
(***************************************************************************)
(* The percentages of src/actop/power_scaling.py and src/actop/analytics.py *)
(* over whole numbers: a ratio n / d of a measured value to its reference. *)
(***************************************************************************)
LOCAL INSTANCE Integers

\* round(n / d) of Python: to the nearest integer, a tie to the even one.
RoundHalfEven(n, d) ==
  LET q == n \div d
      r == n % d
      up == 2 * r > d \/ (2 * r = d /\ q % 2 = 1)
  IN  IF up THEN q + 1 ELSE q

AtLeast(low, v) == IF v < low THEN low ELSE v
AtMost(high, v) == IF v > high THEN high ELSE v

\* clamp_percent(n / d)
clamp_percent(n, d) == AtLeast(0, AtMost(100, RoundHalfEven(n, d)))

\* bandwidth_percent and package_power_percent: the value against its ceiling, which
\* counts as at least 1.
ceiling_percent(value, ceiling) == clamp_percent(100 * value, AtLeast(1, ceiling))
=============================================================================
