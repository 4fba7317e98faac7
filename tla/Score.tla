-------------------------------- MODULE Score --------------------------------
(***************************************************************************)
(* The score of src/server/src/score.rs, without its decay, which is a     *)
(* finished trip's alone and part of Scheduler.  The factors are f64 in    *)
(* the code and hundredths here, rounded down; ln(1 + n) / ln(1 + 30) is   *)
(* the table REACH.  TENURE_FULL is in the model's time unit.              *)
(***************************************************************************)
EXTENDS Integers, Sequences

CONSTANTS TENURE_FULL  \* observation time that earns full confidence

ASSUME ScoreAssumption == TENURE_FULL \in Nat \ {0}

\* None of the schedule's two numbers.
Unknown == -1

\* ScoreInputs, of a trip that runs.
Inputs == [delay     : Int,   \* the peak
           duration  : Nat \cup {Unknown},
           remaining : Nat \cup {Unknown},
           tracked   : Nat,
           birth     : Int,
           located   : BOOLEAN]

\* 50 * ln(1 + n) / ln(31), for n = 1 .. 30.
REACH == <<10, 16, 20, 23, 26, 28, 30, 32, 34, 35, 36, 37, 38, 39, 40,
           41, 42, 43, 44, 44, 45, 46, 46, 47, 47, 48, 49, 49, 50, 50>>

AtMost(bound, n) == IF n <= bound THEN n ELSE bound
Positive(n) == IF n > 0 THEN n ELSE 0

\* The delay, below zero nothing.
Base(i) == Positive(i.delay)

\* Up to 1.8 at one and a half times the scheduled duration.
Severity(i) ==
  IF i.duration > 0 THEN 100 + AtMost(80, (160 * Base(i)) \div (3 * i.duration)) ELSE 100

\* Up to 1.5 at thirty stops ahead.
Reach(i) ==
  IF i.remaining > 0 THEN 100 + REACH[AtMost(30, i.remaining)] ELSE 100

\* A wrong body: no floor under a delay that was not watched.
ConfidenceUnfloored(i) ==
  IF Base(i) > 0 THEN (88 * Positive(i.delay - i.birth)) \div Base(i) ELSE 0

\* At least 0.6: the share of the delay that grew under observation, and how long
\* that was.
Confidence(i) ==
  LET grown == AtMost(Base(i), Positive(i.delay - i.birth))
  IN 60 + (IF Base(i) > 0 THEN (28 * grown) \div Base(i) ELSE 0)
        + (12 * AtMost(TENURE_FULL, i.tracked)) \div TENURE_FULL

Location(i) == IF i.located THEN 10 ELSE 9

\* In units of 10^-7 of the delay's.
LiveScore(i) == Base(i) * Severity(i) * Reach(i) * Confidence(i) * Location(i)
=============================================================================
