----------------------------- MODULE RestartBackoff -----------------------------
(***************************************************************************)
(* The back-off of watchProcess between two restarts of one replica, in     *)
(* integer time units (nanoseconds in the code).                            *)
(***************************************************************************)
EXTENDS Integers

CONSTANTS First,  \* the first back-off, time.Second
          Caps    \* values of restart_backoff_max, which the configuration does not check

ASSUME BackoffConstants == First \in Nat /\ First >= 4 /\ Caps \subseteq Nat

VARIABLES
    backoff,   \* the variable of the loop; nothing resets it
    cap,       \* RestartBackoffMax
    panicked   \* rand.Int63n has been given 0: nothing recovers it, the orchestrator is gone

backoffVars == <<backoff, cap, panicked>>

BackoffInit == backoff = First /\ cap \in Caps /\ panicked = FALSE

\* Mutant: no cap.
GrownUncapped == (3 * backoff) \div 2

\* backoff * 1.5, at most the cap ...
Grown == IF (3 * backoff) \div 2 > cap THEN cap ELSE (3 * backoff) \div 2

\* ... and then up to 25% of jitter either way: rand.Int63n(grown / 4).
Jitter == 0 .. (Grown \div 4) - 1

BackoffStep == /\ \E j \in Jitter : backoff' \in {Grown + j, Grown - j}
               /\ UNCHANGED <<cap, panicked>>

BackoffPanics == Jitter = {} /\ panicked' = TRUE /\ UNCHANGED <<backoff, cap>>

-----------------------------------------------------------------------------

Least(a, b) == IF a < b THEN a ELSE b
Greatest(a, b) == IF a < b THEN b ELSE a

(* With the jitter added after the cap, the back-off never exceeds the cap by  *)
(* more than a quarter, or the first back-off if that is larger; it never      *)
(* falls below three quarters of the cap, or the first back-off if that is     *)
(* smaller: a crashing service is never restarted in a hot loop.  And only a   *)
(* cap below four units makes the jitter's argument zero, which ends the       *)
(* orchestrator: no sequence of growth and jitter does.                        *)
BackoffBounded ==
    /\ backoff \in Nat
    /\ backoff <= Greatest(First, cap + cap \div 4)
    /\ backoff >= Least(First, cap - cap \div 4)
    /\ panicked => cap < 4
=============================================================================
