------------------------------ MODULE RateLimiter ------------------------------
(***************************************************************************)
(* core/auth/rate_limiter.py: a sliding window of attempts per caller and  *)
(* endpoint, as the login and registration routes use it.                  *)
(***************************************************************************)
EXTENDS Clock, Sequences, SequencesExt

CONSTANTS
  Callers,        \* client addresses
  MaxAttempts, Window

ASSUME RateLimiterAssumption == MaxAttempts \in Nat \ {0} /\ Window \in Nat \ {0}

Endpoints == {"login", "register"}

VARIABLES
  attempts,       \* _attempts: the bucket of each key
  verifying,      \* callers whose password a login is verifying
  granted         \* history: the attempts allowed since the last reset

limiterVars == <<attempts, verifying, granted>>

Keys == Endpoints \X Callers

LimiterInit ==
  /\ attempts = [k \in Keys |-> <<>>]
  /\ verifying = {}
  /\ granted = [k \in Keys |-> <<>>]

\* The oldest attempts are popped while they are before the cutoff.
Popped(bucket) ==
  CHOOSE n \in 0..Len(bucket) :
    /\ \A i \in 1..n : bucket[i] + Window < now
    /\ n < Len(bucket) => bucket[n + 1] + Window >= now

\* Mutant of the next operator: an attempt exactly one window old no longer counts.
RecentStrict(bucket) == SelectSeq(bucket, LAMBDA t : t + Window > now)

Recent(bucket) == SubSeq(bucket, Popped(bucket) + 1, Len(bucket))

Admits(k) == Len(Recent(attempts[k])) < MaxAttempts

\* check_and_record(): a refused attempt is not recorded.
CheckAndRecord(k) ==
  /\ attempts' = [attempts EXCEPT ![k] = IF Admits(k) THEN Append(Recent(@), now) ELSE Recent(@)]
  /\ granted' = [granted EXCEPT ![k] = IF Admits(k) THEN Append(@, now) ELSE @]

RegisterAttempt(c) ==
  /\ CheckAndRecord(<<"register", c>>)
  /\ UNCHANGED <<verifying, now>>

LoginAttempt(c) ==
  /\ CheckAndRecord(<<"login", c>>)
  /\ verifying' = IF Admits(<<"login", c>>) THEN verifying \cup {c} ELSE verifying
  /\ UNCHANGED now

\* Wrong password, unknown or disabled account, or an error.
LoginRefusedAgain(c) ==
  /\ c \in verifying
  /\ verifying' = verifying \ {c}
  /\ UNCHANGED <<attempts, granted, now>>

\* reset(), once the password is verified: attempts made meanwhile are forgotten too.
LoginSucceeds(c) ==
  /\ c \in verifying
  /\ verifying' = verifying \ {c}
  /\ attempts' = [attempts EXCEPT ![<<"login", c>>] = <<>>]
  /\ granted' = [granted EXCEPT ![<<"login", c>>] = <<>>]
  /\ UNCHANGED now

LimiterNext ==
  \/ \E c \in Callers :
       RegisterAttempt(c) \/ LoginAttempt(c) \/ LoginRefusedAgain(c) \/ LoginSucceeds(c)
  \/ Tick /\ UNCHANGED limiterVars

\* However the attempts fall, no more than MaxAttempts of one key are allowed within
\* any window, both its ends included, since the last successful login.
WindowBound ==
  \A k \in Keys : \A i \in 1..(Len(granted[k]) - MaxAttempts) :
    granted[k][i + MaxAttempts] - granted[k][i] > Window

----------------------------------------------------------------------------
LimiterSpec == now = 0 /\ LimiterInit /\ [][LimiterNext]_<<now, limiterVars>>

LimiterTypeOK ==
  /\ now \in Nat /\ verifying \subseteq Callers
  /\ attempts \in [Keys -> Seq(Nat)] /\ granted \in [Keys -> Seq(Nat)]

\* Attempts are in the order of time, and those that were popped are before the cutoff:
\* a bucket is what is left of the attempts that were given.
IsRestOf(left, given) ==
  LET gone == Len(given) - Len(left) IN
    /\ \A i \in 1..Len(given) : given[i] <= now
    /\ \A i, j \in 1..Len(given) : i <= j => given[i] <= given[j]
    /\ gone >= 0
    /\ \A i \in 1..gone : given[i] + Window < now
    /\ \A i \in 1..Len(left) : left[i] = given[gone + i]

BucketIsRest == \A k \in Keys : IsRestOf(attempts[k], granted[k])

LimiterInv == LimiterTypeOK /\ BucketIsRest /\ WindowBound
=============================================================================
