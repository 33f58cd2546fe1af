-------------------------------- MODULE Retry -------------------------------
(***************************************************************************)
(* The retry decorator of utils/resilience.py: the loop of the wrapper,    *)
(* run by callers that each decorate the function in their own way.  What  *)
(* the function does is the environment's choice: a module that composes   *)
(* this one takes Returned and Raised together with what caused them.      *)
(***************************************************************************)
EXTENDS Integers

CONSTANTS
  Callers,
  Kinds,        \* the kinds of exception the function may raise
  MaxAttempts,  \* MaxAttempts[c]: max_attempts of c's decorator
  Retryable,    \* Retryable[c]: the kinds in its exceptions tuple
  BaseDelay,    \* base_delay, in clock ticks
  MaxDelay,     \* max_delay, in clock ticks
  Exponential,  \* exponential
  Jitter        \* jitter

ASSUME RetryAssumption ==
  /\ MaxAttempts \in [Callers -> Nat]
  /\ Retryable \in [Callers -> SUBSET Kinds]
  /\ BaseDelay \in Nat /\ MaxDelay \in Nat
  /\ Exponential \in BOOLEAN /\ Jitter \in BOOLEAN

VARIABLES
  at,      \* at[c]: c is "idle", is "trying" the function, or is "sleeping"
  attempt, \* attempt[c]: the loop variable
  sleep,   \* sleep[c]: what is left of time.sleep
  ended,   \* ended[c]: how the last call of c ended
  error,   \* error[c]: the kind of last_exception
  tries,   \* history: how often the function was tried in the call
  slept    \* history: the ticks the call has slept, or is to sleep

retryVars == <<at, attempt, sleep, ended, error, tries, slept>>

None == "none"

RetryTypeOK ==
  /\ at \in [Callers -> {"idle", "trying", "sleeping"}]
  /\ attempt \in [Callers -> Nat]
  /\ sleep \in [Callers -> Nat]
  /\ ended \in [Callers -> {None, "returned", "raised", "type_error"}]
  /\ error \in [Callers -> Kinds \union {None}]
  /\ tries \in [Callers -> Nat]
  /\ slept \in [Callers -> Nat]

RetryInit ==
  /\ at = [c \in Callers |-> "idle"]
  /\ attempt = [c \in Callers |-> 0]
  /\ sleep = [c \in Callers |-> 0]
  /\ ended = [c \in Callers |-> None]
  /\ error = [c \in Callers |-> None]
  /\ tries = [c \in Callers |-> 0]
  /\ slept = [c \in Callers |-> 0]

-----------------------------------------------------------------------------
DelayUncapped(n) == BaseDelay * 2^(n - 1)       \* mutant: no min()

(* The delay after attempt n; without "exponential" it is not capped. *)
Delay(n) ==
  LET doubled == BaseDelay * 2^(n - 1) IN
  IF ~Exponential THEN BaseDelay
  ELSE IF doubled < MaxDelay THEN doubled ELSE MaxDelay

(* The jitter multiplies by a number in [0.5, 1.5), after the cap. *)
Sleeps(delay) ==
  IF Jitter /\ delay > 0 THEN {t \in 0..(2 * delay) : delay <= 2 * t /\ 2 * t < 3 * delay}
                         ELSE {delay}

EndsTry(c) == at[c] = "trying" /\ tries' = [tries EXCEPT ![c] = @ + 1]

End(c, how) ==
  /\ at' = [at EXCEPT ![c] = "idle"]
  /\ ended' = [ended EXCEPT ![c] = how]

(* With no attempts to make, "raise last_exception" raises None. *)
StartCall(c) ==
  /\ at[c] = "idle"
  /\ attempt' = [attempt EXCEPT ![c] = 1]
  /\ error' = [error EXCEPT ![c] = None]
  /\ tries' = [tries EXCEPT ![c] = 0]
  /\ slept' = [slept EXCEPT ![c] = 0]
  /\ IF MaxAttempts[c] = 0
       THEN End(c, "type_error")
       ELSE /\ at' = [at EXCEPT ![c] = "trying"]
            /\ ended' = [ended EXCEPT ![c] = None]
  /\ UNCHANGED sleep

Returned(c) ==
  /\ EndsTry(c)
  /\ End(c, "returned")
  /\ UNCHANGED <<attempt, sleep, error, slept>>

LastEarly(c) == attempt[c] >= MaxAttempts[c] - 1 \* mutant: one too few

Last(c) == attempt[c] = MaxAttempts[c]

(* An exception leaves at once when it is not one to retry, or is the last *)
(* attempt's; otherwise the caller sleeps.                                 *)
Raised(c, kind) ==
  /\ EndsTry(c)
  /\ error' = [error EXCEPT ![c] = kind]
  /\ IF kind \notin Retryable[c] \/ Last(c)
       THEN End(c, "raised") /\ UNCHANGED <<sleep, slept>>
       ELSE \E t \in Sleeps(Delay(attempt[c])) :
              /\ at' = [at EXCEPT ![c] = "sleeping"]
              /\ sleep' = [sleep EXCEPT ![c] = t]
              /\ slept' = [slept EXCEPT ![c] = @ + t]
              /\ UNCHANGED ended
  /\ UNCHANGED attempt

Wake(c) ==
  /\ at[c] = "sleeping" /\ sleep[c] = 0
  /\ at' = [at EXCEPT ![c] = "trying"]
  /\ attempt' = [attempt EXCEPT ![c] = @ + 1]
  /\ UNCHANGED <<sleep, ended, error, tries, slept>>

SleepOn ==
  /\ sleep' = [c \in Callers |-> IF sleep[c] > 0 THEN sleep[c] - 1 ELSE 0]
  /\ UNCHANGED <<at, attempt, ended, error, tries, slept>>
-----------------------------------------------------------------------------
(* A call gives up on an exception worth a retry only when it has tried    *)
(* max_attempts times, never tries more often, and raises None (a          *)
(* TypeError) exactly when it may not try at all.                          *)
GivesUpOnlyWhenSpent ==
  \A c \in Callers :
    /\ tries[c] <= MaxAttempts[c]
    /\ ended[c] = "raised" /\ error[c] \in Retryable[c] => tries[c] = MaxAttempts[c]
    /\ ended[c] \in {"returned", "raised"} => tries[c] > 0
    /\ ended[c] # None => (ended[c] = "type_error" <=> MaxAttempts[c] = 0)

(* The sleeps of a call with exponential delays add up to at most half as  *)
(* much again as max_delay between each two attempts: the cap is taken     *)
(* before the jitter, so a single sleep may exceed it.                     *)
SleepIsBounded ==
  Exponential =>
    \A c \in Callers : MaxAttempts[c] > 0 =>
      2 * slept[c] <= 3 * MaxDelay * (MaxAttempts[c] - 1)
=============================================================================
