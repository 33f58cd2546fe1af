--------------------------- MODULE RetriedBreaker ---------------------------
(***************************************************************************)
(* retry around CircuitBreaker.call, both of utils/resilience.py: callers  *)
(* that retry a function protected by one shared breaker.  A call refused  *)
(* by the breaker raises CircuitOpenError, which is an Exception and, by   *)
(* the decorator's default, retried like a failure of the function.        *)
(***************************************************************************)
EXTENDS Retry, FiniteSets

CONSTANTS
  EscapingCallers, FailureThreshold, ResetTimeout, HalfOpenMax,
  MaxFailures       \* as in CircuitBreaker

ASSUME ProtectedCallAssumption ==
  /\ IsFiniteSet(Callers)
  /\ EscapingCallers \subseteq Callers
  /\ FailureThreshold \in Nat \ {0}
  /\ ResetTimeout \in Nat
  /\ HalfOpenMax \in Nat \ {0}
  /\ MaxFailures \in Nat
  /\ MaxFailures >= FailureThreshold
  /\ {"failure", "open", "escape"} \subseteq Kinds

VARIABLES
  state, failureCount, sinceFailure, halfOpenCalls, running, probes,
  lost, serviceUp,  \* as in CircuitBreaker
  waited,     \* history: the ticks since the call was first refused, counted
              \* up to ResetTimeout + 1; -1 before
  disturbed   \* history: the callers for whom since then a failure was recorded
              \* or the slots of a half-open breaker were taken

(* The clock only advances here: CircuitBreaker sets it back. *)
Breaker == INSTANCE CircuitBreaker WITH MaxSetBacks <- 0, setBacks <- 0

breakerVars == <<state, failureCount, sinceFailure, halfOpenCalls, running, probes,
                 lost, serviceUp>>
history == <<waited, disturbed>>
vars == <<retryVars, breakerVars, history>>

TypeOK ==
  /\ RetryTypeOK
  /\ Breaker!TypeOK
  /\ waited \in [Callers -> -1..(ResetTimeout + 1)]
  /\ disturbed \subseteq Callers
  /\ \A c \in running : at[c] = "trying"

Init ==
  /\ RetryInit
  /\ Breaker!Init
  /\ waited = [c \in Callers |-> -1]
  /\ disturbed = {}

-----------------------------------------------------------------------------
Call(c) ==
  /\ StartCall(c)
  /\ waited' = [waited EXCEPT ![c] = -1]
  /\ disturbed' = disturbed \ {c}
  /\ UNCHANGED breakerVars

(* An attempt calls the breaker, which lets it through or refuses it. *)
Admitted(c) ==
  /\ at[c] = "trying"
  /\ Breaker!Admit(c)
  /\ UNCHANGED <<retryVars, history>>

RefusedWaits(c) ==                              \* mutant: a refused attempt
  /\ at[c] = "trying" /\ Breaker!Reject(c)      \* is not counted
  /\ UNCHANGED <<retryVars, history>>

Refused(c) ==
  /\ Breaker!Reject(c)
  /\ Raised(c, "open")
  /\ waited' = [waited EXCEPT ![c] = IF @ = -1 THEN 0 ELSE @]
  /\ disturbed' = IF state' = Breaker!HalfOpen
                    THEN disturbed \union {c} ELSE disturbed

Succeeded(c) == Breaker!Succeed(c) /\ Returned(c) /\ UNCHANGED history

Waiting == {c \in Callers : at[c] # "idle" /\ waited[c] >= 0}

Failed(c) ==
  /\ Breaker!Fail(c)
  /\ Raised(c, "failure")
  /\ disturbed' = disturbed \union Waiting
  /\ UNCHANGED waited

Escaped(c) == Breaker!Escape(c) /\ Raised(c, "escape") /\ UNCHANGED history

Resume(c) == Wake(c) /\ UNCHANGED <<breakerVars, history>>

ReadState == Breaker!ReadState /\ UNCHANGED <<retryVars, history>>

(* Time passes for the breaker and for those who sleep. *)
Tick ==
  /\ \/ Breaker!Tick
     \/ sinceFailure > ResetTimeout /\ UNCHANGED breakerVars
  /\ SleepOn
  /\ waited' = [c \in Callers |->
                  IF c \in Waiting /\ waited[c] <= ResetTimeout THEN waited[c] + 1
                                                               ELSE waited[c]]
  /\ UNCHANGED disturbed

Recover == Breaker!Recover /\ UNCHANGED <<retryVars, history>>

Proceed(c) ==
  \/ Admitted(c) \/ Refused(c)
  \/ Succeeded(c) \/ Failed(c) \/ Escaped(c)
  \/ Resume(c)

Next ==
  \/ \E c \in Callers : Call(c) \/ Proceed(c)
  \/ ReadState \/ Tick \/ Recover

(* Time passes, the function ends, and a caller inside a call goes on. *)
Spec ==
  /\ Init /\ [][Next]_vars
  /\ WF_vars(Tick)
  /\ \A c \in Callers : WF_vars(Proceed(c))
-----------------------------------------------------------------------------
(* Waiting pays: a call that is refused at its last attempt, and whose     *)
(* waiting nothing disturbed since it was first refused, has not waited    *)
(* longer than reset_timeout, however its attempts and those of others     *)
(* fall.  (Attempts that end sooner are burned on an open breaker.)        *)
PatientCallsGetThrough ==
  \A c \in Callers :
    ended[c] = "raised" /\ error[c] = "open" /\ c \notin disturbed
      => waited[c] <= ResetTimeout

(* Every call ends, also when the breaker never closes again. *)
CallsEnd == \A c \in Callers : (at[c] # "idle") ~> (at[c] = "idle")
=============================================================================
