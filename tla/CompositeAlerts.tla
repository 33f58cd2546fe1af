--------------------------- MODULE CompositeAlerts --------------------------
(***************************************************************************)
(* The CompositeAlertNotifier of adapters/messaging/alert_adapters.py: the *)
(* loop of send_alert over its notifiers, run by several workers at once.  *)
(* The notifiers are any that implement the port (LogAlertNotifier and     *)
(* SlackAlertNotifier among them, which always acknowledge): one may       *)
(* acknowledge, decline, or raise with the alert delivered or not.         *)
(***************************************************************************)
EXTENDS Integers, FiniteSets

CONSTANTS
  Workers,
  NumNotifiers  \* len(_notifiers)

ASSUME AlertsAssumption == NumNotifiers \in Nat

VARIABLES
  next,      \* next[w]: the notifier w calls next; 0 outside send_alert
  acked,     \* acked[w]: True is among the results of w's call so far
  delivered, \* history: the notifiers that delivered the alert of w's call
  failed,    \* history: the notifiers that raised in w's call
  asked      \* history: asked[n]: the alerts notifier n was asked to send

alertVars == <<next, acked, delivered, failed, asked>>

Notifiers == 1..NumNotifiers

AlertsTypeOK ==
  /\ next \in [Workers -> 0..(NumNotifiers + 1)]
  /\ acked \in [Workers -> BOOLEAN]
  /\ delivered \in [Workers -> SUBSET Notifiers]
  /\ failed \in [Workers -> SUBSET Notifiers]
  /\ asked \in [Notifiers -> Nat]

AlertsInit ==
  /\ next = [w \in Workers |-> 0]
  /\ acked = [w \in Workers |-> FALSE]
  /\ delivered = [w \in Workers |-> {}]
  /\ failed = [w \in Workers |-> {}]
  /\ asked = [n \in Notifiers |-> 0]

-----------------------------------------------------------------------------
SendAlert(w) ==
  /\ next[w] = 0
  /\ next' = [next EXCEPT ![w] = 1]
  /\ UNCHANGED <<acked, delivered, failed, asked>>

(* send_alert ends, and its list of results with it. *)
Leave(w) ==
  /\ next' = [next EXCEPT ![w] = 0]
  /\ acked' = [acked EXCEPT ![w] = FALSE]
  /\ delivered' = [delivered EXCEPT ![w] = {}]
  /\ failed' = [failed EXCEPT ![w] = {}]

Ask(w) ==
  /\ next[w] \in Notifiers
  /\ asked' = [asked EXCEPT ![next[w]] = @ + 1]

Deliver(w, yes) ==
  delivered' = IF yes THEN [delivered EXCEPT ![w] = @ \union {next[w]}] ELSE delivered

AnswersUntilFirst(w, ok) ==                     \* mutant: returns at the first
  /\ Ask(w)                                     \* notifier that delivers
  /\ next' = [next EXCEPT ![w] = IF ok THEN NumNotifiers + 1 ELSE @ + 1]
  /\ acked' = [acked EXCEPT ![w] = @ \/ ok]
  /\ Deliver(w, ok)
  /\ UNCHANGED failed

AnswersLast(w, ok) ==                           \* mutant: the last answer counts
  /\ Ask(w)
  /\ next' = [next EXCEPT ![w] = @ + 1]
  /\ acked' = [acked EXCEPT ![w] = ok]
  /\ Deliver(w, ok)
  /\ UNCHANGED failed

(* The notifier answers whether it has delivered the alert. *)
Answers(w, ok) ==
  /\ Ask(w)
  /\ next' = [next EXCEPT ![w] = @ + 1]
  /\ acked' = [acked EXCEPT ![w] = @ \/ ok]
  /\ Deliver(w, ok)
  /\ UNCHANGED failed

(* An Exception counts as False, whatever has become of the alert. *)
Raises(w) ==
  /\ Ask(w)
  /\ next' = [next EXCEPT ![w] = @ + 1]
  /\ failed' = [failed EXCEPT ![w] = @ \union {next[w]}]
  /\ \E yes \in BOOLEAN : Deliver(w, yes)
  /\ UNCHANGED acked

(* A BaseException leaves send_alert, and the notifiers left are not asked. *)
Interrupted(w) == Ask(w) /\ Leave(w)

(* What is returned is any(results), which is acked[w]. *)
AllAsked(w) == next[w] > NumNotifiers

Report(w) == AllAsked(w) /\ Leave(w) /\ UNCHANGED asked
-----------------------------------------------------------------------------
(* "True if at least one succeeded": when the call returns, what it        *)
(* reports delivered has been, and what it reports undelivered has been    *)
(* delivered at most by a notifier that raised after the fact (sending it  *)
(* again sends it twice).                                                  *)
ReportsAreHonest ==
  \A w \in Workers : AllAsked(w) =>
    IF acked[w] THEN delivered[w] \ failed[w] # {} ELSE delivered[w] \subseteq failed[w]
=============================================================================
