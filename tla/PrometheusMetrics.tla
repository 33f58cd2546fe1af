-------------------------- MODULE PrometheusMetrics -------------------------
(***************************************************************************)
(* The PrometheusMetrics of adapters/observability/logging.py under        *)
(* threads.  The class takes no lock: an increment loads and stores, an    *)
(* observation tests, creates, fetches and appends, a dump walks the       *)
(* histograms, each a step of its own.  When a thread does what is left to *)
(* the module that composes this one.                                      *)
(***************************************************************************)
EXTENDS Integers, Sequences, FiniteSets, SequencesExt, Sums

CONSTANTS
  Threads,
  Counters,   \* the keys of counters: _make_key of a name and labels
  Histograms, \* the keys of histograms
  NoKey       \* no key

VARIABLES
  counters,   \* _counters; a missing key counts 0
  births,     \* the keys of _histograms, in the order they were inserted
  lists,      \* lists[h]: the length of each list made for h; _histograms
              \* holds the last one, a thread may hold an older one
  step,       \* step[t]: what thread t does next in the metrics, or "none"
  key,        \* key[t]: the key it works on
  loaded,     \* loaded[t]: the number it has loaded, or which list of its key
  size,       \* size[t]: the size of _histograms when its dump began to walk it
  dump,       \* dump[t]: what its dump has collected
  incremented,\* history: incremented[k]: the increments made of k
  raced,      \* history: the counters two increments of which overlapped
  observed,   \* history: observed[h]: the observations made of h
  rebuilt,    \* history: the histograms created twice
  failures    \* history: failures[t]: the dumps of t that raised

metricsVars == <<counters, births, lists, step, key, loaded, size, dump,
                 incremented, raced, observed, rebuilt, failures>>

NoDump  == [counters |-> [k \in Counters |-> 0], lengths |-> <<>>]
Walking == {"gauges", "start", "walk", "return"}

MetricsTypeOK ==
  /\ counters \in [Counters -> Nat]
  /\ births \in Seq(Histograms) /\ IsInjective(births)
  /\ lists \in [Histograms -> Seq(Nat)]
  /\ \A h \in Histograms : lists[h] # <<>> <=> h \in ToSet(births)
  /\ step \in [Threads -> {"none", "store", "create", "fetch", "append"} \union Walking]
  /\ key \in [Threads -> Counters \union Histograms \union {NoKey}]
  /\ loaded \in [Threads -> Nat]
  /\ size \in [Threads -> Nat]
  /\ dump \in [Threads -> [counters : [Counters -> Nat], lengths : Seq(Nat)]]
  /\ incremented \in [Counters -> Nat] /\ raced \subseteq Counters
  /\ observed \in [Histograms -> Nat] /\ rebuilt \subseteq Histograms
  /\ failures \in [Threads -> Nat]

MetricsInit ==
  /\ counters = [k \in Counters |-> 0]
  /\ births = <<>>
  /\ lists = [h \in Histograms |-> <<>>]
  /\ step = [t \in Threads |-> "none"]
  /\ key = [t \in Threads |-> NoKey]
  /\ loaded = [t \in Threads |-> 0]
  /\ size = [t \in Threads |-> 0]
  /\ dump = [t \in Threads |-> NoDump]
  /\ incremented = [k \in Counters |-> 0] /\ raced = {}
  /\ observed = [h \in Histograms |-> 0] /\ rebuilt = {}
  /\ failures = [t \in Threads |-> 0]

Go(t, from, to) == step[t] = from /\ step' = [step EXCEPT ![t] = to]

(* A call of the adapter ends, and its local variables with it. *)
Forget(t) ==
  /\ key' = [key EXCEPT ![t] = NoKey]
  /\ loaded' = [loaded EXCEPT ![t] = 0]

DropDump(t) ==
  /\ size' = [size EXCEPT ![t] = 0]
  /\ dump' = [dump EXCEPT ![t] = NoDump]
-----------------------------------------------------------------------------
(* increment_counter *)
Incrementing(k) == {t \in Threads : step[t] = "store" /\ key[t] = k}

LoadCounter(t, k) ==
  /\ Go(t, "none", "store")
  /\ key' = [key EXCEPT ![t] = k]
  /\ loaded' = [loaded EXCEPT ![t] = counters[k]]
  /\ raced' = IF Incrementing(k) = {} THEN raced ELSE raced \union {k}
  /\ UNCHANGED <<counters, births, lists, size, dump, incremented, observed,
                 rebuilt, failures>>

StoreCounterTwice(t) ==                         \* mutant: adds to what is there,
  /\ Go(t, "store", "none")                     \* and what it had loaded
  /\ counters' = [counters EXCEPT ![key[t]] = @ + loaded[t] + 1]
  /\ incremented' = [incremented EXCEPT ![key[t]] = @ + 1]
  /\ Forget(t)
  /\ UNCHANGED <<births, lists, size, dump, raced, observed, rebuilt, failures>>

StoreCounterDown(t) ==                          \* mutant: "- 1" for "+ 1"
  /\ Go(t, "store", "none")
  /\ counters' = [counters EXCEPT ![key[t]] = loaded[t] - 1]
  /\ incremented' = [incremented EXCEPT ![key[t]] = @ + 1]
  /\ Forget(t)
  /\ UNCHANGED <<births, lists, size, dump, raced, observed, rebuilt, failures>>

StoreCounter(t) ==
  /\ Go(t, "store", "none")
  /\ counters' = [counters EXCEPT ![key[t]] = loaded[t] + 1]
  /\ incremented' = [incremented EXCEPT ![key[t]] = @ + 1]
  /\ Forget(t)
  /\ UNCHANGED <<births, lists, size, dump, raced, observed, rebuilt, failures>>
-----------------------------------------------------------------------------
(* observe_histogram *)
TestHistogram(t, h) ==
  /\ Go(t, "none", IF lists[h] = <<>> THEN "create" ELSE "fetch")
  /\ key' = [key EXCEPT ![t] = h]
  /\ UNCHANGED <<counters, births, lists, loaded, size, dump, incremented, raced,
                 observed, rebuilt, failures>>

(* A key that is there by now keeps its place; its list is replaced. *)
CreateHistogram(t) ==
  LET h == key[t] IN
  /\ Go(t, "create", "fetch")
  /\ lists' = [lists EXCEPT ![h] = Append(@, 0)]
  /\ IF lists[h] = <<>> THEN births' = Append(births, h) /\ UNCHANGED rebuilt
                        ELSE rebuilt' = rebuilt \union {h} /\ UNCHANGED births
  /\ UNCHANGED <<counters, key, loaded, size, dump, incremented, raced, observed,
                 failures>>

FetchHistogram(t) ==
  /\ Go(t, "fetch", "append")
  /\ loaded' = [loaded EXCEPT ![t] = Len(lists[key[t]])]
  /\ UNCHANGED <<counters, births, lists, key, size, dump, incremented, raced,
                 observed, rebuilt, failures>>

AppendNothing(t) ==                             \* mutant: the value goes to a
  /\ Go(t, "append", "none")                    \* copy of the list
  /\ observed' = [observed EXCEPT ![key[t]] = @ + 1]
  /\ Forget(t)
  /\ UNCHANGED <<counters, births, lists, size, dump, incremented, raced, rebuilt,
                 failures>>

AppendValue(t) ==
  /\ Go(t, "append", "none")
  /\ lists' = [lists EXCEPT ![key[t]][loaded[t]] = @ + 1]
  /\ observed' = [observed EXCEPT ![key[t]] = @ + 1]
  /\ Forget(t)
  /\ UNCHANGED <<counters, births, size, dump, incremented, raced, rebuilt,
                 failures>>
-----------------------------------------------------------------------------
(* get_all_metrics: the counters and the gauges are copied at once.  *)
CopyCounters(t) ==
  /\ Go(t, "none", "gauges")
  /\ dump' = [dump EXCEPT ![t] = [counters |-> counters, lengths |-> <<>>]]
  /\ UNCHANGED <<counters, births, lists, key, loaded, size, incremented, raced,
                 observed, rebuilt, failures>>

CopyGauges(t) ==
  /\ Go(t, "gauges", "start")
  /\ UNCHANGED <<counters, births, lists, key, loaded, size, dump, incremented,
                 raced, observed, rebuilt, failures>>

StartWalk(t) ==
  /\ Go(t, "start", "walk")
  /\ size' = [size EXCEPT ![t] = Len(births)]
  /\ UNCHANGED <<counters, births, lists, key, loaded, dump, incremented, raced,
                 observed, rebuilt, failures>>

(* "dictionary changed size during iteration", at the next item or the end. *)
WalkFails(t) ==
  /\ Go(t, "walk", "none")
  /\ Len(births) # size[t]
  /\ failures' = [failures EXCEPT ![t] = @ + 1]
  /\ DropDump(t)
  /\ UNCHANGED <<counters, births, lists, key, loaded, incremented, raced, observed,
                 rebuilt>>

WalkNext(t) ==
  LET n == Len(dump[t].lengths) + 1 IN
  /\ Len(births) = size[t]
  /\ IF n <= size[t]
       THEN /\ Go(t, "walk", "walk")
            /\ dump' = [dump EXCEPT ![t] = [counters |-> @.counters,
                                lengths  |-> Append(@.lengths, Last(lists[births[n]]))]]
       ELSE Go(t, "walk", "return") /\ UNCHANGED dump
  /\ UNCHANGED <<counters, births, lists, key, loaded, size, incremented, raced,
                 observed, rebuilt, failures>>

ReturnDumpResetting(t) ==                       \* mutant: what is reported is
  /\ Go(t, "return", "none")                    \* dropped, and made anew
  /\ births' = <<>>
  /\ lists' = [h \in Histograms |-> <<>>]
  /\ DropDump(t)
  /\ UNCHANGED <<counters, key, loaded, incremented, raced, observed, rebuilt,
                 failures>>

ReturnDump(t) ==
  /\ Go(t, "return", "none")
  /\ DropDump(t)
  /\ UNCHANGED <<counters, births, lists, key, loaded, incremented, raced, observed,
                 rebuilt, failures>>
-----------------------------------------------------------------------------
(* A counter never exceeds the increments made of it, and loses one only   *)
(* when two of its increments have overlapped.                             *)
CountersExact ==
  \A k \in Counters :
    /\ counters[k] <= incremented[k]
    /\ k \notin raced => counters[k] = incremented[k]

(* Every observation is in some list of its histogram, and all are in the  *)
(* one that can be read unless two threads have created it.                *)
Length(h) == IF lists[h] = <<>> THEN 0 ELSE Last(lists[h])

HistogramsExact ==
  \A h \in Histograms :
    /\ Total(lists[h], DOMAIN lists[h]) = observed[h]
    /\ h \notin rebuilt => Length(h) = observed[h]

(* Dumps fail because a histogram is born under them, and a histogram that *)
(* is there stays: the failing dumps of a thread are never more than the   *)
(* histograms there are, so once all sensors are known dumps succeed.      *)
FailuresAreBirths == \A t \in Threads : failures[t] <= Len(births)
=============================================================================
