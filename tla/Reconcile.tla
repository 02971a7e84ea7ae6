------------------------------- MODULE Reconcile -------------------------------
(***************************************************************************)
(* Asking the model about candidates: worker threads, the record-once      *)
(* cache, and the transport with its deadline and its retries.             *)
(*                                                                         *)
(* A candidate is a claim and a place in the code.  Workers take them in   *)
(* order; a candidate taken after the budget is spent is not asked about.  *)
(* A call carries one deadline through all its attempts and the pauses     *)
(* between them; an attempt begins with the resolution of the provider's   *)
(* name, which the deadline does not bound.  The clock counts ticks from   *)
(* the start of the batch: what a thread does between two waits takes no   *)
(* time, so the clock moves only when every worker waits for the resolver, *)
(* for the network, for a pause or for work.                               *)
(***************************************************************************)
EXTENDS Integers, Sequences, SequencesExt

CONSTANTS
  Claims, Codes,  \* claims have distinct texts, so a candidate is its own cache key
  Workers,
  Budget,         \* ticks after which no candidate is asked about
  Timeout,        \* ticks a call may take with all its attempts
  Resolving,      \* ticks the system takes to resolve a name; the code sets no limit
  RetryMax,       \* attempts after the first
  Backoff,        \* pause before the first retry; it doubles
  MaxBackoff,
  RetryAfters     \* pauses a provider may ask for

ASSUME BudgetAssumption == Budget \in Nat /\ Timeout \in Nat \ {0}
ASSUME WorkersAssumption == Workers # {}
ASSUME RetryAssumption ==
  /\ RetryMax \in Nat
  /\ Resolving \in Nat /\ Backoff \in Nat \ {0} /\ MaxBackoff \in Nat \ {0}
  /\ RetryAfters \subseteq Nat

VARIABLES
  jobs,     \* candidates of the running batch
  taken,    \* how many of them a worker took
  outcome,  \* of each candidate
  worker,   \* what each worker waits for
  clock,    \* ticks since the batch began
  cache     \* record-once files: candidate to verdict

batch == <<jobs, taken, outcome, worker, clock>>
reconcileVars == <<batch, cache>>

Candidates == Claims \X Codes

\* The judge's answers, after the policy: a duplicate supports, a supersession or
\* a conflict contradicts, and anything else or a low score is rejected.
Verdicts == {"accepted", "rejected"}
Failed == "failed"
Unknown == "unknown"

Idle == [at |-> "idle", job |-> 0, retries |-> 0, wake |-> 0, due |-> 0]

ReconcileTypeOK ==
  /\ jobs \in Seq(Candidates)
  /\ taken \in 0..Len(jobs)
  /\ outcome \in [1..Len(jobs) -> Verdicts \cup {Failed, Unknown}]
  /\ worker \in [Workers -> [at : {"idle", "resolving", "calling", "paused"},
                             job : 0..Len(jobs), retries : 0..RetryMax,
                             wake : Nat, due : Nat]]
  /\ clock \in Nat
  /\ cache \in [Candidates -> Verdicts \cup {Unknown}]

ReconcileInit ==
  /\ jobs = <<>> /\ taken = 0 /\ outcome = <<>> /\ clock = 0
  /\ worker = [w \in Workers |-> Idle]
  /\ cache = [c \in Candidates |-> Unknown]

Begin(candidates) ==
  /\ jobs' = candidates
  /\ taken' = 0
  /\ outcome' = [i \in 1..Len(candidates) |-> Unknown]
  /\ worker' = [w \in Workers |-> Idle]
  /\ clock' = 0

\* Every candidate has an outcome: a worker that takes a job settles it.
Finished == taken = Len(jobs) /\ \A w \in Workers : worker[w].at = "idle"

CanTake(w) == worker[w].at = "idle" /\ taken < Len(jobs)

InBudget == clock < Budget

\* The budget is spent: the candidate is left unresolved.
SkipJob(w) ==
  /\ CanTake(w) /\ ~InBudget
  /\ taken' = taken + 1
  /\ outcome' = [outcome EXCEPT ![taken + 1] = Failed]
  /\ UNCHANGED <<jobs, worker, clock, cache>>

\* The verdict was recorded before: the model is not asked.
Recall(w) ==
  /\ CanTake(w) /\ InBudget
  /\ cache[jobs[taken + 1]] # Unknown
  /\ taken' = taken + 1
  /\ outcome' = [outcome EXCEPT ![taken + 1] = cache[jobs[taken + 1]]]
  /\ UNCHANGED <<jobs, worker, clock, cache>>

Deadline == clock + Timeout

Call(w) ==
  /\ CanTake(w) /\ InBudget
  /\ cache[jobs[taken + 1]] = Unknown
  /\ taken' = taken + 1
  /\ worker' = [worker EXCEPT ![w] = [at |-> "resolving", job |-> taken + 1, retries |-> 0,
                                      wake |-> clock + Resolving, due |-> Deadline]]
  /\ UNCHANGED <<jobs, outcome, clock, cache>>

Settle(w, result) ==
  /\ outcome' = [outcome EXCEPT ![worker[w].job] = result]
  /\ worker' = [worker EXCEPT ![w] = Idle]
  /\ UNCHANGED <<jobs, taken, clock>>

\* The name is resolved, and the deadline is looked at again; an attempt that meets it
\* has no time left for another.  A resolution that fails is an attempt that fails.
Resolved(w) ==
  /\ worker[w].at = "resolving"
  /\ IF clock < worker[w].due
     THEN /\ worker' = [worker EXCEPT ![w].at = "calling"]
          /\ UNCHANGED <<jobs, taken, outcome, clock, cache>>
     ELSE Settle(w, Failed) /\ UNCHANGED cache

\* A verdict arrives and is recorded.
Answer(w) ==
  /\ worker[w].at = "calling"
  /\ \E verdict \in Verdicts :
       /\ Settle(w, verdict)
       /\ cache' = [cache EXCEPT ![jobs[worker[w].job]] = verdict]

\* A status or an error no retry helps, or a reply that is no verdict.
Refused(w) ==
  /\ worker[w].at = "calling"
  /\ Settle(w, Failed)
  /\ UNCHANGED cache

\* The exponential pauses, by the retries before.
Doubling[n \in 0..RetryMax] == IF n = 0 THEN Backoff ELSE 2 * Doubling[n - 1]

\* The pause before a retry: the provider's or an exponential one, capped.
RetryDelay(attempt, pause) ==
  LET asked == IF pause = 0 THEN Doubling[attempt - 1] ELSE pause
  IN IF asked < MaxBackoff THEN asked ELSE MaxBackoff

Remaining(w) == worker[w].due - clock

\* Mutation: a pause is taken whether or not the deadline leaves room.
FitsAlways(w, delay) == TRUE

Fits(w, delay) == delay < Remaining(w)

\* A busy provider or a transient error: pause, if the deadline leaves room.
Retry(w) ==
  /\ worker[w].at = "calling" /\ worker[w].retries < RetryMax
  /\ \E pause \in {0} \cup RetryAfters :
       LET delay == RetryDelay(worker[w].retries + 1, pause)
       IN /\ Fits(w, delay)
          /\ worker' = [worker EXCEPT ![w].at = "paused", ![w].retries = @ + 1,
                                      ![w].wake = clock + delay]
  /\ UNCHANGED <<jobs, taken, outcome, clock, cache>>

\* Mutation: the thread wakes a tick late.
AgainLate(w) ==
  /\ worker[w].at = "paused" /\ worker[w].wake < clock
  /\ worker' = [worker EXCEPT ![w].at = "resolving", ![w].wake = clock + Resolving]
  /\ UNCHANGED <<jobs, taken, outcome, clock, cache>>

\* The next attempt, with what is left until the same deadline.
Again(w) ==
  /\ worker[w].at = "paused" /\ worker[w].wake <= clock
  /\ worker' = [worker EXCEPT ![w].at = "resolving", ![w].wake = clock + Resolving]
  /\ UNCHANGED <<jobs, taken, outcome, clock, cache>>

Waits(w) ==
  CASE worker[w].at = "idle" -> taken = Len(jobs)
    [] worker[w].at = "calling" -> clock < worker[w].due
    [] worker[w].at \in {"resolving", "paused"} -> clock < worker[w].wake

Tick ==
  /\ ~Finished
  /\ \A w \in Workers : Waits(w)
  /\ clock' = clock + 1
  /\ UNCHANGED <<jobs, taken, outcome, worker, cache>>

BatchStep ==
  \/ Tick
  \/ \E w \in Workers : SkipJob(w) \/ Recall(w) \/ Call(w) \/ Resolved(w)
                          \/ Answer(w) \/ Refused(w) \/ Retry(w) \/ Again(w)

\* A batch is shorter than its budget, one call and one resolution: the budget stops new
\* calls, retries and pauses live within a call's deadline, and only the resolution of
\* a name outlives it (acquire_proposals, post_json, connect).
EndsInTime ==
  /\ clock < Budget + Timeout + Resolving
  /\ \A w \in Workers : worker[w].at \in {"calling", "paused"} => clock <= worker[w].due

\* A call is over by its deadline: "Execute a request with a wall-clock deadline"
\* (surfaces/http/client.rs:222).  No run claims it: the
\* resolution of a name breaks it (README, Knowledge).
CallsMeetTheirDeadline ==
  \A w \in Workers : worker[w].at # "idle" => clock <= worker[w].due

================================================================================
