--------------------------- MODULE RequestBudget ---------------------------
(***************************************************************************)
(* The weight budget of the /info requests of one egress (RequestBudget)   *)
(* and the scheduler that spends it (InfoScheduler).  The envelope, a      *)
(* share of the venue's ceiling, is split into a pool for protected jobs   *)
(* (P0, P1) and a general pool; both refill with time, in whole weights    *)
(* with a remainder carried from call to call.                             *)
(*                                                                         *)
(* Abstractions.  A minute is Minute ticks and a second one tick.  A job   *)
(* is its place in the order of the ScheduleKeys, with a class and a cost; *)
(* who calls the scheduler, and when, is left open.                        *)
(***************************************************************************)
EXTENDS Integers, Sequences, FiniteSets

CONSTANTS
  ProtectedJobs,     \* jobs of priority P0 or P1
  JobCost,           \* JobCost[j]: estimated_cost of job j
  Ceiling,           \* the venue's ceiling, weight per minute
  EnvelopePercent,   \* envelope_percent
  PriorityPercent,   \* priority_reserve_percent
  Minute,            \* ticks of a minute
  Slots,             \* requests that may be in flight at once
  MaxWeight,         \* bound: u32::MAX, the weight a response may turn out to have
  MaxReal,           \* bound: ticks of real time
  MaxSteps           \* bound: ticks the clock is set back

ASSUME BudgetAssumption ==
  /\ JobCost \in Seq(Nat \ {0}) /\ ProtectedJobs \subseteq DOMAIN JobCost
  /\ Ceiling \in Nat \ {0} /\ Minute \in Nat \ {0}
  /\ EnvelopePercent \in 70..80 /\ PriorityPercent \in 1..90
  /\ {MaxWeight, MaxReal, MaxSteps} \subseteq Nat /\ IsFiniteSet(Slots)

Envelope == (Ceiling * EnvelopePercent) \div 100
PriorityCap == (Envelope * PriorityPercent) \div 100
GeneralCap == Envelope - PriorityCap

ASSUME PoolsAssumption == PriorityCap > 0 /\ GeneralCap > 0

VARIABLES
  budget,       \* RequestBudget: the two pools, remainders, last refill, circuit
  queued,       \* InfoScheduler.jobs
  inFlight,     \* inFlight[s]: the InFlight a caller holds, or Free
  wall,         \* what the clock shows
  real,         \* ticks that have passed
  setBack,      \* ticks the clock was set back
  charged,      \* weight charged and not refunded
  ideal         \* per pool: weight times Minute in a bucket that fills exactly

requestVars == <<budget, queued, inFlight, wall, real, setBack, charged, ideal>>

Jobs == DOMAIN JobCost
Pools == {"priority", "general"}
Cap == [priority |-> PriorityCap, general |-> GeneralCap]

Free == [job |-> 0, priority |-> 0, general |-> 0]
CircuitClosed == -1     \* circuit_open_until_millis: None

Least(a, b) == IF a < b THEN a ELSE b

Leases == [job : Jobs, priority : 0..PriorityCap, general : 0..GeneralCap]

BudgetTypeOK ==
  /\ budget.priority \in 0..PriorityCap /\ budget.general \in 0..GeneralCap
  /\ budget.priorityRest \in 0..Minute - 1 /\ budget.generalRest \in 0..Minute - 1
  /\ budget.last \in Nat /\ budget.until \in Int /\ budget.failures \in 0..5
  /\ queued \subseteq Jobs
  /\ inFlight \in [Slots -> Leases \cup {Free}]
  /\ wall \in Nat /\ real \in 0..MaxReal /\ setBack \in 0..MaxSteps
  /\ charged \in Nat
  /\ ideal \in [Pools -> Int]

BudgetInit ==
  /\ budget = [priority |-> PriorityCap, general |-> GeneralCap,
               priorityRest |-> 0, generalRest |-> 0,
               last |-> MaxSteps, until |-> CircuitClosed, failures |-> 0]
  /\ queued = {} /\ inFlight = [s \in Slots |-> Free]
  /\ wall = MaxSteps /\ real = 0 /\ setBack = 0
  /\ charged = 0 /\ ideal = [p \in Pools |-> Cap[p] * Minute]

-----------------------------------------------------------------------------
(* refill_pool.                                                            *)
RefillPool(available, cap, elapsed, rest) ==
  LET credit == cap * elapsed + rest
      next == Least(cap, available + credit \div Minute)
  IN [available |-> next,
      rest |-> IF available >= cap \/ next >= cap THEN 0 ELSE credit % Minute]

(* refill: a clock that went back only moves the mark.                     *)
Refill ==
  LET p == RefillPool(budget.priority, PriorityCap, wall - budget.last, budget.priorityRest)
      g == RefillPool(budget.general, GeneralCap, wall - budget.last, budget.generalRest)
  IN IF wall < budget.last
     THEN [budget EXCEPT !.last = wall, !.priorityRest = 0, !.generalRest = 0]
     ELSE IF wall = budget.last THEN budget
     ELSE [budget EXCEPT !.priority = p.available, !.priorityRest = p.rest,
                         !.general = g.available, !.generalRest = g.rest,
                         !.last = wall,
                         !.until = IF wall >= @ THEN CircuitClosed ELSE @]

CircuitOpen(b) == wall < b.until

(* What a request of this class takes from the pools, priority first.      *)
Split(b, protected, cost) ==
  LET p == IF protected THEN Least(cost, b.priority) ELSE 0
  IN [priority |-> p, general |-> cost - p]

Take(b, s) == [b EXCEPT !.priority = @ - s.priority, !.general = @ - s.general]

(* Mutant: the part given back to the general pool goes to both.           *)
RefundShare_Both(lease, amount) ==
  [priority |-> Least(amount, lease.priority), general |-> Least(amount, lease.general)]

(* refund: what comes back to each pool, the general pool first.           *)
RefundShare(lease, amount) ==
  LET g == Least(amount, lease.general)
  IN [priority |-> Least(amount - g, lease.priority), general |-> g]

GiveBack(b, s) ==
  [b EXCEPT !.priority = Least(PriorityCap, @ + s.priority),
            !.general = Least(GeneralCap, @ + s.general)]

(* backoff_millis: 2, 4, ... seconds up to 32, and at most a quarter       *)
(* of that as jitter.                                                      *)
Backoffs(failures) ==
  LET factor == <<2, 4, 8, 16, 32>>[failures]
  IN {factor + j : j \in 0..factor \div 4}

Reserved(lease) == lease.priority + lease.general

(* The bookkeeping of the properties: a weight charged, or given back, and *)
(* how it is shared between the pools.                                     *)
Charged(weight, share) ==
  /\ charged' = charged + weight
  /\ ideal' = [p \in Pools |-> ideal[p] - share[p] * Minute]

GivenBack(weight, share) ==
  /\ charged' = charged - weight
  /\ ideal' = [p \in Pools |-> Least(Cap[p] * Minute, ideal[p] + share[p] * Minute)]

-----------------------------------------------------------------------------
(* enqueue: an id that is queued already is DuplicateJob.                  *)
Enqueue(j) ==
  /\ j \notin queued /\ queued' = queued \cup {j}
  /\ UNCHANGED <<budget, inFlight, wall, real, setBack, charged, ideal>>

(* A job the budget would pay now.                                         *)
Payable(b, j) == Split(b, j \in ProtectedJobs, JobCost[j]).general <= b.general

(* dispatch: the first job in key order that the budget pays; the ones it  *)
(* cannot pay are passed over.                                             *)
Dispatch(s) ==
  /\ inFlight[s] = Free
  /\ LET b == Refill
         payable == {j \in queued : Payable(b, j)}
         first == CHOOSE j \in payable : \A i \in payable : j <= i
         share == Split(b, first \in ProtectedJobs, JobCost[first])
     IN \/ /\ ~CircuitOpen(b) /\ payable # {}
           /\ budget' = Take(b, share) /\ queued' = queued \ {first}
           /\ inFlight' = [inFlight EXCEPT ![s] =
                             [job |-> first, priority |-> share.priority, general |-> share.general]]
           /\ Charged(JobCost[first], share)
        \/ /\ queued # {} /\ (CircuitOpen(b) \/ payable = {})
           /\ budget' = b /\ UNCHANGED <<queued, inFlight, charged, ideal>>
  /\ UNCHANGED <<wall, real, setBack>>

(* complete with the weight the response had: the rest is refunded, or     *)
(* more is charged; when that cannot be paid the error loses the job.  The *)
(* weight is the caller's, any u32.                                        *)
Complete(s, actual) ==
  /\ inFlight[s] # Free
  /\ LET b == Refill
         lease == inFlight[s]
         rest == RefundShare(lease, Reserved(lease) - actual)
         extra == Split(b, lease.job \in ProtectedJobs, actual - Reserved(lease))
     IN \/ /\ actual <= Reserved(lease)
           /\ budget' = [GiveBack(b, rest) EXCEPT !.failures = 0]
           /\ GivenBack(Reserved(lease) - actual, rest)
        \/ /\ actual > Reserved(lease) /\ extra.general <= b.general
           /\ budget' = [Take(b, extra) EXCEPT !.failures = 0]
           /\ Charged(actual - Reserved(lease), extra)
        \/ /\ actual > Reserved(lease) /\ extra.general > b.general
           /\ budget' = b /\ UNCHANGED <<charged, ideal>>
  /\ inFlight' = [inFlight EXCEPT ![s] = Free]
  /\ UNCHANGED <<queued, wall, real, setBack>>

(* The weights some leases took from a pool, one by one.                   *)
Units(held, p) == {u \in held \X (1..Cap[p]) : u[2] <= inFlight[u[1]][p]}

(* release of some leases: a refund of the whole reservation gives each    *)
(* pool what it paid.                                                      *)
Release(held) ==
  LET share == [p \in Pools |-> Cardinality(Units(held, p))]
  IN /\ budget' = GiveBack(Refill, share)
     /\ GivenBack(share.priority + share.general, share)

(* cancel: the lease is released.                                          *)
Cancel(s) ==
  /\ inFlight[s] # Free
  /\ Release({s})
  /\ inFlight' = [inFlight EXCEPT ![s] = Free]
  /\ UNCHANGED <<queued, wall, real, setBack>>

(* shutdown: every lease is released and the queue cleared.                *)
Shutdown ==
  /\ Release({s \in Slots : inFlight[s] # Free})
  /\ queued' = {} /\ inFlight' = [s \in Slots |-> Free]
  /\ UNCHANGED <<wall, real, setBack>>

(* on_429: the pools are emptied, the circuit opens and the job is queued  *)
(* again, unless its id has been queued meanwhile.                         *)
On429(s) ==
  /\ inFlight[s] # Free
  /\ LET b == Refill
         failures == Least(5, b.failures + 1)
     IN \E d \in Backoffs(failures) :
          budget' = [b EXCEPT !.priority = 0, !.general = 0, !.priorityRest = 0,
                              !.generalRest = 0, !.failures = failures, !.until = wall + d]
  /\ queued' = queued \cup {inFlight[s].job}
  /\ inFlight' = [inFlight EXCEPT ![s] = Free]
  /\ ideal' = [p \in Pools |-> 0]
  /\ UNCHANGED <<wall, real, setBack, charged>>

-----------------------------------------------------------------------------
TimePasses ==
  /\ real < MaxReal
  /\ real' = real + 1 /\ wall' = wall + 1
  /\ ideal' = [p \in Pools |-> Least(Cap[p] * Minute, ideal[p] + Cap[p])]
  /\ UNCHANGED <<budget, queued, inFlight, setBack, charged>>

(* The wall clock is corrected by a tick.                                  *)
ClockSetBack ==
  /\ setBack < MaxSteps
  /\ setBack' = setBack + 1 /\ wall' = wall - 1
  /\ UNCHANGED <<budget, queued, inFlight, real, charged, ideal>>

BudgetNext ==
  \/ \E j \in Jobs : Enqueue(j)
  \/ \E s \in Slots : Dispatch(s) \/ Cancel(s) \/ On429(s)
  \/ \E s \in Slots, actual \in 0..MaxWeight : Complete(s, actual)
  \/ Shutdown \/ TimePasses \/ ClockSetBack

BudgetSpec == BudgetInit /\ [][BudgetNext]_requestVars

-----------------------------------------------------------------------------
HeldCredit == [priority |-> budget.priority * Minute + budget.priorityRest,
         general |-> budget.general * Minute + budget.generalRest]

(* A token bucket: whatever is reserved, refunded, charged late or refused *)
(* and however the clock is set back, the weight charged and what is left  *)
(* never exceed a full envelope plus what time has added (reserve, refund, *)
(* charge_extra, refill).                                                  *)
RateBounded ==
  HeldCredit.priority + HeldCredit.general + charged * Minute <= Envelope * (Minute + real)

(* Calling often costs nothing: with a clock that only moves forward the   *)
(* pools hold at least what an exact bucket holds, so the remainders       *)
(* refill_pool carries make up for its whole weights.                      *)
NoCreditLost ==
  setBack = 0 => \A p \in Pools :
    Least(Cap[p] * Minute, HeldCredit[p] + Cap[p] * (wall - budget.last)) >= ideal[p]

(* A request in flight was paid from the pools its class may use, in full. *)
LeasesPaid ==
  \A s \in Slots : inFlight[s] # Free =>
    /\ Reserved(inFlight[s]) = JobCost[inFlight[s].job]
    /\ inFlight[s].job \notin ProtectedJobs => inFlight[s].priority = 0

(* reserve, complete, release and refill neither create nor lose weight and*)
(* keep the protected pool to the protected jobs.                          *)
BudgetSafe == BudgetTypeOK /\ RateBounded /\ NoCreditLost /\ LeasesPaid
=============================================================================
