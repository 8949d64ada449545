---------------------------- MODULE IdGenerator ----------------------------
(***************************************************************************)
(* generateId(): identifiers from the microseconds of steady_clock, made   *)
(* unique by a compare-and-swap loop on the atomic lastValue, called by    *)
(* any number of threads.                                                  *)
(*                                                                         *)
(* All accesses are memory_order_relaxed.  The values of one atomic still  *)
(* have one modification order; a load may return any of them that is not  *)
(* older than what its thread has read or written before, and only a       *)
(* successful compare_exchange is sure to have read the last one.          *)
(***************************************************************************)
EXTENDS Integers, Sequences

CONSTANTS
    Threads,    \* the callers
    MaxTime,    \* bound of the model: ticks of the clock
    MaxIds      \* bound of the model: identifiers issued

ASSUME MaxTimeAssumption == MaxTime \in Nat
ASSUME MaxIdsAssumption  == MaxIds \in Nat

VARIABLES
    clock,          \* steady_clock in microseconds
    order,          \* the modification order of lastValue
    seen,           \* thread -> its latest position in that order
    pc,             \* thread -> its next step
    currentTime,    \* thread -> currentTime
    last,           \* thread -> last
    id,             \* thread -> what its last call returned
    begun           \* thread -> the clock and the length of order when its call began

idVars == <<clock, order, seen, pc, currentTime, last, id, begun>>

-----------------------------------------------------------------------------
lastValue == order[Len(order)]

Tick ==
    /\ clock < MaxTime
    /\ clock' = clock + 1
    /\ UNCHANGED <<order, seen, pc, currentTime, last, id, begun>>

Call(t) ==
    /\ pc[t] = "idle"
    /\ currentTime' = [currentTime EXCEPT ![t] = clock]
    /\ begun' = [begun EXCEPT ![t] = [time |-> clock, length |-> Len(order)]]
    /\ pc' = [pc EXCEPT ![t] = "load"]
    /\ UNCHANGED <<clock, order, seen, last, id>>

\* A load that is not a read-modify-write.
Read(t) ==
    \E i \in seen[t]..Len(order) :
        /\ last' = [last EXCEPT ![t] = order[i]]
        /\ seen' = [seen EXCEPT ![t] = i]

Load(t) ==
    /\ pc[t] = "load"
    /\ Read(t)
    /\ pc' = [pc EXCEPT ![t] = "cas"]
    /\ UNCHANGED <<clock, order, currentTime, id, begun>>

\* Mutant: the time alone.
Candidate_TimeOnly(t) == currentTime[t]

Candidate(t) == IF currentTime[t] > last[t] THEN currentTime[t] ELSE last[t] + 1

\* Mutant: a load, a test and a store.
CanExchange_Stale(t) == \E i \in 1..Len(order) : order[i] = last[t]

CanExchange(t) == lastValue = last[t]

\* compare_exchange_weak succeeds, and the call returns the candidate.
Exchange(t) ==
    /\ pc[t] = "cas"
    /\ CanExchange(t)
    /\ Len(order) <= MaxIds
    /\ order' = Append(order, Candidate(t))
    /\ seen' = [seen EXCEPT ![t] = Len(order) + 1]
    /\ id' = [id EXCEPT ![t] = Candidate(t)]
    /\ pc' = [pc EXCEPT ![t] = "idle"]
    /\ UNCHANGED <<clock, currentTime, last, begun>>

\* It fails, spuriously or not, and stores what it has read into last.
ExchangeFails(t) ==
    /\ pc[t] = "cas"
    /\ Read(t)
    /\ pc' = [pc EXCEPT ![t] = "retry"]
    /\ UNCHANGED <<clock, order, currentTime, id, begun>>

Retry(t) ==
    /\ pc[t] = "retry"
    /\ currentTime' = [currentTime EXCEPT ![t] = clock]
    /\ pc' = [pc EXCEPT ![t] = "cas"]
    /\ UNCHANGED <<clock, order, seen, last, id, begun>>

-----------------------------------------------------------------------------
\* The first call has initialised lastValue with the time.
IdInit ==
    /\ clock = 0
    /\ order = <<0>>
    /\ seen = [t \in Threads |-> 1]
    /\ pc = [t \in Threads |-> "idle"]
    /\ currentTime = [t \in Threads |-> 0]
    /\ last = [t \in Threads |-> 0]
    /\ id = [t \in Threads |-> 0]
    /\ begun = [t \in Threads |-> [time |-> 0, length |-> 0]]

IdNext ==
    \/ Tick
    \/ \E t \in Threads : Call(t) \/ Load(t) \/ Exchange(t) \/ ExchangeFails(t) \/ Retry(t)

IdSpec == IdInit /\ [][IdNext]_idVars

-----------------------------------------------------------------------------
(* Properties.                                                             *)

\* Every variable holds values of its kind.
IdTypes ==
    /\ clock \in 0..MaxTime
    /\ order \in Seq(Nat) /\ Len(order) \in 1..(MaxIds + 1)
    /\ seen \in [Threads -> Nat] /\ \A t \in Threads : seen[t] \in 1..Len(order)
    /\ pc \in [Threads -> {"idle", "load", "cas", "retry"}]
    /\ currentTime \in [Threads -> Nat]
    /\ last \in [Threads -> Nat]
    /\ id \in [Threads -> Nat]
    /\ begun \in [Threads -> [time : Nat, length : Nat]]

\* No two calls return the same identifier, and identifiers grow in the order
\* in which they are issued, although every load may be stale
\* (id-generator.h:19, :24).
Increasing == \A i, j \in 1..Len(order) : i < j => order[i] < order[j]

\* A call returns more than every call that had returned before it began, so
\* that generateId() may be taken for one step.
CallsOrdered ==
    \A t \in Threads : pc[t] = "idle" =>
        \A i \in 1..begun[t].length : order[i] < id[t]

\* A call never returns a time before its own beginning: the current time wins
\* over the last value, however often the loop is repeated (id-generator.h:22).
NotBeforeCall == \A t \in Threads : pc[t] = "idle" => begun[t].time <= id[t]
=============================================================================
