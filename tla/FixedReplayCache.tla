-------------------------- MODULE FixedReplayCache --------------------------
(***************************************************************************)
(* FixedReplayCache<N> of crates/agent-core: an array of N optional        *)
(* entries.  Every envelope an Agent marks was sent by the CA, so the      *)
(* session alone stands for the pair (sender, session).                    *)
(***************************************************************************)
EXTENDS Naturals

CONSTANTS
    Capacity,   \* N
    Ttl         \* ttl_seconds

ASSUME CacheAssumption == Capacity \in Nat /\ Ttl \in Nat

Slots   == 1..Capacity
Vacant  == [session |-> 0, expires |-> 0]
Entries == [session : Nat, expires : Nat]

\* Mutant: an entry is dropped in the last second of its time to live.
Purged_Early(cache, now) ==
    [i \in Slots |-> IF cache[i].expires <= now + 1 THEN Vacant ELSE cache[i]]

\* The first loop of check_and_mark: expired entries become vacant.
Purged(cache, now) ==
    [i \in Slots |-> IF cache[i].expires <= now THEN Vacant ELSE cache[i]]

Holds(cache, session) == \E i \in Slots : cache[i] # Vacant /\ cache[i].session = session

VacantSlots(cache) == {i \in Slots : cache[i] = Vacant}

FirstVacant(cache) == CHOOSE i \in VacantSlots(cache) : \A j \in VacantSlots(cache) : i <= j

\* Whether check_and_mark returns Ok: neither Replay nor Capacity.
MayMark(cache, session, now) ==
    LET live == Purged(cache, now)
    IN  ~Holds(live, session) /\ VacantSlots(live) # {}

\* The cache after check_and_mark, which purges it also when it then refuses.
CheckAndMark(cache, session, now) ==
    LET live == Purged(cache, now)
    IN  IF MayMark(cache, session, now)
        THEN [live EXCEPT ![FirstVacant(live)] = [session |-> session, expires |-> now + Ttl]]
        ELSE live
=============================================================================
