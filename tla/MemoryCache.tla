---------------------------- MODULE MemoryCache ----------------------------
(* MemoryMessageCache: the in-memory tier, a map and a recency list over   *)
(* the same keys. A state is a function from the resident keys to the time *)
(* of their last use, which orders the list. Every operation runs under    *)
(* the tier's mutex, so each is an operator on that function.              *)
EXTENDS Naturals, FiniteSetsExt, Functions

CONSTANTS
  Key,
  Size,         \* CachedMessage::approximateBytes of each key's message
  MaxEntries,   \* the two budgets
  MaxBytes

ASSUME SizeAssumption == Size \in [Key -> Nat]
ASSUME BudgetAssumption == MaxEntries \in Nat \ {0} /\ MaxBytes \in Nat \ {0}

Bytes(keys) == MapThenSumSet(LAMBDA k : Size[k], keys)

WithinBudget(keys) == Cardinality(keys) <= MaxEntries /\ Bytes(keys) <= MaxBytes

(* From the back of the recency list, until both budgets hold: a key stays *)
(* if it and all that were used later fit. The key just put goes as well   *)
(* if it alone is larger than the budget.                                  *)
EvictUntilWithinBudget(memory) ==
  Restrict(memory, {k \in DOMAIN memory :
                      WithinBudget({j \in DOMAIN memory : memory[j] >= memory[k]})})

Erase(memory, keys) == Restrict(memory, DOMAIN memory \ keys)

(* A map after f[k] = v.                                                   *)
Assign(f, k, v) == [x \in DOMAIN f \cup {k} |-> IF x = k THEN v ELSE f[x]]

(* Spliced to the front of the recency list.                               *)
Touch(memory, k, now) == Assign(memory, k, now)

Insert(memory, k, now) == EvictUntilWithinBudget(Touch(memory, k, now))
=============================================================================
