------------------------------ MODULE Storage -------------------------------
(***************************************************************************)
(* A contract's persistent storage, seen per kind of key: a function whose *)
(* domain is the set of addresses that have an entry.  Also the sum of an  *)
(* amount over all addresses, which no contract computes but which the     *)
(* bookkeeping of the contracts is about.                                  *)
(***************************************************************************)
EXTENDS Naturals, FiniteSets

\* Storage in which no address has an entry yet.
EmptyStore == [x \in {} |-> x]

\* storage().persistent().set(key, value)
Put(store, key, value) ==
  [x \in DOMAIN store \cup {key} |-> IF x = key THEN value ELSE store[x]]

\* storage().persistent().remove(key)
Remove(store, key) == [x \in DOMAIN store \ {key} |-> store[x]]

\* The amount held under x, counted out: one pair per unit.
UnitsOf(f, x) == {x} \X (1 .. f[x])
Units(f) == UNION {UnitsOf(f, x) : x \in DOMAIN f}

\* The sum of f[x] over the domain of f, for f with natural values.  Defined
\* by counting units rather than by recursion, so that what an update does to
\* it follows from the cardinality of finite sets.
Total(f) == Cardinality(Units(f))
=============================================================================
