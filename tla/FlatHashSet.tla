----------------------------- MODULE FlatHashSet -----------------------------
(***************************************************************************)
(* psetggm/flat_hash_map.hpp: the open-addressing table behind             *)
(* flat_hash_map and flat_hash_set, which tests/test_distinct.cpp measures *)
(* the distinct filter against.  An entry records how far it is from the   *)
(* place its hash asks for, a new key takes the place of one that is       *)
(* nearer its own, and max_lookups entries behind the last slot replace    *)
(* wrapping around.  The value of a map's pair plays no part, so a value   *)
(* is its key.                                                             *)
(*                                                                         *)
(* Every public call is one action.  The width of a hash is a parameter,   *)
(* and the load factor is counted in halves.                               *)
(***************************************************************************)
EXTENDS Integers, FiniteSets, SequencesExt

CONSTANTS
  Names,        \* of the tables
  Keys,
  Width,        \* bits of size_t
  Policy,       \* of the hash: "fibonacci" or "power_of_two"
  Multiplier,   \* of fibonacci_hash_policy
  LoadFactors,  \* values for max_load_factor, in halves
  Reserves,     \* arguments of reserve and rehash
  Lists         \* sequences of keys to construct a table from

FlatHashSetAssumption ==
  /\ Width \in Nat \ {0} /\ Keys \subseteq 0..2^Width - 1
  /\ Policy \in {"fibonacci", "power_of_two"} /\ Multiplier % 2 = 1
  /\ LoadFactors \subseteq Nat \ {0} /\ Reserves \subseteq Nat /\ Lists \subseteq Seq(Keys)

VARIABLE table   \* of each name

min_lookups == 4
special_end_value == 0
None == -1       \* the value of an entry that was destroyed

Vacant == [distance |-> -1, value |-> None]
End    == [distance |-> special_end_value, value |-> None]

has_value(e)              == e.distance >= 0
is_empty(e)               == e.distance < 0
is_at_desired_position(e) == e.distance <= 0

-----------------------------------------------------------------------------
\* Policy.

log2(value) == CHOOSE n \in 0..Width : 2^n <= value /\ value < 2^(n + 1)

next_power_of_two(i) == CHOOSE p \in {2^n : n \in 0..Width} : p >= i /\ (p = 1 \/ p \div 2 < i)

\* fibonacci_hash_policy takes the highest bits of a product.
fibonacci(hash, shift) == ((Multiplier * hash) % 2^Width) \div 2^shift

\* power_of_two_hash_policy takes the lowest bits.
index_for_hash(hash, t) ==
  IF Policy = "fibonacci" THEN fibonacci(hash, t.shift) ELSE hash % (t.slots + 1)

next_size_over(size) ==
  IF Policy = "fibonacci" THEN Max({2, next_power_of_two(size)}) ELSE next_power_of_two(size)

compute_max_lookups(num_buckets) == Max({min_lookups, log2(num_buckets)})

-----------------------------------------------------------------------------
\* Entries 0..n - 2 vacant and the end behind them.
Allocated(n) == [i \in 0..n - 1 |-> IF i = n - 1 THEN End ELSE Vacant]

empty_default_table(lf) ==
  [entries |-> Allocated(min_lookups), slots |-> 0, lookups |-> min_lookups - 1,
   shift |-> Width - 1, size |-> 0, lf |-> lf]

bucket_count(t) == IF t.slots = 0 THEN 0 ELSE t.slots + 1
end(t)          == t.slots + t.lookups
Home(t, k)      == index_for_hash(k, t)
Values(t)       == {t.entries[i].value : i \in {j \in 0..end(t) - 1 : has_value(t.entries[j])}}
\* Mutant: the entries behind the last slot are not visited.
ElementsInSlots(t) ==
  LET at == SelectSeq([i \in 1..t.slots + 1 |-> i - 1], LAMBDA i : has_value(t.entries[i]))
  IN  [n \in DOMAIN at |-> t.entries[at[n]].value]

\* In the order of iteration.
Elements(t) ==
  LET at == SelectSeq([i \in 1..end(t) |-> i - 1], LAMBDA i : has_value(t.entries[i]))
  IN  [n \in DOMAIN at |-> t.entries[at[n]].value]

\* Distance at which a search for k stops: the key is there, or an entry nearer its own
\* place than k would be.
Stop(t, k) ==
  CHOOSE d \in 0..t.lookups :
    LET e(j) == t.entries[Home(t, k) + j]
        Goes(j) == e(j).distance >= j /\ e(j).value # k
    IN  ~Goes(d) /\ \A j \in 0..d - 1 : Goes(j)

Matches(t, k, d) == LET e == t.entries[Home(t, k) + d] IN e.distance >= d /\ e.value = k

find(t, k) == IF Matches(t, k, Stop(t, k)) THEN Home(t, k) + Stop(t, k) ELSE end(t)

\* The first entry with a value from i on; the end has one.
Forward(t, i) == CHOOSE j \in i..end(t) : has_value(t.entries[j]) /\ \A h \in i..j - 1 : is_empty(t.entries[h])

begin(t) == Forward(t, 0)

-----------------------------------------------------------------------------
Put(t, i, distance, value) == [t EXCEPT !.entries[i] = [distance |-> distance, value |-> value]]
Grown(t)                   == [t EXCEPT !.size = @ + 1]

num_buckets_for_reserve(t, n) == LET lf == Min({1, t.lf}) IN (2 * n + lf - 1) \div lf

clear(t) == [t EXCEPT !.entries = [i \in DOMAIN @ |-> IF i < end(t) THEN Vacant ELSE @[i]], !.size = 0]

reset_to_empty_state(t) == [empty_default_table(t.lf) EXCEPT !.size = t.size]

\* When a new key makes the table grow.
TooFull(t, distance) ==
  \/ t.slots = 0
  \/ distance = t.lookups
  \/ 2 * (t.size + 1) > (t.slots + 1) * t.lf

\* Mutant: the displaced value and the new one are not exchanged back.
UndoneNot(t, result, value) == t

\* The table before it grows in the middle of a chain: the value without a place goes to
\* where the new key was put, which is inserted again.
Undone(t, result, value) == [t EXCEPT !.entries[result].value = value]

RECURSIVE emplace(_, _), displace(_, _, _, _, _), rehash(_, _)

grow(t) == rehash(t, Max({4, 2 * bucket_count(t)}))

\* The displaced value moves on until there is room.
displace(t, value, distance, i, result) ==
  LET e == t.entries[i]
  IN  IF is_empty(e)
      THEN [table |-> Grown(Put(t, i, distance, value)), at |-> result, inserted |-> TRUE]
      ELSE IF e.distance < distance
      THEN displace(Put(t, i, distance, value), e.value, e.distance + 1, i + 1, result)
      ELSE IF distance + 1 = t.lookups
      THEN emplace(grow(Undone(t, result, value)), t.entries[result].value)
      ELSE displace(t, value, distance + 1, i + 1, result)

emplace_new_key(t, distance, i, key) ==
  IF TooFull(t, distance)
  THEN emplace(grow(t), key)
  ELSE LET e == t.entries[i]
       IN  IF is_empty(e)
           THEN [table |-> Grown(Put(t, i, distance, key)), at |-> i, inserted |-> TRUE]
           ELSE displace(Put(t, i, distance, key), e.value, e.distance + 1, i + 1, i)

emplace(t, key) ==
  LET d == Stop(t, key)
      i == Home(t, key) + d
  IN  IF Matches(t, key, d)
      THEN [table |-> t, at |-> i, inserted |-> FALSE]
      ELSE emplace_new_key(t, d, i, key)

insert(t, elems) == FoldLeft(LAMBDA u, k : emplace(u, k).table, t, elems)

rehash(t, num) ==
  LET num_buckets == Max({num, (2 * t.size + t.lf - 1) \div t.lf})
      size        == next_size_over(num_buckets)
      lookups     == compute_max_lookups(size)
  IN  IF num_buckets = 0 THEN reset_to_empty_state(t)
      ELSE IF size = bucket_count(t) THEN t
      ELSE insert([entries |-> Allocated(size + lookups), slots |-> size - 1, lookups |-> lookups,
                   shift |-> Width - log2(size), size |-> 0, lf |-> t.lf], Elements(t))

reserve(t, n) ==
  LET required == num_buckets_for_reserve(t, n)
  IN  IF required > bucket_count(t) THEN rehash(t, required) ELSE t

rehash_for_other_container(t, other) ==
  rehash(t, Min({num_buckets_for_reserve(t, other.size), bucket_count(other)}))

-----------------------------------------------------------------------------
RECURSIVE shiftBack(_, _), shiftRange(_, _, _)

\* Entries behind i that are not at their place move up by one.
shiftBack(t, i) ==
  LET next == t.entries[i + 1]
  IN  IF is_at_desired_position(next) THEN t
      ELSE shiftBack([Put(t, i, next.distance - 1, next.value) EXCEPT !.entries[i + 1] = Vacant], i + 1)

\* The table and the entry that the result refers to.
eraseAt(t, i) ==
  LET u == shiftBack([t EXCEPT !.entries[i] = Vacant, !.size = @ - 1], i)
  IN  [table |-> u, at |-> Forward(u, i)]

erase(t, k) == IF find(t, k) = end(t) THEN t ELSE eraseAt(t, find(t, k)).table

\* Entries from i on move up by at most as many as were freed, and no further than
\* their place.
shiftRange(t, i, num_to_move) ==
  LET e == t.entries[i]
      u == [Put(t, i - num_to_move, e.distance - num_to_move, e.value) EXCEPT !.entries[i] = Vacant]
  IN  IF is_at_desired_position(e) THEN t
      ELSE shiftRange(u, i + 1, Min({u.entries[i + 1].distance, num_to_move}))

\* Mutant: entries move up by the length of the range.
numToMoveAll(t, from, to) == to - from

numToMove(t, from, to) == Min({t.entries[to].distance, to - from})

eraseRange(t, from, to) ==
  LET gone == {i \in from..to - 1 : has_value(t.entries[i])}
      u    == [t EXCEPT !.entries = [i \in DOMAIN @ |-> IF i \in gone THEN Vacant ELSE @[i]],
                        !.size = @ - Cardinality(gone)]
  IN  IF from = to THEN [table |-> t, at |-> from]
      ELSE IF to = end(t) THEN [table |-> u, at |-> end(t)]
      ELSE [table |-> shiftRange(u, to, numToMove(u, from, to)), at |-> to - numToMove(u, from, to)]

\* From a list of elements, with a number of buckets or one for each.
constructed(elems, num) ==
  insert(rehash(empty_default_table(1), IF num = 0 THEN Len(elems) ELSE num), elems)

\* A copy keeps the load factor, but not the size, of the other table.
copied(other) ==
  insert(rehash_for_other_container(empty_default_table(other.lf), other), Elements(other))

assigned(t, other) ==
  insert(rehash_for_other_container([clear(t) EXCEPT !.lf = other.lf], other), Elements(other))

\* operator==: as many elements, each found in the other.
Equal(lhs, rhs) == lhs.size = rhs.size /\ \A v \in Values(lhs) : find(rhs, v) # end(rhs)

-----------------------------------------------------------------------------
Init == table = [n \in Names |-> empty_default_table(1)]

Changed(n, t) == table' = [table EXCEPT ![n] = t]

Insert(n, k)         == Changed(n, emplace(table[n], k).table)
Erase(n, k)          == Changed(n, erase(table[n], k))
Clear(n)             == Changed(n, clear(table[n]))
Reserve(n, num)      == Changed(n, reserve(table[n], num))
Rehash(n, num)       == Changed(n, rehash(table[n], num))
ShrinkToFit(n)       == Changed(n, rehash_for_other_container(table[n], table[n]))
MaxLoadFactor(n, lf) == Changed(n, [table[n] EXCEPT !.lf = lf])

Positions(t) == {i \in 0..end(t) : has_value(t.entries[i])}

EraseRange(n) ==
  \E from, to \in Positions(table[n]) :
    from <= to /\ Changed(n, eraseRange(table[n], from, to).table)

CopyConstruct(n, other) == Changed(n, copied(table[other]))
CopyAssign(n, other)    == n # other /\ Changed(n, assigned(table[n], table[other]))

Construct(n, elems, num) == Changed(n, constructed(elems, num))

MoveConstruct(n, other) ==
  /\ n # other
  /\ table' = [table EXCEPT ![n] = table[other], ![other] = empty_default_table(1)]

MoveAssign(n, other) ==
  /\ n # other
  /\ table' = [table EXCEPT ![n] = table[other], ![other] = reset_to_empty_state(clear(table[n]))]

Swap(n, other) == table' = [table EXCEPT ![n] = table[other], ![other] = table[n]]

Next ==
  \E n \in Names :
    \/ \E k \in Keys : Insert(n, k) \/ Erase(n, k)
    \/ \E num \in Reserves : Reserve(n, num) \/ Rehash(n, num)
    \/ \E elems \in Lists, num \in Reserves : Construct(n, elems, num)
    \/ \E lf \in LoadFactors : MaxLoadFactor(n, lf)
    \/ Clear(n) \/ ShrinkToFit(n) \/ EraseRange(n)
    \/ \E other \in Names :
         \/ CopyConstruct(n, other) \/ CopyAssign(n, other)
         \/ MoveConstruct(n, other) \/ MoveAssign(n, other) \/ Swap(n, other)

Spec == Init /\ [][Next]_table

-----------------------------------------------------------------------------
\* An entry is as far from its place as it says, nearer than max_lookups, and every
\* entry on the way is at least as far from its own (the order emplace keeps and erase
\* restores); the end entry is never overwritten.
EntriesPlaced ==
  \A n \in Names :
    LET t == table[n]
    IN  /\ t.entries[end(t)] = End /\ DOMAIN t.entries = 0..end(t)
        /\ t.size = Cardinality(Positions(t)) - 1
        /\ \A i \in Positions(t) \ {end(t)} :
             LET e == t.entries[i]
             IN  /\ e.distance = i - Home(t, e.value) /\ e.distance < t.lookups
                 /\ \A j \in 0..e.distance - 1 : t.entries[i - e.distance + j].distance >= j

\* An insertion adds its key and no other change, returns the key's entry after any
\* chain of moves and growth, and says whether the key is new (emplace,
\* emplace_new_key).
InsertAddsKey ==
  \A n \in Names, k \in Keys :
    LET r == emplace(table[n], k)
    IN  /\ Values(r.table) = Values(table[n]) \cup {k}
        /\ r.table.entries[r.at].value = k /\ r.at < end(r.table)
        /\ r.inserted <=> k \notin Values(table[n])

\* Reserving, rehashing and shrinking, in which an entry of the old array may make the
\* new one grow again, lose and duplicate nothing; so do copies and lists, and erasing
\* a key takes that key alone (rehash, reserve, the constructors, operator=, erase).
ContentsKept ==
  \A n \in Names :
    LET t == table[n]
        Same(u) == Values(u) = Values(t) /\ u.size = t.size
    IN  /\ \A num \in Reserves : Same(reserve(t, num)) /\ Same(rehash(t, num))
        /\ Same(rehash_for_other_container(t, t)) /\ Same(copied(t))
        /\ \A other \in Names \ {n} : Same(assigned(table[other], t))
        /\ \A k \in Keys : Values(erase(t, k)) = Values(t) \ {k}
        /\ \A elems \in Lists, num \in Reserves : Values(constructed(elems, num)) = Range(elems)

\* Erasing an entry returns the element that came after it, so a loop that erases while
\* it iterates misses none (erase of an iterator, convertible_to_iterator).
EraseReturnsNext ==
  \A n \in Names :
    LET t == table[n]
    IN  \A i \in Positions(t) \ {end(t)} :
          LET r == eraseAt(t, i)
          IN  r.table.entries[r.at].value = t.entries[Forward(t, i + 1)].value

\* Erasing a range removes the elements in it and no other, leaves each entry where a
\* search finds it, and returns the element at its end (erase of a range).
RangeErased ==
  \A n \in Names :
    LET t == table[n]
    IN  \A from, to \in Positions(t) :
          from <= to =>
            LET r == eraseRange(t, from, to)
                gone == {t.entries[i].value : i \in {j \in Positions(t) : from <= j /\ j < to}}
            IN  /\ Values(r.table) = Values(t) \ gone
                /\ \A v \in Values(r.table) : find(r.table, v) # end(r.table)
                /\ r.table.entries[r.at].value = t.entries[to].value

\* Two tables are equal exactly if they hold the same keys, whatever their sizes and
\* histories (operator==).
EqualIffSame ==
  \A n, other \in Names :
    Equal(table[n], table[other]) <=> Values(table[n]) = Values(table[other])
=============================================================================
