------------------------------ MODULE TTLCache ------------------------------
(***************************************************************************)
(* TTLCache (storage/cache.py): an LRU cache whose entries expire, used by  *)
(* several threads, and the sweep of CacheRegistry.  Every operation holds  *)
(* the lock, but for two: set() reads the clock before it takes the lock,   *)
(* get_or_set() calls its factory between a get() and a set().  The values  *)
(* and the statistics are left out.                                        *)
(***************************************************************************)
EXTENDS Naturals, Sequences, FiniteSets, SequencesExt, Filters

CONSTANTS
  Keys, Threads,
  MaxSize,    \* _max_size
  Ttls,       \* _default_ttl and what set() is called with
  MaxClock,   \* bound of the clock
  MaxOps      \* bound: how many operations there are

VARIABLES
  time,
  store,     \* _store: the entries from the least to the most recently used
  pending,   \* pending[t]: the set() or get_or_set() thread t is in
  sweeping,  \* the registry's sweep thread runs
  ops,
  (* what the properties remember *)
  since      \* since[k]: the keys used after k was; k itself: k was dropped, or never used

vars == <<time, store, pending, sweeping, ops, since>>

\* A thread in set() knows when the entry will expire, one in its factory does not yet.
NoWork == [key |-> "none", expires |-> 0]

Init ==
  /\ time = 0 /\ store = <<>> /\ sweeping = FALSE /\ ops = 0
  /\ pending = [t \in Threads |-> NoWork]
  /\ since = [k \in Keys |-> {k}]

Count == ops < MaxOps /\ ops' = ops + 1

KeysOf(s) == {s[i].key : i \in DOMAIN s}
Entry(k) == CHOOSE e \in ToSet(store) : e.key = k
Without(s, ks) == Kept(s, {e \in ToSet(s) : e.key \notin ks})

\* CacheEntry.is_expired
Expired(e) == time > e.expires
Alive(k) == k \in KeysOf(store) /\ ~Expired(Entry(k))

\* k is used now ...
Used(k) == [j \in Keys |-> IF j = k THEN {} ELSE since[j] \cup {k}]
\* ... or its entry is removed for another reason than the size of the cache.
Dropped(ks) == [j \in Keys |-> IF j \in ks THEN {j} ELSE since[j]]

Tick ==
  /\ time < MaxClock
  /\ time' = time + 1
  /\ UNCHANGED <<store, pending, sweeping, ops, since>>

\* Mutant: a hit leaves the entry where it is.
TouchedNot(k) == store

\* move_to_end()
Touched(k) == Append(Without(store, {k}), Entry(k))

\* get(): a hit moves the entry to the end, an expired entry is removed.
Get(k) ==
  IF Alive(k) THEN store' = Touched(k) /\ since' = Used(k)
  ELSE store' = Without(store, {k}) /\ since' = Dropped({k})

DoGet(k) ==
  /\ Count /\ Get(k)
  /\ UNCHANGED <<time, pending, sweeping>>

\* A full cache gives up its least recently used entry, expired or not.
Room == IF Len(store) >= MaxSize THEN Tail(store) ELSE store

\* set(): the clock is read ...
SetBegins(t, k) ==
  /\ Count
  /\ pending[t] = NoWork
  /\ \E ttl \in Ttls : pending' = [pending EXCEPT ![t] = [key |-> k, expires |-> time + ttl]]
  /\ UNCHANGED <<time, store, sweeping, since>>

\* ... and then the lock is taken.
Set(t) ==
  /\ pending[t].expires > 0
  /\ LET k == pending[t].key
     IN  /\ store' = Append(IF k \in KeysOf(store) THEN Without(store, {k}) ELSE Room,
                            pending[t])
         /\ since' = Used(k)
  /\ pending' = [pending EXCEPT ![t] = NoWork]
  /\ UNCHANGED <<time, sweeping, ops>>

\* get_or_set(): a miss, and the factory begins; the lock is free meanwhile ...
Miss(t, k) ==
  /\ Count
  /\ pending[t] = NoWork /\ ~Alive(k)
  /\ Get(k)
  /\ pending' = [pending EXCEPT ![t] = [key |-> k, expires |-> 0]]
  /\ UNCHANGED <<time, sweeping>>

\* ... and set() is called with what it returned.
Computed(t) ==
  /\ pending[t] # NoWork /\ pending[t].expires = 0
  /\ \E ttl \in Ttls : pending' = [pending EXCEPT ![t].expires = time + ttl]
  /\ UNCHANGED <<time, store, sweeping, ops, since>>

\* delete(), and invalidate_prefix() or clear() for more keys than one; what is
\* being computed comes back after it.
Delete(ks) ==
  /\ Count
  /\ store' = Without(store, ks)
  /\ since' = Dropped(ks)
  /\ UNCHANGED <<time, pending, sweeping>>

\* has(): an expired entry is removed, another is not moved.
Has(k) ==
  /\ Count
  /\ IF Alive(k) THEN UNCHANGED <<store, since>>
     ELSE store' = Without(store, {k}) /\ since' = Dropped({k})
  /\ UNCHANGED <<time, pending, sweeping>>

\* CacheRegistry.start() and stop()
StartSweeper ==
  /\ Count
  /\ sweeping' = ~sweeping
  /\ UNCHANGED <<time, store, pending, since>>

\* sweep_expired()
Sweep ==
  /\ sweeping
  /\ LET old == {e.key : e \in {d \in ToSet(store) : Expired(d)}}
     IN  old # {} /\ store' = Without(store, old) /\ since' = Dropped(old)
  /\ UNCHANGED <<time, pending, sweeping, ops>>

Next ==
  \/ Tick \/ Sweep \/ StartSweeper
  \/ \E k \in Keys : DoGet(k) \/ Has(k) \/ Delete({k})
  \/ Delete(Keys)
  \/ \E t \in Threads : Computed(t) \/ Set(t) \/ \E k \in Keys : Miss(t, k) \/ SetBegins(t, k)

Spec == Init /\ [][Next]_vars

-----------------------------------------------------------------------------
(* Properties *)

\* "LRU eviction of least-recently-used": an entry is there until as many other
\* keys as the cache has places were used after it, or it was deleted, or found
\* expired.
RecentlyUsedKept ==
  /\ Len(store) <= MaxSize
  /\ \A k \in Keys : k \notin since[k] /\ Cardinality(since[k]) < MaxSize => k \in KeysOf(store)

-----------------------------------------------------------------------------
(* What makes RecentlyUsedKept inductive. *)

CacheEntries == [key : Keys, expires : Nat]

\* Every variable keeps its type, and the cache its bound.
TypeOK ==
  /\ time \in Nat /\ ops \in Nat /\ sweeping \in BOOLEAN
  /\ store \in Seq(CacheEntries) /\ Len(store) <= MaxSize
  /\ pending \in [Threads -> CacheEntries \cup {NoWork}]
  /\ since \in [Keys -> SUBSET Keys]

\* A key has one entry.
Distinct(s) == \A i, j \in 1..Len(s) : i < j => s[i].key # s[j].key

\* The key k has an entry in s, and those after it are of the keys us.
Followed(s, k, us) ==
  \E i \in 1..Len(s) : s[i].key = k /\ \A j \in i + 1..Len(s) : s[j].key \in us

\* The order of the entries is that of their last use: behind the entry of a key stand
\* keys used since, unless there were enough of them to push it out.
InOrderOfUse ==
  \A k \in Keys : k \notin since[k] =>
    Cardinality(since[k]) >= MaxSize \/ Followed(store, k, since[k])

IInv == TypeOK /\ Distinct(store) /\ InOrderOfUse
=============================================================================
