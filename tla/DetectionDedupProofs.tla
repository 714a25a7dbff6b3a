------------------------ MODULE DetectionDedupProofs ------------------------
(***************************************************************************)
(* Proofs about DetectionDedup: for any number of workers, keys, reports,   *)
(* any window and any size of the cache, its safety properties hold.        *)
(***************************************************************************)
EXTENDS DetectionDedup, FiniteSetTheorems, SequenceTheorems, TLAPS

Finding == [key : Keys, sure : BOOLEAN]

\* A busy worker has a finding in hand, which is the first of its list.
LEMMA InHand ==
  ASSUME TypeOK, NEW w \in Workers, pc[w] # "idle"
  PROVE  /\ todo[w] \in Seq(Finding) /\ todo[w] # <<>>
         /\ Head(todo[w]) \in Finding /\ key(w) \in Keys
         /\ Tail(todo[w]) \in Seq(Finding)
         /\ Len(todo[w]) \in Nat /\ Len(todo[w]) >= 1 /\ todo[w][1].key = key(w)
<1>1. todo[w] \in Seq(Finding) /\ todo[w] # <<>>
  BY DEF TypeOK, Finding
<1>2. Head(todo[w]) \in Finding /\ Tail(todo[w]) \in Seq(Finding) /\ Head(todo[w]) = todo[w][1]
  BY <1>1, HeadTailProperties
<1>3. Len(todo[w]) \in Nat /\ Len(todo[w]) >= 1
  BY <1>1, EmptySeq, LenProperties
<1> QED BY <1>1, <1>2, <1>3 DEF key, Finding

\* What NextFinding does to the types of the list and the program counter.
LEMMA NextFindingType ==
  ASSUME TypeOK, NEW w \in Workers, pc[w] # "idle", NextFinding(w)
  PROVE  /\ todo' \in [Workers -> Seq(Finding)]
         /\ pc' \in [Workers -> {"idle", "look", "refresh", "insert", "evict", "scan", "delete",
                                 "publish"}]
         /\ \A v \in Workers : pc'[v] = "idle" <=> todo'[v] = <<>>
         /\ \A v \in Workers : pc'[v] = "delete" => pc[v] = "delete"
         /\ \A v \in Workers : v # w => pc'[v] = pc[v] /\ todo'[v] = todo[v]
         /\ pc'[w] \in {"idle", "look"}
<1>1. Tail(todo[w]) \in Seq(Finding)
  BY InHand
<1> QED BY <1>1 DEF NextFinding, TypeOK, Finding

-----------------------------------------------------------------------------
(* Types *)

LEMMA TypeInit == Init => TypeOK
<1> SUFFICES ASSUME Init PROVE TypeOK
  OBVIOUS
<1>1. current \in [Workers -> BOOLEAN]
  BY Zenon DEF Init
<1>2. MaxTime \in Nat /\ MaxEvents \in Nat
  BY DedupAssumption
<1> QED BY <1>1, <1>2 DEF Init, TypeOK

LEMMA TypeStep == TypeOK /\ IsFiniteSet(cached) /\ [Next]_vars => TypeOK'
<1> SUFFICES ASSUME TypeOK, IsFiniteSet(cached), [Next]_vars PROVE TypeOK'
  OBVIOUS
<1> USE DEF workVars, cacheVars, pastVars
<1>a. MaxTime \in Nat /\ MaxEvents \in Nat /\ NoKey \notin Keys
  BY DedupAssumption
<1>1. CASE Tick
  <2>1. clock' \in 0..MaxTime
    BY <1>1, <1>a DEF Tick, TypeOK
  <2>2. UNCHANGED <<events, workVars, cacheVars, pastVars>>
    BY <1>1 DEF Tick
  <2> QED BY <2>1, <2>2 DEF TypeOK
<1>2. ASSUME NEW w \in Workers, NEW r \in Reports, ProcessEvent(w, r) PROVE TypeOK'
  <2>1. r \in Seq(Finding)
    BY DedupAssumption DEF Finding
  <2>2. todo' \in [Workers -> Seq(Finding)]
    BY <1>2, <2>1 DEF ProcessEvent, TypeOK, Finding
  <2>3. events' \in 0..MaxEvents
    BY <1>2, <1>a DEF ProcessEvent, TypeOK
  <2>4. /\ pc' = [pc EXCEPT ![w] = "look"] /\ todo' = [todo EXCEPT ![w] = r] /\ r # <<>>
        /\ UNCHANGED <<clock, current, size, oldest, cacheVars, pastVars>>
    BY <1>2 DEF ProcessEvent
  <2> QED BY <2>2, <2>3, <2>4 DEF TypeOK, Finding
<1>3. ASSUME NEW w \in Workers, TooWeak(w) PROVE TypeOK'
  BY <1>3, NextFindingType DEF TooWeak, TypeOK, Finding
<1>4. ASSUME NEW w \in Workers, LookUpNew(w) PROVE TypeOK'
  BY <1>4 DEF LookUpNew, TypeOK
<1>5. ASSUME NEW w \in Workers, LookUpDuplicate(w) PROVE TypeOK'
  <2>1. current' \in [Workers -> BOOLEAN]
    BY <1>5, Zenon DEF LookUpDuplicate, TypeOK
  <2> QED BY <1>5, <2>1 DEF LookUpDuplicate, TypeOK
<1>6. ASSUME NEW w \in Workers, Refresh(w) PROVE TypeOK'
  <2>1. current' \in [Workers -> BOOLEAN]
    BY <1>6, Zenon DEF Refresh, TypeOK
  <2>2. lastSeen' \in [Keys -> 0..MaxTime] /\ key(w) \in Keys
    BY <1>6, InHand DEF Refresh, TypeOK
  <2> QED BY <1>6, <2>1, <2>2, NextFindingType DEF Refresh, TypeOK, Finding
<1>7. ASSUME NEW w \in Workers, Insert(w) PROVE TypeOK'
  <2>1. current' \in [Workers -> BOOLEAN]
    BY <1>7, Zenon DEF Insert, Displace
  <2>2. key(w) \in Keys
    BY <1>7, InHand DEF Insert
  <2>3. shown' \in [Workers -> [Keys -> Nat]]
    BY <1>7, <2>2 DEF Insert, TypeOK
  <2> QED BY <1>7, <2>1, <2>2, <2>3 DEF Insert, TypeOK
<1>8. ASSUME NEW w \in Workers, Fits(w) PROVE TypeOK'
  BY <1>8 DEF Fits, TypeOK
<1>9. ASSUME NEW w \in Workers, ScanBegin(w) PROVE TypeOK'
  BY <1>9, FS_CardinalityType DEF ScanBegin, TypeOK
<1>10. ASSUME NEW w \in Workers, ScanEnd(w) PROVE TypeOK'
  BY <1>10, <1>a DEF ScanEnd, TypeOK
<1>11. ASSUME NEW w \in Workers, Delete(w) PROVE TypeOK'
  <2>1. current' \in [Workers -> BOOLEAN]
    BY <1>11, Zenon DEF Delete, Displace
  <2>2. shown' \in [Workers -> [Keys -> Nat]]
    BY <1>11 DEF Delete, TypeOK
  <2> QED BY <1>11, <2>1, <2>2 DEF Delete, TypeOK
<1>12. ASSUME NEW w \in Workers, Raise(w) PROVE TypeOK'
  <2>1. pc[w] # "idle"
    BY <1>12 DEF Raise
  <2>2. \A i \in 1..Len(todo[w]) : todo[w][i].key \in Keys
    <3>1. todo[w] \in Seq(Finding)
      BY <2>1, InHand
    <3>2. \A i \in 1..Len(todo[w]) : todo[w][i] \in Finding
      BY <3>1, ElementOfSeq
    <3> QED BY <3>2 DEF Finding
  <2>3. lost' \subseteq Keys
    BY <1>12, <2>2 DEF Raise, TypeOK
  <2>4. todo' \in [Workers -> Seq(Finding)]
    <3>1. todo \in [Workers -> Seq(Finding)]
      BY DEF TypeOK, Finding
    <3>2. <<>> \in Seq(Finding)
      BY EmptySeq
    <3> QED BY <1>12, <3>1, <3>2 DEF Raise
  <2>5. /\ pc' = [pc EXCEPT ![w] = "idle"] /\ todo' = [todo EXCEPT ![w] = <<>>]
        /\ size' = [size EXCEPT ![w] = 0] /\ oldest' = [oldest EXCEPT ![w] = NoKey]
        /\ raised' = raised + 1
        /\ UNCHANGED <<clock, events, current, cacheVars, shown, published, failed, silenced>>
    BY <1>12 DEF Raise
  <2>6. /\ todo' \in [Workers -> Seq([key : Keys, sure : BOOLEAN])]
        /\ \A v \in Workers : pc'[v] = "idle" <=> todo'[v] = <<>>
        /\ \A v \in Workers : pc'[v] = "delete" => oldest'[v] # NoKey
    BY <2>4, <2>5 DEF TypeOK, Finding
  <2> HIDE DEF Finding
  <2>7. /\ pc' \in [Workers -> {"idle", "look", "refresh", "insert", "evict", "scan", "delete",
                               "publish"}]
        /\ size' \in [Workers -> Nat] /\ oldest' \in [Workers -> Keys \cup {NoKey}]
        /\ raised' \in Nat
    BY <2>5 DEF TypeOK
  <2>8. UNCHANGED <<clock, events, current, cached, lastSeen, shown, published, failed, silenced>>
    BY <2>5
  <2> QED BY <2>3, <2>6, <2>7, <2>8 DEF TypeOK
<1>13. ASSUME NEW w \in Workers, EmitThreat(w) PROVE TypeOK'
  <2>1. pc[w] # "idle" /\ NextFinding(w)
    BY <1>13 DEF EmitThreat, Publish, PublishFails
  <2>2. key(w) \in Keys
    BY <2>1, InHand
  <2>3. published' \subseteq Keys /\ failed' \subseteq Keys
    BY <1>13, <2>2 DEF EmitThreat, Publish, PublishFails, TypeOK
  <2>4. /\ UNCHANGED <<clock, events, current, size, oldest, cacheVars>>
        /\ UNCHANGED <<raised, shown, lost, silenced>>
    BY <1>13 DEF EmitThreat, Publish, PublishFails
  <2> QED BY <2>1, <2>3, <2>4, NextFindingType DEF TypeOK, Finding
<1>14. CASE UNCHANGED vars
  BY <1>14 DEF vars, TypeOK
<1> QED
  BY <1>1, <1>2, <1>3, <1>4, <1>5, <1>6, <1>7, <1>8, <1>9, <1>10, <1>11, <1>12, <1>13, <1>14
  DEF Next, ShouldEmit

-----------------------------------------------------------------------------
(* The size of the cache *)

LEMMA EvictingFinite == IsFiniteSet(Evicting) /\ Cardinality(Evicting) \in Nat
BY DedupAssumption, FS_Subset, FS_CardinalityType DEF Evicting

\* Every action leaves the balance of entries, evictions and errors within bounds.
LEMMA SizeStep ==
  TypeOK /\ IsFiniteSet(cached) /\ CacheBounded /\ [Next]_vars
    => IsFiniteSet(cached)' /\ CacheBounded'
<1> SUFFICES ASSUME TypeOK, IsFiniteSet(cached), CacheBounded, [Next]_vars
             PROVE  IsFiniteSet(cached)' /\ CacheBounded'
  OBVIOUS
<1> USE DEF workVars, cacheVars, pastVars
<1>a. /\ Cardinality(cached) \in Nat /\ IsFiniteSet(Evicting) /\ Cardinality(Evicting) \in Nat
      /\ raised \in Nat /\ CacheMax \in Nat
  BY EvictingFinite, FS_CardinalityType, DedupAssumption DEF TypeOK
<1>1. ASSUME cached' = cached, Evicting' = Evicting, raised' = raised
      PROVE  IsFiniteSet(cached)' /\ CacheBounded'
  BY <1>1 DEF CacheBounded
<1>2. ASSUME NEW w \in Workers, Insert(w) PROVE IsFiniteSet(cached)' /\ CacheBounded'
  <2>1. Evicting' = Evicting \cup {w} /\ w \notin Evicting
    BY <1>2 DEF Insert, Evicting, TypeOK
  <2>2. Cardinality(Evicting') = Cardinality(Evicting) + 1
    BY <2>1, <1>a, FS_AddElement
  <2>3. /\ IsFiniteSet(cached')
        /\ Cardinality(cached') \in {Cardinality(cached), Cardinality(cached) + 1}
    BY <1>2, FS_AddElement DEF Insert
  <2> QED BY <1>2, <1>a, <2>2, <2>3 DEF Insert, CacheBounded
<1>3. ASSUME NEW w \in Workers, Fits(w) PROVE IsFiniteSet(cached)' /\ CacheBounded'
  <2>1. cached' = cached /\ raised' = raised /\ Cardinality(cached) <= CacheMax
    BY <1>3 DEF Fits
  <2>2. Cardinality(Evicting') \in Nat
    <3>1. Evicting' \subseteq Workers
      BY DEF Evicting
    <3> QED BY <3>1, DedupAssumption, FS_Subset, FS_CardinalityType
  <2> QED BY <1>a, <2>1, <2>2 DEF CacheBounded
<1>4. ASSUME NEW w \in Workers, Delete(w) PROVE IsFiniteSet(cached)' /\ CacheBounded'
  <2>1. Evicting' = Evicting \ {w} /\ w \in Evicting
    BY <1>4 DEF Delete, Evicting, TypeOK
  <2>2. Cardinality(Evicting') = Cardinality(Evicting) - 1
    BY <2>1, <1>a, FS_RemoveElement
  <2>3. IsFiniteSet(cached') /\ Cardinality(cached') = Cardinality(cached) - 1
    BY <1>4, FS_RemoveElement DEF Delete
  <2> QED BY <1>4, <1>a, <2>2, <2>3 DEF Delete, CacheBounded
<1>5. ASSUME NEW w \in Workers, Raise(w) PROVE IsFiniteSet(cached)' /\ CacheBounded'
  <2>1. Evicting' = Evicting \ {w} /\ w \in Evicting
    BY <1>5 DEF Raise, Evicting, TypeOK
  <2>2. Cardinality(Evicting') = Cardinality(Evicting) - 1
    BY <2>1, <1>a, FS_RemoveElement
  <2> QED BY <1>5, <1>a, <2>2 DEF Raise, CacheBounded
<1>6. ASSUME NEW w \in Workers,
             \/ TooWeak(w) \/ LookUpNew(w) \/ LookUpDuplicate(w) \/ Refresh(w)
             \/ ScanBegin(w) \/ ScanEnd(w) \/ EmitThreat(w)
      PROVE  cached' = cached /\ Evicting' = Evicting /\ raised' = raised
  BY <1>6 DEF TooWeak, LookUpNew, LookUpDuplicate, Refresh, ScanBegin, ScanEnd, EmitThreat,
              Publish, PublishFails, NextFinding, Evicting, TypeOK
<1>7. ASSUME NEW w \in Workers, NEW r \in Reports, ProcessEvent(w, r)
      PROVE  cached' = cached /\ Evicting' = Evicting /\ raised' = raised
  BY <1>7 DEF ProcessEvent, Evicting, TypeOK
<1>8. ASSUME Tick \/ UNCHANGED vars
      PROVE  cached' = cached /\ Evicting' = Evicting /\ raised' = raised
  BY <1>8 DEF Tick, vars, Evicting
<1> QED
  BY <1>1, <1>2, <1>3, <1>4, <1>5, <1>6, <1>7, <1>8 DEF Next, ShouldEmit

-----------------------------------------------------------------------------
(* What silences a threat *)

\* Whoever is handled stays handled, and a worker's own key after it inserted.
LEMMA HandledStays ==
  ASSUME TypeOK, [Next]_vars, NEW k \in Keys, Handled(k)
  PROVE  Handled(k)'
<1> USE DEF workVars, cacheVars, pastVars
<1>1. published \subseteq published' /\ failed \subseteq failed' /\ lost \subseteq lost'
  BY DEF Next, vars, ShouldEmit, EmitThreat, Tick, ProcessEvent, TooWeak, LookUpNew,
         LookUpDuplicate, Refresh, Insert, Fits, ScanBegin, ScanEnd, Delete, Raise, Publish,
         PublishFails
<1>2. CASE k \in published \cup failed \cup lost
  BY <1>1, <1>2 DEF Handled
<1>3. CASE InProgress(k)
  <2>1. PICK v \in Workers : pc[v] \in {"evict", "scan", "delete", "publish"} /\ key(v) = k
    BY <1>3 DEF InProgress
  <2>2. CASE pc'[v] \in {"evict", "scan", "delete", "publish"} /\ todo'[v] = todo[v]
    BY <2>1, <2>2 DEF Handled, InProgress, key
  <2>3. CASE Raise(v)
    <3>1. 1 \in 1..Len(todo[v]) /\ todo[v][1].key = k
      BY <2>1, InHand
    <3> QED BY <3>1, <2>3 DEF Raise, Handled
  <2>4. CASE EmitThreat(v)
    BY <2>1, <2>4 DEF EmitThreat, Publish, PublishFails, Handled
  <2>5. ASSUME NEW w \in Workers, w # v, ShouldEmit(w) \/ EmitThreat(w)
        PROVE  pc'[v] = pc[v] /\ todo'[v] = todo[v]
    BY <2>5 DEF ShouldEmit, EmitThreat, TooWeak, LookUpNew, LookUpDuplicate, Refresh, Insert,
                Fits, ScanBegin, ScanEnd, Delete, Raise, Publish, PublishFails, NextFinding, TypeOK
  <2>6. CASE ShouldEmit(v)
    BY <2>1, <2>2, <2>3, <2>6
    DEF ShouldEmit, TooWeak, LookUpNew, LookUpDuplicate, Refresh, Insert, Fits, ScanBegin,
        ScanEnd, Delete, TypeOK
  <2>7. ASSUME NEW w \in Workers, NEW r \in Reports, ProcessEvent(w, r)
        PROVE  pc'[v] = pc[v] /\ todo'[v] = todo[v]
    BY <2>1, <2>7 DEF ProcessEvent, TypeOK
  <2>8. CASE Tick \/ UNCHANGED vars
    BY <2>1, <2>2, <2>8 DEF Tick, vars
  <2> QED
    BY <2>1, <2>2, <2>4, <2>5, <2>6, <2>7, <2>8 DEF Next
<1> QED BY <1>2, <1>3 DEF Handled

LEMMA HandledStep ==
  TypeOK /\ RecordsHandled /\ SilencedBehindAnother /\ [Next]_vars
    => (RecordsHandled /\ SilencedBehindAnother)'
<1> SUFFICES ASSUME TypeOK, RecordsHandled, SilencedBehindAnother, [Next]_vars
             PROVE  (RecordsHandled /\ SilencedBehindAnother)'
  OBVIOUS
<1> USE DEF workVars, cacheVars, pastVars
<1>1. \A k \in cached' : Handled(k)'
  <2>1. ASSUME NEW w \in Workers, Insert(w) PROVE \A k \in cached' : Handled(k)'
    <3>1. key(w)' = key(w) /\ InProgress(key(w))'
      BY <2>1 DEF Insert, InProgress, key, TypeOK
    <3>2. Handled(key(w))'
      BY <3>1 DEF Handled, InProgress
    <3> QED BY <2>1, <3>1, <3>2, HandledStays DEF Insert, RecordsHandled, TypeOK
  <2>2. (\E w \in Workers : Insert(w)) \/ cached' \subseteq cached
    BY DEF Next, vars, ShouldEmit, EmitThreat, Tick, ProcessEvent, TooWeak, LookUpNew,
           LookUpDuplicate, Refresh, Fits, ScanBegin, ScanEnd, Delete, Raise, Publish, PublishFails
  <2> QED BY <2>1, <2>2, HandledStays DEF RecordsHandled, TypeOK
<1>2. \A w \in Workers : pc'[w] = "refresh" => Handled(key(w))'
  <2>1. SUFFICES ASSUME NEW w \in Workers, pc'[w] = "refresh" PROVE Handled(key(w))'
    OBVIOUS
  <2>2. \/ LookUpDuplicate(w)
        \/ pc[w] = "refresh" /\ todo'[w] = todo[w]
    BY <2>1 DEF Next, vars, ShouldEmit, EmitThreat, Tick, ProcessEvent, TooWeak, LookUpNew,
                LookUpDuplicate, Refresh, Insert, Fits, ScanBegin, ScanEnd, Delete, Raise, Publish,
                PublishFails, NextFinding, TypeOK
  <2>3. pc[w] # "idle" /\ todo'[w] = todo[w] /\ Handled(key(w))
    BY <2>2 DEF LookUpDuplicate, Recent, RecordsHandled
  <2> QED BY <2>3, InHand, HandledStays DEF key
<1>3. \A k \in silenced' : Handled(k)'
  <2>1. \A k \in silenced' : k \in silenced \/ \E w \in Workers : pc[w] = "refresh" /\ k = key(w)
    BY DEF Next, vars, ShouldEmit, EmitThreat, Tick, ProcessEvent, TooWeak, LookUpNew,
           LookUpDuplicate, Refresh, Insert, Fits, ScanBegin, ScanEnd, Delete, Raise, Publish,
           PublishFails
  <2>2. \A k \in silenced' : k \in Keys /\ Handled(k)
    BY <2>1, InHand DEF SilencedBehindAnother, RecordsHandled, TypeOK
  <2> QED BY <2>2, HandledStays
<1> QED BY <1>1, <1>2, <1>3 DEF RecordsHandled, SilencedBehindAnother

-----------------------------------------------------------------------------
(* Repetitions *)

\* Once decided upon, a threat is in the cache until it is evicted, so that the
\* worker that comes to insert it again has waited for a window.
LEMMA ShownStep == TypeOK /\ ShownCached /\ [Next]_vars => ShownCached'
<1> SUFFICES ASSUME TypeOK, ShownCached, [Next]_vars PROVE ShownCached'
  OBVIOUS
<1> USE DEF workVars, cacheVars, pastVars
<1>a. Window \in Nat
  BY DedupAssumption
<1>b. /\ clock \in Nat /\ lastSeen \in [Keys -> Nat] /\ shown \in [Workers -> [Keys -> Nat]]
      /\ pc \in [Workers -> {"idle", "look", "refresh", "insert", "evict", "scan", "delete",
                             "publish"}]
  BY DedupAssumption DEF TypeOK
<1>c. \A w \in Workers : pc[w] # "idle" => key(w) \in Keys
  BY InHand
<1>1. CASE Tick
  <2>1. clock' = clock + 1 /\ UNCHANGED <<cached, lastSeen, shown, pc, todo>>
    BY <1>1 DEF Tick
  <2>2. \A w \in Workers : key(w)' = key(w)
    BY <2>1 DEF key
  <2> QED BY <1>a, <1>b, <1>c, <2>1, <2>2 DEF ShownCached
<1>2. ASSUME NEW w \in Workers, Insert(w) PROVE ShownCached'
  <2>1. key(w) \in Keys /\ \A v \in Workers : key(v)' = key(v)
    BY <1>2, <1>c DEF Insert, key
  <2>2. /\ cached' = cached \cup {key(w)} /\ clock' = clock
        /\ lastSeen' = [lastSeen EXCEPT ![key(w)] = clock]
        /\ shown' = [shown EXCEPT ![w][key(w)] = 1 + clock]
        /\ pc' = [pc EXCEPT ![w] = "evict"]
    BY <1>2 DEF Insert
  <2>3. \A k \in Keys : lastSeen'[k] <= clock'
    BY <1>b, <2>2 DEF ShownCached
  <2>4. ASSUME NEW v \in Workers, NEW k \in Keys, shown'[v][k] # 0
        PROVE  k \in cached' /\ shown'[v][k] <= 1 + lastSeen'[k]
    <3>1. CASE v = w /\ k = key(w)
      BY <1>b, <2>1, <2>2, <3>1
    <3>2. CASE ~(v = w /\ k = key(w))
      <4>1. shown'[v][k] = shown[v][k]
        BY <1>b, <2>1, <2>2, <3>2
      <4>2. k \in cached /\ shown[v][k] <= 1 + lastSeen[k] /\ lastSeen[k] <= clock
        BY <2>4, <4>1 DEF ShownCached
      <4> QED BY <1>b, <2>1, <2>2, <4>1, <4>2
    <3> QED BY <3>1, <3>2
  <2>5. \A v \in Workers : pc'[v] = "insert" => v # w /\ pc[v] = "insert" /\ shown'[v] = shown[v]
    BY <1>b, <2>2
  <2> HIDE DEF key
  <2> QED BY <2>1, <2>2, <2>3, <2>4, <2>5 DEF ShownCached
<1>3. ASSUME NEW w \in Workers, Delete(w) PROVE ShownCached'
  <2>1. \A v \in Workers : key(v)' = key(v)
    BY <1>3 DEF Delete, key
  <2>2. /\ UNCHANGED <<clock, lastSeen>> /\ cached' = cached \ {oldest[w]}
        /\ shown' = [v \in Workers |-> [shown[v] EXCEPT ![oldest[w]] = 0]]
        /\ pc' = [pc EXCEPT ![w] = "publish"]
    BY <1>3 DEF Delete
  <2>3. \A v \in Workers : pc'[v] = "insert" => pc[v] = "insert"
    BY <1>b, <2>2
  <2> QED BY <1>a, <1>b, <1>c, <2>1, <2>2, <2>3 DEF ShownCached
<1>4. ASSUME NEW w \in Workers, LookUpNew(w) PROVE ShownCached'
  <2>1. \A v \in Workers : key(v)' = key(v)
    BY <1>4 DEF LookUpNew, key
  <2>2. /\ UNCHANGED <<clock, lastSeen, cached, shown>> /\ pc' = [pc EXCEPT ![w] = "insert"]
        /\ key(w) \in Keys /\ ~Recent(key(w))
    BY <1>4, <1>c DEF LookUpNew
  <2>3. shown[w][key(w)] = 0 \/ 1 + clock - shown[w][key(w)] >= Window
    <3>1. CASE key(w) \notin cached
      BY <3>1, <2>2 DEF ShownCached
    <3>2. CASE clock - lastSeen[key(w)] >= Window
      BY <3>2, <1>a, <1>b, <2>2 DEF ShownCached
    <3> QED BY <1>a, <1>b, <2>2, <3>1, <3>2 DEF Recent
  <2> QED BY <1>b, <2>1, <2>2, <2>3 DEF ShownCached
<1>5. ASSUME NEW w \in Workers, Refresh(w) PROVE ShownCached'
  <2>1. /\ UNCHANGED <<clock, cached, shown>> /\ key(w) \in Keys
        /\ lastSeen' = [lastSeen EXCEPT ![key(w)] = IF current[w] THEN clock ELSE @]
    BY <1>5, <1>c DEF Refresh
  <2>2. \A v \in Workers : pc'[v] = "insert" => pc[v] = "insert" /\ key(v)' = key(v)
    BY <1>5 DEF Refresh, NextFinding, key, TypeOK
  <2>3. \A k \in Keys : lastSeen'[k] \in {lastSeen[k], clock}
    BY <1>b, <2>1
  <2>4. \A k \in Keys : lastSeen[k] <= lastSeen'[k] /\ lastSeen'[k] <= clock /\ lastSeen'[k] \in Nat
    BY <1>b, <2>3 DEF ShownCached
  <2> QED BY <1>b, <2>1, <2>2, <2>4 DEF ShownCached
<1>6. ASSUME NEW w \in Workers,
             \/ TooWeak(w) \/ LookUpDuplicate(w) \/ Fits(w) \/ ScanBegin(w)
             \/ ScanEnd(w) \/ Raise(w) \/ EmitThreat(w)
      PROVE  ShownCached'
  <2>1. /\ UNCHANGED <<clock, cached, lastSeen, shown>>
        /\ \A v \in Workers : pc'[v] = "insert" => pc[v] = "insert" /\ todo'[v] = todo[v]
    BY <1>6 DEF TooWeak, LookUpDuplicate, Fits, ScanBegin, ScanEnd, Raise, EmitThreat, Publish,
                PublishFails, NextFinding, TypeOK
  <2> QED BY <2>1 DEF ShownCached, key
<1>7. ASSUME NEW w \in Workers, NEW r \in Reports, ProcessEvent(w, r) PROVE ShownCached'
  BY <1>7 DEF ProcessEvent, ShownCached, key, TypeOK
<1>8. CASE UNCHANGED vars
  BY <1>8 DEF vars, ShownCached, key
<1> QED
  BY <1>1, <1>2, <1>3, <1>4, <1>5, <1>6, <1>7, <1>8 DEF Next, ShouldEmit

-----------------------------------------------------------------------------
LEMMA Inductive == Spec => []IInv
<1>1. Init => IInv
  <2> SUFFICES ASSUME Init PROVE IInv
    OBVIOUS
  <2>1. TypeOK
    BY TypeInit
  <2>2. IsFiniteSet(cached) /\ CacheBounded
    BY FS_EmptySet, EvictingFinite, DedupAssumption DEF Init, CacheBounded
  <2>3. SilencedBehindAnother /\ RecordsHandled /\ ShownCached
    BY DEF Init, SilencedBehindAnother, RecordsHandled, ShownCached
  <2> QED BY <2>1, <2>2, <2>3 DEF IInv
<1>2. IInv /\ [Next]_vars => IInv'
  BY TypeStep, SizeStep, HandledStep, ShownStep DEF IInv
<1> QED BY <1>1, <1>2, PTL DEF Spec

\* Every variable keeps its type.
THEOREM TypeCorrect == Spec => []TypeOK
<1>1. IInv => TypeOK
  BY DEF IInv
<1> QED BY <1>1, Inductive, PTL

\* What the cache holds beyond its limit is owed to evictions in progress or
\* to evictions that raised, however many workers run.
THEOREM CacheStaysBounded == Spec => []CacheBounded
<1>1. IInv => CacheBounded
  BY DEF IInv
<1> QED BY <1>1, Inductive, PTL

\* What is suppressed is suppressed behind a threat that was handled.
THEOREM NoSilenceAlone == Spec => []SilencedBehindAnother
<1>1. IInv => SilencedBehindAnother
  BY DEF IInv
<1> QED BY <1>1, Inductive, PTL

\* A worker does not decide twice within a window to emit one threat, unless
\* its record was evicted in between.
THEOREM WorkerSpacesRepeats == Spec => RepeatsSpaced
<1>1. IInv /\ [Next]_vars =>
        [\A w \in Workers :
           pc[w] = "insert" /\ pc'[w] = "evict" /\ shown[w][key(w)] # 0
             => 1 + clock - shown[w][key(w)] >= Window]_vars
  BY DEF IInv, ShownCached
<1> QED BY <1>1, Inductive, PTL DEF Spec, RepeatsSpaced
=============================================================================
