-------------------------- MODULE DetectionProofs --------------------------
(***************************************************************************)
(* Proofs about three of the detectors.                                     *)
(*                                                                         *)
(* Behavioral, for any number of workers, keys and events: no worker        *)
(* reports a key twice within the cooldown, although the test and the       *)
(* recording of _last_detection are two steps without a lock; a window is   *)
(* too full by at most one event for every other worker; and a burst of a   *)
(* key that has one tracker is reported.  IInv, HonestInv and BurstInv are  *)
(* inductive.                                                               *)
(*                                                                         *)
(* Correlation, the instance Chains, for any number of workers, any events, *)
(* and limits: the event that ends a chain is matched or within a cooldown, *)
(* and a match of the stuffing pattern rests on failures of the window.     *)
(* Chains!IInv is inductive; what MCDetection does to Chains is a step of   *)
(* it or leaves it alone (ChainsStep).                                      *)
(*                                                                         *)
(* RuleEngine, the instance Engine, for any rules files, settings and       *)
(* events: an enabled rule that holds for an event is named by the threat   *)
(* reported.  Engine!IInv is inductive: the active rules are those the file *)
(* and the settings choose, and the threat of the rules comes first.        *)
(***************************************************************************)
EXTENDS MCDetection, SequenceTheorems, FiniteSetTheorems, FilterProofs

-----------------------------------------------------------------------------
(* Sliding windows *)

\* Pruning keeps a window a sequence of times and does not make it longer.
LEMMA PruneType ==
  ASSUME NEW s \in Seq(Nat), NEW t \in Nat
  PROVE  Prune(s, t) \in Seq(Nat) /\ Len(Prune(s, t)) <= Len(s)
<1> DEFINE old == {i \in 1..Len(s) : \A j \in 1..i : s[j] + Window < t}
           c == Cardinality(old)
           n == Len(s)
<1>1. n \in Nat
  OBVIOUS
<1>2. IsFiniteSet(1..n)
  BY <1>1, FS_Interval
<1>3. old \in SUBSET (1..n)
  OBVIOUS
<1>4. IsFiniteSet(old)
  BY <1>2, <1>3, FS_Subset
<1>5. c \in Nat
  BY <1>4, FS_CardinalityType
<1>6. \A i \in c + 1 .. n : s[i] \in Nat
  <2> TAKE i \in c + 1 .. n
  <2>1. i \in 1..n
    BY <1>1, <1>5
  <2> QED BY <2>1, ElementOfSeq
<1>7. Prune(s, t) = SubSeq(s, c + 1, n)
  BY DEF Prune
<1> HIDE DEF c, n
<1>8. /\ SubSeq(s, c + 1, n) \in Seq(Nat)
      /\ Len(SubSeq(s, c + 1, n)) = IF c + 1 <= n THEN n - (c + 1) + 1 ELSE 0
  <2>1. c + 1 \in Int /\ n \in Int
    BY <1>1, <1>5
  <2> QED BY <1>6, <2>1, SubSeqProperties
<1>9. (IF c + 1 <= n THEN n - (c + 1) + 1 ELSE 0) <= n
  BY <1>1, <1>5
<1> QED BY <1>7, <1>8, <1>9 DEF n

\* A deque of limited length holds no more than its limit.
LEMMA PushType ==
  ASSUME NEW s \in Seq(Nat), Len(s) <= MaxHistory, NEW t \in Nat
  PROVE  Push(s, t) \in Seq(Nat) /\ Len(Push(s, t)) <= MaxHistory
<1> DEFINE r == Append(s, t)
<1>1. r \in Seq(Nat) /\ r # <<>> /\ Len(r) = Len(s) + 1
  BY AppendProperties
<1>2. Push(s, t) = IF Len(r) > MaxHistory THEN Tail(r) ELSE r
  BY DEF Push
<1>3. Tail(r) \in Seq(Nat) /\ Len(Tail(r)) = Len(r) - 1
  <2> HIDE DEF r
  <2> QED BY <1>1, HeadTailProperties
<1>4. Len(s) \in Nat /\ MaxHistory \in Nat
  BY BehavioralAssumption
<1> HIDE DEF r
<1> QED BY <1>1, <1>2, <1>3, <1>4

\* There are n numbers up to n.
LEMMA FirstNumbers ==
  ASSUME NEW n \in Nat
  PROVE  IsFiniteSet(1..n) /\ Cardinality(1..n) = n
BY FS_Interval

\* Pruning drops a prefix, and only times that are older than the window.
LEMMA PruneDrops ==
  ASSUME NEW s \in Seq(Nat), NEW t \in Nat
  PROVE  \E c \in 0..Len(s) : /\ Prune(s, t) = SubSeq(s, c + 1, Len(s))
                              /\ \A i \in 1..c : s[i] + Window < t
<1> DEFINE old == {i \in 1..Len(s) : \A j \in 1..i : s[j] + Window < t}
<1>1. PICK n \in Nat : n = Len(s)
  OBVIOUS
<1>2. IsFiniteSet(1..n) /\ Cardinality(1..n) = n
  BY FirstNumbers
<1>3. old \subseteq 1..n
  BY <1>1
<1>4. IsFiniteSet(old) /\ Cardinality(old) <= n /\ Cardinality(old) \in Nat
  BY <1>2, <1>3, FS_Subset, FS_CardinalityType
<1>5. PICK c \in Nat : c = Cardinality(old)
  BY <1>4
<1>6. c <= n
  BY <1>4, <1>5
<1>7. ASSUME NEW i \in 1..c PROVE i \in old
  <2> SUFFICES ASSUME i \notin old PROVE FALSE
    OBVIOUS
  <2>1. ASSUME NEW j \in old PROVE j \in 1..(i - 1)
    <3>1. j \in Nat /\ 1 <= j /\ i \in Nat /\ i \in 1..n
      BY <1>1, <1>3, <1>6
    <3>2. ~(i <= j)
      <4> SUFFICES ASSUME i <= j PROVE FALSE
        OBVIOUS
      <4>1. \A l \in 1..i : l \in 1..j
        BY <3>1
      <4>2. \A l \in 1..j : s[l] + Window < t
        OBVIOUS
      <4>3. i \in old
        BY <3>1, <4>1, <4>2, <1>1
      <4>4. QED
        BY <4>3
    <3>3. QED
      BY <3>1, <3>2
  <2>2. old \subseteq 1..(i - 1)
    BY <2>1
  <2>3. PICK m \in Nat : m = i - 1
    OBVIOUS
  <2>4. IsFiniteSet(1..m) /\ Cardinality(1..m) = m
    BY FirstNumbers
  <2>5. Cardinality(old) <= i - 1
    <3> HIDE DEF old
    <3> QED BY <2>2, <2>3, <2>4, FS_Subset
  <2>6. QED
    BY <2>5, <1>5
<1>8. Prune(s, t) = SubSeq(s, c + 1, Len(s))
  BY <1>5 DEF Prune
<1>9. \A i \in 1..c : s[i] + Window < t
  <2> TAKE i \in 1..c
  <2>1. i \in old /\ i \in 1..i
    BY <1>7
  <2> QED BY <2>1
<1>10. c \in 0..Len(s)
  BY <1>1, <1>6
<1> QED BY <1>8, <1>9, <1>10

\* What is left when the first c of a sequence of times go.
LEMMA Dropped ==
  ASSUME NEW s \in Seq(Nat), NEW c \in 0..Len(s)
  PROVE  LET r == SubSeq(s, c + 1, Len(s))
         IN  /\ r \in Seq(Nat) /\ Len(r) = Len(s) - c
             /\ \A i \in 1..Len(r) : c + i \in 1..Len(s) /\ r[i] = s[c + i]
<1>1. PICK n \in Nat : n = Len(s)
  OBVIOUS
<1>2. c \in Nat /\ c <= n /\ c + 1 \in Int /\ n \in Int
  BY <1>1
<1>3. \A i \in c + 1 .. n : s[i] \in Nat
  <2> TAKE i \in c + 1 .. n
  <2>1. i \in 1..n
    BY <1>2
  <2> QED BY <1>1, <2>1, ElementOfSeq
<1>4. PICK r : r = SubSeq(s, c + 1, n)
  OBVIOUS
<1>5. /\ r \in Seq(Nat)
      /\ Len(r) = IF c + 1 <= n THEN n - (c + 1) + 1 ELSE 0
      /\ \A i \in 1 .. n - (c + 1) + 1 : r[i] = s[c + 1 + i - 1]
  BY <1>2, <1>3, <1>4, SubSeqProperties
<1>6. Len(r) = n - c
  BY <1>2, <1>5
<1>7. ASSUME NEW i \in 1..Len(r) PROVE c + i \in 1..n /\ r[i] = s[c + i]
  <2>1. i \in 1 .. n - (c + 1) + 1 /\ c + 1 + i - 1 = c + i /\ c + i \in 1..n
    BY <1>2, <1>6
  <2> QED BY <1>5, <2>1
<1> QED BY <1>1, <1>4, <1>5, <1>6, <1>7

\* A push adds the new time at the end and drops the first when there is no room.
LEMMA PushDrops ==
  ASSUME NEW s \in Seq(Nat), NEW t \in Nat
  PROVE  LET r == Append(s, t)
         IN  /\ r \in Seq(Nat) /\ Len(r) = Len(s) + 1
             /\ \E c \in 0..1 : /\ Push(s, t) = SubSeq(r, c + 1, Len(r))
                                /\ c = 1 => Len(r) > MaxHistory
<1>1. PICK r : r = Append(s, t)
  OBVIOUS
<1>2. r \in Seq(Nat) /\ r # <<>> /\ Len(r) = Len(s) + 1
  BY <1>1, AppendProperties
<1>3. CASE Len(r) > MaxHistory
  <2>1. Push(s, t) = Tail(r)
    BY <1>1, <1>3 DEF Push
  <2>2. Tail(r) = SubSeq(r, 1 + 1, Len(r))
    BY <1>2
  <2> QED BY <1>1, <1>2, <1>3, <2>1, <2>2
<1>4. CASE ~(Len(r) > MaxHistory)
  <2>1. Push(s, t) = r
    BY <1>1, <1>4 DEF Push
  <2>2. r = SubSeq(r, 0 + 1, Len(r))
    BY <1>2
  <2> QED BY <1>1, <1>2, <2>1, <2>2
<1> QED BY <1>3, <1>4

\* So any window of a tracker may be pruned.
LEMMA WindowsPruned ==
  ASSUME TypeOK, NEW o \in Trackers, NEW t \in Nat
  PROVE  LET w == [window EXCEPT ![o] = Prune(@, t)]
         IN  w \in [Trackers -> Seq(Nat)] /\ \A p \in Trackers : Len(w[p]) <= MaxHistory
<1>1. window[o] \in Seq(Nat) /\ Len(window[o]) <= MaxHistory
  BY DEF TypeOK
<1>2. PICK x : x = Prune(window[o], t)
  OBVIOUS
<1>3. x \in Seq(Nat) /\ Len(x) <= Len(window[o])
  BY <1>1, <1>2, PruneType
<1>4. Len(x) <= MaxHistory
  <2>1. Len(x) \in Nat /\ Len(window[o]) \in Nat /\ MaxHistory \in Nat
    BY <1>1, <1>3, LenProperties, BehavioralAssumption
  <2> QED BY <1>1, <1>3, <2>1
<1>5. window \in [Trackers -> Seq(Nat)] /\ \A p \in Trackers : Len(window[p]) <= MaxHistory
  BY DEF TypeOK
<1>6. [window EXCEPT ![o] = Prune(@, t)] = [window EXCEPT ![o] = x]
  BY <1>2
<1>7. [window EXCEPT ![o] = x] \in [Trackers -> Seq(Nat)]
  BY <1>3, <1>5
<1>8. \A p \in Trackers : Len([window EXCEPT ![o] = x][p]) <= MaxHistory
  BY <1>4, <1>5
<1> QED BY <1>6, <1>7, <1>8

-----------------------------------------------------------------------------
(* Types *)

LEMMA TypeInit == Init => TypeOK
<1> SUFFICES ASSUME Init PROVE TypeOK
  OBVIOUS
<1>1. <<>> \in Seq(Nat) /\ Len(<<>>) = 0
  OBVIOUS
<1>2. window \in [Trackers -> Seq(Nat)] /\ \A o \in Trackers : Len(window[o]) <= MaxHistory
  <2>1. \A o \in Trackers : window[o] = <<>>
    BY DEF Init
  <2>2. 0 <= MaxHistory
    BY BehavioralAssumption
  <2> QED BY <1>1, <2>1, <2>2 DEF Init
<1>3. times \in [Keys -> Seq(Nat)]
  BY <1>1 DEF Init
<1>4. clock \in 0..MaxTime /\ events \in 0..MaxEvents
  BY BehavioralAssumption DEF Init
<1>5. crossed \in [Workers -> BOOLEAN]
  BY Zenon DEF Init
<1>6. /\ pc \in [Workers -> {"idle", "create", "stamp", "add", "count", "cooldown", "report"}]
      /\ key \in [Workers -> Keys \cup {None}] /\ mine \in [Workers -> Trackers \cup {None}]
      /\ \A w \in Workers : /\ pc[w] = "idle" <=> key[w] = None
                            /\ pc[w] \notin {"idle", "create"} => mine[w] # None
      /\ now \in [Workers -> Nat]
  BY DEF Init
<1>7. /\ tracker \in [Keys -> Trackers \cup {None}] /\ last \in [Keys -> Nat]
      /\ reached \in [Keys -> Nat] /\ split \subseteq Keys
      /\ alerted \in [Workers -> [Keys -> Nat]]
  BY DEF Init
<1> QED BY <1>2, <1>3, <1>4, <1>5, <1>6, <1>7 DEF TypeOK

\* What TypeOK says of the trackers' windows and of what the properties remember.
WindowsTyped ==
  /\ window \in [Trackers -> Seq(Nat)] /\ \A o \in Trackers : Len(window[o]) <= MaxHistory
  /\ times \in [Keys -> Seq(Nat)]

\* What it says of the rest.
RestTyped ==
  /\ clock \in 0..MaxTime /\ events \in 0..MaxEvents
  /\ tracker \in [Keys -> Trackers \cup {None}]
  /\ last \in [Keys -> Nat]
  /\ pc \in [Workers -> {"idle", "create", "stamp", "add", "count", "cooldown", "report"}]
  /\ key \in [Workers -> Keys \cup {None}] /\ mine \in [Workers -> Trackers \cup {None}]
  /\ \A w \in Workers : /\ pc[w] = "idle" <=> key[w] = None
                        /\ pc[w] \notin {"idle", "create"} => mine[w] # None
  /\ now \in [Workers -> Nat]
  /\ reached \in [Keys -> Nat] /\ split \subseteq Keys
  /\ alerted \in [Workers -> [Keys -> Nat]]

LEMMA TypeParts == TypeOK <=> WindowsTyped /\ RestTyped /\ crossed \in [Workers -> BOOLEAN]
BY Zenon DEF TypeOK, WindowsTyped, RestTyped

\* A worker past the look-up has a key and a tracker.
LEMMA AtWork ==
  ASSUME TypeOK, NEW w \in Workers, pc[w] \notin {"idle", "create"}
  PROVE  key[w] \in Keys /\ mine[w] \in Trackers
BY DEF TypeOK

\* Every step keeps the windows' types.
LEMMA WindowNext == TypeOK /\ [Next]_vars => WindowsTyped'
<1> SUFFICES ASSUME TypeOK, [Next]_vars PROVE WindowsTyped'
  OBVIOUS
<1>0. WindowsTyped
  BY Zenon, TypeParts
<1>c. clock \in Nat /\ now \in [Workers -> Nat]
  BY BehavioralAssumption DEF TypeOK
<1>1. ASSUME UNCHANGED <<window, times>> PROVE WindowsTyped'
  BY <1>0, <1>1 DEF WindowsTyped
<1>2. ASSUME NEW w \in Workers, Add(w) PROVE WindowsTyped'
  <2>1. key[w] \in Keys /\ mine[w] \in Trackers
    BY <1>2, AtWork DEF Add
  <2>2. PICK o \in Trackers : o = mine[w]
    BY <2>1
  <2>3. PICK t \in Nat : t = now[w]
    BY <1>c
  <2>4. window[o] \in Seq(Nat) /\ Len(window[o]) <= MaxHistory
    BY <1>0 DEF WindowsTyped
  <2>5. PICK p : p = Push(window[o], t)
    OBVIOUS
  <2>6. p \in Seq(Nat) /\ Len(p) <= MaxHistory
    BY <2>4, <2>5, PushType
  <2>7. PICK x : x = Prune(p, t)
    OBVIOUS
  <2>8. x \in Seq(Nat) /\ Len(x) <= Len(p)
    BY <2>6, <2>7, PruneType
  <2>9. Len(x) <= MaxHistory
    <3>1. Len(x) \in Nat /\ Len(p) \in Nat /\ MaxHistory \in Nat
      BY <2>6, <2>8, LenProperties, BehavioralAssumption
    <3> QED BY <2>6, <2>8, <3>1
  <2>10. window' = [window EXCEPT ![o] = x]
    BY <1>2, <2>2, <2>3, <2>5, <2>7 DEF Add
  <2>11. times' = [times EXCEPT ![key[w]] = Append(@, t)]
    BY <1>2, <2>3 DEF Add
  <2>12. times[key[w]] \in Seq(Nat)
    BY <1>0, <2>1 DEF WindowsTyped
  <2>13. Append(times[key[w]], t) \in Seq(Nat)
    BY <2>12, AppendProperties
  <2>14. times' \in [Keys -> Seq(Nat)]
    BY <1>0, <2>11, <2>13 DEF WindowsTyped
  <2> QED BY <1>0, <2>8, <2>9, <2>10, <2>14 DEF WindowsTyped
<1>3. ASSUME NEW o \in Trackers, window' = [window EXCEPT ![o] = Prune(@, clock)], times' = times
      PROVE  WindowsTyped'
  BY <1>0, <1>3, <1>c, WindowsPruned DEF WindowsTyped
<1>4. ASSUME NEW w \in Workers, Count(w) PROVE WindowsTyped'
  BY <1>3, <1>4, AtWork DEF Count
<1>5. ASSUME NEW w \in Workers, Report(w) PROVE WindowsTyped'
  <2>1. mine[w] \in Trackers
    BY <1>5, AtWork DEF Report
  <2> QED BY <1>1, <1>3, <1>5, <2>1 DEF Report
<1>6. ASSUME NEW w \in Workers, Stamp(w) \/ Suppress(w) \/ Pass(w) \/ (\E k \in Keys : LookUp(w, k))
               \/ \E o \in Trackers : Create(w, o)
      PROVE  WindowsTyped'
  BY <1>1, <1>6 DEF Stamp, Suppress, Pass, LookUp, Create
<1>7. CASE Tick \/ UNCHANGED vars
  BY <1>1, <1>7 DEF Tick, vars
<1> QED BY <1>2, <1>4, <1>5, <1>6, <1>7 DEF Next

\* Every step keeps the other types.
LEMMA RestNext == TypeOK /\ [Next]_vars => RestTyped'
<1> SUFFICES ASSUME TypeOK, [Next]_vars PROVE RestTyped'
  OBVIOUS
<1>0. RestTyped
  BY Zenon, TypeParts
<1> USE DEF RestTyped, workVars
<1>a. /\ None \notin Trackers \cup Keys /\ MaxTime \in Nat /\ MaxEvents \in Nat
  BY BehavioralAssumption
<1>1. CASE Tick
  BY <1>0, <1>1, <1>a DEF Tick
<1>2. ASSUME NEW w \in Workers, NEW k \in Keys, LookUp(w, k) PROVE RestTyped'
  BY <1>0, <1>2, <1>a DEF LookUp
<1>3. ASSUME NEW w \in Workers, NEW o \in Trackers, Create(w, o) PROVE RestTyped'
  <2>1. key[w] \in Keys
    BY <1>0, <1>3 DEF Create
  <2> QED BY <1>0, <1>3, <1>a, <2>1 DEF Create
<1>4. ASSUME NEW w \in Workers, Stamp(w) PROVE RestTyped'
  BY <1>0, <1>4, <1>a DEF Stamp
<1>5. ASSUME NEW w \in Workers, Add(w) PROVE RestTyped'
  <2>1. key[w] \in Keys
    BY <1>5, AtWork DEF Add
  <2>2. reached' \in [Keys -> Nat]
    BY <1>0, <1>5, <1>a, <2>1 DEF Add
  <2> QED BY <1>0, <1>5, <2>2 DEF Add
<1>6. ASSUME NEW w \in Workers, Count(w) PROVE RestTyped'
  <2>1. CASE Fires(w, Len(Prune(window[mine[w]], clock)))
    <3>1. mine[w] # None /\ key[w] \in Keys
      BY <1>6, <1>a, AtWork DEF Count
    <3>2. /\ pc[w] = "count" /\ pc' = [pc EXCEPT ![w] = "cooldown"]
          /\ UNCHANGED <<key, mine, now, clock, events, tracker, last, reached, split, alerted>>
      BY <1>6, <2>1 DEF Count
    <3> QED BY <1>0, <1>a, <3>1, <3>2
  <2>2. CASE ~Fires(w, Len(Prune(window[mine[w]], clock)))
    <3>1. Done(w) /\ UNCHANGED <<clock, events, tracker, last, reached, split, alerted>>
      BY <1>6, <2>2 DEF Count
    <3> QED BY <1>0, <1>a, <3>1 DEF Done
  <2> QED BY <2>1, <2>2
<1>7. ASSUME NEW w \in Workers, Suppress(w) PROVE RestTyped'
  BY <1>0, <1>7, <1>a DEF Suppress, Done
<1>8. ASSUME NEW w \in Workers, Pass(w) PROVE RestTyped'
  BY <1>0, <1>8, <1>a DEF Pass
<1>9. ASSUME NEW w \in Workers, Report(w) PROVE RestTyped'
  <2>1. key[w] \in Keys
    BY <1>9, AtWork DEF Report
  <2>2. last' \in [Keys -> Nat] /\ alerted' \in [Workers -> [Keys -> Nat]]
    BY <1>0, <1>9, <1>a, <2>1 DEF Report
  <2> QED BY <1>0, <1>9, <1>a, <2>2 DEF Report, Done
<1>10. CASE UNCHANGED vars
  BY <1>0, <1>10 DEF vars
<1> QED BY <1>1, <1>2, <1>3, <1>4, <1>5, <1>6, <1>7, <1>8, <1>9, <1>10 DEF Next

\* What add() has returned is a truth value.
LEMMA CrossedNext == TypeOK /\ [Next]_vars => (crossed \in [Workers -> BOOLEAN])'
<1> SUFFICES ASSUME TypeOK, [Next]_vars PROVE crossed' \in [Workers -> BOOLEAN]
  OBVIOUS
<1>0. crossed \in [Workers -> BOOLEAN]
  BY Zenon, TypeParts
<1>1. ASSUME NEW w \in Workers, NEW b \in BOOLEAN, crossed' = [crossed EXCEPT ![w] = b]
      PROVE  crossed' \in [Workers -> BOOLEAN]
  BY Zenon, <1>0, <1>1
<1>2. ASSUME NEW w \in Workers, Add(w) PROVE crossed' \in [Workers -> BOOLEAN]
  <2>1. PICK n : n = Len(Prune(Push(window[mine[w]], now[w]), now[w]))
    OBVIOUS
  <2>2. crossed' = [crossed EXCEPT ![w] = Crosses(n)]
    BY Zenon, <1>2, <2>1 DEF Add
  <2>3. Crosses(n) \in BOOLEAN
    BY Zenon DEF Crosses
  <2> QED BY <1>1, <2>2, <2>3
<1>3. ASSUME NEW w \in Workers, Done(w) PROVE crossed' \in [Workers -> BOOLEAN]
  BY Zenon, <1>1, <1>3 DEF Done
<1>4. ASSUME UNCHANGED crossed PROVE crossed' \in [Workers -> BOOLEAN]
  BY Zenon, <1>0, <1>4
<1>5. ASSUME NEW w \in Workers, Count(w) PROVE crossed' \in [Workers -> BOOLEAN]
  BY Zenon, <1>3, <1>4, <1>5 DEF Count
<1>6. ASSUME NEW w \in Workers, Suppress(w) \/ Report(w) PROVE crossed' \in [Workers -> BOOLEAN]
  BY Zenon, <1>3, <1>6 DEF Suppress, Report
<1>7. ASSUME NEW w \in Workers, Stamp(w) \/ Pass(w) \/ (\E k \in Keys : LookUp(w, k))
               \/ \E o \in Trackers : Create(w, o)
      PROVE  UNCHANGED crossed
  BY <1>7 DEF Stamp, Pass, LookUp, Create
<1>8. CASE Tick \/ UNCHANGED vars
  BY <1>4, <1>8 DEF Tick, vars, workVars
<1> QED BY Zenon, <1>2, <1>4, <1>5, <1>6, <1>7, <1>8 DEF Next

LEMMA TypeNext == TypeOK /\ [Next]_vars => TypeOK'
<1>1. TypeOK' <=> WindowsTyped' /\ RestTyped' /\ (crossed \in [Workers -> BOOLEAN])'
  BY Zenon DEF TypeOK, WindowsTyped, RestTyped
<1> QED BY Zenon, <1>1, WindowNext, RestNext, CrossedNext

-----------------------------------------------------------------------------
(* Cooldowns *)

LEMMA CooldownInit == Init => OwnAlertsKept /\ PassedCooldown
BY DEF Init, OwnAlertsKept, PassedCooldown

\* A report is the newest there is, and no other step touches the records.
LEMMA KeptNext == TypeOK /\ OwnAlertsKept /\ [Next]_vars => OwnAlertsKept'
<1> SUFFICES ASSUME TypeOK, OwnAlertsKept, [Next]_vars PROVE OwnAlertsKept'
  OBVIOUS
<1>0. clock \in Nat /\ last \in [Keys -> Nat] /\ alerted \in [Workers -> [Keys -> Nat]]
  BY BehavioralAssumption DEF TypeOK
<1>1. ASSUME UNCHANGED <<last, alerted>>, clock' \in Nat, clock' >= clock PROVE OwnAlertsKept'
  BY <1>0, <1>1 DEF OwnAlertsKept
<1>2. CASE Tick
  BY <1>0, <1>1, <1>2 DEF Tick
<1>3. ASSUME NEW w \in Workers, Report(w) PROVE OwnAlertsKept'
  <2>1. PICK k \in Keys : k = key[w]
    BY <1>3, AtWork DEF Report
  <2>2. /\ clock' = clock /\ last' = [last EXCEPT ![k] = 1 + clock]
        /\ alerted' = [alerted EXCEPT ![w][k] = 1 + clock]
    BY <1>3, <2>1 DEF Report
  <2>3. ASSUME NEW j \in Keys
        PROVE  last'[j] <= 1 + clock' /\ \A v \in Workers : alerted'[v][j] <= last'[j]
    BY <1>0, <2>2 DEF OwnAlertsKept
  <2> QED BY <2>3 DEF OwnAlertsKept
<1>4. ASSUME NEW w \in Workers, Stamp(w) \/ Add(w) \/ Count(w) \/ Suppress(w) \/ Pass(w)
               \/ (\E k \in Keys : LookUp(w, k)) \/ \E o \in Trackers : Create(w, o)
      PROVE  UNCHANGED <<clock, last, alerted>>
  BY <1>4 DEF Stamp, Add, Count, Suppress, Pass, LookUp, Create
<1>5. CASE UNCHANGED vars
  BY <1>0, <1>1, <1>5 DEF vars
<1> QED BY <1>0, <1>1, <1>2, <1>3, <1>4, <1>5 DEF Next

\* Who found no cooldown has not reported for that long itself, and time only passes.
LEMMA PassedNext == TypeOK /\ OwnAlertsKept /\ PassedCooldown /\ [Next]_vars => PassedCooldown'
<1> SUFFICES ASSUME TypeOK, OwnAlertsKept, PassedCooldown, [Next]_vars PROVE PassedCooldown'
  OBVIOUS
<1>0. /\ clock \in Nat /\ Cooldown \in Nat /\ last \in [Keys -> Nat]
      /\ alerted \in [Workers -> [Keys -> Nat]] /\ key \in [Workers -> Keys \cup {None}]
      /\ pc \in [Workers -> {"idle", "create", "stamp", "add", "count", "cooldown", "report"}]
  BY BehavioralAssumption DEF TypeOK
<1> DEFINE Old(w) == pc[w] = "report" /\ alerted[w][key[w]] # 0
                       => alerted[w][key[w]] + Cooldown <= 1 + clock
<1>a. ASSUME NEW v \in Workers PROVE Old(v)
  BY DEF PassedCooldown
<1>1. ASSUME NEW v \in Workers, pc'[v] = pc[v], key'[v] = key[v], alerted'[v] = alerted[v],
             clock' \in {clock, clock + 1}
      PROVE  Old(v)'
  <2>1. CASE pc[v] = "report"
    <3>1. key[v] \in Keys
      BY <2>1 DEF TypeOK
    <3>2. PICK a \in Nat : a = alerted[v][key[v]]
      BY <1>0, <3>1
    <3>3. alerted'[v][key'[v]] = a
      BY <1>1, <3>2
    <3>4. a # 0 => a + Cooldown <= 1 + clock
      BY <1>a, <2>1, <3>2
    <3>5. clock \in Nat /\ Cooldown \in Nat
      BY <1>0
    <3>6. clock' \in Nat /\ clock <= clock'
      BY <1>1, <3>5
    <3>7. a # 0 => a + Cooldown <= 1 + clock'
      BY <3>2, <3>4, <3>5, <3>6
    <3> QED BY <3>3, <3>7
  <2>2. CASE pc[v] # "report"
    BY <1>1, <2>2
  <2> QED BY <2>1, <2>2
<1>2. CASE Tick \/ UNCHANGED vars
  <2>1. \A v \in Workers : Old(v)'
    BY <1>1, <1>2 DEF Tick, vars, workVars
  <2> QED BY <2>1 DEF PassedCooldown
<1>3. ASSUME NEW w \in Workers, pc'[w] # "report", clock' = clock,
             \A v \in Workers \ {w} :
               pc'[v] = pc[v] /\ key'[v] = key[v] /\ alerted'[v] = alerted[v]
      PROVE  PassedCooldown'
  <2>1. \A v \in Workers \ {w} : Old(v)'
    BY <1>1, <1>3
  <2>2. Old(w)'
    BY <1>3
  <2> QED BY <2>1, <2>2 DEF PassedCooldown
<1>4. ASSUME NEW w \in Workers, Pass(w) PROVE PassedCooldown'
  <2>1. key[w] \in Keys
    BY <1>4, AtWork DEF Pass
  <2>2. /\ last[key[w]] = 0 \/ 1 + clock - last[key[w]] >= Cooldown
        /\ clock' = clock /\ UNCHANGED <<key, alerted>> /\ pc' = [pc EXCEPT ![w] = "report"]
    BY <1>0, <1>4, <2>1 DEF Pass, OnCooldown
  <2>3. alerted[w][key[w]] \in Nat /\ last[key[w]] \in Nat /\ alerted[w][key[w]] <= last[key[w]]
    BY <1>0, <2>1 DEF OwnAlertsKept
  <2>4. Old(w)'
    BY <1>0, <2>2, <2>3
  <2>5. \A v \in Workers \ {w} : Old(v)'
    BY <1>0, <1>1, <2>2
  <2> QED BY <2>4, <2>5 DEF PassedCooldown
<1>5. ASSUME NEW w \in Workers, Suppress(w) \/ Report(w) PROVE PassedCooldown'
  BY <1>0, <1>3, <1>5 DEF Suppress, Report, Done
<1>6. ASSUME NEW w \in Workers, Count(w) PROVE PassedCooldown'
  <2>1. \/ Done(w)
        \/ pc' = [pc EXCEPT ![w] = "cooldown"] /\ key' = key
    BY <1>6 DEF Count
  <2>2. UNCHANGED <<clock, alerted>>
    BY <1>6 DEF Count
  <2> QED BY <1>0, <1>3, <2>1, <2>2 DEF Done
<1>7. ASSUME NEW w \in Workers, Stamp(w) \/ Add(w) \/ (\E k \in Keys : LookUp(w, k))
               \/ \E o \in Trackers : Create(w, o)
      PROVE  PassedCooldown'
  BY <1>0, <1>3, <1>7 DEF Stamp, Add, LookUp, Create
<1> QED BY <1>2, <1>4, <1>5, <1>6, <1>7 DEF Next

\* So a report follows the worker's last one by the cooldown.
LEMMA ReportSpaced ==
  IInv /\ [Next]_vars =>
    [\A w \in Workers, k \in Keys :
       alerted'[w][k] # alerted[w][k] /\ alerted[w][k] # 0
         => alerted'[w][k] - alerted[w][k] >= Cooldown]_vars
<1> SUFFICES ASSUME IInv, Next, NEW w \in Workers, NEW k \in Keys,
                    alerted'[w][k] # alerted[w][k], alerted[w][k] # 0
             PROVE  alerted'[w][k] - alerted[w][k] >= Cooldown
  OBVIOUS
<1>0. /\ clock \in Nat /\ Cooldown \in Nat /\ alerted \in [Workers -> [Keys -> Nat]] /\ TypeOK
  BY BehavioralAssumption DEF IInv, TypeOK
<1>1. PICK v \in Workers : Report(v)
  BY DEF Next, Tick, LookUp, Create, Stamp, Add, Count, Suppress, Pass
<1>2. alerted' = [alerted EXCEPT ![v][key[v]] = 1 + clock] /\ pc[v] = "report"
  BY <1>1 DEF Report
<1>3. w = v /\ k = key[v]
  BY <1>0, <1>2
<1>4. alerted[w][k] + Cooldown <= 1 + clock
  BY <1>2, <1>3 DEF IInv, PassedCooldown
<1> QED BY <1>0, <1>2, <1>3, <1>4

-----------------------------------------------------------------------------
(* How far a count may be too high *)

LEMMA BehindFinite ==
  ASSUME NEW s \in Seq(Nat), NEW i \in 1..Len(s)
  PROVE  /\ Behind(s, i) \subseteq 1..Len(s)
         /\ IsFiniteSet(Behind(s, i)) /\ Cardinality(Behind(s, i)) \in Nat
<1>1. PICK n \in Nat : n = Len(s)
  OBVIOUS
<1>2. Behind(s, i) \subseteq 1..n
  BY <1>1 DEF Behind
<1> QED BY <1>1, <1>2, FirstNumbers, FS_Subset, FS_CardinalityType

\* Late stamps are held by workers.
LEMMA LateFinite ==
  ASSUME NEW W \in SUBSET Workers, NEW stamp, NEW x
  PROVE  /\ Late(W, stamp, x) \subseteq W
         /\ IsFiniteSet(Late(W, stamp, x)) /\ Cardinality(Late(W, stamp, x)) \in Nat
<1>1. Late(W, stamp, x) \subseteq W
  BY DEF Late
<1>2. Late(W, stamp, x) \subseteq Workers /\ IsFiniteSet(Workers)
  BY <1>1, BehavioralAssumption
<1> QED BY <1>1, <1>2, FS_Subset, FS_CardinalityType

\* Fewer late stamps do no harm.
LEMMA HonestFewer ==
  ASSUME NEW s \in Seq(Nat), NEW W \in SUBSET Workers, NEW V \in SUBSET Workers,
         NEW stamp, NEW later, Honest(s, W, stamp),
         \A i \in 1..Len(s) : \A w \in V : later[w] < s[i] => w \in W /\ stamp[w] < s[i]
  PROVE  Honest(s, V, later)
<1> SUFFICES ASSUME NEW i \in 1..Len(s)
             PROVE  Cardinality(Behind(s, i)) + Cardinality(Late(V, later, s[i]))
                      < Cardinality(Workers)
  BY DEF Honest
<1> DEFINE L == Late(W, stamp, s[i])
           M == Late(V, later, s[i])
<1>1. Cardinality(Behind(s, i)) + Cardinality(L) < Cardinality(Workers)
  BY DEF Honest
<1>2. Cardinality(Behind(s, i)) \in Nat /\ Cardinality(Workers) \in Nat
  BY BehindFinite, FS_CardinalityType, BehavioralAssumption
<1>3. IsFiniteSet(L) /\ Cardinality(L) \in Nat
  BY LateFinite
<1>4. Cardinality(M) \in Nat
  BY LateFinite
<1>5. M \subseteq L
  BY DEF Late
<1> HIDE DEF L, M
<1>6. Cardinality(M) <= Cardinality(L)
  BY <1>3, <1>5, FS_Subset
<1>7. Cardinality(Behind(s, i)) + Cardinality(M) < Cardinality(Workers)
  BY <1>1, <1>2, <1>3, <1>4, <1>6
<1> QED BY <1>7 DEF M

\* Dropping a prefix does no harm.
LEMMA HonestDropped ==
  ASSUME NEW s \in Seq(Nat), NEW c \in 0..Len(s), NEW W \in SUBSET Workers, NEW stamp,
         Honest(s, W, stamp)
  PROVE  Honest(SubSeq(s, c + 1, Len(s)), W, stamp)
<1>1. PICK r : r = SubSeq(s, c + 1, Len(s))
  OBVIOUS
<1>2. /\ r \in Seq(Nat) /\ Len(r) = Len(s) - c
      /\ \A i \in 1..Len(r) : c + i \in 1..Len(s) /\ r[i] = s[c + i]
  BY <1>1, Dropped
<1>3. c \in Nat /\ Len(s) \in Nat /\ Len(r) \in Nat
  BY <1>2
<1> SUFFICES ASSUME NEW i \in 1..Len(r)
             PROVE  Cardinality(Behind(r, i)) + Cardinality(Late(W, stamp, r[i]))
                      < Cardinality(Workers)
  BY <1>1 DEF Honest
<1>4. c + i \in 1..Len(s) /\ r[i] = s[c + i]
  BY <1>2
<1>5. Cardinality(Behind(s, c + i)) + Cardinality(Late(W, stamp, s[c + i])) < Cardinality(Workers)
  BY <1>4 DEF Honest
<1>6. Cardinality(Behind(r, i)) <= Cardinality(Behind(s, c + i))
  <2> DEFINE f == [j \in Behind(r, i) |-> c + j]
  <2>1. ASSUME NEW j \in Behind(r, i) PROVE c + j \in Behind(s, c + i)
    <3>1. j \in i + 1 .. Len(r) /\ r[j] < r[i]
      BY DEF Behind
    <3>2. j \in 1..Len(r) /\ c + j \in c + i + 1 .. Len(s)
      BY <1>2, <1>3, <3>1
    <3>3. r[j] = s[c + j]
      BY <1>2, <3>2
    <3> QED BY <1>4, <3>1, <3>2, <3>3 DEF Behind
  <2>2. \A j, k \in Behind(r, i) : c + j = c + k => j = k
    <3>1. Behind(r, i) \subseteq Nat
      BY <1>3 DEF Behind
    <3> QED BY <1>3, <3>1
  <2>3. f \in Injection(Behind(r, i), Behind(s, c + i))
    BY <2>1, <2>2 DEF Injection, IsInjective
  <2>4. IsFiniteSet(Behind(s, c + i))
    BY <1>4, BehindFinite
  <2> HIDE DEF f
  <2> QED BY <2>3, <2>4, FS_Injection
<1>7. /\ Cardinality(Behind(r, i)) \in Nat /\ Cardinality(Behind(s, c + i)) \in Nat
      /\ Cardinality(Workers) \in Nat
  BY <1>2, <1>4, BehindFinite, FS_CardinalityType, BehavioralAssumption
<1>8. Cardinality(Late(W, stamp, r[i])) \in Nat
  BY LateFinite
<1> QED BY <1>4, <1>5, <1>6, <1>7, <1>8

\* A push turns a late stamp into an event behind the newer ones, and behind the
\* event itself there are at most the other workers.
LEMMA HonestPushed ==
  ASSUME NEW s \in Seq(Nat), NEW W \in SUBSET Workers, NEW stamp, NEW w \in W,
         stamp[w] \in Nat, Honest(s, W, stamp)
  PROVE  Honest(Append(s, stamp[w]), W \ {w}, stamp)
<1>1. PICK t \in Nat : t = stamp[w]
  OBVIOUS
<1>2. PICK r : r = Append(s, t)
  OBVIOUS
<1>3. PICK n \in Nat : n = Len(s)
  OBVIOUS
<1>4. /\ r \in Seq(Nat) /\ Len(r) = n + 1
      /\ \A i \in 1..n : r[i] = s[i]
      /\ r[n + 1] = t
  BY <1>2, <1>3, AppendProperties
<1> SUFFICES ASSUME NEW i \in 1..(n + 1)
             PROVE  Cardinality(Behind(r, i)) + Cardinality(Late(W \ {w}, stamp, r[i]))
                      < Cardinality(Workers)
  BY <1>1, <1>2, <1>4 DEF Honest
<1> DEFINE L == Late(W \ {w}, stamp, r[i])
<1>5. /\ IsFiniteSet(L) /\ Cardinality(L) \in Nat /\ L \subseteq Workers \ {w}
      /\ IsFiniteSet(Workers) /\ Cardinality(Workers) \in Nat
  <2>1. IsFiniteSet(L) /\ Cardinality(L) \in Nat
    <3>1. W \ {w} \in SUBSET Workers
      OBVIOUS
    <3> QED BY <3>1, LateFinite
  <2>2. L \subseteq Workers \ {w}
    BY DEF Late
  <2> HIDE DEF L
  <2> QED BY <2>1, <2>2, FS_CardinalityType, BehavioralAssumption
<1>6. CASE i = n + 1
  <2>1. Behind(r, i) = {}
    BY <1>4, <1>6 DEF Behind
  <2>2. Cardinality(Behind(r, i)) = 0
    BY <2>1, FS_EmptySet
  <2>3. IsFiniteSet(Workers \ {w}) /\ Cardinality(Workers \ {w}) = Cardinality(Workers) - 1
    BY <1>5, FS_RemoveElement
  <2>4. Cardinality(L) <= Cardinality(Workers) - 1
    <3> HIDE DEF L
    <3> QED BY <1>5, <2>3, FS_Subset
  <2> HIDE DEF L
  <2>5. Cardinality(Behind(r, i)) + Cardinality(L) < Cardinality(Workers)
    BY <1>5, <2>2, <2>4
  <2> QED BY <2>5 DEF L
<1>7. CASE i # n + 1
  <2>1. i \in 1..n /\ i \in 1..Len(s) /\ r[i] = s[i]
    BY <1>3, <1>4, <1>7
  <2> DEFINE B == Behind(s, i)
             K == Late(W, stamp, s[i])
  <2>2. Cardinality(B) + Cardinality(K) < Cardinality(Workers)
    BY <2>1 DEF Honest
  <2>3. B \subseteq 1..n /\ IsFiniteSet(B) /\ Cardinality(B) \in Nat
    BY <1>3, <2>1, BehindFinite
  <2>4. IsFiniteSet(K) /\ Cardinality(K) \in Nat
    BY LateFinite
  <2>5. ASSUME NEW j \in Behind(r, i) PROVE j \in B \/ (j = n + 1 /\ t < s[i])
    <3>1. j \in i + 1 .. n + 1 /\ r[j] < s[i]
      BY <1>4, <2>1 DEF Behind
    <3>2. CASE j = n + 1
      BY <1>4, <3>1, <3>2
    <3>3. CASE j # n + 1
      <4>1. j \in 1..n /\ j \in i + 1 .. Len(s)
        BY <1>3, <2>1, <3>1, <3>3
      <4> QED BY <1>4, <3>1, <4>1 DEF Behind
    <3> QED BY <3>2, <3>3
  <2>6. CASE t < s[i]
    <3>1. w \in K /\ L = K \ {w}
      BY <1>1, <2>1, <2>6 DEF Late
    <3>2. IsFiniteSet(B \cup {n + 1}) /\ Cardinality(B \cup {n + 1}) <= Cardinality(B) + 1
      <4> HIDE DEF B
      <4>1. /\ IsFiniteSet(B \cup {n + 1})
            /\ Cardinality(B \cup {n + 1}) =
                 IF n + 1 \in B THEN Cardinality(B) ELSE Cardinality(B) + 1
        BY <2>3, FS_AddElement
      <4> QED BY <2>3, <4>1
    <3>3. Cardinality(L) = Cardinality(K) - 1
      <4> HIDE DEF K, L
      <4> QED BY <2>4, <3>1, FS_RemoveElement
    <3>4. /\ Cardinality(Behind(r, i)) \in Nat
          /\ Cardinality(Behind(r, i)) <= Cardinality(B \cup {n + 1})
      <4>1. Behind(r, i) \subseteq B \cup {n + 1}
        BY <2>5
      <4> HIDE DEF B
      <4> QED BY <3>2, <4>1, FS_Subset, FS_CardinalityType
    <3>5. Cardinality(B \cup {n + 1}) \in Nat
      <4> HIDE DEF B
      <4> QED BY <3>2, FS_CardinalityType
    <3> HIDE DEF B, K, L
    <3>6. Cardinality(Behind(r, i)) + Cardinality(L) < Cardinality(Workers)
      BY <1>5, <2>2, <2>3, <2>4, <3>2, <3>3, <3>4, <3>5
    <3> QED BY <3>6 DEF L
  <2>7. CASE ~(t < s[i])
    <3>1. Behind(r, i) \subseteq B
      BY <2>5, <2>7
    <3>2. L \subseteq K
      BY <2>1 DEF Late
    <3> HIDE DEF B, K, L
    <3>3. Cardinality(Behind(r, i)) \in Nat /\ Cardinality(Behind(r, i)) <= Cardinality(B)
      BY <2>3, <3>1, FS_Subset, FS_CardinalityType
    <3>4. Cardinality(L) <= Cardinality(K)
      BY <2>4, <3>2, FS_Subset
    <3>5. Cardinality(Behind(r, i)) + Cardinality(L) < Cardinality(Workers)
      BY <1>5, <2>2, <2>3, <2>4, <3>3, <3>4
    <3> QED BY <3>5 DEF L
  <2> QED BY <2>6, <2>7
<1> QED BY <1>6, <1>7

\* What a tracker is left with by a step that counts nothing there: its window or
\* what pruning leaves of it, and no older stamps than before.
LEMMA HonestCalm ==
  ASSUME TypeOK, HonestInv, NEW o \in Trackers, NEW t \in Nat,
         window'[o] = window[o] \/ window'[o] = Prune(window[o], t),
         \A v \in Workers : pc'[v] = "add" /\ mine'[v] = o =>
           now'[v] = clock \/ (pc[v] = "add" /\ mine[v] = o /\ now'[v] = now[v])
  PROVE  Honest(window'[o], Adding(o)', now')
<1>1. PICK s \in Seq(Nat) : s = window[o]
  BY DEF TypeOK
<1>2. Adding(o) \in SUBSET Workers /\ Adding(o)' \in SUBSET Workers
  BY DEF Adding
<1>3. Honest(s, Adding(o), now) /\ clock \in Nat
  BY <1>1, BehavioralAssumption DEF HonestInv, TypeOK
<1>4. \A i \in 1..Len(s) : s[i] \in Nat /\ s[i] <= clock
  BY <1>1 DEF HonestInv, StampsPast
<1>5. ASSUME NEW i \in 1..Len(s), NEW w \in Adding(o)', now'[w] < s[i]
      PROVE  w \in Adding(o) /\ now[w] < s[i]
  <2>1. pc'[w] = "add" /\ mine'[w] = o /\ w \in Workers
    BY DEF Adding
  <2>2. now'[w] # clock
    BY <1>3, <1>4, <1>5
  <2> QED BY <1>5, <2>1, <2>2 DEF Adding
<1>6. Honest(s, Adding(o)', now')
  BY <1>2, <1>3, <1>5, HonestFewer
<1>7. CASE window'[o] = window[o]
  BY <1>1, <1>6, <1>7
<1>8. CASE window'[o] = Prune(window[o], t)
  <2>1. PICK c \in 0..Len(s) : Prune(s, t) = SubSeq(s, c + 1, Len(s))
    BY PruneDrops
  <2> QED BY <1>1, <1>2, <1>6, <1>8, <2>1, HonestDropped
<1> QED BY <1>7, <1>8

\* What it is left with by add().
LEMMA HonestAdd ==
  ASSUME TypeOK, HonestInv, NEW w \in Workers, Add(w), NEW o \in Trackers, o = mine[w]
  PROVE  /\ Honest(window'[o], Adding(o)', now')
         /\ \A i \in 1..Len(window'[o]) : window'[o][i] <= clock
<1>1. PICK s \in Seq(Nat) : s = window[o]
  BY DEF TypeOK
<1>2. PICK t \in Nat : t = now[w]
  BY DEF TypeOK
<1>3. /\ Adding(o) \in SUBSET Workers /\ w \in Adding(o) /\ now' = now
      /\ Adding(o)' = Adding(o) \ {w}
  BY DEF Add, Adding, TypeOK
<1>4. Honest(s, Adding(o), now) /\ clock \in Nat /\ t <= clock
      /\ \A i \in 1..Len(s) : s[i] \in Nat /\ s[i] <= clock
  BY <1>1, <1>2, BehavioralAssumption DEF HonestInv, StampsPast, TypeOK
<1>5. PICK r : r = Append(s, t)
  OBVIOUS
<1>6. Honest(r, Adding(o) \ {w}, now)
  BY <1>2, <1>3, <1>4, <1>5, HonestPushed
<1>7. r \in Seq(Nat) /\ \A i \in 1..Len(r) : r[i] <= clock
  <2>1. PICK n \in Nat : n = Len(s)
    OBVIOUS
  <2>2. /\ r \in Seq(Nat) /\ Len(r) = n + 1
        /\ \A i \in 1..n : r[i] = s[i]
        /\ r[n + 1] = t
    BY <1>5, <2>1, AppendProperties
  <2>3. \A i \in 1..(n + 1) : i \in 1..n \/ i = n + 1
    BY <2>1
  <2> QED BY <1>4, <2>1, <2>2, <2>3
<1>8. PICK c \in 0..1 : /\ Push(s, t) = SubSeq(r, c + 1, Len(r)) /\ c \in 0..Len(r)
  <2>1. Len(r) = Len(s) + 1 /\ Len(s) \in Nat
    BY <1>5, PushDrops
  <2>2. \A c \in 0..1 : c \in 0..Len(r)
    BY <2>1
  <2> QED BY <1>5, <2>2, PushDrops
<1>9. PICK q : q = Push(s, t)
  OBVIOUS
<1>10. q \in Seq(Nat) /\ \A i \in 1..Len(q) : q[i] <= clock
  BY <1>7, <1>8, <1>9, Dropped
<1>11. Honest(q, Adding(o) \ {w}, now)
  BY <1>3, <1>6, <1>7, <1>8, <1>9, HonestDropped
<1>12. PICK d \in 0..Len(q) : Prune(q, t) = SubSeq(q, d + 1, Len(q))
  BY <1>10, PruneDrops
<1>13. PICK x : x = Prune(q, t)
  OBVIOUS
<1>14. \A i \in 1..Len(x) : x[i] <= clock
  BY <1>10, <1>12, <1>13, Dropped
<1>15. Honest(x, Adding(o) \ {w}, now)
  BY <1>3, <1>10, <1>11, <1>12, <1>13, HonestDropped
<1>16. window'[o] = x
  BY <1>1, <1>2, <1>9, <1>13 DEF Add, TypeOK
<1> QED BY <1>3, <1>14, <1>15, <1>16

\* Pruning keeps every time that stays within the past.
LEMMA PrunedPast ==
  ASSUME NEW s \in Seq(Nat), NEW t \in Nat, NEW x, \A i \in 1..Len(s) : s[i] <= x
  PROVE  \A i \in 1..Len(Prune(s, t)) : Prune(s, t)[i] <= x
<1>1. PICK c \in 0..Len(s) : Prune(s, t) = SubSeq(s, c + 1, Len(s))
  BY PruneDrops
<1> QED BY <1>1, Dropped

\* Every step keeps counts honest.
LEMMA HonestNext == TypeOK /\ HonestInv /\ [Next]_vars => HonestInv'
<1> SUFFICES ASSUME TypeOK, HonestInv, [Next]_vars PROVE HonestInv'
  OBVIOUS
<1>0. /\ clock \in Nat /\ now \in [Workers -> Nat] /\ mine \in [Workers -> Trackers \cup {None}]
      /\ pc \in [Workers -> {"idle", "create", "stamp", "add", "count", "cooldown", "report"}]
      /\ window \in [Trackers -> Seq(Nat)]
  BY BehavioralAssumption DEF TypeOK
<1>p. /\ \A w \in Workers : now[w] <= clock
      /\ \A o \in Trackers : \A i \in 1..Len(window[o]) : window[o][i] <= clock
  BY DEF HonestInv, StampsPast
<1> DEFINE Calm(o, v) == pc'[v] = "add" /\ mine'[v] = o =>
                           now'[v] = clock \/ (pc[v] = "add" /\ mine[v] = o /\ now'[v] = now[v])
<1>1. ASSUME \A o \in Trackers : window'[o] = window[o] \/ window'[o] = Prune(window[o], clock),
             \A o \in Trackers, v \in Workers : Calm(o, v),
             clock' \in Nat, clock <= clock',
             \A v \in Workers : now'[v] \in {0, clock, now[v]}
      PROVE  HonestInv'
  <2>1. \A o \in Trackers : Honest(window'[o], Adding(o)', now')
    BY <1>0, <1>1, HonestCalm
  <2>2. \A v \in Workers : now'[v] <= clock'
    BY <1>0, <1>1, <1>p
  <2>3. ASSUME NEW o \in Trackers, NEW i \in 1..Len(window'[o]) PROVE window'[o][i] <= clock'
    <3>1. PICK s \in Seq(Nat) : s = window[o]
      BY <1>0
    <3>2. \A j \in 1..Len(s) : s[j] \in Nat /\ s[j] <= clock'
      BY <1>0, <1>1, <1>p, <3>1
    <3>3. \A j \in 1..Len(Prune(s, clock)) : Prune(s, clock)[j] <= clock'
      BY <1>0, <3>2, PrunedPast
    <3>4. window'[o] = s \/ window'[o] = Prune(s, clock)
      BY <1>1, <3>1
    <3> QED BY <3>2, <3>3, <3>4
  <2> QED BY <2>1, <2>2, <2>3 DEF HonestInv, StampsPast
<1>2. CASE Tick \/ UNCHANGED vars
  BY <1>0, <1>1, <1>2 DEF Tick, vars, workVars
<1>3. ASSUME NEW w \in Workers, Add(w) PROVE HonestInv'
  <2>1. PICK o \in Trackers : o = mine[w]
    BY <1>3, AtWork DEF Add
  <2>2. /\ \A p \in Trackers \ {o} : window'[p] = window[p]
        /\ UNCHANGED <<clock, mine, now>> /\ pc' = [pc EXCEPT ![w] = "count"]
    BY <1>0, <1>3, <2>1 DEF Add
  <2>3. Honest(window'[o], Adding(o)', now') /\ \A i \in 1..Len(window'[o]) : window'[o][i] <= clock
    BY <1>3, <2>1, HonestAdd
  <2>4. ASSUME NEW p \in Trackers \ {o} PROVE Honest(window'[p], Adding(p)', now')
    <3>1. \A v \in Workers : Calm(p, v)
      BY <1>0, <2>2
    <3> QED BY <1>0, <2>2, <3>1, HonestCalm
  <2> QED BY <1>p, <2>2, <2>3, <2>4 DEF HonestInv, StampsPast
<1>4. ASSUME NEW w \in Workers, Stamp(w) \/ Suppress(w) \/ Pass(w) \/ (\E k \in Keys : LookUp(w, k))
               \/ \E o \in Trackers : Create(w, o)
      PROVE  HonestInv'
  <2>1. UNCHANGED <<clock, window>>
    BY <1>4 DEF Stamp, Suppress, Pass, LookUp, Create
  <2>2. \A v \in Workers : now'[v] \in {0, clock, now[v]}
    BY <1>0, <1>4 DEF Stamp, Suppress, Pass, LookUp, Create, Done
  <2>3. \A o \in Trackers, v \in Workers : Calm(o, v)
    BY <1>0, <1>4 DEF Stamp, Suppress, Pass, LookUp, Create, Done
  <2> QED BY <1>0, <1>1, <2>1, <2>2, <2>3
<1>5. ASSUME NEW w \in Workers, Count(w) \/ Report(w) PROVE HonestInv'
  <2>1. clock' = clock
    BY <1>5 DEF Count, Report
  <2>2. mine[w] \in Trackers
    BY <1>5, AtWork DEF Count, Report
  <2>3. \A o \in Trackers : window'[o] = window[o] \/ window'[o] = Prune(window[o], clock)
    BY <1>0, <1>5, <2>2 DEF Count, Report
  <2>4. \/ Done(w)
        \/ pc' = [pc EXCEPT ![w] = "cooldown"] /\ UNCHANGED <<mine, now>>
    BY <1>5 DEF Count, Report
  <2>5. \A v \in Workers : now'[v] \in {0, clock, now[v]}
    BY <1>0, <2>4 DEF Done
  <2>6. \A o \in Trackers, v \in Workers : Calm(o, v)
    BY <1>0, <2>4 DEF Done
  <2> QED BY <1>0, <1>1, <2>1, <2>3, <2>5, <2>6
<1> QED BY <1>2, <1>3, <1>4, <1>5 DEF Next

-----------------------------------------------------------------------------
(* Bursts are reported *)

\* Who sees the threshold reached stays on its way to the report until it is made,
\* or finds one in force.
LEMMA ToldNext == TypeOK /\ ReachedTold /\ [Next]_vars => ReachedTold'
<1> SUFFICES ASSUME TypeOK, ReachedTold, [Next]_vars PROVE ReachedTold'
  OBVIOUS
<1>0. /\ clock \in Nat /\ Cooldown \in Nat \ {0}
      /\ last \in [Keys -> Nat] /\ reached \in [Keys -> Nat]
      /\ key \in [Workers -> Keys \cup {None}]
      /\ pc \in [Workers -> {"idle", "create", "stamp", "add", "count", "cooldown", "report"}]
  BY BehavioralAssumption DEF TypeOK
<1>c. crossed \in [Workers -> BOOLEAN]
  BY Zenon, TypeParts
<1> DEFINE OnItsWay(w) == crossed[w] => pc[w] \in {"count", "cooldown", "report"}
           Told(k) == /\ reached[k] <= 1 + clock
                      /\ reached[k] # 0 => \/ \E w \in Workers : key[w] = k /\ crossed[w]
                                           \/ last[k] # 0 /\ reached[k] < last[k] + Cooldown
<1>a. (\A w \in Workers : OnItsWay(w)) /\ (\A k \in Keys : Told(k))
  BY DEF ReachedTold
<1>b. ASSUME \A w \in Workers : OnItsWay(w)', \A k \in Keys : Told(k)' PROVE ReachedTold'
  BY <1>b DEF ReachedTold
<1>1. ASSUME NEW k \in Keys, reached'[k] = reached[k], last'[k] = last[k],
             clock' \in Nat, clock <= clock',
             \A w \in Workers : key[w] = k /\ crossed[w] => key'[w] = k /\ crossed'[w]
      PROVE  Told(k)'
  <2>1. reached'[k] <= 1 + clock'
    BY <1>0, <1>1, <1>a
  <2>2. reached'[k] # 0 => \/ \E w \in Workers : key'[w] = k /\ crossed'[w]
                           \/ last'[k] # 0 /\ reached'[k] < last'[k] + Cooldown
    BY Zenon, <1>1, <1>a
  <2> QED BY <2>1, <2>2
<1>2. CASE Tick \/ UNCHANGED vars
  <2>1. /\ UNCHANGED <<key, crossed, pc, reached, last>> /\ clock' \in Nat /\ clock <= clock'
    BY <1>0, <1>2 DEF Tick, vars, workVars
  <2>2. \A k \in Keys : Told(k)'
    BY <1>1, <2>1
  <2>3. \A w \in Workers : OnItsWay(w)'
    BY <1>a, <2>1
  <2> QED BY <1>b, <2>2, <2>3
<1>3. ASSUME NEW w \in Workers, UNCHANGED <<clock, reached, last>>,
             \A v \in Workers \ {w} :
               key'[v] = key[v] /\ crossed'[v] = crossed[v] /\ pc'[v] = pc[v],
             crossed[w] =>
               key'[w] = key[w] /\ crossed'[w] /\ pc'[w] \in {"count", "cooldown", "report"},
             crossed'[w] => crossed[w]
      PROVE  ReachedTold'
  <2>1. \A k \in Keys : Told(k)'
    <3> TAKE k \in Keys
    <3>1. \A v \in Workers : key[v] = k /\ crossed[v] => key'[v] = k /\ crossed'[v]
      BY Zenon, <1>3
    <3>2. clock' \in Nat /\ clock <= clock'
      BY <1>0, <1>3
    <3> QED BY <1>1, <1>3, <3>1, <3>2
  <2>2. \A v \in Workers : OnItsWay(v)'
    BY Zenon, <1>3, <1>a
  <2> QED BY <1>b, <2>1, <2>2
<1>4. ASSUME NEW w \in Workers, Stamp(w) \/ Pass(w) \/ (\E k \in Keys : LookUp(w, k))
               \/ \E o \in Trackers : Create(w, o)
      PROVE  ReachedTold'
  <2>1. UNCHANGED <<clock, reached, last, crossed>>
    BY <1>4 DEF Stamp, Pass, LookUp, Create
  <2>2. \A v \in Workers \ {w} : key'[v] = key[v] /\ pc'[v] = pc[v]
    BY <1>0, <1>4 DEF Stamp, Pass, LookUp, Create
  <2>3. \/ pc[w] = "cooldown" /\ pc'[w] = "report" /\ key'[w] = key[w]
        \/ pc[w] \in {"idle", "create", "stamp"}
    BY <1>0, <1>4 DEF Stamp, Pass, LookUp, Create
  <2>4. crossed[w] => key'[w] = key[w] /\ crossed'[w] /\ pc'[w] \in {"count", "cooldown", "report"}
    BY <1>a, <2>1, <2>3
  <2> QED BY <1>3, <2>1, <2>2, <2>4
<1>5. ASSUME NEW w \in Workers, Add(w) PROVE ReachedTold'
  <2>1. PICK k \in Keys : k = key[w]
    BY <1>5, AtWork DEF Add
  <2>2. PICK n : n = Len(Prune(Push(window[mine[w]], now[w]), now[w]))
    OBVIOUS
  <2>3. /\ pc[w] = "add" /\ pc' = [pc EXCEPT ![w] = "count"]
        /\ crossed' = [crossed EXCEPT ![w] = Crosses(n)]
        /\ reached' = [reached EXCEPT ![k] = IF n = Threshold THEN 1 + clock ELSE @]
        /\ UNCHANGED <<clock, last, key>>
    BY <1>5, <2>1, <2>2 DEF Add
  <2>4. ~crossed[w]
    BY <1>a, <2>3
  <2>5. crossed'[w] <=> n = Threshold
    <3>1. crossed'[w] = Crosses(n)
      BY Zenon, <1>c, <2>3
    <3> QED BY Zenon, <3>1 DEF Crosses
  <2>6. \A v \in Workers \ {w} : crossed'[v] = crossed[v] /\ pc'[v] = pc[v]
    BY <1>0, <1>c, <2>3
  <2>7. pc'[w] = "count"
    BY <1>0, <2>3
  <2>8. \A v \in Workers : OnItsWay(v)'
    BY <1>a, <2>6, <2>7
  <2>9. \A j \in Keys \ {k} : Told(j)'
    <3> TAKE j \in Keys \ {k}
    <3>1. reached'[j] = reached[j] /\ last'[j] = last[j] /\ clock' \in Nat /\ clock <= clock'
      BY <1>0, <2>3
    <3>2. \A v \in Workers : key[v] = j /\ crossed[v] => key'[v] = j /\ crossed'[v]
      BY <2>3, <2>4, <2>6
    <3> QED BY <1>1, <3>1, <3>2
  <2>10. Told(k)'
    <3>1. CASE n = Threshold
      <4>1. reached'[k] = 1 + clock
        BY <1>0, <2>3, <3>1
      <4>2. key'[w] = k /\ crossed'[w]
        BY <2>1, <2>3, <2>5, <3>1
      <4> QED BY <1>0, <2>3, <4>1, <4>2
    <3>2. CASE n # Threshold
      <4>1. reached'[k] = reached[k] /\ last'[k] = last[k] /\ clock' \in Nat /\ clock <= clock'
        BY <1>0, <2>3, <3>2
      <4>2. \A v \in Workers : key[v] = k /\ crossed[v] => key'[v] = k /\ crossed'[v]
        BY <2>3, <2>4, <2>6
      <4> QED BY <1>1, <4>1, <4>2
    <3> QED BY <3>1, <3>2
  <2> QED BY <1>b, <2>8, <2>9, <2>10
<1>6. ASSUME NEW w \in Workers, Count(w) PROVE ReachedTold'
  <2>1. PICK n : n = Len(Prune(window[mine[w]], clock))
    OBVIOUS
  <2>2. UNCHANGED <<clock, reached, last>>
    BY <1>6 DEF Count
  <2>3. CASE Fires(w, n)
    <3>1. pc' = [pc EXCEPT ![w] = "cooldown"] /\ UNCHANGED <<key, crossed>>
      BY <1>6, <2>1, <2>3 DEF Count
    <3>2. /\ pc'[w] = "cooldown"
          /\ \A v \in Workers \ {w} : pc'[v] = pc[v]
      BY <1>0, <3>1
    <3> QED BY <1>3, <2>2, <3>1, <3>2
  <2>4. CASE ~Fires(w, n)
    <3>1. Done(w) /\ ~crossed[w]
      BY Zenon, <1>6, <2>1, <2>4 DEF Count, Fires
    <3>2. \A v \in Workers \ {w} : key'[v] = key[v] /\ crossed'[v] = crossed[v] /\ pc'[v] = pc[v]
      BY <1>0, <1>c, <3>1 DEF Done
    <3>3. ~crossed'[w]
      BY Zenon, <1>c, <3>1 DEF Done
    <3> QED BY <1>3, <2>2, <3>1, <3>2, <3>3
  <2> QED BY <2>3, <2>4
<1>7. ASSUME NEW w \in Workers, Suppress(w) \/ Report(w) PROVE ReachedTold'
  <2>1. PICK k \in Keys : k = key[w]
    BY <1>7, AtWork DEF Suppress, Report
  <2>2. Done(w) /\ UNCHANGED <<clock, reached>>
    BY <1>7 DEF Suppress, Report
  <2>3. \A v \in Workers \ {w} : key'[v] = key[v] /\ crossed'[v] = crossed[v] /\ pc'[v] = pc[v]
    BY <1>0, <1>c, <2>2 DEF Done
  <2>4. ~crossed'[w]
    BY Zenon, <1>c, <2>2 DEF Done
  <2>5. \A v \in Workers : OnItsWay(v)'
    BY <1>a, <2>3, <2>4
  <2>6. \A j \in Keys \ {k} : Told(j)'
    <3> TAKE j \in Keys \ {k}
    <3>1. last'[j] = last[j]
      BY <1>0, <1>7, <2>1 DEF Suppress, Report
    <3>2. reached'[j] = reached[j] /\ clock' \in Nat /\ clock <= clock'
      BY <1>0, <2>2
    <3>3. \A v \in Workers : key[v] = j /\ crossed[v] => key'[v] = j /\ crossed'[v]
      BY <2>1, <2>3
    <3> QED BY <1>1, <3>1, <3>2, <3>3
  <2>7. Told(k)'
    <3>1. reached[k] \in Nat /\ reached[k] <= 1 + clock
      BY <1>0, <1>a
    <3>2. CASE Suppress(w)
      <4>1. last[k] # 0 /\ 1 + clock - last[k] < Cooldown /\ last' = last
        BY <2>1, <3>2 DEF Suppress, OnCooldown
      <4>2. last[k] \in Nat
        BY <1>0
      <4>3. reached[k] < last[k] + Cooldown
        BY <1>0, <3>1, <4>1, <4>2
      <4> QED BY <2>2, <3>1, <4>1, <4>3
    <3>3. CASE Report(w)
      <4>1. last'[k] = 1 + clock
        BY <1>0, <2>1, <3>3 DEF Report
      <4> QED BY <1>0, <2>2, <3>1, <4>1
    <3> QED BY <1>7, <3>2, <3>3
  <2> QED BY <1>b, <2>5, <2>6, <2>7
<1> QED BY <1>2, <1>4, <1>5, <1>6, <1>7 DEF Next

\* A tracker stays with the key it was made for.
LEMMA OwnedNext == TypeOK /\ TrackersOwned /\ [Next]_vars => TrackersOwned'
<1> SUFFICES ASSUME TypeOK, TrackersOwned, [Next]_vars PROVE TrackersOwned'
  OBVIOUS
<1>0. /\ tracker \in [Keys -> Trackers \cup {None}] /\ mine \in [Workers -> Trackers \cup {None}]
      /\ key \in [Workers -> Keys \cup {None}] /\ None \notin Trackers \cup Keys
      /\ pc \in [Workers -> {"idle", "create", "stamp", "add", "count", "cooldown", "report"}]
      /\ \A w \in Workers : pc[w] = "idle" <=> key[w] = None
      /\ split \subseteq Keys
  BY BehavioralAssumption DEF TypeOK
<1> DEFINE Owned(w) ==
             /\ pc[w] \in {"idle", "create"} => mine[w] = None
             /\ mine[w] # None =>
                  /\ key[w] \notin split => mine[w] = tracker[key[w]]
                  /\ \A k \in Keys : mine[w] = tracker[k] => key[w] = k
           Unshared == \A j, k \in Keys : tracker[j] = tracker[k] /\ tracker[k] # None => j = k
<1>a. Unshared /\ \A w \in Workers : Owned(w)
  BY DEF TrackersOwned
<1>b. ASSUME Unshared', \A w \in Workers : Owned(w)' PROVE TrackersOwned'
  BY <1>b DEF TrackersOwned
<1>1. CASE Tick \/ UNCHANGED vars
  <2>1. UNCHANGED <<tracker, split, pc, key, mine>>
    BY <1>1 DEF Tick, vars, workVars
  <2> QED BY <1>a, <1>b, <2>1
<1>2. ASSUME NEW w \in Workers, NEW k \in Keys, LookUp(w, k) PROVE TrackersOwned'
  <2>1. /\ UNCHANGED <<tracker, split>>
        /\ key'[w] = k /\ mine'[w] = tracker[k]
        /\ pc'[w] = IF tracker[k] = None THEN "create" ELSE "stamp"
        /\ \A v \in Workers \ {w} : key'[v] = key[v] /\ mine'[v] = mine[v] /\ pc'[v] = pc[v]
    BY <1>0, <1>2 DEF LookUp
  <2>2. \A v \in Workers \ {w} : Owned(v)'
    BY <1>a, <2>1
  <2>3. Owned(w)'
    BY <1>a, <2>1
  <2>4. Unshared'
    BY <1>a, <2>1
  <2> QED BY <1>b, <2>2, <2>3, <2>4
<1>3. ASSUME NEW w \in Workers, NEW o \in Trackers, Create(w, o) PROVE TrackersOwned'
  <2>1. PICK k \in Keys : k = key[w]
    BY <1>0, <1>3 DEF Create
  <2>2. /\ tracker'[k] = o /\ \A j \in Keys \ {k} : tracker'[j] = tracker[j]
        /\ \A j \in Keys : tracker[j] # o
        /\ \A v \in Workers : mine[v] # o
        /\ split' = IF tracker[k] = None THEN split ELSE split \cup {k}
        /\ key' = key /\ mine'[w] = o /\ pc'[w] = "stamp" /\ o # None
        /\ \A v \in Workers \ {w} : mine'[v] = mine[v] /\ pc'[v] = pc[v]
    BY <1>0, <1>3, <2>1 DEF Create
  <2>3. Unshared'
    BY <1>a, <2>2
  <2>4. Owned(w)'
    BY <2>1, <2>2
  <2>5. ASSUME NEW v \in Workers \ {w} PROVE Owned(v)'
    <3>1. Owned(v) /\ mine'[v] = mine[v] /\ key'[v] = key[v] /\ pc'[v] = pc[v] /\ mine[v] # o
      BY <1>a, <2>2
    <3>2. CASE mine[v] = None
      BY <3>1, <3>2
    <3>3. CASE mine[v] # None
      <4>1. key[v] \in Keys
        BY <1>0, <3>1, <3>3
      <4>2. ASSUME key[v] \notin split' PROVE mine[v] = tracker'[key[v]]
        <5>1. key[v] \notin split /\ mine[v] = tracker[key[v]]
          BY <2>2, <3>1, <3>3, <4>2
        <5>2. key[v] # k
          BY <2>2, <3>3, <4>2, <5>1
        <5> QED BY <2>2, <4>1, <5>1, <5>2
      <4>3. \A j \in Keys : mine[v] = tracker'[j] => key[v] = j
        BY <2>2, <3>1, <3>3
      <4> QED BY <3>1, <4>2, <4>3, <1>0
    <3> QED BY <3>2, <3>3
  <2> QED BY <1>b, <2>3, <2>4, <2>5
<1>4. ASSUME NEW w \in Workers,
             Stamp(w) \/ Add(w) \/ Count(w) \/ Suppress(w) \/ Pass(w) \/ Report(w)
      PROVE  TrackersOwned'
  <2>1. UNCHANGED <<tracker, split>>
    BY <1>4 DEF Stamp, Add, Count, Suppress, Pass, Report
  <2>2. pc[w] \notin {"idle", "create"}
    BY <1>4 DEF Stamp, Add, Count, Suppress, Pass, Report
  <2>3. \/ mine'[w] = None
        \/ mine'[w] = mine[w] /\ key'[w] = key[w] /\ pc'[w] \notin {"idle", "create"}
    BY <1>0, <1>4 DEF Stamp, Add, Count, Suppress, Pass, Report, Done
  <2>4. \A v \in Workers \ {w} : key'[v] = key[v] /\ mine'[v] = mine[v] /\ pc'[v] = pc[v]
    BY <1>0, <1>4 DEF Stamp, Add, Count, Suppress, Pass, Report, Done
  <2>5. Owned(w)'
    BY <1>a, <2>1, <2>3
  <2>6. \A v \in Workers \ {w} : Owned(v)'
    BY <1>a, <2>1, <2>4
  <2>7. Unshared'
    BY <1>a, <2>1
  <2> QED BY <1>b, <2>5, <2>6, <2>7
<1> QED BY <1>1, <1>2, <1>3, <1>4 DEF Next

\* Dropping old times from a window leaves a window of the same times.
LEMMA DroppedLeft ==
  ASSUME NEW s \in Seq(Nat), NEW ts \in Seq(Nat), NEW d \in 0..Len(ts), NEW x \in Nat,
         LeftOf(s, ts, d), \A i \in 1..d : ts[i] + Window < x,
         NEW c \in 0..Len(s), \A i \in 1..c : s[i] + Window < x
  PROVE  \E e \in 0..Len(ts) : /\ LeftOf(SubSeq(s, c + 1, Len(s)), ts, e)
                               /\ \A i \in 1..e : ts[i] + Window < x
<1>1. PICK r : r = SubSeq(s, c + 1, Len(s))
  OBVIOUS
<1>2. /\ r \in Seq(Nat) /\ Len(r) = Len(s) - c
      /\ \A i \in 1..Len(r) : c + i \in 1..Len(s) /\ r[i] = s[c + i]
  BY <1>1, Dropped
<1>3. /\ Len(ts) = d + Len(s) /\ \A i \in 1..Len(s) : s[i] = ts[d + i]
      /\ Len(s) \in Nat /\ d \in Nat /\ c \in Nat /\ Len(ts) \in Nat /\ Len(r) \in Nat
  BY <1>2 DEF LeftOf
<1>4. PICK e \in Nat : e = d + c
  BY <1>3
<1>5. e \in 0..Len(ts) /\ Len(ts) = e + Len(r)
  BY <1>2, <1>3, <1>4
<1>6. ASSUME NEW i \in 1..Len(r) PROVE r[i] = ts[e + i]
  <2>1. c + i \in 1..Len(s) /\ r[i] = s[c + i] /\ d + (c + i) = e + i
    BY <1>2, <1>3, <1>4
  <2>2. s[c + i] = ts[d + (c + i)]
    BY <1>3, <2>1
  <2> QED BY <2>1, <2>2
<1>7. ASSUME NEW i \in 1..e PROVE ts[i] + Window < x
  <2>1. CASE i \in 1..d
    BY <2>1
  <2>2. CASE i \notin 1..d
    <3>1. i - d \in 1..c /\ i - d \in 1..Len(s) /\ d + (i - d) = i
      BY <1>3, <1>4, <2>2
    <3>2. s[i - d] + Window < x /\ s[i - d] = ts[d + (i - d)]
      BY <1>3, <3>1
    <3> QED BY <3>1, <3>2
  <2> QED BY <2>1, <2>2
<1>8. LeftOf(r, ts, e)
  BY <1>5, <1>6 DEF LeftOf
<1> QED BY <1>1, <1>5, <1>7, <1>8

\* Pruning does no more than that.
LEMMA PrunedLeft ==
  ASSUME NEW s \in Seq(Nat), NEW ts \in Seq(Nat), NEW d \in 0..Len(ts), NEW x \in Nat,
         LeftOf(s, ts, d), \A i \in 1..d : ts[i] + Window < x,
         NEW t \in Nat, t <= x
  PROVE  \E e \in 0..Len(ts) : /\ LeftOf(Prune(s, t), ts, e)
                               /\ \A i \in 1..e : ts[i] + Window < x
<1>1. PICK c \in 0..Len(s) : /\ Prune(s, t) = SubSeq(s, c + 1, Len(s))
                             /\ \A i \in 1..c : s[i] + Window < t
  BY PruneDrops
<1>2. ASSUME NEW i \in 1..c PROVE s[i] + Window < x
  <2>1. i \in 1..Len(s)
    OBVIOUS
  <2>2. s[i] \in Nat /\ Window \in Nat /\ s[i] + Window < t
    BY <1>1, <2>1, BehavioralAssumption
  <2> QED BY <2>2
<1>3. \E e \in 0..Len(ts) : /\ LeftOf(SubSeq(s, c + 1, Len(s)), ts, e)
                           /\ \A i \in 1..e : ts[i] + Window < x
  <2>1. \A i \in 1..c : s[i] + Window < x
    BY <1>2
  <2> QED BY <2>1, DroppedLeft, Zenon
<1> QED BY <1>1, <1>3

\* An event that is pushed is the last of the window and of the times.
LEMMA PushedLeft ==
  ASSUME NEW s \in Seq(Nat), NEW ts \in Seq(Nat), NEW d \in 0..Len(ts), NEW t \in Nat,
         LeftOf(s, ts, d)
  PROVE  /\ LeftOf(Append(s, t), Append(ts, t), d)
         /\ d \in 0..Len(Append(ts, t))
         /\ \A i \in 1..d : Append(ts, t)[i] = ts[i]
<1>1. PICK n \in Nat : n = Len(s)
  OBVIOUS
<1>2. /\ d \in Nat /\ Len(ts) = d + n /\ \A i \in 1..n : s[i] = ts[d + i]
  BY <1>1 DEF LeftOf
<1>3. PICK r \in Seq(Nat) : r = Append(s, t)
  BY AppendProperties
<1>4. PICK q \in Seq(Nat) : q = Append(ts, t)
  BY AppendProperties
<1>5. /\ Len(r) = n + 1 /\ r[n + 1] = t /\ \A i \in 1..n : r[i] = s[i]
  BY <1>1, <1>3, AppendProperties
<1>6. /\ Len(q) = d + n + 1 /\ q[d + n + 1] = t /\ \A i \in 1..(d + n) : q[i] = ts[i]
  BY <1>2, <1>4, AppendProperties
<1>7. ASSUME NEW i \in 1..(n + 1) PROVE r[i] = q[d + i]
  <2>1. CASE i = n + 1
    <3>1. d + i = d + n + 1
      BY <1>2, <2>1
    <3> QED BY <1>5, <1>6, <2>1, <3>1
  <2>2. CASE i # n + 1
    <3>1. i \in 1..n /\ d + i \in 1..(d + n)
      BY <1>2, <2>2
    <3> QED BY <1>2, <1>5, <1>6, <3>1
  <2> QED BY <2>1, <2>2
<1>8. Len(q) = d + Len(r) /\ d \in 0..Len(q)
  BY <1>2, <1>5, <1>6
<1>9. LeftOf(r, q, d)
  BY <1>5, <1>7, <1>8 DEF LeftOf
<1>10. \A i \in 1..d : i \in 1..(d + n)
  BY <1>2
<1> QED BY <1>3, <1>4, <1>6, <1>8, <1>9, <1>10

\* A window that holds fewer events than the threshold, and every one of times ts
\* that is not older than the window at time x.
Holds(s, ts, x) ==
  /\ Len(s) < Threshold
  /\ \E d \in 0..Len(ts) : LeftOf(s, ts, d) /\ \A i \in 1..d : ts[i] + Window < x

\* NothingForgotten, for one key.
Remembered(k) ==
  reached[k] = 0 => IF tracker[k] = None THEN times[k] = <<>>
                                         ELSE Holds(window[tracker[k]], times[k], clock)

LEMMA ForgottenByKey == NothingForgotten <=> \A k \in Keys \ split : Remembered(k)
BY DEF NothingForgotten, Remembered, Holds

\* It still does when it is pruned and when time passes.
LEMMA HoldsOn ==
  ASSUME NEW s \in Seq(Nat), NEW ts \in Seq(Nat), NEW x \in Nat, NEW y \in Nat, x <= y,
         Holds(s, ts, x), NEW t \in Nat, t <= y, NEW r, r = s \/ r = Prune(s, t)
  PROVE  Holds(r, ts, y)
<1>1. PICK d \in 0..Len(ts) : LeftOf(s, ts, d) /\ \A i \in 1..d : ts[i] + Window < x
  BY DEF Holds
<1>2. Len(s) < Threshold /\ Len(s) \in Nat /\ Threshold \in Nat
  BY BehavioralAssumption DEF Holds
<1>3. ASSUME NEW i \in 1..d PROVE ts[i] + Window < y
  <2>1. i \in 1..Len(ts)
    OBVIOUS
  <2>2. ts[i] \in Nat /\ Window \in Nat /\ ts[i] + Window < x
    BY <1>1, <2>1, BehavioralAssumption
  <2> QED BY <2>2
<1>4. CASE r = s
  BY <1>1, <1>2, <1>3, <1>4 DEF Holds
<1>5. CASE r = Prune(s, t)
  <2>1. Len(r) <= Len(s) /\ Len(r) \in Nat
    BY <1>5, PruneType, LenProperties
  <2>2. Len(r) < Threshold
    BY <1>2, <2>1
  <2>3. \E e \in 0..Len(ts) : LeftOf(r, ts, e) /\ \A i \in 1..e : ts[i] + Window < y
    BY <1>1, <1>3, <1>5, PrunedLeft
  <2> QED BY <2>2, <2>3 DEF Holds
<1> QED BY <1>4, <1>5

\* And when an event is added and the threshold is not reached.
LEMMA HoldsAdded ==
  ASSUME NEW s \in Seq(Nat), NEW ts \in Seq(Nat), NEW x \in Nat, Holds(s, ts, x),
         NEW t \in Nat, t <= x, Len(Prune(Push(s, t), t)) # Threshold
  PROVE  Holds(Prune(Push(s, t), t), Append(ts, t), x)
<1>1. PICK d \in 0..Len(ts) : LeftOf(s, ts, d) /\ \A i \in 1..d : ts[i] + Window < x
  BY DEF Holds
<1>2. PICK r \in Seq(Nat) : r = Append(s, t)
  BY AppendProperties
<1>3. Len(r) = Len(s) + 1 /\ Len(s) \in Nat /\ Len(s) < Threshold
      /\ Threshold \in Nat /\ MaxHistory \in Nat /\ Threshold <= MaxHistory
  BY <1>2, AppendProperties, BehavioralAssumption DEF Holds
<1>4. Push(s, t) = r
  <2>1. ~(Len(r) > MaxHistory)
    BY <1>3
  <2> QED BY <1>2, <2>1 DEF Push
<1>5. PICK q \in Seq(Nat) : q = Append(ts, t)
  BY AppendProperties
<1>6. LeftOf(r, q, d) /\ d \in 0..Len(q) /\ \A i \in 1..d : q[i] + Window < x
  BY <1>1, <1>2, <1>5, PushedLeft
<1>7. Len(Prune(r, t)) <= Len(r) /\ Len(Prune(r, t)) \in Nat
  BY PruneType, LenProperties
<1>8. Len(Prune(r, t)) < Threshold
  BY <1>3, <1>4, <1>7
<1>9. \E e \in 0..Len(q) : LeftOf(Prune(r, t), q, e) /\ \A i \in 1..e : q[i] + Window < x
  BY <1>6, PrunedLeft
<1> QED BY <1>4, <1>5, <1>8, <1>9 DEF Holds

\* Every step keeps what has not been counted in full.
LEMMA ForgottenNext ==
  ASSUME TypeOK, StampsPast, TrackersOwned, NothingForgotten, [Next]_vars
  PROVE  NothingForgotten'
<1>0. /\ clock \in Nat /\ None \notin Trackers \cup Keys /\ reached \in [Keys -> Nat]
      /\ tracker \in [Keys -> Trackers \cup {None}] /\ window \in [Trackers -> Seq(Nat)]
      /\ times \in [Keys -> Seq(Nat)] /\ mine \in [Workers -> Trackers \cup {None}]
      /\ now \in [Workers -> Nat] /\ split \subseteq Keys
  BY BehavioralAssumption DEF TypeOK
<1>a. \A k \in Keys \ split : Remembered(k)
  BY ForgottenByKey
<1>b. ASSUME \A k \in Keys \ split' : Remembered(k)' PROVE NothingForgotten'
  BY <1>b DEF NothingForgotten, Remembered, Holds
<1>1. ASSUME NEW k \in Keys \ split, reached'[k] = reached[k], tracker'[k] = tracker[k],
             times'[k] = times[k], clock' \in Nat, clock <= clock',
             tracker[k] # None => \/ window'[tracker[k]] = window[tracker[k]]
                                  \/ window'[tracker[k]] = Prune(window[tracker[k]], clock)
      PROVE  Remembered(k)'
  <2>1. CASE reached[k] # 0 \/ tracker[k] = None
    BY <1>1, <1>a, <2>1 DEF Remembered
  <2>2. CASE reached[k] = 0 /\ tracker[k] # None
    <3>1. PICK o \in Trackers : o = tracker[k]
      BY <1>0, <2>2
    <3>2. PICK s \in Seq(Nat) : s = window[o]
      BY <1>0
    <3>3. PICK ts \in Seq(Nat) : ts = times[k]
      BY <1>0
    <3>4. Holds(s, ts, clock)
      BY <1>a, <2>2, <3>1, <3>2, <3>3 DEF Remembered
    <3>5. Holds(window'[o], ts, clock')
      BY <1>0, <1>1, <2>2, <3>1, <3>2, <3>4, HoldsOn
    <3> QED BY <1>1, <2>2, <3>1, <3>3, <3>5 DEF Remembered
  <2> QED BY <2>1, <2>2
<1>2. CASE Tick \/ UNCHANGED vars
  <2>1. UNCHANGED <<reached, tracker, times, window, split>> /\ clock' \in Nat /\ clock <= clock'
    BY <1>0, <1>2 DEF Tick, vars
  <2> QED BY <1>b, <1>1, <2>1
<1>3. ASSUME NEW w \in Workers, Stamp(w) \/ Suppress(w) \/ Pass(w) \/ \E k \in Keys : LookUp(w, k)
      PROVE  NothingForgotten'
  <2>1. UNCHANGED <<reached, tracker, times, window, split, clock>>
    BY <1>3 DEF Stamp, Suppress, Pass, LookUp
  <2> QED BY <1>0, <1>b, <1>1, <2>1
<1>4. ASSUME NEW w \in Workers, Count(w) \/ Report(w) PROVE NothingForgotten'
  <2>1. UNCHANGED <<reached, tracker, times, split, clock>>
    BY <1>4 DEF Count, Report
  <2>2. mine[w] \in Trackers
    BY <1>4, AtWork DEF Count, Report
  <2>3. \A o \in Trackers : window'[o] = window[o] \/ window'[o] = Prune(window[o], clock)
    BY <1>0, <1>4, <2>2 DEF Count, Report
  <2>4. \A k \in Keys \ split : Remembered(k)'
    <3> TAKE k \in Keys \ split
    <3>1. reached'[k] = reached[k] /\ tracker'[k] = tracker[k] /\ times'[k] = times[k]
      BY <2>1
    <3>2. clock' \in Nat /\ clock <= clock'
      BY <1>0, <2>1
    <3>3. tracker[k] # None => tracker[k] \in Trackers
      BY <1>0
    <3>4. tracker[k] # None => \/ window'[tracker[k]] = window[tracker[k]]
                              \/ window'[tracker[k]] = Prune(window[tracker[k]], clock)
      BY <2>3, <3>3
    <3> QED BY <1>1, <3>1, <3>2, <3>4
  <2> QED BY <1>b, <2>1, <2>4
<1>5. ASSUME NEW w \in Workers, NEW o \in Trackers, Create(w, o) PROVE NothingForgotten'
  <2>1. PICK k \in Keys : k = key[w]
    BY <1>5 DEF Create, TypeOK
  <2>2. /\ tracker' = [tracker EXCEPT ![k] = o] /\ window[o] = <<>>
        /\ split' = IF tracker[k] = None THEN split ELSE split \cup {k}
        /\ UNCHANGED <<reached, times, window, clock>>
    BY <1>5, <2>1 DEF Create
  <2>3. \A j \in Keys \ (split' \cup {k}) : Remembered(j)'
    <3> TAKE j \in Keys \ (split' \cup {k})
    <3>1. j \in Keys \ split /\ tracker'[j] = tracker[j]
      BY <1>0, <2>2
    <3> QED BY <1>0, <1>1, <2>2, <3>1
  <2>4. ASSUME k \notin split' PROVE Remembered(k)'
    <3>1. k \in Keys \ split /\ tracker[k] = None /\ tracker'[k] = o /\ o # None
      BY <1>0, <2>2, <2>4
    <3>2. CASE reached[k] # 0
      BY <2>2, <3>2 DEF Remembered
    <3>3. CASE reached[k] = 0
      <4>1. times[k] = <<>>
        BY <1>a, <3>1, <3>3 DEF Remembered
      <4>2. LeftOf(<<>>, <<>>, 0) /\ 0 \in 0..Len(<<>>) /\ Len(<<>>) < Threshold
        BY BehavioralAssumption DEF LeftOf
      <4>3. \A i \in 1..0 : <<>>[i] + Window < clock
        OBVIOUS
      <4>4. Holds(<<>>, <<>>, clock)
        BY <4>2, <4>3 DEF Holds
      <4> QED BY <2>2, <3>1, <4>1, <4>4 DEF Remembered
    <3> QED BY <3>2, <3>3
  <2> QED BY <1>b, <2>3, <2>4
<1>6. ASSUME NEW w \in Workers, Add(w) PROVE NothingForgotten'
  <2>1. PICK k \in Keys : k = key[w]
    BY <1>6, AtWork DEF Add
  <2>2. PICK o \in Trackers : o = mine[w]
    BY <1>6, AtWork DEF Add
  <2>3. PICK t \in Nat : t = now[w]
    BY <1>0
  <2>4. PICK s \in Seq(Nat) : s = window[o]
    BY <1>0
  <2>5. PICK x : x = Prune(Push(s, t), t)
    OBVIOUS
  <2>6. /\ window' = [window EXCEPT ![o] = x]
        /\ times' = [times EXCEPT ![k] = Append(@, t)]
        /\ reached' = [reached EXCEPT ![k] = IF Len(x) = Threshold THEN 1 + clock ELSE @]
        /\ UNCHANGED <<tracker, split, clock>>
    BY <1>6, <2>1, <2>2, <2>3, <2>4, <2>5 DEF Add
  <2>7. /\ k \notin split => o = tracker[k]
        /\ \A j \in Keys : o = tracker[j] => k = j
    BY <1>0, <2>1, <2>2 DEF TrackersOwned
  <2>8. \A j \in Keys \ (split \cup {k}) : Remembered(j)'
    <3> TAKE j \in Keys \ (split \cup {k})
    <3>1. reached'[j] = reached[j] /\ times'[j] = times[j] /\ tracker[j] # o
      BY <1>0, <2>6, <2>7
    <3>2. tracker[j] # None => window'[tracker[j]] = window[tracker[j]]
      BY <1>0, <2>6, <3>1
    <3> QED BY <1>0, <1>1, <2>6, <3>1, <3>2
  <2>9. ASSUME k \notin split PROVE Remembered(k)'
    <3>1. o = tracker[k] /\ o # None /\ window'[o] = x
      BY <1>0, <2>6, <2>7, <2>9
    <3>2. PICK ts \in Seq(Nat) : ts = times[k]
      BY <1>0
    <3>3. times'[k] = Append(ts, t)
      BY <1>0, <2>6, <3>2
    <3>4. CASE reached'[k] # 0
      BY <3>4 DEF Remembered
    <3>5. CASE reached'[k] = 0
      <4>1. reached[k] = 0 /\ Len(x) # Threshold
        <5>1. reached'[k] = IF Len(x) = Threshold THEN 1 + clock ELSE reached[k]
          BY <1>0, <2>6
        <5> QED BY <1>0, <3>5, <5>1
      <4>2. Holds(s, ts, clock)
        BY <1>a, <2>4, <2>9, <3>1, <3>2, <4>1 DEF Remembered
      <4>3. t <= clock
        BY <2>3 DEF StampsPast
      <4>4. Holds(x, Append(ts, t), clock)
        BY <1>0, <2>5, <4>1, <4>2, <4>3, HoldsAdded
      <4> QED BY <2>6, <3>1, <3>3, <4>4 DEF Remembered
    <3> QED BY <3>4, <3>5
  <2> QED BY <1>b, <2>6, <2>8, <2>9
<1> QED BY <1>2, <1>3, <1>4, <1>5, <1>6 DEF Next

\* While a window holds every recent event there are fewer of them than the
\* threshold.
LEMMA FewRecent ==
  ASSUME NEW s \in Seq(Nat), NEW ts \in Seq(Nat), NEW x \in Nat, Holds(s, ts, x)
  PROVE  Cardinality({i \in 1..Len(ts) : ts[i] + Window >= x}) < Threshold
<1> DEFINE R == {i \in 1..Len(ts) : ts[i] + Window >= x}
<1>1. PICK d \in 0..Len(ts) : LeftOf(s, ts, d) /\ \A i \in 1..d : ts[i] + Window < x
  BY DEF Holds
<1>2. PICK m \in Nat : m = Len(ts)
  OBVIOUS
<1>3. PICK n \in Nat : n = Len(s)
  OBVIOUS
<1>4. m = d + n /\ d \in Nat /\ n < Threshold /\ Threshold \in Nat
  BY <1>1, <1>2, <1>3, BehavioralAssumption DEF LeftOf, Holds
<1>5. ASSUME NEW i \in R PROVE i \in d + 1 .. m
  <2>1. i \in 1..m /\ ts[i] \in Nat /\ ts[i] + Window >= x
    BY <1>2
  <2>2. i \notin 1..d
    <3> SUFFICES ASSUME i \in 1..d PROVE FALSE
      OBVIOUS
    <3>1. ts[i] + Window < x
      BY <1>1
    <3> QED BY <2>1, <3>1, BehavioralAssumption
  <2> QED BY <1>4, <2>1, <2>2
<1>6. R \subseteq d + 1 .. m
  BY <1>5
<1>7. IsFiniteSet(d + 1 .. m) /\ Cardinality(d + 1 .. m) = n
  <2>1. PICK l \in Nat : l = d + 1
    BY <1>4
  <2>2. IsFiniteSet(l..m) /\ Cardinality(l..m) = IF l > m THEN 0 ELSE m - l + 1
    BY FS_Interval
  <2> QED BY <1>4, <2>1, <2>2
<1> HIDE DEF R
<1>8. Cardinality(R) <= n /\ Cardinality(R) \in Nat
  BY <1>6, <1>7, FS_Subset, FS_CardinalityType
<1>9. Cardinality(R) < Threshold
  BY <1>4, <1>8
<1> QED BY <1>9 DEF R

-----------------------------------------------------------------------------
(* The theorems *)

\* Whatever events come and however the workers interleave, the detector's invariant
\* holds.
THEOREM Inductive == Spec => []IInv
<1>1. Init => IInv
  BY TypeInit, CooldownInit DEF IInv
<1>2. IInv /\ [Next]_vars => IInv'
  BY TypeNext, KeptNext, PassedNext DEF IInv
<1> QED BY <1>1, <1>2, PTL DEF Spec

\* The detector's variables keep their types, and no window outgrows its deque.
THEOREM TypeCorrect == Spec => []TypeOK
<1>1. IInv => TypeOK
  BY DEF IInv
<1> QED BY <1>1, Inductive, PTL

\* No worker reports a pattern twice within _detection_cooldown, although
\* _is_on_cooldown() and _set_cooldown() are two steps and take no lock.
THEOREM WorkerSpacesAlerts == Spec => AlertsSpaced
<1>1. IInv /\ [Next]_vars =>
        [\A w \in Workers, k \in Keys :
           alerted'[w][k] # alerted[w][k] /\ alerted[w][k] # 0
             => alerted'[w][k] - alerted[w][k] >= Cooldown]_vars
  BY ReportSpaced
<1> QED BY <1>1, Inductive, PTL DEF Spec, AlertsSpaced

\* Nobody but the other workers ever held an older stamp.
LEMMA HonestInductive == Spec => []HonestInv
<1>1. Init => HonestInv
  <2> SUFFICES ASSUME Init PROVE HonestInv
    OBVIOUS
  <2>1. \A o \in Trackers : window[o] = <<>> /\ Len(window[o]) = 0
    BY DEF Init
  <2>2. \A w \in Workers : now[w] <= clock
    BY DEF Init
  <2> QED BY <2>1, <2>2 DEF HonestInv, StampsPast, Honest
<1> QED BY <1>1, HonestNext, TypeCorrect, PTL DEF Spec

\* A count is too high by at most one event for every other worker (CountHonest),
\* although the clock is read before the tracker's lock is taken: what is left in
\* a window behind a newer event was stamped by a worker that was overtaken, and
\* one worker overtakes each of the others once.
THEOREM CountsHonest == Spec => []CountHonest
<1>1. TypeOK /\ HonestInv => CountHonest
  <2> SUFFICES ASSUME TypeOK, HonestInv, NEW o \in Trackers
               PROVE  Cardinality({i \in 1..Len(window[o]) : window[o][i] < window[o][1]})
                        < Cardinality(Workers)
    BY DEF CountHonest
  <2>1. PICK s \in Seq(Nat) : s = window[o]
    BY DEF TypeOK
  <2>2. PICK n \in Nat : n = Len(s)
    BY <2>1
  <2> DEFINE older == {i \in 1..Len(s) : s[i] < s[1]}
  <2>3. CASE n = 0
    <3>1. older = {}
      BY <2>2, <2>3
    <3>2. Cardinality(older) = 0
      BY <3>1, FS_EmptySet
    <3>3. Cardinality(Workers) \in Nat /\ Cardinality(Workers) # 0
      BY BehavioralAssumption, FS_CardinalityType, FS_EmptySet
    <3> HIDE DEF older
    <3>4. Cardinality(older) < Cardinality(Workers)
      BY <3>2, <3>3
    <3> QED BY <2>1, <3>4 DEF older
  <2>4. CASE n # 0
    <3>1. 1 \in 1..Len(s) /\ \A i \in 1..Len(s) : s[i] \in Nat
      BY <2>2, <2>4
    <3>2. older = Behind(s, 1)
      BY <2>2, <3>1 DEF Behind
    <3>3. Cardinality(Behind(s, 1)) + Cardinality(Late(Adding(o), now, s[1])) < Cardinality(Workers)
      BY <2>1, <3>1 DEF HonestInv, Honest
    <3>4. Cardinality(Late(Adding(o), now, s[1])) \in Nat
      <4>1. Adding(o) \in SUBSET Workers
        BY DEF Adding
      <4> QED BY <4>1, LateFinite
    <3>5. Cardinality(Behind(s, 1)) \in Nat /\ Cardinality(Workers) \in Nat
      BY <3>1, BehindFinite, BehavioralAssumption, FS_CardinalityType
    <3>6. Cardinality(Behind(s, 1)) < Cardinality(Workers)
      BY <3>3, <3>4, <3>5
    <3> QED BY <2>1, <3>2, <3>6
  <2> QED BY <2>3, <2>4
<1> QED BY <1>1, HonestInductive, TypeCorrect, PTL

\* BurstInv holds in every reachable state.
LEMMA BurstInductive == Spec => []BurstInv
<1>1. Init => BurstInv
  <2> SUFFICES ASSUME Init PROVE BurstInv
    OBVIOUS
  <2>1. \A w \in Workers : ~crossed[w] /\ mine[w] = None
    BY Zenon DEF Init
  <2>2. ReachedTold
    BY <2>1 DEF Init, ReachedTold
  <2>3. TrackersOwned
    <3>1. \A j, k \in Keys : tracker[j] = tracker[k] /\ tracker[k] # None => j = k
      BY BehavioralAssumption DEF Init
    <3> QED BY <2>1, <3>1 DEF TrackersOwned
  <2>4. NothingForgotten
    <3>1. LeftOf(<<>>, <<>>, 0) /\ 0 \in 0..Len(<<>>) /\ Len(<<>>) < Threshold
      BY BehavioralAssumption DEF LeftOf
    <3>2. \A i \in 1..0 : <<>>[i] + Window < clock
      OBVIOUS
    <3>3. Holds(<<>>, <<>>, clock)
      BY <3>1, <3>2 DEF Holds
    <3>4. \A k \in Keys : times[k] = <<>> /\ (tracker[k] # None => window[tracker[k]] = <<>>)
      BY DEF Init
    <3>5. \A k \in Keys : Remembered(k)
      BY <3>3, <3>4 DEF Remembered
    <3> QED BY <3>5, ForgottenByKey
  <2> QED BY <2>2, <2>3, <2>4 DEF BurstInv
<1>2. TypeOK /\ HonestInv /\ BurstInv /\ [Next]_vars => BurstInv'
  BY ToldNext, OwnedNext, ForgottenNext DEF BurstInv, HonestInv
<1> QED BY <1>1, <1>2, TypeCorrect, HonestInductive, PTL DEF Spec

\* A burst is reported (BurstReported): when as many events as the threshold lie in
\* the window of a key with one tracker and are handled, there has been an alert,
\* and it was in force when the threshold was last reached, although the count,
\* the test of the cooldown and the report are three steps between which other
\* workers add, prune and report.
THEOREM BurstsReported == Spec => []BurstReported
<1>1. TypeOK /\ BurstInv => BurstReported
  <2> SUFFICES ASSUME TypeOK, BurstInv, NEW k \in Keys \ split, Quiet(k), Recent(k) >= Threshold
               PROVE  last[k] # 0 /\ reached[k] < last[k] + Cooldown
    BY DEF BurstReported
  <2>1. Remembered(k)
    BY ForgottenByKey DEF BurstInv
  <2>2. reached[k] # 0
    <3> SUFFICES ASSUME reached[k] = 0 PROVE FALSE
      OBVIOUS
    <3>1. Threshold \in Nat \ {0} /\ clock \in Nat /\ times[k] \in Seq(Nat)
      BY BehavioralAssumption DEF TypeOK
    <3>2. PICK ts \in Seq(Nat) : ts = times[k]
      BY <3>1
    <3> DEFINE R == {i \in 1..Len(ts) : ts[i] + Window >= clock}
    <3>3. Recent(k) = Cardinality(R)
      BY <3>2 DEF Recent
    <3>4. IsFiniteSet(R)
      <4>1. PICK n \in Nat : n = Len(ts)
        OBVIOUS
      <4>2. R \subseteq 1..n
        BY <4>1
      <4> HIDE DEF R
      <4> QED BY <4>2, FirstNumbers, FS_Subset
    <3>5. Cardinality(R) < Threshold
      <4>1. CASE tracker[k] = None
        <5>1. ts = <<>>
          BY <2>1, <3>2, <4>1 DEF Remembered
        <5>2. R = {}
          BY <5>1
        <5>3. Cardinality(R) = 0
          <6> HIDE DEF R
          <6> QED BY <5>2, FS_EmptySet
        <5> HIDE DEF R
        <5> QED BY <3>1, <5>3
      <4>2. CASE tracker[k] # None
        <5>1. Holds(window[tracker[k]], ts, clock)
          BY <2>1, <3>2, <4>2 DEF Remembered
        <5>2. window[tracker[k]] \in Seq(Nat)
          BY <4>2 DEF TypeOK
        <5> QED BY <3>1, <5>1, <5>2, FewRecent
      <4> QED BY <4>1, <4>2
    <3> HIDE DEF R
    <3>6. Cardinality(R) \in Nat
      BY <3>4, FS_CardinalityType
    <3> QED BY <3>1, <3>3, <3>5, <3>6
  <2>3. \A w \in Workers : key[w] # k
    BY DEF Quiet
  <2> QED BY <2>2, <2>3 DEF BurstInv, ReachedTold
<1> QED BY <1>1, BurstInductive, TypeCorrect, PTL

-----------------------------------------------------------------------------
(* The correlation engine *)

LEMMA ChainsCount == ASSUME NEW S PROVE Chains!Cardinality(S) = Cardinality(S)
BY DEF Chains!Cardinality, Cardinality

Entries == [event : Inputs, stamp : Nat, at : Nat]

\* What process_event() adds to what was handled.
Handles(w, n) ==
  /\ n = Len(handled)
  /\ handled' \in Seq(Entries) /\ Len(handled') = n + 1
  /\ \A i \in 1..n : handled'[i] = handled[i]
  /\ handled'[n + 1].event = inHand[w].event
  /\ handled'[n + 1].stamp = inHand[w].stamp
  /\ handled'[n + 1].at = tick

LEMMA HandledGrows ==
  ASSUME Chains!TypeOK, NEW w \in Workers, Chains!ProcessEvent(w)
  PROVE  /\ \E n \in Nat : Handles(w, n)
         /\ inHand[w].event \in Inputs /\ inHand[w].stamp \in Nat /\ inHand[w].stamp <= tick
         /\ tick' = tick
<1>1. PICK n \in Nat : n = Len(handled)
  BY LenProperties DEF Chains!TypeOK
<1>2. inHand[w] \in [event : Inputs, stamp : Nat] /\ inHand[w].stamp <= tick
  BY DEF Chains!TypeOK, Chains!ProcessEvent
<1>3. PICK r \in Entries : r = [event |-> inHand[w].event, stamp |-> inHand[w].stamp, at |-> tick]
  BY <1>2 DEF Chains!TypeOK, Entries
<1>4. handled \in Seq(Entries)
  BY DEF Chains!TypeOK, Entries
<1>5. handled' = Append(handled, r)
  BY <1>3 DEF Chains!ProcessEvent
<1>6. /\ handled' \in Seq(Entries) /\ Len(handled') = n + 1
      /\ \A i \in 1..n : handled'[i] = handled[i]
      /\ handled'[n + 1] = r
  BY <1>1, <1>4, <1>5, AppendProperties
<1>7. Handles(w, n)
  BY <1>1, <1>3, <1>6 DEF Handles
<1>8. tick' = tick
  BY DEF Chains!ProcessEvent
<1> QED BY <1>2, <1>7, <1>8

\* The failures of a source, and those of a step.
LEMMA FailedGrows ==
  ASSUME NEW w \in Workers, NEW n \in Nat, Handles(w, n), NEW s
  PROVE  /\ Chains!Failed(s)' = IF inHand[w].event.type = "failure" /\ inHand[w].event.source = s
                         THEN Chains!Failed(s) \cup {n + 1} ELSE Chains!Failed(s)
         /\ Chains!Failed(s) \subseteq 1..n /\ n + 1 \notin Chains!Failed(s)
<1>1. 1..(n + 1) = 1..n \cup {n + 1} /\ n + 1 \notin 1..n
  OBVIOUS
<1>2. Chains!Failed(s)' = {i \in 1..(n + 1) : handled'[i].event.type = "failure"
                                      /\ handled'[i].event.source = s}
  BY DEF Chains!Failed, Handles
<1>3. Chains!Failed(s) =
        {i \in 1..n : handled[i].event.type = "failure" /\ handled[i].event.source = s}
  BY DEF Chains!Failed, Handles
<1>4. \A i \in 1..n : handled'[i].event = handled[i].event
  BY DEF Handles
<1>5. handled'[n + 1].event = inHand[w].event
  BY DEF Handles
<1> QED BY <1>1, <1>2, <1>3, <1>4, <1>5

\* What is in force later was so before.
LEMMA YoungBefore ==
  ASSUME NEW w \in Workers, NEW n \in Nat, Handles(w, n), tick' = tick, NEW i \in 1..n
  PROVE  Chains!Young(i)' <=> Chains!Young(i)
BY DEF Handles, Chains!Young

LEMMA OfficeNext ==
  ASSUME Chains!TypeOK, Chains!OfficeRemembered, NEW w \in Workers, Chains!ProcessEvent(w)
  PROVE  Chains!OfficeRemembered'
<1>1. PICK n \in Nat : Handles(w, n)
  BY HandledGrows
<1>2. tick' = tick /\ office' = Chains!OfficeAfter(inHand[w].event, inHand[w].stamp)
  BY DEF Chains!ProcessEvent
<1> SUFFICES ASSUME NEW i \in 1..(n + 1),
                    handled'[i].event.type = "process",
                    handled'[i].event.app \in Apps, Chains!Young(i)',
                    ~ \E j \in 1..(n + 1) :
                        /\ j > i /\ handled'[j].event.type = "network"
                        /\ handled'[j].event.pid = handled'[i].event.pid
             PROVE  [pid |-> handled'[i].event.pid, app |-> handled'[i].event.app,
                     started |-> handled'[i].stamp, stage |-> 1] \in office'
  BY <1>1 DEF Chains!OfficeRemembered, Handles
<1> DEFINE e == inHand[w].event
           c == [pid |-> handled'[i].event.pid, app |-> handled'[i].event.app,
                 started |-> handled'[i].stamp, stage |-> 1]
<1>3. CASE i = n + 1
  <2>1. handled'[i].event = e /\ handled'[i].stamp = inHand[w].stamp
    BY <1>1, <1>3 DEF Handles
  <2>2. c = [pid |-> e.pid, app |-> e.app, started |-> inHand[w].stamp, stage |-> 1]
    BY <2>1
  <2>3. e.type = "process" /\ e.app \in {b \in Apps : e.type = "process" /\ e.app = b}
    BY <2>1
  <2> QED BY <1>2, <2>2, <2>3 DEF Chains!OfficeAfter
<1>4. CASE i \in 1..n
  <2>1. handled'[i] = handled[i] /\ Len(handled) = n
    BY <1>1, <1>4 DEF Handles
  <2>2. Chains!Young(i)
    BY <1>1, <1>2, <1>4, YoungBefore
  <2>3. ~ \E j \in 1..n :
            /\ j > i /\ handled[j].event.type = "network"
            /\ handled[j].event.pid = handled[i].event.pid
    <3> SUFFICES ASSUME NEW j \in 1..n, j > i, handled[j].event.type = "network",
                        handled[j].event.pid = handled[i].event.pid
                 PROVE  FALSE
      OBVIOUS
    <3>1. handled'[j] = handled[j] /\ j \in 1..(n + 1)
      BY <1>1 DEF Handles
    <3> QED BY <2>1, <3>1
  <2>4. c \in office
    BY <1>4, <2>1, <2>2, <2>3 DEF Chains!OfficeRemembered
  <2>5. c \in Chains!LiveChains(office)
    BY <2>1, <2>2, <2>4 DEF Chains!LiveChains, Chains!Live, Chains!Young
  <2>6. c \notin Chains!Connected(e)
    <3> SUFFICES ASSUME e.type = "network", c.pid = e.pid PROVE FALSE
      BY DEF Chains!Connected
    <3>1. /\ n + 1 \in 1..(n + 1) /\ n + 1 > i
          /\ handled'[n + 1].event = e
      BY <1>1, <1>4 DEF Handles
    <3> QED BY <3>1
  <2> QED BY <1>2, <2>5, <2>6 DEF Chains!OfficeAfter
<1> QED BY <1>3, <1>4

LEMMA DownloadsNext ==
  ASSUME Chains!TypeOK, Chains!DownloadsRemembered, NEW w \in Workers, Chains!ProcessEvent(w)
  PROVE  Chains!DownloadsRemembered'
<1>1. PICK n \in Nat : Handles(w, n)
  BY HandledGrows
<1>2. tick' = tick /\ downloads' = Chains!DownloadsAfter(inHand[w].event, inHand[w].stamp)
  BY DEF Chains!ProcessEvent
<1> SUFFICES ASSUME NEW i \in 1..(n + 1),
                    handled'[i].event.type = "file",
                    handled'[i].event.image \in Images, Chains!Young(i)'
             PROVE  [image |-> handled'[i].event.image, started |-> handled'[i].stamp]
                      \in downloads'
  BY <1>1 DEF Chains!DownloadsRemembered, Handles
<1>3. CASE i = n + 1
  <2>1. handled'[i].event = inHand[w].event /\ handled'[i].stamp = inHand[w].stamp
    BY <1>1, <1>3 DEF Handles
  <2> QED BY <1>2, <2>1 DEF Chains!DownloadsAfter
<1>4. CASE i \in 1..n
  <2>1. handled'[i] = handled[i] /\ Len(handled) = n
    BY <1>1, <1>4 DEF Handles
  <2>2. Chains!Young(i)
    BY <1>1, <1>2, <1>4, YoungBefore
  <2>3. [image |-> handled[i].event.image, started |-> handled[i].stamp] \in downloads
    BY <1>4, <2>1, <2>2 DEF Chains!DownloadsRemembered
  <2> QED
    BY <1>2, <2>1, <2>2, <2>3 DEF Chains!DownloadsAfter, Chains!LiveChains, Chains!Live,
              Chains!Young
<1> QED BY <1>3, <1>4

\* The failures are numbers of events.
LEMMA FailedFinite ==
  ASSUME Chains!TypeOK, NEW s
  PROVE  IsFiniteSet(Chains!Failed(s)) /\ Chains!Cardinality(Chains!Failed(s)) \in Nat
         /\ IsFiniteSet(Chains!Since(s)) /\ Chains!Cardinality(Chains!Since(s)) \in Nat
<1>1. PICK n \in Nat : n = Len(handled)
  BY LenProperties DEF Chains!TypeOK
<1>2. IsFiniteSet(1..n)
  BY FS_Interval
<1>3. Chains!Failed(s) \subseteq 1..n /\ Chains!Since(s) \subseteq 1..n
  BY <1>1 DEF Chains!Failed, Chains!Since
<1> QED BY <1>2, <1>3, FS_Subset, FS_CardinalityType, ChainsCount

LEMMA FailuresNext ==
  ASSUME Chains!TypeOK, Chains!FailuresCounted, NEW w \in Workers, Chains!ProcessEvent(w)
  PROVE  Chains!FailuresCounted'
<1>1. PICK n \in Nat : Handles(w, n)
  BY HandledGrows
<1>2. tick' = tick /\ failures' = Chains!FailuresAfter(inHand[w].event, inHand[w].stamp)
  BY DEF Chains!ProcessEvent
<1> SUFFICES ASSUME NEW s \in Sources, \A i \in Chains!Failed(s)' : Chains!Young(i)'
             PROVE  /\ failures'[s].count = Chains!Cardinality(Chains!Failed(s)')
                    /\ Chains!Failed(s)' # {} =>
                         \E i \in Chains!Failed(s)' : failures'[s].started = handled'[i].stamp
  BY DEF Chains!FailuresCounted
<1> DEFINE fails == inHand[w].event.type = "failure" /\ inHand[w].event.source = s
<1>3. /\ Chains!Failed(s)' = IF fails THEN Chains!Failed(s) \cup {n + 1} ELSE Chains!Failed(s)
      /\ Chains!Failed(s) \subseteq 1..n /\ n + 1 \notin Chains!Failed(s)
  BY <1>1, FailedGrows
<1>4. \A i \in Chains!Failed(s) : Chains!Young(i) /\ handled'[i] = handled[i]
  BY <1>1, <1>2, <1>3, YoungBefore DEF Handles
<1>5. /\ failures[s].count = Chains!Cardinality(Chains!Failed(s))
      /\ Chains!Failed(s) # {} =>
           \E i \in Chains!Failed(s) : failures[s].started = handled[i].stamp
  BY <1>4 DEF Chains!FailuresCounted
<1>6. PICK m \in Nat : m = Chains!Cardinality(Chains!Failed(s))
  BY FailedFinite
<1>7. Chains!Failed(s) = {} <=> m = 0
  BY <1>6, FailedFinite, FS_EmptySet, ChainsCount
<1>8. Chains!LiveCount(s) = m
  <2>1. CASE Chains!Failed(s) = {}
    BY <1>5, <1>6, <1>7, <2>1 DEF Chains!LiveCount
  <2>2. CASE Chains!Failed(s) # {}
    <3>1. Chains!Live(failures[s].started)
      BY <1>4, <1>5, <2>2 DEF Chains!Live, Chains!Young
    <3> QED BY <1>5, <1>6, <3>1 DEF Chains!LiveCount
  <2> QED BY <2>1, <2>2
<1>9. CASE fails
  <2>1. failures'[s] = [count |-> m + 1,
                        started |-> IF m = 0 THEN inHand[w].stamp
                                    ELSE IF m = 0 THEN 0 ELSE failures[s].started]
    BY <1>2, <1>8, <1>9 DEF Chains!FailuresAfter
  <2>2. Chains!Failed(s)' = Chains!Failed(s) \cup {n + 1}
    BY <1>3, <1>9
  <2>3. Chains!Cardinality(Chains!Failed(s)') = m + 1
    BY <1>3, <1>6, <2>2, FailedFinite, FS_AddElement, ChainsCount
  <2>4. CASE m = 0
    <3>1. n + 1 \in Chains!Failed(s)' /\ failures'[s].started = handled'[n + 1].stamp
      BY <1>1, <2>1, <2>2, <2>4 DEF Handles
    <3> QED BY <2>1, <2>3, <3>1
  <2>5. CASE m # 0
    <3>1. PICK i \in Chains!Failed(s) : failures[s].started = handled[i].stamp
      BY <1>5, <1>7, <2>5
    <3>2. i \in Chains!Failed(s)' /\ failures'[s].started = handled'[i].stamp
      BY <1>4, <2>1, <2>2, <2>5, <3>1
    <3> QED BY <2>1, <2>3, <3>2
  <2> QED BY <2>4, <2>5
<1>10. CASE ~fails
  <2>1. failures'[s] = [count |-> m, started |-> IF m = 0 THEN 0 ELSE failures[s].started]
    BY <1>2, <1>8, <1>10 DEF Chains!FailuresAfter
  <2>2. Chains!Failed(s)' = Chains!Failed(s)
    BY <1>3, <1>10
  <2>3. Chains!Failed(s) # {} =>
          \E i \in Chains!Failed(s) : failures'[s].started = handled'[i].stamp
    BY <1>4, <1>5, <1>7, <2>1
  <2> QED BY <1>6, <2>1, <2>2, <2>3
<1> QED BY <1>9, <1>10

LEMMA CountsNext ==
  ASSUME Chains!TypeOK, Chains!CountsGrounded, NEW w \in Workers, Chains!ProcessEvent(w)
  PROVE  Chains!CountsGrounded'
<1>1. PICK n \in Nat : Handles(w, n)
  BY HandledGrows
<1>2. /\ failures' = Chains!FailuresAfter(inHand[w].event, inHand[w].stamp)
      /\ tick \in Nat /\ tick' = tick
  BY DEF Chains!ProcessEvent, Chains!TypeOK
<1> SUFFICES ASSUME NEW s \in Sources
             PROVE  failures'[s].count <= Chains!Cardinality(Chains!Since(s)')
  BY DEF Chains!CountsGrounded
<1> DEFINE fails == inHand[w].event.type = "failure" /\ inHand[w].event.source = s
<1>3. /\ Chains!Failed(s)' = IF fails THEN Chains!Failed(s) \cup {n + 1} ELSE Chains!Failed(s)
      /\ Chains!Failed(s) \subseteq 1..n /\ n + 1 \notin Chains!Failed(s)
  BY <1>1, FailedGrows
<1>4. \A i \in Chains!Failed(s) : handled'[i] = handled[i]
  BY <1>1, <1>3 DEF Handles
<1>5. /\ failures[s].count \in Nat /\ failures[s].started \in Nat
      /\ failures[s].count <= Chains!Cardinality(Chains!Since(s))
  BY DEF Chains!CountsGrounded, Chains!TypeOK
<1>6. PICK m \in Nat : m = Chains!LiveCount(s)
  BY <1>5 DEF Chains!LiveCount
<1>7. m # 0 => m <= Chains!Cardinality(Chains!Since(s))
  BY <1>5, <1>6 DEF Chains!LiveCount
<1>8. IsFiniteSet(Chains!Since(s)') /\ Chains!Cardinality(Chains!Since(s)') \in Nat
  <2>1. IsFiniteSet(1..(n + 1))
    BY FS_Interval
  <2>2. Chains!Since(s)' \subseteq 1..(n + 1)
    BY <1>1 DEF Chains!Since, Chains!Failed, Handles
  <2> QED BY <2>1, <2>2, FS_Subset, FS_CardinalityType, ChainsCount
<1>9. IsFiniteSet(Chains!Since(s)) /\ Chains!Cardinality(Chains!Since(s)) \in Nat
  BY FailedFinite
<1>10. CASE fails
  <2>1. failures'[s] = [count |-> m + 1,
                        started |-> IF m = 0 THEN inHand[w].stamp
                                    ELSE IF m = 0 THEN 0 ELSE failures[s].started]
    BY <1>2, <1>6, <1>10 DEF Chains!FailuresAfter
  <2>2. CASE m = 0
    <3>1. failures'[s].count = 1 /\ failures'[s].started = inHand[w].stamp
      BY <2>1, <2>2
    <3>2. handled'[n + 1].at >= failures'[s].started
      BY <1>1, <1>2, <3>1, HandledGrows DEF Handles
    <3>3. n + 1 \in Chains!Since(s)'
      BY <1>3, <1>10, <3>2 DEF Chains!Since
    <3>4. Chains!Cardinality(Chains!Since(s)') # 0
      BY <1>8, <3>3, FS_EmptySet, ChainsCount
    <3> QED BY <1>8, <3>1, <3>4
  <2>3. CASE m # 0
    <3>1. failures'[s].count = m + 1 /\ failures'[s].started = failures[s].started
      BY <2>1, <2>3
    <3>2. handled'[n + 1].at >= failures[s].started
      <4>1. handled'[n + 1].at = tick
        BY <1>1 DEF Handles
      <4>2. PICK i : i \in Chains!Since(s)
        BY <1>7, <1>9, <2>3, FS_EmptySet, ChainsCount
      <4>3. handled[i].at \in Nat /\ handled[i].at >= failures[s].started /\ handled[i].at <= tick
        <5>1. i \in 1..n /\ n = Len(handled) /\ handled \in Seq(Entries)
          BY <1>1, <1>3, <4>2 DEF Chains!Since, Handles, Chains!TypeOK, Entries
        <5>2. handled[i] \in Entries
          BY <5>1, LenProperties
        <5>3. handled[i].at \in Nat
          BY <5>2 DEF Entries
        <5> QED BY <4>2, <5>1, <5>3 DEF Chains!Since, Chains!TypeOK
      <4> QED BY <1>2, <1>5, <4>1, <4>3
    <3>3. Chains!Since(s) \cup {n + 1} \subseteq Chains!Since(s)'
      BY <1>3, <1>4, <1>10, <3>1, <3>2 DEF Chains!Since
    <3>4. n + 1 \notin Chains!Since(s)
      BY <1>3 DEF Chains!Since
    <3>5. Chains!Cardinality(Chains!Since(s) \cup {n + 1}) = Chains!Cardinality(Chains!Since(s)) + 1
      BY <1>9, <3>4, FS_AddElement, ChainsCount
    <3>6. Chains!Cardinality(Chains!Since(s) \cup {n + 1}) <= Chains!Cardinality(Chains!Since(s)')
      BY <1>8, <3>3, FS_Subset, ChainsCount
    <3> QED BY <1>7, <1>8, <1>9, <2>3, <3>1, <3>5, <3>6
  <2> QED BY <2>2, <2>3
<1>11. CASE ~fails
  <2>1. failures'[s] = [count |-> m, started |-> IF m = 0 THEN 0 ELSE failures[s].started]
    BY <1>2, <1>6, <1>11 DEF Chains!FailuresAfter
  <2>2. CASE m = 0
    BY <1>8, <2>1, <2>2
  <2>3. CASE m # 0
    <3>1. failures'[s].count = m /\ failures'[s].started = failures[s].started
      BY <2>1, <2>3
    <3>2. Chains!Since(s) \subseteq Chains!Since(s)'
      BY <1>3, <1>4, <1>11, <3>1 DEF Chains!Since
    <3>3. Chains!Cardinality(Chains!Since(s)) <= Chains!Cardinality(Chains!Since(s)')
      BY <1>8, <3>2, FS_Subset, ChainsCount
    <3> QED BY <1>7, <1>8, <1>9, <2>3, <3>1, <3>3
  <2> QED BY <2>2, <2>3
<1> QED BY <1>10, <1>11

\* An event goes to the end of the history, which may lose its oldest.
Remembers(t, s, r, l) ==
  \/ /\ l < ChainHistory /\ Len(t) = l + 1 /\ t[l + 1] = r
     /\ \A j \in 1..l : t[j] = s[j]
  \/ /\ l = ChainHistory /\ Len(t) = l /\ t[l] = r
     /\ \A j \in 1..(l - 1) : t[j] = s[j + 1]

LEMMA RememberKeeps ==
  ASSUME NEW T, NEW s \in Seq(T), NEW r \in T, NEW l \in Nat, l = Len(s), l <= ChainHistory
  PROVE  \E t \in Seq(T) : t = Chains!Remember(s, r) /\ Remembers(t, s, r, l)
<1>1. PICK a \in Seq(T) : a = Append(s, r)
  BY AppendProperties
<1>2. Len(a) = l + 1 /\ a # <<>> /\ a[l + 1] = r /\ \A j \in 1..l : a[j] = s[j]
  BY <1>1, AppendProperties
<1>3. CASE l < ChainHistory
  <2>1. Chains!Remember(s, r) = a
    BY <1>1, <1>2, <1>3, ChainsAssumption DEF Chains!Remember
  <2>2. Remembers(a, s, r, l)
    BY <1>2, <1>3 DEF Remembers
  <2> QED BY <2>1, <2>2
<1>4. CASE l = ChainHistory
  <2>1. Chains!Remember(s, r) = Tail(a)
    BY <1>1, <1>2, <1>4, ChainsAssumption DEF Chains!Remember
  <2>2. PICK t \in Seq(T) : t = Tail(a) /\ Len(t) = l /\ \A j \in 1..l : t[j] = a[j + 1]
    <3>1. Tail(a) \in Seq(T) /\ Len(Tail(a)) = Len(a) - 1
      BY <1>2, HeadTailProperties
    <3>2. \A j \in 1..Len(Tail(a)) : Tail(a)[j] = a[j + 1]
      BY <1>2, HeadTailProperties
    <3>3. Len(a) - 1 = l
      BY <1>2
    <3> QED BY <3>1, <3>2, <3>3
  <2>3. \A j \in 1..(l - 1) : t[j] = s[j + 1]
    <3> SUFFICES ASSUME NEW j \in 1..(l - 1) PROVE t[j] = s[j + 1]
      OBVIOUS
    <3>1. j \in 1..l /\ j + 1 \in 1..l
      OBVIOUS
    <3> QED BY <1>2, <2>2, <3>1
  <2>4. t[l] = r
    <3>1. l \in 1..l
      BY <1>4, ChainsAssumption
    <3> QED BY <1>2, <2>2, <3>1
  <2>5. Remembers(t, s, r, l)
    BY <1>4, <2>2, <2>3, <2>4 DEF Remembers
  <2> QED BY <2>1, <2>2, <2>5
<1> QED BY <1>3, <1>4, ChainsAssumption

LEMMA HistoryNext ==
  ASSUME Chains!TypeOK, Chains!HistoryIsLast, NEW w \in Workers, Chains!ProcessEvent(w)
  PROVE  /\ Chains!HistoryIsLast'
         /\ history' \in Seq([event : Inputs, stamp : Nat]) /\ Len(history') <= ChainHistory
<1>1. PICK n \in Nat : Handles(w, n)
  BY HandledGrows
<1>2. PICK l \in Nat : l = Len(history)
  BY LenProperties DEF Chains!TypeOK
<1>3. PICK t \in Seq([event : Inputs, stamp : Nat]) :
        t = history' /\ Remembers(t, history, inHand[w], l)
  <2>1. inHand[w] \in [event : Inputs, stamp : Nat]
    BY DEF Chains!TypeOK, Chains!ProcessEvent
  <2>2. history' = Chains!Remember(history, inHand[w])
    BY DEF Chains!ProcessEvent
  <2>3. history \in Seq([event : Inputs, stamp : Nat]) /\ l <= ChainHistory
    BY <1>2 DEF Chains!TypeOK
  <2>4. PICK T : T = [event : Inputs, stamp : Nat]
    OBVIOUS
  <2>5. PICK r \in T : r = inHand[w]
    BY <2>1, <2>4
  <2>6. PICK s \in Seq(T) : s = history
    BY <2>3, <2>4
  <2>8. l = Len(s) /\ l <= ChainHistory
    BY <1>2, <2>3, <2>6
  <2>7. \E t \in Seq(T) : t = Chains!Remember(s, r) /\ Remembers(t, s, r, l)
    BY <2>8, RememberKeeps
  <2> QED BY <2>2, <2>4, <2>5, <2>6, <2>7
<1>4. /\ l <= n /\ (l = n \/ l >= ChainHistory)
      /\ \A j \in 1..l :
           /\ history[j].event = handled[n - l + j].event
           /\ history[j].stamp = handled[n - l + j].stamp
  BY <1>1, <1>2 DEF Chains!HistoryIsLast, Handles
<1>5. CASE l < ChainHistory
  <2>1. Len(t) = l + 1 /\ t[l + 1] = inHand[w] /\ l = n /\ \A j \in 1..l : t[j] = history[j]
    BY <1>3, <1>4, <1>5, ChainsAssumption DEF Remembers
  <2>2. ASSUME NEW j \in 1..(l + 1)
        PROVE  t[j].event = handled'[j].event /\ t[j].stamp = handled'[j].stamp
    <3>1. CASE j = l + 1
      BY <1>1, <2>1, <3>1 DEF Handles
    <3>2. CASE j \in 1..l
      <4>1. n - l + j = j
        BY <2>1
      <4> QED BY <1>1, <1>4, <2>1, <3>2, <4>1 DEF Handles
    <3> QED BY <3>1, <3>2
  <2>3. Len(handled') = l + 1 /\ \A j \in 1..(l + 1) : (l + 1) - (l + 1) + j = j
    BY <1>1, <2>1 DEF Handles
  <2>4. Chains!HistoryIsLast'
    BY <1>3, <2>1, <2>2, <2>3 DEF Chains!HistoryIsLast
  <2> QED BY <1>3, <1>5, <2>1, <2>4, ChainsAssumption
<1>6. CASE l = ChainHistory
  <2>1. Len(t) = l /\ t[l] = inHand[w] /\ \A j \in 1..(l - 1) : t[j] = history[j + 1]
    BY <1>3, <1>6, ChainsAssumption DEF Remembers
  <2>2. ASSUME NEW j \in 1..l
        PROVE  /\ t[j].event = handled'[(n + 1) - l + j].event
               /\ t[j].stamp = handled'[(n + 1) - l + j].stamp
    <3>1. CASE j = l
      <4>1. (n + 1) - l + j = n + 1
        BY <3>1
      <4> QED BY <1>1, <2>1, <3>1, <4>1 DEF Handles
    <3>2. CASE j \in 1..(l - 1)
      <4>1. j + 1 \in 1..l /\ (n + 1) - l + j = n - l + (j + 1) /\ n - l + (j + 1) \in 1..n
        <5>1. l <= n
          BY <1>4
        <5>2. j \in Int /\ 1 <= j /\ j <= l - 1
          BY <3>2
        <5> QED BY <5>1, <5>2
      <4>2. handled'[n - l + (j + 1)] = handled[n - l + (j + 1)]
        BY <1>1, <4>1 DEF Handles
      <4> QED BY <1>4, <2>1, <3>2, <4>1, <4>2
    <3> QED BY <3>1, <3>2
  <2>3. Len(handled') = n + 1 /\ l <= n + 1
    BY <1>1, <1>4 DEF Handles
  <2>4. Chains!HistoryIsLast'
    BY <1>3, <1>6, <2>1, <2>2, <2>3, ChainsAssumption DEF Chains!HistoryIsLast
  <2> QED BY <1>3, <1>6, <2>1, <2>4, ChainsAssumption
<1>7. l < ChainHistory \/ l = ChainHistory
  BY <1>3 DEF Remembers
<1> QED BY <1>5, <1>6, <1>7

LEMMA CooldownsNext ==
  ASSUME Chains!TypeOK, Chains!CooldownsReported, NEW w \in Workers, Chains!ProcessEvent(w)
  PROVE  /\ Chains!CooldownsReported'
         /\ lastMatch' \in [Chains!CooldownKeys -> Nat]
         /\ alerts \subseteq alerts'
         /\ \A a \in alerts' : a.at \in Nat /\ a.at <= tick
<1> DEFINE t   == Chains!Remember(history, inHand[w])
           new == {k \in Chains!Matches(inHand[w].event, t) : ~Chains!OnCooldown(k)}
<1>1. /\ lastMatch' = [k \in Chains!CooldownKeys |-> IF k \in new THEN 1 + tick ELSE lastMatch[k]]
      /\ alerts' = alerts \cup {[key |-> k, at |-> tick] : k \in new}
  BY DEF Chains!ProcessEvent
<1>2. /\ tick \in Nat /\ lastMatch \in [Chains!CooldownKeys -> Nat]
      /\ \A a \in alerts : a.at \in Nat /\ a.at <= tick
  BY DEF Chains!TypeOK
<1> HIDE DEF new
<1>3. lastMatch' \in [Chains!CooldownKeys -> Nat] /\ alerts \subseteq alerts'
  BY <1>1, <1>2
<1>4. \A a \in alerts' : a.at \in Nat /\ a.at <= tick
  BY <1>1, <1>2
<1>5. Chains!CooldownsReported'
  <2> SUFFICES ASSUME NEW k \in Chains!CooldownKeys, lastMatch'[k] # 0
               PROVE  \E a \in alerts' : a.key = k /\ 1 + a.at = lastMatch'[k]
    BY DEF Chains!CooldownsReported
  <2>1. CASE k \in new
    <3>1. [key |-> k, at |-> tick] \in alerts' /\ lastMatch'[k] = 1 + tick
      BY <1>1, <2>1
    <3> QED BY <3>1
  <2>2. CASE k \notin new
    <3>1. lastMatch'[k] = lastMatch[k]
      BY <1>1, <2>2
    <3>2. \E a \in alerts : a.key = k /\ 1 + a.at = lastMatch[k]
      BY <3>1 DEF Chains!CooldownsReported
    <3> QED BY <1>3, <3>1, <3>2
  <2> QED BY <2>1, <2>2
<1> QED BY <1>3, <1>4, <1>5

\* A stuffing key is matched for a source whose live count is large enough.
LEMMA StuffingKeys ==
  ASSUME NEW e, NEW t, NEW k \in Chains!Matches(e, t), k[1] = "stuffing"
  PROVE  \E s \in Sources : k = <<"stuffing", s>> /\ Chains!LiveCount(s) >= MinFailures
<1>1. k \notin Chains!OfficeMatches(e)
  BY DEF Chains!OfficeMatches
<1>2. k \notin Chains!DownloadMatches(e)
  BY DEF Chains!DownloadMatches
<1>3. k \notin Chains!PersistenceMatches(e, t)
  BY DEF Chains!PersistenceMatches
<1> QED BY <1>1, <1>2, <1>3 DEF Chains!Matches, Chains!StuffingMatches

LEMMA StuffingNext ==
  ASSUME Chains!TypeOK, Chains!CountsGrounded, Chains!StuffingGrounded,
         NEW w \in Workers, Chains!ProcessEvent(w)
  PROVE  Chains!StuffingGrounded'
<1>1. PICK n \in Nat : Handles(w, n)
  BY HandledGrows
<1>2. PICK new :
        /\ \A k \in new :
             k \in Chains!Matches(inHand[w].event, Chains!Remember(history, inHand[w]))
        /\ alerts' = alerts \cup {[key |-> k, at |-> tick] : k \in new}
  BY DEF Chains!ProcessEvent
<1>3. \A s : /\ Chains!Failed(s) \subseteq Chains!Failed(s)'
              /\ Chains!Failed(s) \subseteq 1..n /\ Chains!Failed(s)' \subseteq 1..(n + 1)
  <2> SUFFICES ASSUME NEW s
               PROVE  /\ Chains!Failed(s) \subseteq Chains!Failed(s)'
                      /\ Chains!Failed(s) \subseteq 1..n /\ Chains!Failed(s)' \subseteq 1..(n + 1)
    OBVIOUS
  <2>1. /\ Chains!Failed(s)' = IF inHand[w].event.type = "failure" /\ inHand[w].event.source = s
                        THEN Chains!Failed(s) \cup {n + 1} ELSE Chains!Failed(s)
        /\ Chains!Failed(s) \subseteq 1..n
    BY <1>1, FailedGrows
  <2> QED BY <2>1
<1>4. \A i \in 1..n : handled'[i] = handled[i]
  BY <1>1 DEF Handles
<1> SUFFICES ASSUME NEW a \in alerts', a.key[1] = "stuffing"
             PROVE  MinFailures <= Chains!Cardinality(Chains!FailedBefore(a)')
  BY DEF Chains!StuffingGrounded
<1>5. IsFiniteSet(Chains!FailedBefore(a)')
  <2>1. Chains!FailedBefore(a)' \subseteq 1..(n + 1)
    BY <1>3 DEF Chains!FailedBefore
  <2>2. IsFiniteSet(1..(n + 1))
    BY FS_Interval
  <2> QED BY <2>1, <2>2, FS_Subset, ChainsCount
<1>6. Chains!Cardinality(Chains!FailedBefore(a)') \in Nat
  BY <1>5, FS_CardinalityType, ChainsCount
<1>7. CASE a \in alerts
  <2>1. Chains!FailedBefore(a) \subseteq Chains!FailedBefore(a)'
    BY <1>3, <1>4 DEF Chains!FailedBefore
  <2>2. /\ Chains!Cardinality(Chains!FailedBefore(a)) <= Chains!Cardinality(Chains!FailedBefore(a)')
        /\ IsFiniteSet(Chains!FailedBefore(a))
    BY <1>5, <2>1, FS_Subset, ChainsCount
  <2>3. Chains!Cardinality(Chains!FailedBefore(a)) \in Nat
    BY <2>2, FS_CardinalityType, ChainsCount
  <2>4. MinFailures <= Chains!Cardinality(Chains!FailedBefore(a))
    BY <1>7 DEF Chains!StuffingGrounded
  <2> QED BY <1>6, <2>2, <2>3, <2>4, ChainsAssumption
<1>8. CASE a \notin alerts
  <2>1. PICK k \in new : a = [key |-> k, at |-> tick]
    BY <1>2, <1>8
  <2>2. k[1] = "stuffing" /\ a.key = k /\ a.at = tick
    BY <2>1
  <2>3. PICK s \in Sources : k = <<"stuffing", s>> /\ Chains!LiveCount(s) >= MinFailures
    BY <1>2, <2>2, StuffingKeys
  <2>4. /\ tick \in Nat /\ failures[s].count \in Nat /\ failures[s].started \in Nat
        /\ \A i \in 1..n : handled[i].at \in Nat /\ handled[i].at <= tick
    <3>1. \A i \in 1..n : handled[i] \in [event : Inputs, stamp : Nat, at : Nat]
      <4>1. handled \in Seq([event : Inputs, stamp : Nat, at : Nat]) /\ n = Len(handled)
        BY <1>1 DEF Chains!TypeOK, Handles
      <4> QED BY <4>1, ElementOfSeq
    <3>2. /\ tick \in Nat /\ failures \in [Sources -> [count : Nat, started : Nat]]
          /\ \A i \in 1..n : handled[i].at <= tick
      BY <1>1 DEF Chains!TypeOK, Handles
    <3> QED BY <3>1, <3>2
  <2>5. Chains!Live(failures[s].started) /\ failures[s].count >= MinFailures
    BY <2>3, <2>4, ChainsAssumption DEF Chains!LiveCount
  <2>6. Chains!Since(s) \subseteq Chains!FailedBefore(a)'
    <3> SUFFICES ASSUME NEW i \in Chains!Since(s) PROVE i \in Chains!FailedBefore(a)'
      OBVIOUS
    <3>1. i \in Chains!Failed(s) /\ i \in 1..n /\ handled[i].at >= failures[s].started
      BY <1>3 DEF Chains!Since
    <3>2. handled[i].at + ChainWindow > tick /\ handled[i].at <= tick
      BY <2>4, <2>5, <3>1, ChainsAssumption DEF Chains!Live
    <3>3. a.key[2] = s
      BY <2>2, <2>3
    <3>4. i \in Chains!Failed(a.key[2])'
      BY <1>3, <3>1, <3>3
    <3> QED BY <1>4, <2>2, <3>1, <3>2, <3>4 DEF Chains!FailedBefore
  <2>7. Chains!Cardinality(Chains!Since(s)) <= Chains!Cardinality(Chains!FailedBefore(a)')
    BY <1>5, <2>6, FS_Subset, ChainsCount
  <2>8. Chains!Cardinality(Chains!Since(s)) \in Nat
    BY FailedFinite
  <2>9. failures[s].count <= Chains!Cardinality(Chains!Since(s))
    BY DEF Chains!CountsGrounded
  <2> QED BY <1>6, <2>4, <2>5, <2>7, <2>8, <2>9, ChainsAssumption
<1> QED BY <1>7, <1>8

\* What is known of every record that was handled.
LEMMA HandledTypes ==
  ASSUME Chains!TypeOK, NEW i \in 1..Len(handled)
  PROVE  /\ handled[i].event \in Inputs /\ handled[i].event \in Chains!EventRecords
         /\ handled[i].stamp \in Nat /\ handled[i].at \in Nat
<1>1. handled \in Seq([event : Inputs, stamp : Nat, at : Nat])
  BY DEF Chains!TypeOK
<1>2. handled[i] \in [event : Inputs, stamp : Nat, at : Nat]
  BY <1>1, ElementOfSeq
<1> QED BY <1>2, ChainsAssumption

LEMMA EndedOffice ==
  ASSUME Chains!TypeOK, Chains!OfficeRemembered, NEW e, NEW b \in Apps, e.type = "network",
         NEW i \in 1..Len(handled),
         handled[i].event.type = "process", handled[i].event.app = b,
         handled[i].event.pid = e.pid, Chains!Young(i),
         ~ \E j \in 1..Len(handled) :
             j > i /\ handled[j].event.type = "network" /\ handled[j].event.pid = e.pid
  PROVE  <<"office", b>> \in Chains!OfficeMatches(e)
<1>1. handled[i].event \in Chains!EventRecords
  BY HandledTypes
<1>2. e.pid # None
  BY <1>1, ChainsAssumption DEF Chains!EventRecords
<1> DEFINE c == [pid |-> e.pid, app |-> b, started |-> handled[i].stamp, stage |-> 1]
<1>3. c \in office
  BY DEF Chains!OfficeRemembered
<1>4. Chains!Live(c.started)
  BY DEF Chains!Live, Chains!Young
<1>5. c \in Chains!Connected(e)
  BY <1>2, <1>3, <1>4 DEF Chains!Connected, Chains!LiveChains
<1>6. c.app = b
  OBVIOUS
<1> HIDE DEF c
<1> QED BY <1>5, <1>6 DEF Chains!OfficeMatches

LEMMA EndedDownload ==
  ASSUME Chains!TypeOK, Chains!DownloadsRemembered,
         NEW e, NEW g \in Images, e.type = "process", e.image = g,
         NEW i \in 1..Len(handled),
         handled[i].event.type = "file", handled[i].event.image = g, Chains!Young(i)
  PROVE  <<"download", g>> \in Chains!DownloadMatches(e)
<1> DEFINE d == [image |-> g, started |-> handled[i].stamp]
<1>1. d \in downloads
  BY DEF Chains!DownloadsRemembered
<1>2. Chains!Live(d.started)
  BY DEF Chains!Live, Chains!Young
<1>3. /\ d.image = g
      /\ d \in {x \in Chains!LiveChains(downloads) : e.type = "process" /\ x.image = e.image}
  BY <1>1, <1>2 DEF Chains!LiveChains
<1> HIDE DEF d
<1> QED BY <1>3 DEF Chains!DownloadMatches

LEMMA EndedStuffing ==
  ASSUME Chains!TypeOK, Chains!FailuresCounted,
         NEW e, NEW s \in Sources, e.type = "success", e.source = s,
         Chains!Cardinality(Chains!Failed(s)) >= MinFailures,
         \A i \in Chains!Failed(s) : Chains!Young(i)
  PROVE  <<"stuffing", s>> \in Chains!StuffingMatches(e)
<1>1. /\ failures[s].count = Chains!Cardinality(Chains!Failed(s))
      /\ Chains!Failed(s) # {} =>
           \E i \in Chains!Failed(s) : failures[s].started = handled[i].stamp
  BY DEF Chains!FailuresCounted
<1>2. Chains!Failed(s) # {}
  <2>1. Chains!Cardinality({}) = 0
    BY FS_EmptySet, ChainsCount
  <2> QED BY <2>1, ChainsAssumption
<1>3. PICK i \in Chains!Failed(s) : failures[s].started = handled[i].stamp
  BY <1>1, <1>2
<1>4. Chains!Live(failures[s].started)
  BY <1>3 DEF Chains!Live, Chains!Young
<1>5. Chains!LiveCount(s) >= MinFailures
  BY <1>1, <1>4 DEF Chains!LiveCount
<1> QED BY <1>5 DEF Chains!StuffingMatches

LEMMA EndedPersistence ==
  ASSUME Chains!TypeOK, Chains!HistoryIsLast, NEW w \in Workers, Chains!ProcessEvent(w),
         NEW e, NEW g \in Images, e.type \in {"service", "registry"}, e.image = g,
         NEW i \in 1..Len(handled), i + ChainHistory > Len(handled) + 1,
         handled[i].event.type = "process", Chains!PartOf(handled[i].event.image, g),
         tick < handled[i].stamp + Recency[e.type]
  PROVE  <<e.type, g>> \in Chains!PersistenceMatches(e, Chains!Remember(history, inHand[w]))
<1>1. PICK n \in Nat : Handles(w, n)
  BY HandledGrows
<1>2. n = Len(handled) /\ Len(handled') = n + 1 /\ handled'[i] = handled[i] /\ i \in 1..n
  BY <1>1 DEF Handles
<1>3. Chains!HistoryIsLast' /\ history' \in Seq([event : Inputs, stamp : Nat])
  BY HistoryNext
<1>4. history' = Chains!Remember(history, inHand[w])
  BY DEF Chains!ProcessEvent
<1>5. PICK t \in Seq([event : Inputs, stamp : Nat]) :
        t = Chains!Remember(history, inHand[w]) /\ t = history'
  BY <1>3, <1>4
<1>6. PICK m \in Nat : m = Len(t)
  BY <1>5, LenProperties
<1>7. /\ m <= n + 1 /\ (m = n + 1 \/ m >= ChainHistory)
      /\ \A j \in 1..m :
           /\ t[j].event = handled'[(n + 1) - m + j].event
           /\ t[j].stamp = handled'[(n + 1) - m + j].stamp
  BY <1>2, <1>3, <1>5, <1>6 DEF Chains!HistoryIsLast
<1>8. PICK j \in 1..m : (n + 1) - m + j = i
  <2>1. i - ((n + 1) - m) \in 1..m /\ (n + 1) - m + (i - ((n + 1) - m)) = i
    BY <1>2, <1>7, ChainsAssumption
  <2> QED BY <2>1
<1>9. t[j].event = handled[i].event /\ t[j].stamp = handled[i].stamp
  BY <1>2, <1>7, <1>8
<1>10. t[j] \in {t[x] : x \in 1..Len(t)}
  BY <1>6
<1>11. t[j] \in {q \in {t[x] : x \in 1..Len(t)} :
                  /\ e.type \in {"service", "registry"}
                  /\ q.event.type = "process"
                  /\ tick < q.stamp + Recency[e.type]
                  /\ Chains!PartOf(q.event.image, e.image)}
  BY <1>9, <1>10
<1>12. <<e.type, e.image>> \in Chains!PersistenceMatches(e, t)
  BY <1>11 DEF Chains!PersistenceMatches
<1> QED BY <1>5, <1>12

LEMMA EndedAreMatched ==
  ASSUME Chains!TypeOK, Chains!OfficeRemembered, Chains!DownloadsRemembered,
         Chains!FailuresCounted, Chains!HistoryIsLast,
         NEW w \in Workers, Chains!ProcessEvent(w), NEW e, NEW k \in Chains!Ended(e)
  PROVE  k \in Chains!Matches(e, Chains!Remember(history, inHand[w])) /\ k \in Chains!CooldownKeys
<1>1. ASSUME NEW b \in Chains!OfficeEnded(e), k = <<"office", b>>
      PROVE  k \in Chains!CooldownKeys
             /\ k \in Chains!Matches(e, Chains!Remember(history, inHand[w]))
  <2>1. b \in Apps /\ k \in Chains!OfficeMatches(e)
    BY <1>1, EndedOffice DEF Chains!OfficeEnded
  <2> QED BY <1>1, <2>1 DEF Chains!Matches, Chains!CooldownKeys
<1>2. ASSUME NEW g \in Chains!DownloadEnded(e), k = <<"download", g>>
      PROVE  k \in Chains!CooldownKeys
             /\ k \in Chains!Matches(e, Chains!Remember(history, inHand[w]))
  <2>1. g \in Images /\ k \in Chains!DownloadMatches(e)
    BY <1>2, EndedDownload DEF Chains!DownloadEnded
  <2> QED BY <1>2, <2>1 DEF Chains!Matches, Chains!CooldownKeys
<1>3. ASSUME NEW s \in Chains!StuffingEnded(e), k = <<"stuffing", s>>
      PROVE  k \in Chains!CooldownKeys
             /\ k \in Chains!Matches(e, Chains!Remember(history, inHand[w]))
  <2>1. s \in Sources /\ k \in Chains!StuffingMatches(e)
    BY <1>3, EndedStuffing DEF Chains!StuffingEnded
  <2> QED BY <1>3, <2>1 DEF Chains!Matches, Chains!CooldownKeys
<1>4. ASSUME NEW g \in Chains!PersistenceEnded(e), k = <<e.type, g>>
      PROVE  k \in Chains!CooldownKeys
             /\ k \in Chains!Matches(e, Chains!Remember(history, inHand[w]))
  <2>1. /\ g \in Images /\ e.type \in {"service", "registry"}
        /\ k \in Chains!PersistenceMatches(e, Chains!Remember(history, inHand[w]))
    BY <1>4, EndedPersistence DEF Chains!PersistenceEnded
  <2> QED BY <1>4, <2>1 DEF Chains!Matches, Chains!CooldownKeys
<1> QED BY <1>1, <1>2, <1>3, <1>4 DEF Chains!Ended

LEMMA EndedReported ==
  ASSUME Chains!IInv, NEW w \in Workers, Chains!ProcessEvent(w),
         NEW k \in Chains!Ended(handled'[Len(handled')].event)
  PROVE  \E a \in alerts' : a.key = k /\ (a.at = tick \/ tick - a.at < ChainCooldown)
<1>1. PICK n \in Nat : Handles(w, n)
  BY HandledGrows DEF Chains!IInv
<1>2. PICK e : e = inHand[w].event
  OBVIOUS
<1>3. handled'[Len(handled')].event = e
  BY <1>1, <1>2 DEF Handles
<1>4. k \in Chains!Matches(e, Chains!Remember(history, inHand[w])) /\ k \in Chains!CooldownKeys
  BY <1>3, EndedAreMatched DEF Chains!IInv
<1>5. CASE Chains!OnCooldown(k)
  <2>1. /\ lastMatch[k] # 0 /\ 1 + tick - lastMatch[k] < ChainCooldown
        /\ lastMatch[k] \in Nat /\ tick \in Nat /\ \A a \in alerts : a.at \in Nat
    BY <1>4, <1>5 DEF Chains!OnCooldown, Chains!IInv, Chains!TypeOK
  <2>2. PICK a \in alerts : a.key = k /\ 1 + a.at = lastMatch[k]
    BY <1>4, <2>1 DEF Chains!IInv, Chains!CooldownsReported
  <2>3. tick - a.at < ChainCooldown
    BY <2>1, <2>2, ChainsAssumption
  <2>4. a \in alerts'
    BY CooldownsNext DEF Chains!IInv
  <2> QED BY <2>2, <2>3, <2>4
<1>6. CASE ~Chains!OnCooldown(k)
  <2>1. [key |-> k, at |-> tick] \in alerts'
    BY <1>2, <1>4, <1>6 DEF Chains!ProcessEvent
  <2> QED BY <2>1
<1> QED BY <1>5, <1>6

LEMMA ChainsTypeNext ==
  ASSUME Chains!TypeOK, Chains!HistoryIsLast, Chains!CooldownsReported,
         NEW w \in Workers, Chains!ProcessEvent(w)
  PROVE  Chains!TypeOK'
<1>1. PICK n \in Nat : Handles(w, n)
  BY HandledGrows
<1>2. /\ inHand[w].event \in Inputs /\ inHand[w].stamp \in Nat /\ inHand[w].stamp <= tick
      /\ tick' = tick /\ tick \in Nat
  BY HandledGrows DEF Chains!TypeOK
<1>3. /\ \A v \in Workers :
           inHand'[v] = Chains!Idle
           \/ (inHand'[v] \in [event : Inputs, stamp : Nat] /\ inHand'[v].stamp <= tick')
      /\ DOMAIN inHand' = Workers
  BY <1>2 DEF Chains!TypeOK, Chains!ProcessEvent
<1>4. history' \in Seq([event : Inputs, stamp : Nat]) /\ Len(history') <= ChainHistory
  BY HistoryNext
<1>5. handled' \in Seq([event : Inputs, stamp : Nat, at : Nat])
  BY <1>1 DEF Handles, Entries
<1>6. \A i \in 1..Len(handled') : handled'[i].stamp <= handled'[i].at /\ handled'[i].at <= tick'
  <2>1. n = Len(handled) /\ Len(handled') = n + 1
    BY <1>1 DEF Handles
  <2> SUFFICES ASSUME NEW i \in 1..(n + 1)
               PROVE  handled'[i].stamp <= handled'[i].at /\ handled'[i].at <= tick'
    BY <2>1
  <2>2. CASE i \in 1..n
    BY <1>1, <1>2, <2>1, <2>2 DEF Handles, Chains!TypeOK
  <2>3. CASE i = n + 1
    BY <1>1, <1>2, <2>3 DEF Handles
  <2> QED BY <2>2, <2>3
<1>7. failures' \in [Sources -> [count : Nat, started : Nat]]
  <2>1. failures' = Chains!FailuresAfter(inHand[w].event, inHand[w].stamp)
    BY DEF Chains!ProcessEvent
  <2>2. \A s \in Sources : Chains!LiveCount(s) \in Nat /\ failures[s].started \in Nat
    BY DEF Chains!TypeOK, Chains!LiveCount
  <2> QED BY <1>2, <2>1, <2>2 DEF Chains!FailuresAfter
<1>8. /\ lastMatch' \in [Chains!CooldownKeys -> Nat]
      /\ \A a \in alerts' : a.at \in Nat /\ a.at <= tick'
  BY <1>2, CooldownsNext
<1> QED BY <1>2, <1>3, <1>4, <1>5, <1>6, <1>7, <1>8 DEF Chains!TypeOK

LEMMA ProcessKeeps ==
  ASSUME Chains!IInv, NEW w \in Workers, Chains!ProcessEvent(w)
  PROVE  Chains!IInv'
<1>1. Chains!TypeOK'
  BY ChainsTypeNext DEF Chains!IInv
<1>2. Chains!OfficeRemembered' /\ Chains!DownloadsRemembered'
  BY OfficeNext, DownloadsNext DEF Chains!IInv
<1>3. Chains!FailuresCounted' /\ Chains!CountsGrounded'
  BY FailuresNext, CountsNext DEF Chains!IInv
<1>4. Chains!StuffingGrounded' /\ Chains!HistoryIsLast' /\ Chains!CooldownsReported'
  BY StuffingNext, HistoryNext, CooldownsNext DEF Chains!IInv
<1> QED BY <1>1, <1>2, <1>3, <1>4 DEF Chains!IInv

\* Time that passes makes nothing young.
LEMMA TickKeeps ==
  ASSUME Chains!IInv, Chains!Tick
  PROVE  Chains!IInv'
<1>1. /\ tick' = tick + 1 /\ tick \in Nat
      /\ UNCHANGED <<inHand, history, office, downloads, failures, lastMatch, handled, alerts>>
  BY DEF Chains!Tick, Chains!chainVars, Chains!IInv, Chains!TypeOK
<1>2. Chains!TypeOK'
  <2>1. \A v \in Workers :
          inHand'[v] = Chains!Idle
          \/ (inHand'[v] \in [event : Inputs, stamp : Nat] /\ inHand'[v].stamp <= tick')
    BY <1>1 DEF Chains!IInv, Chains!TypeOK
  <2>2. \A i \in 1..Len(handled') : handled'[i].stamp <= handled'[i].at /\ handled'[i].at <= tick'
    <3> SUFFICES ASSUME NEW i \in 1..Len(handled)
                 PROVE  handled[i].stamp <= handled[i].at /\ handled[i].at <= tick + 1
      BY <1>1
    <3>1. handled[i].at \in Nat /\ handled[i].stamp <= handled[i].at /\ handled[i].at <= tick
      BY HandledTypes DEF Chains!IInv, Chains!TypeOK
    <3> QED BY <1>1, <3>1
  <2>3. \A a \in alerts' : a.at \in Nat /\ a.at <= tick'
    BY <1>1 DEF Chains!IInv, Chains!TypeOK
  <2> QED BY <1>1, <2>1, <2>2, <2>3 DEF Chains!IInv, Chains!TypeOK
<1>3. \A i \in 1..Len(handled) : Chains!Young(i)' => Chains!Young(i)
  <2> SUFFICES ASSUME NEW i \in 1..Len(handled), Chains!Young(i)' PROVE Chains!Young(i)
    OBVIOUS
  <2>1. handled[i].stamp \in Nat
    BY HandledTypes DEF Chains!IInv
  <2> QED BY <1>1, <2>1, ChainsAssumption DEF Chains!Young
<1>4. Chains!OfficeRemembered' /\ Chains!DownloadsRemembered'
  BY <1>1, <1>3 DEF Chains!IInv, Chains!OfficeRemembered, Chains!DownloadsRemembered
<1>5. \A s : Chains!Failed(s)' = Chains!Failed(s) /\ Chains!Failed(s) \subseteq 1..Len(handled)
  BY <1>1 DEF Chains!Failed
<1>6. Chains!FailuresCounted'
  BY <1>1, <1>3, <1>5 DEF Chains!IInv, Chains!FailuresCounted
<1>7. \A s : Chains!Since(s)' = Chains!Since(s)
  BY <1>1, <1>5 DEF Chains!Since
<1>8. Chains!CountsGrounded'
  BY <1>1, <1>7 DEF Chains!IInv, Chains!CountsGrounded
<1>9. Chains!StuffingGrounded'
  <2>1. \A a : Chains!FailedBefore(a)' = Chains!FailedBefore(a)
    BY <1>1, <1>5 DEF Chains!FailedBefore
  <2> QED BY <1>1, <2>1 DEF Chains!IInv, Chains!StuffingGrounded
<1>10. Chains!HistoryIsLast' /\ Chains!CooldownsReported'
  BY <1>1 DEF Chains!IInv, Chains!HistoryIsLast, Chains!CooldownsReported
<1> QED BY <1>2, <1>4, <1>6, <1>8, <1>9, <1>10 DEF Chains!IInv

\* What changes neither time nor what was handled and kept.
LEMMA RecordKeeps ==
  ASSUME Chains!IInv, NEW w \in Workers, NEW e \in Inputs, Chains!MakeRecord(w, e)
  PROVE  Chains!IInv'
<1>1. /\ inHand' = [inHand EXCEPT ![w] = [event |-> e, stamp |-> tick]]
      /\ UNCHANGED <<tick, history, office, downloads, failures, lastMatch, handled, alerts>>
  BY DEF Chains!MakeRecord, Chains!chainVars
<1>2. Chains!TypeOK'
  <2>1. /\ \A v \in Workers :
             inHand'[v] = Chains!Idle
             \/ (inHand'[v] \in [event : Inputs, stamp : Nat] /\ inHand'[v].stamp <= tick')
        /\ DOMAIN inHand' = Workers
    BY <1>1 DEF Chains!IInv, Chains!TypeOK
  <2> QED BY <1>1, <2>1 DEF Chains!IInv, Chains!TypeOK
<1>3. Chains!OfficeRemembered' /\ Chains!DownloadsRemembered'
  BY <1>1 DEF Chains!IInv, Chains!OfficeRemembered, Chains!DownloadsRemembered, Chains!Young
<1>4. \A s : Chains!Failed(s)' = Chains!Failed(s) /\ Chains!Since(s)' = Chains!Since(s)
  BY <1>1 DEF Chains!Failed, Chains!Since
<1>5. Chains!FailuresCounted' /\ Chains!CountsGrounded'
  BY <1>1, <1>4 DEF Chains!IInv, Chains!FailuresCounted, Chains!CountsGrounded, Chains!Young
<1>6. Chains!StuffingGrounded'
  <2>1. \A a : Chains!FailedBefore(a)' = Chains!FailedBefore(a)
    BY <1>1, <1>4 DEF Chains!FailedBefore
  <2> QED BY <1>1, <2>1 DEF Chains!IInv, Chains!StuffingGrounded
<1>7. Chains!HistoryIsLast' /\ Chains!CooldownsReported'
  BY <1>1 DEF Chains!IInv, Chains!HistoryIsLast, Chains!CooldownsReported
<1> QED BY <1>2, <1>3, <1>5, <1>6, <1>7 DEF Chains!IInv

LEMMA StutterKeeps ==
  ASSUME Chains!IInv, UNCHANGED Chains!vars
  PROVE  Chains!IInv'
<1>1. UNCHANGED <<tick, inHand, history, office, downloads, failures, lastMatch, handled, alerts>>
  BY DEF Chains!vars, Chains!chainVars
<1>2. Chains!TypeOK'
  BY <1>1 DEF Chains!IInv, Chains!TypeOK
<1>3. Chains!OfficeRemembered' /\ Chains!DownloadsRemembered'
  BY <1>1 DEF Chains!IInv, Chains!OfficeRemembered, Chains!DownloadsRemembered, Chains!Young
<1>4. \A s : Chains!Failed(s)' = Chains!Failed(s) /\ Chains!Since(s)' = Chains!Since(s)
  BY <1>1 DEF Chains!Failed, Chains!Since
<1>5. Chains!FailuresCounted' /\ Chains!CountsGrounded'
  BY <1>1, <1>4 DEF Chains!IInv, Chains!FailuresCounted, Chains!CountsGrounded, Chains!Young
<1>6. Chains!StuffingGrounded'
  <2>1. \A a : Chains!FailedBefore(a)' = Chains!FailedBefore(a)
    BY <1>1, <1>4 DEF Chains!FailedBefore
  <2> QED BY <1>1, <2>1 DEF Chains!IInv, Chains!StuffingGrounded
<1>7. Chains!HistoryIsLast' /\ Chains!CooldownsReported'
  BY <1>1 DEF Chains!IInv, Chains!HistoryIsLast, Chains!CooldownsReported
<1> QED BY <1>2, <1>3, <1>5, <1>6, <1>7 DEF Chains!IInv

LEMMA ChainsInvNext ==
  ASSUME Chains!IInv, [Chains!Next]_Chains!vars
  PROVE  Chains!IInv'
BY ProcessKeeps, TickKeeps, RecordKeeps, StutterKeeps DEF Chains!Next

LEMMA ChainsInit ==
  ASSUME Chains!Init
  PROVE  Chains!IInv
<1>1. Len(handled) = 0 /\ Len(history) = 0 /\ 1..0 = {}
  BY DEF Chains!Init
<1>2. Chains!TypeOK
  <2>1. history \in Seq([event : Inputs, stamp : Nat])
        /\ handled \in Seq([event : Inputs, stamp : Nat, at : Nat])
    BY EmptySeq DEF Chains!Init
  <2> QED BY <1>1, <2>1, ChainsAssumption DEF Chains!Init, Chains!TypeOK
<1>3. Chains!OfficeRemembered /\ Chains!DownloadsRemembered /\ Chains!HistoryIsLast
  BY <1>1 DEF Chains!OfficeRemembered, Chains!DownloadsRemembered, Chains!HistoryIsLast
<1>4. \A s : Chains!Failed(s) = {} /\ Chains!Since(s) = {}
  BY <1>1 DEF Chains!Failed, Chains!Since
<1>5. Chains!Cardinality({}) = 0
  BY FS_EmptySet, ChainsCount
<1>8. \A s \in Sources : failures[s].count = 0
  BY DEF Chains!Init
<1>9. Chains!FailuresCounted
  BY <1>4, <1>5, <1>8 DEF Chains!FailuresCounted
<1>6. Chains!FailuresCounted /\ Chains!CountsGrounded
  BY <1>4, <1>5, <1>8, <1>9 DEF Chains!CountsGrounded
<1>7. Chains!StuffingGrounded /\ Chains!CooldownsReported
  BY DEF Chains!Init, Chains!StuffingGrounded, Chains!CooldownsReported
<1> QED BY <1>2, <1>3, <1>6, <1>7 DEF Chains!IInv

LEMMA ChainsStepReports ==
  ASSUME Chains!IInv, [Chains!Next]_Chains!vars, handled' # handled,
         NEW k \in Chains!Ended(handled'[Len(handled')].event)
  PROVE  \E a \in alerts' : a.key = k /\ (a.at = tick \/ tick - a.at < ChainCooldown)
<1>1. \E w \in Workers : Chains!ProcessEvent(w)
  BY DEF Chains!Next, Chains!Tick, Chains!MakeRecord, Chains!vars
<1> QED BY <1>1, EndedReported

\* While another detector is at work, the correlation engine rests.
LEMMA ChainsStep == [DetectionNext]_detectionVars => [Chains!Next]_Chains!vars
BY DEF DetectionNext, detectionVars, chainVariables, Chains!vars, Chains!chainVars

LEMMA ChainsInductive == DetectionSpec => []Chains!IInv
<1>1. DetectionInit => Chains!IInv
  BY ChainsInit DEF DetectionInit
<1>2. Chains!IInv /\ [DetectionNext]_detectionVars => Chains!IInv'
  BY ChainsStep, ChainsInvNext
<1> QED BY <1>1, <1>2, PTL DEF DetectionSpec

\* Whatever the order in which the workers of the bus hand events to process_event(), and
\* however late: a success is matched as credential stuffing only on failures that
\* _handle_auth_failure() counted within window_seconds of it.
THEOREM StuffingRestsOnFailures == DetectionSpec => []StuffingGrounded
<1>1. Chains!IInv => StuffingGrounded
  BY DEF Chains!IInv, StuffingGrounded
<1> QED BY <1>1, ChainsInductive, PTL

\* Whatever was pruned, pushed out of _event_history or moved on in between, process_event()
\* matches the event that ends a chain, unless it has matched the same within the cooldown.
THEOREM ChainsAreReported == DetectionSpec => EndedChainsReported
<1>1. Chains!IInv /\ [DetectionNext]_detectionVars =>
        [handled' # handled
           => \A k \in Chains!Ended(handled'[Len(handled')].event) :
                \E a \in alerts' :
                  a.key = k /\ (a.at = tick \/ tick - a.at < ChainCooldown)]_Chains!vars
  BY ChainsStep, ChainsStepReports
<1> QED BY <1>1, ChainsInductive, PTL
     DEF DetectionSpec, EndedChainsReported, Chains!EndedChainsReported

-----------------------------------------------------------------------------
(* The rules *)

\* What the instance has of Filters is the same here.
LEMMA EngineKept == ASSUME NEW s, NEW T PROVE Engine!Kept(s, T) = Kept(s, T)
BY DEF Engine!Kept, Kept

LEMMA SpelledType == ASSUME NEW op \in STRING \cup Engine!Operators
                     PROVE  Engine!Spelled(op) \in STRING \cup Engine!Operators
<1>1. CASE op = "not contains_any"
  BY <1>1 DEF Engine!Spelled, Engine!Operators
<1>2. CASE op = "not in"
  BY <1>2 DEF Engine!Spelled, Engine!Operators
<1>3. CASE op # "not contains_any" /\ op # "not in"
  BY <1>3 DEF Engine!Spelled
<1> QED BY <1>1, <1>2, <1>3

\* A rule that was read is the rule of the file but for its clauses.
LEMMA ParsedRule ==
  ASSUME NEW r \in Engine!RuleRecords
  PROVE  /\ Engine!ParseRule(r) \in Engine!RuleRecords
         /\ Engine!ParseRule(r).id = r.id /\ Engine!ParseRule(r).form = r.form
         /\ Engine!ParseRule(r).enabled = r.enabled /\ Engine!ParseRule(r).severity = r.severity
<1>1. PICK cs \in Seq(Engine!ClauseRecords) : cs = r.clauses
  BY DEF Engine!RuleRecords
<1>2. Engine!ParseClauses(cs) \in Seq(Engine!ClauseRecords)
  <2> DEFINE T == {c \in Engine!ToSet(cs) : Engine!Spelled(c.operator) \in Engine!Operators}
  <2>1. PICK known \in Seq(Engine!ClauseRecords) : known = Kept(cs, T)
    BY KeptKeeps
  <2>2. Engine!ParseClauses(cs) =
          [i \in DOMAIN known |-> [known[i] EXCEPT !.operator = Engine!Spelled(known[i].operator)]]
    BY <2>1, EngineKept DEF Engine!ParseClauses
  <2>3. DOMAIN known = 1..Len(known) /\ Len(known) \in Nat
    BY LenProperties
  <2>4. ASSUME NEW i \in DOMAIN known
        PROVE  [known[i] EXCEPT !.operator = Engine!Spelled(known[i].operator)] \in Engine!ClauseRecords
    <3>1. PICK c \in Engine!ClauseRecords : c = known[i]
      BY <2>3, <2>4, ElementOfSeq
    <3>2. Engine!Spelled(c.operator) \in STRING \cup Engine!Operators
      BY SpelledType DEF Engine!ClauseRecords
    <3>3. [c EXCEPT !.operator = Engine!Spelled(c.operator)] \in Engine!ClauseRecords
      BY <3>2 DEF Engine!ClauseRecords
    <3> QED BY <3>1, <3>3
  <2>5. Engine!ParseClauses(cs) \in [1..Len(known) -> Engine!ClauseRecords]
    BY <2>2, <2>3, <2>4
  <2> QED BY <2>3, <2>5
<1>3. PICK ds \in Seq(Engine!ClauseRecords) : ds = Engine!ParseClauses(cs)
  BY <1>2
<1>4. Engine!ParseRule(r) = [r EXCEPT !.clauses = ds]
  BY <1>1, <1>3 DEF Engine!ParseRule
<1> QED BY <1>4 DEF Engine!RuleRecords

\* Every valid rule is read.
LEMMA ValidAreLoaded ==
  ASSUME NEW raws \in Seq(Engine!RuleRecords)
  PROVE  /\ Engine!LoadRules(raws) \in Seq(Engine!RuleRecords)
         /\ \A i \in 1..Len(raws) :
              raws[i].form = "valid" =>
                \E j \in 1..Len(Engine!LoadRules(raws)) :
                   Engine!LoadRules(raws)[j] = Engine!ParseRule(raws[i])
<1> DEFINE T == {r \in Engine!ToSet(raws) : r.form # "invalid"}
<1>1. PICK valid \in Seq(Engine!RuleRecords) : valid = Kept(raws, T)
  BY KeptKeeps
<1>2. Engine!LoadRules(raws) = [i \in DOMAIN valid |-> Engine!ParseRule(valid[i])]
  BY <1>1, EngineKept DEF Engine!LoadRules
<1>3. DOMAIN valid = 1..Len(valid) /\ Len(valid) \in Nat
  BY LenProperties
<1>4. \A i \in DOMAIN valid : Engine!ParseRule(valid[i]) \in Engine!RuleRecords
  BY <1>3, ElementOfSeq, ParsedRule
<1>5. /\ Engine!LoadRules(raws) \in Seq(Engine!RuleRecords)
      /\ Len(Engine!LoadRules(raws)) = Len(valid)
      /\ \A i \in 1..Len(valid) : Engine!LoadRules(raws)[i] = Engine!ParseRule(valid[i])
  <2>1. PICK f : f = [i \in 1..Len(valid) |-> Engine!ParseRule(valid[i])]
    OBVIOUS
  <2>2. f = Engine!LoadRules(raws)
    BY <1>2, <1>3, <2>1
  <2>3. f \in Seq(Engine!RuleRecords) /\ Len(f) = Len(valid)
    BY <1>3, <1>4, <2>1
  <2> QED BY <2>1, <2>2, <2>3
<1>6. ASSUME NEW i \in 1..Len(raws), raws[i].form = "valid"
      PROVE  \E j \in 1..Len(valid) : valid[j] = raws[i]
  <2>1. raws[i] \in T
    BY <1>6, LenProperties DEF Engine!ToSet
  <2> HIDE DEF T
  <2> QED BY <1>1, <2>1, KeptElements
<1> QED BY <1>5, <1>6

\* Of the rules loaded, those enabled by themselves and the settings are chosen ...
LEMMA EnabledAreActive ==
  ASSUME NEW rs \in Seq(Engine!RuleRecords), NEW off
  PROVE  /\ Engine!ActiveRules(rs, off) \in Seq(Engine!RuleRecords)
         /\ \A i \in 1..Len(rs) :
              /\ rs[i].enabled /\ rs[i].id \notin off
              /\ settings.enabled # {} => rs[i].id \in settings.enabled
              => \E j \in 1..Len(Engine!ActiveRules(rs, off)) :
                    Engine!ActiveRules(rs, off)[j] = rs[i]
<1> DEFINE T == {r \in Engine!ToSet(rs) :
              /\ r.enabled /\ r.id \notin off
              /\ settings.enabled # {} => r.id \in settings.enabled}
<1>1. Engine!ActiveRules(rs, off) = Kept(rs, T)
  BY EngineKept DEF Engine!ActiveRules
<1>2. \A i \in 1..Len(rs) :
        /\ rs[i].enabled /\ rs[i].id \notin off
        /\ settings.enabled # {} => rs[i].id \in settings.enabled
        => rs[i] \in T
  BY LenProperties DEF Engine!ToSet
<1> HIDE DEF T
<1>3. Kept(rs, T) \in Seq(Engine!RuleRecords)
  BY KeptKeeps
<1>4. \A m \in 1..Len(rs) : rs[m] \in T => \E i \in 1..Len(Kept(rs, T)) : Kept(rs, T)[i] = rs[m]
  BY KeptElements
<1> QED BY <1>1, <1>2, <1>3, <1>4

\* ... and stay unless the whitelist disables them.
LEMMA OthersAreSuppressed ==
  ASSUME NEW rs \in Seq(Engine!RuleRecords), NEW off
  PROVE  /\ Engine!Suppressed(rs, off) \in Seq(Engine!RuleRecords)
         /\ \A i \in 1..Len(rs) :
              rs[i].id \notin off =>
                \E j \in 1..Len(Engine!Suppressed(rs, off)) :
                   Engine!Suppressed(rs, off)[j] = rs[i]
<1> DEFINE T == {r \in Engine!ToSet(rs) : r.id \notin off}
<1>1. Engine!Suppressed(rs, off) = Kept(rs, T)
  BY EngineKept DEF Engine!Suppressed
<1>2. \A i \in 1..Len(rs) : rs[i].id \notin off => rs[i] \in T
  BY LenProperties DEF Engine!ToSet
<1> HIDE DEF T
<1>3. Kept(rs, T) \in Seq(Engine!RuleRecords)
  BY KeptKeeps
<1>4. \A m \in 1..Len(rs) : rs[m] \in T => \E i \in 1..Len(Kept(rs, T)) : Kept(rs, T)[i] = rs[m]
  BY KeptElements
<1> QED BY <1>1, <1>2, <1>3, <1>4

\* An active rule that holds is among those evaluate() returns.
LEMMA HoldingAreEvaluated ==
  ASSUME active \in Seq(Engine!RuleRecords), NEW e
  PROVE  /\ Engine!Evaluate(e) \in Seq(Engine!RuleRecords)
         /\ \A i \in 1..Len(active) :
              Engine!EvaluateRule(active[i], e) =>
                \E j \in 1..Len(Engine!Evaluate(e)) : Engine!Evaluate(e)[j] = active[i]
<1> DEFINE T == {r \in Engine!ToSet(active) : Engine!EvaluateRule(r, e)}
<1>1. Engine!Evaluate(e) = Kept(active, T)
  BY EngineKept DEF Engine!Evaluate
<1>2. \A i \in 1..Len(active) : Engine!EvaluateRule(active[i], e) => active[i] \in T
  BY LenProperties DEF Engine!ToSet
<1> HIDE DEF T
<1>3. Kept(active, T) \in Seq(Engine!RuleRecords)
  BY KeptKeeps
<1>4. \A m \in 1..Len(active) :
        active[m] \in T => \E i \in 1..Len(Kept(active, T)) : Kept(active, T)[i] = active[m]
  BY KeptElements
<1> QED BY <1>1, <1>2, <1>3, <1>4

-----------------------------------------------------------------------------
(* The threat of several rules *)

\* The place i has the first of the greatest values.
Worst(v, n, i) == \A j \in 1..n : v[j] < v[i] \/ (v[j] = v[i] /\ i <= j)

\* Any values, at least one, have a first greatest: what max() returns.
LEMMA WorstExists ==
  \A n \in Nat : \A v \in [1..(n + 1) -> Nat] : \E i \in 1..(n + 1) : Worst(v, n + 1, i)
<1> DEFINE S == {n \in Nat : \A v \in [1..(n + 1) -> Nat] :
                    \E i \in 1..(n + 1) : Worst(v, n + 1, i)}
<1>1. 0 \in S
  <2> SUFFICES ASSUME NEW v \in [1..(0 + 1) -> Nat] PROVE Worst(v, 0 + 1, 1)
    OBVIOUS
  <2>1. \A j \in 1..(0 + 1) : j = 1
    OBVIOUS
  <2> QED BY <2>1 DEF Worst
<1>2. ASSUME NEW n \in Nat, n \in S PROVE n + 1 \in S
  <2> SUFFICES ASSUME NEW v \in [1..((n + 1) + 1) -> Nat]
               PROVE  \E i \in 1..((n + 1) + 1) : Worst(v, (n + 1) + 1, i)
    OBVIOUS
  <2> DEFINE w == [i \in 1..(n + 1) |-> v[i]]
  <2>1. w \in [1..(n + 1) -> Nat] /\ \A i \in 1..(n + 1) : w[i] = v[i]
    OBVIOUS
  <2> HIDE DEF w
  <2>2. PICK i \in 1..(n + 1) : Worst(w, n + 1, i)
    BY <1>2, <2>1
  <2>3. \A j \in 1..(n + 1) : v[j] < v[i] \/ (v[j] = v[i] /\ i <= j)
    BY <2>1, <2>2 DEF Worst
  <2>4. PICK x \in Nat, y \in Nat : x = v[i] /\ y = v[(n + 1) + 1]
    <3>1. i \in 1..((n + 1) + 1) /\ (n + 1) + 1 \in 1..((n + 1) + 1)
      OBVIOUS
    <3> QED BY <3>1
  <2>5. CASE y <= x
    <3>1. Worst(v, (n + 1) + 1, i)
      <4> SUFFICES ASSUME NEW j \in 1..((n + 1) + 1), j \notin 1..(n + 1)
                   PROVE  v[j] < v[i] \/ (v[j] = v[i] /\ i <= j)
        BY <2>3 DEF Worst
      <4>1. j = (n + 1) + 1 /\ i <= j
        OBVIOUS
      <4> QED BY <2>4, <2>5, <4>1
    <3> QED BY <3>1
  <2>6. CASE ~(y <= x)
    <3>1. Worst(v, (n + 1) + 1, (n + 1) + 1)
      <4> SUFFICES ASSUME NEW j \in 1..((n + 1) + 1)
                   PROVE  v[j] < y \/ (v[j] = y /\ (n + 1) + 1 <= j)
        BY <2>4 DEF Worst
      <4>1. CASE j = (n + 1) + 1
        BY <2>4, <4>1
      <4>2. CASE j # (n + 1) + 1
        <5>1. j \in 1..(n + 1) /\ v[j] \in Nat
          BY <4>2
        <5>2. v[j] < x \/ v[j] = x
          BY <2>3, <2>4, <5>1
        <5> QED BY <2>6, <5>1, <5>2
      <4> QED BY <4>1, <4>2
    <3>2. (n + 1) + 1 \in 1..((n + 1) + 1)
      OBVIOUS
    <3> QED BY <3>1, <3>2
  <2> QED BY <2>5, <2>6
<1> HIDE DEF S
<1>3. Nat \subseteq S
  BY <1>1, <1>2, NatSetInduction
<1> QED BY <1>3 DEF S

\* The threat names every rule, and is as severe as each of them.
LEMMA ThreatNamesAll ==
  ASSUME NEW rs \in Seq(Engine!RuleRecords), NEW k \in 1..Len(rs)
  PROVE  /\ rs[k].id \in Engine!ThreatFromRules(rs).ids
         /\ rs[k].severity <= Engine!ThreatFromRules(rs).severity
<1>1. PICK n \in Nat : n = Len(rs) /\ DOMAIN rs = 1..n
  BY LenProperties
<1>2. PICK m \in Nat : n = m + 1
  <2>1. n # 0
    BY <1>1
  <2>2. n - 1 \in Nat /\ n = (n - 1) + 1
    BY <2>1
  <2> QED BY <2>2
<1>3. \A i \in 1..n : rs[i] \in Engine!RuleRecords /\ rs[i].severity \in Nat
  <2>1. \A i \in 1..n : rs[i] \in Engine!RuleRecords
    BY <1>1, ElementOfSeq
  <2> QED BY <2>1 DEF Engine!RuleRecords
<1> DEFINE v == [i \in 1..n |-> rs[i].severity]
           worst == CHOOSE i \in DOMAIN rs : \A j \in DOMAIN rs :
                      rs[j].severity < rs[i].severity
                      \/ (rs[j].severity = rs[i].severity /\ i <= j)
<1>4. PICK i \in 1..n : Worst(v, n, i)
  <2>1. v \in [1..(m + 1) -> Nat]
    BY <1>2, <1>3
  <2> HIDE DEF v
  <2> QED BY <1>2, <2>1, WorstExists
<1>5. \A j \in 1..n : rs[j].severity < rs[i].severity
         \/ (rs[j].severity = rs[i].severity /\ i <= j)
  BY <1>4 DEF Worst
<1>6. worst \in 1..n /\ \A j \in 1..n :
        rs[j].severity < rs[worst].severity \/ (rs[j].severity = rs[worst].severity /\ worst <= j)
  BY <1>1, <1>5
<1>7. Engine!ThreatFromRules(rs) =
        [ids |-> {rs[j].id : j \in DOMAIN rs}, severity |-> rs[worst].severity,
         primary |-> rs[worst].id]
  BY DEF Engine!ThreatFromRules
<1> HIDE DEF worst
<1>8. rs[k].severity <= rs[worst].severity
  <2>1. PICK x \in Nat, y \in Nat : x = rs[k].severity /\ y = rs[worst].severity
    BY <1>1, <1>3, <1>6
  <2>2. x < y \/ x = y
    BY <1>1, <1>6, <2>1
  <2> QED BY <2>1, <2>2
<1> QED BY <1>1, <1>7, <1>8

-----------------------------------------------------------------------------
LEMMA RulesInit == Engine!Init => Engine!IInv
<1> SUFFICES ASSUME Engine!Init PROVE Engine!IInv
  OBVIOUS
<1>1. /\ file \in Files /\ settings \in Settings /\ engine = "new" /\ result = Engine!Nothing
      /\ rules = <<>> /\ active = <<>>
  BY DEF Engine!Init
<1>2. rules \in Seq(Engine!RuleRecords) /\ active \in Seq(Engine!RuleRecords)
  BY <1>1, EmptySeq
<1> QED BY <1>1, <1>2 DEF Engine!IInv, Engine!TypeOK, Engine!ActiveAreChosen,
           Engine!RulesComeFirst

LEMMA RulesInvNext == Engine!IInv /\ [Engine!Next]_Engine!vars => Engine!IInv'
<1> SUFFICES ASSUME Engine!TypeOK, Engine!ActiveAreChosen, Engine!RulesComeFirst,
       [Engine!Next]_Engine!vars
             PROVE  Engine!IInv'
  BY DEF Engine!IInv
<1>1. CASE UNCHANGED Engine!vars
  BY <1>1 DEF Engine!vars, Engine!IInv, Engine!TypeOK, Engine!ActiveAreChosen,
     Engine!RulesComeFirst, Engine!DisabledByWhitelist, Engine!ActiveRules,
     Engine!IsWhitelisted, Engine!Evaluate
<1>2. CASE Engine!Initialize
  <2>1. /\ engine = "new" /\ result = Engine!Nothing /\ result' = Engine!Nothing
        /\ UNCHANGED <<file, settings>>
    BY <1>2 DEF Engine!Initialize, Engine!RulesComeFirst
  <2>2. PICK loaded : loaded = Engine!LoadRules(file.rules)
    OBVIOUS
  <2>3. PICK chosen : chosen = Engine!ActiveRules(loaded, settings.disabled)
    OBVIOUS
  <2>4. loaded \in Seq(Engine!RuleRecords)
    BY <2>2, ValidAreLoaded, RulesAssumption DEF Engine!TypeOK
  <2>5. chosen \in Seq(Engine!RuleRecords)
    BY <2>3, <2>4, EnabledAreActive
  <2>6. Engine!Suppressed(chosen, Engine!DisabledByWhitelist) \in Seq(Engine!RuleRecords)
    BY <2>5, OthersAreSuppressed
  <2>7. CASE ~file.readable
    <3>1. engine' = "failed" /\ UNCHANGED <<rules, active>>
      BY <1>2, <2>7 DEF Engine!Initialize
    <3> QED BY <2>1, <3>1 DEF Engine!IInv, Engine!TypeOK, Engine!ActiveAreChosen,
               Engine!RulesComeFirst
  <2>8. CASE file.readable
    <3>1. /\ engine' = "running" /\ rules' = loaded
          /\ active' = Engine!Suppressed(chosen, Engine!DisabledByWhitelist)
      BY <1>2, <2>2, <2>3, <2>8 DEF Engine!Initialize, Engine!DisabledByWhitelist
    <3>2. Engine!TypeOK'
      BY <2>1, <2>4, <2>6, <3>1 DEF Engine!TypeOK
    <3>3. Engine!ActiveAreChosen'
      BY <2>1, <2>2, <2>3, <3>1 DEF Engine!ActiveAreChosen, Engine!DisabledByWhitelist,
         Engine!ActiveRules
    <3>4. Engine!RulesComeFirst'
      BY <2>1, <3>1 DEF Engine!RulesComeFirst
    <3> QED BY <3>2, <3>3, <3>4 DEF Engine!IInv
  <2> QED BY <2>7, <2>8
<1>3. ASSUME NEW e \in Events, NEW patterns \in {<<>>, <<"BURST">>, <<"BURST", "CHAIN">>},
             NEW raised, Engine!ProcessEvent(e, patterns, raised)
      PROVE  Engine!IInv'
  <2>1. /\ UNCHANGED <<file, settings, rules, disabled, active, whitelist, engine>>
        /\ engine = "running"
    BY <1>3 DEF Engine!ProcessEvent
  <2>2. Engine!TypeOK' /\ Engine!ActiveAreChosen'
    BY <2>1 DEF Engine!TypeOK, Engine!ActiveAreChosen, Engine!DisabledByWhitelist,
       Engine!ActiveRules
  <2> DEFINE matched == Engine!Evaluate(e)
             byRules == IF matched = <<>> THEN <<>> ELSE <<Engine!ThreatFromRules(matched)>>
             others  == [i \in DOMAIN patterns |-> Engine!ThreatFromPattern(patterns[i])]
             skipped == Engine!IsWhitelisted(e)
  <2>3. result' = [event   |-> e, raised |-> raised,
                 threats |-> IF skipped \/ raised # "nothing" THEN <<>> ELSE byRules \o others]
    BY <1>3 DEF Engine!ProcessEvent
  <2>4. PICK os : os = others
    OBVIOUS
  <2>5. \E n \in Nat : DOMAIN patterns = 1..n
    BY LenProperties
  <2>6. os \in Seq({os[i] : i \in DOMAIN os})
    BY <2>4, <2>5
  <2>7. ASSUME NEW t PROVE 1 \in DOMAIN (<<t>> \o os) /\ (<<t>> \o os)[1] = t
    <3> DEFINE X == {t} \cup {os[i] : i \in DOMAIN os}
    <3>1. <<t>> \in Seq(X) /\ os \in Seq(X) /\ Len(<<t>>) = 1 /\ <<t>>[1] = t
      BY <2>6
    <3> HIDE DEF X
    <3>2. Len(<<t>> \o os) = Len(<<t>>) + Len(os) /\ (<<t>> \o os)[1] = <<t>>[1]
      BY <3>1, ConcatProperties, LenProperties
    <3>3. <<t>> \o os \in Seq(X) /\ Len(os) \in Nat
      BY <3>1, ConcatProperties, LenProperties
    <3>4. DOMAIN (<<t>> \o os) = 1..Len(<<t>> \o os) /\ 1 \in 1..Len(<<t>> \o os)
      BY <3>1, <3>2, <3>3, LenProperties
    <3> QED BY <3>1, <3>2, <3>4
  <2>8. /\ result'.event = e /\ result'.raised = raised
        /\ raised = "nothing" /\ ~skipped /\ matched # <<>> =>
             1 \in DOMAIN result'.threats /\ result'.threats[1] = Engine!ThreatFromRules(matched)
    <3> SUFFICES ASSUME raised = "nothing", ~skipped, matched # <<>>
                 PROVE  1 \in DOMAIN result'.threats /\ result'.threats[1] = Engine!ThreatFromRules(matched)
      BY <2>3
    <3>1. result'.threats = <<Engine!ThreatFromRules(matched)>> \o os
      BY <2>3, <2>4
    <3> QED BY <2>7, <3>1
  <2>9. (Engine!IsWhitelisted(result.event))' <=> Engine!IsWhitelisted(result'.event)
    BY <2>1 DEF Engine!IsWhitelisted
  <2>10. (Engine!Evaluate(result.event))' = Engine!Evaluate(result'.event)
    BY <2>1, EngineKept DEF Engine!Evaluate
  <2> HIDE DEF matched, skipped
  <2>11. Engine!RulesComeFirst'
    BY <2>1, <2>8, <2>9, <2>10 DEF Engine!RulesComeFirst, matched, skipped
  <2> QED BY <2>2, <2>11 DEF Engine!IInv
<1> QED BY <1>1, <1>2, <1>3 DEF Engine!Next

LEMMA ChosenAreReported == Engine!IInv => Engine!EnabledRulesReported
<1> SUFFICES ASSUME Engine!IInv, result.raised = "nothing", result.event # Engine!Nothing.event,
                    ~Engine!IsWhitelisted(result.event),
                    NEW i \in DOMAIN file.rules, NEW r, r = file.rules[i],
                    r.form = "valid", Engine!Readable(r), r.enabled,
                    r.id \notin settings.disabled \cup file.whitelist.disabled,
                    settings.enabled # {} => r.id \in settings.enabled,
                    Engine!EvaluateRule(Engine!ParseRule(r), result.event)
             PROVE  \E j \in DOMAIN result.threats :
                      r.id \in result.threats[j].ids /\ r.severity <= result.threats[j].severity
  BY DEF Engine!EnabledRulesReported
<1>1. result # Engine!Nothing /\ engine = "running"
  BY DEF Engine!IInv, Engine!RulesComeFirst, Engine!Nothing
<1>2. PICK raws \in Seq(Engine!RuleRecords) : raws = file.rules /\ i \in 1..Len(raws)
         /\ r \in Engine!RuleRecords
  <2>1. file.rules \in Seq(Engine!RuleRecords)
    BY RulesAssumption DEF Engine!IInv, Engine!TypeOK
  <2>2. i \in 1..Len(file.rules)
    BY <2>1, LenProperties
  <2>3. r \in Engine!RuleRecords
    BY <2>1, <2>2, ElementOfSeq
  <2> QED BY <2>1, <2>2, <2>3
<1>3. PICK p \in Engine!RuleRecords :
        p = Engine!ParseRule(r) /\ p.id = r.id /\ p.enabled = r.enabled /\ p.severity = r.severity
  BY <1>2, ParsedRule
<1>4. PICK loaded \in Seq(Engine!RuleRecords), j \in Nat :
        loaded = Engine!LoadRules(raws) /\ j \in 1..Len(loaded) /\ loaded[j] = p
  BY <1>2, <1>3, ValidAreLoaded
<1>5. PICK chosen \in Seq(Engine!RuleRecords), k \in Nat :
        chosen = Engine!ActiveRules(loaded, settings.disabled) /\ k \in 1..Len(chosen)
           /\ chosen[k] = p
  <2>1. p.enabled
    BY Zenon, <1>3
  <2>2. p.id \notin settings.disabled /\ (settings.enabled # {} => p.id \in settings.enabled)
    BY <1>3
  <2>3. PICK c : c = Engine!ActiveRules(loaded, settings.disabled)
    OBVIOUS
  <2>4. c \in Seq(Engine!RuleRecords)
    BY <2>3, EnabledAreActive
  <2>5. \E k \in 1..Len(c) : c[k] = loaded[j]
    BY <1>4, <2>1, <2>2, <2>3, EnabledAreActive
  <2>6. \A k \in 1..Len(c) : k \in Nat
    OBVIOUS
  <2> QED BY <1>4, <2>3, <2>4, <2>5, <2>6
<1>6. r.id \notin Engine!DisabledByWhitelist
  BY DEF Engine!DisabledByWhitelist
<1>7. PICK l \in Nat : l \in 1..Len(active) /\ active[l] = p
  <2>1. active = Engine!Suppressed(chosen, Engine!DisabledByWhitelist)
    BY <1>1, <1>2, <1>4, <1>5 DEF Engine!IInv, Engine!ActiveAreChosen
  <2> QED BY <1>3, <1>5, <1>6, <2>1, OthersAreSuppressed
<1>8. PICK matched \in Seq(Engine!RuleRecords), m \in Nat :
        matched = Engine!Evaluate(result.event) /\ m \in 1..Len(matched) /\ matched[m] = p
  BY <1>3, <1>7, HoldingAreEvaluated DEF Engine!IInv, Engine!TypeOK
<1>9. matched # <<>>
  BY <1>8
<1>10. 1 \in DOMAIN result.threats /\ result.threats[1] = Engine!ThreatFromRules(matched)
  BY <1>1, <1>8, <1>9 DEF Engine!IInv, Engine!RulesComeFirst
<1>11. p.id \in Engine!ThreatFromRules(matched).ids
          /\ p.severity <= Engine!ThreatFromRules(matched).severity
  BY <1>8, ThreatNamesAll
<1> QED BY <1>3, <1>10, <1>11

\* While another detector is at work, the engine rests.
LEMMA EngineStep == [DetectionNext]_detectionVars => [Engine!Next]_Engine!vars
BY DEF DetectionNext, detectionVars, engineVariables, Engine!vars

LEMMA EngineInductive == DetectionSpec => []Engine!IInv
<1>1. DetectionInit => Engine!IInv
  BY RulesInit DEF DetectionInit
<1>2. Engine!IInv /\ [DetectionNext]_detectionVars => Engine!IInv'
  BY EngineStep, RulesInvNext
<1> QED BY <1>1, <1>2, PTL DEF DetectionSpec

\* For any rules file, settings and events: what load_rules() makes of the file, and
\* _load_whitelist() of the active rules, loses no valid rule that is enabled, and when it
\* holds for an event that is not trusted, evaluate() returns it and the threat built from
\* all rules that do names it and is as severe as it is, whatever place it has in the file.
THEOREM RulesAreReported == DetectionSpec => []EnabledRulesReported
<1>1. Engine!IInv => EnabledRulesReported
  BY ChosenAreReported DEF EnabledRulesReported
<1> QED BY <1>1, EngineInductive, PTL
=============================================================================
