-------------------------- MODULE EventLogRacesProofs --------------------------
(***************************************************************************)
(* Proof that the races of event_log_store never reach outside the ring    *)
(* and never take an event that was recorded without one, for any capacity *)
(* and any number of events.                                               *)
(***************************************************************************)
EXTENDS EventLogRaces, FiniteSetTheorems, TLAPS

LEMMA Sizes == Capacity \in Nat /\ Capacity > 0 /\ MaxEvents \in Nat /\ MaxEvents > 0
BY EventLogRacesAssumption

LEMMA InRing ==
  ASSUME NEW n \in Nat
  PROVE  n % Capacity \in Slots
<1>1. n % Capacity \in Nat /\ n % Capacity < Capacity
  BY Sizes, Z3
<1> QED
  BY <1>1, Sizes DEF Slots

LEMMA InitKeepsRing == Init => RacesInv
<1> SUFFICES ASSUME Init PROVE RacesInv
  OBVIOUS
<1>1. 1 % Capacity \in Slots /\ 0 \in Slots
  BY InRing, Sizes DEF Slots
<1>2. event_log_entries \in [Slots -> (0 .. MaxEvents) \X (0 .. MaxEvents)]
  <2>1. \A s \in Slots : (IF s = 0 THEN <<1, 1>> ELSE <<0, 0>>)
                            \in (0 .. MaxEvents) \X (0 .. MaxEvents)
    BY Sizes
  <2> QED
    BY <2>1 DEF Init
<1>3. TypeOK
  BY <1>1, <1>2, Sizes DEF TypeOK, Init
<1>4. Writing = {}
  BY DEF Writing, Active, Init
<1> QED
  BY <1>3, <1>4 DEF RacesInv, Init

(* A step that moves only its own task keeps what holds of the others.     *)
LEMMA OwnStepKeepsRing ==
  ASSUME RacesInv, NEW t \in Tasks, TypeOK',
         NEW label, pc' = [pc EXCEPT ![t] = label],
         \A u \in Tasks \ {t} : register'[u] = register[u] /\ event'[u] = event[u],
         label \in {"storeCount", "copy"} => register'[t] < Capacity,
         label \notin {"idle", "select", "copy"} => event'[t] # 0
  PROVE  RacesInv'
<1>1. pc \in [Tasks -> {"idle", "meta", "data", "loadHead", "storeHead",
                        "loadCount", "storeCount", "select", "copy"}]
  BY DEF RacesInv, TypeOK
<1> SUFFICES ASSUME NEW u \in Tasks
             PROVE  /\ pc'[u] \in {"storeCount", "copy"} => register'[u] < Capacity
                    /\ u \in Writing' => event'[u] # 0
  BY DEF RacesInv
<1>2. CASE u = t
  BY <1>1, <1>2 DEF Writing, Active
<1>3. CASE u # t
  BY <1>1, <1>3 DEF Writing, Active, RacesInv
<1> QED
  BY <1>2, <1>3

LEMMA StoreKeepsRing ==
  ASSUME RacesInv, NEW t \in Tasks,
         \/ BeginStore(t) \/ StoreMeta(t) \/ StoreData(t) \/ LoadHead(t)
         \/ StoreHead(t) \/ LoadCount(t) \/ StoreCount(t)
  PROVE  RacesInv'
<1> USE Sizes
<1>1. TypeOK
  BY DEF RacesInv
<1>2. \A u \in Tasks : u \in Writing => event[u] \in 1 .. MaxEvents
  BY DEF RacesInv, TypeOK
<1>3. pc[t] \in {"meta", "data", "loadHead", "storeHead", "loadCount", "storeCount"} =>
          event[t] # 0
  BY DEF RacesInv, Writing, Active
<1>4. CASE BeginStore(t)
  <2>1. recorded' \in 1 .. MaxEvents
    BY <1>1, <1>4 DEF BeginStore, TypeOK
  <2>2. {event[u] : u \in Writing} \subseteq 1 .. MaxEvents
    BY <1>2 DEF Writing, Active
  <2>3. disturbed' \in SUBSET (1 .. MaxEvents)
    BY <1>1, <1>4, <2>1, <2>2 DEF BeginStore, TypeOK
  <2>4. TypeOK'
    BY <1>1, <1>4, <2>1, <2>3 DEF BeginStore, TypeOK, Goto
  <2>5. event'[t] = recorded' /\ \A u \in Tasks \ {t} : event'[u] = event[u]
    BY <1>1, <1>4 DEF BeginStore, TypeOK
  <2>6. pc' = [pc EXCEPT ![t] = "meta"] /\ register' = register
    BY <1>4 DEF BeginStore, Goto
  <2>7. event'[t] # 0 /\ \A u \in Tasks \ {t} : register'[u] = register[u]
    BY <2>1, <2>5, <2>6
  <2> QED
    BY <2>4, <2>5, <2>6, <2>7, OwnStepKeepsRing
<1>5. CASE StoreMeta(t)
  <2>1. TypeOK'
    BY <1>1, <1>5 DEF StoreMeta, TypeOK, Goto
  <2> QED
    BY <1>3, <1>5, <2>1, OwnStepKeepsRing DEF StoreMeta, Goto
<1>6. CASE StoreData(t)
  <2>1. TypeOK'
    BY <1>1, <1>6 DEF StoreData, TypeOK, Goto
  <2> QED
    BY <1>3, <1>6, <2>1, OwnStepKeepsRing DEF StoreData, Goto
<1>7. CASE LoadHead(t)
  <2>1. event_log_head \in 0 .. Capacity
    BY <1>1 DEF TypeOK, Slots
  <2>2. register' \in [Tasks -> 0 .. Capacity]
    BY <1>1, <1>7, <2>1 DEF LoadHead, Load, TypeOK
  <2>3. TypeOK'
    BY <1>1, <1>7, <2>2 DEF LoadHead, TypeOK, Goto
  <2> QED
    BY <1>1, <1>3, <1>7, <2>3, OwnStepKeepsRing DEF LoadHead, Goto, Load, TypeOK
<1>8. CASE StoreHead(t)
  <2>1. event_log_head' \in Slots
    BY <1>1, <1>8, InRing DEF StoreHead, NextHead, TypeOK
  <2>2. TypeOK'
    BY <1>1, <1>8, <2>1 DEF StoreHead, TypeOK, Goto
  <2> QED
    BY <1>3, <1>8, <2>2, OwnStepKeepsRing DEF StoreHead, Goto
<1>9. CASE LoadCount(t)
  <2>1. TypeOK'
    BY <1>1, <1>9 DEF LoadCount, TypeOK, Goto, Load
  <2> QED
    BY <1>1, <1>3, <1>9, <2>1, OwnStepKeepsRing DEF LoadCount, Goto, Load, TypeOK
<1>10. CASE StoreCount(t)
  <2>1. register[t] < Capacity
    BY <1>10 DEF StoreCount, RacesInv
  <2>2. TypeOK'
    BY <1>1, <1>10, <2>1 DEF StoreCount, NextCount, TypeOK, Goto
  <2> QED
    BY <1>10, <2>2, OwnStepKeepsRing DEF StoreCount, Goto
<1> QED
  BY <1>4, <1>5, <1>6, <1>7, <1>8, <1>9, <1>10

LEMMA DumpKeepsRing ==
  ASSUME RacesInv, NEW t \in Tasks, BeginDump(t) \/ DumpSelect(t) \/ DumpCopy(t)
  PROVE  RacesInv'
<1> USE Sizes
<1>1. TypeOK
  BY DEF RacesInv
<1>2. CASE BeginDump(t)
  <2>1. TypeOK'
    BY <1>1, <1>2 DEF BeginDump, TypeOK, Goto, Load
  <2> QED
    BY <1>1, <1>2, <2>1, OwnStepKeepsRing DEF BeginDump, Goto, Load, TypeOK
<1>3. CASE DumpSelect(t) /\ register[t] < event_log_count_value
  <2> DEFINE start == IF event_log_count_value < Capacity THEN 0 ELSE event_log_head
  <2>1. (start + register[t]) % Capacity \in Slots
    <3>1. start + register[t] \in Nat
      BY <1>1 DEF TypeOK, Slots
    <3> QED
      BY <3>1, InRing
  <2>2. TypeOK'
    BY <1>1, <1>3, <2>1 DEF DumpSelect, TypeOK, Goto
  <2>3. register[t] < Capacity
    BY <1>1, <1>3 DEF TypeOK
  <2> QED
    BY <1>1, <1>3, <2>2, <2>3, OwnStepKeepsRing DEF DumpSelect, Goto
<1>4. CASE DumpSelect(t) /\ ~(register[t] < event_log_count_value)
  <2>1. TypeOK'
    BY <1>1, <1>4 DEF DumpSelect, TypeOK, Goto
  <2> QED
    BY <1>1, <1>4, <2>1, OwnStepKeepsRing DEF DumpSelect, Goto
<1>5. CASE DumpCopy(t)
  <2>1. register[t] < Capacity
    BY <1>5 DEF DumpCopy, RacesInv
  <2>2. TypeOK'
    BY <1>1, <1>5, <2>1 DEF DumpCopy, TypeOK, Goto, Load
  <2> QED
    BY <1>1, <1>5, <2>2, OwnStepKeepsRing DEF DumpCopy, Goto, Load, TypeOK
<1> QED
  BY <1>2, <1>3, <1>4, <1>5

LEMMA RacesStep ==
  ASSUME RacesInv, [Next]_vars
  PROVE  RacesInv'
<1>1. CASE Next
  BY <1>1, StoreKeepsRing, DumpKeepsRing DEF Next, Step
<1>2. CASE UNCHANGED vars
  BY <1>2 DEF vars, RacesInv, TypeOK, Writing, Active
<1> QED
  BY <1>1, <1>2

(* No race makes a store or a read leave the array, or the count say there *)
(* is more than the array holds.                                           *)
THEOREM RacesStayInRing == Spec => []TypeOK
<1>1. RacesInv => TypeOK
  BY DEF RacesInv
<1> QED
  BY InitKeepsRing, RacesStep, <1>1, PTL DEF Spec

-----------------------------------------------------------------------------
(* The slots ahead of a slot. *)
LEMMA AheadGrows ==
  ASSUME NEW s, NEW m \in Int, NEW n \in Int, m <= n
  PROVE  Ahead(s, m) \subseteq Ahead(s, n)
  BY DEF Ahead

LEMMA ModOfSum ==
  ASSUME NEW n \in Nat, n < 2 * Capacity
  PROVE  n % Capacity = IF n < Capacity THEN n ELSE n - Capacity
<1>1. CASE n < Capacity
  BY <1>1, Sizes, Z3
<1>2. CASE n >= Capacity
  BY <1>2, Sizes, Z3
<1> QED BY <1>1, <1>2, Sizes

LEMMA AheadNext ==
  ASSUME NEW s \in Slots, NEW n \in Int, n < Capacity, NEW x \in Ahead(s, n)
  PROVE  (x + 1) % Capacity \in Ahead(s, n + 1)
<1>1. PICK j \in 1 .. n : x = (s + j) % Capacity
  BY DEF Ahead
<1>2. s \in Nat /\ s < Capacity /\ j \in Nat /\ j < Capacity
  BY Sizes DEF Slots
<1>3. (x + 1) % Capacity = (s + (j + 1)) % Capacity
  <2>1. x = IF s + j < Capacity THEN s + j ELSE s + j - Capacity
    BY <1>1, <1>2, ModOfSum, Sizes
  <2> DEFINE m == x + 1
             k == s + (j + 1)
  <2>2. m \in Nat /\ m < 2 * Capacity /\ k \in Nat /\ k < 2 * Capacity
    BY <1>2, <2>1, Sizes
  <2> HIDE DEF m, k
  <2>3. m % Capacity = IF m < Capacity THEN m ELSE m - Capacity
    BY <2>2, ModOfSum
  <2>4. k % Capacity = IF k < Capacity THEN k ELSE k - Capacity
    BY <2>2, ModOfSum
  <2>5. m % Capacity = k % Capacity
    BY <1>2, <2>1, <2>3, <2>4, Sizes DEF m, k
  <2> QED BY <2>5 DEF m, k
<1> QED
  BY <1>3 DEF Ahead

LEMMA NotAheadOfItself ==
  ASSUME NEW s \in Slots, NEW n \in Int, n < Capacity
  PROVE  s \notin Ahead(s, n)
<1> SUFFICES ASSUME NEW j \in 1 .. n PROVE (s + j) % Capacity # s
  BY DEF Ahead
<1>1. s \in Nat /\ s < Capacity /\ j \in Nat /\ 0 < j /\ j < Capacity
  BY Sizes DEF Slots
<1>2. CASE s + j < Capacity
  BY <1>1, <1>2, Sizes, Z3
<1>3. CASE s + j >= Capacity
  <2>1. (s + j) % Capacity = s + j - Capacity
    BY <1>1, <1>3, Sizes, Z3
  <2> QED
    BY <1>1, <2>1, Sizes
<1> QED
  BY <1>1, <1>2, <1>3, Sizes

-----------------------------------------------------------------------------
(* How many stores of the head are pending. *)
LEMMA PendingIsFinite == IsFiniteSet(HeadPending) /\ Cardinality(HeadPending) \in Nat
<1>1. IsFiniteSet({}) /\ IsFiniteSet({"Watchdog"})
  BY FS_EmptySet, FS_Singleton
<1>2. IsFiniteSet({"Watchdog"} \cup {"StateMachine"})
  BY <1>1, FS_AddElement
<1>3. IsFiniteSet(({"Watchdog"} \cup {"StateMachine"}) \cup {"MemScrub"})
  BY <1>2, FS_AddElement
<1>4. IsFiniteSet((({"Watchdog"} \cup {"StateMachine"}) \cup {"MemScrub"})
                    \cup {"CommandHandler"})
  BY <1>3, FS_AddElement
<1>5. HeadPending \subseteq (({"Watchdog"} \cup {"StateMachine"}) \cup {"MemScrub"})
                             \cup {"CommandHandler"}
  BY DEF HeadPending, Tasks
<1>6. IsFiniteSet(HeadPending)
  BY <1>4, <1>5, FS_Subset
<1> QED
  BY <1>6, FS_CardinalityType

LEMMA PendingWrites == HeadPending \subseteq Writing
  BY DEF HeadPending, Writing, Active

LEMMA OnePendingMore ==
  ASSUME RacesInv, NEW t \in Tasks, BeginStore(t)
  PROVE  /\ HeadPending' = HeadPending \cup {t} /\ t \notin HeadPending
         /\ HeadStores' = HeadStores
<1>1. /\ HeadPending' = HeadPending \cup {t} /\ t \notin HeadPending
      /\ recorded' = recorded + 1 /\ recorded \in Nat
  BY DEF RacesInv, TypeOK, BeginStore, Goto, HeadPending
<1>2. Cardinality(HeadPending') = Cardinality(HeadPending) + 1
  BY <1>1, PendingIsFinite, FS_AddElement
<1> QED
  BY <1>1, <1>2, PendingIsFinite DEF HeadStores

LEMMA OnePendingLess ==
  ASSUME RacesInv, NEW t \in Tasks, StoreHead(t)
  PROVE  /\ HeadPending' = HeadPending \ {t} /\ t \in HeadPending
         /\ HeadStores' = HeadStores + 1
<1>1. /\ HeadPending' = HeadPending \ {t} /\ t \in HeadPending
      /\ recorded' = recorded /\ recorded \in Nat
  BY DEF RacesInv, TypeOK, StoreHead, Goto, HeadPending
<1>2. Cardinality(HeadPending') = Cardinality(HeadPending) - 1
  BY <1>1, PendingIsFinite, FS_RemoveElement
<1> QED
  BY <1>1, <1>2, PendingIsFinite DEF HeadStores

LEMMA StoresCounted ==
  TypeOK => HeadStores \in Int /\ HeadStores <= recorded /\ recorded \in Nat
  BY PendingIsFinite DEF TypeOK, HeadStores

LEMMA NextStoresCounted == (TypeOK => HeadStores <= recorded)'
<1>1. TypeOK => HeadStores <= recorded
  BY StoresCounted
<1> QED BY <1>1, PTL

-----------------------------------------------------------------------------
(* An event that nothing disturbs, step by step. *)
LEMMA BeginKeepsQuiet ==
  ASSUME RacesInv, QuietInv, NEW t \in Tasks, BeginStore(t)
  PROVE  QuietInv'
<1>1. /\ recorded' = recorded + 1 /\ recorded \in Nat
      /\ event'[t] = recorded' /\ slot'[t] = event_log_head /\ pc'[t] = "meta"
      /\ \A u \in Tasks \ {t} : event'[u] = event[u] /\ slot'[u] = slot[u] /\ pc'[u] = pc[u]
      /\ UNCHANGED <<event_log_entries, event_log_head, register>>
      /\ disturbed \subseteq disturbed'
  BY DEF RacesInv, TypeOK, BeginStore, Goto
<1>2. /\ HeadPending' = HeadPending \cup {t} /\ t \notin HeadPending
      /\ HeadStores' = HeadStores
  BY OnePendingMore
<1>3. HeadStores \in Int /\ HeadStores <= recorded
  BY StoresCounted DEF RacesInv
<1>4. event \in [Tasks -> Nat]
  BY Sizes DEF RacesInv, TypeOK
<1>5. \A u \in Tasks : event'[u] <= recorded'
  BY <1>1, <1>4 DEF QuietInv
<1>6. ASSUME NEW u \in HeadPending', event'[u] \notin disturbed'
      PROVE  Alone(u)'
  <2>1. Writing = {}
    <3>1. CASE u = t
      BY <1>1, <1>6, <3>1 DEF BeginStore
    <3>2. CASE u # t
      <4>1. u \in Writing /\ event'[u] = event[u]
        BY <1>1, <1>2, <1>6, <3>2, PendingWrites DEF HeadPending
      <4> QED BY <1>6, <4>1 DEF BeginStore
    <3> QED BY <3>1, <3>2
  <2>2. u = t
    BY <1>2, <1>6, <2>1, PendingWrites
  <2>3. Writing' = {t}
    BY <1>1, <2>1 DEF Writing, Active
  <2> QED BY <1>1, <2>2, <2>3 DEF Alone
<1>7. ASSUME NEW e \in 1 .. recorded', e \notin disturbed', recorded' - e < Capacity,
             \A u \in HeadPending' : event'[u] # e
      PROVE  Settled(e)'
  <2>1. e # recorded'
    BY <1>1, <1>2, <1>7
  <2>2. e \in 1 .. recorded /\ e \notin disturbed /\ recorded - e < Capacity
    BY <1>1, <1>7, <2>1, Sizes
  <2>3. \A u \in HeadPending : event[u] # e
    BY <1>1, <1>2, <1>7 DEF HeadPending
  <2>4. Settled(e)
    BY <2>2, <2>3 DEF QuietInv
  <2>5. PICK s \in Slots :
          /\ event_log_entries[s] = <<e, e>>
          /\ event_log_head \in Ahead(s, HeadStores + 1 - e)
          /\ \A u \in HeadPending :
                /\ slot[u] \in Ahead(s, recorded - e)
                /\ pc[u] = "storeHead" => register[u] \in Ahead(s, HeadStores + 1 - e)
    BY <2>4 DEF Settled
  <2>6. /\ Ahead(s, HeadStores + 1 - e) \subseteq Ahead(s, recorded' - e)
        /\ Ahead(s, recorded - e) \subseteq Ahead(s, recorded' - e)
    BY <1>1, <1>3, <2>2, AheadGrows
  <2>7. \A u \in HeadPending' :
           /\ slot'[u] \in Ahead(s, recorded' - e)
           /\ pc'[u] = "storeHead" => register'[u] \in Ahead(s, HeadStores' + 1 - e)
    <3> SUFFICES ASSUME NEW u \in HeadPending'
                 PROVE  /\ slot'[u] \in Ahead(s, recorded' - e)
                        /\ pc'[u] = "storeHead" => register'[u] \in Ahead(s, HeadStores' + 1 - e)
      OBVIOUS
    <3>1. CASE u = t
      BY <1>1, <2>5, <2>6, <3>1
    <3>2. CASE u # t
      <4>1. u \in HeadPending /\ u \in Tasks \ {t}
        BY <1>2, <3>2 DEF HeadPending
      <4> QED BY <1>1, <1>2, <2>5, <2>6, <4>1
    <3> QED BY <3>1, <3>2
  <2>8. event_log_entries'[s] = <<e, e>>
        /\ event_log_head' \in Ahead(s, HeadStores' + 1 - e)
    BY <1>1, <1>2, <2>5
  <2> QED BY <2>7, <2>8 DEF Settled, Ahead
<1> QED BY <1>5, <1>6, <1>7 DEF QuietInv

(* A task that does not touch what is pending, nor the entries and head.   *)
LEMMA OthersKeepSettled ==
  ASSUME NEW e, Settled(e),
         UNCHANGED <<event_log_entries, event_log_head, recorded, HeadPending>>,
         \A u \in HeadPending :
             slot'[u] = slot[u] /\ pc'[u] = pc[u] /\ register'[u] = register[u]
  PROVE  Settled(e)'
  BY DEF Settled, HeadStores, Ahead

LEMMA WriteKeepsQuiet ==
  ASSUME RacesInv, QuietInv, NEW t \in Tasks, StoreMeta(t) \/ StoreData(t)
  PROVE  QuietInv'
<1> DEFINE Pairs == (0 .. MaxEvents) \X (0 .. MaxEvents)
<1>1. /\ event_log_entries \in [Slots -> Pairs]
      /\ slot \in [Tasks -> Slots] /\ event[t] \in 0 .. MaxEvents
  BY DEF RacesInv, TypeOK
<1>2. /\ UNCHANGED <<event_log_head, slot, register, event, recorded, disturbed>>
      /\ \A u \in Tasks \ {t} : pc'[u] = pc[u]
      /\ t \in HeadPending /\ pc'[t] \in {"data", "loadHead"}
      /\ pc[t] = "meta" => pc'[t] = "data"
  BY DEF RacesInv, TypeOK, StoreMeta, StoreData, Goto, HeadPending
<1>3. HeadPending' = HeadPending /\ Writing' = Writing
  BY <1>2 DEF HeadPending, Writing, Active
<1>4. \A s \in Slots \ {slot[t]} : event_log_entries'[s] = event_log_entries[s]
  BY <1>1 DEF StoreMeta, StoreData
<1>5. /\ StoreMeta(t) => event_log_entries'[slot[t]][1] = event[t]
      /\ StoreData(t) => /\ event_log_entries'[slot[t]][1] = event_log_entries[slot[t]][1]
                         /\ event_log_entries'[slot[t]][2] = event[t]
  <2>1. slot[t] \in Slots /\ event_log_entries[slot[t]] \in Pairs
    BY <1>1
  <2>2. PICK a, b \in 0 .. MaxEvents : event_log_entries[slot[t]] = <<a, b>>
    BY <2>1
  <2>3. [<<a, b>> EXCEPT ![1] = event[t]] = <<event[t], b>>
    OBVIOUS
  <2>4. [<<a, b>> EXCEPT ![2] = event[t]] = <<a, event[t]>>
    OBVIOUS
  <2>5. StoreMeta(t) => event_log_entries'[slot[t]] = <<event[t], b>>
    BY <1>1, <2>1, <2>2, <2>3 DEF StoreMeta
  <2>6. StoreData(t) => event_log_entries'[slot[t]] = <<a, event[t]>>
    BY <1>1, <2>1, <2>2, <2>4 DEF StoreData
  <2> QED BY <2>2, <2>5, <2>6
<1>6. ASSUME NEW u \in HeadPending', event'[u] \notin disturbed'
      PROVE  Alone(u)'
  <2>1. Alone(u)
    BY <1>2, <1>3, <1>6 DEF QuietInv
  <2>2. u = t
    BY <1>2, <2>1, PendingWrites DEF Alone
  <2>3. CASE StoreMeta(t)
    <3>1. pc'[t] = "data"
      BY <1>2, <2>3 DEF StoreMeta
    <3> QED BY <1>2, <1>3, <1>5, <2>1, <2>2, <2>3, <3>1 DEF Alone
  <2>4. CASE StoreData(t)
    <3>1. pc[t] = "data" /\ pc'[t] # "storeHead"
      BY <1>2, <2>4 DEF StoreData
    <3> QED BY <1>2, <1>3, <1>5, <2>1, <2>2, <2>4, <3>1 DEF Alone
  <2> QED BY <2>3, <2>4
<1>7. ASSUME NEW e \in 1 .. recorded', e \notin disturbed', recorded' - e < Capacity,
             \A u \in HeadPending' : event'[u] # e
      PROVE  Settled(e)'
  <2>1. Settled(e)
    BY <1>2, <1>3, <1>7 DEF QuietInv
  <2>2. PICK s \in Slots :
          /\ event_log_entries[s] = <<e, e>>
          /\ event_log_head \in Ahead(s, HeadStores + 1 - e)
          /\ \A u \in HeadPending :
                /\ slot[u] \in Ahead(s, recorded - e)
                /\ pc[u] = "storeHead" => register[u] \in Ahead(s, HeadStores + 1 - e)
    BY <2>1 DEF Settled
  <2>3. recorded - e \in Int /\ recorded - e < Capacity
    BY <1>2, <1>7, StoresCounted DEF RacesInv
  <2>4. slot[t] # s
    BY <1>2, <2>2, <2>3, NotAheadOfItself
  <2>5. event_log_entries'[s] = <<e, e>>
    BY <1>4, <2>2, <2>4
  <2>6. HeadStores' = HeadStores
    BY <1>2, <1>3 DEF HeadStores
  <2>7. \A u \in HeadPending' :
           /\ slot'[u] \in Ahead(s, recorded' - e)
           /\ pc'[u] = "storeHead" => register'[u] \in Ahead(s, HeadStores' + 1 - e)
    <3>1. \A u \in HeadPending : pc'[u] = "storeHead" => pc[u] = "storeHead"
      BY <1>2 DEF HeadPending
    <3> QED BY <1>2, <1>3, <2>2, <2>6, <3>1
  <2> QED BY <1>2, <2>2, <2>5, <2>6, <2>7 DEF Settled, Ahead
<1>8. \A u \in Tasks : event'[u] <= recorded'
  BY <1>2 DEF QuietInv
<1> QED BY <1>6, <1>7, <1>8 DEF QuietInv

LEMMA LoadHeadKeepsQuiet ==
  ASSUME RacesInv, QuietInv, NEW t \in Tasks, LoadHead(t)
  PROVE  QuietInv'
<1>1. /\ UNCHANGED <<event_log_entries, event_log_head, slot, event, recorded, disturbed>>
      /\ \A u \in Tasks \ {t} : pc'[u] = pc[u] /\ register'[u] = register[u]
      /\ t \in HeadPending /\ pc[t] = "loadHead" /\ pc'[t] = "storeHead"
      /\ register'[t] = event_log_head
  BY DEF RacesInv, TypeOK, LoadHead, Load, Goto, HeadPending
<1>2. HeadPending' = HeadPending /\ Writing' = Writing /\ HeadStores' = HeadStores
  BY <1>1 DEF HeadPending, Writing, Active, HeadStores
<1>3. ASSUME NEW u \in HeadPending', event'[u] \notin disturbed'
      PROVE  Alone(u)'
  <2>1. Alone(u)
    BY <1>1, <1>2, <1>3 DEF QuietInv
  <2>2. u = t
    BY <1>1, <2>1, PendingWrites DEF Alone
  <2> QED BY <1>1, <1>2, <2>1, <2>2 DEF Alone
<1>4. ASSUME NEW e \in 1 .. recorded', e \notin disturbed', recorded' - e < Capacity,
             \A u \in HeadPending' : event'[u] # e
      PROVE  Settled(e)'
  <2>1. Settled(e)
    BY <1>1, <1>2, <1>4 DEF QuietInv
  <2>2. PICK s \in Slots :
          /\ event_log_entries[s] = <<e, e>>
          /\ event_log_head \in Ahead(s, HeadStores + 1 - e)
          /\ \A u \in HeadPending :
                /\ slot[u] \in Ahead(s, recorded - e)
                /\ pc[u] = "storeHead" => register[u] \in Ahead(s, HeadStores + 1 - e)
    BY <2>1 DEF Settled
  <2>3. \A u \in HeadPending' :
           /\ slot'[u] \in Ahead(s, recorded' - e)
           /\ pc'[u] = "storeHead" => register'[u] \in Ahead(s, HeadStores' + 1 - e)
    BY <1>1, <1>2, <2>2 DEF HeadPending
  <2> QED BY <1>1, <1>2, <2>2, <2>3 DEF Settled, Ahead
<1>5. \A u \in Tasks : event'[u] <= recorded'
  BY <1>1 DEF QuietInv
<1> QED BY <1>3, <1>4, <1>5 DEF QuietInv

LEMMA StoreHeadKeepsQuiet ==
  ASSUME RacesInv, QuietInv, NEW t \in Tasks, StoreHead(t)
  PROVE  QuietInv'
<1>1. /\ UNCHANGED <<event_log_entries, slot, register, event, recorded, disturbed>>
      /\ \A u \in Tasks \ {t} : pc'[u] = pc[u]
      /\ pc[t] = "storeHead" /\ pc'[t] = "loadCount"
      /\ event_log_head' = (register[t] + 1) % Capacity
  BY DEF RacesInv, TypeOK, StoreHead, NextHead, Goto
<1>2. /\ HeadPending' = HeadPending \ {t} /\ t \in HeadPending
      /\ HeadStores' = HeadStores + 1
  BY OnePendingLess
<1>3. HeadStores \in Int /\ recorded \in Nat /\ HeadStores' <= recorded
  <2>1. TypeOK /\ TypeOK'
    BY StoreKeepsRing DEF RacesInv
  <2>2. HeadStores' <= recorded'
    BY <2>1, NextStoresCounted
  <2> QED BY <1>1, <2>1, <2>2, StoresCounted
<1>4. ASSUME NEW u \in HeadPending', event'[u] \notin disturbed'
      PROVE  Alone(u)'
  <2>1. Alone(u) /\ u # t
    BY <1>1, <1>2, <1>4 DEF QuietInv
  <2> QED BY <1>2, <2>1, PendingWrites DEF Alone
<1>5. ASSUME NEW e \in 1 .. recorded', e \notin disturbed', recorded' - e < Capacity,
             \A u \in HeadPending' : event'[u] # e
      PROVE  Settled(e)'
  <2>0. e \in Nat /\ HeadStores + 1 - e < Capacity
    BY <1>1, <1>2, <1>3, <1>5, Sizes
  <2>1. CASE event[t] = e
    <3>1. Alone(t)
      BY <1>1, <1>2, <1>5, <2>1 DEF QuietInv
    <3>2. HeadPending = {t} /\ HeadPending' = {}
      BY <1>2, <3>1, PendingWrites DEF Alone
    <3>3. HeadStores' = recorded /\ recorded = e
      <4>1. Cardinality(HeadPending') = 0
        BY <3>2, FS_EmptySet
      <4> QED BY <1>1, <1>3, <2>1, <3>1, <4>1 DEF HeadStores, Alone
    <3>4. slot[t] \in Slots /\ event_log_entries[slot[t]] = <<e, e>>
      <4>1. slot[t] \in Slots
            /\ event_log_entries[slot[t]] \in (0 .. MaxEvents) \X (0 .. MaxEvents)
        BY DEF RacesInv, TypeOK
      <4>2. event_log_entries[slot[t]][1] = e /\ event_log_entries[slot[t]][2] = e
        BY <1>1, <2>1, <3>1 DEF Alone
      <4> QED BY <4>1, <4>2
    <3>5. event_log_head' = (slot[t] + 1) % Capacity
      BY <1>1, <3>1 DEF Alone
    <3>6. HeadStores' + 1 - e = 1
      BY <2>0, <3>3
    <3>7. event_log_head' \in Ahead(slot[t], HeadStores' + 1 - e)
      BY <3>5, <3>6 DEF Ahead
    <3> QED BY <1>1, <3>2, <3>4, <3>7 DEF Settled, Ahead
  <2>2. CASE event[t] # e
    <3>1. Settled(e)
      BY <1>1, <1>2, <1>5, <2>2 DEF QuietInv
    <3>2. PICK s \in Slots :
            /\ event_log_entries[s] = <<e, e>>
            /\ event_log_head \in Ahead(s, HeadStores + 1 - e)
            /\ \A u \in HeadPending :
                  /\ slot[u] \in Ahead(s, recorded - e)
                  /\ pc[u] = "storeHead" => register[u] \in Ahead(s, HeadStores + 1 - e)
      BY <3>1 DEF Settled
    <3>3. HeadStores + 1 - e \in Int /\ HeadStores' + 1 - e = (HeadStores + 1 - e) + 1
      BY <1>2, <1>3, <2>0
    <3>4. event_log_head' \in Ahead(s, HeadStores' + 1 - e)
      BY <1>1, <1>2, <2>0, <3>2, <3>3, AheadNext
    <3>5. Ahead(s, HeadStores + 1 - e) \subseteq Ahead(s, HeadStores' + 1 - e)
      BY <3>3, AheadGrows
    <3>6. \A u \in HeadPending' :
             /\ slot'[u] \in Ahead(s, recorded' - e)
             /\ pc'[u] = "storeHead" => register'[u] \in Ahead(s, HeadStores' + 1 - e)
      BY <1>1, <1>2, <3>2, <3>5 DEF HeadPending
    <3> QED BY <1>1, <3>2, <3>4, <3>6 DEF Settled, Ahead
  <2> QED BY <2>1, <2>2
<1>6. \A u \in Tasks : event'[u] <= recorded'
  BY <1>1 DEF QuietInv
<1> QED BY <1>4, <1>5, <1>6 DEF QuietInv

(* Counting and dumping leave whatever is pending alone. *)
LEMMA RestKeepsQuiet ==
  ASSUME RacesInv, QuietInv, NEW t \in Tasks,
         \/ LoadCount(t) \/ StoreCount(t)
         \/ BeginDump(t) \/ DumpSelect(t) \/ DumpCopy(t)
  PROVE  QuietInv'
<1>1. /\ UNCHANGED <<event_log_entries, event_log_head, event, recorded, disturbed>>
      /\ t \notin HeadPending
      /\ pc'[t] \in {"idle", "storeCount", "select", "copy"}
      /\ \A u \in Tasks \ {t} : /\ pc'[u] = pc[u] /\ slot'[u] = slot[u]
                                /\ register'[u] = register[u]
      /\ t \notin Writing => pc'[t] \in {"idle", "select", "copy"}
  BY DEF RacesInv, TypeOK, LoadCount, StoreCount, BeginDump, DumpSelect, DumpCopy,
         Load, Goto, HeadPending, Writing, Active
<1>2. HeadPending' = HeadPending
  BY <1>1 DEF HeadPending
<1>3. \A u \in HeadPending :
          slot'[u] = slot[u] /\ pc'[u] = pc[u] /\ register'[u] = register[u]
  BY <1>1 DEF HeadPending
<1>4. ASSUME NEW u \in HeadPending', event'[u] \notin disturbed'
      PROVE  Alone(u)'
  <2>1. Alone(u)
    BY <1>1, <1>2, <1>4 DEF QuietInv
  <2>2. t \notin Writing
    BY <1>1, <1>2, <1>4, <2>1 DEF Alone
  <2>3. Writing' = Writing
    BY <1>1, <2>2 DEF Writing, Active
  <2> QED BY <1>1, <1>2, <1>3, <1>4, <2>1, <2>3 DEF Alone
<1>5. ASSUME NEW e \in 1 .. recorded', e \notin disturbed', recorded' - e < Capacity,
             \A u \in HeadPending' : event'[u] # e
      PROVE  Settled(e)'
  <2>1. Settled(e)
    BY <1>1, <1>2, <1>5 DEF QuietInv
  <2> QED BY <1>1, <1>2, <1>3, <2>1, OthersKeepSettled
<1>6. \A u \in Tasks : event'[u] <= recorded'
  BY <1>1 DEF QuietInv
<1> QED BY <1>4, <1>5, <1>6 DEF QuietInv

LEMMA InitIsQuiet == Init => QuietInv
<1> SUFFICES ASSUME Init PROVE QuietInv
  OBVIOUS
<1>1. HeadPending = {} /\ \A t \in Tasks : event[t] <= recorded
  BY DEF Init, HeadPending
<1>2. Cardinality(HeadPending) = 0
  BY <1>1, FS_EmptySet
<1>3. 0 \in Slots /\ event_log_entries[0] = <<1, 1>> /\ recorded = 1
  BY Sizes DEF Init, Slots
<1>4. event_log_head = (0 + 1) % Capacity /\ HeadStores + 1 - 1 = 1
  BY <1>2 DEF Init, HeadStores
<1>5. event_log_head \in Ahead(0, HeadStores + 1 - 1)
  BY <1>4 DEF Ahead
<1>6. Settled(1)
  BY <1>1, <1>3, <1>5 DEF Settled
<1> QED BY <1>1, <1>3, <1>6 DEF QuietInv

(* Whatever races it meets, the flight recorder keeps every event that was *)
(* recorded without one until Capacity further events have come: for any   *)
(* capacity, any number of events, and whichever task interrupts which.    *)
THEOREM QuietIsInvariant == Spec => []RecorderInv
<1>1. RacesInv /\ QuietInv /\ [Next]_vars => QuietInv'
  <2> SUFFICES ASSUME RacesInv, QuietInv, [Next]_vars PROVE QuietInv'
    OBVIOUS
  <2>1. ASSUME NEW t \in Tasks, Step(t)
        PROVE  QuietInv'
    BY <2>1, BeginKeepsQuiet, WriteKeepsQuiet, LoadHeadKeepsQuiet, StoreHeadKeepsQuiet,
       RestKeepsQuiet DEF Step
  <2>2. CASE UNCHANGED vars
    <3>1. /\ UNCHANGED <<event_log_entries, event_log_head, event_log_count_value, pc,
                         slot, register, event, recorded, disturbed>>
          /\ HeadPending' = HeadPending /\ Writing' = Writing
      BY <2>2 DEF vars, HeadPending, Writing, Active
    <3>2. \A e : Settled(e) => Settled(e)'
      BY <3>1, OthersKeepSettled
    <3>3. \A t : Alone(t) => Alone(t)'
      BY <3>1 DEF Alone
    <3> QED BY <3>1, <3>2, <3>3 DEF QuietInv
  <2> QED
    BY <2>1, <2>2 DEF Next
<1> QED
  BY InitKeepsRing, InitIsQuiet, RacesStep, <1>1, PTL DEF Spec, RecorderInv

THEOREM QuietEventsAreKept == Spec => []QuietEventsSurvive
<1>1. QuietInv => QuietEventsSurvive
  BY PendingWrites DEF QuietInv, QuietEventsSurvive, Settled
<1> QED
  BY QuietIsInvariant, <1>1, PTL DEF RecorderInv
=============================================================================
