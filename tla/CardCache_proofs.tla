------------------------- MODULE CardCache_proofs --------------------------
(***************************************************************************)
(* Proofs about the cache of textures, for every set of pictures and every *)
(* bound: its types, that requests and lookup agree, that what is held     *)
(* locked stays, and that the retriever implements PictureService.         *)
(*                                                                         *)
(* None of it rests on the mutexes of the map and of the file system: it   *)
(* rests on the lookup, which keeps an id until its load is over, and on   *)
(* QueueRequest() looking at the map once more (WorkerInv, QueueInv).      *)
(***************************************************************************)
EXTENDS CardCache, SequenceTheorems, FiniteSetTheorems, TLAPS

Unstored   == {"load", "attempt", "judge", "record", "wait", "store"}
Deleting   == at["main"] \in {"delete", "erase"}
Retrieving == \/ at["main"] \in LoadStep \cup {"lookup", "cleanup", "evict", "queue", "return"}
              \/ Deleting /\ op \in Style

(* What main knows of the item it retrieves.                               *)
ItemKnown ==
  Retrieving =>
    /\ item["main"] \in Items /\ op \in Style
    /\ op = "RETRIEVE_LOCK" => item["main"] \in Boards /\ locks[item["main"]] < MaxLocks

(* Only boards are loaded by main, and only pictures are queued.           *)
RightKind ==
  /\ at["main"] \in LoadStep => item["main"] \in Boards
  /\ at["main"] = "queue" => item["main"] \in Pictures

(* A board that main did not find is not there until main stores it.       *)
BoardAbsent ==
  \/ at["main"] \in Unstored \cup {"cleanup", "evict"}
  \/ Deleting /\ op \in Style
  => (item["main"] \in Boards => cache[item["main"]] = "absent")

(* What main is about to return stays until it does.                       *)
FoundStays ==
  at["main"] \in {"count", "add", "return"} /\ got["main"] => cache[item["main"]] = "hit"

VictimUnlocked == Deleting => victim \in Items /\ locks[victim] = 0

(* What main was called for, while it clears or deletes.                   *)
OpKnown ==
  /\ at["main"] = "clear" => op \in {"ClearUnlocked", "Refresh"}
  /\ Deleting => op # "none"

HeldInv == \A i \in Items : held[i] <= locks[i] /\ (locks[i] > 0 => cache[i] = "hit")

(* What the worker loads is neither queued nor, yet, cached.               *)
WorkerInv ==
  /\ Loading => item["worker"] \in Pictures /\ item["worker"] \notin ToSet(mRequestQueue)
  /\ at["worker"] \in Unstored => cache[item["worker"]] = "absent"
  /\ at["worker"] = "pop" => mRequestQueue # <<>>

(* What is queued is queued once, and is not cached.                       *)
QueueInv ==
  /\ \A i, j \in 1 .. Len(mRequestQueue) : mRequestQueue[i] = mRequestQueue[j] => i = j
  /\ \A i \in 1 .. Len(mRequestQueue) : cache[mRequestQueue[i]] = "absent"
  /\ mRequestLookup = ToSet(mRequestQueue) \cup OnItsWay
  /\ Len(mRequestQueue) <= MaxQueue

IInv == /\ TypeOK /\ ItemKnown /\ RightKind /\ BoardAbsent /\ FoundStays /\ VictimUnlocked
        /\ OpKnown /\ HeldInv /\ WorkerInv /\ QueueInv

-----------------------------------------------------------------------------
(* The invariant holds at first.                                           *)
LEMMA InitIInv == Init => IInv
<1> SUFFICES ASSUME Init PROVE IInv
  OBVIOUS
<1> USE CacheAssumption DEF Init
<1>1. TypeOK
  BY EmptySeq DEF TypeOK, Threads, MainStep, WorkerStep, LoadStep
<1>2. ItemKnown /\ RightKind /\ BoardAbsent /\ FoundStays /\ VictimUnlocked /\ OpKnown /\ HeldInv
  BY DEF ItemKnown, RightKind, BoardAbsent, FoundStays, VictimUnlocked, OpKnown, HeldInv, Retrieving, Deleting,
         Threads, LoadStep, Unstored
<1>3. WorkerInv /\ QueueInv
  BY DEF WorkerInv, QueueInv, Loading, OnItsWay, ToSet, Threads, LoadStep, Unstored
<1> QED
  BY <1>1, <1>2, <1>3 DEF IInv

(* Counting goes round within the range of an unsigned number.             *)
LEMMA Wraps ==
  /\ \A n \in 0 .. CounterLimit - 1 : (n + 1) % CounterLimit \in 0 .. CounterLimit - 1
  /\ \A n \in 0 .. CounterLimit - 1 : Minus(n) \in 0 .. CounterLimit - 1
  BY CacheAssumption DEF Minus

(* A step of LoadIntoCache() keeps the types.                              *)
LEMMA LoadType ==
  ASSUME NEW t \in Threads, IInv, LoadIntoCache(t)
  PROVE  TypeOK'
<1> USE DEF IInv, TypeOK, Threads, MainStep, WorkerStep, LoadStep, Go, LeaveLoad, AfterLoad, uiVars,
            queueVars, mutexes
<1>1. CASE BeginLoad(t) BY <1>1 DEF BeginLoad
<1>2. CASE Attempt(t) BY <1>2 DEF Attempt
<1>3. CASE Judge(t) BY <1>3, SMTT(20), ZenonT(60) DEF Judge
<1>4. CASE Record(t) BY <1>4, SMTT(60) DEF Record
<1>5. CASE LockMap(t) BY <1>5 DEF LockMap
<1>6. CASE Store(t)
  <2>1. cache' \in [Items -> {"absent", "hit", "miss"}]
    BY <1>6 DEF Store
  <2>2. at'["main"] \in MainStep /\ at'["worker"] \in WorkerStep /\ at' \in [Threads -> MainStep \cup WorkerStep]
    BY <1>6 DEF Store
  <2> QED
    BY <1>6, <2>1, <2>2 DEF Store
<1>7. CASE Count(t) BY <1>7, SMTT(20), ZenonT(60) DEF Count
<1>8. CASE Add(t)
  <2>1. cacheItems' \in 0 .. CounterLimit - 1
    BY <1>8, Wraps DEF Add
  <2>2. read' \in [Threads -> 0 .. CounterLimit - 1]
    BY <1>8, CacheAssumption DEF Add
  <2>3. at'["main"] \in MainStep /\ at'["worker"] \in WorkerStep /\ at' \in [Threads -> MainStep \cup WorkerStep]
    BY <1>8 DEF Add
  <2> QED
    BY <1>8, <2>1, <2>2, <2>3 DEF Add
<1> QED
  BY <1>1, <1>2, <1>3, <1>4, <1>5, <1>6, <1>7, <1>8 DEF LoadIntoCache

(* What main knows is kept by a step of LoadIntoCache().  Only Store()     *)
(* changes the map, at an id that is absent: main's is a board, and the    *)
(* worker's a picture.                                                     *)
MainInv ==
  ItemKnown /\ RightKind /\ BoardAbsent /\ FoundStays /\ VictimUnlocked /\ OpKnown /\ HeldInv

LEMMA LoadMainInv ==
  ASSUME NEW t \in Threads, IInv, LoadIntoCache(t)
  PROVE  MainInv'
<1> USE CacheAssumption
        DEF IInv, TypeOK, Threads, MainStep, WorkerStep, LoadStep, Go, LeaveLoad, AfterLoad, uiVars,
            mutexes, MainInv, ItemKnown, RightKind, BoardAbsent, FoundStays, VictimUnlocked, OpKnown,
            HeldInv, Retrieving, Deleting, Unstored, Items
<1>1. CASE BeginLoad(t) BY <1>1 DEF BeginLoad
<1>2. CASE Attempt(t) BY <1>2 DEF Attempt
<1>3. CASE Judge(t) BY <1>3 DEF Judge
<1>4. CASE Record(t) BY <1>4 DEF Record
<1>5. CASE LockMap(t) BY <1>5 DEF LockMap
<1>6. CASE Store(t)
  <2>1. CASE t = "main" BY <1>6, <2>1, SMTT(60) DEF Store
  <2>2. CASE t = "worker" BY <1>6, <2>2, SMTT(20), ZenonT(60) DEF Store, WorkerInv, Loading
  <2> QED BY <2>1, <2>2
<1>7. CASE Count(t) BY <1>7 DEF Count
<1>8. CASE Add(t) BY <1>8 DEF Add
<1> QED
  BY <1>1, <1>2, <1>3, <1>4, <1>5, <1>6, <1>7, <1>8 DEF LoadIntoCache

(* An id of the queue is a picture, and a member of what the queue holds.  *)
LEMMA Listed ==
  ASSUME NEW q \in Seq(Pictures), NEW i \in 1 .. Len(q)
  PROVE  q[i] \in Pictures /\ q[i] \in ToSet(q)
<1>1. q[i] \in Pictures /\ DOMAIN q = 1 .. Len(q)
  BY ElementOfSeq, LenProperties
<1> QED
  BY <1>1 DEF ToSet

(* So are what the worker loads and the queue: what is stored was absent,  *)
(* and is not queued.                                                      *)
LEMMA LoadWorkerInv ==
  ASSUME NEW t \in Threads, IInv, LoadIntoCache(t)
  PROVE  WorkerInv' /\ QueueInv'
<1> USE CacheAssumption
        DEF IInv, TypeOK, Threads, MainStep, WorkerStep, LoadStep, Go, LeaveLoad, AfterLoad,
            queueVars, mutexes, WorkerInv, QueueInv, Unstored, Items, OnItsWay, Loading
<1>1. CASE BeginLoad(t) BY <1>1, SMTT(20), ZenonT(60) DEF BeginLoad
<1>2. CASE Attempt(t) BY <1>2, SMTT(20), ZenonT(60) DEF Attempt
<1>3. CASE Judge(t) BY <1>3, SMTT(20), ZenonT(60) DEF Judge
<1>4. CASE Record(t) BY <1>4 DEF Record
<1>5. CASE LockMap(t) BY <1>5, SMTT(20), ZenonT(60) DEF LockMap
<1>6. CASE Store(t)
  <2>1. CASE t = "main"
    <3>1. item["main"] \in Boards /\ \A i \in 1 .. Len(mRequestQueue) : mRequestQueue[i] \in Pictures
      BY <1>6, <2>1, ElementOfSeq DEF Store, RightKind
    <3>2. \A p \in Pictures : cache'[p] = cache[p]
      BY <1>6, <2>1, <3>1 DEF Store
    <3>3. /\ UNCHANGED <<item, mRequestQueue, mRequestLookup>> /\ at'["worker"] = at["worker"]
          /\ mRequestQueue # <<>> \/ at["worker"] # "pop"
      BY <1>6, <2>1 DEF Store
    <3>4. WorkerInv'
      BY <3>2, <3>3
    <3>5. QueueInv'
      BY <3>1, <3>2, <3>3, SMTT(20), ZenonT(60)
    <3> QED
      BY <3>4, <3>5
  <2>2. CASE t = "worker"
    <3>1. /\ UNCHANGED <<item, mRequestQueue, mRequestLookup>> /\ at["worker"] = "store"
          /\ at'["worker"] \in {"count", "finish"} /\ item["worker"] \notin ToSet(mRequestQueue)
          /\ cache' = [cache EXCEPT ![item["worker"]] = IF got["worker"] THEN "hit" ELSE "miss"]
      BY <1>6, <2>2 DEF Store
    <3>2. /\ mRequestQueue \in Seq(Pictures) /\ cache \in [Items -> {"absent", "hit", "miss"}]
          /\ \A i \in 1 .. Len(mRequestQueue) : cache[mRequestQueue[i]] = "absent"
      OBVIOUS
    <3>3. \A i \in 1 .. Len(mRequestQueue) : cache'[mRequestQueue[i]] = "absent"
      <4> HIDE DEF IInv, TypeOK, Threads, MainStep, WorkerStep, LoadStep, Go, LeaveLoad, AfterLoad,
                   queueVars, mutexes, WorkerInv, QueueInv, Unstored, OnItsWay, Loading
      <4> SUFFICES ASSUME NEW i \in 1 .. Len(mRequestQueue) PROVE cache'[mRequestQueue[i]] = "absent"
        OBVIOUS
      <4>1. mRequestQueue[i] \in ToSet(mRequestQueue) /\ mRequestQueue[i] \in Items
        BY <3>2, Listed DEF Items
      <4> QED
        BY <3>1, <3>2, <4>1
    <3>4. WorkerInv'
      BY <3>1
    <3>5. QueueInv'
      BY <3>1, <3>3
    <3> QED
      BY <3>4, <3>5
  <2> QED BY <2>1, <2>2
<1>7. CASE Count(t) BY <1>7, SMTT(20), ZenonT(60) DEF Count
<1>8. CASE Add(t) BY <1>8, SMTT(20), ZenonT(60) DEF Add
<1> QED
  BY <1>1, <1>2, <1>3, <1>4, <1>5, <1>6, <1>7, <1>8 DEF LoadIntoCache

-----------------------------------------------------------------------------
(* Queues of distinct ids.                                                 *)
Distinct(q) == \A i, j \in 1 .. Len(q) : q[i] = q[j] => i = j

(* The head of a queue without repetitions is not in its tail.             *)
LEMMA Popped ==
  ASSUME NEW q \in Seq(Pictures), q # <<>>, Distinct(q)
  PROVE  /\ Head(q) = q[1] /\ 1 \in 1 .. Len(q)
         /\ Tail(q) \in Seq(Pictures) /\ Len(Tail(q)) = Len(q) - 1
         /\ Distinct(Tail(q))
         /\ \A i \in 1 .. Len(Tail(q)) : i + 1 \in 1 .. Len(q) /\ Tail(q)[i] = q[i + 1]
         /\ ToSet(q) = ToSet(Tail(q)) \cup {Head(q)}
         /\ Head(q) \notin ToSet(Tail(q))
<1>1. Len(q) \in Nat /\ Len(q) > 0 /\ Head(q) = q[1] /\ DOMAIN q = 1 .. Len(q)
  BY EmptySeq, HeadTailProperties
<1>2. /\ Tail(q) \in Seq(Pictures) /\ Len(Tail(q)) = Len(q) - 1
      /\ \A i \in 1 .. Len(Tail(q)) : Tail(q)[i] = q[i + 1]
      /\ DOMAIN Tail(q) = 1 .. Len(Tail(q))
  BY HeadTailProperties
<1>3. \A i \in 1 .. Len(Tail(q)) : i + 1 \in 1 .. Len(q) /\ Tail(q)[i] = q[i + 1]
  BY <1>1, <1>2
<1>4. Distinct(Tail(q))
  BY <1>1, <1>2, <1>3 DEF Distinct
<1>5. Head(q) \notin ToSet(Tail(q))
  <2> SUFFICES ASSUME NEW i \in 1 .. Len(Tail(q)), Tail(q)[i] = Head(q) PROVE FALSE
    BY <1>2 DEF ToSet
  <2>1. q[i + 1] = q[1] /\ i + 1 \in 1 .. Len(q) /\ 1 \in 1 .. Len(q)
    BY <1>1, <1>3
  <2> QED
    BY <2>1 DEF Distinct
<1>6. ToSet(q) \subseteq ToSet(Tail(q)) \cup {Head(q)}
  <2> SUFFICES ASSUME NEW i \in 1 .. Len(q) PROVE q[i] \in ToSet(Tail(q)) \cup {Head(q)}
    BY <1>1 DEF ToSet
  <2>1. CASE i = 1 BY <1>1, <2>1
  <2>2. CASE i # 1
    <3>1. i - 1 \in 1 .. Len(Tail(q)) /\ (i - 1) + 1 = i
      BY <1>1, <1>2, <2>2
    <3>2. Tail(q)[i - 1] = q[i]
      BY <1>2, <3>1
    <3> QED
      BY <1>2, <3>1, <3>2 DEF ToSet
  <2> QED BY <2>1, <2>2
<1>7. ToSet(Tail(q)) \cup {Head(q)} \subseteq ToSet(q)
  BY <1>1, <1>2, <1>3 DEF ToSet
<1> QED
  BY <1>1, <1>2, <1>3, <1>4, <1>5, <1>6, <1>7

(* A new id keeps a queue free of repetitions.                             *)
LEMMA Appended ==
  ASSUME NEW q \in Seq(Pictures), NEW p \in Pictures, Distinct(q), p \notin ToSet(q)
  PROVE  LET a == Append(q, p) IN
         /\ a \in Seq(Pictures) /\ Len(a) = Len(q) + 1 /\ a # <<>>
         /\ Distinct(a) /\ ToSet(a) = ToSet(q) \cup {p}
         /\ \A i \in 1 .. Len(a) : a[i] = IF i <= Len(q) THEN q[i] ELSE p
<1> DEFINE a == Append(q, p)
<1>1. Len(q) \in Nat /\ DOMAIN q = 1 .. Len(q)
  BY LenProperties
<1>2. /\ a \in Seq(Pictures) /\ Len(a) = Len(q) + 1 /\ a # <<>> /\ DOMAIN a = 1 .. Len(a)
      /\ \A i \in 1 .. Len(q) : a[i] = q[i]
      /\ a[Len(q) + 1] = p
  BY <1>1, AppendProperties, EmptySeq, LenProperties
<1> HIDE DEF a
<1>3. \A i \in 1 .. Len(a) : a[i] = IF i <= Len(q) THEN q[i] ELSE p
  BY <1>1, <1>2
<1>4. \A i \in 1 .. Len(q) : q[i] # p
  BY <1>1 DEF ToSet
<1>5. Distinct(a)
  BY <1>1, <1>2, <1>3, <1>4 DEF Distinct
<1>6. ToSet(a) = ToSet(q) \cup {p}
  <2>1. ToSet(a) \subseteq ToSet(q) \cup {p}
    BY <1>1, <1>2, <1>3 DEF ToSet
  <2>2. ToSet(q) \subseteq ToSet(a)
    BY <1>1, <1>2 DEF ToSet
  <2>3. p \in ToSet(a)
    BY <1>1, <1>2 DEF ToSet
  <2> QED BY <2>1, <2>2, <2>3
<1> QED
  BY <1>2, <1>3, <1>5, <1>6 DEF a

(* A queue without repetitions holds as many ids as it is long.            *)
LEMMA Counted ==
  ASSUME NEW q \in Seq(Pictures), Distinct(q)
  PROVE  IsFiniteSet(ToSet(q)) /\ Cardinality(ToSet(q)) = Len(q)
<1>1. Len(q) \in Nat /\ DOMAIN q = 1 .. Len(q) /\ q \in [1 .. Len(q) -> Pictures]
  BY LenProperties
<1>2. q \in [1 .. Len(q) -> ToSet(q)]
  BY <1>1 DEF ToSet
<1>3. q \in Bijection(1 .. Len(q), ToSet(q))
  <2>1. q \in Injection(1 .. Len(q), ToSet(q))
    BY <1>1, <1>2 DEF Injection, IsInjective, Distinct
  <2>2. q \in Surjection(1 .. Len(q), ToSet(q))
    BY <1>1, <1>2 DEF Surjection, ToSet
  <2> QED BY <2>1, <2>2 DEF Bijection
<1>4. IsFiniteSet(1 .. Len(q)) /\ Cardinality(1 .. Len(q)) = Len(q)
  BY <1>1, FS_Interval, SMTT(60)
<1> QED
  BY <1>3, <1>4, FS_Bijection DEF ExistsBijection

-----------------------------------------------------------------------------
(* The other steps.                                                        *)

(* The worker's steps outside LoadIntoCache() change only the queue, the   *)
(* lookup and what is on its way; Pop() moves an id from the first to the  *)
(* last of them, and Finish() ends its request.                            *)
LEMMA WorkerIInv ==
  ASSUME IInv, Wake \/ Check \/ Pop \/ Finish
  PROVE  IInv'
<1> DEFINE q == mRequestQueue
<1>1. TypeOK' /\ MainInv'
  <2> USE CacheAssumption
          DEF IInv, TypeOK, Threads, MainStep, WorkerStep, LoadStep, Go, uiVars, queueVars,
              mutexes, MainInv, ItemKnown, RightKind, BoardAbsent, FoundStays, VictimUnlocked, OpKnown,
              HeldInv, Retrieving, Deleting, Unstored, Items
  <2>1. CASE Wake BY <2>1 DEF Wake
  <2>2. CASE Check BY <2>2 DEF Check
  <2>3. CASE Pop
    <3>1. Tail(q) \in Seq(Pictures) /\ Head(q) \in Pictures
      BY <2>3, HeadTailProperties DEF Pop
    <3>2. TypeOK'
      BY <2>3, <3>1, SMTT(20), ZenonT(60) DEF Pop
    <3>3. MainInv'
      BY <2>3 DEF Pop
    <3> QED BY <3>2, <3>3
  <2>4. CASE Finish BY <2>4 DEF Finish
  <2> QED BY <2>1, <2>2, <2>3, <2>4
<1>2. WorkerInv' /\ QueueInv'
  <2> USE DEF IInv, TypeOK, Threads, MainStep, WorkerStep, LoadStep, Go, queueVars, WorkerInv, QueueInv,
              Unstored, OnItsWay, Loading
  <2>1. CASE Wake BY <2>1 DEF Wake
  <2>2. CASE Check BY <2>2 DEF Check
  <2>3. CASE Pop
    <3>1. /\ q' = Tail(q) /\ item'["worker"] = Head(q) /\ at'["worker"] = "load"
          /\ UNCHANGED <<cache, mRequestLookup>> /\ q # <<>>
      BY <2>3 DEF Pop
    <3>2. mRequestLookup = ToSet(q) /\ Distinct(q)
      BY <2>3 DEF Pop, Distinct
    <3>3. /\ Head(q) \in Pictures /\ cache[Head(q)] = "absent"
          /\ \A i \in 1 .. Len(q') : cache[q'[i]] = "absent"
      BY <3>1, <3>2, Popped, ElementOfSeq
    <3>4. /\ Distinct(q') /\ Len(q') <= MaxQueue
          /\ mRequestLookup' = ToSet(q') \cup {item'["worker"]}
          /\ item'["worker"] \notin ToSet(q')
      <4>1. Len(q) \in Nat /\ MaxQueue \in Nat
        BY CacheAssumption, LenProperties
      <4> QED
        BY <3>1, <3>2, <4>1, Popped
    <3> QED
      BY <3>1, <3>3, <3>4 DEF Distinct
  <2>4. CASE Finish BY <2>4 DEF Finish
  <2> QED BY <2>1, <2>2, <2>3, <2>4
<1> QED
  BY <1>1, <1>2 DEF IInv, MainInv

(* A call to main, and main's steps other than QueueRequest() and loads.   *)
(* They only take ids out of the map, and only unlocked ones.              *)
MainOther ==
  \/ Called \/ Lookup \/ SkipCleanup \/ Cleanup \/ RemoveOldest \/ EndCleanup \/ Return
  \/ DeleteSteps \/ Join

(* A lock is added by Return(), which found the item below the bound, and  *)
(* taken back by Release(), from somebody who has one.                     *)
LEMMA LockCounts ==
  ASSUME IInv
  PROVE  /\ locks \in [Items -> 0 .. MaxLocks] /\ held \in [Items -> 0 .. MaxLocks]
         /\ \A i \in Items : held[i] <= locks[i] /\ (locks[i] > 0 => cache[i] = "hit")
         /\ \A i \in Items : locks[i] < MaxLocks => locks[i] + 1 \in 0 .. MaxLocks /\ held[i] + 1 \in 0 .. MaxLocks
                                                 /\ held[i] + 1 <= locks[i] + 1
         /\ \A i \in Items : held[i] > 0 => /\ locks[i] > 0
                                         /\ locks[i] - 1 \in 0 .. MaxLocks /\ held[i] - 1 \in 0 .. MaxLocks
                                         /\ held[i] - 1 <= locks[i] - 1
<1>1. /\ locks \in [Items -> 0 .. MaxLocks] /\ held \in [Items -> 0 .. MaxLocks] /\ MaxLocks \in Nat
      /\ \A i \in Items : held[i] <= locks[i] /\ (locks[i] > 0 => cache[i] = "hit")
  BY CacheAssumption DEF IInv, TypeOK, HeldInv
<1>2. \A i \in Items : locks[i] \in 0 .. MaxLocks /\ held[i] \in 0 .. MaxLocks /\ held[i] <= locks[i]
  BY <1>1
<1> QED
  BY <1>1, <1>2

(* What Return() and Release() do to the locks.                            *)
LEMMA LocksMove ==
  ASSUME IInv, NEW i \in Items, UNCHANGED cache,
         \/ locks' = locks /\ held' = held
         \/ /\ locks[i] < MaxLocks /\ cache[i] = "hit"
            /\ locks' = [locks EXCEPT ![i] = locks[i] + 1] /\ held' = [held EXCEPT ![i] = held[i] + 1]
         \/ /\ held[i] > 0
            /\ locks' = [locks EXCEPT ![i] = locks[i] - 1] /\ held' = [held EXCEPT ![i] = held[i] - 1]
  PROVE  locks' \in [Items -> 0 .. MaxLocks] /\ held' \in [Items -> 0 .. MaxLocks] /\ HeldInv'
<1>1. CASE locks' = locks /\ held' = held
  BY <1>1 DEF IInv, TypeOK, HeldInv
<1>2. CASE ~ (locks' = locks /\ held' = held)
  <2>1. locks' \in [Items -> 0 .. MaxLocks] /\ held' \in [Items -> 0 .. MaxLocks]
    BY <1>2, LockCounts
  <2>2. ASSUME NEW j \in Items PROVE held'[j] <= locks'[j] /\ (locks'[j] > 0 => cache'[j] = "hit")
    <3>1. CASE j = i BY <1>2, <3>1, LockCounts
    <3>2. CASE j # i BY <1>2, <3>2, LockCounts
    <3> QED BY <3>1, <3>2
  <2> QED BY <2>1, <2>2 DEF HeldInv
<1> QED BY <1>1, <1>2

(* Locked textures stay when others leave the map, or are loaded again.    *)
LEMMA MainHeld ==
  ASSUME IInv, MainOther
  PROVE  locks' \in [Items -> 0 .. MaxLocks] /\ held' \in [Items -> 0 .. MaxLocks] /\ HeldInv'
<1>0. cache \in [Items -> {"absent", "hit", "miss"}] /\ locks \in [Items -> 0 .. MaxLocks]
      /\ held \in [Items -> 0 .. MaxLocks] /\ MaxLocks \in Nat
      /\ \A i \in Items : held[i] <= locks[i] /\ (locks[i] > 0 => cache[i] = "hit")
  BY CacheAssumption DEF IInv, TypeOK, HeldInv
<1>1. ASSUME NEW i \in Items, Release(i)
      PROVE  locks' \in [Items -> 0 .. MaxLocks] /\ held' \in [Items -> 0 .. MaxLocks] /\ HeldInv'
  <2>1. /\ held[i] > 0 /\ UNCHANGED cache /\ held' = [held EXCEPT ![i] = held[i] - 1]
        /\ locks' = [locks EXCEPT ![i] = IF locks[i] > 0 THEN locks[i] - 1 ELSE 0]
    BY <1>1 DEF Release
  <2>2. locks' = [locks EXCEPT ![i] = locks[i] - 1]
    BY <2>1, LockCounts
  <2> QED BY <2>1, <2>2, LocksMove
<1>2. CASE Return
  <2> DEFINE i == item["main"]
             more == IF got["main"] /\ op = "RETRIEVE_LOCK" THEN 1 ELSE 0
  <2>1. /\ UNCHANGED cache /\ locks' = [locks EXCEPT ![i] = locks[i] + more]
        /\ held' = [held EXCEPT ![i] = held[i] + more] /\ i \in Items
        /\ got["main"] => cache[i] = "hit"
        /\ op = "RETRIEVE_LOCK" => locks[i] < MaxLocks
    BY <1>2 DEF Return, IInv, ItemKnown, FoundStays, Retrieving
  <2>2. CASE got["main"] /\ op = "RETRIEVE_LOCK"
    BY <2>1, <2>2, LocksMove
  <2>3. CASE ~ (got["main"] /\ op = "RETRIEVE_LOCK")
    <3>1. locks[i] + 0 = locks[i] /\ held[i] + 0 = held[i]
      BY <1>0, <2>1
    <3>2. locks' = locks /\ held' = held
      BY <1>0, <2>1, <2>3, <3>1
    <3> QED BY <2>1, <3>2, LocksMove
  <2> QED BY <2>2, <2>3
<1>3. CASE Erase
  <2>1. /\ UNCHANGED <<locks, held>> /\ cache' = [cache EXCEPT ![victim] = "absent"] /\ locks[victim] = 0
        /\ victim \in Items
    BY <1>3 DEF Erase, IInv, VictimUnlocked, Deleting
  <2> QED BY <1>0, <2>1 DEF HeldInv
<1>4. ASSUME NEW i \in Items, Visit(i)
      PROVE  locks' \in [Items -> 0 .. MaxLocks] /\ held' \in [Items -> 0 .. MaxLocks] /\ HeldInv'
  <2>1. UNCHANGED <<locks, held>> /\ \A j \in Items : cache[j] = "hit" => cache'[j] = "hit"
    BY <1>0, <1>4 DEF Visit
  <2> QED BY <1>0, <2>1 DEF HeldInv
<1>5. CASE EndRefresh
  <2>1. UNCHANGED <<locks, cache>>
    BY <1>5 DEF EndRefresh
  <2>2. PICK again \in SUBSET {i \in Items : cache[i] = "hit"} :
          held' = [i \in Items |-> IF i \in again THEN 0 ELSE held[i]]
    BY <1>5 DEF EndRefresh
  <2>3. held' \in [Items -> 0 .. MaxLocks]
    BY <1>0, <2>2
  <2>4. ASSUME NEW i \in Items PROVE held'[i] <= locks'[i] /\ (locks'[i] > 0 => cache'[i] = "hit")
    <3>1. locks[i] \in 0 .. MaxLocks
      BY <1>0
    <3>2. CASE i \in again BY <1>0, <2>1, <2>2, <3>1, <3>2
    <3>3. CASE i \notin again BY <1>0, <2>1, <2>2, <3>3
    <3> QED BY <3>2, <3>3
  <2> QED BY <1>0, <2>1, <2>3, <2>4 DEF HeldInv
<1>6. CASE UNCHANGED <<cache, locks, held>>
  BY <1>0, <1>6 DEF HeldInv
<1>7. \/ UNCHANGED <<cache, locks, held>> \/ Return \/ Erase \/ EndRefresh
      \/ \E i \in Items : Release(i) \/ Visit(i)
  BY DEF MainOther, Called, DeleteSteps, uiVars, Retrieve, Clear, Terminate, Lookup, SkipCleanup, Cleanup,
         RemoveOldest, EndCleanup, Delete, EndClear, Join
<1> QED BY <1>1, <1>2, <1>3, <1>4, <1>5, <1>6, <1>7

(* The types of the other variables.                                       *)
LEMMA MainType ==
  ASSUME IInv, MainOther
  PROVE  TypeOK'
<1> DEFINE Rest ==
      /\ at["main"] \in MainStep /\ at["worker"] \in WorkerStep
      /\ at \in [Threads -> MainStep \cup WorkerStep]
      /\ item \in [Threads -> Items \cup {NoItem}] /\ got \in [Threads -> BOOLEAN]
      /\ read \in [Threads -> 0 .. CounterLimit - 1] /\ cacheItems \in 0 .. CounterLimit - 1
      /\ cache \in [Items -> {"absent", "hit", "miss"}] /\ mError \in {"NONE", "404", "BAD"}
      /\ mRequestQueue \in Seq(Pictures) /\ mRequestLookup \subseteq Pictures /\ mProcessing \in BOOLEAN
      /\ sCacheMutex \in Threads \cup {NoThread} /\ sLoadFunctionMutex \in Threads \cup {NoThread}
      /\ op \in Style \cup {"none", "Release", "ClearUnlocked", "Refresh"}
      /\ victim \in Items \cup {NoItem} /\ todo \subseteq Items
<1>0. Rest
  BY DEF IInv, TypeOK
<1>1. /\ "main" \in Threads /\ "worker" \in Threads /\ 0 \in 0 .. CounterLimit - 1
      /\ NoItem \in Items \cup {NoItem}
  BY CacheAssumption DEF Threads
<1>2. Rest'
  <2> USE <1>0, <1>1 DEF Go, GoIdle, uiVars, queueVars, mutexes, MainStep, LoadStep
  <2>1. ASSUME NEW i \in Items, NEW style \in Style, Retrieve(i, style) PROVE Rest'
    BY <2>1 DEF Retrieve
  <2>2. ASSUME NEW i \in Items, Release(i) PROVE Rest'
    BY <2>2 DEF Release
  <2>3. ASSUME NEW why \in {"ClearUnlocked", "Refresh"}, Clear(why) PROVE Rest'
    BY <2>3 DEF Clear
  <2>4. CASE Terminate BY <2>4 DEF Terminate
  <2>5. CASE Lookup BY <2>5 DEF Lookup
  <2>6. CASE SkipCleanup BY <2>6 DEF SkipCleanup, AfterCleanup
  <2>7. CASE Cleanup BY <2>7 DEF Cleanup
  <2>8. CASE RemoveOldest BY <2>8 DEF RemoveOldest, Evictable
  <2>9. CASE EndCleanup BY <2>9 DEF EndCleanup, AfterCleanup
  <2>10. CASE Return BY <2>10 DEF Return
  <2>11. CASE Delete BY <2>11 DEF Delete
  <2>12. CASE Erase
    <3>1. Minus(read["main"]) \in 0 .. CounterLimit - 1
      BY Wraps
    <3>2. cache' \in [Items -> {"absent", "hit", "miss"}] /\ read' \in [Threads -> 0 .. CounterLimit - 1]
          /\ cacheItems' \in 0 .. CounterLimit - 1
      BY <2>12, <3>1 DEF Erase
    <3>3. CASE op = "Release" BY <2>12, <3>2, <3>3, ZenonT(60) DEF Erase
    <3>4. CASE op # "Release" BY <2>12, <3>2, <3>4, ZenonT(60) DEF Erase, AfterErase
    <3> QED BY <3>3, <3>4
  <2>13. CASE EndClear
    <3>1. CASE op = "Refresh" BY <2>13, <3>1 DEF EndClear
    <3>2. CASE op # "Refresh" BY <2>13, <3>2, ZenonT(60) DEF EndClear
    <3> QED BY <3>1, <3>2
  <2>14. CASE EndRefresh BY <2>14 DEF EndRefresh
  <2>15. ASSUME NEW i \in Items, Visit(i) PROVE Rest'
    BY <2>15, ZenonT(60) DEF Visit, Evictable
  <2>16. CASE Join BY <2>16 DEF Join
  <2> HIDE DEF Rest
  <2> QED
    BY <2>1, <2>2, <2>3, <2>4, <2>5, <2>6, <2>7, <2>8, <2>9, <2>10, <2>11, <2>12, <2>13, <2>14,
       <2>15, <2>16
    DEF MainOther, Called, DeleteSteps
<1> QED
  BY <1>2, MainHeld DEF TypeOK

(* What main knows of its item, its victim and the call it is in.          *)
KnowInv == ItemKnown /\ RightKind /\ BoardAbsent /\ FoundStays /\ VictimUnlocked /\ OpKnown

LEMMA MainKnows ==
  ASSUME IInv, MainOther
  PROVE  KnowInv'
<1>0. /\ at \in [Threads -> MainStep \cup WorkerStep] /\ item \in [Threads -> Items \cup {NoItem}]
      /\ got \in [Threads -> BOOLEAN] /\ cache \in [Items -> {"absent", "hit", "miss"}] /\ "main" \in Threads
      /\ op \in Style \cup {"none", "Release", "ClearUnlocked", "Refresh"}
      /\ Pictures \cap Boards = {} /\ Items = Pictures \cup Boards
      /\ KnowInv
  BY CacheAssumption DEF IInv, TypeOK, Threads, Items, KnowInv
<1>1. ASSUME at'["main"] \in {"idle", "join", "destroyed", "refresh"} PROVE KnowInv'
  BY <1>1 DEF KnowInv, ItemKnown, RightKind, BoardAbsent, FoundStays, VictimUnlocked, OpKnown, Retrieving,
              Deleting, Unstored, LoadStep
<1>2. CASE Terminate \/ Return \/ EndClear \/ EndRefresh \/ Join
  BY <1>0, <1>1, <1>2 DEF Terminate, Return, EndClear, EndRefresh, Join, Go, GoIdle
<1> USE <1>0 DEF KnowInv, ItemKnown, RightKind, BoardAbsent, FoundStays, VictimUnlocked, OpKnown, Retrieving,
                 Deleting, Unstored, LoadStep, Go, uiVars
<1>3. ASSUME NEW i \in Items, NEW style \in Style, Retrieve(i, style) PROVE KnowInv'
  BY <1>3 DEF Retrieve
<1>4. ASSUME NEW i \in Items, Release(i) PROVE KnowInv'
  <2>1. CASE cache[i] = "hit" /\ locks'[i] = 0
    <3>1. at' = [at EXCEPT !["main"] = "delete"] /\ victim' = i /\ op' = "Release"
      BY <1>4, <2>1 DEF Release
    <3>2. at'["main"] = "delete"
      BY <3>1
    <3> QED BY <2>1, <3>1, <3>2 DEF Style
  <2>2. CASE ~ (cache[i] = "hit" /\ locks'[i] = 0)
    BY <1>1, <1>4, <2>2 DEF Release
  <2> QED BY <2>1, <2>2
<1>5. ASSUME NEW why \in {"ClearUnlocked", "Refresh"}, Clear(why) PROVE KnowInv'
  BY <1>5 DEF Clear
<1>6. CASE Lookup BY <1>6 DEF Lookup
<1>7. CASE SkipCleanup BY <1>7 DEF SkipCleanup, AfterCleanup
<1>8. CASE Cleanup BY <1>8 DEF Cleanup
<1>9. CASE RemoveOldest BY <1>9 DEF RemoveOldest, Evictable, isLocked, Style
<1>10. CASE EndCleanup BY <1>10 DEF EndCleanup, AfterCleanup
<1>11. CASE Delete BY <1>11 DEF Delete
<1>12. CASE Erase
  <2>1. CASE op = "Release"
    <3>1. at'["main"] = "idle"
      BY <1>12, <2>1 DEF Erase, GoIdle
    <3> QED BY <1>1, <3>1
  <2>2. CASE op # "Release"
    <3>1. /\ at'["main"] = (IF op \in Style THEN "evict" ELSE "clear") /\ UNCHANGED <<item, op, locks>>
          /\ cache' = [cache EXCEPT ![victim] = "absent"] /\ victim \in Items
      BY <1>12, <2>2 DEF Erase, AfterErase
    <3>2. op \in Style \/ op \in {"ClearUnlocked", "Refresh"}
      BY <1>12, <2>2 DEF Erase
    <3> QED BY <1>12, <3>1, <3>2 DEF Erase
  <2> QED BY <2>1, <2>2
<1>13. ASSUME NEW i \in Items, Visit(i) PROVE KnowInv'
  <2>1. at["main"] = "clear" /\ UNCHANGED <<op, locks>> /\ op \in {"ClearUnlocked", "Refresh"} /\ op \notin Style
    BY <1>13 DEF Visit, Style
  <2>2. CASE i \in Evictable
    <3>1. at'["main"] = "delete" /\ victim' = i /\ locks[i] = 0
      BY <1>13, <2>2 DEF Visit, Evictable, isLocked
    <3> QED BY <2>1, <3>1
  <2>3. CASE i \notin Evictable
    <3>1. at'["main"] = "clear"
      BY <1>13, <2>3 DEF Visit
    <3> QED BY <2>1, <3>1
  <2> QED BY <2>2, <2>3
<1> HIDE DEF KnowInv
<1> QED
  BY <1>2, <1>3, <1>4, <1>5, <1>6, <1>7, <1>8, <1>9, <1>10, <1>11, <1>12, <1>13
  DEF MainOther, Called, DeleteSteps

(* They keep the invariant.                                                *)
LEMMA MainIInv ==
  ASSUME IInv, MainOther
  PROVE  IInv'
<1>1. TypeOK' /\ MainInv'
  BY MainType, MainKnows, MainHeld DEF MainInv, KnowInv
<1>2. /\ UNCHANGED queueVars /\ item'["worker"] = item["worker"] /\ at'["worker"] = at["worker"]
      /\ \A i \in Items : cache[i] = "absent" => cache'[i] = "absent"
  BY DEF IInv, TypeOK, Threads, MainOther, Called, DeleteSteps, Go, GoIdle, uiVars, Retrieve, Release, Clear,
         Terminate, Lookup, SkipCleanup, Cleanup, RemoveOldest, EndCleanup, Return, Delete, Erase,
         EndClear, EndRefresh, Visit, Join
<1>3. WorkerInv' /\ QueueInv'
  <2>1. \A i \in 1 .. Len(mRequestQueue) : mRequestQueue[i] \in Items
    BY ElementOfSeq DEF IInv, TypeOK, Items
  <2>2. WorkerInv'
    BY <1>2 DEF IInv, WorkerInv, Loading, Unstored, LoadStep, queueVars, Items
  <2>3. QueueInv'
    BY <1>2, <2>1 DEF IInv, QueueInv, OnItsWay, Loading, queueVars
  <2> QED BY <2>2, <2>3
<1> QED
  BY <1>1, <1>3 DEF IInv, MainInv

(* QueueRequest() keeps the queue free of repetitions: it puts in an id    *)
(* that is not in the lookup.  The head it drops is not on its way, so the *)
(* lookup loses exactly that id.                                           *)
LEMMA QueueIInv ==
  ASSUME IInv, QueueRequest
  PROVE  IInv'
<1> DEFINE q == mRequestQueue
           i == item["main"]
           a == Append(q, i)
<1>1. /\ at["main"] = "queue" /\ i \in Pictures /\ q \in Seq(Pictures) /\ mRequestLookup \subseteq Pictures
      /\ Distinct(q) /\ Len(q) <= MaxQueue /\ Len(q) \in Nat /\ MaxQueue \in Nat \ {0}
      /\ mRequestLookup = ToSet(q) \cup OnItsWay /\ "main" \in Threads /\ "worker" \in Threads
      /\ \A k \in 1 .. Len(q) : cache[q[k]] = "absent"
  BY CacheAssumption, LenProperties
  DEF IInv, TypeOK, RightKind, QueueRequest, QueueInv, Distinct, Threads
<1>2. /\ at' = [at EXCEPT !["main"] = "idle"] /\ item' = [item EXCEPT !["main"] = NoItem]
      /\ got' = [got EXCEPT !["main"] = FALSE] /\ op' = "none"
      /\ UNCHANGED <<read, cache, locks, cacheItems, mError, mProcessing, mutexes, victim, todo, held>>
  BY DEF QueueRequest, GoIdle, Go
<1>3. /\ mRequestQueue' \in Seq(Pictures) /\ mRequestLookup' \subseteq Pictures
      /\ Distinct(mRequestQueue') /\ Len(mRequestQueue') <= MaxQueue
      /\ mRequestLookup' = ToSet(mRequestQueue') \cup OnItsWay
      /\ \A k \in 1 .. Len(mRequestQueue') : cache[mRequestQueue'[k]] = "absent"
      /\ Loading => item["worker"] \notin ToSet(mRequestQueue')
      /\ q # <<>> => mRequestQueue' # <<>>
  <2>0. Loading => item["worker"] \notin ToSet(q)
    BY DEF IInv, WorkerInv
  <2>1. CASE ~ Wanted(i)
    <3>1. mRequestQueue' = q /\ mRequestLookup' = mRequestLookup
      BY <2>1 DEF QueueRequest, queueVars
    <3> QED BY <1>1, <2>0, <3>1
  <2>2. CASE Wanted(i)
    <3>1. Enqueue(i) /\ i \notin mRequestLookup /\ cache[i] = "absent"
      BY <2>2 DEF QueueRequest, Wanted
    <3>2. i \notin ToSet(q) /\ i \notin OnItsWay
      BY <1>1, <3>1
    <3>3. /\ a \in Seq(Pictures) /\ Len(a) = Len(q) + 1 /\ a # <<>>
          /\ Distinct(a) /\ ToSet(a) = ToSet(q) \cup {i}
          /\ \A k \in 1 .. Len(a) : a[k] = IF k <= Len(q) THEN q[k] ELSE i
      BY <1>1, <3>2, Appended
    <3>4. \A k \in 1 .. Len(a) : cache[a[k]] = "absent"
      BY <1>1, <3>1, <3>3
    <3>5. Loading => item["worker"] \notin ToSet(a)
      BY <2>0, <3>2, <3>3 DEF OnItsWay
    <3> HIDE DEF a, q, i
    <3>6. CASE Len(a) > MaxQueue
      <4>1. mRequestQueue' = Tail(a) /\ mRequestLookup' = (mRequestLookup \cup {i}) \ {Head(a)}
        BY <3>1, <3>6 DEF Enqueue, a, q
      <4>2. /\ Tail(a) \in Seq(Pictures) /\ Len(Tail(a)) = Len(a) - 1 /\ Distinct(Tail(a))
            /\ \A k \in 1 .. Len(Tail(a)) : k + 1 \in 1 .. Len(a) /\ Tail(a)[k] = a[k + 1]
            /\ ToSet(a) = ToSet(Tail(a)) \cup {Head(a)} /\ Head(a) \notin ToSet(Tail(a))
        BY <3>3, Popped
      <4>3. Head(a) \notin OnItsWay
        BY <3>5, <4>2 DEF OnItsWay
      <4>4. mRequestLookup' = ToSet(Tail(a)) \cup OnItsWay
        BY <1>1, <3>3, <4>1, <4>2, <4>3
      <4>5. \A k \in 1 .. Len(Tail(a)) : cache[Tail(a)[k]] = "absent"
        BY <3>4, <4>2
      <4>6. Len(Tail(a)) = Len(q) /\ Len(Tail(a)) > 0
        BY <1>1, <3>3, <3>6, <4>2
      <4>7. Tail(a) # <<>>
        <5>1. Len(<<>>) = 0
          OBVIOUS
        <5>2. Len(Tail(a)) # 0
          BY <1>1, <4>2, <4>6
        <5> QED BY <5>1, <5>2
      <4> QED
        BY <1>1, <3>5, <4>1, <4>2, <4>4, <4>5, <4>6, <4>7
    <3>7. CASE ~ (Len(a) > MaxQueue)
      <4>1. mRequestQueue' = a /\ mRequestLookup' = mRequestLookup \cup {i}
        BY <3>1, <3>7 DEF Enqueue, a, q
      <4>2. Len(a) <= MaxQueue
        BY <1>1, <3>3, <3>7
      <4> QED
        BY <1>1, <3>3, <3>4, <3>5, <4>1, <4>2
    <3> QED BY <3>6, <3>7
  <2> QED BY <2>1, <2>2
<1> HIDE DEF q, i, a
<1>4. OnItsWay' = OnItsWay /\ Loading' = Loading /\ item'["worker"] = item["worker"] /\ at'["worker"] = at["worker"]
  BY <1>2 DEF IInv, TypeOK, Threads, OnItsWay, Loading
<1>5. QueueInv'
  BY <1>2, <1>3, <1>4 DEF QueueInv, Distinct
<1>6. WorkerInv'
  BY <1>2, <1>3, <1>4 DEF IInv, WorkerInv, q
<1>7. TypeOK'
  BY <1>2, <1>3 DEF IInv, TypeOK, Threads, MainStep, mutexes
<1>8. MainInv'
  BY <1>2, "main" \in Threads
  DEF IInv, TypeOK, MainInv, ItemKnown, RightKind, BoardAbsent, FoundStays, VictimUnlocked, OpKnown,
      HeldInv, Retrieving, Deleting, Unstored, LoadStep, Threads
<1> QED
  BY <1>5, <1>6, <1>7, <1>8 DEF IInv, MainInv

(* Every step keeps the invariant.                                         *)
LEMMA NextIInv == IInv /\ [Next]_vars => IInv'
<1> SUFFICES ASSUME IInv, [Next]_vars PROVE IInv'
  OBVIOUS
<1>1. CASE MainOther BY <1>1, MainIInv
<1>2. CASE QueueRequest BY <1>2, QueueIInv
<1>3. CASE Wake \/ Check \/ Pop \/ Finish BY <1>3, WorkerIInv
<1>4. ASSUME NEW t \in Threads, LoadIntoCache(t) PROVE IInv'
  BY <1>4, LoadType, LoadMainInv, LoadWorkerInv DEF IInv, MainInv
<1>5. CASE UNCHANGED vars
  BY <1>5, SMTT(60)
  DEF IInv, vars, queueVars, mutexes, uiVars, TypeOK, ItemKnown, RightKind, BoardAbsent, FoundStays,
      VictimUnlocked, OpKnown, HeldInv, WorkerInv, QueueInv, Retrieving, Deleting, OnItsWay, Loading
<1> QED
  BY <1>1, <1>2, <1>3, <1>4, <1>5 DEF Next, Main, Worker, GetSteps, MainOther, Threads

(* In every state the program can be in, the invariant holds.              *)
THEOREM Invariant == SafetySpec => []IInv
<1> QED
  BY InitIInv, NextIInv, PTL DEF SafetySpec

-----------------------------------------------------------------------------
(* Every variable keeps its type, cacheItems that of an unsigned number,   *)
(* and what somebody holds locked is cached, with his locks.               *)
THEOREM CacheAlwaysSound == SafetySpec => []CacheSound
<1>1. IInv => HeldStays
  <2> SUFFICES ASSUME IInv, NEW i \in Items, held[i] > 0 PROVE cache[i] = "hit" /\ locks[i] >= held[i]
    BY DEF HeldStays
  <2>1. locks[i] \in Int /\ held[i] \in Int /\ held[i] <= locks[i] /\ (locks[i] > 0 => cache[i] = "hit")
    BY CacheAssumption DEF IInv, TypeOK, HeldInv
  <2> QED BY <2>1
<1>2. IInv => CacheSound
  BY <1>1 DEF IInv, CacheSound
<1> QED
  BY <1>2, Invariant, PTL

(* The lookup holds what waits and what is being loaded, each once; no     *)
(* more wait than may; the worker never pops from an empty queue.          *)
THEOREM RequestsAlwaysAgree == SafetySpec => []RequestsAgree
<1>1. ASSUME IInv PROVE RequestsAgree
  <2> DEFINE q == mRequestQueue
  <2>1. q \in Seq(Pictures) /\ Distinct(q) /\ Len(q) \in Nat /\ mRequestLookup = ToSet(q) \cup OnItsWay
    BY <1>1, LenProperties DEF IInv, TypeOK, QueueInv, Distinct
  <2>2. IsFiniteSet(ToSet(q)) /\ Cardinality(ToSet(q)) = Len(q)
    BY <2>1, Counted
  <2>3. Cardinality(mRequestLookup) = Len(q) + Cardinality(OnItsWay)
    <3>1. CASE Loading
      <4>1. OnItsWay = {item["worker"]} /\ item["worker"] \notin ToSet(q)
        BY <1>1, <3>1 DEF IInv, WorkerInv, OnItsWay
      <4>2. Cardinality(OnItsWay) = 1
        BY <4>1, FS_Singleton
      <4>3. Cardinality(ToSet(q) \cup {item["worker"]}) = Cardinality(ToSet(q)) + 1
        BY <2>2, <4>1, FS_AddElement
      <4> QED BY <2>1, <2>2, <4>1, <4>2, <4>3
    <3>2. CASE ~ Loading
      <4>1. OnItsWay = {} /\ Cardinality(OnItsWay) = 0
        BY <3>2, FS_EmptySet DEF OnItsWay
      <4> QED BY <2>1, <2>2, <4>1
    <3> QED BY <3>1, <3>2
  <2> QED
    BY <1>1, <2>1, <2>3 DEF IInv, QueueInv, WorkerInv, RequestsAgree
<1> QED
  BY <1>1, Invariant, PTL

-----------------------------------------------------------------------------
(* The retriever implements PictureService.                                *)

(* PictureService's Cardinality is ours.                                   *)
LEMMA SameCount == \A S : Service!Cardinality(S) = Cardinality(S)
  BY DEF Service!Cardinality, Cardinality

(* The pictures that wait are those in the queue, once each.               *)
LEMMA Waits ==
  ASSUME IInv
  PROVE  Service!Waiting = ToSet(mRequestQueue) /\ Service!Cardinality(Service!Waiting) = Len(mRequestQueue)
<1>1. mRequestQueue \in Seq(Pictures) /\ Distinct(mRequestQueue)
  BY DEF IInv, TypeOK, QueueInv, Distinct
<1>2. ToSet(mRequestQueue) \subseteq Pictures
  BY <1>1, LenProperties DEF ToSet
<1>3. \A p \in Pictures : request[p] = "waiting" <=> p \in ToSet(mRequestQueue)
  BY DEF request
<1>4. Service!Waiting = ToSet(mRequestQueue)
  BY <1>2, <1>3 DEF Service!Waiting
<1> QED
  BY <1>1, <1>4, Counted, SameCount

(* Nothing is asked for or loaded: at most one entry leaves the map.       *)
Forgets ==
  /\ request' = request
  /\ \/ \A p \in Pictures : cache'[p] = cache[p]
     \/ \E i \in Items : cache' = [cache EXCEPT ![i] = "absent"]

LEMMA ForgetsImplements ==
  ASSUME IInv, IInv', Forgets
  PROVE  [Service!Next]_(Service!vars)
<1>1. CASE \A p \in Pictures : cache'[p] = cache[p]
  BY <1>1 DEF Forgets, kept, Service!vars
<1>2. ASSUME NEW i \in Items, cache' = [cache EXCEPT ![i] = "absent"]
      PROVE  [Service!Next]_(Service!vars)
  <2>1. cache \in [Items -> {"absent", "hit", "miss"}]
    BY DEF IInv, TypeOK
  <2>2. CASE i \in Pictures /\ cache[i] # "absent"
    <3>1. kept' = [kept EXCEPT ![i] = "absent"] /\ kept[i] # "absent" /\ request' = request
      BY <1>2, <2>1, <2>2 DEF kept, Forgets, Items
    <3> QED BY <2>2, <3>1 DEF Service!Next, Service!Forget
  <2>3. CASE ~ (i \in Pictures /\ cache[i] # "absent")
    <3>1. kept' = kept /\ request' = request
      BY <1>2, <2>1, <2>3 DEF kept, Forgets, Items
    <3> QED BY <3>1 DEF Service!vars
  <2> QED BY <2>2, <2>3
<1> QED BY <1>1, <1>2 DEF Forgets

(* What request[p] depends on.                                             *)
LEMMA RequestKept ==
  ASSUME UNCHANGED mRequestQueue, item'["worker"] = item["worker"],
         Loading' = Loading,
         at'["worker"] \in {"count", "add", "finish"} <=> at["worker"] \in {"count", "add", "finish"}
  PROVE  request' = request
  BY DEF request

(* Main's steps other than QueueRequest() and loads are such steps.        *)
LEMMA MainForgets ==
  ASSUME IInv, MainOther
  PROVE  Forgets
<1> USE DEF IInv, TypeOK, Threads, Go, GoIdle
<1>1. request' = request
  <2>1. UNCHANGED mRequestQueue /\ item'["worker"] = item["worker"] /\ at'["worker"] = at["worker"]
    BY DEF MainOther, Called, DeleteSteps, uiVars, queueVars, Retrieve, Release, Clear, Terminate, Lookup,
           SkipCleanup, Cleanup, RemoveOldest, EndCleanup, Return, Delete, Erase, EndClear, EndRefresh,
           Visit, Join
  <2> QED BY <2>1, RequestKept DEF Loading
<1>2. CASE Erase
  BY <1>1, <1>2 DEF Erase, Forgets, VictimUnlocked, Deleting
<1>3. ASSUME NEW i \in Items, Visit(i) PROVE Forgets
  BY <1>1, <1>3 DEF Visit, Forgets
<1>4. CASE MainOther /\ ~ Erase /\ ~ \E i \in Items : Visit(i)
  BY <1>1, <1>4
  DEF MainOther, Called, DeleteSteps, Retrieve, Release, Clear, Terminate, Lookup, SkipCleanup, Cleanup,
      RemoveOldest, EndCleanup, Return, Delete, EndClear, EndRefresh, Join, Forgets, uiVars
<1> QED BY <1>2, <1>3, <1>4

(* So is a load of main's, of a board.                                     *)
LEMMA BoardForgets ==
  ASSUME IInv, LoadIntoCache("main")
  PROVE  Forgets
<1> USE DEF IInv, TypeOK, Threads, Go, LeaveLoad, AfterLoad, queueVars, LoadIntoCache, BeginLoad, Attempt,
            Judge, Record, LockMap, Store, Count, Add
<1>1. request' = request
  <2>1. UNCHANGED mRequestQueue /\ item'["worker"] = item["worker"] /\ at'["worker"] = at["worker"]
    OBVIOUS
  <2> QED BY <2>1, RequestKept DEF Loading
<1>2. \A p \in Pictures : cache'[p] = cache[p]
  BY CacheAssumption DEF RightKind, LoadStep, Items
<1> QED BY <1>1, <1>2 DEF Forgets

(* The worker loads a picture: Record() and Store() end the load, and      *)
(* nothing is kept of that picture before; the other steps are stutters.   *)
LEMMA LoadImplements ==
  ASSUME IInv, IInv', LoadIntoCache("worker")
  PROVE  [Service!Next]_(Service!vars)
<1> DEFINE p == item["worker"]
<1>1. /\ p \in Pictures /\ p \notin ToSet(mRequestQueue)
      /\ at["worker"] \in Unstored => cache[p] = "absent"
      /\ UNCHANGED <<item, mRequestQueue>> /\ Loading /\ Loading'
      /\ cache \in [Items -> {"absent", "hit", "miss"}] /\ p \in Items
      /\ request' \in [Pictures -> {"none", "waiting", "loading", "loaded"}]
  <2> USE DEF IInv, TypeOK, Threads, Go, LeaveLoad, AfterLoad, queueVars, LoadIntoCache, BeginLoad, Attempt,
              Judge, Record, LockMap, Store, Count, Add, Loading, LoadStep
  <2>1. UNCHANGED <<item, mRequestQueue>> /\ Loading /\ Loading'
    OBVIOUS
  <2>2. /\ p \in Pictures /\ p \notin ToSet(mRequestQueue)
        /\ at["worker"] \in Unstored => cache[p] = "absent"
    BY <2>1 DEF WorkerInv
  <2>3. request' \in [Pictures -> {"none", "waiting", "loading", "loaded"}]
    BY DEF request
  <2> QED BY <2>1, <2>2, <2>3 DEF Items
<1>2. CASE BeginLoad("worker") \/ Attempt("worker") \/ Judge("worker") \/ LockMap("worker") \/ Count("worker")
           \/ Add("worker") \/ (Record("worker") /\ at'["worker"] = "wait")
  <2>1. UNCHANGED cache
    BY <1>2 DEF BeginLoad, Attempt, Judge, LockMap, Count, Add, Record
  <2>2. at'["worker"] \in {"count", "add", "finish"} <=> at["worker"] \in {"count", "add", "finish"}
    BY <1>2 DEF IInv, TypeOK, Threads, Go, LeaveLoad, AfterLoad, BeginLoad, Attempt, Judge, LockMap, Count, Add, Record
  <2>3. request' = request
    BY <1>1, <2>2, RequestKept
  <2> QED BY <2>1, <2>3 DEF kept, Service!vars
<1>3. CASE Store("worker") \/ (Record("worker") /\ at'["worker"] # "wait")
  <2>1. /\ at["worker"] \in {"store", "record"} /\ at'["worker"] \in {"count", "finish"}
        /\ \E found \in {"absent", "hit", "miss"} : cache' = [cache EXCEPT ![p] = found]
    <3>1. CASE Store("worker")
      BY <1>1, <3>1, ZenonT(60) DEF Store, IInv, TypeOK, Threads, Go, LeaveLoad, AfterLoad
    <3>2. CASE Record("worker") /\ at'["worker"] # "wait"
      <4>1. at["worker"] = "record" /\ at'["worker"] = "finish" /\ cache' = cache
        BY <3>2 DEF Record, IInv, TypeOK, Threads, Go, LeaveLoad, AfterLoad
      <4>2. cache' = [cache EXCEPT ![p] = "absent"]
        BY <1>1, <4>1 DEF Unstored
      <4> QED BY <4>1, <4>2
    <3> QED BY <1>3, <3>1, <3>2
  <2>2. request[p] = "loading" /\ kept[p] = "absent"
    BY <1>1, <2>1 DEF request, kept, Unstored
  <2>3. request' = [request EXCEPT ![p] = "loaded"]
    BY <1>1, <2>1 DEF request
  <2>4. \E found \in {"absent", "hit", "miss"} : kept' = [kept EXCEPT ![p] = found]
    BY <1>1, <2>1 DEF kept, Items
  <2> QED BY <1>1, <2>2, <2>3, <2>4 DEF Service!Next, Service!Load
<1> QED
  BY <1>2, <1>3 DEF LoadIntoCache

(* The worker's other steps: Pop() begins a load, Finish() ends a request. *)
LEMMA WorkerImplements ==
  ASSUME IInv, IInv', Wake \/ Check \/ Pop \/ Finish
  PROVE  [Service!Next]_(Service!vars)
<1> USE DEF Go
<1>0. /\ at \in [Threads -> MainStep \cup WorkerStep] /\ item \in [Threads -> Items \cup {NoItem}]
      /\ "worker" \in Threads
  BY DEF IInv, TypeOK, Threads
<1>1. CASE Wake \/ Check
  <2>1. /\ UNCHANGED <<mRequestQueue, cache, item>> /\ at["worker"] \in {"sleep", "check"}
        /\ at'["worker"] \in {"sleep", "check", "pop", "ended"}
    BY <1>0, <1>1 DEF Wake, Check, queueVars
  <2>2. request' = request
    BY <2>1, RequestKept DEF Loading, LoadStep
  <2> QED BY <2>1, <2>2 DEF kept, Service!vars
<1>2. CASE Pop
  <2> DEFINE q == mRequestQueue
  <2>1. /\ q \in Seq(Pictures) /\ q # <<>> /\ Distinct(q) /\ q' = Tail(q) /\ UNCHANGED cache
        /\ item'["worker"] = Head(q) /\ at["worker"] = "pop" /\ at'["worker"] = "load"
    BY <1>0, <1>2 DEF Pop, IInv, TypeOK, QueueInv, Distinct
  <2>2. /\ Head(q) \in Pictures /\ ToSet(q) = ToSet(Tail(q)) \cup {Head(q)}
        /\ Head(q) \notin ToSet(Tail(q))
    BY <2>1, Popped, ElementOfSeq
  <2>3. ~ Loading /\ Loading'
    BY <2>1 DEF Loading, LoadStep
  <2>4. request[Head(q)] = "waiting" /\ \A p \in Pictures : request[p] \notin {"loading", "loaded"}
    BY <2>2, <2>3 DEF request
  <2>5. request' = [request EXCEPT ![Head(q)] = "loading"]
    BY <2>1, <2>2, <2>3 DEF request
  <2>6. kept' = kept
    BY <2>1 DEF kept
  <2> QED BY <2>2, <2>4, <2>5, <2>6 DEF Service!Next, Service!Begin
<1>3. CASE Finish
  <2> DEFINE p == item["worker"]
  <2>1. /\ at["worker"] = "finish" /\ at'["worker"] = "check" /\ UNCHANGED <<mRequestQueue, cache>>
        /\ Loading /\ ~ Loading' /\ p \in Pictures /\ p \notin ToSet(mRequestQueue)
    BY <1>0, <1>3 DEF Finish, IInv, WorkerInv, Loading, LoadStep
  <2>2. request[p] = "loaded"
    BY <2>1 DEF request
  <2>3. request' = [request EXCEPT ![p] = "none"]
    BY <2>1 DEF request
  <2>4. kept' = kept
    BY <2>1 DEF kept
  <2> QED BY <2>1, <2>2, <2>3, <2>4 DEF Service!Next, Service!End
<1> QED BY <1>1, <1>2, <1>3

(* QueueRequest() asks for a picture that is not kept, and gives the       *)
(* oldest request up when too many wait.                                   *)
LEMMA QueueImplements ==
  ASSUME IInv, IInv', QueueRequest
  PROVE  [Service!Next]_(Service!vars)
<1> DEFINE q == mRequestQueue
           i == item["main"]
           a == Append(q, i)
<1>1. /\ i \in Pictures /\ q \in Seq(Pictures) /\ Distinct(q) /\ Len(q) <= MaxQueue
      /\ Len(q) \in Nat /\ MaxQueue \in Nat \ {0} /\ mRequestLookup = ToSet(q) \cup OnItsWay
      /\ UNCHANGED cache /\ at'["worker"] = at["worker"] /\ item'["worker"] = item["worker"]
  BY CacheAssumption, LenProperties
  DEF IInv, TypeOK, RightKind, QueueRequest, QueueInv, Distinct, Threads, GoIdle, Go
<1>2. kept' = kept /\ Loading' = Loading
  BY <1>1 DEF kept, Loading
<1>3. CASE ~ Wanted(i)
  <2>1. request' = request
    BY <1>1, <1>2, <1>3, RequestKept DEF QueueRequest, queueVars
  <2> QED BY <1>2, <2>1 DEF Service!vars
<1>4. CASE Wanted(i)
  <2>1. Enqueue(i) /\ i \notin ToSet(q) /\ i \notin OnItsWay /\ cache[i] = "absent"
    BY <1>1, <1>4 DEF QueueRequest, Wanted
  <2>2. request[i] = "none" /\ kept[i] = "absent"
    BY <1>1, <2>1 DEF request, kept, OnItsWay
  <2>3. /\ a \in Seq(Pictures) /\ Len(a) = Len(q) + 1 /\ a # <<>>
        /\ Distinct(a) /\ ToSet(a) = ToSet(q) \cup {i}
        /\ \A k \in 1 .. Len(a) : a[k] = IF k <= Len(q) THEN q[k] ELSE i
    BY <1>1, <2>1, Appended
  <2>4. Service!Waiting = ToSet(q) /\ Service!Cardinality(Service!Waiting) = Len(q)
    BY Waits
  <2>5. CASE ~ (Len(a) > MaxQueue)
    <3>1. q' = a
      BY <2>1, <2>5 DEF Enqueue
    <3>2. request' = [request EXCEPT ![i] = "waiting"]
      BY <1>1, <1>2, <2>3, <3>1 DEF request
    <3>3. Service!Cardinality(Service!Waiting) < MaxQueue
      BY <1>1, <2>3, <2>4, <2>5
    <3> QED BY <1>1, <1>2, <2>2, <3>2, <3>3 DEF Service!Next, Service!Ask
  <2>6. CASE Len(a) > MaxQueue
    <3> DEFINE h == Head(a)
    <3>1. q' = Tail(a)
      BY <2>1, <2>6 DEF Enqueue
    <3>2. ToSet(a) = ToSet(Tail(a)) \cup {h} /\ h \notin ToSet(Tail(a)) /\ h = a[1]
      BY <2>3, Popped
    <3>3. Service!Cardinality(Service!Waiting) = MaxQueue /\ h = q[1] /\ h \in ToSet(q)
      <4>1. Len(q) = MaxQueue /\ Len(q) >= 1
        BY <1>1, <2>3, <2>6
      <4>2. h = q[1]
        BY <1>1, <2>3, <3>2, <4>1
      <4>3. q[1] \in ToSet(q)
        BY <1>1, <4>1, LenProperties DEF ToSet
      <4> QED BY <2>4, <4>1, <4>2, <4>3
    <3>4. h \in Pictures /\ h # i /\ h \notin OnItsWay
      <4>1. h \in Pictures /\ h # i
        BY <1>1, <2>1, <2>3, <3>3, LenProperties DEF ToSet
      <4>2. h \notin OnItsWay
        BY <3>3 DEF IInv, WorkerInv, OnItsWay
      <4> QED BY <4>1, <4>2
    <3> HIDE DEF h, a
    <3>5. ToSet(q') = (ToSet(q) \cup {i}) \ {h}
      BY <2>3, <3>1, <3>2
    <3>6. request' = [request EXCEPT ![i] = "waiting", ![h] = "none"]
      BY <1>1, <1>2, <3>4, <3>5 DEF request, OnItsWay
    <3> QED BY <1>1, <1>2, <2>2, <2>4, <3>3, <3>4, <3>6 DEF Service!Next, Service!Ask
  <2> QED BY <2>5, <2>6
<1> QED BY <1>3, <1>4

(* The retriever is the picture service: it asks only for what is not      *)
(* kept, loads one picture at a time, and replaces none that is kept.      *)
THEOREM Implements == SafetySpec => ServesPictures
<1>1. Init => Service!Init
  BY EmptySeq DEF Init, Service!Init, request, kept, Loading, LoadStep, Threads, ToSet, Items
<1>2. IInv /\ IInv' /\ [Next]_vars => [Service!Next]_(Service!vars)
  <2> SUFFICES ASSUME IInv, IInv', [Next]_vars PROVE [Service!Next]_(Service!vars)
    OBVIOUS
  <2>1. CASE MainOther \/ LoadIntoCache("main")
    BY <2>1, MainForgets, BoardForgets, ForgetsImplements
  <2>2. CASE QueueRequest BY <2>2, QueueImplements
  <2>3. CASE Wake \/ Check \/ Pop \/ Finish BY <2>3, WorkerImplements
  <2>4. CASE LoadIntoCache("worker") BY <2>4, LoadImplements
  <2>5. CASE UNCHANGED vars
    BY <2>5 DEF vars, queueVars, request, kept, Loading, Service!vars
  <2> QED BY <2>1, <2>2, <2>3, <2>4, <2>5 DEF Next, Main, Worker, GetSteps, MainOther
<1> QED
  BY <1>1, <1>2, Invariant, PTL DEF SafetySpec, ServesPictures, Service!Spec
=============================================================================
