----------------------------- MODULE CardCache -----------------------------
(***************************************************************************)
(* The cache of textures and the thread that loads the pictures of cards   *)
(* into it (WCache and ThreadedCardRetriever).                             *)
(*                                                                         *)
(* The game's thread, "main", retrieves pictures of cards and other        *)
(* textures, the boards.  A picture that is not cached is queued for the   *)
(* thread "worker", and a generic card is drawn meanwhile; a board is      *)
(* loaded at once.  Both threads run LoadIntoCache().  A step is what a    *)
(* thread does between two accesses to something both of them use: the     *)
(* map, the counters, the error code, the queue, the mutexes.              *)
(*                                                                         *)
(* cacheItems stands for cacheSize and totalSize too, which are read and   *)
(* written with it.  Which picture is the oldest, and how large pictures   *)
(* are, is any choice.                                                     *)
(***************************************************************************)
EXTENDS Integers, Sequences, FiniteSets, SequencesExt

CONSTANTS
  Pictures, Boards, \* ids of pictures of cards, and of other textures
  Missing,          \* those that have no file
  Bad,              \* those whose file does not load
  MaxQueue,         \* how many requests may wait; 7 in the code
  MaxCached,        \* maxCached
  CounterLimit,     \* one more than the largest value of a counter
  MaxLocks,         \* bound on the locks of a board
  NoThread,         \* nobody holds the mutex
  NoItem            \* what a thread is at when it is at none

Items   == Pictures \cup Boards
Threads == {"main", "worker"}
Style   == {"RETRIEVE_NORMAL", "RETRIEVE_LOCK"}

ASSUME CacheAssumption ==
  /\ Pictures \cap Boards = {} /\ Missing \cup Bad \subseteq Items
  /\ MaxQueue \in Nat \ {0} /\ MaxCached \in Nat /\ MaxLocks \in Nat
  /\ CounterLimit \in Nat \ {0}
  /\ NoThread \notin Threads /\ NoItem \notin Items

VARIABLES
  at,                 \* where each thread is
  item,               \* the item each thread loads or retrieves
  got,                \* whether it has got it
  read,               \* the value of cacheItems a thread has read
  cache,              \* the map: an item, a recorded miss, or no entry
  locks,              \* the locks of each item
  cacheItems,         \* the count of the items cached
  mError,             \* the error code, shared by the threads
  mRequestQueue,      \* the ids of the requests, the oldest first
  mRequestLookup,     \* the ids asked for and not yet loaded
  mProcessing,        \* whether the worker shall go on
  sCacheMutex,        \* who holds the mutex of the map
  sLoadFunctionMutex, \* who holds the mutex of the file system
  op,                 \* what main was called for
  victim,             \* the item main deletes
  todo,               \* the entries ClearUnlocked() has not come to
  held                \* history: the locks on each item that can be given back

queueVars == <<mRequestQueue, mRequestLookup>>
mutexes   == <<sCacheMutex, sLoadFunctionMutex>>
uiVars    == <<op, victim, todo, held>>
vars == <<at, item, got, read, cache, locks, cacheItems, mError, queueVars,
          mProcessing, mutexes, uiVars>>

LoadStep == {"load", "attempt", "judge", "record", "wait", "store", "count", "add"}
MainStep == LoadStep \cup {"idle", "lookup", "cleanup", "evict", "delete", "erase", "queue",
                           "return", "clear", "refresh", "join", "destroyed"}
WorkerStep == LoadStep \cup {"sleep", "check", "pop", "finish", "ended"}

TypeOK ==
  /\ at["main"] \in MainStep /\ at["worker"] \in WorkerStep
  /\ at \in [Threads -> MainStep \cup WorkerStep]
  /\ item \in [Threads -> Items \cup {NoItem}] /\ got \in [Threads -> BOOLEAN]
  /\ read \in [Threads -> 0 .. CounterLimit - 1] /\ cacheItems \in 0 .. CounterLimit - 1
  /\ cache \in [Items -> {"absent", "hit", "miss"}]
  /\ locks \in [Items -> 0 .. MaxLocks] /\ held \in [Items -> 0 .. MaxLocks]
  /\ mError \in {"NONE", "404", "BAD"}
  /\ mRequestQueue \in Seq(Pictures) /\ mRequestLookup \subseteq Pictures
  /\ mProcessing \in BOOLEAN
  /\ sCacheMutex \in Threads \cup {NoThread} /\ sLoadFunctionMutex \in Threads \cup {NoThread}
  /\ op \in Style \cup {"none", "Release", "ClearUnlocked", "Refresh"}
  /\ victim \in Items \cup {NoItem} /\ todo \subseteq Items

Init ==
  /\ at = [t \in Threads |-> IF t = "main" THEN "idle" ELSE "sleep"]
  /\ item = [t \in Threads |-> NoItem] /\ victim = NoItem
  /\ got = [t \in Threads |-> FALSE] /\ read = [t \in Threads |-> 0]
  /\ cache = [i \in Items |-> "absent"] /\ locks = [i \in Items |-> 0]
  /\ held = [i \in Items |-> 0]
  /\ cacheItems = 0 /\ mError = "NONE"
  /\ mRequestQueue = <<>> /\ mRequestLookup = {} /\ mProcessing = TRUE
  /\ sCacheMutex = NoThread /\ sLoadFunctionMutex = NoThread
  /\ op = "none" /\ todo = {}

Go(t, step) == at' = [at EXCEPT ![t] = step]

(* Main leaves the call; its locals end with it.                           *)
GoIdle ==
  /\ Go("main", "idle")
  /\ item' = [item EXCEPT !["main"] = NoItem] /\ got' = [got EXCEPT !["main"] = FALSE]
  /\ op' = "none"

-----------------------------------------------------------------------------
(* LoadIntoCache(), on either thread, and AttemptNew() in it.              *)

(* The mutex of the file system is held from here to LeaveLoad; AttemptNew *)
(* resets the error code.                                                  *)
BeginLoad(t) ==
  /\ at[t] = "load" /\ sLoadFunctionMutex = NoThread
  /\ sLoadFunctionMutex' = t /\ mError' = "NONE"
  /\ Go(t, "attempt")
  /\ UNCHANGED <<item, got, read, cache, locks, cacheItems, queueVars, mProcessing, sCacheMutex, uiVars>>

(* WCachedTexture::Attempt() leaves its reason in the error code.          *)
Attempt(t) ==
  /\ at[t] = "attempt"
  /\ got' = [got EXCEPT ![t] = item[t] \notin Missing \cup Bad]
  /\ mError' = IF item[t] \in Missing THEN "404" ELSE IF item[t] \in Bad THEN "BAD" ELSE "NONE"
  /\ Go(t, "judge")
  /\ UNCHANGED <<item, read, cache, locks, cacheItems, queueVars, mProcessing, mutexes, uiVars>>

(* AttemptNew() reads the error code again.                                *)
Judge(t) ==
  /\ at[t] = "judge"
  /\ mError' = IF got[t] THEN "NONE" ELSE IF mError = "404" THEN "404" ELSE "BAD"
  /\ Go(t, "record")
  /\ UNCHANGED <<item, got, read, cache, locks, cacheItems, queueVars, mProcessing, mutexes, uiVars>>

(* Mutant of AfterLoad: the worker leaves the id in the lookup.            *)
AfterLoadForgets(t) == IF t = "main" THEN "return" ELSE "check"

AfterLoad(t) == IF t = "main" THEN "return" ELSE "finish"
LeaveLoad(t) == sLoadFunctionMutex' = NoThread /\ Go(t, AfterLoad(t))

(* A hit or a miss is recorded, by the error code read once more; any      *)
(* other failure is not.                                                   *)
Record(t) ==
  /\ at[t] = "record"
  /\ IF got[t] \/ mError = "404"
       THEN Go(t, "wait") /\ UNCHANGED sLoadFunctionMutex
       ELSE LeaveLoad(t)
  /\ UNCHANGED <<item, got, read, cache, locks, cacheItems, mError, queueVars, mProcessing,
                 sCacheMutex, uiVars>>

LockMap(t) ==
  /\ at[t] = "wait" /\ sCacheMutex = NoThread
  /\ sCacheMutex' = t
  /\ Go(t, "store")
  /\ UNCHANGED <<item, got, read, cache, locks, cacheItems, mError, queueVars, mProcessing,
                 sLoadFunctionMutex, uiVars>>

Store(t) ==
  /\ at[t] = "store"
  /\ cache' = [cache EXCEPT ![item[t]] = IF got[t] THEN "hit" ELSE "miss"]
  /\ sCacheMutex' = NoThread
  /\ IF got[t] THEN Go(t, "count") /\ UNCHANGED sLoadFunctionMutex ELSE LeaveLoad(t)
  /\ UNCHANGED <<item, got, read, locks, cacheItems, mError, queueVars, mProcessing, uiVars>>

(* The sizes are added up when the mutex of the map is free again: one     *)
(* step reads them, the next writes.                                       *)
Count(t) ==
  /\ at[t] = "count"
  /\ read' = [read EXCEPT ![t] = cacheItems]
  /\ mError' = "NONE"
  /\ Go(t, "add")
  /\ UNCHANGED <<item, got, cache, locks, cacheItems, queueVars, mProcessing, mutexes, uiVars>>

Add(t) ==
  /\ at[t] = "add"
  /\ cacheItems' = (read[t] + 1) % CounterLimit
  /\ read' = [read EXCEPT ![t] = 0]
  /\ LeaveLoad(t)
  /\ UNCHANGED <<item, got, cache, locks, mError, queueVars, mProcessing, sCacheMutex, uiVars>>

LoadIntoCache(t) ==
  BeginLoad(t) \/ Attempt(t) \/ Judge(t) \/ Record(t) \/ LockMap(t) \/ Store(t) \/ Count(t) \/ Add(t)

-----------------------------------------------------------------------------
(* The worker, ThreadProc().                                               *)

(* Mutant of Wake: the worker does not look at mProcessing.                *)
WakeForever ==
  /\ at["worker"] = "sleep"
  /\ Go("worker", "check")
  /\ UNCHANGED <<item, got, read, cache, locks, cacheItems, mError, queueVars, mProcessing, mutexes, uiVars>>

(* kIdleTime is over.                                                      *)
Wake ==
  /\ at["worker"] = "sleep"
  /\ Go("worker", IF mProcessing THEN "check" ELSE "ended")
  /\ UNCHANGED <<item, got, read, cache, locks, cacheItems, mError, queueVars, mProcessing, mutexes, uiVars>>

(* The queue is looked at without its mutex.                               *)
Check ==
  /\ at["worker"] = "check"
  /\ Go("worker", IF mRequestQueue = <<>> THEN "sleep" ELSE "pop")
  /\ UNCHANGED <<item, got, read, cache, locks, cacheItems, mError, queueVars, mProcessing, mutexes, uiVars>>

Pop ==
  /\ at["worker"] = "pop" /\ mRequestQueue # <<>>
  /\ item' = [item EXCEPT !["worker"] = Head(mRequestQueue)]
  /\ mRequestQueue' = Tail(mRequestQueue)
  /\ Go("worker", "load")
  /\ UNCHANGED <<got, read, cache, locks, cacheItems, mError, mRequestLookup, mProcessing, mutexes, uiVars>>

(* The id may be asked for again.                                          *)
Finish ==
  /\ at["worker"] = "finish"
  /\ mRequestLookup' = mRequestLookup \ {item["worker"]}
  /\ item' = [item EXCEPT !["worker"] = NoItem] /\ got' = [got EXCEPT !["worker"] = FALSE]
  /\ Go("worker", "check")
  /\ UNCHANGED <<read, cache, locks, cacheItems, mError, mRequestQueue, mProcessing, mutexes, uiVars>>

Worker == Wake \/ Check \/ Pop \/ Finish \/ LoadIntoCache("worker")

-----------------------------------------------------------------------------
(* Retrieve() and Get(), on main.                                          *)

isLocked(i) == locks[i] # 0

(* Only a board is retrieved with a lock.                                  *)
Retrieve(i, style) ==
  /\ at["main"] = "idle"
  /\ style = "RETRIEVE_LOCK" => i \in Boards /\ locks[i] < MaxLocks
  /\ item' = [item EXCEPT !["main"] = i] /\ op' = style
  /\ mError' = "NONE"
  /\ Go("main", "lookup")
  /\ UNCHANGED <<got, read, cache, locks, cacheItems, queueVars, mProcessing, mutexes, victim, todo, held>>

(* Get() looks the item up while it holds the mutex of the map.            *)
Lookup ==
  /\ at["main"] = "lookup" /\ sCacheMutex = NoThread
  /\ LET found == cache[item["main"]] IN
     /\ mError' = IF found = "miss" THEN "404" ELSE mError
     /\ got' = [got EXCEPT !["main"] = found = "hit"]
     /\ Go("main", IF found = "absent" THEN "cleanup" ELSE "return")
  /\ UNCHANGED <<item, read, cache, locks, cacheItems, queueVars, mProcessing, mutexes, uiVars>>

(* What Get() goes on with when there is room.                             *)
AfterCleanup == IF item["main"] \in Pictures THEN "queue" ELSE "load"

(* RequiresOldItemCleanup() fails if no limit is passed; the one on the    *)
(* sizes may be at any time.                                               *)
MayStop == cacheItems <= MaxCached

(* Mutant of Evictable: locks are not looked at.                           *)
EvictLocked == {i \in Items : cache[i] = "hit"}

Evictable == {i \in Items : cache[i] = "hit" /\ ~ isLocked(i)}

SkipCleanup ==
  /\ at["main"] = "cleanup" /\ MayStop
  /\ Go("main", AfterCleanup)
  /\ UNCHANGED <<item, got, read, cache, locks, cacheItems, mError, queueVars, mProcessing, mutexes, uiVars>>

Cleanup ==
  /\ at["main"] = "cleanup" /\ sCacheMutex = NoThread
  /\ sCacheMutex' = "main"
  /\ Go("main", "evict")
  /\ UNCHANGED <<item, got, read, cache, locks, cacheItems, mError, queueVars, mProcessing,
                 sLoadFunctionMutex, uiVars>>

RemoveOldest ==
  /\ at["main"] = "evict" /\ victim' \in Evictable
  /\ Go("main", "delete")
  /\ UNCHANGED <<item, got, read, cache, locks, cacheItems, mError, queueVars, mProcessing, mutexes,
                 op, todo, held>>

EndCleanup ==
  /\ at["main"] = "evict" /\ (MayStop \/ Evictable = {})
  /\ sCacheMutex' = NoThread
  /\ Go("main", AfterCleanup)
  /\ UNCHANGED <<item, got, read, cache, locks, cacheItems, mError, queueVars, mProcessing,
                 sLoadFunctionMutex, uiVars>>

(* Mutant of Wanted: Get() has looked already whether it is cached.        *)
WantedUnchecked(i) == i \notin mRequestLookup

(* QueueRequest(), under the mutex of the queue: an id that is neither     *)
(* asked for nor, by now, cached is put into the queue; the oldest request *)
(* is dropped when there are too many.                                     *)
Wanted(i) == i \notin mRequestLookup /\ cache[i] = "absent"

(* Mutant of Enqueue: the id of a dropped request stays in the lookup.     *)
EnqueueForgets(i) ==
  LET queue == Append(mRequestQueue, i) IN
  /\ mRequestQueue' = IF Len(queue) > MaxQueue THEN Tail(queue) ELSE queue
  /\ mRequestLookup' = mRequestLookup \cup {i}

Enqueue(i) ==
  LET queue == Append(mRequestQueue, i)
      asked == mRequestLookup \cup {i} IN
  IF Len(queue) > MaxQueue
    THEN mRequestQueue' = Tail(queue) /\ mRequestLookup' = asked \ {Head(queue)}
    ELSE mRequestQueue' = queue /\ mRequestLookup' = asked

QueueRequest ==
  /\ at["main"] = "queue"
  /\ IF Wanted(item["main"]) THEN Enqueue(item["main"]) ELSE UNCHANGED queueVars
  /\ GoIdle
  /\ UNCHANGED <<read, cache, locks, cacheItems, mError, mProcessing, mutexes, victim, todo, held>>

(* The rest of Retrieve(): the item is locked for the caller.              *)
Return ==
  /\ at["main"] = "return"
  /\ LET i == item["main"]
         more == IF got["main"] /\ op = "RETRIEVE_LOCK" THEN 1 ELSE 0 IN
     /\ locks' = [locks EXCEPT ![i] = @ + more]
     /\ held' = [held EXCEPT ![i] = @ + more]
  /\ GoIdle
  /\ UNCHANGED <<read, cache, cacheItems, mError, queueVars, mProcessing, mutexes, victim, todo>>

-----------------------------------------------------------------------------
(* Deleting, on main: inside Cleanup(), or by Release(), ClearUnlocked()   *)
(* and Refresh(), which take no mutex.                                     *)

(* Release(): the caller gives back one lock of an item whose texture he   *)
(* still has.  A texture that Refresh() replaced is not found, and         *)
(* releasing it does nothing.                                              *)
Release(i) ==
  /\ at["main"] = "idle" /\ held[i] > 0
  /\ held' = [held EXCEPT ![i] = @ - 1]
  /\ locks' = [locks EXCEPT ![i] = IF @ > 0 THEN @ - 1 ELSE 0]
  /\ IF cache[i] = "hit" /\ locks'[i] = 0
       THEN victim' = i /\ op' = "Release" /\ Go("main", "delete")
       ELSE UNCHANGED <<victim, op, at>>
  /\ UNCHANGED <<item, got, read, cache, cacheItems, mError, queueVars, mProcessing, mutexes, todo>>

Clear(why) ==
  /\ at["main"] = "idle" /\ why \in {"ClearUnlocked", "Refresh"}
  /\ op' = why /\ todo' = Items
  /\ Go("main", "clear")
  /\ UNCHANGED <<item, got, read, cache, locks, cacheItems, mError, queueVars, mProcessing, mutexes,
                 victim, held>>

(* The iteration comes to the entry of i, if there is one.                 *)
Visit(i) ==
  /\ at["main"] = "clear" /\ i \in todo
  /\ todo' = todo \ {i}
  /\ IF i \in Evictable
       THEN victim' = i /\ Go("main", "delete") /\ UNCHANGED cache
       ELSE /\ cache' = [cache EXCEPT ![i] = IF @ = "miss" THEN "absent" ELSE @]
            /\ UNCHANGED <<at, victim>>
  /\ UNCHANGED <<item, got, read, locks, cacheItems, mError, queueVars, mProcessing, mutexes, op, held>>

EndClear ==
  /\ at["main"] = "clear" /\ todo = {}
  /\ IF op = "Refresh" THEN Go("main", "refresh") /\ UNCHANGED <<item, got, op>> ELSE GoIdle
  /\ UNCHANGED <<read, cache, locks, cacheItems, mError, queueVars, mProcessing, mutexes,
                 victim, todo, held>>

(* Refresh() loads again what is cached, in place: it deletes the texture  *)
(* its holders know, and keeps its locks, unless the file fails to load.   *)
EndRefresh ==
  /\ at["main"] = "refresh"
  /\ \E again \in SUBSET {i \in Items : cache[i] = "hit"} :
       held' = [i \in Items |-> IF i \in again THEN 0 ELSE held[i]]
  /\ GoIdle
  /\ UNCHANGED <<read, cache, locks, cacheItems, mError, queueVars, mProcessing, mutexes, victim, todo>>

(* Delete() subtracts the item from the sizes, in two steps again.         *)
Delete ==
  /\ at["main"] = "delete"
  /\ read' = [read EXCEPT !["main"] = cacheItems]
  /\ Go("main", "erase")
  /\ UNCHANGED <<item, got, cache, locks, cacheItems, mError, queueVars, mProcessing, mutexes, uiVars>>

(* Mutant of Minus: cacheItems is signed.                                  *)
MinusSigned(n) == n - 1

(* The counters are unsigned.                                              *)
Minus(n) == (n + CounterLimit - 1) % CounterLimit

AfterErase == IF op \in Style THEN "evict" ELSE "clear"

Erase ==
  /\ at["main"] = "erase"
  /\ cacheItems' = Minus(read["main"])
  /\ cache' = [cache EXCEPT ![victim] = "absent"]
  /\ read' = [read EXCEPT !["main"] = 0] /\ victim' = NoItem
  /\ IF op = "Release" THEN GoIdle ELSE Go("main", AfterErase) /\ UNCHANGED <<item, got, op>>
  /\ UNCHANGED <<locks, mError, queueVars, mProcessing, mutexes, todo, held>>

(* ~ThreadedCardRetriever() tells the worker to stop, and waits for it.    *)
Terminate ==
  /\ at["main"] = "idle"
  /\ mProcessing' = FALSE
  /\ Go("main", "join")
  /\ UNCHANGED <<item, got, read, cache, locks, cacheItems, mError, queueVars, mutexes, uiVars>>

Join ==
  /\ at["main"] = "join" /\ at["worker"] = "ended"
  /\ Go("main", "destroyed")
  /\ UNCHANGED <<item, got, read, cache, locks, cacheItems, mError, queueVars, mProcessing, mutexes, uiVars>>

-----------------------------------------------------------------------------
(* Main is asked to do something, or does it.                              *)
Called == \/ \E i \in Items, style \in Style : Retrieve(i, style)
          \/ \E i \in Items : Release(i)
          \/ \E why \in {"ClearUnlocked", "Refresh"} : Clear(why)
          \/ Terminate

GetSteps    == Lookup \/ SkipCleanup \/ Cleanup \/ RemoveOldest \/ EndCleanup \/ QueueRequest \/ Return
DeleteSteps == Delete \/ Erase \/ EndClear \/ EndRefresh \/ (\E i \in Items : Visit(i))
Main        == GetSteps \/ DeleteSteps \/ Join \/ LoadIntoCache("main")

Next == Called \/ Main \/ Worker

(* Both threads go on.  Main may take a mutex again and again: the worker, *)
(* waiting for one that is free again and again, gets it some time.  Main  *)
(* needs no such promise, for the worker runs out of requests.             *)
Fairness ==
  /\ WF_vars(Main) /\ WF_vars(Worker)
  /\ SF_vars(BeginLoad("worker")) /\ SF_vars(LockMap("worker"))

SafetySpec == Init /\ [][Next]_vars
Spec == SafetySpec /\ Fairness

-----------------------------------------------------------------------------
(* What the cache promises.                                                *)

Loading == at["worker"] \in LoadStep \cup {"finish"}
OnItsWay == IF Loading THEN {item["worker"]} ELSE {}

(* QueueRequest()'s assertion, and why it holds: the lookup is what waits  *)
(* and what is being loaded, each id once, however requests, dropped       *)
(* requests and finished loads interleave; and the worker, which looks at  *)
(* the queue without its mutex, never pops from an empty one.              *)
RequestsAgree ==
  /\ mRequestLookup = ToSet(mRequestQueue) \cup OnItsWay
  /\ Cardinality(mRequestLookup) = Len(mRequestQueue) + Cardinality(OnItsWay)
  /\ Len(mRequestQueue) <= MaxQueue
  /\ at["worker"] = "pop" => mRequestQueue # <<>>

(* A texture that somebody holds locked, and draws from, stays in the      *)
(* cache with his locks: no eviction, clearing or release by another       *)
(* holder deletes it.                                                      *)
HeldStays == \A i \in Items : held[i] > 0 => cache[i] = "hit" /\ locks[i] >= held[i]

(* Every variable keeps its type and every counter its width, and what is  *)
(* held stays.                                                             *)
CacheSound == TypeOK /\ HeldStays

(* The retriever is the picture service: a picture is asked for only when  *)
(* it is not kept, loads come one at a time, and none replaces (and leaks) *)
(* a picture kept, though Get(), QueueRequest() and the worker look at     *)
(* the map at different times.                                             *)
request ==
  [p \in Pictures |->
     IF p \in ToSet(mRequestQueue) THEN "waiting"
     ELSE IF ~ Loading \/ item["worker"] # p THEN "none"
     ELSE IF at["worker"] \in {"count", "add", "finish"} THEN "loaded" ELSE "loading"]

kept == [p \in Pictures |-> cache[p]]

Service == INSTANCE PictureService WITH MaxWaiting <- MaxQueue
ServesPictures == Service!Spec

(* Every request ends: loaded, failed or dropped, its id leaves the lookup *)
(* and can be asked for again, unless the program ends first.              *)
RequestsEnd ==
  \A p \in Pictures : p \in mRequestLookup ~> p \notin mRequestLookup \/ ~ mProcessing

(* The game's thread comes back from every call to the cache, and the      *)
(* program ends when it is told to: the threads never wait for each other  *)
(* in a circle, and the worker sees that it shall stop.                    *)
MainReturns == at["main"] \notin {"idle", "destroyed"} ~> at["main"] \in {"idle", "destroyed"}

(* Refresh() loads "in situ": whoever held a texture locked holds it       *)
(* afterwards, and can give every lock back.                               *)
LocksComeBack == \A i \in Items : locks[i] = held[i]
=============================================================================
