------------------------------ MODULE ModelCache ------------------------------
(***************************************************************************)
(* The warm models of chp-adapter-huggingface (_RealHFBackend._cached): a  *)
(* bounded LRU under a lock, with the slow load outside of it.  A model is *)
(* a reference cycle on a device: it takes its memory from its load until  *)
(* a garbage collection finds that nobody refers to it.  The cache refers  *)
(* to what it holds, a frame to what it has loaded, to what it is about to *)
(* release and to what its caller is using.  A call uses one model here (a *)
(* rerank uses two: count it as two threads).                              *)
(***************************************************************************)
EXTENDS Integers, Sequences, FiniteSets

CONSTANTS
    Models,    \* what the calls ask for: the keys of the cache
    Users,     \* handler threads
    MaxCached, \* _MAX_CACHED_MODELS
    Loads      \* the models that have been loaded, told apart: a finite pool

ASSUME ModelCacheConstants ==
    /\ MaxCached \in Nat \ {0}
    /\ IsFiniteSet(Users)
    /\ IsFiniteSet(Loads)
    \* More than MemoryBounded allows, so that a load is always a new one.
    /\ Cardinality(Loads) >
         Cardinality(Users) * MaxCached + (Cardinality(Users) * (Cardinality(Users) + 1)) \div 2

VARIABLES
    cache,   \* _model_cache: pairs of a key and a load, the least recent first
    using,   \* each thread's stage, key, what it refers to and what it evicts
    resident \* the loads whose memory has not been given back

cacheVars == <<cache, using, resident>>

Aside == [stage |-> "none", key |-> <<>>, load |-> {}, evicted |-> <<>>]

Elements(seq) == {seq[n] : n \in DOMAIN seq}

Held == {entry[2] : entry \in Elements(cache)}

Cached(key) == {entry \in Elements(cache) : entry[1] = key}

\* The cache without the entry of a key; it has one at most.
Others(key) ==
    IF Cached(key) = {} THEN cache
    ELSE LET at == CHOOSE n \in DOMAIN cache : cache[n][1] = key
         IN  [n \in 1..Len(cache) - 1 |-> IF n < at THEN cache[n] ELSE cache[n + 1]]

\* What some frame refers to.
Referred == UNION {using[t].load \cup Elements(using[t].evicted) : t \in Users}

-----------------------------------------------------------------------------
CacheInit ==
    /\ cache = <<>>
    /\ using = [t \in Users |-> Aside]
    /\ resident = {}

\* With the lock: a hit becomes the most recent entry, and a miss goes to load.
LookUpModel(t, key) ==
    /\ using[t].stage = "none"
    /\ \/ \E entry \in Cached(key) :
             /\ cache' = Append(Others(key), entry)
             /\ using' = [using EXCEPT ![t] = [Aside EXCEPT !.stage = "use",
                                                            !.load = {entry[2]}]]
       \/ /\ Cached(key) = {}
          /\ using' = [using EXCEPT ![t] = [Aside EXCEPT !.stage = "load", !.key = key]]
          /\ UNCHANGED cache
    /\ UNCHANGED resident

\* factory(), without the lock; it may raise.
Load(t) ==
    /\ using[t].stage = "load"
    /\ \/ LET fresh == CHOOSE load \in Loads : load \notin resident
          IN  /\ using' = [using EXCEPT ![t].stage = "insert", ![t].load = {fresh}]
              /\ resident' = resident \cup {fresh}
       \/ /\ using' = [using EXCEPT ![t] = Aside]
          /\ UNCHANGED resident
    /\ UNCHANGED cache

\* The last write wins, and is the most recent entry.
Added(key, load) == Append(Others(key), <<key, load>>)

\* With the lock: the load is added and what is too much is evicted.
Insert(t) ==
    /\ using[t].stage = "insert"
    /\ \E load \in using[t].load :
          LET added == Added(using[t].key, load)
              surplus == IF Len(added) > MaxCached THEN Len(added) - MaxCached ELSE 0
          IN  /\ cache' = SubSeq(added, surplus + 1, Len(added))
              /\ using' = [using EXCEPT ![t].stage = "use",
                              ![t].evicted = [n \in 1..surplus |-> added[n][2]]]
    /\ UNCHANGED resident

\* Mutant of Release: the last reference is dropped, and nothing collected.
ReleaseUncollected(t) ==
    /\ using[t].evicted # <<>>
    /\ using' = [using EXCEPT ![t].evicted =
                    SubSeq(using[t].evicted, 1, Len(using[t].evicted) - 1)]
    /\ UNCHANGED <<cache, resident>>

\* _release_model(evicted.pop()): the frame forgets it, and a collection gives
\* back all that nobody refers to.
Release(t) ==
    /\ using[t].evicted # <<>>
    /\ using' = [using EXCEPT ![t].evicted =
                    SubSeq(using[t].evicted, 1, Len(using[t].evicted) - 1)]
    /\ resident' = resident \cap (Held \cup Referred')
    /\ UNCHANGED cache

\* The call that used the model ends; a collection does not follow.
EndUse(t) ==
    /\ using[t].stage = "use"
    /\ using[t].evicted = <<>>
    /\ using' = [using EXCEPT ![t] = Aside]
    /\ UNCHANGED <<cache, resident>>

-----------------------------------------------------------------------------
CacheNext ==
    \E t \in Users :
        \/ \E key \in Models : LookUpModel(t, key)
        \/ Load(t)
        \/ Insert(t)
        \/ Release(t)
        \/ EndUse(t)

CacheSpec == CacheInit /\ [][CacheNext]_cacheVars

-----------------------------------------------------------------------------
(***************************************************************************)
(* Properties                                                              *)
(***************************************************************************)
\* Among its parts: a model is not given back while the cache or a call has it.
CacheTypeOK ==
    /\ Len(cache) <= MaxCached
    /\ \A m, n \in DOMAIN cache : cache[m][1] = cache[n][1] => m = n
    /\ Held \cup Referred \subseteq resident
    /\ resident \subseteq Loads
    /\ \A t \in Users : using[t].stage \in {"none", "load", "insert", "use"}

\* The memory of the host does not grow with every distinct model.  It may hold
\* each cached model once for each thread, all of which loaded it before one of
\* them had cached it: what is overwritten then is not released, and only found
\* by the collection after a later eviction.  While evicted models wait for
\* their threads to release them, the other threads may do the same again.
MemoryBounded ==
    LET users == Cardinality(Users)
    IN  Cardinality(resident) <= users * MaxCached + (users * (users + 1)) \div 2

\* No model is given back while somebody has it, and the others are.
CacheSafe == CacheTypeOK /\ MemoryBounded
=============================================================================
