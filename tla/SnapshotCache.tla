---------------------------- MODULE SnapshotCache ----------------------------
(***************************************************************************)
(* SyntheticMemorySnapshotCache (core/src/cache.ts): envelopes by key      *)
(* under limits on their number and on two byte totals that the cache      *)
(* keeps beside them.                                                      *)
(*                                                                         *)
(* The clock is injected and may go back: every call brings any time.      *)
(* Adapter version, structural fingerprint and content identity of an      *)
(* envelope are one identity, since a reader compares each of them in the  *)
(* same place and with the same effect.                                    *)
(***************************************************************************)
EXTENDS Naturals, FiniteSets, FiniteSetsExt

CONSTANTS
    CacheKey,       \* pairs <<profile, resource>> of naturals, for texts of
                    \*   which only order and equality matter; the other
                    \*   three fields of a key are compared in the same way
    CacheIdentity,
    EnvelopeSize,   \* records of the serialized and the accounted bytes
    CacheTime,
    maxEntries, maxAge, maxEntrySerialized, maxEntryAccounted,
    maxTotalSerialized, maxTotalAccounted,
    NoEntry

ASSUME CacheAssumption ==
    /\ CacheKey \subseteq Nat \X Nat /\ IsFiniteSet(CacheKey)
    /\ EnvelopeSize \subseteq [serialized : Nat \ {0}, accounted : Nat \ {0}]
    /\ CacheTime \subseteq Nat
    /\ maxEntries \in Nat \ {0} /\ maxAge \in Nat
    /\ maxTotalSerialized \in Nat /\ maxTotalAccounted \in Nat

VARIABLES
    cache,      \* entries by key and the two running totals
    refusal     \* whether the last call was a put that was refused, and the
                \*   time it pruned at if it did: not part of the code

cacheVars == <<cache, refusal>>

\* What seed text may turn out to be when it is read: an envelope of its key,
\* no JSON, JSON that is no record, a record without a valid key, an envelope
\* of another key or one of an unsupported version.
EntryForm == {"envelope", "text", "value", "keyless", "foreign", "version"}

Entry ==
    {[form |-> form, identity |-> i, size |-> s, capturedAt |-> c,
      expiresAt |-> x] :
        form \in EntryForm, i \in CacheIdentity, s \in EnvelopeSize,
        c \in CacheTime, x \in CacheTime}

ASSUME NoEntryAssumption == NoEntry \notin Entry

\* validateFreshnessWindow; when an envelope becomes stale makes a difference
\* to what a reader is told only.
Envelope ==
    {e \in Entry : e.form = "envelope" /\ e.capturedAt <= e.expiresAt}

-----------------------------------------------------------------------------
(* Operations on a cache c                                                 *)

Present(c) == {k \in CacheKey : c.entries[k] # NoEntry}

SerializedOf(c, keys) ==
    SumFunctionOnSet([k \in keys |-> c.entries[k].size.serialized], keys)
AccountedOf(c, keys) ==
    SumFunctionOnSet([k \in keys |-> c.entries[k].size.accounted], keys)

\* #deleteSerializedKey of each of the keys, which are present.
Without(c, keys) ==
    [entries |-> [k \in CacheKey |-> IF k \in keys THEN NoEntry
                                                   ELSE c.entries[k]],
     serialized |-> c.serialized - SerializedOf(c, keys),
     accounted |-> c.accounted - AccountedOf(c, keys)]

\* #add under a key that is absent.
With(c, key, entry) ==
    [entries |-> [c.entries EXCEPT ![key] = entry],
     serialized |-> c.serialized + entry.size.serialized,
     accounted |-> c.accounted + entry.size.accounted]

\* Faulty variant of Replacing: the previous entry is overwritten in place.
ReplacingUncounted(c, key, entry) == With(c, key, entry)

Replacing(c, key, entry) ==
    With(Without(c, {key} \intersect Present(c)), key, entry)

\* #orderedEntries: by time of capture, then by key.
Before(c, k, l) ==
    \/ c.entries[k].capturedAt < c.entries[l].capturedAt
    \/ /\ c.entries[k].capturedAt = c.entries[l].capturedAt
       /\ \/ k[1] < l[1]
          \/ k[1] = l[1] /\ k[2] < l[2]

\* The n keys that come first among the given ones.
Oldest(c, keys, n) ==
    {k \in keys : Cardinality({l \in keys : Before(c, l, k)}) < n}

Fits(c) ==
    /\ Cardinality(Present(c)) <= maxEntries
    /\ c.serialized <= maxTotalSerialized
    /\ c.accounted <= maxTotalAccounted

\* #enforceAggregatePolicy deletes the oldest until everything fits.
Enforce(c) ==
    LET Trimmed(n) == Without(c, Oldest(c, Present(c), n))
        count == Cardinality(Present(c))
        enough == {n \in 0..count : Fits(Trimmed(n))}
    IN Trimmed(IF enough = {} THEN count ELSE Min(enough))

\* prune: entries that are too old or have expired.
Outdated(entry, now) ==
    entry.capturedAt + maxAge < now \/ entry.expiresAt <= now

Prune(c, now) ==
    Enforce(Without(c, {k \in Present(c) : Outdated(c.entries[k], now)}))

\* An entry within the limits of a single entry.
Small(entry) ==
    /\ entry.size.serialized <= maxEntrySerialized
    /\ entry.size.accounted <= maxEntryAccounted

\* The keys whose entries a put evicts to make room by number.
Evicted(c, key) ==
    LET others == Present(c) \ {key}
        excess == IF Cardinality(others) + 1 > maxEntries
                  THEN Cardinality(others) + 1 - maxEntries ELSE 0
    IN Oldest(c, others, excess)

\* Faulty variant of PutPruned: evictions are applied before the byte limits
\* are checked.
PutPrunedEager(c, key, entry) ==
    LET room == Without(c, Evicted(c, key))
        future == Replacing(room, key, entry)
    IN IF Fits(future) THEN [cache |-> future, outcome |-> "stored"]
                       ELSE [cache |-> room, outcome |-> "refused"]

\* put after its prune: the plan is applied only if everything will fit.
PutPruned(c, key, entry) ==
    LET future == Replacing(Without(c, Evicted(c, key)), key, entry)
    IN IF Fits(future) THEN [cache |-> future, outcome |-> "stored"]
                       ELSE [cache |-> c, outcome |-> "refused"]

-----------------------------------------------------------------------------
(* Actions                                                                 *)

NotRefused == [kind |-> "none", now |-> 0]

EmptyCache == [entries |-> [k \in CacheKey |-> NoEntry],
               serialized |-> 0, accounted |-> 0]

\* The constructor seeds what is small enough and enforces the totals.
Seeded(seeds) ==
    LET kept == {k \in CacheKey : seeds[k] # NoEntry /\ Small(seeds[k])}
        all == [entries |-> [k \in CacheKey |-> IF k \in kept THEN seeds[k]
                                                              ELSE NoEntry],
                serialized |-> 0, accounted |-> 0]
    IN Enforce([all EXCEPT !.serialized = SerializedOf(all, kept),
                           !.accounted = AccountedOf(all, kept)])

\* The seeds of an instance are any of the given ones.
CacheInit(seed) ==
    /\ \E seeds \in [CacheKey -> seed \union {NoEntry}] : cache = Seeded(seeds)
    /\ refusal = NotRefused

\* An envelope that is too big by itself is refused before the cache looks at
\* the clock.
PutOversized(entry) ==
    /\ ~Small(entry)
    /\ refusal' = [kind |-> "oversized", now |-> 0]
    /\ UNCHANGED cache

\* pruned is what the prune at now leaves.
Put(key, entry, now, pruned) ==
    /\ Small(entry)
    /\ LET put == PutPruned(pruned, key, entry)
       IN /\ cache' = put.cache
          /\ refusal' = IF put.outcome = "stored" THEN NotRefused
                        ELSE [kind |-> "put", now |-> now]

\* Everything that get finds wrong with an entry also deletes it.
Unreadable(entry, identity, now) ==
    \/ entry.form # "envelope"
    \/ entry.identity # identity
    \/ entry.expiresAt <= now

Get(key, identity, now) ==
    /\ key \in Present(cache)
    /\ IF Unreadable(cache.entries[key], identity, now)
       THEN cache' = Without(cache, {key}) ELSE UNCHANGED cache
    /\ refusal' = NotRefused

DeleteEntry(key) ==
    /\ key \in Present(cache)
    /\ cache' = Without(cache, {key})
    /\ refusal' = NotRefused

\* invalidate({profile}): text that is no JSON and records without a valid
\* key go in any case, other JSON stays; a foreign envelope goes by the key
\* inside it, which may be of any profile.
Invalidate(profile) ==
    LET Gone(k, foreign) ==
            CASE cache.entries[k].form \in {"text", "keyless"} -> TRUE
              [] cache.entries[k].form = "value" -> FALSE
              [] cache.entries[k].form = "foreign" -> foreign
              [] OTHER -> k[1] = profile
    IN \E foreign \in BOOLEAN :
         /\ cache' = Without(cache, {k \in Present(cache) : Gone(k, foreign)})
         /\ refusal' = NotRefused

ClearCache == cache' = EmptyCache /\ refusal' = NotRefused

PruneCache(now) == cache' = Prune(cache, now) /\ refusal' = NotRefused

CacheNext ==
    \/ \E entry \in Envelope : PutOversized(entry)
    \/ \E now \in CacheTime : \E pruned \in {Prune(cache, now)} :
          \E key \in CacheKey, entry \in Envelope : Put(key, entry, now, pruned)
    \/ \E key \in CacheKey, identity \in CacheIdentity, now \in CacheTime :
            Get(key, identity, now)
    \/ \E key \in CacheKey : DeleteEntry(key)
    \/ \E key \in CacheKey : Invalidate(key[1])
    \/ ClearCache
    \/ \E now \in CacheTime : PruneCache(now)

CacheSpec == CacheInit(Entry) /\ [][CacheNext]_cacheVars

-----------------------------------------------------------------------------
(* Properties                                                              *)

\* The running totals are the sums of what is held, through replacements,
\* evictions, deletions and seeds, and no limit is ever passed.
UsageIsExact ==
    /\ cache.serialized = SerializedOf(cache, Present(cache))
    /\ cache.accounted = AccountedOf(cache, Present(cache))
    /\ Fits(cache)

\* A refused put takes nothing away but what has expired by its own time: the
\* entry it was to replace stays, and no other entry makes room for it.
RefusedPutTakesNothing ==
    [][refusal'.kind # "none" =>
         cache'.entries = [k \in CacheKey |->
            IF /\ refusal'.kind = "put" /\ k \in Present(cache)
               /\ Outdated(cache.entries[k], refusal'.now)
            THEN NoEntry ELSE cache.entries[k]]]_cacheVars

=============================================================================
