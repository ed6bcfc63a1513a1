---------------------------- MODULE AccountCache ----------------------------
(***************************************************************************)
(* accountQuery (modules/account.go) over the LRU of utils/cache: the last *)
(* sequence handed out for each address.  Each Get, Set and Remove is      *)
(* atomic in the cache library; QueryAndRefreshAccount is a Get followed   *)
(* by a Set, and nothing keeps other goroutines out in between, so the two *)
(* halves are separate operators here.                                     *)
(***************************************************************************)
EXTENDS Node

CONSTANTS Cached,  \* cfg.Cached: FALSE disables the cache
          None     \* no entry

ASSUME CacheAssumption == Cached \in BOOLEAN /\ None \notin Nat

VARIABLE cache    \* cache[a]: the field S of the entry of address a

CacheTypeOK == cache \in [Accounts -> Nat \cup {None}]

NewCache == cache = [a \in Accounts |-> None]

\* Get: an error when there is no entry, and always when disabled.
Hit(a) == Cached /\ cache[a] # None

\* Mutant: the cached sequence is used a second time.
SameCached(a) == cache[a]

\* The sequence QueryAndRefreshAccount computes from a hit.
NextCached(a) == cache[a] + 1

\* SetWithExpire does nothing when the cache is disabled.
saveAccount(a, s) ==
    cache' = IF Cached THEN [cache EXCEPT ![a] = s] ELSE cache

removeCache(a) ==
    cache' = IF Cached THEN [cache EXCEPT ![a] = None] ELSE cache

\* Expiry after cacheExpirePeriod, or eviction by the capacity of the LRU,
\* which token and address entries share with the accounts.
CacheDrops(a) == /\ cache[a] # None
                 /\ cache' = [cache EXCEPT ![a] = None]
=============================================================================
