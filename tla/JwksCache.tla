------------------------------ MODULE JwksCache ------------------------------
(***************************************************************************)
(* The key cache of JwtValidator.  Requests of the HTTP server validate    *)
(* their bearer tokens concurrently with keys that the issuer publishes,   *)
(* rotates and retires.  A set of keys is trusted for cache_ttl; a token   *)
(* whose key id is not in the set makes the validator ask again, at most   *)
(* once per cooldown, and refresh_lock makes each fetch the only one.      *)
(*                                                                         *)
(* An option is the set of its value: {} for None.  What follows the       *)
(* choice of a key (algorithm, signature and claims) depends on the token  *)
(* and the key alone and is left out, and so is the source that is a fixed *)
(* set, which never changes.                                               *)
(***************************************************************************)
EXTENDS Naturals, FiniteSets

CONSTANTS Task,      \* the requests that validate a token
          Kid,       \* key ids
          NoKid,     \* a token whose header names no key
          TTL,       \* cache_ttl
          Cooldown,  \* unknown_kid_refresh_cooldown
          MaxTime    \* bound on the clock

ASSUME KidAssumption == NoKid \notin Kid
ASSUME TimeAssumption == TTL \in Nat \ {0} /\ Cooldown \in Nat \ {0} /\ MaxTime \in Nat

VARIABLES
  \* JwtValidator
  cached,      \* cache is Some: the next three are its fields
  keys,        \* jwk_set
  fetchedAt,   \* fetched_at
  forcedAt,    \* last_unknown_kid_refresh
  lock,        \* refresh_lock: the task that holds it, if any
  \* one validation per task
  at,          \* where it is
  kid,         \* the key id of its token
  mark,        \* the last_unknown_kid_refresh that its fetch will store
  answer,      \* the keys its fetch was answered
  result,      \* how the choice of a key ended
  \* the issuer and time
  published,   \* the keys of the issuer
  clock,
  \* history
  since,       \* when each key was last published
  began,       \* when each validation began
  usedAt,      \* fetched_at of the set each validation chose its key from
  lastForced   \* when the last refresh for an unknown key id began that succeeded

cacheVars == <<cached, keys, fetchedAt, forcedAt>>
taskVars == <<at, kid, mark, answer, result>>
issuerVars == <<published, since>>
vars == <<cacheVars, lock, taskVars, issuerVars, clock, began, usedAt, lastForced>>

Time == 0..MaxTime
Option(S) == {{}} \cup {{x} : x \in S}

TypeOK ==
  /\ cached \in BOOLEAN /\ keys \in SUBSET Kid
  /\ fetchedAt \in Time /\ forcedAt \in Option(Time)
  /\ lock \in Option(Task)
  /\ at \in [Task -> {"idle", "waitLoad", "waitKid", "fetch", "answered", "done"}]
  /\ kid \in [Task -> Kid \cup {NoKid}]
  /\ mark \in [Task -> Option(Time)]
  /\ answer \in [Task -> SUBSET Kid]
  /\ result \in [Task -> {"none", "key", "invalid", "unavailable"}]
  /\ published \in SUBSET Kid /\ clock \in Time
  /\ since \in [Kid -> Time]
  /\ began \in [Task -> Time] /\ usedAt \in [Task -> Time]
  /\ lastForced \in Option(Time)

Init ==
  /\ cached = FALSE /\ keys = {} /\ fetchedAt = 0 /\ forcedAt = {}
  /\ lock = {}
  /\ at = [t \in Task |-> "idle"] /\ kid = [t \in Task |-> NoKid]
  /\ mark = [t \in Task |-> {}] /\ answer = [t \in Task |-> {}]
  /\ result = [t \in Task |-> "none"]
  /\ published \in SUBSET Kid /\ clock = 0
  /\ since = [k \in Kid |-> 0]
  /\ began = [t \in Task |-> 0] /\ usedAt = [t \in Task |-> 0]
  /\ lastForced = {}

-----------------------------------------------------------------------------
(* Deviations: plausible mistakes, which no specification uses.            *)

\* cached_jwk_set that forgets the lifetime of the set.
FreshForEver == cached

\* A cooldown that is checked as if the refresh were always long ago.
CoolingNever == FALSE

-----------------------------------------------------------------------------

\* cached_jwk_set returns a set.
Fresh == cached /\ clock < fetchedAt + TTL
\* The last refresh for an unknown key id is within the cooldown.
Cooling == \E last \in forcedAt : clock < last + Cooldown

Goes(t, place) == at' = [at EXCEPT ![t] = place]
Ends(t, how) == Goes(t, "done") /\ result' = [result EXCEPT ![t] = how]

-----------------------------------------------------------------------------
(* Choosing a key from a set that was fetched at the time when.            *)

Has(k, set) == k \in set \/ (k = NoKid /\ Cardinality(set) = 1)

\* The set is the one of load_jwk_set: a key id it lacks is asked for.
Chooses(t, set, when) ==
  /\ usedAt' = [usedAt EXCEPT ![t] = when]
  /\ \/ Has(kid'[t], set) /\ Ends(t, "key")
     \/ ~Has(kid'[t], set) /\ kid'[t] = NoKid /\ Ends(t, "invalid")
     \/ ~Has(kid'[t], set) /\ kid'[t] # NoKid /\ Goes(t, "waitKid") /\ UNCHANGED result

\* The set is the one of refresh_unknown_kid: there is no other to ask.
Settles(t, set, when) ==
  /\ usedAt' = [usedAt EXCEPT ![t] = when]
  /\ Ends(t, IF Has(kid[t], set) THEN "key" ELSE "invalid")

-----------------------------------------------------------------------------
(* Deviations: plausible mistakes, which no specification uses.            *)

\* Store that dates the refresh by its end.
StoreDatesTheEnd(t) ==
  /\ at[t] = "answered" /\ UNCHANGED kid
  /\ cached' = TRUE /\ keys' = answer[t] /\ fetchedAt' = clock
  /\ forcedAt' = IF mark[t] = {} THEN {} ELSE {clock}
  /\ lock' = {}
  /\ \/ mark[t] = {} /\ Chooses(t, answer[t], clock) /\ UNCHANGED lastForced
     \/ mark[t] # {} /\ Settles(t, answer[t], clock) /\ lastForced' = mark[t]
  /\ mark' = [mark EXCEPT ![t] = {}] /\ answer' = [answer EXCEPT ![t] = {}]
  /\ UNCHANGED <<issuerVars, clock, began>>

\* LockForLoad that does not read the cache again.
LockForLoadOnce(t) ==
  /\ at[t] = "waitLoad" /\ lock = {}
  /\ Goes(t, "fetch") /\ lock' = {t}
  /\ UNCHANGED <<cacheVars, result, usedAt, kid, mark, answer, issuerVars, clock, began, lastForced>>

-----------------------------------------------------------------------------
(* One validation.                                                         *)

\* A token names its key, and the first read of the cache follows at once.
Begin(t) ==
  /\ at[t] = "idle"
  /\ \E k \in Kid \cup {NoKid} : kid' = [kid EXCEPT ![t] = k]
  /\ began' = [began EXCEPT ![t] = clock]
  /\ \/ Fresh /\ Chooses(t, keys, fetchedAt)
     \/ ~Fresh /\ Goes(t, "waitLoad") /\ UNCHANGED <<result, usedAt>>
  /\ UNCHANGED <<cacheVars, lock, mark, answer, issuerVars, clock, lastForced>>

\* The lock is taken and the cache read again: another task may have filled it.
LockForLoad(t) ==
  /\ at[t] = "waitLoad" /\ lock = {} /\ UNCHANGED kid
  /\ \/ Fresh /\ Chooses(t, keys, fetchedAt) /\ UNCHANGED lock
     \/ ~Fresh /\ Goes(t, "fetch") /\ lock' = {t} /\ UNCHANGED <<result, usedAt>>
  /\ UNCHANGED <<cacheVars, mark, answer, issuerVars, clock, began, lastForced>>

\* A refresh for an unknown key id is dated by its start, as the fetch begins.
LockForKid(t) ==
  /\ at[t] = "waitKid" /\ lock = {}
  /\ \/ /\ cached /\ (kid[t] \in keys \/ Cooling)
        /\ Settles(t, keys, fetchedAt)
        /\ UNCHANGED <<lock, mark>>
     \/ /\ ~(cached /\ (kid[t] \in keys \/ Cooling))
        /\ Goes(t, "fetch") /\ lock' = {t}
        /\ mark' = [mark EXCEPT ![t] = {clock}]
        /\ UNCHANGED <<result, usedAt>>
  /\ UNCHANGED <<cacheVars, kid, answer, issuerVars, clock, began, lastForced>>

\* The endpoint answers with the keys of the moment; the transfer takes time.
Answered(t) ==
  /\ at[t] = "fetch"
  /\ Goes(t, "answered") /\ answer' = [answer EXCEPT ![t] = published]
  /\ UNCHANGED <<cacheVars, lock, kid, mark, result, issuerVars, clock, began, usedAt, lastForced>>

FetchFails(t) ==
  /\ at[t] \in {"fetch", "answered"}
  /\ Ends(t, "unavailable") /\ lock' = {}
  /\ mark' = [mark EXCEPT ![t] = {}] /\ answer' = [answer EXCEPT ![t] = {}]
  /\ UNCHANGED <<cacheVars, kid, issuerVars, clock, began, usedAt, lastForced>>

\* The end of store_remote_jwk_set; the lock is released with the return.
Store(t) ==
  /\ at[t] = "answered" /\ UNCHANGED kid
  /\ cached' = TRUE /\ keys' = answer[t] /\ fetchedAt' = clock /\ forcedAt' = mark[t]
  /\ lock' = {}
  /\ \/ mark[t] = {} /\ Chooses(t, answer[t], clock) /\ UNCHANGED lastForced
     \/ mark[t] # {} /\ Settles(t, answer[t], clock) /\ lastForced' = mark[t]
  /\ mark' = [mark EXCEPT ![t] = {}] /\ answer' = [answer EXCEPT ![t] = {}]
  /\ UNCHANGED <<issuerVars, clock, began>>

\* The request is gone (its peer hung up) or its answer is returned.
Leave(t) ==
  /\ at[t] # "idle"
  /\ Goes(t, "idle") /\ lock' = lock \ {t}
  /\ kid' = [kid EXCEPT ![t] = NoKid] /\ result' = [result EXCEPT ![t] = "none"]
  /\ mark' = [mark EXCEPT ![t] = {}] /\ answer' = [answer EXCEPT ![t] = {}]
  /\ began' = [began EXCEPT ![t] = 0] /\ usedAt' = [usedAt EXCEPT ![t] = 0]
  /\ UNCHANGED <<cacheVars, issuerVars, clock, lastForced>>

-----------------------------------------------------------------------------
(* The issuer, time and the whole.                                         *)

Publish(k) ==
  /\ k \notin published
  /\ published' = published \cup {k} /\ since' = [since EXCEPT ![k] = clock]
  /\ UNCHANGED <<cacheVars, lock, taskVars, clock, began, usedAt, lastForced>>

Retire(k) ==
  /\ k \in published
  /\ published' = published \ {k} /\ since' = [since EXCEPT ![k] = 0]
  /\ UNCHANGED <<cacheVars, lock, taskVars, clock, began, usedAt, lastForced>>

Tick ==
  /\ clock < MaxTime /\ clock' = clock + 1
  /\ UNCHANGED <<cacheVars, lock, taskVars, issuerVars, began, usedAt, lastForced>>

Validate(t) ==
  \/ Begin(t) \/ LockForLoad(t) \/ LockForKid(t)
  \/ Answered(t) \/ FetchFails(t) \/ Store(t) \/ Leave(t)

Next == (\E t \in Task : Validate(t)) \/ (\E k \in Kid : Publish(k) \/ Retire(k)) \/ Tick

Spec == Init /\ [][Next]_vars

-----------------------------------------------------------------------------
(* Properties.                                                             *)

\* A key is taken from a set that was fetched at most one lifetime before the
\* token came, however long the validation then waited for the lock: a key
\* that the issuer retired is not trusted for longer.
KeysAreRecent == \A t \in Task : result[t] = "key" => began[t] < usedAt[t] + TTL

\* A token is invalid for want of its key only if the issuer has not published
\* that key for a whole cooldown before the token came: neither the cache, the
\* cooldown nor a fetch of another task hides a key for longer.
PublishedKeysAreFound ==
  \A t \in Task, k \in Kid :
    result[t] = "invalid" /\ kid[t] = k /\ k \in published
      => began[t] < since[k] + Cooldown

\* Successful refreshes for unknown key ids begin at least a cooldown apart,
\* whoever asks for them, as long as a set outlives the cooldown: the regular
\* refresh forgets the last one.
ForcedApart ==
  [][\A t \in Task : Cooldown <= TTL /\ at[t] = "waitKid" /\ at'[t] = "fetch"
       => \A last \in lastForced : last + Cooldown <= clock]_vars

\* A fetched set replaces only one that would not do when it arrives: it has
\* outlived its time, or the key id of the token was not in it.  Concurrent
\* misses do not stampede.
ReplacesWithReason ==
  [][\A t \in Task : at[t] = "answered" /\ at'[t] # "answered" /\ cacheVars' # cacheVars
       => ~Fresh \/ kid[t] \notin keys \cup {NoKid}]_vars
==============================================================================
