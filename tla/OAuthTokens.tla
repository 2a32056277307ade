----------------------------- MODULE OAuthTokens -----------------------------
(***************************************************************************)
(* The token cache of OAuth2Client: several tasks of several clients use   *)
(* one credential, clients of different processes through a TokenStore.    *)
(* The identity provider rotates refresh tokens, so each is good for one   *)
(* refresh: the n-th token of the credential is the number n, its access   *)
(* and its refresh token together, and 0 is none.  Tokens age in the order *)
(* they were issued.                                                       *)
(*                                                                         *)
(* A client without a store is alone with its credential.                  *)
(***************************************************************************)
EXTENDS Naturals

CONSTANTS Client,     \* the OAuth2Client instances
          Caller,     \* the tasks that use them
          ClientOf,   \* the client that each task uses
          Lone,       \* the client that acts when there is no store
          MaxToken,   \* bound on the tokens issued
          MaxFaults   \* bound on lost answers, failed saves and dropped calls

ASSUME CallerAssumption == ClientOf \in [Caller -> Client] /\ Lone \in Client
ASSUME TokenAssumption == MaxToken \in Nat \ {0} /\ MaxFaults \in Nat

VARIABLES
  hasStore,   \* token_store is set
  cache,      \* OAuth2Client.token
  lock,       \* lifecycle_lock: the task that holds it, if any
  stored,     \* the token in the store
  storeLock,  \* the task that holds the guard of the store, if any
  call,       \* what each task is doing
  \* the identity provider and time
  issued,     \* the last token issued: only its refresh token is good
  expired,    \* the tokens up to this one are not fresh (token_is_fresh)
  \* history
  faults,     \* faults so far
  lost,       \* the newest token may be missing where it should be
  conflict    \* a refresh token was used that had been used before

storeVars == <<hasStore, stored, storeLock>>
authVars == <<issued, expired>>
ghostVars == <<faults, lost, conflict>>
tokenVars == <<storeVars, cache, lock, call, authVars, ghostVars>>

Token == 1..MaxToken
Op == {"get", "ifCurrent", "refresh"}
Places == {"idle", "waiting", "store", "load", "request", "answer", "save", "returned"}
\* arg is the token of refresh_access_token_if_current, base the one whose
\* refresh is under way, result what the call returns, 0 for an error.
Call == [op : Op, at : Places, arg : 0..MaxToken, base : 0..MaxToken,
         result : 0..MaxToken]
NoCall == [op |-> "get", at |-> "idle", arg |-> 0, base |-> 0, result |-> 0]

TokenTypeOK ==
  /\ hasStore \in BOOLEAN
  /\ cache \in [Client -> 0..MaxToken]
  /\ lock \in [Client -> {{}} \cup {{t} : t \in Caller}]
  /\ stored \in 0..MaxToken
  /\ storeLock \in {{}} \cup {{t} : t \in Caller}
  /\ call \in [Caller -> Call]
  /\ issued \in Token /\ expired \in 0..issued
  /\ faults \in 0..MaxFaults
  /\ lost \in BOOLEAN /\ conflict \in BOOLEAN

\* The first token is in the cache of every client and in the store.
TokenInit ==
  /\ hasStore \in BOOLEAN
  /\ cache = [c \in Client |-> IF hasStore \/ c = Lone THEN 1 ELSE 0]
  /\ stored = IF hasStore THEN 1 ELSE 0
  /\ lock = [c \in Client |-> {}] /\ storeLock = {}
  /\ call = [t \in Caller |-> NoCall]
  /\ issued = 1 /\ expired = 0
  /\ faults = 0 /\ lost = FALSE /\ conflict = FALSE

Cached(t) == cache[ClientOf[t]]
Fresh(n) == n > expired

-----------------------------------------------------------------------------
(* One call, from its start to its return.                                 *)

Goes(t, place) == call' = [call EXCEPT ![t].at = place]

Holding(t) == lock[ClientOf[t]] = {t}

\* The call returns n, and drops its guards.
Returns(t, n) ==
  /\ call' = [call EXCEPT ![t] = [NoCall EXCEPT !.at = "returned", !.result = n]]
  /\ lock' = [lock EXCEPT ![ClientOf[t]] = @ \ {t}]
  /\ storeLock' = storeLock \ {t}

\* get_valid_token returns a fresh token from the cache without the lock.
Start(t, op, arg) ==
  /\ call[t].at = "idle"
  /\ hasStore \/ ClientOf[t] = Lone
  /\ IF op = "get" /\ Cached(t) # 0 /\ Fresh(Cached(t))
     THEN Returns(t, Cached(t))
     ELSE /\ call' = [call EXCEPT ![t] = [NoCall EXCEPT !.op = op, !.at = "waiting",
                                                        !.arg = arg]]
          /\ UNCHANGED <<lock, storeLock>>
  /\ UNCHANGED <<hasStore, stored, cache, authVars, ghostVars>>

SettledNever(t) == FALSE   \* SettledInCache: the cache is not read again

\* Under the lock the cache is read again: another task may have refreshed.
SettledInCache(t) ==
  \/ call[t].op = "get" /\ Cached(t) # 0 /\ Fresh(Cached(t))
  \/ call[t].op = "ifCurrent" /\ Cached(t) # 0 /\ Cached(t) # call[t].arg

\* Nothing to start from: no token to refresh.
Unusable(t) == Cached(t) = 0 /\ (~hasStore \/ call[t].op = "ifCurrent")

TakeLock(t) ==
  /\ call[t].at = "waiting" /\ lock[ClientOf[t]] = {}
  /\ \/ /\ SettledInCache(t)
        /\ Returns(t, Cached(t))
     \/ /\ ~SettledInCache(t) /\ Unusable(t)
        /\ Returns(t, 0)
     \/ /\ ~SettledInCache(t) /\ ~Unusable(t)
        /\ lock' = [lock EXCEPT ![ClientOf[t]] = {t}]
        /\ IF hasStore THEN Goes(t, "store")
           ELSE call' = [call EXCEPT ![t].at = "request", ![t].base = Cached(t)]
        /\ UNCHANGED storeLock
  /\ UNCHANGED <<hasStore, stored, cache, authVars, ghostVars>>

\* reconcile_with_store: store.lock, which can fail.
LockStore(t) ==
  /\ call[t].at = "store"
  /\ \/ /\ storeLock = {}
        /\ storeLock' = {t}
        /\ Goes(t, "load")
        /\ UNCHANGED lock
     \/ Returns(t, 0)
  /\ UNCHANGED <<hasStore, stored, cache, authVars, ghostVars>>

\* The stored token settles the call: another holder replaced the token.
SettledInStore(t) ==
  \/ call[t].op = "get" /\ Fresh(stored)
  \/ call[t].op = "ifCurrent" /\ stored # call[t].arg

\* reconcile_with_store: store.load; the stored token takes the place of the
\* cached one, and the cache is cleared when there is none.
Load(t) ==
  /\ call[t].at = "load"
  /\ \/ Returns(t, 0) /\ UNCHANGED cache
     \/ /\ cache' = [cache EXCEPT ![ClientOf[t]] = stored]
        /\ \/ stored = 0 /\ Returns(t, 0)
           \/ stored # 0 /\ SettledInStore(t) /\ Returns(t, stored)
           \/ /\ stored # 0 /\ ~SettledInStore(t)
              /\ call' = [call EXCEPT ![t].at = "request", ![t].base = stored]
              /\ UNCHANGED <<lock, storeLock>>
  /\ UNCHANGED <<hasStore, stored, authVars, ghostVars>>

\* The provider gets the refresh request.  It replaces the token, or refuses
\* one that was used before; it can also be out of order.
Refresh(t) ==
  /\ call[t].at = "request"
  /\ \/ /\ call[t].base = issued /\ issued < MaxToken
        /\ issued' = issued + 1
        /\ Goes(t, "answer")
        /\ UNCHANGED <<lock, storeLock, conflict>>
     \/ /\ conflict' = (conflict \/ call[t].base # issued)
        /\ Returns(t, 0)
        /\ UNCHANGED issued
  /\ UNCHANGED <<hasStore, stored, cache, expired, faults, lost>>

Fault == faults < MaxFaults /\ faults' = faults + 1 /\ lost' = TRUE

\* refresh_timeout ends the wait.  A request that the provider has not handled
\* by then is as good as one it never handles: see Refresh.
TimeOut(t) ==
  /\ call[t].at = "answer"
  /\ Fault
  /\ Returns(t, 0)
  /\ UNCHANGED <<hasStore, stored, cache, authVars, conflict>>

InstallForLater(t) == cache' = cache  \* InstallNew: the cache keeps the old one

InstallNew(t) == cache' = [cache EXCEPT ![ClientOf[t]] = call[t].base + 1]

DropsBaseline == storeLock' = {}      \* KeepsBaseline: the guard goes before the save

\* The guard in the baseline lives until the save.
KeepsBaseline == storeLock' = storeLock

\* The answer arrives: install_token_locked.
Install(t) ==
  /\ call[t].at = "answer"
  /\ InstallNew(t)
  /\ IF hasStore THEN Goes(t, "save") /\ KeepsBaseline /\ UNCHANGED lock
                 ELSE Returns(t, call[t].base + 1)
  /\ UNCHANGED <<hasStore, stored, authVars, ghostVars>>

SavesBaseline(t) == call[t].base   \* Saved: writes back what it had loaded

Saved(t) == call[t].base + 1

\* refresh_and_store: store.save, whose failure is only logged.
Save(t) ==
  /\ call[t].at = "save"
  /\ \/ stored' = Saved(t) /\ UNCHANGED <<faults, lost>>
     \/ Fault /\ UNCHANGED stored
  /\ Returns(t, call[t].base + 1)
  /\ UNCHANGED <<hasStore, cache, authVars, conflict>>

\* The caller has the result.
Collect(t) ==
  /\ call[t].at = "returned"
  /\ call' = [call EXCEPT ![t] = NoCall]
  /\ UNCHANGED <<storeVars, cache, lock, authVars, ghostVars>>

\* The caller drops the call at one of its awaits.
Drop(t) ==
  /\ call[t].at \notin {"idle", "returned"}
  /\ faults < MaxFaults /\ faults' = faults + 1
  /\ lost' = (lost \/ call[t].at \in {"answer", "save"})
  /\ call' = [call EXCEPT ![t] = NoCall]
  /\ lock' = [lock EXCEPT ![ClientOf[t]] = @ \ {t}]
  /\ storeLock' = storeLock \ {t}
  /\ UNCHANGED <<hasStore, stored, cache, authVars, conflict>>

\* set_token and exchange_code install a token of a new grant, under the lock;
\* the store does not hear of it.
NewGrant(t) ==
  /\ call[t].at = "idle" /\ lock[ClientOf[t]] = {}
  /\ hasStore \/ ClientOf[t] = Lone
  /\ issued < MaxToken /\ issued' = issued + 1
  /\ cache' = [cache EXCEPT ![ClientOf[t]] = issued + 1]
  /\ IF hasStore THEN Fault ELSE UNCHANGED <<faults, lost>>
  /\ UNCHANGED <<storeVars, lock, call, expired, conflict>>

\* Time passes, and the oldest fresh token expires.
Expire == expired < issued /\ expired' = expired + 1
          /\ UNCHANGED <<storeVars, cache, lock, call, issued, ghostVars>>

\* The owner of the store removes the credential.
RemoveCredential ==
  /\ stored # 0 /\ faults < MaxFaults /\ faults' = faults + 1
  /\ stored' = 0
  /\ UNCHANGED <<hasStore, storeLock, cache, lock, call, authVars, lost, conflict>>

TokenStep(t) == \/ TakeLock(t) \/ LockStore(t) \/ Load(t) \/ Refresh(t) \/ TimeOut(t)
                \/ Install(t) \/ Save(t)

TokenNext ==
  \/ \E t \in Caller : TokenStep(t) \/ Collect(t) \/ Drop(t) \/ NewGrant(t)
  \/ \E t \in Caller, op \in Op, n \in 0..MaxToken : Start(t, op, n)
  \/ Expire \/ RemoveCredential

TokenSpec == TokenInit /\ [][TokenNext]_tokenVars

-----------------------------------------------------------------------------
(* Properties.                                                             *)

\* A task holds the guards of its client and of the store exactly from the
\* moment it got them to its return, on every error path too; the store is
\* locked through the request and the save.  So two clients never wait for
\* each other's guards.
GuardsHeld ==
  /\ \A c \in Client : lock[c] =
       {t \in Caller : ClientOf[t] = c
                       /\ call[t].at \in {"store", "load", "request", "answer", "save"}}
  /\ storeLock = {t \in Caller : hasStore
                                 /\ call[t].at \in {"load", "request", "answer", "save"}}

\* No refresh token is used twice, by two tasks or two processes, as long as
\* no answer, save or call was lost.  A provider that rotates tokens would
\* take it for theft and revoke the credential.
SpentOnce == ~lost => ~conflict

\* What a client holds never goes back to an older token of the credential, as
\* long as no answer, save or call was lost.  After a failed save it does: the
\* store still offers the spent token.
NeverOlder ==
  [][~lost' => \A c \in Client : cache'[c] >= cache[c] \/ cache'[c] = 0]_tokenVars

\* A token is refreshed for a reason that still holds when the request is
\* sent: it expired, or it is the one the caller saw refused.
RefreshIsNeeded ==
  \A t \in Caller : call[t].at = "request" =>
    /\ call[t].op = "get" => ~Fresh(call[t].base)
    /\ call[t].op = "ifCurrent" => call[t].base = call[t].arg
=============================================================================
