--------------------------- MODULE HttpPostsProofs ---------------------------
(***************************************************************************)
(* What OAuthTokens guarantees for any number of clients, tasks, tokens    *)
(* and faults, and that the posts of HttpPosts use it as it allows.  The   *)
(* inductive invariant says where the newest token is: a task that asks    *)
(* the provider for the next one started from the newest, and the store    *)
(* has the newest, or is empty, whenever no task is about to save another. *)
(* What the posts do to the OAuth clients is a behaviour of OAuthTokens,   *)
(* and a second POST carries a newer token than the first.                 *)
(***************************************************************************)
EXTENDS HttpPosts, TLAPS

Sending == {"request", "answer", "save"}
Changing == {"answer", "save"}

\* What holds whatever was lost.
Bounds ==
  /\ stored <= issued /\ (~hasStore => stored = 0)
  /\ \A c \in Client : cache[c] <= issued
  /\ \A t \in Caller :
       /\ call[t].at \in Sending => call[t].base \in 1..issued
       /\ call[t].at \in Changing => call[t].base < issued
       /\ call[t].at \in {"store", "load", "save"} => hasStore
       /\ ~hasStore /\ call[t].at \notin {"idle", "returned"} => ClientOf[t] = Lone

\* A refresh starts from the newest token, and the next one is on its way
\* to the store until it is there.
FromNewest(t) ==
  /\ call[t].at = "request" => call[t].base = issued
  /\ call[t].at \in Changing => call[t].base + 1 = issued /\ stored \in {0, call[t].base}
  /\ call[t].at = "save" => cache[ClientOf[t]] = issued

NewestIsKept == IF hasStore THEN stored \in {0, issued} ELSE cache[Lone] = issued

Chain ==
  /\ ~conflict
  /\ \A t \in Caller : FromNewest(t)
  /\ NewestIsKept \/ \E t \in Caller : call[t].at \in Changing

IInv == TokenTypeOK /\ GuardsHeld /\ Bounds /\ RefreshIsNeeded /\ (~lost => Chain)

-----------------------------------------------------------------------------
\* The guards keep all but one task from the provider: with a store it is the
\* guard of the store, without one the lock of the only client.
LEMMA OneRefresh ==
  ASSUME TokenTypeOK, GuardsHeld, Bounds, NEW t \in Caller, NEW u \in Caller,
         call[t].at \in Sending, call[u].at \in Sending
  PROVE  t = u
<1>1. CASE hasStore
  <2>1. t \in storeLock /\ u \in storeLock
    BY <1>1 DEF GuardsHeld, Sending
  <2> QED BY <2>1 DEF TokenTypeOK
<1>2. CASE ~hasStore
  <2>1. ClientOf[t] = Lone /\ ClientOf[u] = Lone /\ Lone \in Client
    BY <1>2, CallerAssumption DEF Bounds, Sending
  <2>2. t \in lock[Lone] /\ u \in lock[Lone]
    BY <2>1 DEF GuardsHeld, Sending
  <2> QED BY <2>1, <2>2 DEF TokenTypeOK
<1> QED BY <1>1, <1>2

LEMMA NoCallIsIdle ==
  NoCall \in Call /\ NoCall.at = "idle" /\ NoCall.base = 0 /\ NoCall.result = 0
BY TokenAssumption DEF NoCall, Call, Op, Places

\* The types in two parts: the calls with the guards they hold, and the rest.
CallsTyped ==
  /\ lock \in [Client -> {{}} \cup {{t} : t \in Caller}]
  /\ storeLock \in {{}} \cup {{t} : t \in Caller}
  /\ call \in [Caller -> Call]

TokensTyped ==
  /\ hasStore \in BOOLEAN
  /\ cache \in [Client -> 0..MaxToken]
  /\ stored \in 0..MaxToken
  /\ issued \in Token /\ expired \in 0..issued
  /\ faults \in 0..MaxFaults
  /\ lost \in BOOLEAN /\ conflict \in BOOLEAN

LEMMA TypeParts == TokenTypeOK <=> CallsTyped /\ TokensTyped
BY DEF TokenTypeOK, CallsTyped, TokensTyped

LEMMA InitInv == TokenInit => IInv
<1> SUFFICES ASSUME TokenInit PROVE IInv
  OBVIOUS
<1> USE CallerAssumption, TokenAssumption DEF TokenInit
<1>0. NoCall \in Call /\ NoCall.at = "idle"
  BY NoCallIsIdle
<1>1. TokenTypeOK
  <2>1. CallsTyped BY <1>0 DEF CallsTyped
  <2>2. cache \in [Client -> 0..MaxToken] OBVIOUS
  <2>3. lost \in BOOLEAN /\ conflict \in BOOLEAN /\ hasStore \in BOOLEAN OBVIOUS
  <2>4. TokensTyped BY <2>2, <2>3 DEF TokensTyped, Token
  <2> QED BY <2>1, <2>4, TypeParts
<1>2. GuardsHeld
  BY <1>0 DEF GuardsHeld
<1>3. Bounds /\ RefreshIsNeeded /\ Chain
  <2>1. \A t \in Caller : call[t].at = "idle"
    BY <1>0
  <2>2. Bounds
    BY <2>1 DEF Bounds, Sending, Changing
  <2>3. Chain /\ RefreshIsNeeded
    BY <2>1 DEF RefreshIsNeeded, Chain, FromNewest, NewestIsKept, Changing
  <2> QED BY <2>2, <2>3
<1> QED BY <1>1, <1>2, <1>3 DEF IInv

-----------------------------------------------------------------------------
\* The token that a refresh brings is within the bound.
LEMMA NextToken ==
  ASSUME TokenTypeOK, Bounds, NEW t \in Caller, call[t].at \in Changing
  PROVE  call[t].base + 1 \in 1..MaxToken
BY TokenAssumption DEF TokenTypeOK, Bounds, Changing, Sending, Token, Call

LEMMA ReturnsTyped ==
  ASSUME CallsTyped, NEW t \in Caller, NEW n \in 0..MaxToken, Returns(t, n)
  PROVE  CallsTyped'
<1>1. [NoCall EXCEPT !.at = "returned", !.result = n] \in Call
  BY NoCallIsIdle DEF Call, Places
<1>2. call' \in [Caller -> Call]
  BY <1>1 DEF CallsTyped, Returns
<1>3. ASSUME NEW G \in {{}} \cup {{u} : u \in Caller}
      PROVE  G \ {t} \in {{}} \cup {{u} : u \in Caller}
  <2>1. G \ {t} = {} \/ G \ {t} = G
    OBVIOUS
  <2> QED BY <2>1
<1> QED BY <1>2, <1>3, CallerAssumption DEF CallsTyped, Returns

\* A call that goes on, its base changed or not.
LEMMA GoesTyped ==
  ASSUME CallsTyped, NEW t \in Caller, NEW place \in Places,
         \/ Goes(t, place)
         \/ \E n \in 0..MaxToken : call' = [call EXCEPT ![t].at = place, ![t].base = n]
  PROVE  call' \in [Caller -> Call]
BY DEF CallsTyped, Call, Goes

LEMMA CallsStep ==
  ASSUME CallsTyped, TokensTyped, Bounds, TokenNext
  PROVE  CallsTyped'
<1> USE CallerAssumption, TokenAssumption
<1>a. TokenTypeOK BY TypeParts
<1>1. ASSUME NEW t \in Caller, NEW op \in Op, NEW n \in 0..MaxToken, Start(t, op, n)
      PROVE  CallsTyped'
  <2>1. CASE Returns(t, Cached(t))
    BY <2>1, ReturnsTyped DEF TokensTyped, Cached
  <2>2. CASE ~Returns(t, Cached(t))
    <3>1. [NoCall EXCEPT !.op = op, !.at = "waiting", !.arg = n] \in Call
      BY <1>1, NoCallIsIdle DEF Call, Places
    <3> QED BY <1>1, <2>2, <3>1 DEF Start, CallsTyped
  <2> QED BY <2>1, <2>2
<1>2. ASSUME NEW t \in Caller, TakeLock(t) PROVE CallsTyped'
  <2>1. Cached(t) \in 0..MaxToken BY DEF TokensTyped, Cached
  <2>2. CASE Returns(t, Cached(t)) \/ Returns(t, 0)
    BY <2>1, <2>2, ReturnsTyped
  <2>3. CASE ~(Returns(t, Cached(t)) \/ Returns(t, 0))
    <3>1. call' \in [Caller -> Call]
      BY <1>2, <2>1, <2>3, GoesTyped DEF TakeLock, Places
    <3> QED BY <1>2, <2>3, <3>1 DEF TakeLock, CallsTyped
  <2> QED BY <2>2, <2>3
<1>3. ASSUME NEW t \in Caller, LockStore(t) PROVE CallsTyped'
  <2>1. CASE Returns(t, 0)
    BY <2>1, ReturnsTyped
  <2>2. CASE ~Returns(t, 0)
    <3>1. call' \in [Caller -> Call]
      BY <1>3, <2>2, GoesTyped DEF LockStore, Places
    <3> QED BY <1>3, <2>2, <3>1 DEF LockStore, CallsTyped
  <2> QED BY <2>1, <2>2
<1>4. ASSUME NEW t \in Caller, Load(t) PROVE CallsTyped'
  <2>1. CASE Returns(t, 0) \/ Returns(t, stored)
    BY <2>1, ReturnsTyped DEF TokensTyped
  <2>2. CASE ~(Returns(t, 0) \/ Returns(t, stored))
    <3>1. call' \in [Caller -> Call]
      BY <1>4, <2>2, GoesTyped DEF Load, Places, TokensTyped
    <3> QED BY <1>4, <2>2, <3>1 DEF Load, CallsTyped
  <2> QED BY <2>1, <2>2
<1>5. ASSUME NEW t \in Caller, Refresh(t) PROVE CallsTyped'
  <2>1. CASE Returns(t, 0)
    BY <2>1, ReturnsTyped
  <2>2. CASE ~Returns(t, 0)
    <3>1. call' \in [Caller -> Call]
      BY <1>5, <2>2, GoesTyped DEF Refresh, Places
    <3> QED BY <1>5, <2>2, <3>1 DEF Refresh, CallsTyped
  <2> QED BY <2>1, <2>2
<1>6. ASSUME NEW t \in Caller, TimeOut(t) PROVE CallsTyped'
  BY <1>6, ReturnsTyped DEF TimeOut
<1>7. ASSUME NEW t \in Caller, Install(t) PROVE CallsTyped'
  <2>1. call[t].base + 1 \in 0..MaxToken
    BY <1>7, <1>a, NextToken DEF Install, Changing
  <2>2. CASE Returns(t, call[t].base + 1)
    BY <2>1, <2>2, ReturnsTyped
  <2>3. CASE ~Returns(t, call[t].base + 1)
    <3>1. call' \in [Caller -> Call]
      BY <1>7, <2>3, GoesTyped DEF Install, Places
    <3> QED BY <1>7, <2>3, <3>1 DEF Install, KeepsBaseline, CallsTyped
  <2> QED BY <2>2, <2>3
<1>8. ASSUME NEW t \in Caller, Save(t) PROVE CallsTyped'
  BY <1>8, <1>a, NextToken, ReturnsTyped DEF Save, Changing
<1>9. ASSUME NEW t \in Caller, Collect(t) PROVE CallsTyped'
  BY <1>9, NoCallIsIdle DEF Collect, CallsTyped, storeVars
<1>10. ASSUME NEW t \in Caller, Drop(t) PROVE CallsTyped'
  <2>1. ASSUME NEW G \in {{}} \cup {{u} : u \in Caller}
        PROVE  G \ {t} \in {{}} \cup {{u} : u \in Caller}
    <3>1. G \ {t} = {} \/ G \ {t} = G
      OBVIOUS
    <3> QED BY <3>1
  <2> QED BY <1>10, <2>1, NoCallIsIdle DEF Drop, CallsTyped
<1>11. ASSUME NEW t \in Caller, NewGrant(t) PROVE CallsTyped'
  BY <1>11 DEF NewGrant, CallsTyped, storeVars
<1>12. ASSUME Expire \/ RemoveCredential PROVE CallsTyped'
  BY <1>12 DEF Expire, RemoveCredential, CallsTyped, storeVars
<1> QED
  BY <1>1, <1>2, <1>3, <1>4, <1>5, <1>6, <1>7, <1>8, <1>9, <1>10, <1>11, <1>12
     DEF TokenNext, TokenStep

LEMMA TokensStep ==
  ASSUME CallsTyped, TokensTyped, Bounds, TokenNext
  PROVE  TokensTyped'
<1> USE CallerAssumption, TokenAssumption DEF TokensTyped, authVars, ghostVars, storeVars
<1>a. TokenTypeOK BY TypeParts
<1>1. ASSUME NEW t \in Caller, NEW op \in Op, NEW n \in 0..MaxToken, Start(t, op, n)
      PROVE  TokensTyped'
  BY <1>1 DEF Start
<1>2. ASSUME NEW t \in Caller, TakeLock(t) \/ LockStore(t) \/ Load(t) PROVE TokensTyped'
  BY <1>2 DEF TakeLock, LockStore, Load
<1>3. ASSUME NEW t \in Caller, Refresh(t) PROVE TokensTyped'
  <2>1. conflict' \in BOOLEAN
    BY <1>3 DEF Refresh
  <2> QED BY <1>3, <2>1 DEF Refresh, Token
<1>4. ASSUME NEW t \in Caller, TimeOut(t) PROVE TokensTyped'
  BY <1>4 DEF TimeOut, Fault
<1>5. ASSUME NEW t \in Caller, Install(t) PROVE TokensTyped'
  BY <1>5, <1>a, NextToken DEF Install, InstallNew, Changing
<1>6. ASSUME NEW t \in Caller, Save(t) PROVE TokensTyped'
  <2>1. lost' \in BOOLEAN /\ conflict' \in BOOLEAN
    BY <1>6 DEF Save, Fault
  <2>2. stored' \in 0..MaxToken
    BY <1>6, <1>a, NextToken DEF Save, Saved, Changing
  <2> QED BY <1>6, <2>1, <2>2 DEF Save, Fault
<1>7. ASSUME NEW t \in Caller, Collect(t) PROVE TokensTyped'
  BY <1>7 DEF Collect
<1>8. ASSUME NEW t \in Caller, Drop(t) PROVE TokensTyped'
  <2>1. lost' \in BOOLEAN
    BY <1>8 DEF Drop
  <2> QED BY <1>8, <2>1 DEF Drop
<1>9. ASSUME NEW t \in Caller, NewGrant(t) PROVE TokensTyped'
  <2>1. lost' \in BOOLEAN
    BY <1>9 DEF NewGrant, Fault
  <2> QED BY <1>9, <2>1 DEF NewGrant, Fault, Token
<1>10. ASSUME Expire \/ RemoveCredential PROVE TokensTyped'
  BY <1>10 DEF Expire, RemoveCredential, Token
<1> QED
  BY <1>1, <1>2, <1>3, <1>4, <1>5, <1>6, <1>7, <1>8, <1>9, <1>10 DEF TokenNext, TokenStep

-----------------------------------------------------------------------------
\* A call that returns has nothing under way.
LEMMA ReturnedAt ==
  ASSUME CallsTyped, NEW t \in Caller, NEW n, Returns(t, n)
  PROVE  /\ call'[t].at = "returned"
         /\ \A u \in Caller \ {t} : call'[u] = call[u]
<1>1. [NoCall EXCEPT !.at = "returned", !.result = n].at = "returned"
  BY NoCallIsIdle DEF Call
<1> QED BY <1>1 DEF Returns, CallsTyped

LEMMA GoesAt ==
  ASSUME CallsTyped, NEW t \in Caller, NEW place, Goes(t, place)
  PROVE  /\ call'[t].at = place /\ call'[t].base = call[t].base
         /\ call'[t].op = call[t].op /\ call'[t].arg = call[t].arg
         /\ \A u \in Caller \ {t} : call'[u] = call[u]
BY DEF Goes, CallsTyped, Call

LEMMA StartedAt ==
  ASSUME CallsTyped, NEW t \in Caller, NEW op, NEW n, Start(t, op, n), ~Returns(t, Cached(t))
  PROVE  /\ call'[t].at = "waiting"
         /\ \A u \in Caller \ {t} : call'[u] = call[u]
<1>1. [NoCall EXCEPT !.op = op, !.at = "waiting", !.arg = n].at = "waiting"
  BY NoCallIsIdle DEF Call
<1> QED BY <1>1 DEF Start, CallsTyped

\* GuardsHeld for one task at a time.
Held == {"store", "load", "request", "answer", "save"}

GuardsOf(t) ==
  /\ \A c \in Client : t \in lock[c] <=> ClientOf[t] = c /\ call[t].at \in Held
  /\ t \in storeLock <=> hasStore /\ call[t].at \in Held \ {"store"}

LEMMA GuardsPointwise ==
  ASSUME CallsTyped PROVE GuardsHeld <=> \A t \in Caller : GuardsOf(t)
<1>1. \A c \in Client : lock[c] \subseteq Caller
  BY DEF CallsTyped
<1>2. storeLock \subseteq Caller
  BY DEF CallsTyped
<1>3. ASSUME GuardsHeld, NEW t \in Caller PROVE GuardsOf(t)
  BY <1>3 DEF GuardsHeld, GuardsOf, Held
<1>4. ASSUME \A t \in Caller : GuardsOf(t) PROVE GuardsHeld
  BY <1>1, <1>2, <1>4 DEF GuardsHeld, GuardsOf, Held
<1> QED BY <1>3, <1>4

LEMMA GuardsPointwiseNext ==
  ASSUME CallsTyped', \A t \in Caller : GuardsOf(t)' PROVE GuardsHeld'
<1>1. \A c \in Client : lock'[c] \subseteq Caller
  BY DEF CallsTyped
<1>2. storeLock' \subseteq Caller
  BY DEF CallsTyped
<1> QED BY <1>1, <1>2 DEF GuardsHeld, GuardsOf, Held

LEMMA ReturnsGuards ==
  ASSUME CallsTyped, \A u \in Caller : GuardsOf(u),
         NEW t \in Caller, NEW n, Returns(t, n), UNCHANGED hasStore
  PROVE  \A u \in Caller : GuardsOf(u)'
BY CallerAssumption DEF CallsTyped, GuardsOf, Returns, Held, Call

LEMMA GuardsStep ==
  ASSUME CallsTyped, CallsTyped', GuardsHeld, Bounds, TokenNext
  PROVE  GuardsHeld'
<1> USE CallerAssumption
<1>a. \A u \in Caller : GuardsOf(u)
  BY GuardsPointwise
<1> SUFFICES \A u \in Caller : GuardsOf(u)'
  BY GuardsPointwiseNext
<1> USE DEF CallsTyped, Call, GuardsOf, Held
<1>1. ASSUME NEW t \in Caller, NEW op \in Op, NEW n \in 0..MaxToken, Start(t, op, n)
      PROVE  \A u \in Caller : GuardsOf(u)'
  <2>1. CASE Returns(t, Cached(t))
    BY <1>a, <1>1, <2>1, ReturnsGuards DEF Start
  <2>2. CASE ~Returns(t, Cached(t))
    <3>1. call'[t].at = "waiting" /\ \A u \in Caller \ {t} : call'[u] = call[u]
      BY <1>1, <2>2, StartedAt
    <3> QED BY <1>a, <1>1, <2>2, <3>1 DEF Start
  <2> QED BY <2>1, <2>2
<1>2. ASSUME NEW t \in Caller, TakeLock(t) PROVE \A u \in Caller : GuardsOf(u)'
  <2>1. CASE Returns(t, Cached(t)) \/ Returns(t, 0)
    BY <1>a, <1>2, <2>1, ReturnsGuards DEF TakeLock
  <2>2. CASE ~(Returns(t, Cached(t)) \/ Returns(t, 0))
    <3>1. /\ call'[t].at = IF hasStore THEN "store" ELSE "request"
          /\ \A u \in Caller \ {t} : call'[u] = call[u]
      BY <1>2, <2>2 DEF TakeLock, Goes
    <3>2. /\ lock' = [lock EXCEPT ![ClientOf[t]] = {t}] /\ lock[ClientOf[t]] = {}
          /\ UNCHANGED <<storeLock, hasStore>> /\ call[t].at = "waiting"
      BY <1>2, <2>2 DEF TakeLock
    <3>3. \A c \in Client, u \in Caller :
            u \in lock'[c] <=> IF c = ClientOf[t] THEN u = t ELSE u \in lock[c]
      BY <3>2
    <3>4. \A u \in Caller : u \notin lock[ClientOf[t]]
      BY <3>2
    <3>5. ASSUME NEW u \in Caller PROVE GuardsOf(u)'
      <4>1. CASE u = t
        BY <1>a, <3>1, <3>2, <3>3, <4>1
      <4>2. CASE u # t
        BY <1>a, <3>1, <3>2, <3>3, <3>4, <4>2
      <4> QED BY <4>1, <4>2
    <3> QED BY <3>5
  <2> QED BY <2>1, <2>2
<1>3. ASSUME NEW t \in Caller, LockStore(t) PROVE \A u \in Caller : GuardsOf(u)'
  <2>1. CASE Returns(t, 0)
    BY <1>a, <1>3, <2>1, ReturnsGuards DEF LockStore
  <2>2. CASE ~Returns(t, 0)
    BY <1>a, <1>3, <2>2 DEF LockStore, Goes, Bounds
  <2> QED BY <2>1, <2>2
<1>4. ASSUME NEW t \in Caller, Load(t) PROVE \A u \in Caller : GuardsOf(u)'
  <2>1. CASE Returns(t, 0) \/ Returns(t, stored)
    BY <1>a, <1>4, <2>1, ReturnsGuards DEF Load
  <2>2. CASE ~(Returns(t, 0) \/ Returns(t, stored))
    <3>1. call'[t].at = "request" /\ \A u \in Caller \ {t} : call'[u] = call[u]
      BY <1>4, <2>2 DEF Load
    <3> QED BY <1>a, <1>4, <2>2, <3>1 DEF Load
  <2> QED BY <2>1, <2>2
<1>5. ASSUME NEW t \in Caller, Refresh(t) PROVE \A u \in Caller : GuardsOf(u)'
  <2>1. CASE Returns(t, 0)
    BY <1>a, <1>5, <2>1, ReturnsGuards DEF Refresh
  <2>2. CASE ~Returns(t, 0)
    BY <1>a, <1>5, <2>2 DEF Refresh, Goes
  <2> QED BY <2>1, <2>2
<1>6. ASSUME NEW t \in Caller, TimeOut(t) \/ Save(t) PROVE \A u \in Caller : GuardsOf(u)'
  BY <1>a, <1>6, ReturnsGuards DEF TimeOut, Save
<1>7. ASSUME NEW t \in Caller, Install(t) PROVE \A u \in Caller : GuardsOf(u)'
  <2>1. CASE Returns(t, call[t].base + 1)
    BY <1>a, <1>7, <2>1, ReturnsGuards DEF Install
  <2>2. CASE ~Returns(t, call[t].base + 1)
    BY <1>a, <1>7, <2>2 DEF Install, KeepsBaseline, Goes
  <2> QED BY <2>1, <2>2
<1>8. ASSUME NEW t \in Caller, Collect(t) PROVE \A u \in Caller : GuardsOf(u)'
  BY <1>a, <1>8, NoCallIsIdle DEF Collect, storeVars
<1>9. ASSUME NEW t \in Caller, Drop(t) PROVE \A u \in Caller : GuardsOf(u)'
  BY <1>a, <1>9, NoCallIsIdle DEF Drop
<1>10. ASSUME NEW t \in Caller, NewGrant(t) PROVE \A u \in Caller : GuardsOf(u)'
  BY <1>a, <1>10 DEF NewGrant, storeVars
<1>11. ASSUME Expire \/ RemoveCredential PROVE \A u \in Caller : GuardsOf(u)'
  BY <1>a, <1>11 DEF Expire, RemoveCredential, storeVars
<1> QED
  BY <1>1, <1>2, <1>3, <1>4, <1>5, <1>6, <1>7, <1>8, <1>9, <1>10, <1>11
     DEF TokenNext, TokenStep

-----------------------------------------------------------------------------
LEMMA BoundsStep ==
  ASSUME CallsTyped, TokensTyped, GuardsHeld, Bounds, TokenNext
  PROVE  Bounds'
<1> USE CallerAssumption, TokenAssumption
        DEF Bounds, TokensTyped, Sending, Changing, authVars, ghostVars, storeVars
<1>1. ASSUME NEW t \in Caller, NEW op \in Op, NEW n \in 0..MaxToken, Start(t, op, n)
      PROVE  Bounds'
  <2>1. CASE Returns(t, Cached(t))
    BY <1>1, <2>1, ReturnedAt DEF Start
  <2>2. CASE ~Returns(t, Cached(t))
    <3>1. call'[t].at = "waiting" /\ \A u \in Caller \ {t} : call'[u] = call[u]
      BY <1>1, <2>2, StartedAt
    <3> QED BY <1>1, <2>2, <3>1 DEF Start
  <2> QED BY <2>1, <2>2
<1>2. ASSUME NEW t \in Caller, TakeLock(t) PROVE Bounds'
  <2>1. CASE Returns(t, Cached(t)) \/ Returns(t, 0)
    BY <1>2, <2>1, ReturnedAt DEF TakeLock
  <2>2. CASE ~(Returns(t, Cached(t)) \/ Returns(t, 0))
    BY <1>2, <2>2 DEF TakeLock, Goes, CallsTyped, Call, Unusable, Cached
  <2> QED BY <2>1, <2>2
<1>3. ASSUME NEW t \in Caller, LockStore(t) PROVE Bounds'
  <2>1. CASE Returns(t, 0)
    BY <1>3, <2>1, ReturnedAt DEF LockStore
  <2>2. CASE ~Returns(t, 0)
    <3>1. Goes(t, "load") /\ call[t].at = "store"
      BY <1>3, <2>2 DEF LockStore
    <3> QED BY <1>3, <3>1, GoesAt DEF LockStore
  <2> QED BY <2>1, <2>2
<1>4. ASSUME NEW t \in Caller, Load(t) PROVE Bounds'
  <2>1. CASE Returns(t, 0) \/ Returns(t, stored)
    BY <1>4, <2>1, ReturnedAt DEF Load
  <2>2. CASE ~(Returns(t, 0) \/ Returns(t, stored))
    <3>1. /\ call' = [call EXCEPT ![t].at = "request", ![t].base = stored]
          /\ stored # 0 /\ call[t].at = "load"
      BY <1>4, <2>2 DEF Load
    <3>2. /\ call'[t].at = "request" /\ call'[t].base = stored
          /\ \A u \in Caller \ {t} : call'[u] = call[u]
      BY <3>1 DEF CallsTyped, Call
    <3>3. /\ cache' = [cache EXCEPT ![ClientOf[t]] = stored]
          /\ UNCHANGED <<hasStore, stored, issued>> /\ hasStore
      BY <1>4, <2>2, <3>1 DEF Load
    <3>4. issued \in Nat /\ stored \in 1..issued
      BY <3>1 DEF Token
    <3> QED BY <3>2, <3>3, <3>4
  <2> QED BY <2>1, <2>2
<1>5. ASSUME NEW t \in Caller, Refresh(t) PROVE Bounds'
  <2>1. CASE Returns(t, 0)
    BY <1>5, <2>1, ReturnedAt DEF Refresh, Token
  <2>2. CASE ~Returns(t, 0)
    <3>1. /\ Goes(t, "answer") /\ call[t].at = "request" /\ call[t].base = issued
          /\ issued' = issued + 1 /\ issued \in Nat
          /\ UNCHANGED <<hasStore, stored, cache>>
      BY <1>5, <2>2 DEF Refresh, Token
    <3>2. /\ call'[t].at = "answer" /\ call'[t].base = issued
          /\ \A u \in Caller \ {t} : call'[u] = call[u]
      BY <3>1, GoesAt
    <3>3. \A u \in Caller \ {t} : call[u].at \in Sending => call[u].base \in 1..issued
      OBVIOUS
    <3>4. issued \in 1..issued' /\ issued < issued' /\ 1..issued \subseteq 1..issued'
      BY <3>1 DEF Token
    <3>5. \A c \in Client : cache[c] <= issued'
      BY <3>1
    <3> QED BY <3>1, <3>2, <3>3, <3>4, <3>5
  <2> QED BY <2>1, <2>2
<1>6. ASSUME NEW t \in Caller, TimeOut(t) PROVE Bounds'
  BY <1>6, ReturnedAt DEF TimeOut
<1>7. ASSUME NEW t \in Caller, Install(t) PROVE Bounds'
  <2>1. CASE Returns(t, call[t].base + 1)
    BY <1>7, <2>1, ReturnedAt DEF Install, InstallNew, CallsTyped, Call, Token
  <2>2. CASE ~Returns(t, call[t].base + 1)
    <3>1. /\ Goes(t, "save") /\ hasStore /\ call[t].at = "answer"
          /\ cache' = [cache EXCEPT ![ClientOf[t]] = call[t].base + 1]
          /\ UNCHANGED <<hasStore, stored, issued>>
      BY <1>7, <2>2 DEF Install, InstallNew
    <3>2. issued \in Nat /\ call[t].base + 1 <= issued
      BY <3>1 DEF Token
    <3> QED BY <3>1, <3>2, GoesAt
  <2> QED BY <2>1, <2>2
<1>8. ASSUME NEW t \in Caller, Save(t) PROVE Bounds'
  <2>1. /\ Returns(t, call[t].base + 1) /\ call[t].at = "save"
        /\ stored' \in {stored, call[t].base + 1}
        /\ UNCHANGED <<hasStore, cache, issued>>
    BY <1>8 DEF Save, Saved
  <2>2. issued \in Nat /\ call[t].base + 1 \in 1..issued /\ stored' \in Token \cup {0}
    BY <2>1 DEF Token
  <2>3. call'[t].at = "returned" /\ \A u \in Caller \ {t} : call'[u] = call[u]
    BY <2>1, ReturnedAt
  <2> QED BY <2>1, <2>2, <2>3
<1>9. ASSUME NEW t \in Caller, Collect(t) PROVE Bounds'
  BY <1>9, NoCallIsIdle DEF Collect, CallsTyped, Call
<1>10. ASSUME NEW t \in Caller, Drop(t) PROVE Bounds'
  BY <1>10, NoCallIsIdle DEF Drop, CallsTyped, Call
<1>11. ASSUME NEW t \in Caller, NewGrant(t) PROVE Bounds'
  BY <1>11 DEF NewGrant, Token
<1>12. ASSUME Expire \/ RemoveCredential PROVE Bounds'
  BY <1>12 DEF Expire, RemoveCredential, Token
<1> QED
  BY <1>1, <1>2, <1>3, <1>4, <1>5, <1>6, <1>7, <1>8, <1>9, <1>10, <1>11, <1>12
     DEF TokenNext, TokenStep

-----------------------------------------------------------------------------
\* The reason for a refresh that is about to be sent.
NeededBy(t) ==
  call[t].at = "request" =>
    /\ call[t].op = "get" => ~Fresh(call[t].base)
    /\ call[t].op = "ifCurrent" => call[t].base = call[t].arg

LEMMA NeededStep ==
  ASSUME CallsTyped, TokensTyped, RefreshIsNeeded, TokenNext
  PROVE  RefreshIsNeeded'
<1> USE DEF authVars, ghostVars, storeVars
<1>a. \A t \in Caller : NeededBy(t)
  BY DEF RefreshIsNeeded, NeededBy
<1>b. expired \in Nat /\ expired' \in Nat /\ expired' >= expired
  <2>1. ASSUME NEW t \in Caller, TokenStep(t) \/ Collect(t) \/ Drop(t) \/ NewGrant(t)
        PROVE  expired' = expired
    BY <2>1 DEF TokenStep, TakeLock, LockStore, Load, Refresh, TimeOut, Install, Save, Collect,
                Drop, NewGrant
  <2>2. ASSUME NEW t \in Caller, NEW op, NEW n, Start(t, op, n)
        PROVE  expired' = expired
    BY <2>2 DEF Start
  <2> QED BY <2>1, <2>2 DEF TokenNext, TokensTyped, Token, Expire, RemoveCredential
<1> SUFFICES ASSUME NEW t \in Caller PROVE NeededBy(t)'
  BY DEF RefreshIsNeeded, NeededBy
<1>c. call[t].base \in Nat
  BY TokenAssumption DEF CallsTyped, Call
<1>d. call'[t] = call[t] => NeededBy(t)'
  BY <1>a, <1>b, <1>c DEF NeededBy, Fresh
<1>e. \A u \in Caller : \A n : Returns(u, n) => NeededBy(t)'
  BY <1>d, ReturnedAt DEF NeededBy
<1> HIDE DEF authVars, ghostVars, storeVars
<1>1. ASSUME NEW u \in Caller, NEW op, NEW n, Start(u, op, n) PROVE NeededBy(t)'
  <2>1. CASE Returns(u, Cached(u))
    BY <2>1, <1>e
  <2>2. CASE ~Returns(u, Cached(u))
    BY <1>1, <1>d, <2>2, StartedAt DEF NeededBy
  <2> QED BY <2>1, <2>2
<1>2. ASSUME NEW u \in Caller, TakeLock(u) PROVE NeededBy(t)'
  <2>1. CASE Returns(u, Cached(u)) \/ Returns(u, 0)
    BY <2>1, <1>e
  <2>2. CASE ~(Returns(u, Cached(u)) \/ Returns(u, 0))
    <3>1. CASE t # u \/ hasStore
      <4>1. CASE t # u /\ ~hasStore
        <5>1. call' = [call EXCEPT ![u].at = "request", ![u].base = Cached(u)]
          BY <1>2, <2>2, <4>1 DEF TakeLock
        <5>2. call'[t] = call[t]
          BY <4>1, <5>1 DEF CallsTyped
        <5> QED BY <1>d, <5>2
      <4>2. CASE hasStore
        BY <1>2, <1>d, <2>2, <4>2, GoesAt DEF TakeLock, NeededBy
      <4> QED BY <3>1, <4>1, <4>2
    <3>2. CASE t = u /\ ~hasStore
      <4>1. /\ ~SettledInCache(t) /\ ~Unusable(t) /\ UNCHANGED expired
            /\ call' = [call EXCEPT ![t].at = "request", ![t].base = Cached(t)]
        BY <1>2, <2>2, <3>2 DEF TakeLock, authVars
      <4>2. call'[t].base = Cached(t) /\ call'[t].op = call[t].op /\ call'[t].arg = call[t].arg
        BY <4>1 DEF CallsTyped, Call
      <4> QED BY <3>2, <4>1, <4>2 DEF SettledInCache, Unusable, NeededBy, Fresh
    <3> QED BY <3>1, <3>2
  <2> QED BY <2>1, <2>2
<1>3. ASSUME NEW u \in Caller, LockStore(u) PROVE NeededBy(t)'
  <2>1. CASE Goes(u, "load")
    BY <1>d, <2>1, GoesAt DEF NeededBy
  <2> QED BY <1>3, <1>e, <2>1 DEF LockStore
<1>4. ASSUME NEW u \in Caller, Load(u) PROVE NeededBy(t)'
  <2>1. CASE Returns(u, stored) \/ Returns(u, 0)
    BY <2>1, <1>e
  <2>2. CASE ~(Returns(u, stored) \/ Returns(u, 0))
    <3>1. CASE t # u
      BY <1>4, <1>d, <2>2, <3>1 DEF Load, CallsTyped
    <3>2. CASE t = u
      <4>1. /\ ~SettledInStore(t) /\ UNCHANGED expired
            /\ call' = [call EXCEPT ![t].at = "request", ![t].base = stored]
        BY <1>4, <2>2, <3>2 DEF Load, authVars
      <4>2. call'[t].base = stored /\ call'[t].op = call[t].op /\ call'[t].arg = call[t].arg
        BY <4>1 DEF CallsTyped, Call
      <4> QED BY <4>1, <4>2 DEF SettledInStore, NeededBy, Fresh
    <3> QED BY <3>1, <3>2
  <2> QED BY <2>1, <2>2
<1>5. ASSUME NEW u \in Caller, Refresh(u) \/ TimeOut(u) \/ Install(u) \/ Save(u) PROVE NeededBy(t)'
  <2>1. CASE Goes(u, "answer") \/ Goes(u, "save")
    BY <1>d, <2>1, GoesAt DEF NeededBy
  <2> QED BY <1>5, <1>e, <2>1 DEF Refresh, TimeOut, Install, Save
<1>6. ASSUME NEW u \in Caller, Collect(u) \/ Drop(u) PROVE NeededBy(t)'
  BY <1>6, <1>d, NoCallIsIdle DEF Collect, Drop, CallsTyped, NeededBy
<1>7. ASSUME \/ \E u \in Caller : NewGrant(u)
             \/ Expire \/ RemoveCredential
      PROVE NeededBy(t)'
  BY <1>7, <1>d DEF NewGrant, Expire, RemoveCredential
<1> QED
  BY <1>1, <1>2, <1>3, <1>4, <1>5, <1>6, <1>7 DEF TokenNext, TokenStep

-----------------------------------------------------------------------------
\* As long as nothing is lost, the newest token is where the next refresh
\* looks for it.
LEMMA ChainStep ==
  ASSUME CallsTyped, TokensTyped, GuardsHeld, Bounds, Chain, TokenNext, ~lost'
  PROVE  Chain'
<1> USE CallerAssumption, TokenAssumption DEF TokensTyped, Changing
<1>a. TokenTypeOK BY TypeParts
<1>b. \A t, u \in Caller : call[t].at \in Sending /\ call[u].at \in Sending => t = u
  BY <1>a, OneRefresh
<1>c. \A t \in Caller : FromNewest(t)
  BY DEF Chain
<1>d. ASSUME NEW t \in Caller, NEW n, Returns(t, n) PROVE call'[t].at = "returned"
  BY <1>d, ReturnedAt
\* A step that is no refresh, save or install.
<1>e. ASSUME NEW t \in Caller, call[t].at \notin Changing, call'[t].at \notin Sending,
             \A u \in Caller \ {t} : call'[u] = call[u],
             UNCHANGED <<hasStore, stored, issued, conflict>>,
             \/ cache' = cache
             \/ hasStore /\ \A u \in Caller : call[u].at \notin Changing
      PROVE  Chain'
  <2>1. \A u \in Caller : FromNewest(u)'
    BY <1>c, <1>e DEF FromNewest, Sending
  <2>2. NewestIsKept => NewestIsKept'
    BY <1>e DEF NewestIsKept
  <2>3. (\E u \in Caller : call[u].at \in Changing) => \E u \in Caller : call'[u].at \in Changing
    BY <1>e
  <2> QED BY <1>e, <2>1, <2>2, <2>3 DEF Chain
<1> USE DEF authVars, ghostVars, storeVars
<1>1. ASSUME NEW t \in Caller, NEW op, NEW n, Start(t, op, n) PROVE Chain'
  <2>1. CASE Returns(t, Cached(t))
    BY <1>1, <1>e, <2>1, ReturnedAt DEF Start, Sending
  <2>2. CASE ~Returns(t, Cached(t))
    <3>1. call'[t].at = "waiting" /\ \A u \in Caller \ {t} : call'[u] = call[u]
      BY <1>1, <2>2, StartedAt
    <3>2. call[t].at = "idle" /\ UNCHANGED <<hasStore, stored, issued, conflict, cache>>
      BY <1>1 DEF Start
    <3> QED BY <1>e, <3>1, <3>2 DEF Sending
  <2> QED BY <2>1, <2>2
<1>2. ASSUME NEW t \in Caller, TakeLock(t) PROVE Chain'
  <2>1. CASE Returns(t, Cached(t)) \/ Returns(t, 0)
    BY <1>2, <1>e, <2>1, ReturnedAt DEF TakeLock, Sending
  <2>2. CASE ~(Returns(t, Cached(t)) \/ Returns(t, 0)) /\ hasStore
    <3>1. /\ Goes(t, "store") /\ call[t].at = "waiting"
          /\ UNCHANGED <<hasStore, stored, issued, conflict, cache>>
      BY <1>2, <2>2 DEF TakeLock
    <3> QED BY <1>e, <3>1, GoesAt DEF Sending
  <2>3. CASE ~(Returns(t, Cached(t)) \/ Returns(t, 0)) /\ ~hasStore
    <3>1. /\ call' = [call EXCEPT ![t].at = "request", ![t].base = Cached(t)]
          /\ UNCHANGED <<hasStore, stored, issued, conflict, cache>>
          /\ call[t].at = "waiting" /\ lock[ClientOf[t]] = {} /\ ClientOf[t] = Lone
      BY <1>2, <2>3 DEF TakeLock, Bounds
    <3>2. \A u \in Caller : call[u].at \notin Changing
      BY <2>3, <3>1 DEF GuardsHeld, Bounds
    <3>3. Cached(t) = issued
      BY <2>3, <3>1, <3>2 DEF Chain, NewestIsKept, Cached
    <3>4. /\ call'[t].at = "request" /\ call'[t].base = issued
          /\ \A u \in Caller \ {t} : call'[u] = call[u]
      BY <3>1, <3>3 DEF CallsTyped, Call
    <3>5. FromNewest(t)'
      BY ONLY <3>1, <3>4 DEF FromNewest, Changing
    <3>6. ASSUME NEW u \in Caller \ {t} PROVE FromNewest(u)'
      <4>1. FromNewest(u) /\ call'[u] = call[u]
        BY <1>c, <3>4
      <4> QED BY ONLY <3>1, <4>1 DEF FromNewest, Changing
    <3>7. NewestIsKept'
      BY <3>1, <3>2 DEF Chain, NewestIsKept
    <3> QED BY <3>1, <3>5, <3>6, <3>7 DEF Chain
  <2> QED BY <2>1, <2>2, <2>3
<1>3. ASSUME NEW t \in Caller, LockStore(t) PROVE Chain'
  <2>1. CASE Returns(t, 0)
    BY <1>3, <1>e, <2>1, ReturnedAt DEF LockStore, Sending
  <2>2. CASE ~Returns(t, 0)
    <3>1. /\ Goes(t, "load") /\ call[t].at = "store"
          /\ UNCHANGED <<hasStore, stored, issued, conflict, cache>>
      BY <1>3, <2>2 DEF LockStore
    <3> QED BY <1>e, <3>1, GoesAt DEF Sending
  <2> QED BY <2>1, <2>2
<1>4. ASSUME NEW t \in Caller, Load(t) PROVE Chain'
  <2>0. hasStore /\ t \in storeLock
    BY <1>4 DEF Load, Bounds, GuardsHeld
  <2>1. CASE Returns(t, 0) \/ Returns(t, stored)
    <3>1. \A u \in Caller : call[u].at \notin Changing
      BY <1>4, <2>0 DEF Load, GuardsHeld, CallsTyped
    <3>2. /\ call'[t].at = "returned" /\ \A u \in Caller \ {t} : call'[u] = call[u]
          /\ UNCHANGED <<hasStore, stored, issued, conflict>>
      BY <1>4, <2>1, ReturnedAt DEF Load
    <3> QED BY <1>e, <2>0, <3>1, <3>2 DEF Sending
  <2>2. CASE ~(Returns(t, 0) \/ Returns(t, stored))
    <3>1. /\ call' = [call EXCEPT ![t].at = "request", ![t].base = stored]
          /\ UNCHANGED <<hasStore, stored, issued, conflict>>
          /\ call[t].at = "load" /\ stored # 0
      BY <1>4, <2>2 DEF Load
    <3>2. \A u \in Caller : call[u].at \notin Changing
      BY <2>0, <3>1 DEF GuardsHeld, CallsTyped
    <3>3. stored = issued
      BY <2>0, <3>1, <3>2 DEF Chain, NewestIsKept
    <3>4. /\ call'[t].at = "request" /\ call'[t].base = issued
          /\ \A u \in Caller \ {t} : call'[u] = call[u]
      BY <3>1, <3>3 DEF CallsTyped, Call
    <3> QED BY <1>c, <2>0, <3>1, <3>2, <3>3, <3>4 DEF Chain, FromNewest, NewestIsKept
  <2> QED BY <2>1, <2>2
<1>5. ASSUME NEW t \in Caller, Refresh(t) PROVE Chain'
  <2>0. call[t].at = "request" /\ call[t].base = issued /\ UNCHANGED <<hasStore, stored, cache>>
    BY <1>5, <1>c DEF Refresh, FromNewest
  <2>1. CASE Returns(t, 0)
    <3>1. UNCHANGED issued /\ (conflict' <=> conflict)
      BY <1>5, <2>0, <2>1, <1>d DEF Refresh, Goes, CallsTyped, Call
    <3>2. \A u \in Caller : FromNewest(u)'
      BY <1>c, <2>0, <2>1, <3>1, ReturnedAt DEF FromNewest
    <3>3. (\E u \in Caller : call[u].at \in Changing) => \E u \in Caller : call'[u].at \in Changing
      BY <2>0, <2>1, ReturnedAt
    <3> QED BY <2>0, <3>1, <3>2, <3>3 DEF Chain, NewestIsKept
  <2>2. CASE ~Returns(t, 0)
    <3>1. /\ issued' = issued + 1 /\ UNCHANGED conflict
          /\ call' = [call EXCEPT ![t].at = "answer"]
      BY <1>5, <2>2 DEF Refresh, Goes
    <3>2. \A u \in Caller \ {t} : call[u].at \notin Sending /\ call'[u] = call[u]
      BY <1>b, <2>0, <3>1 DEF Sending
    <3>3. call'[t].at = "answer" /\ call'[t].base = issued
      BY <2>0, <3>1 DEF CallsTyped, Call
    <3>4. stored \in {0, issued}
      <4>1. NewestIsKept
        BY <1>b, <2>0 DEF Chain, Sending
      <4> QED BY <4>1 DEF NewestIsKept, Bounds
    <3>5. issued \in Nat
      BY DEF Token
    <3> QED BY <2>0, <3>1, <3>2, <3>3, <3>4, <3>5 DEF Chain, FromNewest, Sending
  <2> QED BY <2>1, <2>2
<1>6. ASSUME NEW t \in Caller, TimeOut(t) PROVE Chain'
  BY <1>6 DEF TimeOut, Fault
<1>7. ASSUME NEW t \in Caller, Install(t) PROVE Chain'
  <2>0. /\ call[t].at = "answer" /\ call[t].base + 1 = issued /\ stored \in {0, call[t].base}
        /\ UNCHANGED <<hasStore, stored, issued, conflict>>
        /\ cache' = [cache EXCEPT ![ClientOf[t]] = issued]
    BY <1>7, <1>c DEF Install, InstallNew, FromNewest
  <2>1. CASE ~hasStore
    <3>1. Returns(t, call[t].base + 1) /\ ClientOf[t] = Lone
      BY <1>7, <2>0, <2>1 DEF Install, Bounds
    <3>2. \A u \in Caller : FromNewest(u)'
      BY <1>c, <2>0, <3>1, ReturnedAt DEF FromNewest
    <3> QED BY <2>0, <2>1, <3>1, <3>2 DEF Chain, NewestIsKept
  <2>2. CASE hasStore
    <3>1. call' = [call EXCEPT ![t].at = "save"]
      BY <1>7, <2>2 DEF Install, Goes
    <3>2. /\ call'[t].at = "save" /\ call'[t].base = call[t].base
          /\ \A u \in Caller \ {t} : call'[u] = call[u]
      BY <3>1 DEF CallsTyped, Call
    <3>3. \A u \in Caller : FromNewest(u)'
      BY <1>c, <2>0, <3>2 DEF FromNewest
    <3> QED BY <2>0, <3>2, <3>3 DEF Chain
  <2> QED BY <2>1, <2>2
<1>8. ASSUME NEW t \in Caller, Save(t) PROVE Chain'
  <2>0. /\ call[t].at = "save" /\ call[t].base + 1 = issued /\ hasStore
        /\ stored' = issued /\ UNCHANGED <<hasStore, issued, conflict>>
        /\ Returns(t, call[t].base + 1)
    BY <1>8, <1>c DEF Save, Saved, Fault, FromNewest, Bounds
  <2>1. \A u \in Caller \ {t} : call[u].at \notin Sending
    BY <1>b, <2>0 DEF Sending
  <2>2. \A u \in Caller : FromNewest(u)'
    BY <2>0, <2>1, ReturnedAt DEF FromNewest, Sending
  <2> QED BY <2>0, <2>2 DEF Chain, NewestIsKept
<1>9. ASSUME NEW t \in Caller, Collect(t) PROVE Chain'
  BY <1>9, <1>e, NoCallIsIdle DEF Collect, Sending, CallsTyped
<1>10. ASSUME NEW t \in Caller, Drop(t) PROVE Chain'
  <2>1. call[t].at \notin Changing
    BY <1>10 DEF Drop
  <2> QED BY <1>10, <1>e, <2>1, NoCallIsIdle DEF Drop, Sending, CallsTyped
<1>11. ASSUME NEW t \in Caller, NewGrant(t) PROVE Chain'
  <2>1. /\ ~hasStore /\ issued' = issued + 1 /\ cache' = [cache EXCEPT ![ClientOf[t]] = issued + 1]
        /\ UNCHANGED <<hasStore, call, conflict>> /\ lock[ClientOf[t]] = {} /\ ClientOf[t] = Lone
    BY <1>11 DEF NewGrant, Fault
  <2>2. \A u \in Caller : call[u].at \notin Sending
    BY <2>1 DEF GuardsHeld, Bounds, Sending
  <2>3. \A u \in Caller : FromNewest(u)'
    BY <2>1, <2>2 DEF FromNewest, Sending
  <2> QED BY <2>1, <2>3 DEF Chain, NewestIsKept
<1>12. ASSUME Expire PROVE Chain'
  BY <1>12, <1>c DEF Expire, Chain, FromNewest, NewestIsKept
<1>13. ASSUME RemoveCredential PROVE Chain'
  <2>1. stored' = 0 /\ hasStore /\ UNCHANGED <<hasStore, call, issued, conflict, cache>>
    BY <1>13 DEF RemoveCredential, Bounds
  <2> QED BY <1>c, <2>1 DEF Chain, FromNewest, NewestIsKept
<1> QED
  BY <1>1, <1>2, <1>3, <1>4, <1>5, <1>6, <1>7, <1>8, <1>9, <1>10, <1>11, <1>12, <1>13
     DEF TokenNext, TokenStep

-----------------------------------------------------------------------------
LEMMA StepInv == IInv /\ [TokenNext]_tokenVars => IInv'
<1> SUFFICES ASSUME IInv, [TokenNext]_tokenVars PROVE IInv'
  OBVIOUS
<1>a. CallsTyped /\ TokensTyped /\ GuardsHeld /\ Bounds /\ RefreshIsNeeded /\ (~lost => Chain)
  BY TypeParts DEF IInv
<1>1. CASE TokenNext
  <2>1. CallsTyped' /\ TokensTyped'
    BY <1>a, <1>1, CallsStep, TokensStep
  <2>2. TokenTypeOK'
    BY <2>1 DEF TokenTypeOK, CallsTyped, TokensTyped
  <2>3. GuardsHeld' /\ Bounds' /\ RefreshIsNeeded'
    BY <1>a, <1>1, <2>1, GuardsStep, BoundsStep, NeededStep
  <2>4. ~lost' => Chain'
    <3>1. ~lost' => ~lost
      BY <1>1 DEF TokenNext, TokenStep, Start, TakeLock, LockStore, Load, Refresh, TimeOut,
           Install, Save, Collect, Drop, NewGrant, Expire, RemoveCredential, Fault, ghostVars
    <3> QED BY <1>a, <1>1, <3>1, ChainStep
  <2> QED BY <2>2, <2>3, <2>4 DEF IInv
<1>2. CASE UNCHANGED tokenVars
  BY <1>2 DEF tokenVars, storeVars, authVars, ghostVars, IInv, TokenTypeOK, GuardsHeld, Bounds,
       RefreshIsNeeded, Chain, FromNewest, NewestIsKept, Fresh
<1> QED BY <1>1, <1>2

\* Every reachable state satisfies the inductive invariant.
THEOREM Invariance == TokenSpec => []IInv
BY InitInv, StepInv, PTL DEF TokenSpec

\* The guard of a client and of the store are held exactly by the tasks on
\* their way from lock to return (_lifecycle_guard, StoreBaseline::_guard).
THEOREM Guarded == TokenSpec => []GuardsHeld
<1>1. IInv => GuardsHeld
  BY DEF IInv
<1> QED BY <1>1, Invariance, PTL

\* The provider sees no refresh token twice, unless an answer, a save or a
\* call was lost (reconcile_with_store, refresh_and_store).
THEOREM NeverSpentTwice == TokenSpec => []SpentOnce
<1>1. IInv => SpentOnce
  BY DEF IInv, SpentOnce, Chain
<1> QED BY <1>1, Invariance, PTL

\* A request to the provider still has its reason when it is sent: the token
\* expired, or the caller saw it refused (refresh_access_token_if_current).
THEOREM RefreshedForAReason == TokenSpec => []RefreshIsNeeded
<1>1. IInv => RefreshIsNeeded
  BY DEF IInv
<1> QED BY <1>1, Invariance, PTL

\* The only new token a client can get is the newest.
LEMMA CacheStep ==
  ASSUME IInv, TokenNext, ~lost', NEW c \in Client
  PROVE  cache'[c] \in {cache[c], 0, issued'}
<1> USE CallerAssumption, TokenAssumption
<1>a. CallsTyped /\ TokensTyped /\ GuardsHeld /\ Bounds
  BY TypeParts DEF IInv
<1>b. ~lost
  BY DEF TokenNext, TokenStep, Start, TakeLock, LockStore, Load, Refresh, TimeOut,
         Install, Save, Collect, Drop, NewGrant, Expire, RemoveCredential, Fault, ghostVars
<1>c. Chain
  BY <1>b DEF IInv
<1>1. ASSUME NEW t \in Caller, Load(t), cache' # cache PROVE cache'[c] \in {cache[c], 0, issued'}
  <2>1. /\ call[t].at = "load" /\ cache' = [cache EXCEPT ![ClientOf[t]] = stored]
        /\ UNCHANGED issued
    BY <1>1 DEF Load, authVars
  <2>2. hasStore /\ \A u \in Caller : call[u].at \notin Changing
    BY <1>a, <2>1 DEF GuardsHeld, CallsTyped, Bounds, Changing
  <2>3. stored \in {0, issued}
    BY <1>c, <2>2 DEF Chain, NewestIsKept
  <2> QED BY <1>a, <2>1, <2>3 DEF TokensTyped
<1>2. ASSUME NEW t \in Caller, Install(t) PROVE cache'[c] \in {cache[c], issued'}
  <2>1. cache' = [cache EXCEPT ![ClientOf[t]] = issued] /\ UNCHANGED issued
    BY <1>2, <1>c DEF Install, InstallNew, Chain, FromNewest, Changing, authVars
  <2> QED BY <1>a, <2>1 DEF TokensTyped
<1>3. ASSUME NEW t \in Caller, NewGrant(t) PROVE cache'[c] \in {cache[c], issued'}
  BY <1>3, <1>a DEF NewGrant, TokensTyped
<1>4. \/ cache' = cache
      \/ \E t \in Caller : Load(t) \/ Install(t) \/ NewGrant(t)
  BY DEF TokenNext, TokenStep, Start, TakeLock, LockStore, Refresh, TimeOut,
         Save, Collect, Drop, Expire, RemoveCredential, storeVars
<1> QED BY <1>1, <1>2, <1>3, <1>4

\* No token is taken back by the provider.
LEMMA IssuedGrows == ASSUME TokensTyped, TokenNext PROVE issued' >= issued
<1>1. issued \in Nat
  BY DEF TokensTyped, Token
<1>2. issued' = issued \/ issued' = issued + 1
  BY DEF TokenNext, TokenStep, Start, TakeLock, LockStore, Load, Refresh, TimeOut, Install,
         Save, Collect, Drop, NewGrant, Expire, RemoveCredential, authVars
<1> QED BY <1>1, <1>2

LEMMA NeverOlderStep ==
  ASSUME IInv, TokenNext, ~lost', NEW c \in Client
  PROVE  cache'[c] >= cache[c] \/ cache'[c] = 0
<1>1. cache'[c] \in {cache[c], 0, issued'}
  BY CacheStep
<1>2. cache[c] <= issued /\ cache[c] \in Nat /\ issued \in Nat
  BY DEF IInv, Bounds, TokenTypeOK, Token
<1>3. issued' >= issued
  BY IssuedGrows, TypeParts DEF IInv
<1>4. issued' \in Nat
  BY StepInv DEF IInv, TokenTypeOK, Token
<1> QED BY <1>1, <1>2, <1>3, <1>4

\* What a client holds never goes back to an older token of the credential
\* (install_token_locked), unless something was lost.
THEOREM NoFallback == TokenSpec => NeverOlder
<1>1. IInv /\ [TokenNext]_tokenVars
        => [~lost' => \A c \in Client : cache'[c] >= cache[c] \/ cache'[c] = 0]_tokenVars
  BY NeverOlderStep
<1> QED BY <1>1, Invariance, PTL DEF TokenSpec, NeverOlder

-----------------------------------------------------------------------------
(* The posts.                                                              *)


Asking == {"token", "refresh", "retoken"}

PostsTyped ==
  /\ outbox \in Seq(Message)
  /\ taken \in {{}} \cup {{m} : m \in Request}
  /\ stage \in [Message -> Stages]
  /\ sent \in [Message -> [first : 0..MaxToken, second : 0..MaxToken]]
  /\ revoked \in 0..MaxToken

\* Without OAuth no message asks for a token.
NoTokens ==
  ~UseOAuth => \A m \in Message : stage[m] \notin Asking \cup {"repost"}

LEMMA InitSimulated == Init => TokenInit /\ PostsTyped /\ NoTokens
BY TokenAssumption DEF Init, PostsTyped, NoTokens, Asking, Stages

\* Every step is a step of the OAuth clients, or none of theirs.
LEMMA StepSimulated ==
  ASSUME PostsTyped, NoTokens, [Next]_vars PROVE [TokenNext]_tokenVars
<1> USE PostAssumption DEF PostsTyped, NoTokens, Asking
<1>1. ASSUME NEW m \in Message, Asks(m) PROVE TokenNext
  <2>1. m \in Caller
    BY <1>1 DEF Asks, Message
  <2>2. sent[m].first \in 0..MaxToken /\ 0 \in 0..MaxToken
    BY TokenAssumption
  <2>3. "get" \in Op /\ "ifCurrent" \in Op
    BY DEF Op
  <2> QED BY <1>1, <2>1, <2>2, <2>3 DEF Asks, TokenNext
<1>2. ASSUME NEW m \in Message, HasToken(m) PROVE TokenNext
  <2>1. m \in Caller
    BY <1>2 DEF HasToken, Message
  <2> QED BY <1>2, <2>1 DEF HasToken, TokenNext
<1>3. ASSUME NEW t \in Caller,
             OAuthStep(t) \/ Calls(t) \/ Takes(t) \/ Drop(t) \/ NewGrant(t)
      PROVE  TokenNext
  <2>1. 0 \in 0..MaxToken /\ "get" \in Op /\ "refresh" \in Op
    BY TokenAssumption DEF Op
  <2> QED BY <1>3, <2>1 DEF OAuthStep, Calls, Takes, TokenNext
<1>4. ASSUME Expire \/ RemoveCredential PROVE TokenNext
  BY <1>4 DEF TokenNext
<1>5. ASSUME \/ Take \/ Spawn \/ Revoke
             \/ \E m \in Message : Send(m) \/ Post(m) \/ Answer(m)
      PROVE  UNCHANGED tokenVars
  BY <1>5 DEF Take, Spawn, Revoke, Send, Post, Answer
<1> QED
  BY <1>1, <1>2, <1>3, <1>4, <1>5 DEF Next, PostStep, Others, vars

LEMMA PostsStep ==
  ASSUME PostsTyped, NoTokens, TokenTypeOK, [Next]_vars PROVE PostsTyped' /\ NoTokens'
<1> USE PostAssumption, TokenAssumption DEF PostsTyped, NoTokens, Asking, Stages
<1>1. ASSUME NEW m \in Message, Send(m) PROVE PostsTyped' /\ NoTokens'
  BY <1>1 DEF Send, Moves
<1>2. ASSUME Take PROVE PostsTyped' /\ NoTokens'
  <2>1. Head(outbox) \in Message /\ Tail(outbox) \in Seq(Message)
    BY <1>2 DEF Take
  <2> QED BY <1>2, <2>1 DEF Take, ExpectsResponse, Moves, FirstStage
<1>3. ASSUME Spawn PROVE PostsTyped' /\ NoTokens'
  BY <1>3 DEF Spawn, Moves, FirstStage, Message
<1>4. ASSUME NEW m \in Message, HasToken(m) PROVE PostsTyped' /\ NoTokens'
  <2>1. m \in Caller /\ stage[m] \in Asking /\ UseOAuth
    BY <1>4 DEF HasToken, Message
  <2>2. call[m].result \in 0..MaxToken
    BY <2>1 DEF TokenTypeOK, Call
  <2>3. AnswerTo(m) \in Stages
    BY <2>1 DEF AnswerTo
  <2> QED BY <1>4, <2>1, <2>2, <2>3 DEF HasToken, Moves
<1>5. ASSUME NEW m \in Message, Post(m) \/ Answer(m) PROVE PostsTyped' /\ NoTokens'
  BY <1>5 DEF Post, Answer, Moves, Refused
<1>6. ASSUME Revoke PROVE PostsTyped' /\ NoTokens'
  <2>1. revoked + 1 \in 0..MaxToken
    BY <1>6 DEF Revoke, TokenTypeOK, Token
  <2> QED BY <1>6, <2>1 DEF Revoke
<1>7. ASSUME UNCHANGED postVars PROVE PostsTyped' /\ NoTokens'
  BY <1>7 DEF postVars
<1> QED
  BY <1>1, <1>2, <1>3, <1>4, <1>5, <1>6, <1>7
     DEF Next, PostStep, Asks, OAuthStep, Calls, Takes, vars

-----------------------------------------------------------------------------
BaseInv == IInv /\ PostsTyped /\ NoTokens

\* What holds in every reachable state, the newest token of a message aside.
THEOREM Base == Spec => []BaseInv
<1>1. Init => BaseInv
  BY InitSimulated, InitInv DEF BaseInv
<1>2. BaseInv /\ [Next]_vars => BaseInv'
  <2> SUFFICES ASSUME BaseInv, [Next]_vars PROVE BaseInv'
    OBVIOUS
  <2>1. IInv'
    BY StepSimulated, StepInv DEF BaseInv
  <2>2. PostsTyped' /\ NoTokens'
    BY PostsStep DEF BaseInv, IInv
  <2> QED BY <2>1, <2>2 DEF BaseInv
<1> QED BY <1>1, <1>2, PTL DEF Spec

\* The posts use the OAuth clients the way OAuthTokens says: every property
\* of TokenSpec holds of the transport.
THEOREM Implementation == Spec => TokenSpec
<1>1. Init => TokenInit
  BY InitSimulated
<1>2. BaseInv /\ [Next]_vars => [TokenNext]_tokenVars
  BY StepSimulated DEF BaseInv
<1> QED BY <1>1, <1>2, Base, PTL DEF Spec, TokenSpec

\* Every variable of the transport and of its OAuth clients keeps its type.
THEOREM PostsTypeCorrect == Spec => []TypeOK
<1>1. BaseInv => TypeOK
  BY DEF BaseInv, IInv, TypeOK, PostsTyped
<1> QED BY <1>1, Base, PTL

-----------------------------------------------------------------------------
\* A client has nothing older than n: only n, something newer or nothing.
AtLeast(c, n) == cache[c] = 0 \/ cache[c] >= n

First(m) == sent[m].first
Result(m) == call[m].result

\* Where a message that was refused gets a newer token from: its client has
\* one as soon as refresh_access_token_if_current returns.
Newer(m) ==
  /\ stage[m] \notin Asking => call[m].at = "idle"
  /\ stage[m] = "refresh" /\ call[m].at \notin {"idle", "returned"}
       => call[m].op = "ifCurrent" /\ call[m].arg = First(m)
  /\ ~lost =>
       /\ First(m) <= issued /\ AtLeast(ClientOf[m], First(m))
       /\ call[m].at = "returned" => Result(m) <= issued /\ AtLeast(ClientOf[m], Result(m))
       /\ stage[m] = "refresh" /\ call[m].at \in Changing => First(m) < issued
       /\ stage[m] \in {"refresh", "retoken"} /\ call[m].at = "returned" /\ Result(m) # 0
            => Result(m) > First(m)
       /\ stage[m] \in {"retoken", "repost"}
            => First(m) < issued /\ AtLeast(ClientOf[m], First(m) + 1)
       /\ stage[m] = "repost" => sent[m].second > First(m)

AllNewer == UseOAuth => \A m \in Message : Newer(m)

\* A call for m that just returned n.
LEMMA ReturnedResult ==
  ASSUME CallsTyped, NEW t \in Caller, NEW n, Returns(t, n)
  PROVE  /\ call'[t].at = "returned" /\ call'[t].result = n
         /\ \A u \in Caller \ {t} : call'[u] = call[u]
<1>1. /\ [NoCall EXCEPT !.at = "returned", !.result = n].at = "returned"
      /\ [NoCall EXCEPT !.at = "returned", !.result = n].result = n
  BY NoCallIsIdle DEF Call
<1> QED BY <1>1 DEF Returns, CallsTyped

\* What a client has stays as new as it is.
LEMMA AtLeastStep ==
  ASSUME IInv, TokenNext, ~lost', NEW c \in Client, NEW n \in Nat, n <= issued, AtLeast(c, n)
  PROVE  AtLeast(c, n)'
<1>1. cache'[c] \in {cache[c], 0, issued'}
  BY CacheStep
<1>2. issued' >= issued /\ issued \in Nat
  BY IssuedGrows, TypeParts DEF IInv, TokenTypeOK, Token
<1>3. issued' \in Nat
  BY StepInv DEF IInv, TokenTypeOK, Token
<1> QED BY <1>1, <1>2, <1>3 DEF AtLeast

\* A call to OAuth2Client ends with an error, or with a token its client has
\* now: for refresh_access_token_if_current another than the refused one.
Ends(t) ==
  /\ call'[t].at = "returned"
  /\ \/ call'[t].result = 0
     \/ /\ call'[t].result = cache'[ClientOf[t]]
        /\ call[t].op = "ifCurrent" =>
             \/ call'[t].result # call[t].arg
             \/ call[t].at \in Changing /\ call'[t].result = issued'

Continues(t) ==
  /\ call'[t].at \notin {"idle", "returned"}
  /\ call'[t].op = call[t].op /\ call'[t].arg = call[t].arg
  /\ call'[t].at \in Changing /\ call[t].at \notin Changing => issued' = issued + 1

LEMMA TokenStepEffect ==
  ASSUME IInv, NEW t \in Caller, TokenStep(t), ~lost'
  PROVE  /\ \A u \in Caller \ {t} : call'[u] = call[u]
         /\ call[t].at \notin {"idle", "returned"}
         /\ Ends(t) \/ Continues(t)
<1> DEFINE Effect == /\ \A u \in Caller \ {t} : call'[u] = call[u]
                     /\ call[t].at \notin {"idle", "returned"}
                     /\ Ends(t) \/ Continues(t)
<1>a. CallsTyped /\ TokensTyped
  BY TypeParts DEF IInv
<1>b. Chain
  <2>1. ~lost
    BY DEF TokenStep, TakeLock, LockStore, Load, Refresh, TimeOut, Install, Save, Fault, ghostVars
  <2> QED BY <2>1 DEF IInv
<1>c. ASSUME NEW place \in {"store", "load", "request", "save"}, Goes(t, place),
             call[t].at \in {"waiting", "store", "answer"},
             place = "save" => call[t].at = "answer"
      PROVE  Effect
  BY <1>a, <1>c, GoesAt DEF Continues, Changing
<1>d. ASSUME call[t].at \notin {"idle", "returned"}, Returns(t, 0) PROVE Effect
  BY <1>a, <1>d, ReturnedResult DEF Ends
<1>1. CASE TakeLock(t)
  <2>1. call[t].at = "waiting" /\ UNCHANGED cache
    BY <1>1 DEF TakeLock
  <2>2. CASE SettledInCache(t)
    BY <1>1, <1>a, <2>1, <2>2, ReturnedResult DEF TakeLock, SettledInCache, Ends, Cached
  <2>3. CASE ~SettledInCache(t) /\ ~Returns(t, 0) /\ hasStore
    BY <1>1, <1>c, <2>1, <2>3 DEF TakeLock
  <2>4. CASE ~SettledInCache(t) /\ ~Returns(t, 0) /\ ~hasStore
    <3>1. call' = [call EXCEPT ![t].at = "request", ![t].base = Cached(t)]
      BY <1>1, <2>4 DEF TakeLock
    <3>2. /\ call'[t].at = "request" /\ call'[t].op = call[t].op /\ call'[t].arg = call[t].arg
          /\ \A u \in Caller \ {t} : call'[u] = call[u]
      BY <1>a, <3>1 DEF CallsTyped, Call
    <3> QED BY <2>1, <3>2 DEF Continues, Changing
  <2>5. CASE Returns(t, 0)
    BY <1>d, <2>1, <2>5
  <2> QED BY <2>2, <2>3, <2>4, <2>5
<1>2. CASE LockStore(t)
  BY <1>2, <1>c, <1>d DEF LockStore
<1>3. CASE Load(t)
  <2>1. call[t].at = "load"
    BY <1>3 DEF Load
  <2>2. CASE Returns(t, 0)
    BY <1>d, <2>1, <2>2
  <2>3. CASE ~Returns(t, 0) /\ SettledInStore(t)
    <3>1. Returns(t, stored) /\ cache'[ClientOf[t]] = stored
      BY <1>3, <1>a, <2>3, CallerAssumption DEF Load, TokensTyped
    <3> QED BY <1>a, <2>1, <2>3, <3>1, ReturnedResult DEF SettledInStore, Ends
  <2>4. CASE ~Returns(t, 0) /\ ~SettledInStore(t)
    <3>1. call' = [call EXCEPT ![t].at = "request", ![t].base = stored]
      BY <1>3, <2>4 DEF Load
    <3>2. /\ call'[t].at = "request" /\ call'[t].op = call[t].op /\ call'[t].arg = call[t].arg
          /\ \A u \in Caller \ {t} : call'[u] = call[u]
      BY <1>a, <3>1 DEF CallsTyped, Call
    <3> QED BY <2>1, <3>2 DEF Continues, Changing
  <2> QED BY <2>2, <2>3, <2>4
<1>4. CASE Refresh(t)
  <2>1. CASE Returns(t, 0)
    BY <1>4, <1>d, <2>1 DEF Refresh
  <2>2. CASE ~Returns(t, 0)
    <3>1. Goes(t, "answer") /\ issued' = issued + 1 /\ call[t].at = "request"
      BY <1>4, <2>2 DEF Refresh
    <3> QED BY <1>a, <3>1, GoesAt DEF Continues
  <2> QED BY <2>1, <2>2
<1>5. CASE TimeOut(t)
  BY <1>5 DEF TimeOut, Fault
<1>6. CASE Install(t)
  <2>1. /\ call[t].at = "answer" /\ call[t].base + 1 = issued /\ UNCHANGED issued
        /\ cache'[ClientOf[t]] = issued
    BY <1>6, <1>a, <1>b, CallerAssumption
       DEF Install, InstallNew, Chain, FromNewest, Changing, TokensTyped, authVars
  <2>2. CASE hasStore
    BY <1>6, <1>c, <2>1, <2>2 DEF Install
  <2>3. CASE ~hasStore
    <3>1. Returns(t, issued)
      BY <1>6, <2>1, <2>3 DEF Install
    <3> QED BY <1>a, <2>1, <3>1, ReturnedResult DEF Ends, Changing
  <2> QED BY <2>2, <2>3
<1>7. CASE Save(t)
  <2>1. /\ call[t].at = "save" /\ Returns(t, issued) /\ UNCHANGED <<issued, cache>>
        /\ cache[ClientOf[t]] = issued
    BY <1>7, <1>b DEF Save, Chain, FromNewest, Changing, authVars
  <2> QED BY <1>a, <2>1, ReturnedResult DEF Ends, Changing
<1> QED BY <1>1, <1>2, <1>3, <1>4, <1>5, <1>6, <1>7 DEF TokenStep

-----------------------------------------------------------------------------
LEMMA LostStays == ASSUME IInv, [TokenNext]_tokenVars PROVE lost => lost'
BY DEF TokenNext, TokenStep, Start, TakeLock, LockStore, Load, Refresh, TimeOut, Install, Save,
       Collect, Drop, NewGrant, Expire, RemoveCredential, Fault, tokenVars, ghostVars

\* The numbers Newer compares.
LEMMA Numbers ==
  ASSUME BaseInv, UseOAuth, NEW m \in Message
  PROVE  /\ m \in Caller /\ ClientOf[m] \in Client
         /\ First(m) \in Nat /\ Result(m) \in Nat /\ sent[m].second \in Nat
         /\ issued \in Nat /\ cache[ClientOf[m]] \in Nat
BY PostAssumption, CallerAssumption, TokenAssumption
   DEF BaseInv, IInv, PostsTyped, TokenTypeOK, Token, Call, First, Result, Message

\* A step that is not about m.
LEMMA NewerElsewhere ==
  ASSUME BaseInv, [TokenNext]_tokenVars, UseOAuth, NEW m \in Message, Newer(m),
         UNCHANGED <<call[m], stage[m], sent[m]>>
  PROVE  Newer(m)'
<1> USE DEF Newer, First, Result
<1>0. /\ m \in Caller /\ ClientOf[m] \in Client
      /\ First(m) \in Nat /\ Result(m) \in Nat /\ issued \in Nat
  BY Numbers
<1>1. CASE UNCHANGED tokenVars
  BY <1>1 DEF tokenVars, authVars, ghostVars, AtLeast
<1>2. CASE TokenNext /\ ~lost'
  <2>1. ~lost /\ IInv
    BY <1>2, LostStays DEF BaseInv
  <2>2. issued' >= issued /\ issued' \in Nat
    BY <1>2, <2>1, IssuedGrows, StepInv, TypeParts DEF IInv, TokenTypeOK, Token
  <2>3. \A n \in Nat : n <= issued /\ AtLeast(ClientOf[m], n) => AtLeast(ClientOf[m], n)'
    BY <1>0, <1>2, <2>1, AtLeastStep
  <2>4. AtLeast(ClientOf[m], First(m))'
    BY <1>0, <2>1, <2>3 DEF AtLeast
  <2>5. call[m].at = "returned" => AtLeast(ClientOf[m], Result(m))'
    BY <1>0, <2>1, <2>3 DEF AtLeast
  <2>6. stage[m] \in {"retoken", "repost"} => AtLeast(ClientOf[m], First(m) + 1)'
    BY <1>0, <2>1, <2>3 DEF AtLeast
  <2> QED BY <1>0, <2>1, <2>2, <2>4, <2>5, <2>6
<1>3. CASE TokenNext /\ lost'
  BY <1>3
<1> QED BY <1>1, <1>2, <1>3

\* A step of the call that m made.
LEMMA NewerCall ==
  ASSUME BaseInv, UseOAuth, NEW m \in Message, Newer(m), TokenStep(m),
         UNCHANGED <<stage[m], sent[m]>>
  PROVE  Newer(m)'
<1>0. /\ m \in Caller /\ ClientOf[m] \in Client
      /\ First(m) \in Nat /\ issued \in Nat
  BY Numbers
<1>1. TokenNext /\ IInv /\ IInv'
  BY <1>0, StepInv DEF BaseInv, TokenNext
<1>2. call[m].at \notin {"idle", "returned"} /\ stage[m] \in Asking
  BY DEF TokenStep, TakeLock, LockStore, Load, Refresh, TimeOut, Install, Save, Newer
<1>3. ASSUME stage[m] = "refresh", call'[m].at \notin {"idle", "returned"}
      PROVE  call'[m].op = "ifCurrent" /\ call'[m].arg = First(m)
  <2>1. \A n : ~Returns(m, n)
    <3>1. CallsTyped
      BY TypeParts DEF BaseInv, IInv
    <3> QED BY <1>0, <1>3, <3>1, ReturnedAt
  <2>2. call'[m].op = call[m].op /\ call'[m].arg = call[m].arg
    BY <1>0, <1>1, <2>1 DEF TokenStep, TakeLock, LockStore, Load, Refresh, TimeOut, Install, Save,
       Goes, IInv, TokenTypeOK, Call
  <2> QED BY <1>2, <1>3, <2>2 DEF Newer
<1>4. ASSUME ~lost'
      PROVE  Newer(m)'
  <2>1. /\ ~lost /\ (Ends(m) \/ Continues(m))
    BY <1>0, <1>1, <1>4, LostStays, TokenStepEffect
  <2>2. issued' >= issued /\ issued' \in Nat /\ cache'[ClientOf[m]] \in Nat
        /\ cache'[ClientOf[m]] <= issued'
    BY <1>0, <1>1, IssuedGrows, TypeParts DEF IInv, TokenTypeOK, Token, Bounds
  <2>3. \A n \in Nat : n <= issued /\ AtLeast(ClientOf[m], n) => AtLeast(ClientOf[m], n)'
    BY <1>0, <1>1, <1>4, AtLeastStep
  <2>4. First(m) <= issued' /\ AtLeast(ClientOf[m], First(m))'
    BY <1>0, <2>1, <2>2, <2>3 DEF Newer, AtLeast, First
  <2>5. stage[m] = "retoken" => First(m) < issued' /\ AtLeast(ClientOf[m], First(m) + 1)'
    BY <1>0, <2>1, <2>2, <2>3 DEF Newer, AtLeast, First
  <2>6. CASE Ends(m)
    <3>1. call'[m].at = "returned" /\ call'[m].result \in Nat
      BY <1>0, <1>1, <2>6, TokenAssumption DEF Ends, IInv, TokenTypeOK, Call
    <3>2. call'[m].result <= issued' /\ AtLeast(ClientOf[m], Result(m))'
      BY <2>2, <2>6, <3>1 DEF Ends, AtLeast, Result
    <3>3. ASSUME stage[m] \in {"refresh", "retoken"}, call'[m].result # 0
          PROVE  call'[m].result > First(m)
      <4>1. call'[m].result = cache'[ClientOf[m]] /\ cache'[ClientOf[m]] >= First(m)
        BY <2>4, <2>6, <3>3 DEF Ends, AtLeast, First
      <4>2. CASE stage[m] = "retoken"
        BY <1>0, <2>5, <3>1, <3>3, <4>1, <4>2 DEF AtLeast, First
      <4>3. CASE stage[m] = "refresh"
        <5>1. call[m].op = "ifCurrent" /\ call[m].arg = First(m)
          BY <1>2, <4>3 DEF Newer
        <5>2. \/ call'[m].result # First(m)
              \/ call[m].at \in Changing /\ call'[m].result = issued'
          BY <2>6, <3>3, <5>1 DEF Ends
        <5>3. call[m].at \in Changing => First(m) < issued'
          BY <1>0, <2>1, <2>2, <4>3 DEF Newer
        <5> QED BY <1>0, <3>1, <4>1, <5>2, <5>3
      <4> QED BY <3>3, <4>2, <4>3
    <3> QED BY <1>2, <2>4, <2>5, <3>1, <3>2, <3>3 DEF Newer, First, Result, Asking, Changing
  <2>7. CASE Continues(m)
    <3>1. stage[m] = "refresh" /\ call'[m].at \in Changing => First(m) < issued'
      BY <1>0, <2>1, <2>2, <2>7 DEF Continues, Newer
    <3> QED BY <1>2, <1>3, <2>4, <2>5, <2>7, <3>1 DEF Continues, Newer, First, Asking, Changing
  <2> QED BY <2>1, <2>6, <2>7
<1> QED BY <1>2, <1>3, <1>4 DEF Newer, First

\* m calls the OAuth client.
LEMMA NewerAsks ==
  ASSUME BaseInv, UseOAuth, NEW m \in Message, Newer(m), Asks(m)
  PROVE  Newer(m)'
<1>0. /\ m \in Caller /\ ClientOf[m] \in Client
      /\ First(m) \in Nat /\ issued \in Nat /\ cache[ClientOf[m]] \in Nat
  BY Numbers
<1>1. PICK op \in Op, n \in 0..MaxToken :
        Start(m, op, n) /\ (stage[m] = "refresh" => op = "ifCurrent" /\ n = First(m))
  <2>1. First(m) \in 0..MaxToken /\ 0 \in 0..MaxToken
    BY TokenAssumption DEF BaseInv, PostsTyped, First
  <2>2. "get" \in Op /\ "ifCurrent" \in Op
    BY DEF Op
  <2> QED BY <2>1, <2>2 DEF Asks, First
<1>2. /\ stage[m] \in Asking /\ UNCHANGED <<stage, sent, issued, cache, lost>>
      /\ call[m].at = "idle" /\ CallsTyped
  BY <1>1, TypeParts DEF Asks, Asking, postVars, authVars, ghostVars, Start, BaseInv, IInv
<1>3. CASE Returns(m, Cached(m)) /\ op = "get"
  <2>1. call'[m].at = "returned" /\ call'[m].result = cache[ClientOf[m]]
    BY <1>0, <1>2, <1>3, ReturnedResult DEF Cached
  <2>2. cache[ClientOf[m]] <= issued
    BY <1>0 DEF BaseInv, IInv, Bounds
  <2> QED BY <1>0, <1>1, <1>2, <1>3, <2>1, <2>2 DEF Newer, AtLeast, First, Result, Changing
<1>4. CASE ~(Returns(m, Cached(m)) /\ op = "get")
  <2>1. call' = [call EXCEPT ![m] = [NoCall EXCEPT !.op = op, !.at = "waiting", !.arg = n]]
    BY <1>1, <1>4 DEF Start
  <2>2. LET c == [NoCall EXCEPT !.op = op, !.at = "waiting", !.arg = n]
        IN  c.op = op /\ c.at = "waiting" /\ c.arg = n
    BY NoCallIsIdle DEF Call
  <2>3. call'[m].at = "waiting" /\ call'[m].op = op /\ call'[m].arg = n
    BY <1>0, <1>2, <2>1, <2>2 DEF CallsTyped
  <2> QED BY <1>1, <1>2, <2>3 DEF Newer, AtLeast, First, Result, Changing
<1> QED BY <1>3, <1>4

\* The call of m returned.
LEMMA NewerHasToken ==
  ASSUME BaseInv, UseOAuth, NEW m \in Message, Newer(m), HasToken(m)
  PROVE  Newer(m)'
<1>0. /\ m \in Caller /\ First(m) \in Nat /\ Result(m) \in Nat /\ issued \in Nat
      /\ cache[ClientOf[m]] \in Nat
  BY Numbers
<1>1. /\ stage[m] \in Asking /\ call[m].at = "returned"
      /\ UNCHANGED <<issued, cache, lost>> /\ call' = [call EXCEPT ![m] = NoCall]
      /\ stage' = [stage EXCEPT ![m] = AnswerTo(m)]
  BY DEF HasToken, Collect, Moves, Asking, authVars, ghostVars
<1>2. call'[m].at = "idle"
  BY <1>0, <1>1, NoCallIsIdle DEF BaseInv, IInv, TokenTypeOK
<1>3. stage'[m] = AnswerTo(m)
  BY <1>1 DEF BaseInv, PostsTyped
<1>4. CASE Result(m) = 0
  <2>1. stage'[m] = "failed"
    BY <1>3, <1>4 DEF AnswerTo, Result
  <2>2. sent'[m].first \in {First(m), 0}
    BY <1>4 DEF HasToken, First, Result, BaseInv, PostsTyped
  <2> QED BY <1>0, <1>1, <1>2, <2>1, <2>2 DEF Newer, AtLeast, First, Changing
<1>5. CASE Result(m) # 0 /\ stage[m] = "token"
  <2>1. stage'[m] = "post"
    BY <1>3, <1>5 DEF AnswerTo, Result
  <2>2. sent'[m].first = Result(m)
    BY <1>5 DEF HasToken, Result, BaseInv, PostsTyped
  <2> QED BY <1>0, <1>1, <1>2, <2>1, <2>2 DEF Newer, AtLeast, First, Changing
<1>6. CASE Result(m) # 0 /\ stage[m] = "refresh"
  <2>1. stage'[m] = "retoken"
    BY <1>3, <1>6 DEF AnswerTo, Result
  <2>2. sent'[m] = sent[m]
    BY <1>6 DEF HasToken, BaseInv, PostsTyped
  <2> QED BY <1>0, <1>1, <1>2, <1>6, <2>1, <2>2 DEF Newer, AtLeast, First, Changing
<1>7. CASE Result(m) # 0 /\ stage[m] = "retoken"
  <2>1. stage'[m] = "repost"
    BY <1>3, <1>7 DEF AnswerTo, Result
  <2>2. sent'[m].first = First(m) /\ sent'[m].second = Result(m)
    BY <1>7 DEF HasToken, First, Result, BaseInv, PostsTyped
  <2> QED BY <1>0, <1>1, <1>2, <1>7, <2>1, <2>2 DEF Newer, AtLeast, First, Changing
<1> QED BY <1>1, <1>4, <1>5, <1>6, <1>7 DEF Asking

\* The message moves on without the OAuth client.
LEMMA NewerMoves ==
  ASSUME BaseInv, UseOAuth, NEW m \in Message, Newer(m),
         Take \/ Spawn \/ Send(m) \/ Post(m) \/ Answer(m),
         stage'[m] # stage[m]
  PROVE  Newer(m)'
<1>1. UNCHANGED <<tokenVars, sent>>
  BY DEF Take, Spawn, Send, Post, Answer
<1>2. stage'[m] = "token" \/ (stage[m] \notin Asking /\ stage'[m] \notin {"retoken", "repost"})
  BY DEF Take, Spawn, Send, Post, Answer, Moves, FirstStage, Refused, Asking, BaseInv, PostsTyped
<1> QED
  BY <1>1, <1>2 DEF Newer, AtLeast, First, Result, Asking, Changing, tokenVars, authVars, ghostVars

LEMMA NewerStep ==
  ASSUME BaseInv, UseOAuth, NEW m \in Message, Newer(m), [Next]_vars
  PROVE  Newer(m)'
<1>a. [TokenNext]_tokenVars /\ m \in Caller
  BY StepSimulated, Numbers DEF BaseInv
<1>b. CallsTyped /\ stage \in [Message -> Stages] /\ DOMAIN sent = Message
  BY TypeParts DEF BaseInv, IInv, PostsTyped
<1>c. UNCHANGED <<call[m], stage[m], sent[m]>> => Newer(m)'
  BY <1>a, NewerElsewhere
<1>1. ASSUME Take \/ Spawn PROVE Newer(m)'
  <2>1. CASE stage'[m] = stage[m]
    BY <1>1, <1>c, <2>1 DEF Take, Spawn, tokenVars
  <2> QED BY <1>1, <2>1, NewerMoves
<1>2. ASSUME NEW n \in Message, Send(n) \/ Post(n) \/ Answer(n) PROVE Newer(m)'
  <2>1. CASE stage'[m] = stage[m]
    BY <1>2, <1>c, <2>1 DEF Send, Post, Answer, tokenVars
  <2>2. CASE stage'[m] # stage[m]
    <3>1. n = m
      BY <1>2, <1>b, <2>2 DEF Send, Post, Answer, Moves
    <3> QED BY <1>2, <2>2, <3>1, NewerMoves
  <2> QED BY <2>1, <2>2
<1>3. ASSUME NEW n \in Message, Asks(n) PROVE Newer(m)'
  <2>1. CASE n # m
    <3>1. PICK op, k : Start(n, op, k) /\ UNCHANGED <<stage, sent>>
      BY <1>3 DEF Asks, postVars
    <3>2. call'[m] = call[m]
      BY <1>a, <1>b, <2>1, <3>1 DEF Start, Returns, CallsTyped
    <3> QED BY <1>c, <3>1, <3>2
  <2> QED BY <1>3, <2>1, NewerAsks
<1>4. ASSUME NEW n \in Message, HasToken(n) PROVE Newer(m)'
  <2>1. CASE n # m
    BY <1>4, <1>a, <1>b, <1>c, <2>1 DEF HasToken, Collect, Moves, CallsTyped
  <2> QED BY <1>4, <2>1, NewerHasToken
<1>5. ASSUME NEW t \in Caller, OAuthStep(t) PROVE Newer(m)'
  <2>0. UNCHANGED <<stage, sent>> /\ TokenStep(t)
    BY <1>5 DEF OAuthStep, postVars
  <2>1. CASE t # m
    <3>1. call'[m] = call[m]
      BY <1>a, <1>b, <2>0, <2>1 DEF TokenStep, TakeLock, LockStore, Load, Refresh, TimeOut,
         Install, Save, Returns, Goes, CallsTyped
    <3> QED BY <1>c, <2>0, <3>1
  <2> QED BY <2>0, <2>1, NewerCall
<1>6. ASSUME NEW t \in Others, Calls(t) \/ Takes(t) \/ (Drop(t) /\ UNCHANGED postVars)
                               \/ (NewGrant(t) /\ UNCHANGED postVars)
      PROVE  Newer(m)'
  <2>1. t # m /\ UNCHANGED <<stage, sent>>
    BY <1>6 DEF Others, Calls, Takes, postVars
  <2>2. call'[m] = call[m]
    BY <1>6, <1>a, <1>b, <2>1
       DEF Calls, Takes, Start, Returns, Collect, Drop, NewGrant, CallsTyped
  <2> QED BY <1>c, <2>1, <2>2
<1>7. ASSUME Revoke \/ ((Expire \/ RemoveCredential) /\ UNCHANGED postVars)
      PROVE  Newer(m)'
  BY <1>7, <1>c DEF Revoke, Expire, RemoveCredential, postVars, tokenVars
<1>8. ASSUME UNCHANGED vars PROVE Newer(m)'
  BY <1>8, <1>c DEF vars, postVars, tokenVars
<1> QED
  BY <1>1, <1>2, <1>3, <1>4, <1>5, <1>6, <1>7, <1>8 DEF Next, PostStep

\* A message that is sent again after a 401 carries a newer token than the
\* one that was refused (retry_unauthorized, refresh_access_token_if_current).
THEOREM RetriedWithNewer == Spec => []RetryHasNewToken
<1>1. Init => AllNewer
  <2> SUFFICES ASSUME Init, UseOAuth, NEW m \in Message PROVE Newer(m)
    BY DEF AllNewer
  <2>1. m \in Caller /\ ClientOf[m] \in Client
    BY PostAssumption, CallerAssumption DEF Message
  <2>2. call[m].at = "idle" /\ First(m) = 0 /\ issued = 1 /\ cache[ClientOf[m]] \in {0, 1}
    BY <2>1, NoCallIsIdle DEF Init, TokenInit, First
  <2> QED BY <2>2 DEF Init, Newer, AtLeast, Changing
<1>2. BaseInv /\ AllNewer /\ [Next]_vars => AllNewer'
  BY NewerStep DEF AllNewer
<1>3. BaseInv /\ AllNewer => RetryHasNewToken
  <2> SUFFICES ASSUME BaseInv, AllNewer, NEW m \in Message, stage[m] = "repost", ~lost
               PROVE  sent[m].second # sent[m].first
    BY DEF RetryHasNewToken
  <2>1. UseOAuth
    BY DEF BaseInv, NoTokens
  <2> QED BY <2>1, Numbers DEF AllNewer, Newer, First
<1> QED BY <1>1, <1>2, <1>3, Base, PTL DEF Spec

=============================================================================
