--------------------------- MODULE JwksCacheProofs ---------------------------
(***************************************************************************)
(* Proofs about the key cache, for every number of validations and keys,   *)
(* every lifetime and every cooldown.  Only the holder of refresh_lock     *)
(* fetches, so the reason for which it fetches still holds when it stores; *)
(* and the times of the cache are ordered: a refresh is dated before the   *)
(* endpoint is asked, a set after it has answered.                         *)
(***************************************************************************)
EXTENDS JwksCache, TLAPS

Fetching(t) == at[t] \in {"fetch", "answered"}

\* Who fetches holds the lock; only an ended validation has a result; a token
\* without a key id never asks for one.
Discipline ==
  \A t \in Task :
    /\ Fetching(t) => lock = {t}
    /\ at[t] # "done" => result[t] = "none"
    /\ ~Fetching(t) => mark[t] = {}
    /\ at[t] = "waitKid" => kid[t] # NoKid /\ cached
    /\ mark[t] # {} => kid[t] # NoKid /\ cached

\* Nothing is dated in the future, and a set after the refresh that made it.
Ordered ==
  /\ fetchedAt <= clock
  /\ \A last \in forcedAt : last <= fetchedAt
  /\ \A last \in lastForced : last <= clock
  /\ \A t \in Task : began[t] <= clock /\ \A m \in mark[t] : m <= clock
  /\ \A k \in Kid : since[k] <= clock

\* The reason for which a task fetches still holds.
Reasons ==
  \A t \in Task : Fetching(t) =>
    /\ mark[t] = {} => ~Fresh
    /\ mark[t] # {} => kid[t] \notin keys

\* The last forced refresh is remembered, or its cooldown has passed.
Remembered ==
  Cooldown <= TTL =>
    \A last \in lastForced : (cached /\ forcedAt = {last}) \/ last + Cooldown <= clock

\* A validation that waits to ask for its key has seen a recent set, and so is
\* every later one.
Recent ==
  \A t \in Task :
    /\ at[t] = "waitKid" \/ mark[t] # {} => began[t] < fetchedAt + TTL
    /\ result[t] = "key" => began[t] < usedAt[t] + TTL

\* A published key that a set lacks was published after the refresh that made
\* the set had begun.
Missing ==
  /\ \A k \in Kid \ keys : \A last \in forcedAt : k \in published => last <= since[k]
  /\ \A t \in Task : at[t] = "answered" =>
       \A k \in Kid \ answer[t] : k \in published =>
         began[t] <= since[k] /\ \A m \in mark[t] : m <= since[k]
  /\ \A t \in Task : result[t] = "invalid" /\ kid[t] \in published =>
       began[t] < since[kid[t]] + Cooldown

IInv == TypeOK /\ Discipline /\ Ordered /\ Reasons /\ Remembered /\ Recent /\ Missing

LEMMA Initially == Init => IInv
<1> SUFFICES ASSUME Init PROVE IInv
  OBVIOUS
<1> USE DEF Init
<1>a. 0 \in Time
  BY TimeAssumption DEF Time
<1>b. {} \in Option(Time) /\ {} \in Option(Task)
  BY DEF Option
<1>1. TypeOK
  BY <1>a, <1>b DEF TypeOK
<1>2. Discipline /\ Ordered /\ Reasons /\ Recent /\ Missing
  BY TimeAssumption DEF Discipline, Ordered, Reasons, Recent, Missing, Fetching
<1>3. Remembered
  BY DEF Remembered
<1> QED
  BY <1>1, <1>2, <1>3 DEF IInv

LEMMA TypeStep == TypeOK /\ [Next]_vars => TypeOK'
<1> SUFFICES ASSUME TypeOK, [Next]_vars PROVE TypeOK'
  OBVIOUS
<1> USE TimeAssumption DEF TypeOK, Time, Option
<1>1. ASSUME NEW t \in Task, Begin(t) PROVE TypeOK'
  BY <1>1 DEF Begin, Chooses, Ends, Goes, cacheVars, issuerVars
<1>2. ASSUME NEW t \in Task, LockForLoad(t) PROVE TypeOK'
  BY <1>2 DEF LockForLoad, Chooses, Ends, Goes, cacheVars, issuerVars
<1>3. ASSUME NEW t \in Task, LockForKid(t) PROVE TypeOK'
  BY <1>3 DEF LockForKid, Settles, Ends, Goes, cacheVars, issuerVars
<1>4. ASSUME NEW t \in Task, Answered(t) PROVE TypeOK'
  BY <1>4 DEF Answered, Goes, cacheVars, issuerVars
<1>5. ASSUME NEW t \in Task, FetchFails(t) PROVE TypeOK'
  BY <1>5 DEF FetchFails, Ends, Goes, cacheVars, issuerVars
<1>6. ASSUME NEW t \in Task, Store(t) PROVE TypeOK'
  BY <1>6 DEF Store, Chooses, Settles, Ends, Goes, cacheVars, issuerVars
<1>7. ASSUME NEW t \in Task, Leave(t) PROVE TypeOK'
  <2>1. lock' \in {{}} \cup {{x} : x \in Task}
    BY <1>7 DEF Leave
  <2> QED
    BY <1>7, <2>1 DEF Leave, Goes, cacheVars, issuerVars
<1>8. ASSUME NEW k \in Kid, Publish(k) \/ Retire(k) PROVE TypeOK'
  BY <1>8 DEF Publish, Retire, cacheVars, taskVars
<1>9. CASE Tick
  BY <1>9 DEF Tick, cacheVars, taskVars, issuerVars
<1>10. CASE UNCHANGED vars
  BY <1>10 DEF vars, cacheVars, taskVars, issuerVars
<1> QED
  BY <1>1, <1>2, <1>3, <1>4, <1>5, <1>6, <1>7, <1>8, <1>9, <1>10 DEF Next, Validate

LEMMA DisciplineStep == TypeOK /\ Discipline /\ [Next]_vars => Discipline'
<1> SUFFICES ASSUME TypeOK, Discipline, [Next]_vars PROVE Discipline'
  OBVIOUS
<1> USE KidAssumption DEF TypeOK, Discipline, Fetching
<1>1. ASSUME NEW t \in Task, Begin(t) PROVE Discipline'
  BY <1>1 DEF Begin, Chooses, Ends, Goes, Fresh, cacheVars, issuerVars
<1>2. ASSUME NEW t \in Task, LockForLoad(t) PROVE Discipline'
  BY <1>2 DEF LockForLoad, Chooses, Ends, Goes, Fresh, cacheVars, issuerVars
<1>3. ASSUME NEW t \in Task, LockForKid(t) PROVE Discipline'
  BY <1>3 DEF LockForKid, Settles, Ends, Goes, cacheVars, issuerVars
<1>4. ASSUME NEW t \in Task, Answered(t) PROVE Discipline'
  BY <1>4 DEF Answered, Goes, cacheVars, issuerVars
<1>5. ASSUME NEW t \in Task, FetchFails(t) PROVE Discipline'
  BY <1>5 DEF FetchFails, Ends, Goes, cacheVars, issuerVars
<1>6. ASSUME NEW t \in Task, Store(t) PROVE Discipline'
  BY <1>6 DEF Store, Chooses, Settles, Ends, Goes, cacheVars, issuerVars
<1>7. ASSUME NEW t \in Task, Leave(t) PROVE Discipline'
  BY <1>7 DEF Leave, Goes, cacheVars, issuerVars
<1>8. ASSUME NEW k \in Kid, Publish(k) \/ Retire(k) PROVE Discipline'
  BY <1>8 DEF Publish, Retire, cacheVars, taskVars
<1>9. CASE Tick
  BY <1>9 DEF Tick, cacheVars, taskVars, issuerVars
<1>10. CASE UNCHANGED vars
  BY <1>10 DEF vars, cacheVars, taskVars, issuerVars
<1> QED
  BY <1>1, <1>2, <1>3, <1>4, <1>5, <1>6, <1>7, <1>8, <1>9, <1>10 DEF Next, Validate

LEMMA OrderedStep == TypeOK /\ Ordered /\ [Next]_vars => Ordered'
<1> SUFFICES ASSUME TypeOK, Ordered, [Next]_vars PROVE Ordered'
  OBVIOUS
<1> USE TimeAssumption DEF TypeOK, Time, Option, Ordered
<1>1. ASSUME NEW t \in Task, Begin(t) PROVE Ordered'
  BY <1>1 DEF Begin, Chooses, Ends, Goes, cacheVars, issuerVars
<1>2. ASSUME NEW t \in Task, LockForLoad(t) PROVE Ordered'
  BY <1>2 DEF LockForLoad, Chooses, Ends, Goes, cacheVars, issuerVars
<1>3. ASSUME NEW t \in Task, LockForKid(t) PROVE Ordered'
  BY <1>3 DEF LockForKid, Settles, Ends, Goes, cacheVars, issuerVars
<1>4. ASSUME NEW t \in Task, Answered(t) PROVE Ordered'
  BY <1>4 DEF Answered, Goes, cacheVars, issuerVars
<1>5. ASSUME NEW t \in Task, FetchFails(t) PROVE Ordered'
  BY <1>5 DEF FetchFails, Ends, Goes, cacheVars, issuerVars
<1>6. ASSUME NEW t \in Task, Store(t) PROVE Ordered'
  BY <1>6 DEF Store, Chooses, Settles, Ends, Goes, cacheVars, issuerVars
<1>7. ASSUME NEW t \in Task, Leave(t) PROVE Ordered'
  BY <1>7 DEF Leave, Goes, cacheVars, issuerVars
<1>8. ASSUME NEW k \in Kid, Publish(k) \/ Retire(k) PROVE Ordered'
  BY <1>8 DEF Publish, Retire, cacheVars, taskVars
<1>9. CASE Tick
  BY <1>9 DEF Tick, cacheVars, taskVars, issuerVars
<1>10. CASE UNCHANGED vars
  BY <1>10 DEF vars, cacheVars, taskVars, issuerVars
<1> QED
  BY <1>1, <1>2, <1>3, <1>4, <1>5, <1>6, <1>7, <1>8, <1>9, <1>10 DEF Next, Validate

LEMMA ReasonsStep == TypeOK /\ Discipline /\ Reasons /\ [Next]_vars => Reasons'
<1> SUFFICES ASSUME TypeOK, Discipline, Reasons, [Next]_vars PROVE Reasons'
  OBVIOUS
<1> USE TimeAssumption DEF TypeOK, Time, Option, Discipline, Fetching, Reasons
<1>1. ASSUME NEW t \in Task, Begin(t) PROVE Reasons'
  BY <1>1 DEF Begin, Chooses, Ends, Goes, Fresh, cacheVars, issuerVars
<1>2. ASSUME NEW t \in Task, LockForLoad(t) PROVE Reasons'
  BY <1>2 DEF LockForLoad, Chooses, Ends, Goes, Fresh, cacheVars, issuerVars
<1>3. ASSUME NEW t \in Task, LockForKid(t) PROVE Reasons'
  BY SMTT(30), <1>3 DEF LockForKid, Settles, Ends, Goes, Fresh, Cooling, Has, cacheVars, issuerVars
<1>4. ASSUME NEW t \in Task, Answered(t) PROVE Reasons'
  BY <1>4 DEF Answered, Goes, Fresh, cacheVars, issuerVars
<1>5. ASSUME NEW t \in Task, FetchFails(t) PROVE Reasons'
  BY <1>5 DEF FetchFails, Ends, Goes, Fresh, cacheVars, issuerVars
<1>6. ASSUME NEW t \in Task, Store(t) PROVE Reasons'
  BY <1>6 DEF Store, Chooses, Settles, Ends, Goes, Fresh, Has, cacheVars, issuerVars
<1>7. ASSUME NEW t \in Task, Leave(t) PROVE Reasons'
  BY <1>7 DEF Leave, Goes, Fresh, cacheVars, issuerVars
<1>8. ASSUME NEW k \in Kid, Publish(k) \/ Retire(k) PROVE Reasons'
  BY <1>8 DEF Publish, Retire, Fresh, cacheVars, taskVars
<1>9. CASE Tick
  BY <1>9 DEF Tick, Fresh, cacheVars, taskVars, issuerVars
<1>10. CASE UNCHANGED vars
  BY <1>10 DEF vars, Fresh, cacheVars, taskVars, issuerVars
<1> QED
  BY <1>1, <1>2, <1>3, <1>4, <1>5, <1>6, <1>7, <1>8, <1>9, <1>10 DEF Next, Validate

LEMMA RememberedStep ==
  TypeOK /\ Discipline /\ Ordered /\ Reasons /\ Remembered /\ [Next]_vars => Remembered'
<1> SUFFICES ASSUME TypeOK, Discipline, Ordered, Reasons, Remembered, [Next]_vars PROVE Remembered'
  OBVIOUS
<1> USE TimeAssumption DEF TypeOK, Time, Option, Discipline, Fetching, Ordered, Reasons, Remembered
<1>1. ASSUME NEW t \in Task, Begin(t) PROVE Remembered'
  BY <1>1 DEF Begin, Chooses, Ends, Goes, Fresh, cacheVars, issuerVars
<1>2. ASSUME NEW t \in Task, LockForLoad(t) PROVE Remembered'
  BY <1>2 DEF LockForLoad, Chooses, Ends, Goes, Fresh, cacheVars, issuerVars
<1>3. ASSUME NEW t \in Task, LockForKid(t) PROVE Remembered'
  BY <1>3 DEF LockForKid, Settles, Ends, Goes, Fresh, Cooling, Has, cacheVars, issuerVars
<1>4. ASSUME NEW t \in Task, Answered(t) PROVE Remembered'
  BY <1>4 DEF Answered, Goes, Fresh, cacheVars, issuerVars
<1>5. ASSUME NEW t \in Task, FetchFails(t) PROVE Remembered'
  BY <1>5 DEF FetchFails, Ends, Goes, Fresh, cacheVars, issuerVars
<1>6. ASSUME NEW t \in Task, Store(t) PROVE Remembered'
  <2>1. cached' /\ forcedAt' = mark[t] /\ clock' = clock /\ Fetching(t)
    BY <1>6 DEF Store, issuerVars
  <2>2. CASE mark[t] # {}
    BY <1>6, <2>1, <2>2 DEF Store
  <2>3. CASE mark[t] = {}
    <3>1. lastForced' = lastForced
      BY <1>6, <2>3 DEF Store
    <3>2. ~Fresh
      BY <2>1, <2>3
    <3>3. ASSUME Cooldown <= TTL, NEW last \in lastForced PROVE last + Cooldown <= clock
      <4>1. CASE cached /\ forcedAt = {last}
        <5>1. last \in Nat /\ fetchedAt \in Nat /\ clock \in Nat /\ last <= fetchedAt
          BY <4>1
        <5>2. fetchedAt + TTL <= clock
          BY <3>2, <4>1, <5>1 DEF Fresh
        <5> QED
          BY <3>3, <5>1, <5>2
      <4> QED
        BY <3>3, <4>1
    <3> QED
      BY <2>1, <3>1, <3>3
  <2> QED
    BY <2>2, <2>3
<1>7. ASSUME NEW t \in Task, Leave(t) PROVE Remembered'
  BY <1>7 DEF Leave, Goes, Fresh, cacheVars, issuerVars
<1>8. ASSUME NEW k \in Kid, Publish(k) \/ Retire(k) PROVE Remembered'
  BY <1>8 DEF Publish, Retire, Fresh, cacheVars, taskVars
<1>9. CASE Tick
  BY <1>9 DEF Tick, Fresh, cacheVars, taskVars, issuerVars
<1>10. CASE UNCHANGED vars
  BY <1>10 DEF vars, Fresh, cacheVars, taskVars, issuerVars
<1> QED
  BY <1>1, <1>2, <1>3, <1>4, <1>5, <1>6, <1>7, <1>8, <1>9, <1>10 DEF Next, Validate

LEMMA RecentStep == TypeOK /\ Discipline /\ Ordered /\ Recent /\ [Next]_vars => Recent'
<1> SUFFICES ASSUME TypeOK, Discipline, Ordered, Recent, [Next]_vars PROVE Recent'
  OBVIOUS
<1> USE TimeAssumption, KidAssumption DEF TypeOK, Time, Option, Discipline, Fetching, Ordered, Recent
<1>1. ASSUME NEW t \in Task, Begin(t) PROVE Recent'
  BY <1>1 DEF Begin, Chooses, Ends, Goes, Fresh, cacheVars, issuerVars
<1>2. ASSUME NEW t \in Task, LockForLoad(t) PROVE Recent'
  BY <1>2 DEF LockForLoad, Chooses, Ends, Goes, Fresh, cacheVars, issuerVars
<1>3. ASSUME NEW t \in Task, LockForKid(t) PROVE Recent'
  BY <1>3 DEF LockForKid, Settles, Ends, Goes, Fresh, Cooling, Has, cacheVars, issuerVars
<1>4. ASSUME NEW t \in Task, Answered(t) PROVE Recent'
  BY <1>4 DEF Answered, Goes, Fresh, cacheVars, issuerVars
<1>5. ASSUME NEW t \in Task, FetchFails(t) PROVE Recent'
  BY <1>5 DEF FetchFails, Ends, Goes, Fresh, cacheVars, issuerVars
<1>6. ASSUME NEW t \in Task, Store(t) PROVE Recent'
  BY <1>6 DEF Store, Chooses, Settles, Ends, Goes, Fresh, Has, cacheVars, issuerVars
<1>7. ASSUME NEW t \in Task, Leave(t) PROVE Recent'
  BY <1>7 DEF Leave, Goes, Fresh, cacheVars, issuerVars
<1>8. ASSUME NEW k \in Kid, Publish(k) \/ Retire(k) PROVE Recent'
  BY <1>8 DEF Publish, Retire, Fresh, cacheVars, taskVars
<1>9. CASE Tick
  BY <1>9 DEF Tick, Fresh, cacheVars, taskVars, issuerVars
<1>10. CASE UNCHANGED vars
  BY <1>10 DEF vars, Fresh, cacheVars, taskVars, issuerVars
<1> QED
  BY <1>1, <1>2, <1>3, <1>4, <1>5, <1>6, <1>7, <1>8, <1>9, <1>10 DEF Next, Validate

LEMMA MissingStep == TypeOK /\ Discipline /\ Ordered /\ Missing /\ [Next]_vars => Missing'
<1> SUFFICES ASSUME TypeOK, Discipline, Ordered, Missing, [Next]_vars PROVE Missing'
  OBVIOUS
<1> USE TimeAssumption, KidAssumption DEF TypeOK, Time, Option, Discipline, Fetching, Ordered, Missing
<1>1. ASSUME NEW t \in Task, Begin(t) PROVE Missing'
  BY <1>1 DEF Begin, Chooses, Ends, Goes, Fresh, cacheVars, issuerVars
<1>2. ASSUME NEW t \in Task, LockForLoad(t) PROVE Missing'
  BY <1>2 DEF LockForLoad, Chooses, Ends, Goes, Fresh, cacheVars, issuerVars
<1>3. ASSUME NEW t \in Task, LockForKid(t) PROVE Missing'
  BY <1>3 DEF LockForKid, Settles, Ends, Goes, Fresh, Cooling, Has, cacheVars, issuerVars
<1>4. ASSUME NEW t \in Task, Answered(t) PROVE Missing'
  BY <1>4 DEF Answered, Goes, Fresh, cacheVars, issuerVars
<1>5. ASSUME NEW t \in Task, FetchFails(t) PROVE Missing'
  BY <1>5 DEF FetchFails, Ends, Goes, Fresh, cacheVars, issuerVars
<1>6. ASSUME NEW t \in Task, Store(t) PROVE Missing'
  BY <1>6 DEF Store, Chooses, Settles, Ends, Goes, Fresh, Has, cacheVars, issuerVars
<1>7. ASSUME NEW t \in Task, Leave(t) PROVE Missing'
  BY <1>7 DEF Leave, Goes, Fresh, cacheVars, issuerVars
<1>8. ASSUME NEW k \in Kid, Publish(k) \/ Retire(k) PROVE Missing'
  BY <1>8 DEF Publish, Retire, Fresh, cacheVars, taskVars
<1>9. CASE Tick
  BY <1>9 DEF Tick, Fresh, cacheVars, taskVars, issuerVars
<1>10. CASE UNCHANGED vars
  BY <1>10 DEF vars, Fresh, cacheVars, taskVars, issuerVars
<1> QED
  BY <1>1, <1>2, <1>3, <1>4, <1>5, <1>6, <1>7, <1>8, <1>9, <1>10 DEF Next, Validate

LEMMA Inductive == IInv /\ [Next]_vars => IInv'
BY TypeStep, DisciplineStep, OrderedStep, ReasonsStep, RememberedStep, RecentStep, MissingStep
   DEF IInv

\* Every part of the invariant holds in every state.
THEOREM Invariance == Spec => []IInv
BY Initially, Inductive, PTL DEF Spec

\* The variables keep their types.
THEOREM TypeCorrect == Spec => []TypeOK
<1>1. IInv => TypeOK
  BY DEF IInv
<1> QED
  BY <1>1, Invariance, PTL

\* No key is taken from a set that was older than its lifetime when the token
\* came.
THEOREM NoStaleKey == Spec => []KeysAreRecent
<1>1. IInv => KeysAreRecent
  BY DEF IInv, Recent, KeysAreRecent
<1> QED
  BY <1>1, Invariance, PTL

\* No token is refused for a key published a cooldown before it came.
THEOREM NoKeyIsHidden == Spec => []PublishedKeysAreFound
<1>1. IInv => PublishedKeysAreFound
  BY DEF IInv, Missing, PublishedKeysAreFound
<1> QED
  BY <1>1, Invariance, PTL

\* Successful refreshes for unknown key ids are a cooldown apart.
THEOREM CooldownHolds == Spec => ForcedApart
<1>1. IInv /\ [Next]_vars =>
        [\A t \in Task : Cooldown <= TTL /\ at[t] = "waitKid" /\ at'[t] = "fetch"
           => \A last \in lastForced : last + Cooldown <= clock]_vars
  <2> SUFFICES ASSUME IInv, Next, NEW t \in Task, Cooldown <= TTL,
                      at[t] = "waitKid", at'[t] = "fetch", NEW last \in lastForced
               PROVE  last + Cooldown <= clock
    OBVIOUS
  <2> USE DEF IInv, TypeOK
  <2>1. LockForKid(t)
    <3>1. ASSUME NEW u \in Task, Validate(u) PROVE LockForKid(t)
      BY <3>1 DEF Validate, Begin, LockForLoad, LockForKid, Answered, FetchFails, Store, Leave,
                  Chooses, Settles, Ends, Goes
    <3>2. ASSUME NEW k \in Kid, Publish(k) \/ Retire(k) PROVE FALSE
      BY <3>2 DEF Publish, Retire, taskVars
    <3>3. ~Tick
      BY DEF Tick, taskVars
    <3> QED
      BY <3>1, <3>2, <3>3 DEF Next
  <2>2. last \in Nat /\ clock \in Nat
    BY TimeAssumption DEF Time, Option
  <2>3. ~(cached /\ Cooling)
    BY <2>1 DEF LockForKid, Settles, Ends, Goes
  <2> QED
    BY <2>2, <2>3, TimeAssumption DEF Cooling, Remembered
<1> QED
  BY <1>1, Invariance, PTL DEF Spec, ForcedApart

\* No fetched set replaces one that would have done.
THEOREM NoStampede == Spec => ReplacesWithReason
<1>1. IInv /\ [Next]_vars =>
        [\A t \in Task : at[t] = "answered" /\ at'[t] # "answered" /\ cacheVars' # cacheVars
           => ~Fresh \/ kid[t] \notin keys \cup {NoKid}]_vars
  <2> SUFFICES ASSUME IInv, Next, NEW t \in Task, at[t] = "answered", at'[t] # "answered",
                      cacheVars' # cacheVars
               PROVE  ~Fresh \/ kid[t] \notin keys \cup {NoKid}
    OBVIOUS
  <2>1. ~Fresh \/ (mark[t] # {} /\ kid[t] \notin keys)
    BY DEF IInv, Reasons, Fetching
  <2> QED
    BY <2>1 DEF IInv, Discipline
<1> QED
  BY <1>1, Invariance, PTL DEF Spec, ReplacesWithReason
==============================================================================
