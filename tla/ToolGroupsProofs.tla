--------------------------- MODULE ToolGroupsProofs ---------------------------
(***************************************************************************)
(* Proofs about ToolGroups, for every tree of groups, every exclusions and *)
(* any number of tasks.  The inductive invariant says what the plan of the *)
(* task that holds activation_lock still knows of the registry while hooks *)
(* run and others register: the active flags have not moved, what it turns *)
(* off is closed under descendants, and the hooks that ran are the only    *)
(* difference between what is set up and what is active.                   *)
(***************************************************************************)
EXTENDS ToolGroups, TLAPS

\* A registered group has its ancestors, as no registration was undone.
RegisteredNested ==
  rolledBack = {} => \A g \in registered : Above[g] \subseteq registered

\* The task that holds the lock has a plan for its group, which is registered.
PlanOfHolder ==
  /\ lock = {} => plan = NoPlan
  /\ \A t \in lock :
       /\ call[t] \in Change
       /\ plan.on \subseteq {call[t].group}
       /\ rolledBack = {} => call[t].group \in registered

\* What the plan says of the active flags.
PlanFits ==
  Orderly /\ lock # {} =>
    /\ \A h \in active : Above[h] \cap plan.down # {} => h \in plan.down
    /\ plan.on \cap active = {}
    /\ \A g \in plan.on : g \notin plan.down /\ Above[g] \subseteq active \ plan.down
    /\ \A E \in armed : \A g \in plan.on, h \in E :
         g \in E /\ h \in active /\ h # g => h \in plan.down

\* Which hooks are left to run, and in which order.
PlanHooks ==
  /\ plan.teardown \subseteq plan.down \cap Hooked
  /\ plan.setup \subseteq plan.on \cap Hooked
  /\ plan.ran \subseteq (plan.down \cup plan.on) \cap Hooked
  /\ plan.teardown \cap plan.on = {}
  /\ plan.down \cap active \cap Hooked \subseteq plan.teardown \cup plan.ran
  /\ plan.on \cap Hooked \subseteq plan.setup \cup plan.ran
  /\ \A g \in plan.teardown, h \in plan.ran \ plan.on : h \notin Above[g]
  /\ ~plan.changed => plan.teardown = {} /\ plan.setup = {} /\ plan.ran = {}

\* What the hooks did.
HookEffects ==
  /\ up \subseteq Hooked
  /\ \A g \in Hooked \ (suspect \cup plan.ran) : g \in up <=> g \in active
  /\ \A g \in plan.ran : g \in up <=> g \in plan.on

IInv ==
  /\ TypeOK
  /\ RegisteredNested
  /\ PlanOfHolder
  /\ PlanFits
  /\ PlanHooks
  /\ HookEffects
  /\ Nested
  /\ ExclusionsHold
  /\ ChangesAnnounced

-----------------------------------------------------------------------------
(* Facts about one state.                                                  *)

\* Without a registration undone, the walk over the descendants of a group
\* meets every registered group below it.
LEMMA BelowIs ==
  ASSUME TypeOK, RegisteredNested, rolledBack = {}, NEW g \in Group
  PROVE  Below(g) = {g} \cup {h \in registered : g \in Above[h]}
BY NameAssumption DEF TypeOK, RegisteredNested, Below, Reaches

\* An active group is in force, as it sits in active groups.
LEMMA ActiveInForce ==
  ASSUME Nested, Orderly, NEW g \in active
  PROVE  InForce(g)
BY DEF Nested, InForce

\* A plan that was just made is one.
LEMMA PlanForType ==
  ASSUME TypeOK, NEW down \in SUBSET Group, NEW on \in SUBSET Group
  PROVE  PlanFor(down, on) \in Plan
BY ConfigAssumption DEF TypeOK, PlanFor, Plan, HooksOf, Changes

LEMMA TypeInit == Init => TypeOK
<1> SUFFICES ASSUME Init PROVE TypeOK
  OBVIOUS
<1>1. plan \in Plan
  BY DEF Init, NoPlan, Plan
<1>2. call \in [Task -> Call]
  BY DEF Init, Call
<1> QED
  BY <1>1, <1>2 DEF Init, TypeOK

LEMMA InitIInv == Init => IInv
<1> SUFFICES ASSUME Init PROVE IInv
  OBVIOUS
<1>1. TypeOK
  BY TypeInit
<1>2. RegisteredNested /\ PlanOfHolder /\ PlanFits /\ PlanHooks /\ HookEffects
  BY DEF Init, RegisteredNested, PlanOfHolder, PlanFits, PlanHooks, HookEffects, NoPlan
<1>3. Nested /\ ExclusionsHold /\ ChangesAnnounced
  BY DEF Init, Nested, ExclusionsHold, ChangesAnnounced
<1> QED
  BY <1>1, <1>2, <1>3 DEF IInv

-----------------------------------------------------------------------------
(* Type correctness, action by action.                                     *)

LEMMA TypeReturn ==
  ASSUME TypeOK, NEW t \in Task, Return(t)
  PROVE  call' \in [Task -> Call] /\ lock' = {} /\ plan' \in Plan
BY DEF TypeOK, Return, Call, NoPlan, Plan

LEMMA TypeGiveUp ==
  ASSUME TypeOK, NEW t \in Task, NEW H \in SUBSET Group, GiveUp(t, H)
  PROVE  TypeOK'
<1>1. call' \in [Task -> Call] /\ lock' = {} /\ plan' \in Plan
  BY TypeReturn DEF GiveUp
<1>2. suspect' \subseteq Group
  BY DEF TypeOK, GiveUp, Plan
<1> QED
  BY <1>1, <1>2 DEF TypeOK, GiveUp, registryVars

LEMMA TypeMakePlan ==
  ASSUME TypeOK, NEW t \in Task, MakePlan(t)
  PROVE  TypeOK'
<1>1. UNCHANGED <<registryVars, historyVars, armed, rolledBack>>
  BY DEF MakePlan
<1>2. CASE Refused(call[t])
  <2>1. Return(t)
    BY <1>2 DEF MakePlan
  <2> QED
    BY <1>1, <2>1, TypeReturn DEF TypeOK, registryVars, historyVars
<1>3. CASE ~Refused(call[t])
  <2>1. call[t] \in Change
    BY DEF MakePlan
  <2>2. call[t].group \in Group
    BY <2>1 DEF Change
  <2>3. UNION {Below(h) : h \in Rivals(call[t].group)} \subseteq Group
    <3>1. Rivals(call[t].group) \subseteq Group
      BY ConfigAssumption DEF Rivals, TypeOK
    <3> QED
      BY <3>1 DEF Below, TypeOK
  <2>4. ActivationPlan(call[t].group) \in Plan
    <3> DEFINE down == UNION {Below(h) : h \in Rivals(call[t].group)}
               on == {call[t].group} \ active
    <3>1. down \in SUBSET Group /\ on \in SUBSET Group
      BY <2>2, <2>3
    <3> HIDE DEF down, on
    <3>2. PlanFor(down, on) \in Plan
      BY <3>1, PlanForType
    <3> QED
      BY <3>2 DEF ActivationPlan, down, on
  <2>5. Below(call[t].group) \subseteq Group
    BY <2>2 DEF Below, TypeOK
  <2>6. DeactivationPlan(call[t].group) \in Plan
    BY <2>5, PlanForType DEF DeactivationPlan
  <2>7. plan' \in Plan /\ lock' = {t} /\ call' = call
    BY <1>3, <2>4, <2>6 DEF MakePlan
  <2> QED
    BY <1>1, <2>7 DEF TypeOK, registryVars, historyVars
<1> QED
  BY <1>2, <1>3

LEMMA TypeRunHook ==
  ASSUME TypeOK, NEW t \in Task, RunHook(t)
  PROVE  TypeOK'
<1>1. PICK h \in Group :
        /\ HookNext(h)
        /\ \/ /\ up' = IF h \in plan.teardown THEN up \ {h} ELSE up \cup {h}
              /\ plan' = [plan EXCEPT !.teardown = @ \ {h}, !.setup = @ \ {h},
                                      !.ran = @ \cup {h}]
              /\ UNCHANGED <<registryVars, lock, call, suspect, told, lost, armed,
                             rolledBack>>
           \/ GiveUp(t, {h})
  BY DEF RunHook
<1>2. CASE GiveUp(t, {h})
  BY <1>2, TypeGiveUp
<1>3. CASE ~GiveUp(t, {h})
  <2>1. plan' \in Plan
    <3>1. plan \in Plan
      BY DEF TypeOK
    <3>2. plan' = [plan EXCEPT !.teardown = @ \ {h}, !.setup = @ \ {h},
                              !.ran = @ \cup {h}]
      BY <1>1, <1>3
    <3> QED
      BY <3>1, <3>2 DEF Plan
  <2>2. up' \subseteq Group
    BY <1>1, <1>3 DEF TypeOK
  <2>3. UNCHANGED <<registryVars, lock, call, suspect, told, lost, armed, rolledBack>>
    BY <1>1, <1>3
  <2> QED
    BY <2>1, <2>2, <2>3 DEF TypeOK, registryVars
<1> QED
  BY <1>2, <1>3

LEMMA TypeApply ==
  ASSUME TypeOK, PlanOfHolder, NEW t \in Task, Apply(t)
  PROVE  TypeOK'
<1>1. call' \in [Task -> Call] /\ lock' = {} /\ plan' \in Plan
  BY TypeReturn DEF Apply
<1>2. UNCHANGED <<registered, exclusions, tool, up, armed, rolledBack>>
  BY DEF Apply
<1>3. plan.on \subseteq {call[t].group}
  BY DEF Apply, PlanOfHolder
<1>4. active' \subseteq registered /\ suspect' \subseteq Group
  BY <1>3 DEF Apply, Gone, ActiveAfter, TypeOK, Plan
<1>5. told' \subseteq Group /\ lost' \in BOOLEAN
  BY DEF Apply, NotifyListChanged, InForceWith, TypeOK
<1> QED
  BY <1>1, <1>2, <1>4, <1>5 DEF TypeOK

LEMMA TypeRegisterAutoTools ==
  ASSUME TypeOK, NEW t \in Task, RegisterAutoTools(t)
  PROVE  TypeOK'
<1>1. call[t].group \in Group
  BY DEF TypeOK, RegisterAutoTools, Call, Change, Idle
<1>2. call' \in [Task -> Call]
  BY DEF TypeOK, RegisterAutoTools, Call
<1>3. UNCHANGED <<lock, plan, up, told, lost>>
  BY DEF RegisterAutoTools, lockVars
<1>4. CASE ~NameTaken(call[t].group)
  BY <1>1, <1>2, <1>3, <1>4 DEF TypeOK, RegisterAutoTools
<1>5. CASE NameTaken(call[t].group)
  BY <1>1, <1>2, <1>3, <1>5 DEF TypeOK, RegisterAutoTools, Unregistered
<1> QED
  BY <1>4, <1>5

LEMMA TypeOthers ==
  ASSUME TypeOK,
         \/ \E t \in Task : Begin(t) \/ RegisterGroup(t) \/ CheckExclusion(t) \/ AddExclusion(t)
         \/ \E g \in Overridden : RegisterTool(g) \/ UnregisterTool(g)
         \/ UNCHANGED vars
  PROVE  TypeOK'
<1>1. CASE \E t \in Task : Begin(t)
  BY <1>1 DEF TypeOK, Begin, Call, registryVars, lockVars, historyVars
<1>2. CASE \E t \in Task : RegisterGroup(t)
  BY <1>2 DEF TypeOK, RegisterGroup, Call, lockVars, historyVars
<1>3. CASE \E t \in Task : CheckExclusion(t)
  BY <1>3 DEF TypeOK, CheckExclusion, Call, registryVars, lockVars, historyVars
<1>4. CASE \E t \in Task : AddExclusion(t)
  <2>1. PICK t \in Task : AddExclusion(t)
    BY <1>4
  <2>2. call[t].groups \in Candidates
    BY <2>1 DEF TypeOK, AddExclusion, Call, Change, Idle
  <2> QED
    BY <2>1, <2>2 DEF TypeOK, AddExclusion, Call, lockVars, historyVars
<1>5. CASE \E g \in Overridden : RegisterTool(g) \/ UnregisterTool(g)
  BY <1>5, ConfigAssumption
     DEF TypeOK, RegisterTool, UnregisterTool, lockVars, historyVars
<1>6. CASE UNCHANGED vars
  BY <1>6 DEF TypeOK, vars, registryVars, lockVars, historyVars
<1> QED
  BY <1>1, <1>2, <1>3, <1>4, <1>5, <1>6

LEMMA TypeAbandon ==
  ASSUME TypeOK, NEW t \in Task, Abandon(t)
  PROVE  TypeOK'
<1>1. CASE \E h \in Group : GiveUp(t, {}) \/ GiveUp(t, {h})
  BY <1>1, TypeGiveUp
<1>2. CASE ~\E h \in Group : GiveUp(t, {}) \/ GiveUp(t, {h})
  BY <1>2 DEF TypeOK, Abandon, Call, registryVars, lockVars, historyVars
<1> QED
  BY <1>1, <1>2

LEMMA TypeStep == TypeOK /\ PlanOfHolder /\ [Next]_vars => TypeOK'
BY TypeMakePlan, TypeRunHook, TypeApply, TypeRegisterAutoTools, TypeOthers, TypeAbandon
   DEF Next, Step

-----------------------------------------------------------------------------
(* The inductive invariant, action by action.                              *)

RegistryInv == RegisteredNested /\ Nested /\ ExclusionsHold /\ ChangesAnnounced
PlanInv == PlanOfHolder /\ PlanFits /\ PlanHooks /\ HookEffects

\* What the registry keeps to, it keeps to when neither it nor what the client
\* was told changes.
LEMMA RegistryUnchanged ==
  ASSUME RegistryInv, UNCHANGED <<registryVars, told, lost, armed, rolledBack>>
  PROVE  RegistryInv'
BY DEF RegistryInv, RegisteredNested, Nested, ExclusionsHold, ChangesAnnounced, Orderly,
       Flat, Holding, InForce, registryVars

LEMMA FreedPlan ==
  ASSUME NEW t \in Task, Return(t)
  PROVE  PlanOfHolder' /\ PlanFits' /\ PlanHooks'
BY DEF Return, PlanOfHolder, PlanFits, PlanHooks, NoPlan

LEMMA GiveUpInv ==
  ASSUME IInv, NEW t \in Task, NEW H \in SUBSET Group, GiveUp(t, H)
  PROVE  RegistryInv' /\ PlanInv'
<1>1. Return(t) /\ UNCHANGED <<registryVars, up, told, lost, armed, rolledBack>>
  BY DEF GiveUp
<1>2. RegistryInv'
  BY <1>1, RegistryUnchanged DEF IInv, RegistryInv
<1>3. HookEffects'
  <2>1. plan'.ran = {}
    BY <1>1 DEF Return, NoPlan
  <2> QED
    BY <1>1, <2>1 DEF IInv, HookEffects, GiveUp, registryVars
<1> QED
  BY <1>1, <1>2, <1>3, FreedPlan DEF PlanInv

\* A change that is planned: what its down and on mean for the active flags.
LEMMA ActivationFits ==
  ASSUME IInv, Orderly, NEW g \in registered, Above[g] \subseteq active
  PROVE  LET down == UNION {Below(h) : h \in Rivals(g)}
         IN  /\ \A h \in active : Above[h] \cap down # {} => h \in down
             /\ g \notin down /\ Above[g] \cap down = {}
             /\ \A E \in armed : \A h \in E : g \in E /\ h \in active /\ h # g => h \in down
<1> DEFINE down == UNION {Below(h) : h \in Rivals(g)}
<1>1. g \in Group /\ rolledBack = {} /\ Rivals(g) \subseteq Group
  BY ConfigAssumption DEF IInv, TypeOK, Orderly, Rivals
<1>2. \A h \in Rivals(g) : Below(h) = {h} \cup {x \in registered : h \in Above[x]}
  BY <1>1, BelowIs DEF IInv
<1>3. \A x : x \in down <=> \E h \in Rivals(g) : x = h \/ (x \in registered /\ h \in Above[x])
  <2>1. \A x : x \in down <=> \E h \in Rivals(g) : x \in Below(h)
    OBVIOUS
  <2>2. ASSUME NEW h \in Rivals(g), NEW x
        PROVE  x \in Below(h) <=> x = h \/ (x \in registered /\ h \in Above[x])
    BY <1>2
  <2> HIDE DEF down
  <2> QED
    BY <2>1, <2>2
<1>4. \A h \in Rivals(g) : h # g /\ h \notin Above[g] /\ g \notin Above[h]
  BY <1>1 DEF Rivals, Orderly, Flat
<1> HIDE DEF down
<1>5. ASSUME NEW h \in active, NEW x \in Above[h] \cap down
      PROVE  h \in down
  <2>1. PICK r \in Rivals(g) : x = r \/ r \in Above[x]
    BY <1>3
  <2>2. h \in registered /\ h \in Group
    BY DEF IInv, TypeOK
  <2>3. r \in Above[h]
    BY <2>1, <2>2, NameAssumption
  <2> QED
    BY <1>3, <2>2, <2>3
<1>6. g \notin down
  BY <1>3, <1>4
<1>7. ASSUME NEW x \in Above[g] \cap down
      PROVE  FALSE
  <2>1. PICK r \in Rivals(g) : x = r \/ r \in Above[x]
    BY <1>3
  <2>2. r \in Above[g]
    BY <1>1, <2>1, NameAssumption
  <2> QED
    BY <1>4, <2>2
<1>8. ASSUME NEW E \in armed, NEW h \in E, g \in E, h \in active, h # g
      PROVE  h \in down
  <2>1. E \in exclusions
    BY DEF IInv, TypeOK
  <2>2. InForce(h)
    BY <1>8, ActiveInForce DEF IInv
  <2>3. h \in Rivals(g)
    BY <1>8, <2>1, <2>2 DEF Rivals
  <2> QED
    BY <1>3, <2>3
<1>9. Above[g] \cap down = {}
  BY <1>7
<1> QED
  BY <1>5, <1>6, <1>8, <1>9 DEF down

LEMMA DeactivationFits ==
  ASSUME IInv, Orderly, NEW g \in registered
  PROVE  \A h \in active : Above[h] \cap Below(g) # {} => h \in Below(g)
<1>1. g \in Group /\ rolledBack = {}
  BY DEF IInv, TypeOK, Orderly
<1>2. Below(g) = {g} \cup {x \in registered : g \in Above[x]}
  BY <1>1, BelowIs DEF IInv
<1> SUFFICES ASSUME NEW h \in active, NEW x \in Above[h] \cap Below(g)
             PROVE  h \in Below(g)
  OBVIOUS
<1>3. h \in registered /\ h \in Group
  BY DEF IInv, TypeOK
<1>4. g \in Above[h]
  BY <1>2, <1>3, NameAssumption
<1> QED
  BY <1>2, <1>3, <1>4

LEMMA MakePlanInv ==
  ASSUME IInv, NEW t \in Task, MakePlan(t)
  PROVE  RegistryInv' /\ PlanInv'
<1>1. UNCHANGED <<registryVars, historyVars, armed, rolledBack>>
  BY DEF MakePlan
<1>2. RegistryInv'
  BY <1>1, RegistryUnchanged DEF IInv, RegistryInv, historyVars
<1>3. lock = {} /\ plan = NoPlan /\ plan.ran = {}
  BY DEF MakePlan, IInv, PlanOfHolder, NoPlan
<1>4. CASE Refused(call[t])
  <2>1. Return(t)
    BY <1>4 DEF MakePlan
  <2>2. plan'.ran = {}
    BY <2>1 DEF Return, NoPlan
  <2>3. HookEffects'
    BY <1>1, <1>3, <2>2 DEF IInv, HookEffects, registryVars, historyVars
  <2> QED
    BY <1>2, <2>1, <2>3, FreedPlan DEF PlanInv
<1>5. CASE ~Refused(call[t])
  <2> DEFINE g == call[t].group
             down == IF call[t].op = "activate" THEN UNION {Below(h) : h \in Rivals(g)}
                                                ELSE Below(g)
             on == IF call[t].op = "activate" THEN {g} \ active ELSE {}
  <2>1. call[t] \in Change /\ g \in Group /\ g \in registered
    BY <1>5 DEF MakePlan, Refused, Change
  <2>2. plan' = PlanFor(down, on) /\ lock' = {t} /\ call' = call
    BY <1>5 DEF MakePlan, ActivationPlan, DeactivationPlan
  <2>3. down \in SUBSET Group /\ on \in SUBSET Group /\ on \subseteq {g} /\ on \cap active = {}
    <3>1. Rivals(g) \subseteq Group
      BY ConfigAssumption DEF Rivals, IInv, TypeOK
    <3> QED
      BY <2>1, <3>1 DEF Below, IInv, TypeOK
  <2>4. Orderly =>
          /\ \A h \in active : Above[h] \cap down # {} => h \in down
          /\ \A x \in on : x \notin down /\ Above[x] \subseteq active \ down
          /\ \A E \in armed : \A x \in on, h \in E :
               x \in E /\ h \in active /\ h # x => h \in down
    <3> SUFFICES ASSUME Orderly
                 PROVE  /\ \A h \in active : Above[h] \cap down # {} => h \in down
                        /\ \A x \in on : x \notin down /\ Above[x] \subseteq active \ down
                        /\ \A E \in armed : \A x \in on, h \in E :
                             x \in E /\ h \in active /\ h # x => h \in down
      OBVIOUS
    <3>1. CASE call[t].op = "activate"
      <4>1. Above[g] \subseteq active
        BY <1>5, <3>1 DEF Refused
      <4>2. /\ \A h \in active : Above[h] \cap down # {} => h \in down
            /\ g \notin down /\ Above[g] \cap down = {}
            /\ \A E \in armed : \A h \in E :
                 g \in E /\ h \in active /\ h # g => h \in down
        BY <2>1, <3>1, <4>1, ActivationFits
      <4> HIDE DEF down
      <4> QED
        BY <2>3, <4>1, <4>2
    <3>2. CASE call[t].op # "activate"
      BY <2>1, <3>2, DeactivationFits
    <3> QED
      BY <3>1, <3>2
  <2> HIDE DEF down, on
  <2>5. /\ plan'.down = down /\ plan'.on = on /\ plan'.ran = {}
        /\ plan'.teardown = down \cap active \cap Hooked
        /\ plan'.setup = on \cap Hooked
        /\ plan'.changed <=> (on # {} \/ down \cap active # {})
    BY <2>2, <2>3 DEF PlanFor, HooksOf, Changes
  <2>6. PlanOfHolder'
    BY <1>1, <2>1, <2>2, <2>3, <2>5 DEF PlanOfHolder, registryVars
  <2>7. PlanFits'
    <3>1. Orderly' <=> Orderly
      BY <1>1 DEF Orderly, Flat, registryVars
    <3>2. active' = active /\ armed' = armed
      BY <1>1 DEF registryVars
    <3> QED
      BY <2>3, <2>4, <2>5, <3>1, <3>2 DEF PlanFits
  <2>8. PlanHooks'
    BY <1>1, <2>3, <2>5 DEF PlanHooks, registryVars
  <2>9. HookEffects'
    BY <1>1, <1>3, <2>5 DEF IInv, HookEffects, registryVars, historyVars
  <2> QED
    BY <1>2, <2>6, <2>7, <2>8, <2>9 DEF PlanInv
<1> QED
  BY <1>4, <1>5

LEMMA RunHookInv ==
  ASSUME IInv, NEW t \in Task, RunHook(t)
  PROVE  RegistryInv' /\ PlanInv'
<1>1. PICK h \in Group :
        /\ HookNext(h)
        /\ \/ /\ up' = IF h \in plan.teardown THEN up \ {h} ELSE up \cup {h}
              /\ plan' = [plan EXCEPT !.teardown = @ \ {h}, !.setup = @ \ {h},
                                      !.ran = @ \cup {h}]
              /\ UNCHANGED <<registryVars, lock, call, suspect, told, lost, armed,
                             rolledBack>>
           \/ GiveUp(t, {h})
  BY DEF RunHook
<1>2. CASE GiveUp(t, {h})
  BY <1>2, GiveUpInv
<1>3. CASE ~GiveUp(t, {h})
  <2>1. /\ up' = IF h \in plan.teardown THEN up \ {h} ELSE up \cup {h}
        /\ UNCHANGED <<registryVars, lock, call, suspect, told, lost, armed, rolledBack>>
    BY <1>1, <1>3
  <2>2. /\ plan'.teardown = plan.teardown \ {h} /\ plan'.setup = plan.setup \ {h}
        /\ plan'.ran = plan.ran \cup {h}
        /\ plan'.down = plan.down /\ plan'.on = plan.on /\ plan'.changed = plan.changed
    <3>1. plan \in Plan
      BY DEF IInv, TypeOK
    <3>2. plan' = [plan EXCEPT !.teardown = @ \ {h}, !.setup = @ \ {h},
                              !.ran = @ \cup {h}]
      BY <1>1, <1>3
    <3> QED
      BY <3>1, <3>2 DEF Plan
  <2>3. RegistryInv'
    BY <2>1, RegistryUnchanged DEF IInv, RegistryInv
  <2>4. /\ h \in plan.teardown \/ (plan.teardown = {} /\ h \in plan.setup)
        /\ h \in plan.teardown => \A g \in plan.teardown : h \notin Above[g]
    BY <1>1 DEF HookNext
  <2>5. PlanOfHolder'
    <3>1. lock # {}
      BY DEF RunHook
    <3> QED
      BY <2>1, <2>2, <3>1 DEF IInv, PlanOfHolder, registryVars
  <2>6. PlanFits'
    BY <2>1, <2>2 DEF IInv, PlanFits, Orderly, Flat, registryVars
  <2>7. PlanHooks'
    BY <2>1, <2>2, <2>4 DEF IInv, PlanHooks, registryVars
  <2>8. HookEffects'
    <3>1. h \in Hooked /\ (h \in plan.teardown => h \notin plan.on)
          /\ (h \notin plan.teardown => h \in plan.on)
      BY <2>4 DEF IInv, PlanHooks
    <3> QED
      BY <2>1, <2>2, <3>1 DEF IInv, HookEffects, registryVars
  <2> QED
    BY <2>3, <2>5, <2>6, <2>7, <2>8 DEF PlanInv
<1> QED
  BY <1>2, <1>3

LEMMA ApplyInv ==
  ASSUME IInv, TypeOK', NEW t \in Task, Apply(t)
  PROVE  RegistryInv' /\ PlanInv'
<1>1. /\ Return(t) /\ lock = {t} /\ plan.teardown = {} /\ plan.setup = {}
      /\ UNCHANGED <<registered, exclusions, tool, up, armed, rolledBack>>
  BY DEF Apply
<1>2. lock' = {} /\ plan'.ran = {}
  BY <1>1 DEF Return, NoPlan
<1>3. Orderly' <=> Orderly
  BY <1>1 DEF Orderly, Flat
<1>4. RegisteredNested'
  BY <1>1 DEF IInv, RegisteredNested
<1>5. CASE active' = active /\ told' = told /\ lost' = lost
           /\ suspect' \in {suspect, suspect \cup plan.ran}
           /\ (plan.ran # {} => suspect' = suspect \cup plan.ran)
  <2>1. RegistryInv'
    BY <1>1, <1>5, RegistryUnchanged DEF IInv, RegistryInv, registryVars
  <2>2. HookEffects'
    BY <1>1, <1>2, <1>5 DEF IInv, HookEffects
  <2> QED
    BY <1>1, <2>1, <2>2, FreedPlan DEF PlanInv
<1>6. CASE /\ active' = ActiveAfter
           /\ suspect' = suspect \ plan.ran
           /\ NotifyListChanged(InForceWith(ActiveAfter))
  <2>1. Nested'
    <3> SUFFICES ASSUME Orderly, NEW g \in active', NEW x \in Above[g]
                 PROVE  x \in active'
      BY <1>3 DEF Nested
    <3>1. CASE g \in plan.on
      BY <1>1, <1>6, <3>1 DEF IInv, PlanFits, ActiveAfter
    <3>2. CASE g \in active /\ g \notin plan.down
      BY <1>1, <1>6, <3>2 DEF IInv, PlanFits, Nested, ActiveAfter
    <3> QED
      BY <1>6, <3>1, <3>2 DEF ActiveAfter
  <2>2. ExclusionsHold'
    <3> SUFFICES ASSUME Orderly', NEW E \in armed, NEW g \in E, NEW h \in E,
                        InForce(g)', InForce(h)'
                 PROVE  g = h
      BY <1>1 DEF ExclusionsHold, Holding
    <3>1. g \in active' /\ h \in active'
      BY DEF InForce
    <3>2. Orderly
      BY <1>3
    <3>3. CASE g \in plan.on /\ h \in plan.on
      BY <1>1, <3>3 DEF IInv, PlanOfHolder
    <3>4. CASE g \in plan.on /\ h \notin plan.on
      BY <1>1, <1>6, <3>1, <3>2, <3>4 DEF IInv, PlanFits, ActiveAfter
    <3>5. CASE g \notin plan.on /\ h \in plan.on
      BY <1>1, <1>6, <3>1, <3>2, <3>5 DEF IInv, PlanFits, ActiveAfter
    <3>6. CASE g \notin plan.on /\ h \notin plan.on
      <4>1. g \in active /\ h \in active
        BY <1>6, <3>1, <3>6 DEF ActiveAfter
      <4>2. InForce(g) /\ InForce(h)
        BY <3>2, <4>1, ActiveInForce DEF IInv
      <4> QED
        BY <3>2, <4>2 DEF IInv, ExclusionsHold, Holding
    <3> QED
      BY <3>3, <3>4, <3>5, <3>6
  <2>3. ChangesAnnounced'
    <3> SUFFICES ASSUME Orderly', ~lost'
                 PROVE  told' = {g \in registered' : InForce(g)'}
      BY DEF ChangesAnnounced
    <3>1. told' = InForceWith(ActiveAfter)
      BY <1>6 DEF NotifyListChanged
    <3> QED
      BY <1>1, <1>6, <3>1 DEF InForceWith, InForce
  <2>4. HookEffects'
    <3> SUFFICES ASSUME NEW g \in Hooked, g \notin suspect'
                 PROVE  g \in up <=> g \in active'
      BY <1>1, <1>2 DEF IInv, HookEffects
    <3>1. CASE g \in plan.ran
      BY <1>6, <3>1 DEF IInv, HookEffects, PlanHooks, ActiveAfter
    <3>2. CASE g \notin plan.ran
      <4>1. g \in up <=> g \in active
        BY <1>6, <3>2 DEF IInv, HookEffects
      <4>2. g \notin plan.on /\ ~(g \in active /\ g \in plan.down)
        BY <1>1, <3>2 DEF IInv, PlanHooks
      <4> QED
        BY <1>6, <4>1, <4>2 DEF ActiveAfter
    <3> QED
      BY <3>1, <3>2
  <2> QED
    BY <1>1, <1>4, <2>1, <2>2, <2>3, <2>4, FreedPlan DEF RegistryInv, PlanInv
<1>7. \/ active' = active /\ told' = told /\ lost' = lost
         /\ suspect' \in {suspect, suspect \cup plan.ran}
         /\ (plan.ran # {} => suspect' = suspect \cup plan.ran)
      \/ /\ active' = ActiveAfter
         /\ suspect' = suspect \ plan.ran
         /\ NotifyListChanged(InForceWith(ActiveAfter))
  BY DEF Apply, IInv, PlanHooks
<1> QED
  BY <1>5, <1>6, <1>7

LEMMA RegisterAutoToolsInv ==
  ASSUME IInv, NEW t \in Task, RegisterAutoTools(t)
  PROVE  RegistryInv' /\ PlanInv'
<1>1. /\ call[t].op = "register"
      /\ call' = [call EXCEPT ![t] = Idle]
      /\ UNCHANGED <<lock, plan, up, told, lost>>
  BY DEF RegisterAutoTools, lockVars
<1>2. \A u \in lock : u # t /\ call'[u] = call[u]
  BY <1>1 DEF IInv, TypeOK, PlanOfHolder, Change
<1>3. CASE ~NameTaken(call[t].group)
  <2>1. UNCHANGED <<registered, active, exclusions, suspect, armed, rolledBack>>
    BY <1>3 DEF RegisterAutoTools
  <2>2. RegistryInv'
    BY <1>1, <2>1 DEF IInv, RegistryInv, RegisteredNested, Nested, ExclusionsHold,
       ChangesAnnounced, Orderly, Flat, Holding, InForce
  <2>3. PlanOfHolder'
    BY <1>1, <1>2, <2>1 DEF IInv, PlanOfHolder
  <2>4. PlanFits' /\ PlanHooks' /\ HookEffects'
    BY <1>1, <2>1 DEF IInv, PlanFits, PlanHooks, HookEffects, Orderly, Flat
  <2> QED
    BY <2>2, <2>3, <2>4 DEF PlanInv
<1>4. CASE NameTaken(call[t].group)
  <2> DEFINE g == call[t].group
  <2>1. /\ active' = active \ {g} /\ rolledBack' = rolledBack \cup {g}
        /\ suspect' = suspect \cup {g}
    BY <1>4 DEF RegisterAutoTools
  <2>2. rolledBack' # {} /\ ~Orderly'
    BY <2>1 DEF Orderly
  <2>3. RegistryInv'
    BY <2>2 DEF RegistryInv, RegisteredNested, Nested, ExclusionsHold, ChangesAnnounced
  <2>4. PlanOfHolder' /\ PlanFits'
    BY <1>1, <1>2, <2>2 DEF IInv, PlanOfHolder, PlanFits
  <2>5. PlanHooks' /\ HookEffects'
    BY <1>1, <2>1 DEF IInv, PlanHooks, HookEffects
  <2> QED
    BY <2>3, <2>4, <2>5 DEF PlanInv
<1> QED
  BY <1>3, <1>4

LEMMA RegisterGroupInv ==
  ASSUME IInv, NEW t \in Task, RegisterGroup(t)
  PROVE  RegistryInv' /\ PlanInv'
<1>1. PICK g \in Group \ registered :
        /\ Above[g] \subseteq registered
        /\ registered' = registered \cup {g}
        /\ call' = [call EXCEPT ![t] = [op |-> "register", group |-> g]]
  BY DEF RegisterGroup
<1>2. /\ call[t] = Idle
      /\ UNCHANGED <<active, exclusions, tool, lock, plan, up, suspect, told, lost, armed,
                     rolledBack>>
  BY DEF RegisterGroup, lockVars, historyVars
<1>3. \A u \in lock : u # t /\ call'[u] = call[u]
  BY <1>1, <1>2 DEF IInv, TypeOK, PlanOfHolder, Change, Idle
<1>4. RegisteredNested'
  BY <1>1, <1>2 DEF IInv, RegisteredNested
<1>5. Nested' /\ ExclusionsHold'
  BY <1>2 DEF IInv, Nested, ExclusionsHold, Orderly, Flat, Holding, InForce
<1>6. ChangesAnnounced'
  BY <1>1, <1>2 DEF IInv, TypeOK, ChangesAnnounced, Orderly, Flat, InForce
<1>7. PlanOfHolder'
  BY <1>1, <1>2, <1>3 DEF IInv, PlanOfHolder
<1>8. PlanFits' /\ PlanHooks' /\ HookEffects'
  BY <1>2 DEF IInv, PlanFits, PlanHooks, HookEffects, Orderly, Flat
<1> QED
  BY <1>4, <1>5, <1>6, <1>7, <1>8 DEF RegistryInv, PlanInv

LEMMA AddExclusionInv ==
  ASSUME IInv, NEW t \in Task, AddExclusion(t)
  PROVE  RegistryInv' /\ PlanInv'
<1> DEFINE E == call[t].groups
<1>1. /\ call[t].op = "exclude"
      /\ exclusions' = exclusions \cup {E}
      /\ armed' = IF Holding(E) /\ lock = {} THEN armed \cup {E} ELSE armed
      /\ call' = [call EXCEPT ![t] = Idle]
      /\ UNCHANGED <<registered, active, tool, lock, plan, up, suspect, told, lost,
                     rolledBack>>
  BY DEF AddExclusion, lockVars, historyVars
<1>2. \A u \in lock : u # t /\ call'[u] = call[u]
  BY <1>1 DEF IInv, TypeOK, PlanOfHolder, Change
<1>3. Orderly' => Orderly
  BY <1>1 DEF Orderly, Flat
<1> HIDE DEF E
<1>4. RegisteredNested' /\ Nested' /\ ChangesAnnounced'
  BY <1>1, <1>3 DEF IInv, RegisteredNested, Nested, ChangesAnnounced, InForce
<1>5. ExclusionsHold'
  <2> SUFFICES ASSUME Orderly', NEW F \in armed' PROVE Holding(F)'
    BY DEF ExclusionsHold
  <2>1. Holding(F)
    BY <1>1, <1>3 DEF IInv, ExclusionsHold
  <2> QED
    BY <1>1, <2>1 DEF Holding, InForce
<1>6. PlanOfHolder'
  BY <1>1, <1>2 DEF IInv, PlanOfHolder
<1>7. PlanFits'
  BY <1>1, <1>3 DEF IInv, PlanFits
<1>8. PlanHooks' /\ HookEffects'
  BY <1>1 DEF IInv, PlanHooks, HookEffects
<1> QED
  BY <1>4, <1>5, <1>6, <1>7, <1>8 DEF RegistryInv, PlanInv

\* The steps that change neither a flag nor the plan.
LEMMA OthersInv ==
  ASSUME IInv, UNCHANGED <<registered, active, exclusions, lockVars, historyVars, armed,
                           rolledBack>>,
         \A u \in lock : call'[u] = call[u]
  PROVE  RegistryInv' /\ PlanInv'
<1>1. RegistryInv'
  BY DEF IInv, RegistryInv, RegisteredNested, Nested, ExclusionsHold, ChangesAnnounced,
         Orderly, Flat, Holding, InForce, historyVars
<1>2. PlanOfHolder'
  BY DEF IInv, PlanOfHolder, lockVars
<1>3. PlanFits' /\ PlanHooks' /\ HookEffects'
  BY DEF IInv, PlanFits, PlanHooks, HookEffects, Orderly, Flat, lockVars, historyVars
<1> QED
  BY <1>1, <1>2, <1>3 DEF PlanInv

LEMMA NextInv == IInv /\ [Next]_vars => IInv'
<1> SUFFICES ASSUME IInv, [Next]_vars PROVE IInv'
  OBVIOUS
<1>1. TypeOK'
  BY TypeStep DEF IInv
<1>2. ASSUME NEW t \in Task, Begin(t) \/ CheckExclusion(t)
      PROVE  RegistryInv' /\ PlanInv'
  <2>1. \A u \in lock : call'[u] = call[u]
    BY <1>2 DEF IInv, TypeOK, PlanOfHolder, Change, Idle, Begin, CheckExclusion
  <2> QED
    BY <1>2, <2>1, OthersInv DEF Begin, CheckExclusion, registryVars
<1>3. ASSUME NEW t \in Task, Abandon(t)
      PROVE  RegistryInv' /\ PlanInv'
  <2>1. CASE \E h \in Group : GiveUp(t, {}) \/ GiveUp(t, {h})
    BY <2>1, GiveUpInv
  <2>2. CASE ~\E h \in Group : GiveUp(t, {}) \/ GiveUp(t, {h})
    <3>1. /\ lock # {t} /\ call' = [call EXCEPT ![t] = Idle]
          /\ UNCHANGED <<registryVars, lockVars, historyVars, armed, rolledBack>>
      BY <1>3, <2>2 DEF Abandon
    <3>2. \A u \in lock : u # t
      BY <3>1 DEF IInv, TypeOK
    <3>3. \A u \in lock : call'[u] = call[u]
      BY <3>1, <3>2 DEF IInv, TypeOK
    <3> QED
      BY <3>1, <3>3, OthersInv DEF registryVars
  <2> QED
    BY <2>1, <2>2
<1>4. ASSUME NEW g \in Overridden, RegisterTool(g) \/ UnregisterTool(g)
      PROVE  RegistryInv' /\ PlanInv'
  BY <1>4, OthersInv DEF RegisterTool, UnregisterTool
<1>5. ASSUME UNCHANGED vars
      PROVE  RegistryInv' /\ PlanInv'
  <2>1. UNCHANGED <<registered, active, exclusions, lockVars, historyVars, armed, rolledBack>>
    BY <1>5 DEF vars, registryVars
  <2>2. \A u \in lock : call'[u] = call[u]
    BY <1>5 DEF vars
  <2> QED
    BY <2>1, <2>2, OthersInv
<1>6. ASSUME NEW t \in Task, Step(t)
      PROVE  RegistryInv' /\ PlanInv'
  BY <1>1, <1>6, MakePlanInv, RunHookInv, ApplyInv, RegisterAutoToolsInv, AddExclusionInv
     DEF Step
<1>7. ASSUME NEW t \in Task, RegisterGroup(t)
      PROVE  RegistryInv' /\ PlanInv'
  BY <1>7, RegisterGroupInv
<1>8. RegistryInv' /\ PlanInv'
  BY <1>2, <1>3, <1>4, <1>5, <1>6, <1>7 DEF Next
<1> QED
  BY <1>1, <1>8 DEF IInv, RegistryInv, PlanInv

-----------------------------------------------------------------------------
(* The theorems.                                                           *)

\* The inductive invariant holds in every behaviour of the tool set.
THEOREM Invariance == Spec => []IInv
<1>1. Init => IInv
  BY InitIInv
<1>2. IInv /\ [Next]_vars => IInv'
  BY NextInv
<1> QED
  BY <1>1, <1>2, PTL DEF Spec

\* Every variable of the registry keeps its type.
THEOREM TypeCorrect == Spec => []TypeOK
<1>1. IInv => TypeOK
  BY DEF IInv
<1> QED
  BY <1>1, Invariance, PTL

\* The active groups form a tree, whatever is turned on and off around them.
THEOREM ActiveTree == Spec => []Nested
<1>1. IInv => Nested
  BY DEF IInv
<1> QED
  BY <1>1, Invariance, PTL

\* Groups that exclude each other are never in force together.
THEOREM MutuallyExclusive == Spec => []ExclusionsHold
<1>1. IInv => ExclusionsHold
  BY DEF IInv
<1> QED
  BY <1>1, Invariance, PTL

\* Hooks and flags agree between changes.
THEOREM HooksAgree == Spec => []HooksMatchState
<1>1. IInv => HooksMatchState
  BY DEF IInv, HooksMatchState, HookEffects, PlanOfHolder, NoPlan
<1> QED
  BY <1>1, Invariance, PTL

\* A group is set up inside its ancestors, even while the hooks of a change run.
LEMMA InsideFromInv == IInv => SetUpInside
<1> SUFFICES ASSUME IInv, Orderly, suspect = {}, NEW g \in up, NEW h \in Above[g] \cap Hooked
             PROVE  h \in up
  BY DEF SetUpInside
<1>1. g \in Hooked /\ g \in Group /\ h # g
  BY ConfigAssumption, NameAssumption DEF IInv, HookEffects
<1>2. \A x \in Hooked \ plan.ran : x \in up <=> x \in active
  BY DEF IInv, HookEffects
<1>3. \A x \in plan.ran : x \in up <=> x \in plan.on
  BY DEF IInv, HookEffects
<1>4. CASE lock = {}
  BY <1>1, <1>2, <1>4 DEF IInv, PlanOfHolder, NoPlan, Nested
<1>5. CASE lock # {}
  <2>1. h \notin plan.on \/ g \notin plan.on
    BY <1>1, <1>5 DEF IInv, PlanOfHolder, TypeOK
  <2>2. CASE g \in plan.ran
    <3>1. g \in plan.on
      BY <1>3, <2>2
    <3>2. h \in active /\ h \notin plan.down
      BY <1>5, <3>1 DEF IInv, PlanFits
    <3>3. h \notin plan.ran
      BY <2>1, <3>1, <3>2 DEF IInv, PlanHooks
    <3> QED
      BY <1>2, <3>2, <3>3
  <2>3. CASE g \notin plan.ran
    <3>1. g \in active /\ h \in active
      BY <1>1, <1>2, <2>3 DEF IInv, Nested
    <3>2. CASE h \notin plan.ran
      BY <1>2, <3>1, <3>2
    <3>3. CASE h \in plan.ran
      <4>1. h \notin plan.on /\ h \in plan.down
        BY <1>5, <3>1, <3>3 DEF IInv, PlanFits, PlanHooks
      <4>2. g \in plan.down
        BY <1>5, <3>1, <4>1 DEF IInv, PlanFits
      <4>3. g \in plan.teardown
        BY <1>1, <2>3, <3>1, <4>2 DEF IInv, PlanHooks
      <4> QED
        BY <3>3, <4>1, <4>3 DEF IInv, PlanHooks
    <3> QED
      BY <3>2, <3>3
  <2> QED
    BY <2>2, <2>3
<1> QED
  BY <1>4, <1>5

\* When an activation hook runs, every group around its own is already set
\* up: the hooks of a subgroup run inside those of its group.
THEOREM NestedHooks == Spec => []SetUpInside
BY InsideFromInv, Invariance, PTL

\* The client was told of every change of the groups in force.
THEOREM Announced == Spec => []ChangesAnnounced
<1>1. IInv => ChangesAnnounced
  BY DEF IInv
<1> QED
  BY <1>1, Invariance, PTL

\* A generated tool never replaces one of the program.
THEOREM ExplicitStays == Spec => ExplicitToolStays
<1>1. IInv /\ [Next]_vars => [\A g \in Group : tool[g] = "explicit" => tool'[g] # "auto"]_vars
  <2> SUFFICES ASSUME IInv, Next, NEW g \in Group, tool[g] = "explicit"
               PROVE  tool'[g] # "auto"
    OBVIOUS
  <2>1. ASSUME NEW t \in Task, RegisterAutoTools(t)
        PROVE  tool'[g] # "auto"
    BY <2>1 DEF RegisterAutoTools, NameTaken, IInv, TypeOK
  <2>2. ASSUME NEW h \in Overridden, RegisterTool(h) \/ UnregisterTool(h)
        PROVE  tool'[g] # "auto"
    BY <2>2 DEF RegisterTool, UnregisterTool, IInv, TypeOK
  <2>3. ASSUME tool' = tool
        PROVE  tool'[g] # "auto"
    BY <2>3
  <2>4. \A t \in Task : Begin(t) \/ MakePlan(t) \/ RunHook(t) \/ Apply(t) \/ AddExclusion(t)
                        \/ Abandon(t) \/ RegisterGroup(t) \/ CheckExclusion(t)
                        => tool' = tool
    BY DEF Begin, MakePlan, RunHook, Apply, AddExclusion, Abandon, RegisterGroup,
           CheckExclusion, GiveUp, registryVars
  <2> QED
    BY <2>1, <2>2, <2>3, <2>4 DEF Next, Step
<1> QED
  BY <1>1, Invariance, PTL DEF Spec, ExplicitToolStays
=============================================================================
