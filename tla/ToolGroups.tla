------------------------------ MODULE ToolGroups ------------------------------
(***************************************************************************)
(* The groups of a ToolSet: registration, mutual exclusion, activation     *)
(* with its hooks, and the list_changed notification.  Tasks share the     *)
(* set; activation and deactivation take turns on activation_lock, and     *)
(* registration only takes the lock of the registry, step by step.         *)
(*                                                                         *)
(* A group is registered under its full name, so its parent is a function  *)
(* of the name.  What a hook does is its own; here it fails or succeeds.   *)
(***************************************************************************)
CONSTANTS Group,       \* the names of groups
          Above,       \* the ancestors of each group, by its dotted name
          Hooked,      \* the groups with on_activate and on_deactivate
          Candidates,  \* the sets register_exclusion is called with
          Overridden,  \* the groups whose activate tool the program replaces
          Task         \* the tasks that use the tool set

\* register_group accepts a parent only when the name extends the parent's.
ASSUME NameAssumption ==
  /\ Above \in [Group -> SUBSET Group]
  /\ \A g \in Group : g \notin Above[g]
  /\ \A g \in Group : \A h \in Above[g] : Above[h] \subseteq Above[g]
ASSUME ConfigAssumption ==
  /\ {Hooked, Overridden} \subseteq SUBSET Group
  /\ Candidates \subseteq SUBSET Group

VARIABLES
  registered, \* GroupRegistry.groups: the names in it
  active,     \* the groups whose active flag is set
  exclusions, \* GroupRegistry.exclusions
  tool,       \* the origin of the activate tool of each group
  call,       \* what each task is doing
  lock,       \* activation_lock: the task that holds it, if any
  plan,       \* GroupChangePlan of the task that holds the lock
  \* history
  up,         \* the groups set up by on_activate and not torn down since
  suspect,    \* the groups whose last hook ran for a change that was given up
  told,       \* the groups in force when the last notification was sent
  lost,       \* a notification failed and none was sent since
  armed,      \* the exclusions registered while they held and no change was in hand
  rolledBack  \* the groups whose registration was undone

registryVars == <<registered, active, exclusions, tool>>
lockVars == <<lock, plan>>
historyVars == <<up, suspect, told, lost>>
vars == <<registryVars, lockVars, call, historyVars, armed, rolledBack>>

Idle == [op |-> "none"]
Change == [op : {"activate", "deactivate"}, group : Group]
Call == {Idle} \cup Change \cup [op : {"register"}, group : Group]
               \cup [op : {"exclude"}, groups : Candidates]

\* down and on are the changes; teardown and setup are the hooks yet to run.
NoPlan == [down |-> {}, on |-> {}, changed |-> FALSE,
           teardown |-> {}, setup |-> {}, ran |-> {}]
Plan == [down : SUBSET Group, on : SUBSET Group, changed : BOOLEAN,
         teardown : SUBSET Group, setup : SUBSET Group, ran : SUBSET Group]

TypeOK ==
  /\ registered \subseteq Group
  /\ active \subseteq registered
  /\ exclusions \subseteq Candidates
  /\ tool \in [Group -> {"none", "auto", "explicit"}]
  /\ call \in [Task -> Call]
  /\ lock \in {{}} \cup {{t} : t \in Task}
  /\ plan \in Plan
  /\ {up, suspect, told, rolledBack} \subseteq SUBSET Group
  /\ lost \in BOOLEAN
  /\ armed \subseteq exclusions

Init ==
  /\ registered = {} /\ active = {} /\ exclusions = {}
  /\ tool = [g \in Group |-> "none"]
  /\ lock = {} /\ plan = NoPlan
  /\ call = [t \in Task |-> Idle]
  /\ up = {} /\ suspect = {} /\ told = {} /\ lost = FALSE
  /\ armed = {} /\ rolledBack = {}

-----------------------------------------------------------------------------
(* What the registry says, under one read lock.                            *)

\* The group and all its ancestors are active: is_group_active_snapshot.
InForce(g) == ({g} \cup Above[g]) \subseteq active

\* Whether the walk from g down to h meets registered groups only.
Reaches(g, h) ==
  /\ h \in registered
  /\ g \in Above[h]
  /\ \A x \in Above[h] : g \in Above[x] => x \in registered

BelowNothing(g) == {g}     \* Below: forgets the descendants

\* A group and its descendants.
Below(g) == {g} \cup {h \in registered : Reaches(g, h)}

RivalsOfOne(g) ==          \* Rivals: looks at one exclusion only
  LET mine == {E \in exclusions : g \in E}
  IN  IF mine = {} THEN {}
      ELSE {h \in (CHOOSE E \in mine : TRUE) \ {g} : InForce(h)}

\* The groups in force that an exclusion forbids beside g.
Rivals(g) ==
  {h \in active \ {g} : InForce(h) /\ \E E \in exclusions : {g, h} \subseteq E}

Changes(down, on) == on # {} \/ down \cap active # {}

HooksOfOuter(down) ==      \* HooksOf: skips the descendants
  {h \in down \cap active \cap Hooked : Above[h] \cap down = {}}

\* The groups whose on_deactivate is to run.
HooksOf(down) == down \cap active \cap Hooked

PlanFor(down, on) ==
  [down |-> down, on |-> on, changed |-> Changes(down, on),
   teardown |-> HooksOf(down), setup |-> on \cap Hooked, ran |-> {}]

\* plan_activation turns off the rivals, plan_deactivation the group itself.
ActivationPlan(g)   == PlanFor(UNION {Below(h) : h \in Rivals(g)}, {g} \ active)
DeactivationPlan(g) == PlanFor(Below(g), {})

-----------------------------------------------------------------------------
(* Activation and deactivation, under activation_lock.                     *)

\* activate_group or deactivate_group is called, and waits for the lock.
Begin(t) ==
  /\ call[t] = Idle
  /\ \E c \in Change : call' = [call EXCEPT ![t] = c]
  /\ UNCHANGED <<registryVars, lockVars, historyVars, armed, rolledBack>>

\* The call of t returns, and releases the lock.
Return(t) ==
  /\ call' = [call EXCEPT ![t] = Idle]
  /\ lock' = {} /\ plan' = NoPlan

\* GroupNotFound when the group is not registered, GroupInactive when an
\* ancestor of the group to activate is not in force.
Refused(c) ==
  \/ c.group \notin registered
  \/ c.op = "activate" /\ ~ Above[c.group] \subseteq active

\* A task takes the lock and plans its change.
MakePlan(t) ==
  /\ call[t] \in Change /\ lock = {}
  /\ IF Refused(call[t])
     THEN Return(t)
     ELSE /\ lock' = {t}
          /\ plan' = IF call[t].op = "activate" THEN ActivationPlan(call[t].group)
                                                ELSE DeactivationPlan(call[t].group)
          /\ UNCHANGED call
  /\ UNCHANGED <<registryVars, historyVars, armed, rolledBack>>

\* The change is given up: what its hooks did stays done.
GiveUp(t, hooked) ==
  /\ suspect' = suspect \cup plan.ran \cup hooked
  /\ Return(t)
  /\ UNCHANGED <<registryVars, up, told, lost, armed, rolledBack>>

OuterFirst(h) ==           \* HookNext: tears a group down before what is in it
  IF plan.teardown # {} THEN h \in plan.teardown /\ Above[h] \cap plan.teardown = {}
                        ELSE h \in plan.setup

\* The hooks run in order: on_deactivate, a group after its descendants, and
\* last on_activate of the target.
HookNext(h) ==
  IF plan.teardown # {}
  THEN h \in plan.teardown /\ \A g \in plan.teardown : h \notin Above[g]
  ELSE h \in plan.setup

\* run_activation_hooks: the next hook succeeds, or fails and ends the call.
RunHook(t) ==
  /\ lock = {t}
  /\ \E h \in Group :
       /\ HookNext(h)
       /\ \/ /\ up' = IF h \in plan.teardown THEN up \ {h} ELSE up \cup {h}
             /\ plan' = [plan EXCEPT !.teardown = @ \ {h}, !.setup = @ \ {h},
                                     !.ran = @ \cup {h}]
             /\ UNCHANGED <<registryVars, lock, call, suspect, told, lost, armed,
                            rolledBack>>
          \/ GiveUp(t, {h})

\* The caller drops the call while it waits for the lock or for a hook, which
\* may have done its work or not.
Abandon(t) ==
  /\ call[t] \in Change
  /\ \/ /\ lock # {t}
        /\ call' = [call EXCEPT ![t] = Idle]
        /\ UNCHANGED <<registryVars, lockVars, historyVars, armed, rolledBack>>
     \/ /\ lock = {t}
        /\ \E h \in Group : HookNext(h) /\ (GiveUp(t, {}) \/ GiveUp(t, {h}))

\* The groups in force once the active flags are a.
InForceWith(a) == {g \in registered : ({g} \cup Above[g]) \subseteq a}

ActiveAfter == (active \ plan.down) \cup plan.on

NotifyAdditions(G) ==      \* NotifyListChanged: only when a group comes into force
  IF G \subseteq told THEN UNCHANGED <<told, lost>> ELSE told' = G /\ lost' = FALSE

\* notify_list_changed fails when the notification cannot be queued.
NotifyListChanged(G) ==
  \/ told' = G /\ lost' = FALSE
  \/ lost' = TRUE /\ UNCHANGED told

NeverGone(g) == FALSE      \* Gone: the registry is not asked again

\* The registration of the group was undone since the plan was made.
Gone(g) == g \notin registered

\* apply_activation or apply_deactivation, then notify_list_changed, which can
\* fail when the change is already applied.
Apply(t) ==
  /\ lock = {t} /\ plan.teardown = {} /\ plan.setup = {}
  /\ \/ /\ ~plan.changed
        /\ UNCHANGED <<active, suspect, told, lost>>
     \/ /\ plan.changed /\ Gone(call[t].group)
        /\ suspect' = suspect \cup plan.ran
        /\ UNCHANGED <<active, told, lost>>
     \/ /\ plan.changed /\ ~Gone(call[t].group)
        /\ active' = ActiveAfter
        /\ suspect' = suspect \ plan.ran
        /\ NotifyListChanged(InForceWith(ActiveAfter))
  /\ Return(t)
  /\ UNCHANGED <<registered, exclusions, tool, up, armed, rolledBack>>

-----------------------------------------------------------------------------
(* Registration, which does not take activation_lock.                      *)

\* ToolGroups::register_group, under the write lock of the registry.
RegisterGroup(t) ==
  /\ call[t] = Idle
  /\ \E g \in Group \ registered :
       /\ Above[g] \subseteq registered
       /\ registered' = registered \cup {g}
       /\ call' = [call EXCEPT ![t] = [op |-> "register", group |-> g]]
  /\ UNCHANGED <<active, exclusions, tool, lockVars, historyVars, armed, rolledBack>>

Unregistered(g) == {E \in exclusions : g \notin E}

AutoTakesName(g) == FALSE  \* NameTaken: replaces the tool of the program

NameTaken(g) == tool[g] # "none"

\* register_auto_tools; when the name is taken the group is unregistered, with
\* the exclusions that name it, whatever was built on it in between.
RegisterAutoTools(t) ==
  /\ call[t].op = "register"
  /\ call' = [call EXCEPT ![t] = Idle]
  /\ LET g == call[t].group
     IN  IF ~NameTaken(g)
         THEN /\ tool' = [tool EXCEPT ![g] = "auto"]
              /\ UNCHANGED <<registered, active, exclusions, suspect, armed, rolledBack>>
         ELSE /\ registered' = registered \ {g}
              /\ active' = active \ {g}
              /\ exclusions' = Unregistered(g)
              /\ armed' = armed \cap Unregistered(g)
              /\ rolledBack' = rolledBack \cup {g}
              /\ suspect' = suspect \cup {g}
              /\ UNCHANGED tool
  /\ UNCHANGED <<lockVars, up, told, lost>>

\* The program registers its own tool under the name of an activate tool.
RegisterTool(g) ==
  /\ g \in registered /\ tool[g] # "explicit"
  /\ tool' = [tool EXCEPT ![g] = "explicit"]
  /\ UNCHANGED <<registered, active, exclusions, lockVars, call, historyVars, armed,
                 rolledBack>>

\* ToolSet::unregister
UnregisterTool(g) ==
  /\ tool[g] # "none"
  /\ tool' = [tool EXCEPT ![g] = "none"]
  /\ UNCHANGED <<registered, active, exclusions, lockVars, call, historyVars, armed,
                 rolledBack>>

\* register_exclusion looks every group up under the read lock...
CheckExclusion(t) ==
  /\ call[t] = Idle
  /\ \E E \in Candidates :
       /\ E \subseteq registered
       /\ call' = [call EXCEPT ![t] = [op |-> "exclude", groups |-> E]]
  /\ UNCHANGED <<registryVars, lockVars, historyVars, armed, rolledBack>>

\* At most one group of the set is in force.
Holding(E) == \A g, h \in E : InForce(g) /\ InForce(h) => g = h

\* ... and adds the set under the write lock.
AddExclusion(t) ==
  /\ call[t].op = "exclude"
  /\ LET E == call[t].groups
     IN  /\ exclusions' = exclusions \cup {E}
         /\ armed' = IF Holding(E) /\ lock = {} THEN armed \cup {E} ELSE armed
  /\ call' = [call EXCEPT ![t] = Idle]
  /\ UNCHANGED <<registered, active, tool, lockVars, historyVars, rolledBack>>

Step(t) == MakePlan(t) \/ RunHook(t) \/ Apply(t) \/ RegisterAutoTools(t) \/ AddExclusion(t)

Next ==
  \/ \E t \in Task : Begin(t) \/ Step(t) \/ Abandon(t) \/ RegisterGroup(t)
                      \/ CheckExclusion(t)
  \/ \E g \in Overridden : RegisterTool(g) \/ UnregisterTool(g)

Spec == Init /\ [][Next]_vars

-----------------------------------------------------------------------------
(* Properties.  They are about the registry as long as no registration was *)
(* undone, and about sets that do not name a group and its own descendant. *)

Flat(E) == \A g, h \in E : g \notin Above[h]
Orderly == rolledBack = {} /\ \A E \in exclusions : Flat(E)

\* An active group sits in active groups: no deactivation leaves a descendant
\* active that a later activation of its parent would bring back by surprise.
Nested == Orderly => \A g \in active : Above[g] \subseteq active

\* Two groups of one exclusion are never in force together, whatever calls,
\* failing hooks, dropped calls and registrations went on around it.
ExclusionsHold == Orderly => \A E \in armed : Holding(E)

\* Between changes a group is set up exactly when it is active.  Nothing undoes
\* the hooks that ran for a change that then failed or was dropped, and of those
\* groups (suspect) this says nothing.
HooksMatchState ==
  lock = {} => \A g \in Hooked \ suspect : g \in up <=> g \in active

\* A group is set up inside its ancestors: on_activate runs after theirs, and
\* on_deactivate before theirs, as long as no change was given up.
SetUpInside ==
  Orderly /\ suspect = {} => \A g \in up : Above[g] \cap Hooked \subseteq up

\* Whatever changes the groups in force, the client was told of those that
\* are, unless the notification itself could not be queued.
ChangesAnnounced ==
  ~lost /\ Orderly => told = {g \in registered : InForce(g)}

\* A tool the program registered is never replaced by a generated one.
ExplicitToolStays ==
  [][\A g \in Group : tool[g] = "explicit" => tool'[g] # "auto"]_vars

\* "Register a mutual exclusion set": a set registered before any of its
\* groups is active is never broken.  It is when it names a descendant.
MutualExclusion == rolledBack = {} => \A E \in armed : Holding(E)
=============================================================================
