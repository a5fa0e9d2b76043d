----------------------------- MODULE LaunchPlan -----------------------------
(***************************************************************************)
(* What a launch installs, and whether the node can hold it: the topology, *)
(* capacity, selection and install stages of launch-mxl-fabrics-demo.yml,  *)
(* one launch after the other, while pods of others come and go.           *)
(*                                                                         *)
(* The facility lock admits one launch at a time, and its refusals and     *)
(* failures at other stages are RunLifecycle's: here a launch is refused   *)
(* for its topology or its demand, or installs all it planned. External    *)
(* are the chart, Kubernetes, which replaces the pods of an upgraded       *)
(* release before it needs their place, and the scheduler, which binds a   *)
(* pod only if the node can hold the peaks of all.                         *)
(***************************************************************************)
EXTENDS Budget, Topology

CONSTANTS
  Params,       \* topology_params that a console sends
  NoParams,     \* a launch without them
  Charts,       \* [Role -> workloads]: what versions of the chart render
  Others,       \* pods of others: [release, namespace, pod, number]
  Reserves,     \* values of l3_ee_reserve that the authority check lets pass
  Site,         \* the one NetBox site
  Allocatable,  \* of the one node
  MaxLaunches,  \* bound
  MaxChanges    \* bound: how often the others' pods change

ASSUME LaunchPlanAssumption == MaxLaunches \in Nat /\ MaxChanges \in Nat

Role == {"view", "source"}
Target == "mxl"               \* l3_target_namespace
NoFlow == [uuid |-> NoValue, spelling |-> "none"]
NoSource == <<>>
Scalar(role) == <<role>>      \* l3_release

\* The sources are a list, and an empty selection is NoValue; a count is a number or none.
ASSUME InputAssumption ==
  /\ NoParams \notin Params
  /\ \A p \in Params : p.sources \in Seq(Range(p.sources)) /\ p.selection # NoSource
  /\ \A chart \in Charts, role \in Role :
       /\ chart[role] \in Seq(Range(chart[role]))
       /\ \A k \in DOMAIN chart[role] :
            chart[role][k].count \in Int \cup {Missing} /\ PodShape(chart[role][k].pod)

\* What a launch may install. A pod of others is of none of these releases. Of the values
\* that _assert_authority.yml lets pass, the whole numbers are zero.
MayInstall ==
  {Scalar(role) : role \in Role}
  \cup UNION {{ReleaseGroup(p, Scalar("view"))[k].release : k \in DOMAIN p.sources} : p \in Params}

ASSUME NodeAssumption ==
  /\ IsFiniteSet(Others) /\ \A p \in Others : PodShape(p.pod)
  /\ \A p \in Others : p.namespace = Target => p.release \notin MayInstall
  /\ \A leaf \in Reserves :
       leaf.type \in {"int", "digits", "other"} /\ (leaf.type # "other" => leaf.n = 0)
  /\ Allocatable \in Demand

VARIABLES
  pods,       \* of the cluster: [release, namespace, pod, number, state]
  active,     \* active-source of the coordinator: a source id or a release
  deployed,   \* what helm deployed last of each release
  stage,      \* where the launch is
  plan,       \* its inputs
  group,      \* l3_release_group
  existing,   \* _l3_existing_demand
  todo,       \* the releases left to install
  launches, changes,
  calm        \* history: no pod of others changed since the launch listed them

facts == <<plan, group, existing, todo>>
planVars == <<pods, active, deployed, stage, facts, launches, changes, calm>>

NoPlan == [role |-> "view", params |-> NoParams, chart |-> <<>>, override |-> FALSE,
           reserve |-> [type |-> "int", n |-> 0]]
HasTopology == plan.params # NoParams

Live == {p \in pods : p.state # "finished"}
Bound == {p \in pods : p.state = "bound"}
PeakOf(S) == SumOver(LAMBDA p : Peak(p.pod), S)

\* The releases of the launch, and what is its own on the node.
Releases == {Scalar(plan.role)} \cup {group[k].release : k \in DOMAIN group}
Own(p) == p.release \in Releases /\ p.namespace = Target

InState(p, state) ==
  [release |-> p.release, namespace |-> p.namespace, pod |-> p.pod, number |-> p.number,
   state |-> state]

PlanInit ==
  /\ \E state \in [Others -> {"absent", "bound", "finished"}] :
       pods = {InState(p, state[p]) : p \in {q \in Others : state[q] # "absent"}}
  /\ PeakOf(Bound) \preceq Allocatable
  /\ active = NoSource /\ deployed = [r \in {} |-> NoFlow]
  /\ stage = "ready" /\ plan = NoPlan /\ group = <<>> /\ existing = Zero /\ todo = <<>>
  /\ launches = 0 /\ changes = 0 /\ calm = FALSE

-----------------------------------------------------------------------------
\* The gate.

Start ==
  /\ stage = "ready" /\ launches < MaxLaunches
  /\ \E role \in Role, params \in Params \cup {NoParams}, chart \in Charts,
        override \in BOOLEAN, reserve \in Reserves :
       plan' = [role |-> role, params |-> params, chart |-> chart, override |-> override,
                reserve |-> reserve]
  /\ stage' = "topology" /\ launches' = launches + 1
  /\ UNCHANGED <<pods, active, deployed, group, existing, todo, changes, calm>>

\* The facts of a launch end with it.
Ends ==
  /\ stage' = "ready" /\ plan' = NoPlan /\ group' = <<>> /\ existing' = Zero /\ todo' = <<>>
  /\ calm' = FALSE
  /\ UNCHANGED <<pods, active, deployed, launches, changes>>

\* topology_validate.yml, none of which an override skips.
Agreed == HasTopology => plan.role = "view" /\ Valid(plan.params) /\ plan.params.facility = Site

TopologyRefuses == stage = "topology" /\ ~Agreed /\ Ends

Derive ==
  /\ stage = "topology" /\ Agreed /\ stage' = "capacity"
  /\ group' = IF HasTopology THEN ReleaseGroup(plan.params, Scalar(plan.role)) ELSE <<>>
  /\ UNCHANGED <<pods, active, deployed, plan, existing, todo, launches, changes, calm>>

\* capacity.yml lists the pods before it pulls and renders the chart.
ListPods ==
  /\ stage = "capacity" /\ stage' = "render"
  /\ existing' = Existing(pods, Releases, Target) /\ calm' = TRUE
  /\ UNCHANGED <<pods, active, deployed, plan, group, todo, launches, changes>>

\* The scalar release is rendered with the launch's role, one of a group as a source.
RunDemand ==
  SumDemand(<<RenderDemand(plan.chart[plan.role])>>
            \o [k \in DOMAIN group |-> RenderDemand(plan.chart["source"])])

\* l3_evaluate_fit raises on a reserve that is no whole number; of the demand, an int
\* or its digits, each leaf is coerced to the same number.
Raises == Coerce(plan.reserve) = Rejected
FitsNow ==
  Fits(Allocatable, existing, [x \in Resource |-> Coerce(plan.reserve)], RunDemand.demand)

\* An override lets a launch pass that has no budget, unjudged, or that does not fit;
\* a filter that raises is refused by gate_rescue.yml.
MissingBudget == ~RunDemand.budgeted /\ ~plan.override
PreflightError == RunDemand.budgeted /\ Raises
NoFit == RunDemand.budgeted /\ ~Raises /\ ~FitsNow /\ ~plan.override

GateRefuses == stage = "render" /\ (MissingBudget \/ PreflightError \/ NoFit) /\ Ends

\* Then the launch may change things.
Admit ==
  /\ stage = "render" /\ ~MissingBudget /\ ~PreflightError /\ ~NoFit /\ stage' = "select"
  /\ UNCHANGED <<pods, active, deployed, facts, launches, changes, calm>>

-----------------------------------------------------------------------------
\* The install.

\* What a launch would select: the topology's source, or a lone source itself.
Candidate ==
  IF HasTopology THEN ViewerProjection(plan.params).active
  ELSE IF plan.role = "source" THEN Scalar("source") ELSE NoSource

\* Only a cold launch selects: what is selected is a switch's to change.
Select ==
  /\ stage = "select" /\ stage' = "install"
  /\ active' = IF active = NoSource THEN Candidate ELSE active
  /\ todo' = <<Scalar(plan.role)>> \o [k \in DOMAIN group |-> group[k].release]
  /\ UNCHANGED <<pods, deployed, plan, group, existing, launches, changes, calm>>

\* _l3_effective_chart_set_values, or the chart_set_values of a release of the group.
ValuesOf(release) ==
  IF release = Scalar(plan.role)
  THEN [role |-> plan.role, workloads |-> plan.chart[plan.role], pattern |-> NoValue,
        sourceId |-> IF plan.role = "source" THEN release ELSE NoSource,
        flow |-> IF HasTopology THEN ViewerProjection(plan.params).flow ELSE NoFlow]
  ELSE LET g == group[CHOOSE k \in DOMAIN group : group[k].release = release] IN
       [role |-> "source", workloads |-> plan.chart["source"], pattern |-> g.pattern,
        sourceId |-> g.sourceId, flow |-> g.flow]

\* Kubernetes: a pod for each replica of a workload, and one of a DaemonSet on a node.
Replicas(w) ==
  IF w.kind \in {"DaemonSet", "Pod"} THEN 1 ELSE IF w.count = Missing THEN 0 ELSE w.count
PodsOf(release, workloads) ==
  UNION {{[release |-> release, namespace |-> Target, pod |-> workloads[k].pod,
           number |-> <<k, i>>, state |-> "unbound"] : i \in 1..Replicas(workloads[k])} :
         k \in DOMAIN workloads}

\* helm upgrade --install: what is deployed with the same values stays.
Install ==
  /\ stage = "install" /\ todo # <<>> /\ todo' = Tail(todo)
  /\ LET r == Head(todo) IN
     IF r \in DOMAIN deployed /\ deployed[r] = ValuesOf(r)
     THEN UNCHANGED <<pods, deployed>>
     ELSE /\ pods' = {p \in pods : ~(p.release = r /\ p.namespace = Target /\ p.state # "finished")}
                     \cup PodsOf(r, ValuesOf(r).workloads)
          /\ deployed' = [q \in DOMAIN deployed \cup {r} |-> IF q = r THEN ValuesOf(r) ELSE deployed[q]]
  /\ UNCHANGED <<active, stage, plan, group, existing, launches, changes, calm>>

\* The launch ends when its deployments are ready, or its patience does.
Finish == stage = "install" /\ todo = <<>> /\ Ends

-----------------------------------------------------------------------------
\* The environment.

\* The scheduler.
Bind ==
  /\ \E p \in pods :
       /\ p.state = "unbound" /\ PeakOf(Bound) ++ Peak(p.pod) \preceq Allocatable
       /\ pods' = (pods \ {p}) \cup {[p EXCEPT !.state = "bound"]}
       /\ calm' = (calm /\ Own(p))
  /\ UNCHANGED <<active, deployed, stage, facts, launches, changes>>

\* Pods of others come and go.
OthersChange ==
  /\ changes < MaxChanges /\ changes' = changes + 1 /\ calm' = FALSE
  /\ \E p \in Others :
       \/ /\ \A state \in {"unbound", "bound", "finished"} : InState(p, state) \notin pods
          /\ pods' = pods \cup {InState(p, "unbound")}
       \/ \E state \in {"unbound", "bound"} :
            /\ InState(p, state) \in pods
            /\ pods' = (pods \ {InState(p, state)}) \cup {InState(p, "finished")}
  /\ UNCHANGED <<active, deployed, stage, facts, launches>>

PlanNext ==
  \/ Start \/ TopologyRefuses \/ Derive \/ ListPods \/ GateRefuses \/ Admit \/ Select
  \/ Install \/ Finish \/ Bind \/ OthersChange

PlanSpec == PlanInit /\ [][PlanNext]_planVars

-----------------------------------------------------------------------------
\* Properties.

Wanted == UNION {PodsOf(r, ValuesOf(r).workloads) : r \in Releases}
Installed == stage = "install" /\ todo = <<>>

(***************************************************************************)
(* A launch that was let through without an override fits: if no pod of    *)
(* others came or went since it listed them, and none was waiting for the  *)
(* node already, the node holds all its pods at their peaks, next to all   *)
(* others. (The sum of capacity.yml leaves out what the launch replaces    *)
(* and what has finished, and must not leave out anything that stays.)     *)
(***************************************************************************)
AdmittedFits ==
  Installed /\ calm /\ ~plan.override /\ (\A p \in pods : p.state = "unbound" => Own(p))
    => PeakOf(Live) \preceq Allocatable

\* Every workload of every release says how many pods it has and what each asks for.
Declared ==
  \A r \in Releases :
    LET workloads == ValuesOf(r).workloads IN
    /\ workloads # <<>>
    /\ \A k \in DOMAIN workloads :
         /\ \/ workloads[k].kind \in {"DaemonSet", "Pod"}
            \/ workloads[k].count # Missing /\ workloads[k].count >= 0
         /\ \A c \in ToSet(workloads[k].pod.apps) \cup ToSet(workloads[k].pod.inits) : HasBoth(c)

(***************************************************************************)
(* A launch whose demand is declared is refused only if the node cannot    *)
(* hold it: not at an exact fit, and not because what it replaces, a       *)
(* finished pod or a workload scaled to zero was counted.                  *)
(***************************************************************************)
RefusedIsTooBig ==
  [][GateRefuses /\ calm /\ Declared /\ plan.reserve.type # "other"
       => ~(PeakOf({p \in Bound : ~Own(p)} \cup Wanted) \preceq Allocatable)]_planVars

(***************************************************************************)
(* Nothing whose demand is not declared, in any release of the launch, is  *)
(* installed without an override: the sum over the releases is missing as  *)
(* soon as one container of one of them is.                                *)
(***************************************************************************)
UnbudgetedNeedsOverride == stage = "install" => plan.override \/ Declared

(***************************************************************************)
(* What a topology launch installed can be played: something is selected,  *)
(* and if it is what the launch asked for, then exactly one source of the  *)
(* launch sends the flow that the viewer receives, it is the selected one, *)
(* and its picture differs from that of every other.                       *)
(***************************************************************************)
TopologyIsPlayable ==
  Installed /\ HasTopology =>
    LET Sources == Releases \ {Scalar(plan.role)}
        Sends(r) == deployed[r].flow.uuid = deployed[Scalar(plan.role)].flow.uuid
    IN /\ active # NoSource
       /\ active = plan.params.selection =>
            \E r \in Sources :
              /\ deployed[r].sourceId = active
              /\ {q \in Sources : Sends(q)} = {r}
              /\ \A q \in Sources \ {r} : deployed[q].pattern # deployed[r].pattern
=============================================================================
