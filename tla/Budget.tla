------------------------------- MODULE Budget -------------------------------
(***************************************************************************)
(* The capacity arithmetic of a launch: what a pod, a rendered chart and   *)
(* the node's pods ask for, and whether a launch fits.                     *)
(*                                                                         *)
(* Quantities are whole millicores and bytes, one for each resource; a     *)
(* request that a container does not declare is Missing. A pod is its app  *)
(* containers, its init containers in order (`always` marks a restartable  *)
(* one) and its overhead.                                                  *)
(***************************************************************************)
EXTENDS Integers, FiniteSetsExt, SequencesExt, Functions

CONSTANT Missing   \* a request or a count that is not declared or not a number

ASSUME MissingAssumption == Missing \notin Int

Resource == {"cpu", "mem"}
Demand == [Resource -> Nat]

Zero == [x \in Resource |-> 0]
a ++ b == [x \in Resource |-> a[x] + b[x]]
a \preceq b == \A x \in Resource : a[x] <= b[x]
Join(a, b) == [x \in Resource |-> Max({a[x], b[x]})]
SumOver(f(_), S) == [x \in Resource |-> SumFunction([e \in S |-> f(e)[x]])]

-----------------------------------------------------------------------------
\* One pod.

\* What Kubernetes takes for one: containers in order, nothing negative.
PodShape(pod) ==
  /\ pod.apps \in Seq(Range(pod.apps)) /\ pod.inits \in Seq(Range(pod.inits))
  /\ \A c \in Range(pod.apps) \cup Range(pod.inits) :
       c.request \in [Resource -> Nat \cup {Missing}] /\ c.always \in BOOLEAN
  /\ pod.overhead \in Demand

\* _container_requests: what is not declared counts as zero.
Request(c) == [x \in Resource |-> IF c.request[x] = Missing THEN 0 ELSE c.request[x]]
HasBoth(c) == \A x \in Resource : c.request[x] # Missing

\* Mutant of PodDemand: an init container is not added to the restartable ones
\* that run beside it.
PodDemandFlat(pod) ==
  LET Always == SelectSeq(pod.inits, LAMBDA c : c.always)
      InitMax == FoldLeft(LAMBDA acc, c : Join(acc, Request(c)), Zero, pod.inits)
      Sum(cs) == FoldLeft(LAMBDA acc, c : acc ++ Request(c), Zero, cs)
  IN Join(InitMax, Sum(pod.apps) ++ Sum(Always)) ++ pod.overhead

\* The loop over the init containers: what keeps running after the first i of them,
\* and the most that ran until then.
InitUse(pod) ==
  LET after[i \in 0..Len(pod.inits)] ==
        IF i = 0 THEN [running |-> Zero, most |-> Zero]
        ELSE LET use == after[i - 1].running ++ Request(pod.inits[i]) IN
             [running |-> IF pod.inits[i].always THEN use ELSE after[i - 1].running,
              most |-> Join(after[i - 1].most, use)]
  IN after[Len(pod.inits)]

\* l3_pod_demand: the running total of restartable init containers is added to the
\* init container after them, and in the end to the apps.
PodDemand(pod) ==
  LET Apps == SumOver(LAMBDA j : Request(pod.apps[j]), DOMAIN pod.apps)
  IN Join(InitUse(pod).most, Apps ++ InitUse(pod).running) ++ pod.overhead

Budgeted(pod) == \A c \in ToSet(pod.apps) \cup ToSet(pod.inits) : HasBoth(c)

\* Kubernetes: the most that runs at once while the pod starts its init containers
\* one by one, leaving the restartable ones running, and then its apps.
Peak(pod) ==
  LET Inits == DOMAIN pod.inits
      Left(i) == {j \in Inits : j < i /\ pod.inits[j].always}
      Starting(i) == Request(pod.inits[i]) ++ SumOver(LAMBDA j : Request(pod.inits[j]), Left(i))
      Started == SumOver(LAMBDA j : Request(pod.apps[j]), DOMAIN pod.apps)
                 ++ SumOver(LAMBDA j : Request(pod.inits[j]), Left(Len(pod.inits) + 1))
  IN [x \in Resource |-> Max({Started[x]} \cup {Starting(i)[x] : i \in Inits})] ++ pod.overhead

-----------------------------------------------------------------------------
\* A rendered chart: a sequence of workloads [kind, count, pod].

\* Mutant of ReplicaCount: at least one pod.
ReplicaCountFloored(w) ==
  IF w.kind \in {"DaemonSet", "Pod"} THEN 1
  ELSE IF w.count = Missing \/ w.count < 0 THEN Missing ELSE Max({1, w.count})

\* _replica_count: a count that is negative or not a number is none at all. `count` is
\* replicas, or the parallelism of a Job or CronJob, and 1 if the chart has none.
ReplicaCount(w) ==
  IF w.kind \in {"DaemonSet", "Pod"} THEN 1
  ELSE IF w.count = Missing \/ w.count < 0 THEN Missing ELSE w.count

\* l3_render_demand: a workload without a count adds nothing, and the budget is missing.
RenderDemand(chart) ==
  LET Counted == {k \in DOMAIN chart : ReplicaCount(chart[k]) # Missing}
      Times(n, d) == [x \in Resource |-> n * d[x]]
  IN [demand |-> SumOver(LAMBDA k : Times(ReplicaCount(chart[k]), PodDemand(chart[k].pod)), Counted),
      budgeted |-> /\ chart # <<>> /\ Counted = DOMAIN chart
                   /\ \A k \in Counted : Budgeted(chart[k].pod)]

\* Mutant of SumDemand: one release with a budget is enough.
SumDemandAny(rendered) ==
  [demand |-> SumOver(LAMBDA k : rendered[k].demand, DOMAIN rendered),
   budgeted |-> \E k \in DOMAIN rendered : rendered[k].budgeted]

\* l3_sum_demand: of the releases of one launch, all budgeted or none.
SumDemand(rendered) ==
  [demand |-> SumOver(LAMBDA k : rendered[k].demand, DOMAIN rendered),
   budgeted |-> \A k \in DOMAIN rendered : rendered[k].budgeted]

-----------------------------------------------------------------------------
\* The node: its pods [release, namespace, pod, state, ...].

\* Mutant of Existing: the launch's own pods count, as do those it adds.
ExistingAll(pods, releases, ns) ==
  SumOver(LAMBDA p : PodDemand(p.pod), {p \in pods : p.state = "bound"})

\* l3_existing_demand: pods bound to the node and not finished, without those of the
\* releases the launch replaces in its namespace.
Existing(pods, releases, ns) ==
  SumOver(LAMBDA p : PodDemand(p.pod),
          {p \in pods : p.state = "bound" /\ ~(p.release \in releases /\ p.namespace = ns)})

-----------------------------------------------------------------------------
\* The verdict.

\* _coerce_capacity_int: an int, or digits that templating made of one; a bool, a
\* float, other text and a negative number raise.
Rejected == -1
Coerce(leaf) == IF leaf.type \in {"int", "digits"} /\ leaf.n >= 0 THEN leaf.n ELSE Rejected

\* Mutant of Fits: a launch that needs exactly what is left does not fit.
FitsStrictly(allocatable, existing, reserve, run) ==
  \A x \in Resource : allocatable[x] - existing[x] - reserve[x] > run[x]

\* l3_evaluate_fit on coerced quantities.
Fits(allocatable, existing, reserve, run) ==
  \A x \in Resource : allocatable[x] - existing[x] - reserve[x] >= run[x]
=============================================================================
