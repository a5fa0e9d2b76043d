---------------------------- MODULE MCLaunchPlan ----------------------------
\* Instances of LaunchPlan for TLC.
EXTENDS LaunchPlan

CONSTANTS u1, u2, s1, s2, bars, ball

Source(id, uuid, spelling, pattern) ==
  [id |-> id, flow |-> [uuid |-> uuid, spelling |-> spelling], pattern |-> pattern]
A == Source(s1, u1, "lower", bars)
B == Source(s2, u2, "lower", ball)
Of(sources, selection) ==
  [version |-> 1, sources |-> sources, viewer |-> "v", selection |-> selection,
   facility |-> "site"]

MCParams ==
  {Of(<<A>>, s1), Of(<<A, B>>, s2),
   Of(<<A, Source(s2, u1, "upper", ball)>>, s2),     \* one flow, spelled in two ways
   Of(<<A, Source(s2, u2, "lower", bars)>>, s1),     \* one pattern
   Of(<<A, Source(s1, u2, "lower", ball)>>, s1),     \* one id
   Of(<<A>>, s2),                                   \* selects none of its sources
   [Of(<<A, B>>, s1) EXCEPT !.facility = "other"]}

Ask(cpu, mem) == [x \in Resource |-> IF x = "cpu" THEN cpu ELSE mem]
C(cpu, mem) == [request |-> Ask(cpu, mem), always |-> FALSE]
Always(cpu, mem) == [request |-> Ask(cpu, mem), always |-> TRUE]
Pod(apps, inits, overhead) == [apps |-> apps, inits |-> inits, overhead |-> overhead]
App(cpu, mem) == Pod(<<C(cpu, mem)>>, <<>>, Zero)
W(kind, count, pod) == [kind |-> kind, count |-> count, pod |-> pod]
Chart(view, source) == [role \in Role |-> IF role = "view" THEN view ELSE source]

MCCharts ==
  {Chart(<<W("Deployment", 1, App(1, 1))>>,        \* a source that starts with more than it runs
         <<W("Deployment", 1, Pod(<<C(1, 1)>>, <<Always(1, 0), C(2, 1)>>, Zero))>>),
   Chart(<<W("Deployment", 2, App(1, 2)), W("StatefulSet", 0, App(9, 9))>>,
         <<W("Deployment", 1, Pod(<<C(1, 1)>>, <<C(1, 2)>>, Ask(1, 0)))>>),
   Chart(<<W("DaemonSet", 1, App(2, 1))>>,         \* a source without a memory request
         <<W("Deployment", 1, App(1, Missing))>>),
   Chart(<<W("CronJob", Missing, App(1, 1))>>,     \* a number that is none
         <<W("Job", 2, App(2, 1))>>)}

\* A release of the viewer's name in another namespace, and a neighbour.
MCOthers ==
  {[release |-> Scalar("view"), namespace |-> "other", pod |-> App(2, 1), number |-> <<1, 1>>],
   [release |-> <<"neighbour">>, namespace |-> Target, pod |-> App(1, 2), number |-> <<1, 1>>]}

MCReserves == {[type |-> type, n |-> 0] : type \in {"digits", "other"}}
MCAllocatable == Ask(7, 6)
=============================================================================
