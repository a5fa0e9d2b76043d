------------------------------ MODULE Topology ------------------------------
(***************************************************************************)
(* topology_params: the sources and the viewer's selection that a launch   *)
(* of the viewer carries, their validation and what is derived from them.  *)
(*                                                                         *)
(* Params are [version, sources : Seq([id, flow, pattern]), viewer,        *)
(* selection, facility]. A flow id is a UUID in some spelling: [uuid,      *)
(* spelling], with uuid = NoValue for text that is none. NoValue also      *)
(* stands for a field that is missing, empty or of another type than it    *)
(* must be.                                                                *)
(***************************************************************************)
EXTENDS Naturals, Sequences, Functions

CONSTANT NoValue

Column(params, field) == [k \in DOMAIN params.sources |-> params.sources[k][field]]
Uuids(params) == [k \in DOMAIN params.sources |-> params.sources[k].flow.uuid]

Complete(params) ==
  /\ params.version = 1 /\ params.sources # <<>>
  /\ \A k \in DOMAIN params.sources :
       LET s == params.sources[k] IN NoValue \notin {s.id, s.flow.uuid, s.pattern}
  /\ NoValue \notin {params.viewer, params.selection, params.facility}

\* Mutant of Valid: flow ids are compared as they are spelled.
ValidAsSpelled(params) ==
  /\ Complete(params)
  /\ \A field \in {"id", "flow", "pattern"} : IsInjective(Column(params, field))
  /\ \E k \in DOMAIN params.sources : params.sources[k].id = params.selection

\* l3_validate_topology_params. One id, flow or pattern stands for one source, and the
\* viewer selects one of them.
Valid(params) ==
  /\ Complete(params)
  /\ IsInjective(Column(params, "id"))
  /\ IsInjective(Uuids(params))
  /\ IsInjective(Column(params, "pattern"))
  /\ \E k \in DOMAIN params.sources : params.sources[k].id = params.selection

\* l3_topology_release_group: for each source a release named after the viewer's and
\* the source, with the values that tell it from the others.
ReleaseGroup(params, release) ==
  [k \in DOMAIN params.sources |->
     LET s == params.sources[k] IN
     [release |-> <<release, s.id>>, sourceId |-> s.id, flow |-> s.flow, pattern |-> s.pattern]]

\* Mutant of ViewerProjection: the flow of the first source, whatever is selected.
ViewerProjectionFirst(params) ==
  [active |-> params.selection, flow |-> params.sources[1].flow]

\* l3_topology_viewer_projection.
ViewerProjection(params) ==
  LET Selected == CHOOSE k \in DOMAIN params.sources : params.sources[k].id = params.selection IN
  [active |-> params.selection, flow |-> params.sources[Selected].flow]
=============================================================================
