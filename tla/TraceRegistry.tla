---------------------------- MODULE TraceRegistry ----------------------------
(***************************************************************************)
(* Project maps and the context manifests made for them. A map and a       *)
(* context are known by their number in the order they were made. What a   *)
(* map or a context describes is compared with what a caller passes to     *)
(* validateContext, and is left out; so are requirement traces.            *)
(***************************************************************************)
EXTENDS Naturals, Sequences

CONSTANTS
  Project,
  MaxMaps, MaxContexts   \* bounds on the maps and contexts that are made

ASSUME MaxTraceAssumption == MaxMaps \in Nat /\ MaxContexts \in Nat

VARIABLES
  projectMaps,   \* the maps, each with its project and status
  contexts       \* the contexts, each with its map and status

traceVars == <<projectMaps, contexts>>

ProjectMap == [project : Project, status : {"ACTIVE", "SUPERSEDED"}, supersededBy : Nat]
Context == [projectMap : Nat, project : Project, status : {"ACTIVE", "INVALID"}]

TraceTypeOK ==
  /\ projectMaps \in Seq(ProjectMap)
  /\ contexts \in Seq(Context)

TraceInit == projectMaps = <<>> /\ contexts = <<>>

\* Mutant: contexts outlive the map they were made for.
ContextsKept(project) == contexts
\* invalidateContextsForProject
InvalidatedContexts(project) ==
  [c \in DOMAIN contexts |->
     IF contexts[c].project = project /\ contexts[c].status = "ACTIVE"
     THEN [contexts[c] EXCEPT !.status = "INVALID"] ELSE contexts[c]]

SupersededMaps(project, id) ==
  [m \in DOMAIN projectMaps |->
     IF projectMaps[m].project = project /\ projectMaps[m].status = "ACTIVE"
     THEN [projectMaps[m] EXCEPT !.status = "SUPERSEDED", !.supersededBy = id]
     ELSE projectMaps[m]]

\* registerProjectMap: the new map supersedes the active one of its project.
RegisterProjectMap(project) ==
  LET id == Len(projectMaps) + 1
  IN /\ id <= MaxMaps
     /\ projectMaps' = Append(SupersededMaps(project, id),
                              [project |-> project, status |-> "ACTIVE", supersededBy |-> 0])
     /\ contexts' = InvalidatedContexts(project)

\* createContextManifest: for an active map only.
CreateContextManifest(m) ==
  /\ Len(contexts) < MaxContexts
  /\ projectMaps[m].status = "ACTIVE"
  /\ contexts' = Append(contexts, [projectMap |-> m, project |-> projectMaps[m].project,
                                   status |-> "ACTIVE"])
  /\ UNCHANGED projectMaps

InvalidateContext(c) ==
  /\ contexts' = [contexts EXCEPT ![c] = [contexts[c] EXCEPT !.status = "INVALID"]]
  /\ UNCHANGED projectMaps

TraceNext ==
  \/ \E project \in Project : RegisterProjectMap(project)
  \/ \E m \in DOMAIN projectMaps : CreateContextManifest(m)
  \/ \E c \in DOMAIN contexts : InvalidateContext(c)

TraceSpec == TraceInit /\ [][TraceNext]_traceVars

------------------------------------------------------------------------------
\* The baseline of a project is one: its active map is the latest registered
\* (trace-registry.mjs:25-30).
LatestMapIsActive ==
  \A m \in DOMAIN projectMaps :
    projectMaps[m].status = "ACTIVE" <=>
      \A n \in DOMAIN projectMaps : projectMaps[n].project = projectMaps[m].project => n <= m

\* No context outlives the map it was made for: whichever way maps of several
\* projects replace one another, what validateContext reads from the context
\* and from its map never contradict (trace-registry.mjs:25-31, 99-103, 150-156).
ContextsFollowMaps ==
  \A c \in DOMAIN contexts :
    LET m == contexts[c].projectMap
    IN /\ m \in DOMAIN projectMaps /\ projectMaps[m].project = contexts[c].project
       /\ contexts[c].status = "ACTIVE" => projectMaps[m].status = "ACTIVE"
==============================================================================
