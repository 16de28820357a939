------------------------------- MODULE MCService -------------------------------
(***************************************************************************)
(* The parts of the service that share no state with each other, each in   *)
(* an instance small enough for TLC: `scene` says which of them moves in a *)
(* behaviour, the others stay as they began.  (All of them moving at once  *)
(* would multiply their states and show nothing else.)  The same model     *)
(* values stand for the actors and objects of all parts, so that one group *)
(* of permutations is the symmetry of each.                                *)
(***************************************************************************)
EXTENDS Access, Intake, Pages, Maintenance, GraphExpand, ContextPack, Providers, TLC

VARIABLE scene

Scenes == {"access", "intake", "pages", "maintenance", "graph", "context", "providers"}

Symmetry == Permutations(Call) \cup Permutations(Key)

(* Values of constants.                                                    *)

FullForOne == [p \in Principal |-> IF p = "p" THEN "full" ELSE None]

Capturing(operation, event, content, memories) ==
  [operation |-> operation, event |-> event, content |-> content, memories |-> memories]

SomeRequests ==
  { Capturing("observe", "e", "d", <<>>),
    Capturing("capture", "e", "c", <<"m">>),
    Capturing("capture_batch", "e", "c", <<"m", "n">>),
    Capturing("capture_batch", "f", "c", <<"m", "n">>) }

OldAndNew == [r \in Runtime |-> IF r = "old" THEN 1 ELSE 3]

TwoScopes == [e \in Entity |-> IF e = 4 THEN "b" ELSE "a"]

Expanding(seeds, direction, maxHops, maxPaths) ==
  [seeds |-> seeds, direction |-> direction, maxHops |-> maxHops, maxPaths |-> maxPaths]

SomeQueries ==
  { Expanding({1}, "outgoing", 2, 100),
    Expanding({1, 4}, "incoming", 2, 2),
    Expanding({1, 2}, "both", 2, 3) }

(* The service.                                                            *)

Init ==
  /\ scene \in Scenes
  /\ AccessInit /\ IntakeInit /\ PagesInit /\ MaintenanceInit
  /\ GraphInit /\ ContextInit /\ ProvidersInit
  /\ scene # "pages" => listed = "jobs"
  /\ scene # "maintenance" =>
       installed = {} /\ stored = {} /\ \A m \in Maintainer : task[m] = "migrate"

Next ==
  \/ /\ scene = "access" /\ AccessNext
     /\ UNCHANGED <<scene, intakeVars, pagesVars, maintVars, graphVars, contextVars,
                    providerVars>>
  \/ /\ scene = "intake" /\ IntakeNext
     /\ UNCHANGED <<scene, accessVars, pagesVars, maintVars, graphVars, contextVars,
                    providerVars>>
  \/ /\ scene = "pages" /\ PagesNext
     /\ UNCHANGED <<scene, accessVars, intakeVars, maintVars, graphVars, contextVars,
                    providerVars>>
  \/ /\ scene = "maintenance" /\ MaintenanceNext
     /\ UNCHANGED <<scene, accessVars, intakeVars, pagesVars, graphVars, contextVars,
                    providerVars>>
  \/ /\ scene = "graph" /\ GraphNext
     /\ UNCHANGED <<scene, accessVars, intakeVars, pagesVars, maintVars, contextVars,
                    providerVars>>
  \/ /\ scene = "context" /\ ContextNext
     /\ UNCHANGED <<scene, accessVars, intakeVars, pagesVars, maintVars, graphVars,
                    providerVars>>
  \/ /\ scene = "providers" /\ ProvidersNext
     /\ UNCHANGED <<scene, accessVars, intakeVars, pagesVars, maintVars, graphVars,
                    contextVars>>

vars == <<scene, accessVars, intakeVars, pagesVars, maintVars, graphVars, contextVars,
          providerVars>>

Spec == Init /\ [][Next]_vars

\* native_client.py, providers.py: whoever calls over a connection that may fail, a
\* client of the API or a caller of a model provider, is not misled: an error that
\* does not say unknown means that nothing was changed or charged, then or later.
NobodyIsMisled == ClientsAreToldTheTruth /\ CallersAreToldTheTruth
===============================================================================
