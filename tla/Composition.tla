------------------------------ MODULE Composition ------------------------------
(*****************************************************************************)
(* The parts that run for one start or request each, side by side: the       *)
(* container's supervisor, the investigation agent, the analyses that store  *)
(* incidents, the load of CI sources, the inspection of a pipeline and the   *)
(* proposals. They share no state: any of them may be under way or at rest,  *)
(* and a step is a step of one of them.                                      *)
(*****************************************************************************)
EXTENDS Supervisor, InvestigationAgent, Incidents, CiSources, PipelineInspection, Remediation

servicesVars == <<supervisorVars, agent, incidentVars, sourceVars, inspectionVars, repairVars>>

-----------------------------------------------------------------------------
(* At rest: there is nothing a component could do.                           *)

SupervisorIdle ==
    /\ pc = "done" /\ requested = None /\ status = 1 /\ started = 0 /\ reaped = {}
    /\ told = [i \in Services |-> "nothing"] /\ ended = [i \in Services |-> None]
AgentIdle == agent = NotAsked
IncidentsIdle ==
    /\ rows = [i \in Incidents |-> NoRow] /\ evidence = [i \in Incidents |-> <<>>]
    /\ analyses = [t \in Tasks |-> [Begun EXCEPT !.pc = "failed"]]
    /\ answers = [r \in IncidentRequests |-> "error"]
    /\ tries = [r \in Deliveries |-> 0] /\ crashes = 0
SourcesIdle ==
    /\ asked = [entry |-> [ref |-> "commit", setting |-> "default", file |-> RootFile],
                includes |-> [f \in Files |-> <<>>],
                trouble |-> [odd |-> {}, denied |-> {}, hidden |-> {}, foreign |-> {}, gone |-> {}],
                limit |-> 1]
    /\ load = NotLoading
InspectionIdle ==
    /\ pipeline = [listed |-> <<>>, outcome |-> [j \in Jobs |-> "other"], bridges |-> <<>>]
    /\ view = NotInspecting
RemediationIdle ==
    /\ result = [findings |-> <<>>, changed |-> {}, known |-> {}, bundle |-> {}, childBundle |-> {}]
    /\ repair = NotRepairing

-----------------------------------------------------------------------------
ServicesInit ==
    /\ SupervisorInit \/ SupervisorIdle
    /\ AgentInit \/ AgentIdle
    /\ IncidentsInit \/ IncidentsIdle
    /\ SourcesInit \/ SourcesIdle
    /\ InspectionInit \/ InspectionIdle
    /\ RemediationInit \/ RemediationIdle

ServicesNext ==
    \/ /\ SupervisorNext
       /\ UNCHANGED <<agent, incidentVars, sourceVars, inspectionVars, repairVars>>
    \/ /\ AgentNext
       /\ UNCHANGED <<supervisorVars, incidentVars, sourceVars, inspectionVars, repairVars>>
    \/ /\ IncidentsNext
       /\ UNCHANGED <<supervisorVars, agent, sourceVars, inspectionVars, repairVars>>
    \/ /\ SourcesNext
       /\ UNCHANGED <<supervisorVars, agent, incidentVars, inspectionVars, repairVars>>
    \/ /\ InspectionNext
       /\ UNCHANGED <<supervisorVars, agent, incidentVars, sourceVars, repairVars>>
    \/ /\ RemediationNext
       /\ UNCHANGED <<supervisorVars, agent, incidentVars, sourceVars, inspectionVars>>

ServicesSpec == ServicesInit /\ [][ServicesNext]_servicesVars

-----------------------------------------------------------------------------
\* The types of all of them, with the budgets that are part of the types.
ServicesTypeOK ==
    /\ SupervisorTypeOK /\ AgentTypeOK /\ IncidentsTypeOK /\ SourcesTypeOK
    /\ InspectionTypeOK /\ RemediationTypeOK
================================================================================
