----------------------------- MODULE Supervisor -----------------------------
(***************************************************************************)
(* The container's first process (container_runtime.py): it starts the     *)
(* services one after the other, waits until one of them ends or a signal  *)
(* asks it to stop, then stops them all and returns a status. Signals are  *)
(* handled between any two steps, services end at any moment, and the      *)
(* event loop learns of an end some time after it happened.                *)
(***************************************************************************)
EXTENDS Integers

CONSTANTS
    N,          \* how many services there are (_COMMANDS)
    Signals,    \* SIGTERM, SIGINT
    Codes,      \* what a service may return, of itself or when it is told to end
    None

ASSUME SupervisorAssumption ==
    N \in Nat /\ Signals \subseteq 1..127 /\ Codes \subseteq Int /\ None \notin Int

VARIABLES
    pc,         \* where _supervise and _stop_children are
    requested,  \* requested_signal
    status,     \* what will be returned
    started,    \* how many services have been started
    told,       \* the last signal each service was sent
    ended,      \* the code each service has ended with
    reaped      \* the services whose returncode and waiter show it

supervisorVars == <<pc, requested, status, started, told, ended, reaped>>

Services == 1..N
Children == 1..started

SIGKILL == 9

SupervisorInit ==
    /\ pc = "launch" /\ requested = None /\ status = None /\ started = 0
    /\ told = [i \in Services |-> "nothing"]
    /\ ended = [i \in Services |-> None]
    /\ reaped = {}

\* Of several signals the first counts.
First_Last(s) == s                      \* mutant: the last one does
First(s) == IF requested = None THEN s ELSE requested

\* request_stop
RequestStop(s) ==
    /\ pc # "done"
    /\ requested' = First(s)
    /\ UNCHANGED <<pc, status, started, told, ended, reaped>>

\* A service ends; one that was killed cannot do anything else.
End(i) ==
    /\ i \in Children /\ ended[i] = None
    /\ \E code \in IF told[i] = "kill" THEN {-SIGKILL} ELSE Codes :
         ended' = [ended EXCEPT ![i] = code]
    /\ UNCHANGED <<pc, requested, status, started, told, reaped>>

\* The child watcher hands its code to the loop.
Reap(i) ==
    /\ i \in Children \ reaped /\ ended[i] # None
    /\ reaped' = reaped \cup {i}
    /\ UNCHANGED <<pc, requested, status, started, told, ended>>

-----------------------------------------------------------------------------
(* _supervise *)

Stop(code) == pc' = "terminate" /\ status' = code

More == started < N

\* No service is started after a signal was seen.
Launch ==
    /\ pc = "launch" /\ More
    /\ IF requested # None
       THEN Stop(128 + requested)
       ELSE pc' = "starting" /\ UNCHANGED status
    /\ UNCHANGED <<requested, started, told, ended, reaped>>

Started ==
    /\ pc = "starting"
    /\ pc' = "launch" /\ started' = started + 1
    /\ UNCHANGED <<requested, status, told, ended, reaped>>

\* main turns every exception into 1, a pending signal or not.
StartFails ==
    /\ pc = "starting"
    /\ Stop(1)
    /\ UNCHANGED <<requested, started, told, ended, reaped>>

AllStarted ==
    /\ pc = "launch" /\ ~ More
    /\ pc' = "wait"
    /\ UNCHANGED <<requested, status, started, told, ended, reaped>>

\* POSIX statuses, and never success.
ExitStatus_Raw(code) == IF code < 0 THEN 128 - code ELSE code     \* mutant: zero passes
ExitStatus(code) ==
    LET c == IF code < 0 THEN 128 - code ELSE code
    IN  IF c \in 1..255 THEN c ELSE 1

Wake_Deaf == pc = "wait" /\ reaped # {}             \* mutant: the stop event not awaited
Wake == pc = "wait" /\ (requested # None \/ reaped # {})

\* A signal comes before the end of a service, the first service before the second.
Decide ==
    /\ Wake
    /\ IF requested # None
       THEN Stop(128 + requested)
       ELSE \E i \in reaped : (\A j \in reaped : i <= j) /\ Stop(ExitStatus(ended[i]))
    /\ UNCHANGED <<requested, started, told, ended, reaped>>

-----------------------------------------------------------------------------
(* _stop_children *)

Alive == Children \ reaped

Tell(what) == told' = [i \in Services |-> IF i \in Alive THEN what ELSE told[i]]

Terminate ==
    /\ pc = "terminate"
    /\ Tell("terminate")
    /\ pc' = IF started = 0 THEN "done" ELSE "grace"
    /\ UNCHANGED <<requested, status, started, ended, reaped>>

\* All have ended, or the shared deadline has passed.
Kill ==
    /\ pc = "grace"
    /\ Tell("kill")
    /\ pc' = "gather"
    /\ UNCHANGED <<requested, status, started, ended, reaped>>

AllReaped_Any == \E i \in Children : i \in reaped     \* mutant: the first to end is enough
AllReaped == Alive = {}

\* gather; the handlers are restored and the status is returned.
Return ==
    /\ pc = "gather" /\ AllReaped
    /\ pc' = "done"
    /\ UNCHANGED <<requested, status, started, told, ended, reaped>>

Supervise == Launch \/ Started \/ StartFails \/ AllStarted \/ Decide \/ Terminate \/ Kill \/ Return

SupervisorNext ==
    \/ Supervise
    \/ \E s \in Signals : RequestStop(s)
    \/ \E i \in Services : End(i) \/ Reap(i)

SupervisorSpec == SupervisorInit /\ [][SupervisorNext]_supervisorVars

\* The process is scheduled, every await but that for a service has an end, the
\* watcher sees what has ended, and what is killed ends. A service that runs or is
\* told to terminate need not end.
SupervisorFairness ==
    /\ WF_supervisorVars(Supervise)
    /\ \A i \in Services : WF_supervisorVars(Reap(i)) /\ WF_supervisorVars(told[i] = "kill" /\ End(i))

SupervisorFairSpec == SupervisorSpec /\ SupervisorFairness

-----------------------------------------------------------------------------
(* Properties. *)

SupervisorTypeOK ==
    /\ pc \in {"launch", "starting", "wait", "terminate", "grace", "gather", "done"}
    /\ requested \in Signals \cup {None}
    /\ status \in Int \cup {None}
    /\ started \in 0..N
    /\ told \in [Services -> {"nothing", "terminate", "kill"}]
    /\ ended \in [Services -> Int \cup {None}]
    /\ reaped \subseteq Children

\* However it stops, in the middle of the start too, it leaves no service behind: all
\* that were started have ended and were reaped.
NoServiceLeft == pc = "done" => \A i \in Children : i \in reaped /\ ended[i] # None

\* Its status is never success ("An unexpected exit (even status zero) stops the
\* container") and a status a process can have.
NeverSuccess == pc = "done" => status \in 1..255

\* A signal that comes before the end is decided, and not while a service is being
\* started, is what the status tells, whatever the services do meanwhile.
SignalIsHonoured ==
    \A s \in Signals :
        requested = s /\ status = None /\ pc # "starting" ~> pc = "done" /\ status = 128 + s

\* When a service ends, or a signal comes in the middle of a start, the container ends,
\* also when another service ignores the request to terminate.
OneEndStopsAll ==
    (requested # None \/ \E i \in Services : ended[i] # None) ~> pc = "done"

=============================================================================
