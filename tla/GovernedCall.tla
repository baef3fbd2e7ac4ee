------------------------------ MODULE GovernedCall ------------------------------
(***************************************************************************)
(* What the Tool Gateway promises for every capability call, without saying *)
(* how: a call is requested, waits, is granted by somebody who may grant it *)
(* or is refused, and a granted call runs at most once.  Nothing in this    *)
(* module knows about events, behaviors, approval objects or restarts; the  *)
(* module ToolGateway is shown to implement it.                             *)
(***************************************************************************)
CONSTANTS
  Calls,          \* every capability_call the graph will ever hold
  Automatic,      \* the calls some policy dimension could grant unattended
  Policy,         \* the deciders that act without a human
  Owners          \* the references a human decides under

VARIABLES
  phase,          \* [Calls -> Phases]
  authority       \* who granted the call; Nobody while it is not granted

CONSTANT Nobody

Phases == {"unknown", "waiting", "granted", "running", "finished", "refused"}

vars == <<phase, authority>>

Init ==
  /\ phase = [c \in Calls |-> "unknown"]
  /\ authority = [c \in Calls |-> Nobody]

Request(c) ==
  /\ phase[c] = "unknown"
  /\ phase' = [phase EXCEPT ![c] = "waiting"]
  /\ UNCHANGED authority

\* A human grants a waiting call; a policy grants only an automatic one, and
\* may do so in the very step that records the request.
Grant(c, who) ==
  /\ \/ phase[c] = "waiting" /\ who \in Owners
     \/ phase[c] \in {"unknown", "waiting"} /\ who \in Policy /\ c \in Automatic
  /\ phase' = [phase EXCEPT ![c] = "granted"]
  /\ authority' = [authority EXCEPT ![c] = who]

Refuse(c) ==
  /\ phase[c] = "waiting"
  /\ phase' = [phase EXCEPT ![c] = "refused"]
  /\ UNCHANGED authority

Run(c) ==
  /\ phase[c] = "granted"
  /\ phase' = [phase EXCEPT ![c] = "running"]
  /\ UNCHANGED authority

Finish(c) ==
  /\ phase[c] = "running"
  /\ phase' = [phase EXCEPT ![c] = "finished"]
  /\ UNCHANGED authority

Next ==
  \E c \in Calls :
    \/ Request(c)
    \/ \E who \in Owners \cup Policy : Grant(c, who)
    \/ Refuse(c)
    \/ Run(c)
    \/ Finish(c)

Spec == Init /\ [][Next]_vars
=================================================================================
