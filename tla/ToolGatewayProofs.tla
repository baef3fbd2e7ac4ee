--------------------------- MODULE ToolGatewayProofs ---------------------------
(***************************************************************************)
(* What the prover shows of ToolGateway for every set of calls,             *)
(* capabilities, approvers, ceilings and any number of crashes.             *)
(***************************************************************************)
EXTENDS ToolGateway, TLAPS

\* The event set, the thread's frames and a frame step keep their types.
LEMMA EventTypes ==
  ASSUME NEW c \in Calls
  PROVE  /\ \A s \in Statuses : Event("capability_call", c, s) \in Events
         /\ Event("capability_approval", c, "approved") \in Events
         /\ \A s \in {"output", "empty"} :
              Event("capability_result", c, s) \in Events
  BY DEF Event, Events, Statuses

\* Recording an audit object keeps the audit trails well typed.
LEMMA RecordTypes ==
  ASSUME audit \in [Calls -> Seq(AuditRecords)], NEW c \in Calls,
         NEW kind \in {"approval", "denial", "result", "source"},
         NEW by \in Refs \cup Agents,
         Record(c, kind, by)
  PROVE  audit' \in [Calls -> Seq(AuditRecords)]
<1>1. [kind |-> kind, by |-> by] \in AuditRecords
  BY DEF AuditRecords
<1>2. Append(audit[c], [kind |-> kind, by |-> by]) \in Seq(AuditRecords)
  BY <1>1
<1> QED
  BY <1>2 DEF Record

\* Inside a function the thread's frame names a call and an agent.
LEMMA FrameTypes ==
  ASSUME exec \in Frames \cup {Idle}, exec.pc # "idle"
  PROVE  /\ exec \in Frames
         /\ exec.call \in Calls
         /\ exec.by \in Refs \cup Agents
         /\ exec.ok \in BOOLEAN
  BY DEF Frames, Idle

\* A step that counts once, or not at all, keeps the history counters.
LEMMA RunsType ==
  ASSUME runs \in [Calls -> Nat], NEW c \in Calls,
         runs' = [runs EXCEPT ![c] = @ + 1] \/ UNCHANGED runs
  PROVE  runs' \in [Calls -> Nat]
  OBVIOUS

LEMMA BodyType ==
  ASSUME body \in [Calls -> Nat], NEW c \in Calls,
         body' = [body EXCEPT ![c] = @ + 1] \/ UNCHANGED body
  PROVE  body' \in [Calls -> Nat]
  OBVIOUS

LEMMA EnterTypes ==
  ASSUME NEW pc \in {"approval", "denial", "enter", "invoke", "retry",
                     "record", "finish"},
         NEW c \in Calls, NEW by \in Refs \cup Agents, NEW ok \in BOOLEAN,
         Enter(pc, c, by, ok)
  PROVE  exec' \in Frames
  BY DEF Enter, Frames

LEMMA TypeInit == Init => TypeOK
  BY ToolGatewayAssumption
  DEF Init, TypeOK, Statuses, Idle, Ceilings, Roles

\* Every step keeps every variable in its type.
LEMMA TypeStep == TypeOK /\ [Next]_vars => TypeOK'
<1> SUFFICES ASSUME TypeOK, [Next]_vars PROVE TypeOK'
  OBVIOUS
<1> USE DEF TypeOK
<1>1. ASSUME NEW c \in Calls, Propose(c) PROVE TypeOK'
  BY <1>1, EventTypes DEF Propose, SetStatus, Statuses
<1>2. ASSUME NEW c \in Calls, ProxyCall(c) PROVE TypeOK'
  <2>1. /\ status' \in [Calls -> Statuses]
        /\ queue' \subseteq Events
        /\ decider' \in [Calls -> Refs \cup Policy \cup {Nobody}]
    BY <1>2, EventTypes DEF ProxyCall, SetStatus, Statuses, Policy
  <2>2. exec' \in Frames \cup {Idle}
    <3>1. Enter("enter", c, "gateway_llm_proxy", FALSE) \/ UNCHANGED exec
      BY <1>2 DEF ProxyCall
    <3> QED
      BY <3>1, EnterTypes DEF Agents, Policy
  <2> QED
    BY <1>2, <2>1, <2>2 DEF ProxyCall
<1>3. ASSUME NEW e \in queue, PolicyEnforcer(e) PROVE TypeOK'
  <2>1. e.call \in Calls
    BY DEF Events
  <2>2. /\ status' \in [Calls -> Statuses]
        /\ queue' \subseteq Events
        /\ decider' \in [Calls -> Refs \cup Policy \cup {Nobody}]
    BY <1>3, <2>1 DEF PolicyEnforcer, SetStatus, Statuses, Policy
  <2>3. exec' \in Frames \cup {Idle}
    <3>1. \/ Enter("approval", e.call, "policy_enforcer", FALSE)
          \/ UNCHANGED exec
      BY <1>3 DEF PolicyEnforcer
    <3> QED
      BY <2>1, <3>1, EnterTypes DEF Agents, Policy
  <2> QED
    BY <1>3, <2>2, <2>3 DEF PolicyEnforcer
<1>4. ASSUME NEW e \in queue, CallExecutor(e) PROVE TypeOK'
  <2>1. e.call \in Calls
    BY DEF Events
  <2>2. /\ status' \in [Calls -> Statuses]
        /\ queue' \subseteq Events
        /\ runs' \in [Calls -> Nat]
    <3>1. \/ SetStatus(e.call, "executing") \/ UNCHANGED status
      BY <1>4 DEF CallExecutor
    <3>2. \/ runs' = [runs EXCEPT ![e.call] = @ + 1] \/ UNCHANGED runs
      BY <1>4 DEF CallExecutor
    <3>3. queue' = queue \ {e}
      BY <1>4 DEF CallExecutor
    <3>4. runs' \in [Calls -> Nat]
      BY <2>1, <3>2, RunsType
    <3> QED
      BY <2>1, <3>1, <3>3, <3>4 DEF SetStatus, Statuses
  <2>3. exec' \in Frames \cup {Idle}
    <3>1. Enter("invoke", e.call, "call_executor", FALSE) \/ UNCHANGED exec
      BY <1>4 DEF CallExecutor
    <3> QED
      BY <2>1, <3>1, EnterTypes DEF Agents
  <2> QED
    BY <1>4, <2>2, <2>3 DEF CallExecutor
<1>5. ASSUME NEW e \in queue, ResultSourcer(e) PROVE TypeOK'
  <2>1. e.call \in Calls /\ "result_sourcer" \in Refs \cup Agents
    BY DEF Events, Agents
  <2>2. audit' \in [Calls -> Seq(AuditRecords)]
    BY <1>5, <2>1, RecordTypes DEF ResultSourcer
  <2> QED
    BY <1>5, <2>2 DEF ResultSourcer
<1>6. CASE MarkExecuting
  <2>1. exec \in Frames /\ exec.call \in Calls
    BY <1>6, FrameTypes DEF MarkExecuting
  <2>2. exec' \in Frames
    BY <1>6, <2>1 DEF MarkExecuting, Frames
  <2>3. status' \in [Calls -> Statuses] /\ runs' \in [Calls -> Nat]
    BY <1>6, <2>1 DEF MarkExecuting, SetStatus, Statuses
  <2> QED
    BY <1>6, <2>2, <2>3 DEF MarkExecuting
<1>7. CASE InvokeHandler
  <2>1. exec \in Frames /\ exec.call \in Calls
    BY <1>7, FrameTypes DEF InvokeHandler
  <2>2. exec' \in Frames
    BY <1>7, <2>1 DEF InvokeHandler, Frames
  <2>3. body' \in [Calls -> Nat]
    <3>1. body' = [body EXCEPT ![exec.call] = @ + 1] \/ UNCHANGED body
      BY <1>7 DEF InvokeHandler
    <3> QED
      BY <2>1, <3>1, BodyType
  <2> QED
    BY <1>7, <2>2, <2>3 DEF InvokeHandler
<1>8. CASE InvokeAgain
  <2>1. exec \in Frames /\ exec.call \in Calls
    BY <1>8, FrameTypes DEF InvokeAgain
  <2>2. exec' \in Frames
    BY <1>8, <2>1 DEF InvokeAgain, Frames
  <2>3. body' \in [Calls -> Nat]
    <3>1. body' = [body EXCEPT ![exec.call] = @ + 1] \/ UNCHANGED body
      BY <1>8 DEF InvokeAgain
    <3> QED
      BY <2>1, <3>1, BodyType
  <2> QED
    BY <1>8, <2>2, <2>3 DEF InvokeAgain
<1>9. CASE RecordResult
  <2>1. exec \in Frames /\ exec.call \in Calls /\ exec.by \in Refs \cup Agents
    BY <1>9, FrameTypes DEF RecordResult
  <2>2. exec' \in Frames
    BY <1>9, <2>1 DEF RecordResult, Frames
  <2>3. audit' \in [Calls -> Seq(AuditRecords)]
    BY <1>9, <2>1, RecordTypes DEF RecordResult
  <2>4. queue' \subseteq Events
    BY <1>9, <2>1, EventTypes DEF RecordResult
  <2> QED
    BY <1>9, <2>2, <2>3, <2>4 DEF RecordResult
<1>10. CASE FinishCall
  <2>1. exec \in Frames /\ exec.call \in Calls
    BY <1>10, FrameTypes DEF FinishCall
  <2>2. exec' \in Frames \cup {Idle}
    BY <1>10, <2>1 DEF FinishCall, AfterFinish, Frames
  <2>3. status' \in [Calls -> Statuses]
    BY <1>10, <2>1 DEF FinishCall, SetStatus, FinalStatus, Statuses
  <2> QED
    BY <1>10, <2>2, <2>3 DEF FinishCall
<1>11. CASE AddApproval
  <2>1. exec.call \in Calls /\ exec.by \in Refs \cup Agents
    BY <1>11, FrameTypes DEF AddApproval
  <2>2. audit' \in [Calls -> Seq(AuditRecords)]
    BY <1>11, <2>1, RecordTypes DEF AddApproval
  <2>3. queue' \subseteq Events
    BY <1>11, <2>1, EventTypes DEF AddApproval
  <2> QED
    BY <1>11, <2>2, <2>3 DEF AddApproval
<1>12. CASE AddDenial
  <2>1. exec.call \in Calls /\ exec.by \in Refs \cup Agents
    BY <1>12, FrameTypes DEF AddDenial
  <2>2. audit' \in [Calls -> Seq(AuditRecords)]
    BY <1>12, <2>1, RecordTypes DEF AddDenial
  <2> QED
    BY <1>12, <2>2 DEF AddDenial
<1>13. ASSUME NEW c \in Calls, NEW r \in Refs,
              ApproveCapability(c, r) \/ DenyCapability(c, r)
       PROVE  TypeOK'
  <2>1. /\ status' \in [Calls -> Statuses]
        /\ decider' \in [Calls -> Refs \cup Policy \cup {Nobody}]
    BY <1>13 DEF ApproveCapability, DenyCapability, SetStatus, Statuses
  <2>2. exec' \in Frames
    <3>1. Enter("approval", c, r, FALSE) \/ Enter("denial", c, r, FALSE)
      BY <1>13 DEF ApproveCapability, DenyCapability
    <3> QED
      BY <3>1, EnterTypes
  <2> QED
    BY <1>13, <2>1, <2>2 DEF ApproveCapability, DenyCapability
<1>14. CASE Surroundings
  <2>1. ASSUME NEW k \in Caps, RegisterCapability(k) PROVE TypeOK'
    BY <2>1 DEF RegisterCapability
  <2>2. ASSUME NEW k \in Caps, StandingScopeChange(k) PROVE TypeOK'
    BY <2>2 DEF StandingScopeChange
  <2>3. ASSUME NEW r \in Refs, NEW role \in Roles, SetRole(r, role)
        PROVE  TypeOK'
    BY <2>3 DEF SetRole
  <2>4. ASSUME NEW n \in OwnerCeilings, SetAuthorityCeiling(n) PROVE TypeOK'
    BY <2>4, ToolGatewayAssumption DEF SetAuthorityCeiling
  <2> QED
    BY <1>14, <2>1, <2>2, <2>3, <2>4 DEF Surroundings
<1>15. CASE CrashRestart
  BY <1>15, ToolGatewayAssumption DEF CrashRestart
<1>16. CASE UNCHANGED vars
  BY <1>16 DEF vars
<1> QED
  BY <1>1, <1>2, <1>3, <1>4, <1>5, <1>6, <1>7, <1>8, <1>9, <1>10, <1>11,
     <1>12, <1>13, <1>14, <1>15, <1>16
  DEF Next, RuntimeStep, ExecutionStep, Dispatch, Resolve

\* Type correctness of the gateway: in particular no code path gives a call a
\* status outside the schema's Literal or a trail entry without a known author.
THEOREM TypeCorrect == Spec => []TypeOK
<1>1. Init => TypeOK
  BY TypeInit
<1>2. TypeOK /\ [Next]_vars => TypeOK'
  BY TypeStep
<1> QED
  BY <1>1, <1>2, PTL DEF Spec

-----------------------------------------------------------------------------
(* At most one run *)

Begun == {"executing", "done", "failed"}

\* The run counter is a function of the status.
RunsFollowStatus ==
  \A c \in Calls : runs[c] = IF status[c] \in Begun THEN 1 ELSE 0
\* The thread executes only the call it has itself marked.
FrameFollowsStatus ==
  /\ exec.pc = "enter" => status[exec.call] = "approved"
  /\ exec.pc \in {"invoke", "retry", "record", "finish"} =>
       status[exec.call] = "executing"
\* policy_enforcer decides on the status in the event's snapshot: that is safe
\* because no other code path moves a proposed call.
SnapshotsAreFresh ==
  \A e \in queue :
    e.on = "capability_call" /\ e.snap = "proposed" =>
      status[e.call] = "proposed"

RunInv == RunsFollowStatus /\ FrameFollowsStatus /\ SnapshotsAreFresh

LEMMA RunInit == Init => RunInv
  BY DEF Init, RunInv, RunsFollowStatus, FrameFollowsStatus, SnapshotsAreFresh,
         Begun, Idle

\* A step that moves one call to a status in which it has not run, from one in
\* which it had not run either, keeps the counters in line.
LEMMA UnrunMove ==
  ASSUME TypeOK, RunsFollowStatus, NEW c \in Calls, NEW s,
         status[c] \notin Begun, s \notin Begun, SetStatus(c, s), UNCHANGED runs
  PROVE  RunsFollowStatus'
  BY DEF TypeOK, RunsFollowStatus, SetStatus

\* Marking an approved call executing is the one step that counts a run.
LEMMA FirstRun ==
  ASSUME TypeOK, RunsFollowStatus, NEW c \in Calls, status[c] = "approved",
         SetStatus(c, "executing"), runs' = [runs EXCEPT ![c] = @ + 1]
  PROVE  RunsFollowStatus'
<1>1. ASSUME NEW d \in Calls
      PROVE  runs'[d] = IF status'[d] \in Begun THEN 1 ELSE 0
  <2>1. status \in [Calls -> Statuses] /\ runs \in [Calls -> Nat]
    BY DEF TypeOK
  <2>2. CASE d = c
    <3>1. runs[c] = 0
      BY DEF RunsFollowStatus, Begun
    <3>2. status'[c] = "executing" /\ runs'[c] = runs[c] + 1
      BY <2>1 DEF SetStatus
    <3> QED
      BY <2>2, <3>1, <3>2 DEF Begun
  <2>3. CASE d # c
    <3>1. status'[d] = status[d] /\ runs'[d] = runs[d]
      BY <2>1, <2>3 DEF SetStatus
    <3> QED
      BY <3>1 DEF RunsFollowStatus
  <2> QED
    BY <2>2, <2>3
<1> QED
  BY <1>1 DEF RunsFollowStatus

\* Moving a call out of 'proposed' with its event consumed, or moving another
\* call, keeps the snapshots fresh.
LEMMA FreshMove ==
  ASSUME TypeOK, SnapshotsAreFresh, NEW c \in Calls, NEW s, SetStatus(c, s),
         \A e \in queue' :
           \/ e \in queue /\ e.call # c
           \/ e.on # "capability_call"
           \/ e.snap # "proposed"
           \/ e.call = c /\ s = "proposed"
  PROVE  SnapshotsAreFresh'
<1>1. ASSUME NEW e \in queue', e.on = "capability_call", e.snap = "proposed"
      PROVE  status'[e.call] = "proposed"
  <2>1. status \in [Calls -> Statuses]
    BY DEF TypeOK
  <2>2. \/ e \in queue /\ e.call # c
        \/ e.call = c /\ s = "proposed"
    BY <1>1
  <2>3. CASE e \in queue /\ e.call # c
    <3>1. e.call \in Calls /\ status[e.call] = "proposed"
      BY <1>1, <2>3 DEF TypeOK, Events, SnapshotsAreFresh
    <3> QED
      BY <2>1, <2>3, <3>1 DEF SetStatus
  <2>4. CASE e.call = c /\ s = "proposed"
    BY <2>1, <2>4 DEF SetStatus
  <2> QED
    BY <2>2, <2>3, <2>4
<1> QED
  BY <1>1 DEF SnapshotsAreFresh

\* A queued 'proposed' event of a call means that the call is proposed.
LEMMA NoStaleEvent ==
  ASSUME SnapshotsAreFresh, NEW c, status[c] # "proposed", NEW e \in queue,
         e.on = "capability_call", e.snap = "proposed"
  PROVE  e.call # c
  BY DEF SnapshotsAreFresh

\* A step that leaves statuses, counters and the thread alone and queues no
\* proposal keeps the invariant.
LEMMA QuietStep ==
  ASSUME RunInv, UNCHANGED <<status, runs>>,
         UNCHANGED exec \/ exec' = Idle,
         \A e \in queue' :
           e \in queue \/ e.on # "capability_call" \/ e.snap # "proposed"
  PROVE  RunInv'
<1>1. RunsFollowStatus'
  BY DEF RunInv, RunsFollowStatus
<1>2. FrameFollowsStatus'
  BY DEF RunInv, FrameFollowsStatus, Idle
<1>3. SnapshotsAreFresh'
  BY DEF RunInv, SnapshotsAreFresh
<1> QED
  BY <1>1, <1>2, <1>3 DEF RunInv

LEMMA RunStep == TypeOK /\ RunInv /\ [Next]_vars => RunInv'
<1> SUFFICES ASSUME TypeOK, RunInv, [Next]_vars PROVE RunInv'
  OBVIOUS
<1>a. RunsFollowStatus /\ FrameFollowsStatus /\ SnapshotsAreFresh
  BY DEF RunInv
<1>b. \A c \in Calls : status[c] \in Statuses
  BY DEF TypeOK
<1>1. ASSUME NEW c \in Calls, Propose(c) PROVE RunInv'
  <2>1. RunsFollowStatus'
    BY <1>1, <1>a, UnrunMove DEF Propose, Begun
  <2>2. FrameFollowsStatus'
    BY <1>1 DEF Propose, FrameFollowsStatus, Idle
  <2>3. SnapshotsAreFresh'
    <3>1. ASSUME NEW e \in queue'
          PROVE  \/ e \in queue /\ e.call # c
                 \/ e.on # "capability_call"
                 \/ e.snap # "proposed"
                 \/ e.call = c /\ "proposed" = "proposed"
      BY <1>1, <1>a, NoStaleEvent DEF Propose, Event
    <3> QED
      BY <1>1, <1>a, <3>1, FreshMove DEF Propose
  <2> QED
    BY <2>1, <2>2, <2>3 DEF RunInv
<1>2. ASSUME NEW c \in Calls, ProxyCall(c) PROVE RunInv'
  <2>1. PICK s \in {"approved", "policy_checking"} :
          /\ SetStatus(c, s)
          /\ queue' = queue \cup {Event("capability_call", c, s)}
          /\ \/ s = "approved" /\ Enter("enter", c, "gateway_llm_proxy", FALSE)
             \/ UNCHANGED exec
    BY <1>2 DEF ProxyCall
  <2>2. status[c] = "none" /\ UNCHANGED runs /\ exec = Idle
    BY <1>2 DEF ProxyCall
  <2>3. RunsFollowStatus'
    BY <1>a, <2>1, <2>2, UnrunMove DEF Begun
  <2>4. FrameFollowsStatus'
    BY <2>1, <2>2 DEF FrameFollowsStatus, Idle, Enter, SetStatus, TypeOK
  <2>5. SnapshotsAreFresh'
    <3>1. ASSUME NEW e \in queue'
          PROVE  \/ e \in queue /\ e.call # c
                 \/ e.on # "capability_call"
                 \/ e.snap # "proposed"
                 \/ e.call = c /\ s = "proposed"
      BY <1>a, <2>1, <2>2, NoStaleEvent DEF Event
    <3> QED
      BY <1>a, <2>1, <3>1, FreshMove
  <2> QED
    BY <2>3, <2>4, <2>5 DEF RunInv
<1>3. ASSUME NEW e \in queue, PolicyEnforcer(e) PROVE RunInv'
  <2>0. e \in Events /\ e.call \in Calls
    BY DEF TypeOK, Events
  <2>1. CASE UNCHANGED <<status, exec>>
    BY <1>3, <2>1, QuietStep DEF PolicyEnforcer
  <2>2. CASE ~UNCHANGED <<status, exec>>
    <3>1. PICK s \in {"approved", "policy_checking"} :
            /\ SetStatus(e.call, s)
            /\ \/ Enter("approval", e.call, "policy_enforcer", FALSE)
               \/ UNCHANGED exec
      BY <1>3, <2>2 DEF PolicyEnforcer
    <3>2. /\ e.on = "capability_call" /\ e.snap = "proposed"
          /\ queue' = queue \ {e} /\ UNCHANGED runs /\ exec = Idle
      BY <1>3, <2>2 DEF PolicyEnforcer, Undecided
    <3>3. status[e.call] = "proposed"
      BY <1>a, <3>2 DEF SnapshotsAreFresh
    <3>4. RunsFollowStatus'
      BY <1>a, <2>0, <3>1, <3>2, <3>3, UnrunMove DEF Begun
    <3>5. FrameFollowsStatus'
      BY <3>1, <3>2 DEF FrameFollowsStatus, Idle, Enter
    <3>6. SnapshotsAreFresh'
      <4>1. ASSUME NEW d \in queue', d.on = "capability_call",
                   d.snap = "proposed"
            PROVE  d.call # e.call
        <5>1. d \in queue /\ d \in Events /\ d # e
          BY <3>2 DEF TypeOK
        <5> QED
          BY <2>0, <3>2, <4>1, <5>1 DEF Events
      <4>2. \A d \in queue' : d \in queue
        BY <3>2
      <4> QED
        BY <1>a, <2>0, <3>1, <4>1, <4>2, FreshMove
    <3> QED
      BY <3>4, <3>5, <3>6 DEF RunInv
  <2> QED
    BY <2>1, <2>2
<1>4. ASSUME NEW e \in queue, CallExecutor(e) PROVE RunInv'
  <2>0. e.call \in Calls
    BY DEF TypeOK, Events
  <2>1. CASE status[e.call] # "approved"
    BY <1>4, <2>1, QuietStep DEF CallExecutor, StillApproved
  <2>2. CASE status[e.call] = "approved"
    <3>1. /\ SetStatus(e.call, "executing")
          /\ runs' = [runs EXCEPT ![e.call] = @ + 1]
          /\ Enter("invoke", e.call, "call_executor", FALSE)
          /\ queue' = queue \ {e}
      BY <1>4, <2>2 DEF CallExecutor, StillApproved
    <3>2. RunsFollowStatus'
      BY <1>a, <2>0, <2>2, <3>1, FirstRun
    <3>3. FrameFollowsStatus'
      BY <2>0, <3>1 DEF FrameFollowsStatus, Enter, SetStatus, TypeOK
    <3>4. SnapshotsAreFresh'
      <4>1. ASSUME NEW d \in queue', d.on = "capability_call",
                   d.snap = "proposed"
            PROVE  d.call # e.call
        BY <1>a, <2>2, <3>1, <4>1, NoStaleEvent
      <4> QED
        BY <1>a, <2>0, <3>1, <4>1, FreshMove
    <3> QED
      BY <3>2, <3>3, <3>4 DEF RunInv
  <2> QED
    BY <2>1, <2>2
<1>5. ASSUME NEW e \in queue, ResultSourcer(e) PROVE RunInv'
  BY <1>5, QuietStep DEF ResultSourcer
<1>6. CASE MarkExecuting
  <2>1. exec.call \in Calls /\ status[exec.call] = "approved"
    BY <1>6, <1>a, FrameTypes DEF MarkExecuting, FrameFollowsStatus, TypeOK
  <2>2. /\ SetStatus(exec.call, "executing")
        /\ runs' = [runs EXCEPT ![exec.call] = @ + 1]
        /\ exec' = [exec EXCEPT !.pc = "invoke"]
        /\ UNCHANGED queue
    BY <1>6 DEF MarkExecuting
  <2>3. RunsFollowStatus'
    BY <1>a, <2>1, <2>2, FirstRun
  <2>4. exec'.pc = "invoke" /\ exec'.call = exec.call
    BY <1>6, <2>2, FrameTypes DEF MarkExecuting, TypeOK, Frames
  <2>5. FrameFollowsStatus'
    BY <2>1, <2>2, <2>4 DEF FrameFollowsStatus, SetStatus, TypeOK
  <2>6. SnapshotsAreFresh'
    <3>1. ASSUME NEW d \in queue', d.on = "capability_call",
                 d.snap = "proposed"
          PROVE  d.call # exec.call
      BY <1>a, <2>1, <2>2, <3>1, NoStaleEvent
    <3> QED
      BY <1>a, <2>1, <2>2, <3>1, FreshMove
  <2> QED
    BY <2>3, <2>5, <2>6 DEF RunInv
<1>7. CASE InvokeHandler \/ InvokeAgain \/ RecordResult
  <2>1. status[exec.call] = "executing" /\ exec \in Frames
    BY <1>7, <1>a, FrameTypes
    DEF InvokeHandler, InvokeAgain, RecordResult, FrameFollowsStatus, TypeOK
  <2>2. UNCHANGED <<status, runs>>
    BY <1>7 DEF InvokeHandler, InvokeAgain, RecordResult
  <2>3. exec'.call = exec.call /\ exec'.pc # "enter"
    <3>1. \/ \E ok \in BOOLEAN :
               exec' = [exec EXCEPT !.pc = "record", !.ok = ok]
          \/ exec' = [exec EXCEPT !.pc = "retry"]
          \/ exec' = [exec EXCEPT !.pc = "finish"]
      BY <1>7 DEF InvokeHandler, InvokeAgain, RecordResult
    <3> QED
      BY <2>1, <3>1 DEF Frames
  <2>4. RunsFollowStatus'
    BY <1>a, <2>2 DEF RunsFollowStatus
  <2>5. FrameFollowsStatus'
    BY <2>1, <2>2, <2>3 DEF FrameFollowsStatus
  <2>6. SnapshotsAreFresh'
    <3>1. \A e \in queue' : e \in queue \/ e.on # "capability_call"
      <4>1. CASE InvokeHandler \/ InvokeAgain
        BY <4>1 DEF InvokeHandler, InvokeAgain
      <4>2. CASE RecordResult
        <5>1. PICK snap \in {"output", "empty"} :
                queue' = queue
                         \cup {Event("capability_result", exec.call, snap)}
          BY <4>2 DEF RecordResult
        <5> QED
          BY <5>1 DEF Event
      <4> QED
        BY <1>7, <4>1, <4>2
    <3> QED
      BY <3>1, <1>a, <2>2 DEF SnapshotsAreFresh
  <2> QED
    BY <2>4, <2>5, <2>6 DEF RunInv
<1>8. CASE FinishCall
  <2>1. exec \in Frames /\ exec.call \in Calls
        /\ status[exec.call] = "executing"
    BY <1>8, <1>a, FrameTypes DEF FinishCall, FrameFollowsStatus, TypeOK
  <2>2. PICK s \in {"done", "failed"} : SetStatus(exec.call, s)
    BY <1>8 DEF FinishCall, FinalStatus
  <2>3. RunsFollowStatus'
    BY <1>8, <1>a, <2>1, <2>2
    DEF FinishCall, RunsFollowStatus, SetStatus, TypeOK, Begun
  <2>4. exec'.pc \in {"approval", "idle"}
    BY <1>8, <2>1 DEF FinishCall, AfterFinish, Idle, Frames
  <2>5. FrameFollowsStatus'
    BY <2>4 DEF FrameFollowsStatus
  <2>6. SnapshotsAreFresh'
    <3>1. ASSUME NEW d \in queue', d.on = "capability_call",
                 d.snap = "proposed"
          PROVE  d.call # exec.call
      BY <1>8, <1>a, <2>1, <3>1, NoStaleEvent DEF FinishCall
    <3> QED
      BY <1>8, <1>a, <2>1, <2>2, <3>1, FreshMove DEF FinishCall
  <2> QED
    BY <2>3, <2>5, <2>6 DEF RunInv
<1>9. CASE AddApproval \/ AddDenial
  BY <1>9, QuietStep DEF AddApproval, AddDenial, Event
<1>10. ASSUME NEW c \in Calls, NEW r \in Refs,
              ApproveCapability(c, r) \/ DenyCapability(c, r)
       PROVE  RunInv'
  <2>1. PICK s \in {"approved", "rejected"} : SetStatus(c, s)
    BY <1>10 DEF ApproveCapability, DenyCapability
  <2>2. /\ status[c] = "policy_checking"
        /\ UNCHANGED <<runs, queue>>
        /\ \/ Enter("approval", c, r, FALSE)
           \/ Enter("denial", c, r, FALSE)
    BY <1>10 DEF ApproveCapability, DenyCapability, Resolvable
  <2>3. RunsFollowStatus'
    BY <1>a, <2>1, <2>2, UnrunMove DEF Begun
  <2>4. FrameFollowsStatus'
    BY <2>2 DEF FrameFollowsStatus, Enter
  <2>5. SnapshotsAreFresh'
    <3>1. ASSUME NEW d \in queue', d.on = "capability_call",
                 d.snap = "proposed"
          PROVE  d.call # c
      BY <1>a, <2>2, <3>1, NoStaleEvent
    <3> QED
      BY <1>a, <2>1, <2>2, <3>1, FreshMove
  <2> QED
    BY <2>3, <2>4, <2>5 DEF RunInv
<1>11. CASE Surroundings
  <2>1. UNCHANGED <<status, runs, exec, queue>>
    BY <1>11 DEF Surroundings, RegisterCapability, StandingScopeChange, SetRole,
                 SetAuthorityCeiling
  <2> QED
    BY <2>1, QuietStep
<1>12. CASE CrashRestart
  BY <1>12, QuietStep DEF CrashRestart
<1>13. CASE UNCHANGED vars
  BY <1>13, QuietStep DEF vars
<1> QED
  BY <1>1, <1>2, <1>3, <1>4, <1>5, <1>6, <1>7, <1>8, <1>9, <1>10, <1>11,
     <1>12, <1>13
  DEF Next, RuntimeStep, ExecutionStep, Dispatch, Resolve

IInv == TypeOK /\ RunInv

\* A call runs at most once and a refused call never, for any number of calls,
\* approvers, capabilities and crashes.
THEOREM RunsAtMostOnce == Spec => []RunAtMostOnce
<1>1. Init => IInv
  BY TypeInit, RunInit DEF IInv
<1>2. IInv /\ [Next]_vars => IInv'
  BY TypeStep, RunStep DEF IInv
<1>3. IInv => RunAtMostOnce
  <2> SUFFICES ASSUME RunsFollowStatus, NEW c \in Calls
               PROVE  runs[c] <= 1 /\ (status[c] = "rejected" => ~(runs[c] > 0))
    BY DEF IInv, RunInv, RunAtMostOnce, Ran
  <2>1. runs[c] \in {0, 1} /\ (status[c] = "rejected" => runs[c] = 0)
    BY DEF RunsFollowStatus, Begun
  <2> QED
    BY <2>1
<1> QED
  BY <1>1, <1>2, <1>3, PTL DEF Spec

-----------------------------------------------------------------------------
(* The gateway implements GovernedCall *)

\* The policy grants no call that needs a human.
LEMMA GrantsAreAutomatic ==
  ASSUME TypeOK, NEW c \in Calls, AutoApproves(c)
  PROVE  ~NeverAutomatic(c)
<1>1. ceiling \in 0..3 /\ CapOf[c] \in Caps /\ ActionClass[CapOf[c]] \in 0..5
  BY ToolGatewayAssumption DEF TypeOK, Ceilings
<1>2. CASE CapOf[c] \in LowRisk
  BY <1>2 DEF AutoApproves, NeverAutomatic
<1>3. CASE ClassGrants(CapOf[c])
  BY <1>1, <1>3 DEF AutoApproves, NeverAutomatic, ClassGrants, R2
<1> QED
  BY <1>2, <1>3 DEF AutoApproves

\* Moving one call's status moves that call's phase only.
LEMMA PhaseMove ==
  ASSUME TypeOK, NEW c \in Calls, NEW s, SetStatus(c, s)
  PROVE  CallPhases' = [CallPhases EXCEPT ![c] = Phase(s)]
  BY DEF TypeOK, SetStatus, CallPhases

LEMMA PhaseIs ==
  ASSUME NEW c \in Calls
  PROVE  /\ CallPhases[c] = Phase(status[c])
         /\ [CallPhases EXCEPT ![c] = CallPhases[c]] = CallPhases
  BY DEF CallPhases

LEMMA PhaseValues ==
  /\ Phase("none") = "unknown"
  /\ Phase("proposed") = "waiting"
  /\ Phase("policy_checking") = "waiting"
  /\ Phase("approved") = "granted"
  /\ Phase("executing") = "running"
  /\ Phase("done") = "finished"
  /\ Phase("failed") = "finished"
  /\ Phase("rejected") = "refused"
  BY DEF Phase

LEMMA PhaseInit == Init => Governed!Init
  BY PhaseValues DEF Init, Governed!Init, CallPhases

\* A step that leaves statuses and deciders alone is a stutter.
LEMMA QuietPhase ==
  ASSUME UNCHANGED <<status, decider>>
  PROVE  UNCHANGED Governed!vars
  BY DEF Governed!vars, CallPhases

LEMMA PhaseStep == IInv /\ [Next]_vars => [Governed!Next]_(Governed!vars)
<1> SUFFICES ASSUME IInv, [Next]_vars
             PROVE  Governed!Next \/ UNCHANGED Governed!vars
  OBVIOUS
<1>a. TypeOK /\ FrameFollowsStatus /\ SnapshotsAreFresh
  BY DEF IInv, RunInv
<1>b. ASSUME NEW c \in Calls, NEW s, SetStatus(c, s)
      PROVE  /\ CallPhases[c] = Phase(status[c])
             /\ CallPhases' = [CallPhases EXCEPT ![c] = Phase(s)]
  BY <1>a, <1>b, PhaseIs, PhaseMove
<1>1. ASSUME NEW c \in Calls, Propose(c) PROVE Governed!Next
  <2>1. /\ status[c] = "none" /\ SetStatus(c, "proposed")
        /\ UNCHANGED decider
    BY <1>1 DEF Propose
  <2>2. Governed!Request(c)
    BY <1>b, <2>1, PhaseValues DEF Governed!Request
  <2> QED
    BY <2>2 DEF Governed!Next
<1>2. ASSUME NEW c \in Calls, ProxyCall(c) PROVE Governed!Next
  <2>1. status[c] = "none"
    BY <1>2 DEF ProxyCall
  <2>2. CASE AutoApproves(c)
    <3>1. /\ SetStatus(c, "approved")
          /\ decider' = [decider EXCEPT ![c] = "gateway_llm_proxy"]
      BY <1>2, <2>2 DEF ProxyCall
    <3>2. Governed!Grant(c, "gateway_llm_proxy")
      BY <1>a, <1>b, <2>1, <2>2, <3>1, PhaseValues, GrantsAreAutomatic
      DEF Governed!Grant, Policy
    <3> QED
      BY <3>2 DEF Governed!Next, Policy
  <2>3. CASE ~AutoApproves(c)
    <3>1. SetStatus(c, "policy_checking") /\ UNCHANGED decider
      BY <1>2, <2>3 DEF ProxyCall
    <3>2. Governed!Request(c)
      BY <1>b, <2>1, <3>1, PhaseValues DEF Governed!Request
    <3> QED
      BY <3>2 DEF Governed!Next
  <2> QED
    BY <2>2, <2>3
<1>3. ASSUME NEW e \in queue, PolicyEnforcer(e)
      PROVE  Governed!Next \/ UNCHANGED Governed!vars
  <2>0. e.call \in Calls
    BY <1>a DEF TypeOK, Events
  <2>1. CASE ~Undecided(e)
    BY <1>3, <2>1, QuietPhase DEF PolicyEnforcer
  <2>2. CASE Undecided(e)
    <3>1. status[e.call] = "proposed"
      BY <1>3, <1>a, <2>2 DEF PolicyEnforcer, Undecided, SnapshotsAreFresh
    <3>2. CASE AutoApproves(e.call)
      <4>1. /\ SetStatus(e.call, "approved")
            /\ decider' = [decider EXCEPT ![e.call] = "policy_enforcer"]
        BY <1>3, <2>2, <3>2 DEF PolicyEnforcer
      <4>2. Governed!Grant(e.call, "policy_enforcer")
        BY <1>a, <1>b, <2>0, <3>1, <3>2, <4>1, PhaseValues, GrantsAreAutomatic
        DEF Governed!Grant, Policy
      <4> QED
        BY <2>0, <4>2 DEF Governed!Next, Policy
    <3>3. CASE ~AutoApproves(e.call)
      <4>1. SetStatus(e.call, "policy_checking") /\ UNCHANGED decider
        BY <1>3, <2>2, <3>3 DEF PolicyEnforcer
      <4>2. CallPhases' = CallPhases
        BY <1>b, <2>0, <3>1, <4>1, PhaseValues, PhaseIs
      <4> QED
        BY <4>1, <4>2 DEF Governed!vars
    <3> QED
      BY <3>2, <3>3
  <2> QED
    BY <2>1, <2>2
<1>4. ASSUME NEW e \in queue, CallExecutor(e)
      PROVE  Governed!Next \/ UNCHANGED Governed!vars
  <2>0. e.call \in Calls
    BY <1>a DEF TypeOK, Events
  <2>1. CASE ~StillApproved(e.call)
    BY <1>4, <2>1, QuietPhase DEF CallExecutor
  <2>2. CASE StillApproved(e.call)
    <3>1. /\ status[e.call] = "approved" /\ SetStatus(e.call, "executing")
          /\ UNCHANGED decider
      BY <1>4, <2>2 DEF CallExecutor, StillApproved
    <3>2. Governed!Run(e.call)
      BY <1>b, <2>0, <3>1, PhaseValues DEF Governed!Run
    <3> QED
      BY <2>0, <3>2 DEF Governed!Next
  <2> QED
    BY <2>1, <2>2
<1>5. CASE MarkExecuting
  <2>1. /\ exec.call \in Calls /\ status[exec.call] = "approved"
        /\ SetStatus(exec.call, "executing") /\ UNCHANGED decider
    BY <1>5, <1>a, FrameTypes DEF MarkExecuting, FrameFollowsStatus, TypeOK
  <2>2. Governed!Run(exec.call)
    BY <1>b, <2>1, PhaseValues DEF Governed!Run
  <2> QED
    BY <2>1, <2>2 DEF Governed!Next
<1>6. CASE FinishCall
  <2>1. /\ exec.call \in Calls /\ status[exec.call] = "executing"
        /\ UNCHANGED decider
    BY <1>6, <1>a, FrameTypes DEF FinishCall, FrameFollowsStatus, TypeOK
  <2>2. PICK s \in {"done", "failed"} : SetStatus(exec.call, s)
    BY <1>6 DEF FinishCall, FinalStatus
  <2>3. Governed!Finish(exec.call)
    BY <1>b, <2>1, <2>2, PhaseValues DEF Governed!Finish
  <2> QED
    BY <2>1, <2>3 DEF Governed!Next
<1>7. ASSUME NEW c \in Calls, NEW r \in Refs, ApproveCapability(c, r)
      PROVE  Governed!Next
  <2>1. /\ status[c] = "policy_checking" /\ SetStatus(c, "approved")
        /\ decider' = [decider EXCEPT ![c] = r]
    BY <1>7 DEF ApproveCapability, Resolvable
  <2>2. Governed!Grant(c, r)
    BY <1>b, <2>1, PhaseValues DEF Governed!Grant
  <2> QED
    BY <2>2 DEF Governed!Next
<1>8. ASSUME NEW c \in Calls, NEW r \in Refs, DenyCapability(c, r)
      PROVE  Governed!Next
  <2>1. /\ status[c] = "policy_checking" /\ SetStatus(c, "rejected")
        /\ UNCHANGED decider
    BY <1>8 DEF DenyCapability, Resolvable
  <2>2. Governed!Refuse(c)
    BY <1>b, <2>1, PhaseValues DEF Governed!Refuse
  <2> QED
    BY <2>2 DEF Governed!Next
<1>9. CASE \/ \E e \in queue : ResultSourcer(e)
           \/ InvokeHandler \/ InvokeAgain \/ RecordResult
           \/ AddApproval \/ AddDenial \/ Surroundings \/ CrashRestart
           \/ UNCHANGED vars
  <2>1. UNCHANGED <<status, decider>>
    BY <1>9
    DEF ResultSourcer, InvokeHandler, InvokeAgain, RecordResult, AddApproval,
        AddDenial, Surroundings, RegisterCapability, StandingScopeChange,
        SetRole, SetAuthorityCeiling, CrashRestart, vars
  <2> QED
    BY <2>1, QuietPhase
<1> QED
  BY <1>1, <1>2, <1>3, <1>4, <1>5, <1>6, <1>7, <1>8, <1>9
  DEF Next, RuntimeStep, ExecutionStep, Dispatch, Resolve

\* The gateway keeps the promise of GovernedCall: whatever runs was granted
\* first, by a human or, for an automatic call, by a policy; every call runs
\* and ends at most once and a refusal is final, crashes included.
THEOREM GatewayImplementsGovernedCall == Spec => ImplementsGovernedCall
<1>1. Init => IInv
  BY TypeInit, RunInit DEF IInv
<1>2. IInv /\ [Next]_vars => IInv'
  BY TypeStep, RunStep DEF IInv
<1>3. Init => Governed!Init
  BY PhaseInit
<1>4. IInv /\ [Next]_vars => [Governed!Next]_(Governed!vars)
  BY PhaseStep
<1> QED
  BY <1>1, <1>2, <1>3, <1>4, PTL DEF Spec, ImplementsGovernedCall, Governed!Spec
================================================================================
