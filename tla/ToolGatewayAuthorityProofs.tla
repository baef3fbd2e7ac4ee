----------------------- MODULE ToolGatewayAuthorityProofs -----------------------
(***************************************************************************)
(* ToolGateway: a call that no policy may grant runs only after a human's   *)
(* approval is in the graph, for every set of calls, capabilities,          *)
(* approvers and ceilings and any number of crashes.                        *)
(***************************************************************************)
EXTENDS ToolGatewayProofs

\* The frames a function may be in while its call is never automatic.
SoundFrame(frame) ==
  frame.pc # "idle" /\ NeverAutomatic(frame.call) =>
    /\ frame.pc # "enter"
    /\ frame.by # "gateway_llm_proxy"
    /\ frame.pc = "approval" => frame.by \in Refs

\* What makes HighConsequenceNeedsHuman inductive: a queued approval of a call
\* that is never automatic is a human's, so is the one about to be recorded, and
\* the proxy holds no such call.
AuthorityInv ==
  /\ HighConsequenceNeedsHuman
  /\ \A e \in queue :
       e.on = "capability_approval" /\ NeverAutomatic(e.call)
         => HumanApproved(e.call)
  /\ SoundFrame(exec)

LEMMA AuthorityInit == Init => AuthorityInv
  BY DEF Init, AuthorityInv, HighConsequenceNeedsHuman, Ran, Idle,
         SoundFrame

\* An audit trail only grows: what a human approved stays approved by a human.
LEMMA HumanStays ==
  ASSUME TypeOK, NEW c \in Calls, HumanApproved(c),
         \/ UNCHANGED audit
         \/ \E d \in Calls : \E kind, by : Record(d, kind, by)
  PROVE  HumanApproved(c)'
<1>1. CASE UNCHANGED audit
  BY <1>1 DEF HumanApproved
<1>2. CASE \E d \in Calls : \E kind, by : Record(d, kind, by)
  <2>0. PICK d \in Calls : \E kind, by : Record(d, kind, by)
    BY <1>2
  <2>1. PICK kind, by :
          audit' = [audit EXCEPT ![d] = Append(@, [kind |-> kind, by |-> by])]
    BY <2>0 DEF Record
  <2>2. PICK i \in 1..Len(audit[c]) :
          audit[c][i].kind = "approval" /\ audit[c][i].by \in Refs
    BY DEF HumanApproved
  <2>3. audit \in [Calls -> Seq(AuditRecords)] /\ audit[c] \in Seq(AuditRecords)
    BY DEF TypeOK
  <2>4. i \in 1..Len(audit'[c]) /\ audit'[c][i] = audit[c][i]
    <3>1. CASE d = c
      <4>1. audit'[c] = Append(audit[c], [kind |-> kind, by |-> by])
        BY <2>1, <2>3, <3>1
      <4> QED
        BY <2>3, <4>1
    <3>2. CASE d # c
      BY <2>1, <2>3, <3>2
    <3> QED
      BY <3>1, <3>2
  <2> QED
    BY <2>2, <2>4 DEF HumanApproved
<1> QED
  BY <1>1, <1>2

\* Recording a human's approval makes the call approved by a human.
LEMMA HumanRecorded ==
  ASSUME TypeOK, NEW c \in Calls, NEW by \in Refs, Record(c, "approval", by)
  PROVE  HumanApproved(c)'
<1>1. audit[c] \in Seq(AuditRecords)
  BY DEF TypeOK
<1>2. audit'[c] = Append(audit[c], [kind |-> "approval", by |-> by])
  BY DEF TypeOK, Record
<1>3. /\ Len(audit[c]) + 1 \in 1..Len(audit'[c])
      /\ audit'[c][Len(audit[c]) + 1] = [kind |-> "approval", by |-> by]
  BY <1>1, <1>2
<1> QED
  BY <1>3 DEF HumanApproved

\* A step that starts no run, queues no approval and enters no frame keeps the
\* invariant, whatever it records.
LEMMA CarryAuthority ==
  ASSUME TypeOK, AuthorityInv, UNCHANGED runs,
         \/ UNCHANGED audit
         \/ \E d \in Calls : \E kind, by : Record(d, kind, by),
         \A e \in queue' : e \in queue \/ e.on # "capability_approval"
  PROVE  /\ HighConsequenceNeedsHuman'
         /\ \A e \in queue' :
              e.on = "capability_approval" /\ NeverAutomatic(e.call)
                => HumanApproved(e.call)'
<1>1. \A c \in Calls : HumanApproved(c) => HumanApproved(c)'
  BY HumanStays
<1>2. HighConsequenceNeedsHuman'
  BY <1>1 DEF AuthorityInv, HighConsequenceNeedsHuman, Ran, NeverAutomatic
<1>3. ASSUME NEW e \in queue', e.on = "capability_approval",
             NeverAutomatic(e.call)
      PROVE  HumanApproved(e.call)'
  <2>1. e \in queue /\ e.call \in Calls
    BY <1>3 DEF TypeOK, Events
  <2> QED
    BY <1>1, <1>3, <2>1 DEF AuthorityInv
<1> QED
  BY <1>2, <1>3

\* A step that moves on within its function, to no approval, keeps it sound.
LEMMA FrameGoesOn ==
  ASSUME TypeOK, SoundFrame(exec), exec.pc # "idle",
         NEW pc \in {"invoke", "retry", "record", "finish"}, NEW ok,
         \/ exec' = [exec EXCEPT !.pc = pc]
         \/ exec' = [exec EXCEPT !.pc = pc, !.ok = ok]
  PROVE  SoundFrame(exec')
<1>1. exec \in Frames
  BY FrameTypes DEF TypeOK
<1>2. exec'.pc = pc /\ exec'.call = exec.call /\ exec'.by = exec.by
  BY <1>1 DEF Frames
<1> QED
  BY <1>2 DEF SoundFrame

\* What an action has to show: the frame it enters is sound, and it starts no run
\* and queues no approval.
LEMMA QuietAuthority ==
  ASSUME TypeOK, AuthorityInv, UNCHANGED runs, SoundFrame(exec'),
         \/ UNCHANGED audit
         \/ \E d \in Calls : \E kind, by : Record(d, kind, by),
         \A e \in queue' : e \in queue \/ e.on # "capability_approval"
  PROVE  AuthorityInv'
<1>1. /\ HighConsequenceNeedsHuman'
      /\ \A e \in queue' :
           e.on = "capability_approval" /\ NeverAutomatic(e.call)
             => HumanApproved(e.call)'
  BY CarryAuthority
<1> QED
  BY <1>1 DEF AuthorityInv, SoundFrame, NeverAutomatic

\* The step that counts a run: the call is automatic or a human approved it.
LEMMA RunAuthority ==
  ASSUME TypeOK, AuthorityInv, NEW c \in Calls,
         NeverAutomatic(c) => HumanApproved(c),
         runs' = [runs EXCEPT ![c] = @ + 1], UNCHANGED audit,
         queue' \subseteq queue, SoundFrame(exec')
  PROVE  AuthorityInv'
<1>1. \A d \in Calls : HumanApproved(d) => HumanApproved(d)'
  BY HumanStays
<1>2. HighConsequenceNeedsHuman'
  <2>1. ASSUME NEW d \in Calls, NeverAutomatic(d), runs'[d] > 0
        PROVE  HumanApproved(d)'
    <3>1. CASE d = c
      BY <1>1, <2>1, <3>1
    <3>2. CASE d # c
      <4>1. runs'[d] = runs[d]
        BY <3>2 DEF TypeOK
      <4> QED
        BY <1>1, <2>1, <4>1 DEF AuthorityInv, HighConsequenceNeedsHuman, Ran
    <3> QED
      BY <3>1, <3>2
  <2> QED
    BY <2>1 DEF HighConsequenceNeedsHuman, Ran, NeverAutomatic
<1>3. ASSUME NEW e \in queue', e.on = "capability_approval",
             NeverAutomatic(e.call)
      PROVE  HumanApproved(e.call)'
  <2>1. e \in queue /\ e.call \in Calls
    BY <1>3 DEF TypeOK, Events
  <2> QED
    BY <1>1, <1>3, <2>1 DEF AuthorityInv
<1> QED
  BY <1>2, <1>3 DEF AuthorityInv, SoundFrame, NeverAutomatic

LEMMA AuthorityStep == IInv /\ AuthorityInv /\ [Next]_vars => AuthorityInv'
<1> SUFFICES ASSUME IInv, AuthorityInv, [Next]_vars PROVE AuthorityInv'
  OBVIOUS
<1>a. TypeOK /\ SoundFrame(exec)
  BY DEF IInv, AuthorityInv
<1>b. SoundFrame(Idle)
  BY DEF SoundFrame, Idle
<1>1. ASSUME NEW c \in Calls, Propose(c) PROVE AuthorityInv'
  <2>1. \A e \in queue' : e \in queue \/ e.on # "capability_approval"
    BY <1>1 DEF Propose, Event
  <2> QED
    BY <1>1, <1>a, <1>b, <2>1, QuietAuthority DEF Propose
<1>2. ASSUME NEW c \in Calls, ProxyCall(c) PROVE AuthorityInv'
  <2>1. ASSUME NEW e \in queue' \ queue PROVE e.on = "capability_call"
    <3>1. PICK snap : e = Event("capability_call", c, snap)
      BY <1>2 DEF ProxyCall
    <3> QED
      BY <3>1 DEF Event
  <2>2. SoundFrame(exec')
    <3>1. CASE AutoApproves(c) /\ Enter("enter", c, "gateway_llm_proxy", FALSE)
      <4>1. ~NeverAutomatic(c)
        BY <1>a, <3>1, GrantsAreAutomatic
      <4> QED
        BY <3>1, <4>1 DEF SoundFrame, Enter
    <3>2. CASE UNCHANGED exec
      BY <1>a, <3>2
    <3> QED
      BY <1>2, <3>1, <3>2 DEF ProxyCall
  <2> QED
    BY <1>2, <1>a, <2>1, <2>2, QuietAuthority DEF ProxyCall
<1>3. ASSUME NEW e \in queue, PolicyEnforcer(e) PROVE AuthorityInv'
  <2>1. e.call \in Calls
    BY <1>a DEF TypeOK, Events
  <2>2. SoundFrame(exec')
    <3>1. CASE /\ AutoApproves(e.call)
               /\ Enter("approval", e.call, "policy_enforcer", FALSE)
      <4>1. ~NeverAutomatic(e.call)
        BY <1>a, <2>1, <3>1, GrantsAreAutomatic
      <4> QED
        BY <3>1, <4>1 DEF SoundFrame, Enter
    <3>2. CASE UNCHANGED exec
      BY <1>a, <3>2
    <3> QED
      BY <1>3, <3>1, <3>2 DEF PolicyEnforcer
  <2> QED
    BY <1>3, <1>a, <2>2, QuietAuthority DEF PolicyEnforcer
<1>4. ASSUME NEW e \in queue, CallExecutor(e) PROVE AuthorityInv'
  <2>1. e.call \in Calls /\ e.on = "capability_approval"
    BY <1>4, <1>a DEF TypeOK, Events, CallExecutor
  <2>2. CASE UNCHANGED <<runs, exec>>
    BY <1>4, <1>a, <2>2, QuietAuthority DEF CallExecutor
  <2>3. CASE /\ runs' = [runs EXCEPT ![e.call] = @ + 1]
             /\ Enter("invoke", e.call, "call_executor", FALSE)
    <3>1. NeverAutomatic(e.call) => HumanApproved(e.call)
      BY <2>1 DEF AuthorityInv
    <3>2. SoundFrame(exec')
      BY <2>3 DEF SoundFrame, Enter
    <3>3. UNCHANGED audit /\ queue' \subseteq queue
      BY <1>4 DEF CallExecutor
    <3> QED
      BY <1>a, <2>1, <2>3, <3>1, <3>2, <3>3, RunAuthority
  <2> QED
    BY <1>4, <2>2, <2>3 DEF CallExecutor
<1>5. ASSUME NEW e \in queue, ResultSourcer(e) PROVE AuthorityInv'
  <2>1. e.call \in Calls
    BY <1>a DEF TypeOK, Events
  <2>2. \/ UNCHANGED audit
        \/ \E d \in Calls : \E kind, by : Record(d, kind, by)
    BY <1>5, <2>1 DEF ResultSourcer
  <2>3. SoundFrame(exec')
    BY <1>5, <1>a DEF ResultSourcer
  <2> QED
    BY <1>5, <1>a, <2>2, <2>3, QuietAuthority DEF ResultSourcer
<1>6. CASE MarkExecuting
  <2>1. exec \in Frames /\ exec.call \in Calls /\ exec.pc = "enter"
    BY <1>6, <1>a, FrameTypes DEF MarkExecuting, TypeOK
  <2>2. ~NeverAutomatic(exec.call)
    BY <1>a, <2>1 DEF SoundFrame
  <2>3. SoundFrame(exec')
    BY <1>6, <1>a, <2>1, FrameGoesOn DEF MarkExecuting
  <2>4. UNCHANGED audit /\ queue' \subseteq queue
    BY <1>6 DEF MarkExecuting
  <2> QED
    BY <1>6, <1>a, <2>1, <2>2, <2>3, <2>4, RunAuthority DEF MarkExecuting
<1>7. CASE InvokeHandler
  <2>1. SoundFrame(exec')
    BY <1>7, <1>a, FrameGoesOn DEF InvokeHandler
  <2> QED
    BY <1>7, <1>a, <2>1, QuietAuthority DEF InvokeHandler
<1>8. CASE InvokeAgain
  <2>1. SoundFrame(exec')
    BY <1>8, <1>a, FrameGoesOn DEF InvokeAgain
  <2> QED
    BY <1>8, <1>a, <2>1, QuietAuthority DEF InvokeAgain
<1>9. CASE RecordResult
  <2>1. exec.call \in Calls
    BY <1>9, <1>a, FrameTypes DEF RecordResult, TypeOK
  <2>2. SoundFrame(exec')
    BY <1>9, <1>a, FrameGoesOn DEF RecordResult
  <2>3. \A e \in queue' : e \in queue \/ e.on # "capability_approval"
    BY <1>9 DEF RecordResult, Event
  <2>4. \E d \in Calls : \E kind, by : Record(d, kind, by)
    BY <1>9, <2>1 DEF RecordResult
  <2> QED
    BY <1>9, <1>a, <2>2, <2>3, <2>4, QuietAuthority DEF RecordResult
<1>10. CASE FinishCall
  <2>1. exec \in Frames /\ exec.pc = "finish"
    BY <1>10, <1>a, FrameTypes DEF FinishCall, TypeOK
  <2>2. SoundFrame(exec')
    <3>1. CASE exec.by = "gateway_llm_proxy"
      <4>1. exec'.call = exec.call
        BY <1>10, <2>1, <3>1 DEF FinishCall, AfterFinish, Frames
      <4>2. ~NeverAutomatic(exec.call)
        BY <1>a, <2>1, <3>1 DEF SoundFrame
      <4> QED
        BY <4>1, <4>2 DEF SoundFrame
    <3>2. CASE exec.by # "gateway_llm_proxy"
      BY <1>10, <1>b, <3>2 DEF FinishCall, AfterFinish
    <3> QED
      BY <3>1, <3>2
  <2> QED
    BY <1>10, <1>a, <2>2, QuietAuthority DEF FinishCall
<1>11. CASE AddApproval
  <2>1. exec.call \in Calls /\ exec.pc = "approval"
    BY <1>11, <1>a, FrameTypes DEF AddApproval, TypeOK
  <2>2. PICK c \in Calls : c = exec.call
    BY <2>1
  <2>3. PICK by : by = exec.by
    OBVIOUS
  <2>4. Record(c, "approval", by) /\ UNCHANGED runs
    BY <1>11, <2>2, <2>3 DEF AddApproval
  <2>5. \A d \in Calls : HumanApproved(d) => HumanApproved(d)'
    BY <1>a, <2>4, HumanStays
  <2>6. NeverAutomatic(c) => HumanApproved(c)'
    <3>1. NeverAutomatic(c) => by \in Refs
      BY <1>a, <2>1, <2>2, <2>3 DEF SoundFrame
    <3> QED
      BY <1>a, <2>4, <3>1, HumanRecorded
  <2>7. HighConsequenceNeedsHuman'
    BY <2>4, <2>5 DEF AuthorityInv, HighConsequenceNeedsHuman, Ran,
                      NeverAutomatic
  <2>8. ASSUME NEW e \in queue', e.on = "capability_approval",
               NeverAutomatic(e.call)
        PROVE  HumanApproved(e.call)'
    <3>1. CASE e \in queue
      <4>1. e.call \in Calls
        BY <1>a, <3>1 DEF TypeOK, Events
      <4> QED
        BY <2>5, <2>8, <3>1, <4>1 DEF AuthorityInv
    <3>2. CASE e.call = c
      BY <2>6, <2>8, <3>2 DEF HumanApproved, NeverAutomatic
    <3> QED
      BY <1>11, <2>2, <3>1, <3>2 DEF AddApproval, Event
  <2>9. SoundFrame(exec')
    BY <1>11, <1>b DEF AddApproval
  <2> QED
    BY <2>7, <2>8, <2>9 DEF AuthorityInv, SoundFrame, NeverAutomatic
<1>12. CASE AddDenial
  <2>1. exec.call \in Calls
    BY <1>12, <1>a, FrameTypes DEF AddDenial, TypeOK
  <2>2. \E d \in Calls : \E kind, by : Record(d, kind, by)
    BY <1>12, <2>1 DEF AddDenial
  <2> QED
    BY <1>12, <1>a, <1>b, <2>2, QuietAuthority DEF AddDenial
<1>13. ASSUME NEW c \in Calls, NEW r \in Refs,
              ApproveCapability(c, r) \/ DenyCapability(c, r)
       PROVE  AuthorityInv'
  <2>1. SoundFrame(exec')
    BY <1>13, ToolGatewayAssumption
    DEF ApproveCapability, DenyCapability, Enter, SoundFrame, Agents, Policy
  <2> QED
    BY <1>13, <1>a, <2>1, QuietAuthority DEF ApproveCapability, DenyCapability
<1>14. CASE Surroundings \/ UNCHANGED vars
  <2>1. UNCHANGED <<runs, audit, queue, exec>>
    BY <1>14 DEF Surroundings, RegisterCapability, StandingScopeChange, SetRole,
                 SetAuthorityCeiling, vars
  <2> QED
    BY <1>a, <2>1, QuietAuthority
<1>15. CASE CrashRestart
  BY <1>15, <1>a, <1>b, QuietAuthority DEF CrashRestart
<1> QED
  BY <1>1, <1>2, <1>3, <1>4, <1>5, <1>6, <1>7, <1>8, <1>9, <1>10, <1>11,
     <1>12, <1>13, <1>14, <1>15
  DEF Next, RuntimeStep, ExecutionStep, Dispatch, Resolve

\* A call that asks for an explicit approval, or whose class is above R2 and
\* whose risk is not low, runs only after a human's approval object is in the
\* graph: no proxy, queued event, raised ceiling or restart gets around it.
THEOREM HighConsequenceIsHuman == Spec => []HighConsequenceNeedsHuman
<1>1. Init => IInv /\ AuthorityInv
  BY TypeInit, RunInit, AuthorityInit DEF IInv
<1>2. IInv /\ AuthorityInv /\ [Next]_vars => (IInv /\ AuthorityInv)'
  BY TypeStep, RunStep, AuthorityStep DEF IInv
<1>3. AuthorityInv => HighConsequenceNeedsHuman
  BY DEF AuthorityInv
<1> QED
  BY <1>1, <1>2, <1>3, PTL DEF Spec
================================================================================
