------------------------- MODULE ToolGatewayAuditProofs -------------------------
(***************************************************************************)
(* ToolGateway: the audit trail of a call tells one of three stories, and    *)
(* while the process lives it tells it to the end, for every set of calls,   *)
(* capabilities and approvers and any number of crashes.                     *)
(***************************************************************************)
EXTENDS ToolGatewayProofs, SequenceTheorems

\* What each function appends for a call.
Decision(c) == [kind |-> "approval", by |-> decider[c]]
ByProxy == [kind |-> "result", by |-> "gateway_llm_proxy"]
ByExecutor == [kind |-> "result", by |-> "call_executor"]
Source == [kind |-> "source", by |-> "result_sourcer"]
Denials == {<<[kind |-> "denial", by |-> r]>> : r \in Refs}

Waiting == {"none", "proposed", "policy_checking"}
Ended == {"done", "failed"}

\* How far the trail of a call may be at its status.
TrailFits(c) ==
  /\ status[c] \in Waiting => audit[c] = <<>>
  /\ status[c] = "approved" => audit[c] \in {<<>>, <<Decision(c)>>}
  /\ status[c] = "executing" =>
       audit[c] \in {<<>>, <<Decision(c)>>, <<Decision(c), ByExecutor>>,
                     <<ByProxy>>}
  /\ status[c] \in Ended =>
       audit[c] \in {<<ByProxy>>, <<ByProxy, Decision(c)>>,
                     <<ByProxy, Decision(c), Source>>,
                     <<Decision(c), ByExecutor>>,
                     <<Decision(c), ByExecutor, Source>>}
  /\ status[c] = "rejected" => audit[c] \in {<<>>} \cup Denials

\* What the function in progress has recorded for its call, and in whose name it
\* goes on.
ProxyRun(c) == exec.by = "gateway_llm_proxy" /\ decider[c] = "gateway_llm_proxy"
ExecutorRun(c) == exec.by = "call_executor"

FrameFits(c) ==
  exec.call = c =>
    /\ exec.pc = "approval" =>
         /\ exec.by = decider[c]
         /\ \/ status[c] = "approved" /\ audit[c] = <<>>
            \/ status[c] \in Ended /\ audit[c] = <<ByProxy>>
    /\ exec.pc = "denial" =>
         status[c] = "rejected" /\ audit[c] = <<>> /\ exec.by \in Refs
    /\ exec.pc = "enter" =>
         status[c] = "approved" /\ ProxyRun(c) /\ audit[c] = <<>>
    /\ exec.pc \in {"invoke", "retry", "record"} =>
         /\ status[c] = "executing"
         /\ \/ ProxyRun(c) /\ audit[c] = <<>>
            \/ ExecutorRun(c) /\ audit[c] = <<Decision(c)>>
    /\ exec.pc = "finish" =>
         /\ status[c] = "executing"
         /\ \/ ProxyRun(c) /\ audit[c] = <<ByProxy>>
            \/ ExecutorRun(c) /\ audit[c] = <<Decision(c), ByExecutor>>

\* An approval event has its approval in the trail; a result event has its result
\* in the trail and nothing sourced from it yet, and there is one at most.
QueueFits(c) ==
  \A e \in queue : e.call = c =>
    /\ e.on = "capability_approval" =>
         \/ status[c] = "approved" /\ audit[c] = <<Decision(c)>>
         \/ status[c] \in Begun
    /\ e.on = "capability_result" =>
         /\ status[c] \in Begun
         /\ IF exec.call = c
              THEN exec.pc \in {"finish", "approval"}
              ELSE /\ status[c] \in Ended
                   /\ audit[c] \in {<<Decision(c), ByExecutor>>,
                                    <<ByProxy, Decision(c)>>}
         /\ \A f \in queue :
              f.call = c /\ f.on = "capability_result" => f = e

\* Until the process crashes somebody still owes a call its next step: the event
\* that moves it is queued, or the thread is at it.
WorkIsInHand(c) ==
  crashes = 0 =>
    /\ status[c] = "proposed" =>
         Event("capability_call", c, "proposed") \in queue
    /\ status[c] = "approved" =>
         \/ exec.call = c
         \/ Event("capability_approval", c, "approved") \in queue
    /\ status[c] = "executing" => exec.call = c
    /\ status[c] = "rejected" => exec.call = c \/ audit[c] # <<>>
    /\ status[c] \in Ended => exec.call = c \/ audit[c] # <<ByProxy>>

CallAudited(c) == TrailFits(c) /\ FrameFits(c) /\ QueueFits(c) /\ WorkIsInHand(c)
AuditInv == \A c \in Calls : CallAudited(c)

-----------------------------------------------------------------------------
(* One call at a time *)

LEMMA AppendOne ==
  ASSUME NEW x, NEW y
  PROVE  Append(<<x>>, y) = <<x, y>>
<1> DEFINE S == {x, y}
           s == Append(<<x>>, y)
           t == <<x, y>>
<1>1. <<x>> \in Seq(S) /\ Len(<<x>>) = 1 /\ y \in S
  OBVIOUS
<1>2. s \in Seq(S) /\ Len(s) = 2 /\ s[1] = x /\ s[2] = y
  BY <1>1
<1>3. t \in Seq(S) /\ Len(t) = 2 /\ t[1] = x /\ t[2] = y
  OBVIOUS
<1> HIDE DEF S, s, t
<1>4. \A i \in 1..2 : s[i] = t[i]
  <2>1. \A i \in 1..2 : i = 1 \/ i = 2
    OBVIOUS
  <2> QED
    BY <1>2, <1>3, <2>1
<1>5. s = t
  BY <1>2, <1>3, <1>4, SeqEqual
<1> QED
  BY <1>5 DEF s, t

LEMMA AppendTwo ==
  ASSUME NEW x, NEW y, NEW z
  PROVE  Append(<<x, y>>, z) = <<x, y, z>>
<1> DEFINE S == {x, y, z}
           s == Append(<<x, y>>, z)
           t == <<x, y, z>>
<1>1. <<x, y>> \in Seq(S) /\ Len(<<x, y>>) = 2 /\ z \in S
      /\ <<x, y>>[1] = x /\ <<x, y>>[2] = y
  OBVIOUS
<1>2. s \in Seq(S) /\ Len(s) = 3 /\ s[1] = x /\ s[2] = y /\ s[3] = z
  BY <1>1
<1>3. t \in Seq(S) /\ Len(t) = 3 /\ t[1] = x /\ t[2] = y /\ t[3] = z
  OBVIOUS
<1> HIDE DEF S, s, t
<1>4. \A i \in 1..3 : s[i] = t[i]
  <2>1. \A i \in 1..3 : i = 1 \/ i = 2 \/ i = 3
    OBVIOUS
  <2> QED
    BY <1>2, <1>3, <2>1
<1>5. s = t
  BY <1>2, <1>3, <1>4, SeqEqual
<1> QED
  BY <1>5 DEF s, t

\* What appending makes of a trail.
LEMMA Trails ==
  ASSUME NEW x, NEW y, NEW z
  PROVE  /\ Append(<<>>, x) = <<x>>
         /\ Append(<<x>>, y) = <<x, y>>
         /\ Append(<<x, y>>, z) = <<x, y, z>>
         /\ <<>> # <<x>>
         /\ <<x, y>> # <<z>>
<1>1. <<x, y>> # <<z>>
  <2>1. Len(<<x, y>>) = 2 /\ Len(<<z>>) = 1
    OBVIOUS
  <2> QED
    BY <2>1
<1>2. <<>> # <<x>>
  OBVIOUS
<1>3. Append(<<>>, x) = <<x>>
  <2>1. x \in {x}
    OBVIOUS
  <2> QED
    BY <2>1
<1>4. Append(<<x>>, y) = <<x, y>>
  BY AppendOne
<1>5. Append(<<x, y>>, z) = <<x, y, z>>
  BY AppendTwo
<1> QED
  BY <1>1, <1>2, <1>3, <1>4, <1>5

\* The idle thread is at no call.
LEMMA IdleIsElsewhere ==
  ASSUME TypeOK
  PROVE  /\ exec = Idle => exec.pc = "idle" /\ exec.call = NoCall
         /\ Idle.pc = "idle" /\ Idle.call = NoCall
         /\ NoCall \notin Calls
         /\ exec.pc # "idle" => exec.call \in Calls
  BY FrameTypes, ToolGatewayAssumption DEF TypeOK, Idle

\* A step touches c only: other calls keep their records and events, and the
\* thread is at no other call before or after.
Touches(c) ==
  /\ \A d \in Calls \ {c} :
       /\ status'[d] = status[d]
       /\ audit'[d] = audit[d]
       /\ decider'[d] = decider[d]
  /\ exec.call \in {c, NoCall}
  /\ exec'.call \in {c, NoCall}
  /\ \A e : e.call # c => (e \in queue' <=> e \in queue)
  /\ crashes' = crashes

LEMMA Elsewhere ==
  ASSUME NEW d, CallAudited(d),
         status'[d] = status[d], audit'[d] = audit[d], decider'[d] = decider[d],
         exec.call # d, exec'.call # d,
         \A e : e.call = d => (e \in queue' <=> e \in queue),
         crashes' = crashes
  PROVE  CallAudited(d)'
<1>1. TrailFits(d)'
  BY DEF CallAudited, TrailFits, Decision, ByProxy, ByExecutor, Source
<1>2. FrameFits(d)'
  BY DEF FrameFits
<1>3. QueueFits(d)'
  <2>1. \A e \in queue' : e.call = d => e \in queue
    OBVIOUS
  <2>2. QueueFits(d) /\ Decision(d)' = Decision(d)
    BY DEF CallAudited, Decision
  <2>3. ByProxy' = ByProxy /\ ByExecutor' = ByExecutor
    BY DEF ByProxy, ByExecutor
  <2> QED
    BY <2>1, <2>2, <2>3 DEF QueueFits
<1>4. WorkIsInHand(d)'
  <2>1. \A s : Event("capability_call", d, s) \in queue
                 => Event("capability_call", d, s) \in queue'
    BY DEF Event
  <2>2. \A s : Event("capability_approval", d, s) \in queue
                 => Event("capability_approval", d, s) \in queue'
    BY DEF Event
  <2>3. ByProxy' = ByProxy /\ WorkIsInHand(d)
    BY DEF ByProxy, CallAudited
  <2> QED
    BY <2>1, <2>2, <2>3 DEF WorkIsInHand, Event
<1> QED
  BY <1>1, <1>2, <1>3, <1>4 DEF CallAudited

\* It is enough to look at the call a step touches.
LEMMA OneCall ==
  ASSUME TypeOK, AuditInv, NEW c \in Calls, Touches(c), CallAudited(c)'
  PROVE  AuditInv'
<1>1. ASSUME NEW d \in Calls PROVE CallAudited(d)'
  <2>1. CASE d = c
    BY <2>1
  <2>2. CASE d # c
    <3>1. CallAudited(d) /\ exec.call # d /\ exec'.call # d
      BY <2>2, ToolGatewayAssumption DEF AuditInv, Touches
    <3> QED
      BY <2>2, <3>1, Elsewhere DEF Touches
  <2> QED
    BY <2>1, <2>2
<1> QED
  BY <1>1 DEF AuditInv

\* A step that leaves calls, events and the thread alone.
LEMMA Untouched ==
  ASSUME AuditInv, UNCHANGED <<status, audit, decider, queue, exec, crashes>>
  PROVE  AuditInv'
  BY DEF AuditInv, CallAudited, TrailFits, FrameFits, QueueFits, WorkIsInHand,
         Decision, ByProxy, ByExecutor, Source, ProxyRun, ExecutorRun

LEMMA AuditInit == Init => AuditInv
  BY ToolGatewayAssumption
  DEF Init, AuditInv, CallAudited, TrailFits, FrameFits, QueueFits,
      WorkIsInHand, Idle, Waiting, Ended, Begun

-----------------------------------------------------------------------------
(* The steps of the thread *)

\* What the thread has at hand, from the types and the run invariant.
LEMMA AtHand ==
  ASSUME IInv, AuditInv, exec.pc # "idle"
  PROVE  /\ exec \in Frames /\ exec.call \in Calls
         /\ CallAudited(exec.call)
         /\ status \in [Calls -> Statuses]
         /\ audit \in [Calls -> Seq(AuditRecords)]
         /\ decider \in [Calls -> Refs \cup Policy \cup {Nobody}]
  BY FrameTypes DEF IInv, TypeOK, AuditInv

\* A step that leaves the records of the call alone but for the frame keeps what
\* the trail and the events say.
LEMMA FrameMoves ==
  ASSUME IInv, AuditInv, exec.pc # "idle", NEW c, c = exec.call,
         UNCHANGED <<status, audit, decider, queue, crashes>>,
         exec'.call = c, FrameFits(c)',
         exec'.pc \in {"finish", "approval"} \/ exec.pc \notin {"finish", "approval"}
  PROVE  AuditInv'
<1>1. c \in Calls /\ CallAudited(c)
  BY AtHand
<1>2. TrailFits(c)'
  BY <1>1 DEF CallAudited, TrailFits, Decision, ByProxy, ByExecutor, Source
<1>3. QueueFits(c)'
  BY <1>1 DEF CallAudited, QueueFits, Decision, ByProxy, ByExecutor
<1>4. WorkIsInHand(c)'
  BY <1>1 DEF CallAudited, WorkIsInHand, ByProxy
<1>5. Touches(c)
  BY DEF Touches
<1> QED
  BY <1>1, <1>2, <1>3, <1>4, <1>5, OneCall DEF CallAudited, IInv

LEMMA InvokeKeeps ==
  ASSUME IInv, AuditInv, InvokeHandler \/ InvokeAgain
  PROVE  AuditInv'
<1>0. exec.pc \in {"invoke", "retry"}
  BY DEF InvokeHandler, InvokeAgain
<1>c. PICK c \in Calls : c = exec.call
  BY <1>0, AtHand
<1>1. exec \in Frames /\ c \in Calls /\ FrameFits(c)
  BY <1>0, <1>c, AtHand DEF CallAudited
<1>2. \/ \E ok \in BOOLEAN : exec' = [exec EXCEPT !.pc = "record", !.ok = ok]
      \/ exec' = [exec EXCEPT !.pc = "retry"]
  BY DEF InvokeHandler, InvokeAgain
<1>3. exec'.pc \in {"record", "retry"} /\ exec'.call = c /\ exec'.by = exec.by
  BY <1>c, <1>1, <1>2 DEF Frames
<1>4. UNCHANGED <<status, audit, decider, queue, crashes>>
  BY DEF InvokeHandler, InvokeAgain
<1>5. FrameFits(c)'
  BY <1>0, <1>c, <1>1, <1>3, <1>4
  DEF FrameFits, ProxyRun, ExecutorRun, Decision
<1> QED
  BY <1>c, <1>0, <1>3, <1>4, <1>5, FrameMoves

\* The proxy marks the call it has decided.
LEMMA MarkKeeps ==
  ASSUME IInv, AuditInv, MarkExecuting
  PROVE  AuditInv'
<1>0. exec.pc = "enter"
  BY DEF MarkExecuting
<1>c. PICK c \in Calls : c = exec.call
  BY <1>0, AtHand
<1>1. /\ exec \in Frames /\ c \in Calls
      /\ TrailFits(c) /\ FrameFits(c) /\ QueueFits(c) /\ WorkIsInHand(c)
      /\ status \in [Calls -> Statuses]
  BY <1>0, <1>c, AtHand DEF CallAudited
<1>2. status[c] = "approved" /\ ProxyRun(c) /\ audit[c] = <<>>
  BY <1>0, <1>c, <1>1 DEF FrameFits
<1>3. exec'.pc = "invoke" /\ exec'.call = c /\ exec'.by = exec.by
  BY <1>c, <1>1 DEF MarkExecuting, Frames
<1>4. UNCHANGED <<audit, decider, queue, crashes>>
  BY DEF MarkExecuting
<1>5. /\ status'[c] = "executing"
      /\ \A d \in Calls \ {c} : status'[d] = status[d]
  BY <1>c, <1>1 DEF MarkExecuting, SetStatus
<1>6. TrailFits(c)'
  BY <1>c, <1>2, <1>4, <1>5 DEF TrailFits, Waiting, Ended
<1>7. FrameFits(c)'
  BY <1>c, <1>2, <1>3, <1>4, <1>5 DEF FrameFits, ProxyRun
<1>8. QueueFits(c)'
  <2>1. \A e \in queue : e.call = c => e.on # "capability_result"
    BY <1>0, <1>c, <1>1, <1>2 DEF QueueFits, Begun
  <2> QED
    BY <1>c, <1>4, <1>5, <2>1 DEF QueueFits, Begun
<1>9. WorkIsInHand(c)'
  BY <1>c, <1>3, <1>5 DEF WorkIsInHand, Ended
<1>10. Touches(c)
  BY <1>c, <1>3, <1>4, <1>5 DEF Touches
<1> QED
  BY <1>c, <1>1, <1>6, <1>7, <1>8, <1>9, <1>10, OneCall DEF CallAudited, IInv

\* The result goes behind the approval, or first when the proxy runs the call.
LEMMA ResultKeeps ==
  ASSUME IInv, AuditInv, RecordResult
  PROVE  AuditInv'
<1>0. exec.pc = "record"
  BY DEF RecordResult
<1>c. PICK c \in Calls : c = exec.call
  BY <1>0, AtHand
<1>1. /\ exec \in Frames /\ c \in Calls
      /\ TrailFits(c) /\ FrameFits(c) /\ QueueFits(c) /\ WorkIsInHand(c)
      /\ audit \in [Calls -> Seq(AuditRecords)]
  BY <1>0, <1>c, AtHand DEF CallAudited
<1>2. /\ status[c] = "executing"
      /\ \/ ProxyRun(c) /\ audit[c] = <<>>
         \/ ExecutorRun(c) /\ audit[c] = <<Decision(c)>>
  BY <1>0, <1>c, <1>1 DEF FrameFits
<1>3. exec'.pc = "finish" /\ exec'.call = c /\ exec'.by = exec.by
  BY <1>c, <1>1 DEF RecordResult, Frames
<1>4. UNCHANGED <<status, decider, crashes>>
  BY DEF RecordResult
<1>5. /\ audit'[c] = Append(audit[c], [kind |-> "result", by |-> exec.by])
      /\ \A d \in Calls \ {c} : audit'[d] = audit[d]
  BY <1>c, <1>1 DEF RecordResult, Record
<1>6. \/ ProxyRun(c) /\ audit'[c] = <<ByProxy>>
      \/ ExecutorRun(c) /\ audit'[c] = <<Decision(c), ByExecutor>>
  BY <1>c, <1>2, <1>5, Trails DEF ProxyRun, ExecutorRun, ByProxy, ByExecutor
<1>7. PICK snap : queue' = queue \cup {Event("capability_result", c, snap)}
  BY <1>c DEF RecordResult
<1>8. TrailFits(c)'
  BY <1>c, <1>2, <1>4, <1>6
  DEF TrailFits, Waiting, Ended, Decision, ByProxy, ByExecutor
<1>9. FrameFits(c)'
  BY <1>c, <1>2, <1>3, <1>4, <1>6
  DEF FrameFits, ProxyRun, ExecutorRun, Decision, ByProxy, ByExecutor
<1>10. QueueFits(c)'
  <2> DEFINE new == Event("capability_result", c, snap)
  <2>1. \A e \in queue : e.call = c => e.on # "capability_result"
    BY <1>0, <1>c, <1>1 DEF QueueFits
  <2>2. new.on = "capability_result" /\ new.call = c
    BY DEF Event
  <2>3. \A e \in queue' : e.call = c /\ e.on = "capability_result" => e = new
    BY <1>c, <1>7, <2>1
  <2>4. status'[c] \in Begun
    BY <1>c, <1>2, <1>4 DEF Begun
  <2> QED
    BY <1>c, <1>3, <2>3, <2>4 DEF QueueFits
<1>11. WorkIsInHand(c)'
  BY <1>c, <1>2, <1>3, <1>4 DEF WorkIsInHand, Ended
<1>12. Touches(c)
  BY <1>c, <1>3, <1>4, <1>5, <1>7 DEF Touches, Event
<1> QED
  BY <1>c, <1>1, <1>8, <1>9, <1>10, <1>11, <1>12, OneCall DEF CallAudited, IInv

\* The final patch; the proxy goes on to its approval.
LEMMA FinishKeeps ==
  ASSUME IInv, AuditInv, FinishCall
  PROVE  AuditInv'
<1>0. exec.pc = "finish"
  BY DEF FinishCall
<1>c. PICK c \in Calls : c = exec.call
  BY <1>0, AtHand
<1>1. /\ exec \in Frames /\ c \in Calls
      /\ TrailFits(c) /\ FrameFits(c) /\ QueueFits(c) /\ WorkIsInHand(c)
      /\ status \in [Calls -> Statuses]
  BY <1>0, <1>c, AtHand DEF CallAudited
<1>2. /\ status[c] = "executing"
      /\ \/ ProxyRun(c) /\ audit[c] = <<ByProxy>>
         \/ ExecutorRun(c) /\ audit[c] = <<Decision(c), ByExecutor>>
  BY <1>0, <1>c, <1>1 DEF FrameFits
<1>3. /\ ProxyRun(c) => /\ exec'.pc = "approval" /\ exec'.call = c
                        /\ exec'.by = "gateway_llm_proxy"
      /\ ExecutorRun(c) => exec'.pc = "idle" /\ exec'.call = NoCall
  BY <1>c, <1>1 DEF FinishCall, AfterFinish, Frames, ProxyRun, ExecutorRun, Idle
<1>4. UNCHANGED <<audit, decider, queue, crashes>>
  BY DEF FinishCall
<1>5. /\ status'[c] \in Ended
      /\ \A d \in Calls \ {c} : status'[d] = status[d]
  BY <1>c, <1>1 DEF FinishCall, SetStatus, FinalStatus, Ended
<1>6. TrailFits(c)'
  BY <1>c, <1>2, <1>4, <1>5
  DEF TrailFits, Waiting, Ended, Decision, ByProxy, ByExecutor
<1>7. NoCall # c
  BY <1>c, <1>1, ToolGatewayAssumption
<1>8. FrameFits(c)'
  BY <1>c, <1>2, <1>3, <1>4, <1>5, <1>7
  DEF FrameFits, ProxyRun, ByProxy
<1>9. QueueFits(c)'
  <2>1. status'[c] \in Begun
    BY <1>c, <1>5 DEF Begun, Ended
  <2>2. \/ exec'.call = c /\ exec'.pc \in {"finish", "approval"}
        \/ exec'.call # c /\ audit'[c] \in {<<Decision(c)', ByExecutor'>>,
                                           <<ByProxy', Decision(c)'>>}
    BY <1>c, <1>2, <1>3, <1>4, <1>7 DEF Decision, ByExecutor
  <2>3. \A e \in queue : e.call = c /\ e.on = "capability_result" =>
          \A f \in queue : f.call = c /\ f.on = "capability_result" => f = e
    BY <1>c, <1>1 DEF QueueFits
  <2> QED
    BY <1>c, <1>4, <1>5, <2>1, <2>2, <2>3 DEF QueueFits
<1>10. WorkIsInHand(c)'
  <2>1. exec'.call = c \/ audit'[c] # <<ByProxy'>>
    BY <1>c, <1>2, <1>3, <1>4, Trails
  <2> QED
    BY <1>c, <1>5, <2>1 DEF WorkIsInHand, Ended
<1>11. Touches(c)
  BY <1>c, <1>2, <1>3, <1>4, <1>5 DEF Touches
<1> QED
  BY <1>c, <1>1, <1>6, <1>8, <1>9, <1>10, <1>11, OneCall DEF CallAudited, IInv

\* The approval: of a call that waits for its run, or behind the proxy's result.
LEMMA ApprovalKeeps ==
  ASSUME IInv, AuditInv, AddApproval
  PROVE  AuditInv'
<1>0. exec.pc = "approval"
  BY DEF AddApproval
<1>c. PICK c \in Calls : c = exec.call
  BY <1>0, AtHand
<1>1. /\ TrailFits(c) /\ FrameFits(c) /\ QueueFits(c) /\ WorkIsInHand(c)
      /\ audit \in [Calls -> Seq(AuditRecords)]
  BY <1>0, <1>c, AtHand DEF CallAudited
<1>2. /\ exec.by = decider[c]
      /\ \/ status[c] = "approved" /\ audit[c] = <<>>
         \/ status[c] \in Ended /\ audit[c] = <<ByProxy>>
  BY <1>0, <1>c, <1>1 DEF FrameFits
<1>3. /\ exec'.call = NoCall /\ NoCall # c
      /\ UNCHANGED <<status, decider, crashes>>
      /\ queue' = queue \cup {Event("capability_approval", c, "approved")}
  BY <1>c, ToolGatewayAssumption DEF AddApproval, Idle
<1>4. /\ audit'[c] = Append(audit[c], Decision(c))
      /\ \A d \in Calls \ {c} : audit'[d] = audit[d]
  BY <1>c, <1>1, <1>2 DEF AddApproval, Record, Decision
<1>5. \/ status[c] = "approved" /\ audit'[c] = <<Decision(c)>>
      \/ status[c] \in Ended /\ audit'[c] = <<ByProxy, Decision(c)>>
  BY <1>2, <1>4, Trails
<1>6. TrailFits(c)'
  BY <1>3, <1>5 DEF TrailFits, Waiting, Ended, Decision, ByProxy
<1>7. FrameFits(c)'
  BY <1>3 DEF FrameFits
<1>8. QueueFits(c)'
  <2> DEFINE new == Event("capability_approval", c, "approved")
  <2>1. new.on = "capability_approval" /\ new.call = c
    BY DEF Event
  <2>2. \/ status'[c] = "approved" /\ audit'[c] = <<Decision(c)'>>
        \/ status'[c] \in Begun
    BY <1>3, <1>5 DEF Decision, Begun, Ended
  <2>3. \A e \in queue' : e.on = "capability_result" => e \in queue
    BY <1>3, <2>1
  <2>4. \A e \in queue : e.call = c /\ e.on = "capability_result" =>
          /\ status[c] \in Begun
          /\ \A f \in queue :
               f.call = c /\ f.on = "capability_result" => f = e
    BY <1>1 DEF QueueFits
  <2>5. status[c] \in Begun =>
          status[c] \in Ended /\ audit'[c] = <<ByProxy, Decision(c)>>
    BY <1>5 DEF Begun
  <2>6. Decision(c)' = Decision(c)
    BY <1>3 DEF Decision
  <2> HIDE DEF new
  <2> QED
    BY <1>3, <2>2, <2>3, <2>4, <2>5, <2>6 DEF QueueFits
<1>9. WorkIsInHand(c)'
  <2>1. Event("capability_approval", c, "approved") \in queue'
    BY <1>3
  <2>2. status[c] \notin {"proposed", "executing", "rejected"}
    BY <1>5 DEF Ended
  <2>3. status[c] \in Ended => audit'[c] # <<ByProxy>>
    BY <1>5, Trails DEF Ended
  <2> QED
    BY <1>3, <2>1, <2>2, <2>3 DEF WorkIsInHand, ByProxy
<1>10. Touches(c)
  BY <1>c, <1>3, <1>4 DEF Touches, Event
<1> QED
  BY <1>6, <1>7, <1>8, <1>9, <1>10, OneCall DEF CallAudited, IInv

LEMMA DenialKeeps ==
  ASSUME IInv, AuditInv, AddDenial
  PROVE  AuditInv'
<1>0. exec.pc = "denial"
  BY DEF AddDenial
<1>c. PICK c \in Calls : c = exec.call
  BY <1>0, AtHand
<1>1. /\ TrailFits(c) /\ FrameFits(c) /\ QueueFits(c) /\ WorkIsInHand(c)
      /\ audit \in [Calls -> Seq(AuditRecords)]
  BY <1>0, <1>c, AtHand DEF CallAudited
<1>2. status[c] = "rejected" /\ audit[c] = <<>> /\ exec.by \in Refs
  BY <1>0, <1>c, <1>1 DEF FrameFits
<1>3. /\ exec'.call = NoCall /\ NoCall # c
      /\ UNCHANGED <<status, decider, crashes, queue>>
  BY <1>c, ToolGatewayAssumption DEF AddDenial, Idle
<1>4. /\ audit'[c] = <<[kind |-> "denial", by |-> exec.by]>>
      /\ \A d \in Calls \ {c} : audit'[d] = audit[d]
  BY <1>c, <1>1, <1>2, Trails DEF AddDenial, Record
<1>5. TrailFits(c)'
  BY <1>2, <1>3, <1>4 DEF TrailFits, Waiting, Ended, Denials
<1>6. FrameFits(c)'
  BY <1>3 DEF FrameFits
<1>7. QueueFits(c)'
  BY <1>1, <1>2, <1>3 DEF QueueFits, Begun
<1>8. WorkIsInHand(c)'
  BY <1>2, <1>3, <1>4, Trails DEF WorkIsInHand, Ended
<1>9. Touches(c)
  BY <1>c, <1>3, <1>4 DEF Touches
<1> QED
  BY <1>5, <1>6, <1>7, <1>8, <1>9, OneCall DEF CallAudited, IInv

-----------------------------------------------------------------------------
(* Calls enter, are decided and dispatched *)

\* The types the next lemmas need.
LEMMA AtRest ==
  ASSUME IInv, AuditInv, exec = Idle, NEW c \in Calls
  PROVE  /\ TrailFits(c) /\ FrameFits(c) /\ QueueFits(c) /\ WorkIsInHand(c)
         /\ exec.call = NoCall /\ NoCall # c
         /\ status \in [Calls -> Statuses]
         /\ audit \in [Calls -> Seq(AuditRecords)]
         /\ decider \in [Calls -> Refs \cup Policy \cup {Nobody}]
         /\ queue \subseteq Events
  BY IdleIsElsewhere DEF IInv, TypeOK, AuditInv, CallAudited

\* While a call is undecided nothing but its own creation is queued.
LEMMA NothingQueued ==
  ASSUME NEW c, QueueFits(c), status[c] \in Waiting \cup {"rejected"}, NEW e \in queue,
         e.call = c
  PROVE  e.on # "capability_approval" /\ e.on # "capability_result"
  BY DEF QueueFits, Waiting, Begun

\* A decision of a waiting call: the thread goes on to record it, or the call is
\* held, with its creation queued, consumed or neither.
LEMMA Decided ==
  ASSUME IInv, AuditInv, exec = Idle, NEW c \in Calls,
         status[c] \in Waiting, NEW s \in Statuses,
         SetStatus(c, s), UNCHANGED <<audit, crashes>>,
         \A d \in Calls \ {c} : decider'[d] = decider[d],
         exec'.call \in {c, NoCall},
         \A e : e.call # c => (e \in queue' <=> e \in queue),
         \A e \in queue' : e \in queue \/ e.on = "capability_call",
         s \in {"proposed", "policy_checking", "approved", "rejected"},
         s = "proposed" => Event("capability_call", c, "proposed") \in queue',
         s \in {"approved", "rejected"} => exec'.call = c,
         FrameFits(c)'
  PROVE  AuditInv'
<1>1. /\ TrailFits(c) /\ QueueFits(c)
      /\ status \in [Calls -> Statuses] /\ exec.call = NoCall
  BY AtRest
<1>2. audit[c] = <<>> /\ UNCHANGED audit
  BY <1>1 DEF TrailFits
<1>3. /\ status'[c] = s
      /\ \A d \in Calls \ {c} : status'[d] = status[d]
  BY <1>1 DEF SetStatus
<1>4. TrailFits(c)'
  BY <1>2, <1>3 DEF TrailFits, Ended
<1>5. QueueFits(c)'
  <2>1. ASSUME NEW e \in queue', e.call = c
        PROVE  e.on # "capability_approval" /\ e.on # "capability_result"
    BY <1>1, <2>1, NothingQueued
  <2> QED
    BY <2>1 DEF QueueFits
<1>6. WorkIsInHand(c)'
  BY <1>3 DEF WorkIsInHand, Ended
<1>7. Touches(c)
  BY <1>1, <1>2, <1>3 DEF Touches
<1> QED
  BY <1>4, <1>5, <1>6, <1>7, OneCall DEF CallAudited, IInv

LEMMA ProposeKeeps ==
  ASSUME IInv, AuditInv, NEW c \in Calls, Propose(c)
  PROVE  AuditInv'
<1>1. /\ exec = Idle /\ exec' = exec /\ status[c] = "none"
      /\ SetStatus(c, "proposed")
      /\ UNCHANGED <<audit, decider, crashes>>
      /\ queue' = queue \cup {Event("capability_call", c, "proposed")}
  BY DEF Propose
<1>2. exec.call = NoCall /\ NoCall # c
  BY <1>1, AtRest
<1>3. FrameFits(c)'
  BY <1>1, <1>2 DEF FrameFits
<1>4. \A e : e.call # c => (e \in queue' <=> e \in queue)
  BY <1>1 DEF Event
<1>5. \A e \in queue' : e \in queue \/ e.on = "capability_call"
  BY <1>1 DEF Event
<1>6. status[c] \in Waiting /\ "proposed" \in Statuses
  BY <1>1 DEF Waiting, Statuses
<1>7. Event("capability_call", c, "proposed") \in queue'
  BY <1>1
<1> QED
  BY <1>1, <1>2, <1>3, <1>4, <1>5, <1>6, <1>7, Decided

LEMMA ProxyKeeps ==
  ASSUME IInv, AuditInv, NEW c \in Calls, ProxyCall(c)
  PROVE  AuditInv'
<1>1. /\ exec = Idle /\ status[c] = "none"
      /\ UNCHANGED <<audit, crashes>>
  BY DEF ProxyCall
<1>2. /\ exec.call = NoCall /\ NoCall # c
      /\ TrailFits(c)
      /\ decider \in [Calls -> Refs \cup Policy \cup {Nobody}]
      /\ status \in [Calls -> Statuses]
  BY <1>1, AtRest
<1>3. status[c] \in Waiting /\ audit'[c] = <<>>
  BY <1>1, <1>2 DEF Waiting, TrailFits
<1>4. PICK s \in {"approved", "policy_checking"} :
        /\ SetStatus(c, s)
        /\ queue' = queue \cup {Event("capability_call", c, s)}
        /\ \/ /\ s = "approved"
              /\ Enter("enter", c, "gateway_llm_proxy", FALSE)
              /\ decider' = [decider EXCEPT ![c] = "gateway_llm_proxy"]
           \/ s = "policy_checking" /\ UNCHANGED <<exec, decider>>
  BY DEF ProxyCall
<1>5. /\ \A e : e.call # c => (e \in queue' <=> e \in queue)
      /\ \A e \in queue' : e \in queue \/ e.on = "capability_call"
  BY <1>4 DEF Event
<1>6. /\ s \in Statuses
      /\ \A d \in Calls \ {c} : decider'[d] = decider[d]
      /\ status'[c] = s
  BY <1>2, <1>4 DEF Statuses, SetStatus
<1>7. CASE s = "approved"
  <2>1. /\ exec'.pc = "enter" /\ exec'.call = c
        /\ exec'.by = "gateway_llm_proxy" /\ decider'[c] = "gateway_llm_proxy"
    BY <1>2, <1>4, <1>7 DEF Enter
  <2>2. FrameFits(c)'
    BY <1>3, <1>6, <1>7, <2>1 DEF FrameFits, ProxyRun
  <2> QED
    BY <1>1, <1>3, <1>4, <1>5, <1>6, <1>7, <2>1, <2>2, Decided
<1>8. CASE s = "policy_checking"
  <2>1. exec' = exec
    BY <1>4, <1>8
  <2>2. FrameFits(c)'
    BY <1>2, <2>1 DEF FrameFits
  <2> QED
    BY <1>1, <1>2, <1>3, <1>4, <1>5, <1>6, <1>8, <2>1, <2>2, Decided
<1> QED
  BY <1>4, <1>7, <1>8

\* The enforcer decides the call of a fresh snapshot and drops any other event.
LEMMA EnforcerKeeps ==
  ASSUME IInv, AuditInv, NEW e \in queue, PolicyEnforcer(e)
  PROVE  AuditInv'
<1>c. PICK c \in Calls : c = e.call
  BY DEF IInv, TypeOK, Events
<1>1. /\ exec = Idle /\ e.on = "capability_call" /\ queue' = queue \ {e}
      /\ UNCHANGED <<audit, crashes>>
  BY DEF PolicyEnforcer
<1>2. /\ exec.call = NoCall /\ NoCall # c
      /\ TrailFits(c) /\ FrameFits(c) /\ QueueFits(c) /\ WorkIsInHand(c)
      /\ decider \in [Calls -> Refs \cup Policy \cup {Nobody}]
      /\ status \in [Calls -> Statuses]
  BY <1>1, AtRest
<1>3. /\ \A f : f.call # c => (f \in queue' <=> f \in queue)
      /\ \A f \in queue' : f \in queue
  BY <1>c, <1>1
<1>4. CASE ~Undecided(e)
  <2>1. UNCHANGED <<status, decider, exec>>
    BY <1>4 DEF PolicyEnforcer
  <2>2. /\ TrailFits(c)' /\ FrameFits(c)'
    BY <1>1, <1>2, <2>1
    DEF TrailFits, FrameFits, Decision, ByProxy, ByExecutor, Source
  <2>3. QueueFits(c)'
    <3>1. /\ Decision(c)' = Decision(c) /\ ByProxy' = ByProxy
          /\ ByExecutor' = ByExecutor
      BY <2>1 DEF Decision, ByProxy, ByExecutor
    <3> QED
      BY <1>2, <1>3, <2>1, <1>1, <3>1 DEF QueueFits
  <2>4. WorkIsInHand(c)'
    <3>1. /\ e # Event("capability_call", c, "proposed")
          /\ e # Event("capability_approval", c, "approved")
      BY <1>1, <1>4 DEF Event, Undecided
    <3> QED
      BY <1>1, <1>2, <2>1, <3>1 DEF WorkIsInHand, ByProxy
  <2>5. Touches(c)
    BY <1>1, <1>2, <1>3, <2>1 DEF Touches
  <2> QED
    BY <2>2, <2>3, <2>4, <2>5, OneCall DEF CallAudited, IInv
<1>5. CASE Undecided(e)
  <2>1. status[c] = "proposed"
    BY <1>c, <1>1, <1>5 DEF IInv, RunInv, SnapshotsAreFresh, Undecided
  <2>2. PICK s \in {"approved", "policy_checking"} :
          /\ SetStatus(c, s)
          /\ \/ /\ s = "approved"
                /\ Enter("approval", c, "policy_enforcer", FALSE)
                /\ decider' = [decider EXCEPT ![c] = "policy_enforcer"]
             \/ s = "policy_checking" /\ UNCHANGED <<exec, decider>>
    BY <1>c, <1>5 DEF PolicyEnforcer
  <2>3. /\ s \in Statuses
        /\ \A d \in Calls \ {c} : decider'[d] = decider[d]
        /\ status'[c] = s
        /\ status[c] \in Waiting
        /\ audit'[c] = <<>>
    BY <1>1, <1>2, <2>1, <2>2 DEF Statuses, SetStatus, Waiting, TrailFits
  <2>4. CASE s = "approved"
    <3>1. /\ exec'.pc = "approval" /\ exec'.call = c
          /\ exec'.by = decider'[c]
      BY <1>2, <2>2, <2>4 DEF Enter
    <3>2. FrameFits(c)'
      BY <2>3, <2>4, <3>1 DEF FrameFits
    <3> QED
      BY <1>1, <1>3, <2>2, <2>3, <2>4, <3>1, <3>2, Decided
  <2>5. CASE s = "policy_checking"
    <3>1. exec' = exec
      BY <2>2, <2>5
    <3>2. FrameFits(c)'
      BY <1>2, <3>1 DEF FrameFits
    <3> QED
      BY <1>1, <1>2, <1>3, <2>2, <2>3, <2>5, <3>1, <3>2, Decided
  <2> QED
    BY <2>2, <2>4, <2>5
<1> QED
  BY <1>4, <1>5

LEMMA ResolveKeeps ==
  ASSUME IInv, AuditInv, NEW c \in Calls, NEW r \in Refs,
         ApproveCapability(c, r) \/ DenyCapability(c, r)
  PROVE  AuditInv'
<1>1. /\ exec = Idle /\ status[c] = "policy_checking"
      /\ UNCHANGED <<audit, crashes, queue>>
  BY DEF ApproveCapability, DenyCapability, Resolvable
<1>2. /\ TrailFits(c)
      /\ decider \in [Calls -> Refs \cup Policy \cup {Nobody}]
      /\ status \in [Calls -> Statuses]
  BY <1>1, AtRest
<1>3. PICK s \in {"approved", "rejected"} :
        /\ SetStatus(c, s)
        /\ \/ /\ s = "approved" /\ Enter("approval", c, r, FALSE)
              /\ decider' = [decider EXCEPT ![c] = r]
           \/ /\ s = "rejected" /\ Enter("denial", c, r, FALSE)
              /\ UNCHANGED decider
  BY DEF ApproveCapability, DenyCapability
<1>4. /\ s \in Statuses
      /\ \A d \in Calls \ {c} : decider'[d] = decider[d]
      /\ status'[c] = s
      /\ status[c] \in Waiting
      /\ audit'[c] = <<>>
  BY <1>1, <1>2, <1>3 DEF Statuses, SetStatus, Waiting, TrailFits
<1>5. /\ exec'.call = c /\ exec'.by = r
      /\ s = "approved" => exec'.pc = "approval" /\ decider'[c] = r
      /\ s = "rejected" => exec'.pc = "denial"
  BY <1>2, <1>3 DEF Enter
<1>6. FrameFits(c)'
  BY <1>3, <1>4, <1>5 DEF FrameFits
<1> QED
  BY <1>1, <1>3, <1>4, <1>5, <1>6, Decided

\* The executor starts the call its approval event is about, or drops the event
\* of a call that has run.
LEMMA ExecutorKeeps ==
  ASSUME IInv, AuditInv, NEW e \in queue, CallExecutor(e)
  PROVE  AuditInv'
<1>c. PICK c \in Calls : c = e.call
  BY DEF IInv, TypeOK, Events
<1>1. /\ exec = Idle /\ e.on = "capability_approval" /\ queue' = queue \ {e}
      /\ UNCHANGED <<audit, decider, crashes>>
  BY DEF CallExecutor
<1>2. /\ exec.call = NoCall /\ NoCall # c
      /\ TrailFits(c) /\ FrameFits(c) /\ QueueFits(c) /\ WorkIsInHand(c)
      /\ status \in [Calls -> Statuses]
  BY <1>1, AtRest
<1>3. /\ \A f : f.call # c => (f \in queue' <=> f \in queue)
      /\ \A f \in queue' : f \in queue
  BY <1>c, <1>1
<1>4. /\ Decision(c)' = Decision(c) /\ ByProxy' = ByProxy
      /\ ByExecutor' = ByExecutor
  BY <1>1 DEF Decision, ByProxy, ByExecutor
<1>5. CASE status[c] # "approved"
  <2>1. UNCHANGED <<status, exec>>
    BY <1>c, <1>5 DEF CallExecutor, StillApproved
  <2>2. TrailFits(c)' /\ FrameFits(c)'
    BY <1>1, <1>2, <2>1
    DEF TrailFits, FrameFits, Decision, ByProxy, ByExecutor, Source
  <2>3. QueueFits(c)'
    BY <1>1, <1>2, <1>3, <1>4, <2>1 DEF QueueFits
  <2>4. WorkIsInHand(c)'
    <3>1. e # Event("capability_call", c, "proposed")
      BY <1>1 DEF Event
    <3> QED
      BY <1>1, <1>2, <1>4, <1>5, <2>1, <3>1 DEF WorkIsInHand
  <2>5. Touches(c)
    BY <1>1, <1>2, <1>3, <2>1 DEF Touches
  <2> QED
    BY <2>2, <2>3, <2>4, <2>5, OneCall DEF CallAudited, IInv
<1>6. CASE status[c] = "approved"
  <2>1. /\ SetStatus(c, "executing")
        /\ Enter("invoke", c, "call_executor", FALSE)
    BY <1>c, <1>6 DEF CallExecutor, StillApproved
  <2>2. /\ status'[c] = "executing"
        /\ \A d \in Calls \ {c} : status'[d] = status[d]
        /\ exec'.pc = "invoke" /\ exec'.call = c
        /\ exec'.by = "call_executor"
    BY <1>2, <2>1 DEF SetStatus, Enter
  <2>3. audit'[c] = <<Decision(c)>>
    BY <1>c, <1>1, <1>2, <1>6 DEF QueueFits, Begun
  <2>4. TrailFits(c)'
    BY <1>4, <2>2, <2>3 DEF TrailFits, Waiting, Ended
  <2>5. FrameFits(c)'
    BY <1>4, <2>2, <2>3 DEF FrameFits, ExecutorRun
  <2>6. QueueFits(c)'
    <3>1. \A f \in queue' : f.call = c => f.on # "capability_result"
      BY <1>2, <1>3, <1>6 DEF QueueFits, Begun
    <3> QED
      BY <2>2, <3>1 DEF QueueFits, Begun
  <2>7. WorkIsInHand(c)'
    BY <2>2 DEF WorkIsInHand, Ended
  <2>8. Touches(c)
    BY <1>1, <1>2, <1>3, <2>2 DEF Touches
  <2> QED
    BY <2>4, <2>5, <2>6, <2>7, <2>8, OneCall DEF CallAudited, IInv
<1> QED
  BY <1>5, <1>6

\* The source is the last word of a trail.
LEMMA SourcerKeeps ==
  ASSUME IInv, AuditInv, NEW e \in queue, ResultSourcer(e)
  PROVE  AuditInv'
<1>c. PICK c \in Calls : c = e.call
  BY DEF IInv, TypeOK, Events
<1>1. /\ exec = Idle /\ e.on = "capability_result" /\ queue' = queue \ {e}
      /\ UNCHANGED <<status, exec, decider, crashes>>
  BY DEF ResultSourcer
<1>2. /\ exec.call = NoCall /\ NoCall # c
      /\ TrailFits(c) /\ FrameFits(c) /\ QueueFits(c) /\ WorkIsInHand(c)
      /\ audit \in [Calls -> Seq(AuditRecords)]
  BY <1>1, AtRest
<1>3. /\ \A f : f.call # c => (f \in queue' <=> f \in queue)
      /\ \A f \in queue' : f \in queue
  BY <1>c, <1>1
<1>4. /\ Decision(c)' = Decision(c) /\ ByProxy' = ByProxy
      /\ ByExecutor' = ByExecutor /\ Source' = Source
  BY <1>1 DEF Decision, ByProxy, ByExecutor, Source
<1>5. /\ status[c] \in Ended
      /\ audit[c] \in {<<Decision(c), ByExecutor>>, <<ByProxy, Decision(c)>>}
      /\ \A f \in queue : f.call = c /\ f.on = "capability_result" => f = e
  BY <1>c, <1>1, <1>2 DEF QueueFits
<1>6. /\ audit'[c] = audit[c] \/ audit'[c] = Append(audit[c], Source)
      /\ \A d \in Calls \ {c} : audit'[d] = audit[d]
  BY <1>c, <1>2 DEF ResultSourcer, Record, Source
<1>7. audit'[c] \in {<<Decision(c), ByExecutor>>, <<ByProxy, Decision(c)>>,
                     <<Decision(c), ByExecutor, Source>>,
                     <<ByProxy, Decision(c), Source>>}
  <2>1. /\ Append(<<Decision(c), ByExecutor>>, Source)
               = <<Decision(c), ByExecutor, Source>>
        /\ Append(<<ByProxy, Decision(c)>>, Source)
               = <<ByProxy, Decision(c), Source>>
    BY AppendTwo
  <2> QED
    BY <1>5, <1>6, <2>1
<1>8. TrailFits(c)'
  BY <1>1, <1>4, <1>5, <1>7 DEF TrailFits, Waiting, Ended
<1>9. FrameFits(c)'
  BY <1>1, <1>2 DEF FrameFits
<1>10. QueueFits(c)'
  <2>1. \A f \in queue' : f.call = c => f.on # "capability_result"
    BY <1>1, <1>3, <1>5
  <2>2. status'[c] \in Begun
    BY <1>1, <1>5 DEF Begun, Ended
  <2> QED
    BY <2>1, <2>2 DEF QueueFits
<1>11. WorkIsInHand(c)'
  <2>1. audit'[c] # <<ByProxy>>
    <3>1. /\ Len(<<Decision(c), ByExecutor>>) = 2
          /\ Len(<<ByProxy, Decision(c)>>) = 2
          /\ Len(<<Decision(c), ByExecutor, Source>>) = 3
          /\ Len(<<ByProxy, Decision(c), Source>>) = 3
          /\ Len(<<ByProxy>>) = 1
      OBVIOUS
    <3> QED
      BY <1>7, <3>1
  <2> QED
    BY <1>1, <1>4, <1>5, <2>1 DEF WorkIsInHand, Ended
<1>12. Touches(c)
  BY <1>1, <1>2, <1>3, <1>6 DEF Touches
<1> QED
  BY <1>8, <1>9, <1>10, <1>11, <1>12, OneCall DEF CallAudited, IInv

\* A crash takes the events and the frame: nothing goes on that the trail could
\* contradict, and nothing is owed any more.
LEMMA CrashKeeps ==
  ASSUME IInv, AuditInv, CrashRestart
  PROVE  AuditInv'
<1> SUFFICES ASSUME NEW c \in Calls PROVE CallAudited(c)'
  BY DEF AuditInv
<1>1. /\ queue' = {} /\ exec'.call = NoCall /\ NoCall # c
      /\ UNCHANGED <<status, audit, decider>>
      /\ crashes' # 0
  BY ToolGatewayAssumption DEF CrashRestart, Idle, IInv, TypeOK
<1>2. TrailFits(c)'
  BY <1>1 DEF AuditInv, CallAudited, TrailFits, Decision, ByProxy, ByExecutor,
              Source
<1>3. FrameFits(c)' /\ QueueFits(c)' /\ WorkIsInHand(c)'
  BY <1>1 DEF FrameFits, QueueFits, WorkIsInHand
<1> QED
  BY <1>2, <1>3 DEF CallAudited

LEMMA AuditStep == IInv /\ AuditInv /\ [Next]_vars => AuditInv'
<1> SUFFICES ASSUME IInv, AuditInv, [Next]_vars PROVE AuditInv'
  OBVIOUS
<1>1. CASE Surroundings \/ UNCHANGED vars
  <2>1. UNCHANGED <<status, audit, decider, queue, exec, crashes>>
    BY <1>1 DEF Surroundings, RegisterCapability, StandingScopeChange, SetRole,
                SetAuthorityCeiling, vars
  <2> QED
    BY <2>1, Untouched
<1>2. CASE \E c \in Calls : Propose(c) \/ ProxyCall(c)
  BY <1>2, ProposeKeeps, ProxyKeeps
<1>3. CASE ExecutionStep
  BY <1>3, MarkKeeps, InvokeKeeps, ResultKeeps, FinishKeeps, ApprovalKeeps,
     DenialKeeps DEF ExecutionStep
<1>4. CASE Dispatch
  BY <1>4, EnforcerKeeps, ExecutorKeeps, SourcerKeeps DEF Dispatch
<1>5. CASE Resolve
  BY <1>5, ResolveKeeps DEF Resolve
<1>6. CASE CrashRestart
  BY <1>6, CrashKeeps
<1> QED
  BY <1>1, <1>2, <1>3, <1>4, <1>5, <1>6 DEF Next, RuntimeStep

LEMMA SpecAudited == Spec => [](IInv /\ AuditInv)
<1>1. Init => IInv /\ AuditInv
  BY TypeInit, RunInit, AuditInit DEF IInv
<1>2. IInv /\ AuditInv /\ [Next]_vars => (IInv /\ AuditInv)'
  BY TypeStep, RunStep, AuditStep DEF IInv
<1> QED
  BY <1>1, <1>2, PTL DEF Spec

-----------------------------------------------------------------------------
(* What the trail says *)

\* The beginnings of a story.
LEMMA Beginnings ==
  ASSUME NEW x, NEW y, NEW z
  PROVE  \A t \in {<<>>, <<x>>, <<x, y>>, <<x, y, z>>} :
           Len(t) <= 3 /\ t = SubSeq(<<x, y, z>>, 1, Len(t))
<1> DEFINE S == {x, y, z}
           s == <<x, y, z>>
<1>1. s \in Seq(S) /\ Len(s) = 3 /\ s[1] = x /\ s[2] = y /\ s[3] = z
  OBVIOUS
<1>2. /\ <<>> \in Seq(S) /\ Len(<<>>) = 0
      /\ <<x>> \in Seq(S) /\ Len(<<x>>) = 1 /\ <<x>>[1] = x
      /\ <<x, y>> \in Seq(S) /\ Len(<<x, y>>) = 2
      /\ <<x, y>>[1] = x /\ <<x, y>>[2] = y
  OBVIOUS
<1> HIDE DEF S
<1> SUFFICES ASSUME NEW t \in {<<>>, <<x>>, <<x, y>>, s}
             PROVE  Len(t) <= 3 /\ t = SubSeq(s, 1, Len(t))
  OBVIOUS
<1> HIDE DEF s
<1>3. /\ t \in Seq(S) /\ Len(t) \in 0..3
      /\ \A i \in 1..Len(t) : t[i] = s[i]
  <2>1. CASE t = <<>>
    BY <1>2, <2>1
  <2>2. CASE t = <<x>>
    <3>1. \A i \in 1..1 : i = 1
      OBVIOUS
    <3> QED
      BY <1>1, <1>2, <2>2, <3>1
  <2>3. CASE t = <<x, y>>
    <3>1. \A i \in 1..2 : i = 1 \/ i = 2
      OBVIOUS
    <3> QED
      BY <1>1, <1>2, <2>3, <3>1
  <2>4. CASE t = s
    BY <1>1, <2>4
  <2> QED
    BY <2>1, <2>2, <2>3, <2>4
<1>4. /\ SubSeq(s, 1, Len(t)) \in Seq(S)
      /\ Len(SubSeq(s, 1, Len(t))) = Len(t)
      /\ \A i \in 1..Len(t) : SubSeq(s, 1, Len(t))[i] = s[i]
  BY <1>1, <1>3, SubSeqProperties
<1> QED
  BY <1>3, <1>4, SeqEqual

\* A trail that fits its status is the beginning of a story.
LEMMA FittingIsLegal ==
  ASSUME TypeOK, AuditInv
  PROVE  AuditTrailLegal
<1> SUFFICES ASSUME NEW c \in Calls
      PROVE  \E story \in
               {<<Decision(c), ByExecutor, Source>>,
                <<ByProxy, Decision(c), Source>>} \cup Denials :
               /\ Len(audit[c]) <= Len(story)
               /\ audit[c] = SubSeq(story, 1, Len(audit[c]))
  BY DEF AuditTrailLegal, Decision, ByExecutor, ByProxy, Source, Denials
<1>1. TrailFits(c) /\ status[c] \in Statuses
  BY DEF AuditInv, CallAudited, TypeOK
<1>2. \/ audit[c] \in {<<>>, <<Decision(c)>>, <<Decision(c), ByExecutor>>,
                       <<Decision(c), ByExecutor, Source>>}
      \/ audit[c] \in {<<>>, <<ByProxy>>, <<ByProxy, Decision(c)>>,
                       <<ByProxy, Decision(c), Source>>}
      \/ audit[c] \in Denials
  BY <1>1 DEF TrailFits, Statuses, Waiting, Ended
<1>3. CASE audit[c] \in {<<>>, <<Decision(c)>>, <<Decision(c), ByExecutor>>,
                         <<Decision(c), ByExecutor, Source>>}
  <2> DEFINE story == <<Decision(c), ByExecutor, Source>>
  <2>1. Len(story) = 3
    OBVIOUS
  <2>2. Len(audit[c]) <= 3 /\ audit[c] = SubSeq(story, 1, Len(audit[c]))
    BY <1>3, Beginnings
  <2> QED
    BY <2>1, <2>2
<1>4. CASE audit[c] \in {<<>>, <<ByProxy>>, <<ByProxy, Decision(c)>>,
                         <<ByProxy, Decision(c), Source>>}
  <2> DEFINE story == <<ByProxy, Decision(c), Source>>
  <2>1. Len(story) = 3
    OBVIOUS
  <2>2. Len(audit[c]) <= 3 /\ audit[c] = SubSeq(story, 1, Len(audit[c]))
    BY <1>4, Beginnings
  <2> QED
    BY <2>1, <2>2
<1>5. CASE audit[c] \in Denials
  <2>1. PICK r \in Refs : audit[c] = <<[kind |-> "denial", by |-> r]>>
    BY <1>5 DEF Denials
  <2> DEFINE t == audit[c]
  <2>2. t \in Seq(AuditRecords) /\ Len(t) = 1
    BY <2>1 DEF TypeOK
  <2> HIDE DEF t
  <2>3. t = SubSeq(t, 1, Len(t))
    <3>1. \A i \in 1..Len(t) : t[i] \in AuditRecords
      BY <2>2
    <3>2. /\ SubSeq(t, 1, Len(t)) \in Seq(AuditRecords)
          /\ Len(SubSeq(t, 1, Len(t))) = Len(t)
          /\ \A i \in 1..Len(t) : SubSeq(t, 1, Len(t))[i] = t[i]
      BY <2>2, <3>1, SubSeqProperties
    <3> QED
      BY <2>2, <3>2, SeqEqual
  <2>4. t \in Denials /\ Len(t) <= Len(t)
    BY <1>5, <2>2 DEF t
  <2> QED
    BY <2>3, <2>4 DEF t
<1> QED
  BY <1>2, <1>3, <1>4, <1>5

\* The audit trail of a call never holds two decisions, two results or a result of
\* a denied call, and the approval in it names the one who decided, for any number
\* of calls and approvers and whatever crashes cut short.
THEOREM AuditTrailsAreLegal == Spec => []AuditTrailLegal
<1>1. IInv /\ AuditInv => AuditTrailLegal
  BY FittingIsLegal DEF IInv
<1> QED
  BY <1>1, SpecAudited, PTL

\* A trail with a record of a kind has that kind.
LEMMA Holds ==
  ASSUME NEW c, NEW x, NEW y, NEW z,
         audit[c] \in {<<x>>, <<x, y>>, <<x, y, z>>}
  PROVE  /\ Has(c, x.kind)
         /\ audit[c] # <<x>> => Has(c, y.kind)
<1>1. Len(audit[c]) \in Nat /\ 1 \in 1..Len(audit[c]) /\ audit[c][1] = x
  OBVIOUS
<1>2. audit[c] # <<x>> => 2 \in 1..Len(audit[c]) /\ audit[c][2] = y
  OBVIOUS
<1> QED
  BY <1>1, <1>2 DEF Has

\* At rest with nothing queued, the call that is owed a step does not exist.
LEMMA RestIsComplete ==
  ASSUME TypeOK, AuditInv
  PROVE  SettledCallsAreComplete
<1> SUFFICES ASSUME exec = Idle, queue = {}, crashes = 0, NEW c \in Calls
             PROVE  /\ status[c] \in {"none", "policy_checking", "rejected",
                                      "done", "failed"}
                    /\ status[c] = "rejected" => Has(c, "denial")
                    /\ status[c] \in {"done", "failed"} =>
                         Has(c, "approval") /\ Has(c, "result")
  BY DEF SettledCallsAreComplete
<1>1. /\ TrailFits(c) /\ WorkIsInHand(c) /\ exec.call # c
      /\ status[c] \in Statuses
  BY IdleIsElsewhere DEF AuditInv, CallAudited, TypeOK
<1>2. status[c] \in {"none", "policy_checking", "rejected", "done", "failed"}
  BY <1>1 DEF WorkIsInHand, Statuses
<1>3. ASSUME status[c] = "rejected" PROVE Has(c, "denial")
  <2>1. PICK r \in Refs : audit[c] = <<[kind |-> "denial", by |-> r]>>
    BY <1>1, <1>3 DEF TrailFits, WorkIsInHand, Denials
  <2> DEFINE d == [kind |-> "denial", by |-> r]
  <2>2. audit[c] \in {<<d>>, <<d, d>>, <<d, d, d>>}
    BY <2>1
  <2>3. d.kind = "denial"
    OBVIOUS
  <2> HIDE DEF d
  <2> QED
    BY <2>2, <2>3, Holds
<1>4. ASSUME status[c] \in {"done", "failed"}
      PROVE  Has(c, "approval") /\ Has(c, "result")
  <2>0. /\ Decision(c).kind = "approval" /\ ByExecutor.kind = "result"
        /\ ByProxy.kind = "result"
    BY DEF Decision, ByExecutor, ByProxy
  <2>1. \/ audit[c] \in {<<Decision(c), ByExecutor>>,
                         <<Decision(c), ByExecutor, Source>>}
        \/ /\ audit[c] \in {<<ByProxy, Decision(c)>>,
                            <<ByProxy, Decision(c), Source>>}
           /\ audit[c] # <<ByProxy>>
    BY <1>1, <1>4 DEF TrailFits, WorkIsInHand, Ended
  <2>2. CASE audit[c] \in {<<Decision(c), ByExecutor>>,
                           <<Decision(c), ByExecutor, Source>>}
    <3>1. audit[c] # <<Decision(c)>>
      BY <2>2
    <3> QED
      BY <2>0, <2>2, <3>1, Holds
  <2>3. CASE /\ audit[c] \in {<<ByProxy, Decision(c)>>,
                              <<ByProxy, Decision(c), Source>>}
             /\ audit[c] # <<ByProxy>>
    BY <2>0, <2>3, Holds
  <2> QED
    BY <2>1, <2>2, <2>3
<1> QED
  BY <1>2, <1>3, <1>4

\* While the process lives no call is lost between two statuses: when the thread
\* rests and nothing is queued, each is unrequested, held, denied with its denial,
\* or ended with a decision and a result on record.
THEOREM SettledIsComplete == Spec => []SettledCallsAreComplete
<1>1. IInv /\ AuditInv => SettledCallsAreComplete
  BY RestIsComplete DEF IInv
<1> QED
  BY <1>1, SpecAudited, PTL
=================================================================================
