------------------------------ MODULE ToolGateway ------------------------------
(***************************************************************************)
(* packs/tool_gateway: the life of a capability_call.                       *)
(*                                                                          *)
(* One thread (the demo server's runtime executor) runs everything: the     *)
(* API functions approve_capability_fn and deny_capability_fn, the LLM tool *)
(* proxies, and the behaviors the runtime fires for queued object.created   *)
(* events.  What can still go wrong is the order in which these run and a   *)
(* crash between two graph mutations of one of them, so every function that *)
(* mutates the graph more than once is split at each mutation: `exec' holds *)
(* the function the thread is in the middle of, and nothing else runs until *)
(* it ends.  Graph objects survive a crash; the event queue, the running    *)
(* function and the in-memory capability registry do not.                   *)
(***************************************************************************)
EXTENDS Naturals, Sequences, FiniteSets

CONSTANTS
  Calls,          \* capability_call objects
  NoCall,         \* "no call", for the idle thread
  Caps,           \* capability keys "<provider>.<capability>"
  CapOf,          \* [Calls -> Caps]
  ActionClass,    \* [Caps -> 0..5]: R0..R4, and 5 for an undeclared class
  LowRisk,        \* caps whose risk_class is in auto_approve_risk_classes
  CapCeiling,     \* [Caps -> 0..3]: capability_action_ceilings
  Explicit,       \* calls proposed with metadata.requires_explicit_approval
  Refs,           \* approver references
  Nobody,         \* no decider
  OwnerCeilings,  \* bound: the instance ceilings the owner ever sets
  MaxCrashes      \* bound on crashes

\* A ceiling n admits the classes below n: 0 is "none", 1 is R0, 2 is R1 and
\* 3 is R2 (also "unconstrained": no ceiling admits R3, R4 or no class).
Ceilings == 0..3
R2 == 2

Policy == {"policy_enforcer", "gateway_llm_proxy"}
Agents == Policy \cup {"call_executor", "result_sourcer"}

ASSUME ToolGatewayAssumption ==
  /\ NoCall \notin Calls
  /\ CapOf \in [Calls -> Caps]
  /\ ActionClass \in [Caps -> 0..5]
  /\ LowRisk \subseteq Caps
  /\ CapCeiling \in [Caps -> Ceilings]
  /\ Explicit \subseteq Calls
  /\ Refs \cap Agents = {}
  /\ Nobody \notin Refs \cup Agents
  /\ OwnerCeilings \subseteq Ceilings
  /\ MaxCrashes \in Nat

VARIABLES
  status,         \* [Calls -> Statuses]: capability_call.status
  audit,          \* [Calls -> Seq(AuditRecords)]: the objects recorded for the
                  \* call, in the order the graph received them
  queue,          \* object.created events the runtime has not dispatched yet
  exec,           \* the function the runtime thread is in the middle of
  registered,     \* _LOCAL_REGISTRY: the capabilities with a handler
  roles,          \* principals of Identity/Auth and their role
  ceiling,        \* the instance authority ceiling
  promoted,       \* R2 capabilities covered by a promoted standing scope
  decider,        \* history: who moved the call to approved
  runs,           \* history: how often execute_approved_call was entered
  body,           \* history: how often the capability's handler body ran
  crashes

vars == <<status, audit, queue, exec, registered, roles, ceiling, promoted,
          decider, runs, body, crashes>>

Statuses == {"none", "proposed", "policy_checking", "approved", "rejected",
             "executing", "done", "failed"}
AuditRecords == [kind : {"approval", "denial", "result", "source"},
                 by : Refs \cup Agents]
Events ==
       [on : {"capability_call"}, call : Calls, snap : Statuses]
  \cup [on : {"capability_approval"}, call : Calls, snap : {"approved"}]
  \cup [on : {"capability_result"}, call : Calls, snap : {"output", "empty"}]
\* Where the thread is: about to record an approval or a denial, to mark the
\* call executing, to invoke the handler with execution_context, to invoke it
\* again without, to record the result, or to patch the final status.
Frames == [pc : {"approval", "denial", "enter", "invoke", "retry", "record",
                 "finish"},
           call : Calls, by : Refs \cup Agents, ok : BOOLEAN]
Idle == [pc |-> "idle", call |-> NoCall, by |-> Nobody, ok |-> FALSE]
Roles == {"absent", "member", "approver"}

TypeOK ==
  /\ status \in [Calls -> Statuses]
  /\ audit \in [Calls -> Seq(AuditRecords)]
  /\ queue \subseteq Events
  /\ exec \in Frames \cup {Idle}
  /\ registered \subseteq Caps
  /\ roles \in [Refs -> Roles]
  /\ ceiling \in Ceilings
  /\ promoted \subseteq Caps
  /\ decider \in [Calls -> Refs \cup Policy \cup {Nobody}]
  /\ runs \in [Calls -> Nat]
  /\ body \in [Calls -> Nat]
  /\ crashes \in 0..MaxCrashes

Init ==
  /\ status = [c \in Calls |-> "none"]
  /\ audit = [c \in Calls |-> <<>>]
  /\ queue = {}
  /\ exec = Idle
  /\ registered = {}
  /\ roles = [r \in Refs |-> "absent"]
  /\ ceiling = 0
  /\ promoted = {}
  /\ decider = [c \in Calls |-> Nobody]
  /\ runs = [c \in Calls |-> 0]
  /\ body = [c \in Calls |-> 0]
  /\ crashes = 0

-----------------------------------------------------------------------------
(* Policy *)

\* Mutant: the ceilings are not consulted.
ClassGrantsUncapped(k) == ActionClass[k] = R2 => k \in promoted

\* decide_policy_detail, action-class dimension: within both ceilings, and R2
\* only under a promoted standing scope.
ClassGrants(k) ==
  /\ ActionClass[k] < ceiling
  /\ ActionClass[k] < CapCeiling[k]
  /\ ActionClass[k] = R2 => k \in promoted

\* evaluate_call_policy: either dimension grants, unless the call itself asks
\* for an explicit approval.
AutoApproves(c) ==
  /\ c \notin Explicit
  /\ CapOf[c] \in LowRisk \/ ClassGrants(CapOf[c])

\* _verify_approver: anybody while no principal is registered, afterwards only
\* a principal holding an approver role.
Verified(r) ==
  (\E q \in Refs : roles[q] # "absent") => roles[r] = "approver"

\* Mutant: a decided call can be resolved once more.
ResolvableAfterApproval(c) == status[c] \in {"policy_checking", "approved"}
\* Mutant: a denied call can be approved after all.
ResolvableAfterDenial(c) == status[c] \in {"policy_checking", "rejected"}

\* Only a held call can be approved or denied.
Resolvable(c) == status[c] = "policy_checking"

\* Mutant: the idempotency guard is dropped.
StillApprovedAlways(c) == TRUE
\* Mutant: the guard tests the status of a held call.
StillApprovedHeld(c) == status[c] = "policy_checking"

\* call_executor's idempotency guard, on the live object.
StillApproved(c) == status[c] = "approved"

\* Mutant: the enforcer skips the calls it is there for.
UndecidedSkipped(e) == e.snap = "policy_checking"

\* policy_enforcer's guard, on the event's snapshot of the call.
Undecided(e) == e.snap = "proposed"

Enter(pc, c, by, ok) == exec' = [pc |-> pc, call |-> c, by |-> by, ok |-> ok]
SetStatus(c, s) == status' = [status EXCEPT ![c] = s]
Record(c, kind, by) ==
  audit' = [audit EXCEPT ![c] = Append(@, [kind |-> kind, by |-> by])]
Event(on, c, snap) == [on |-> on, call |-> c, snap |-> snap]

-----------------------------------------------------------------------------
(* Calls enter the graph *)

\* A pack, a behavior or the owner adds a capability_call at 'proposed'.
Propose(c) ==
  /\ exec = Idle
  /\ status[c] = "none"
  /\ SetStatus(c, "proposed")
  /\ queue' = queue \cup {Event("capability_call", c, "proposed")}
  /\ UNCHANGED <<audit, exec, registered, roles, ceiling, promoted, decider,
                 runs, body, crashes>>

\* The LLM tool proxy decides first and adds the call with its outcome; a
\* granted call is executed by the proxy itself.  The proxy never sets
\* requires_explicit_approval.
ProxyCall(c) ==
  /\ exec = Idle
  /\ status[c] = "none"
  /\ c \notin Explicit
  /\ \/ /\ AutoApproves(c)
        /\ SetStatus(c, "approved")
        /\ decider' = [decider EXCEPT ![c] = "gateway_llm_proxy"]
        /\ queue' = queue \cup {Event("capability_call", c, "approved")}
        /\ Enter("enter", c, "gateway_llm_proxy", FALSE)
     \/ /\ ~AutoApproves(c)
        /\ SetStatus(c, "policy_checking")
        /\ queue' = queue \cup {Event("capability_call", c, "policy_checking")}
        /\ UNCHANGED <<exec, decider>>
  /\ UNCHANGED <<audit, registered, roles, ceiling, promoted, runs, body,
                 crashes>>

-----------------------------------------------------------------------------
(* Behaviors: the runtime dispatches a queued event to them *)

\* policy_enforcer reads the status of the event's snapshot, not the live one.
PolicyEnforcer(e) ==
  /\ exec = Idle
  /\ e \in queue
  /\ e.on = "capability_call"
  /\ queue' = queue \ {e}
  /\ \/ /\ ~Undecided(e)
        /\ UNCHANGED <<status, exec, decider>>
     \/ /\ Undecided(e)
        /\ AutoApproves(e.call)
        /\ SetStatus(e.call, "approved")
        /\ decider' = [decider EXCEPT ![e.call] = "policy_enforcer"]
        /\ Enter("approval", e.call, "policy_enforcer", FALSE)
     \/ /\ Undecided(e)
        /\ ~AutoApproves(e.call)
        /\ SetStatus(e.call, "policy_checking")
        /\ UNCHANGED <<exec, decider>>
  /\ UNCHANGED <<audit, registered, roles, ceiling, promoted, runs, body,
                 crashes>>

\* call_executor acts only on a call that still sits at 'approved'; its first
\* mutation marks the call executing. Its first guard, for an approval without a
\* call or a capability, lets pass every approval the code writes.
CallExecutor(e) ==
  /\ exec = Idle
  /\ e \in queue
  /\ e.on = "capability_approval"
  /\ queue' = queue \ {e}
  /\ \/ /\ StillApproved(e.call)
        /\ SetStatus(e.call, "executing")
        /\ runs' = [runs EXCEPT ![e.call] = @ + 1]
        /\ Enter("invoke", e.call, "call_executor", FALSE)
     \/ /\ ~StillApproved(e.call)
        /\ UNCHANGED <<status, runs, exec>>
  /\ UNCHANGED <<audit, registered, roles, ceiling, promoted, decider, body,
                 crashes>>

\* result_sourcer turns a result that carries output into a Core source.
ResultSourcer(e) ==
  /\ exec = Idle
  /\ e \in queue
  /\ e.on = "capability_result"
  /\ queue' = queue \ {e}
  /\ IF e.snap = "output" THEN Record(e.call, "source", "result_sourcer")
                          ELSE UNCHANGED audit
  /\ UNCHANGED <<status, exec, registered, roles, ceiling, promoted, decider,
                 runs, body, crashes>>

-----------------------------------------------------------------------------
(* execute_approved_call and execute_capability_fn *)

\* The proxy's run of execute_approved_call: its first mutation.
MarkExecuting ==
  /\ exec.pc = "enter"
  /\ SetStatus(exec.call, "executing")
  /\ runs' = [runs EXCEPT ![exec.call] = @ + 1]
  /\ exec' = [exec EXCEPT !.pc = "invoke"]
  /\ UNCHANGED <<audit, queue, registered, roles, ceiling, promoted, decider,
                 body, crashes>>

\* Without a handler the mock answer is a success.  With one, the handler is
\* called with execution_context: its body runs and it returns or fails, or it
\* raises TypeError, because it does not take the argument (the body does not
\* run) or from inside its body.
InvokeHandler ==
  /\ exec.pc = "invoke"
  /\ IF CapOf[exec.call] \notin registered
       THEN /\ exec' = [exec EXCEPT !.pc = "record", !.ok = TRUE]
            /\ UNCHANGED body
       ELSE \/ /\ body' = [body EXCEPT ![exec.call] = @ + 1]
               /\ \/ \E ok \in BOOLEAN :
                       exec' = [exec EXCEPT !.pc = "record", !.ok = ok]
                  \/ exec' = [exec EXCEPT !.pc = "retry"]
            \/ /\ exec' = [exec EXCEPT !.pc = "retry"]
               /\ UNCHANGED body
  /\ UNCHANGED <<status, audit, queue, registered, roles, ceiling, promoted,
                 decider, runs, crashes>>

\* except TypeError: the handler is called again without execution_context.
\* A handler that requires the argument fails before its body runs.
InvokeAgain ==
  /\ exec.pc = "retry"
  /\ \/ /\ body' = [body EXCEPT ![exec.call] = @ + 1]
        /\ \E ok \in BOOLEAN :
             exec' = [exec EXCEPT !.pc = "record", !.ok = ok]
     \/ /\ exec' = [exec EXCEPT !.pc = "record", !.ok = FALSE]
        /\ UNCHANGED body
  /\ UNCHANGED <<status, audit, queue, registered, roles, ceiling, promoted,
                 decider, runs, crashes>>

\* A failed call has no output; a successful one may return an empty string.
RecordResult ==
  /\ exec.pc = "record"
  /\ Record(exec.call, "result", exec.by)
  /\ \E snap \in IF exec.ok THEN {"output", "empty"} ELSE {"empty"} :
       queue' = queue \cup {Event("capability_result", exec.call, snap)}
  /\ exec' = [exec EXCEPT !.pc = "finish"]
  /\ UNCHANGED <<status, registered, roles, ceiling, promoted, decider, runs,
                 body, crashes>>

\* Mutant: the proxy never records its approval.
AfterFinishForgets == Idle

\* The proxy goes on to record the approval it acted on.
AfterFinish ==
  IF exec.by = "gateway_llm_proxy" THEN [exec EXCEPT !.pc = "approval"] ELSE Idle

\* Mutant: a status outside the schema.
FinalStatusUnknown == IF exec.ok THEN "done" ELSE "error"

FinalStatus == IF exec.ok THEN "done" ELSE "failed"

\* The final patch.
FinishCall ==
  /\ exec.pc = "finish"
  /\ SetStatus(exec.call, FinalStatus)
  /\ exec' = AfterFinish
  /\ UNCHANGED <<audit, queue, registered, roles, ceiling, promoted, decider,
                 runs, body, crashes>>

-----------------------------------------------------------------------------
(* Approval resolution *)

ApproveCapability(c, r) ==
  /\ exec = Idle
  /\ Resolvable(c)
  /\ Verified(r)
  /\ SetStatus(c, "approved")
  /\ decider' = [decider EXCEPT ![c] = r]
  /\ Enter("approval", c, r, FALSE)
  /\ UNCHANGED <<audit, queue, registered, roles, ceiling, promoted, runs,
                 body, crashes>>

DenyCapability(c, r) ==
  /\ exec = Idle
  /\ Resolvable(c)
  /\ Verified(r)
  /\ SetStatus(c, "rejected")
  /\ Enter("denial", c, r, FALSE)
  /\ UNCHANGED <<audit, queue, registered, roles, ceiling, promoted, decider,
                 runs, body, crashes>>

\* The approval object, written by approve_capability_fn, policy_enforcer and,
\* after its execution, the LLM proxy; its creation event fires call_executor.
AddApproval ==
  /\ exec.pc = "approval"
  /\ Record(exec.call, "approval", exec.by)
  /\ queue' = queue \cup {Event("capability_approval", exec.call, "approved")}
  /\ exec' = Idle
  /\ UNCHANGED <<status, registered, roles, ceiling, promoted, decider, runs,
                 body, crashes>>

AddDenial ==
  /\ exec.pc = "denial"
  /\ Record(exec.call, "denial", exec.by)
  /\ exec' = Idle
  /\ UNCHANGED <<status, queue, registered, roles, ceiling, promoted, decider,
                 runs, body, crashes>>

-----------------------------------------------------------------------------
(* The surroundings *)

\* register_local_capability, at boot or when a pack is loaded.
RegisterCapability(k) ==
  /\ exec = Idle
  /\ k \notin registered
  /\ registered' = registered \cup {k}
  /\ UNCHANGED <<status, audit, queue, exec, roles, ceiling, promoted, decider,
                 runs, body, crashes>>

\* Identity/Auth registers a principal or changes its role.
SetRole(r, role) ==
  /\ exec = Idle
  /\ role # "absent"
  /\ roles' = [roles EXCEPT ![r] = role]
  /\ UNCHANGED <<status, audit, queue, exec, registered, ceiling, promoted,
                 decider, runs, body, crashes>>

\* The owner moves the instance authority ceiling.
SetAuthorityCeiling(n) ==
  /\ exec = Idle
  /\ ceiling' = n
  /\ UNCHANGED <<status, audit, queue, exec, registered, roles, promoted,
                 decider, runs, body, crashes>>

\* A standing scope is promoted, demoted or disabled (module StandingScope).
StandingScopeChange(k) ==
  /\ exec = Idle
  /\ ActionClass[k] = R2
  /\ promoted' = IF k \in promoted THEN promoted \ {k} ELSE promoted \cup {k}
  /\ UNCHANGED <<status, audit, queue, exec, registered, roles, ceiling,
                 decider, runs, body, crashes>>

\* The process dies and Runtime.load rebuilds the objects from the event log
\* without firing a behavior.
CrashRestart ==
  /\ crashes < MaxCrashes
  /\ crashes' = crashes + 1
  /\ queue' = {}
  /\ exec' = Idle
  /\ registered' = {}
  /\ UNCHANGED <<status, audit, roles, ceiling, promoted, decider, runs, body>>

-----------------------------------------------------------------------------

\* What the runtime thread does next of its own accord.
ExecutionStep ==
  \/ MarkExecuting \/ InvokeHandler \/ InvokeAgain \/ RecordResult
  \/ FinishCall \/ AddApproval \/ AddDenial
Dispatch ==
  \E e \in queue : PolicyEnforcer(e) \/ CallExecutor(e) \/ ResultSourcer(e)
RuntimeStep == ExecutionStep \/ Dispatch

Resolve ==
  \E c \in Calls, r \in Refs : ApproveCapability(c, r) \/ DenyCapability(c, r)
Surroundings ==
  \/ \E k \in Caps : RegisterCapability(k) \/ StandingScopeChange(k)
  \/ \E r \in Refs, role \in Roles : SetRole(r, role)
  \/ \E n \in OwnerCeilings : SetAuthorityCeiling(n)

Next ==
  \/ \E c \in Calls : Propose(c) \/ ProxyCall(c)
  \/ RuntimeStep
  \/ Resolve
  \/ Surroundings
  \/ CrashRestart

Spec == Init /\ [][Next]_vars

\* Every writer settles the runtime (run_until_idle) before it returns, so the
\* thread never rests with work in hand.
FairSpec == Spec /\ WF_vars(RuntimeStep)

-----------------------------------------------------------------------------
(* Properties *)

Ran(c) == runs[c] > 0
Has(c, kind) == \E i \in 1..Len(audit[c]) : audit[c][i].kind = kind
HumanApproved(c) ==
  \E i \in 1..Len(audit[c]) :
    audit[c][i].kind = "approval" /\ audit[c][i].by \in Refs

\* No configuration of the ceilings or the scopes grants these calls.
NeverAutomatic(c) ==
  c \in Explicit \/ (CapOf[c] \notin LowRisk /\ ActionClass[CapOf[c]] > R2)

\* A call enters execution at most once, whatever approvals, queued events and
\* restarts it lives through, and a refused call never does (call_executor's
\* idempotency guard together with the status checks of the approval API).
RunAtMostOnce ==
  \A c \in Calls : runs[c] <= 1 /\ (status[c] = "rejected" => ~Ran(c))

\* A call that no policy dimension may grant runs only after a human's approval
\* object is in the graph: neither the proxy, nor a queued event, nor a ceiling
\* raised meanwhile executes it (evaluate_call_policy, approve_capability_fn).
HighConsequenceNeedsHuman ==
  \A c \in Calls : NeverAutomatic(c) /\ Ran(c) => HumanApproved(c)

\* The audit trail of a call is a beginning of one of three stories: approved
\* and then executed by call_executor, executed by the proxy and then approved
\* by it, or denied; the approval names the one who decided.  No trail holds
\* two decisions, two results, or a result of a denied call, after any crash.
AuditTrailLegal ==
  LET R(kind, by) == [kind |-> kind, by |-> by]
      Source == R("source", "result_sourcer")
      Stories(c) ==
        {<<R("approval", decider[c]), R("result", "call_executor"), Source>>,
         <<R("result", "gateway_llm_proxy"), R("approval", decider[c]),
           Source>>}
        \cup {<<R("denial", r)>> : r \in Refs}
  IN \A c \in Calls : \E story \in Stories(c) :
       /\ Len(audit[c]) <= Len(story)
       /\ audit[c] = SubSeq(story, 1, Len(audit[c]))

\* When the runtime has settled and never crashed, no call is left between two
\* statuses and every ended call has its complete audit trail: a decision for
\* each rejected, a decision and a result for each executed call.
SettledCallsAreComplete ==
  (exec = Idle /\ queue = {} /\ crashes = 0) =>
    \A c \in Calls :
      /\ status[c] \in {"none", "policy_checking", "rejected", "done", "failed"}
      /\ status[c] = "rejected" => Has(c, "denial")
      /\ status[c] \in {"done", "failed"} =>
           Has(c, "approval") /\ Has(c, "result")

\* The promise of the gateway, module GovernedCall.
Phase(s) ==
  CASE s = "none" -> "unknown"
    [] s \in {"proposed", "policy_checking"} -> "waiting"
    [] s = "approved" -> "granted"
    [] s = "executing" -> "running"
    [] s \in {"done", "failed"} -> "finished"
    [] s = "rejected" -> "refused"

CallPhases == [c \in Calls |-> Phase(status[c])]

Governed == INSTANCE GovernedCall WITH
  phase <- CallPhases,
  authority <- decider,
  Automatic <- {c \in Calls : ~NeverAutomatic(c)},
  Owners <- Refs

\* Every step of the gateway, crashes included, is a step of GovernedCall or
\* leaves its state alone: grants come from a human or, for an automatic call,
\* from a policy; only a granted call runs; a refusal is final.
ImplementsGovernedCall == Governed!Spec

\* As long as the process lives every approved call is executed to its end
\* (approve_capability_fn: "call_executor picks it up on the next settle").
ApprovedCallsFinish ==
  \A c \in Calls :
    status[c] = "approved" ~> (status[c] \in {"done", "failed"} \/ crashes > 0)

\* As long as the process lives every proposed call is decided or held.
ProposedCallsAreDecided ==
  \A c \in Calls : status[c] = "proposed" ~> (status[c] # "proposed" \/ crashes > 0)

-----------------------------------------------------------------------------
(* What the documentation says and the code does not do *)

\* behaviors.py: "One approval -> at most one execution."  A handler that
\* raises TypeError from inside its body is run a second time.
HandlerBodyRunsOnce == \A c \in Calls : body[c] <= 1
=================================================================================
