----------------------------- MODULE StandingScope -----------------------------
(***************************************************************************)
(* packs/tool_gateway/standing_scopes.py: how a capability earns a standing *)
(* scope (a promoted tool_policy) from predictions that agreed with the     *)
(* owner's verdicts, and how it loses it.                                   *)
(*                                                                          *)
(* Each function first emits its tool_policy.* event and then patches the   *)
(* tool_policy object: two mutations with a crash window between them.      *)
(* The evidence is a LIST its caller supplies: the same pair may be listed   *)
(* many times, a pair may be about another scope, and whether it agreed is   *)
(* what the caller's two verdict strings say. The event log is its length:   *)
(* _validate_pairs reads only the positions its references resolve to.       *)
(***************************************************************************)
EXTENDS Naturals, Sequences, FiniteSets

CONSTANTS
  Scopes,         \* scope keys "action_class|capability_key"
  ClassOf,        \* [Scopes -> 0..4]: the scope's action class R0..R4
  Owners,         \* approver references the gateway verifies
  Nobody,         \* no approver
  MinPredictions, \* STANDING_SCOPE_RULES: min_predictions (8 in the code)
  MinAccuracy,    \* STANDING_SCOPE_RULES: min_accuracy_percent (90)
  MaxEvents,      \* bound on the recorded events a pair may cite
  MaxEvidence,    \* bound on the length of an evidence list
  MaxVersion,     \* bound on policy_version
  MaxPromotions,  \* bound on the promotions of one scope
  MaxCrashes      \* bound on crashes

ASSUME StandingScopeAssumption ==
  /\ ClassOf \in [Scopes -> 0..4]
  /\ Nobody \notin Owners
  /\ MinPredictions \in Nat \ {0}
  /\ MinAccuracy \in 0..100
  /\ MaxEvents \in Nat
  /\ MaxEvidence \in Nat
  /\ MaxVersion \in Nat
  /\ MaxPromotions \in Nat
  /\ MaxCrashes \in Nat

VARIABLES
  log,            \* number of recorded events a pair may cite
  policy,         \* [Scopes -> Policies]: the tool_policy object of a scope
  announced,      \* [Scopes -> Kinds]: the scope's latest tool_policy.* event
  patch,          \* the patch the running function has announced, or NoPatch
  verdicts,       \* reliability.changed events not dispatched yet
  history,        \* [Scopes -> Seq(Promotions)]: its tool_policy.promoted events
  crashes

vars == <<log, policy, announced, patch, verdicts, history, crashes>>

\* One listed pair: the log positions of prediction_ref and decided_ref, and
\* pair_matched of its predicted and actual verdicts.
Entries == [prediction : 1..MaxEvents, decided : 1..MaxEvents, agrees : BOOLEAN]
Evidences == [pairs : Seq(Entries), count : Nat, accuracy : Nat]
Policies == [status : {"absent", "candidate", "promoted", "demoted", "disabled"},
             version : 0..MaxVersion, evidence : Evidences]
NoEvidence == [pairs |-> <<>>, count |-> 0, accuracy |-> 0]
Absent == [status |-> "absent", version |-> 0, evidence |-> NoEvidence]
Kinds == {"none", "proposed", "promoted", "demoted", "disabled"}
Patches == [scope : Scopes, to : Policies]
NoPatch == [scope |-> Nobody, to |-> Absent]
Promotions == [version : 0..MaxVersion,
               prior : {"candidate", "demoted"}, by : Owners]
Verdicts == {"weak", "supported", "harmful", "stale"}

TypeOK ==
  /\ log \in 0..MaxEvents
  /\ policy \in [Scopes -> Policies]
  /\ announced \in [Scopes -> Kinds]
  /\ patch \in Patches \cup {NoPatch}
  /\ verdicts \subseteq [scope : Scopes, verdict : Verdicts]
  /\ history \in [Scopes -> Seq(Promotions)]
  /\ crashes \in 0..MaxCrashes

Init ==
  /\ log = 0
  /\ policy = [s \in Scopes |-> Absent]
  /\ announced = [s \in Scopes |-> "none"]
  /\ patch = NoPatch
  /\ verdicts = {}
  /\ history = [s \in Scopes |-> <<>>]
  /\ crashes = 0

-----------------------------------------------------------------------------
(* Evidence *)

\* accuracy_percent: matches * 100 // total, over the list as it was given.
AccuracyPercent(E) ==
  IF E = <<>> THEN 0
  ELSE (Cardinality({k \in 1..Len(E) : E[k].agrees}) * 100) \div Len(E)

\* Mutant: the order of prediction and decision is not checked.
ValidPairsUnordered(E) ==
  \A k \in 1..Len(E) : E[k].prediction <= log /\ E[k].decided <= log

\* _validate_pairs: both references resolve and the prediction comes first.
ValidPairs(E) ==
  \A k \in 1..Len(E) :
    /\ E[k].prediction <= log /\ E[k].decided <= log
    /\ E[k].prediction < E[k].decided

\* The evidence a candidate stores: the list and what was computed from it.
EvidenceOf(E) ==
  [pairs |-> E, count |-> Len(E), accuracy |-> AccuracyPercent(E)]

\* The earning rule: at the proposal on what it computed, at the promotion on
\* the numbers the tool_policy stores.
MeetsThresholds(e) ==
  /\ e.count >= MinPredictions
  /\ e.accuracy >= MinAccuracy

\* The product records an event: a prediction, a decision or anything else.
RecordEvent ==
  /\ patch = NoPatch
  /\ log < MaxEvents
  /\ log' = log + 1
  /\ UNCHANGED <<policy, announced, patch, verdicts, history, crashes>>

-----------------------------------------------------------------------------
(* The four functions: announce, then patch *)

Announce(s, kind, to) ==
  /\ announced' = [announced EXCEPT ![s] = kind]
  /\ patch' = [scope |-> s, to |-> to]

\* Mutants: the event's name is stored as the status; a proposal restores the
\* grant.
CandidateProposed(s, E) ==
  [status |-> "proposed", version |-> policy[s].version + 1,
   evidence |-> EvidenceOf(E)]
CandidatePromoted(s, E) ==
  [status |-> "promoted", version |-> policy[s].version + 1,
   evidence |-> EvidenceOf(E)]

\* The next version of a scope (version 1 of a new one), on fresh evidence.
Candidate(s, E) ==
  [status |-> "candidate", version |-> policy[s].version + 1,
   evidence |-> EvidenceOf(E)]

\* Mutant: a disabled scope can be promoted directly.
PromotableDisabled(s) == policy[s].status \notin {"absent", "promoted"}

\* promote_tool_policy_fn returns early for a promoted scope and refuses an
\* unknown or a disabled one.
Promotable(s) == policy[s].status \notin {"absent", "promoted", "disabled"}

\* An absent scope starts at version 1, a demoted or disabled one at the next
\* version; an open candidate and a promoted scope are left alone.
ProposeStandingScope(s, E) ==
  /\ patch = NoPatch
  /\ ClassOf[s] <= 2
  /\ ValidPairs(E)
  /\ MeetsThresholds(EvidenceOf(E))
  /\ policy[s].status \in {"absent", "demoted", "disabled"}
  /\ policy[s].version < MaxVersion
  /\ Announce(s, "proposed", Candidate(s, E))
  /\ UNCHANGED <<log, policy, verdicts, history, crashes>>

\* Refused for a disabled scope; the thresholds are re-checked against the
\* stored count and accuracy, not against the list.
PromoteToolPolicy(s, owner) ==
  /\ patch = NoPatch
  /\ Promotable(s)
  /\ Len(history[s]) < MaxPromotions
  /\ MeetsThresholds(policy[s].evidence)
  /\ Announce(s, "promoted", [policy[s] EXCEPT !.status = "promoted"])
  /\ history' = [history EXCEPT ![s] =
       Append(@, [version |-> policy[s].version, prior |-> policy[s].status,
                  by |-> owner])]
  /\ UNCHANGED <<log, policy, verdicts, crashes>>

\* Called by the product on degraded accuracy, and by the guard below.
DemoteToolPolicy(s) ==
  /\ patch = NoPatch
  /\ policy[s].status = "promoted"
  /\ Announce(s, "demoted", [policy[s] EXCEPT !.status = "demoted"])
  /\ UNCHANGED <<log, policy, verdicts, history, crashes>>

DisableToolPolicy(s) ==
  /\ patch = NoPatch
  /\ policy[s].status \notin {"absent", "disabled"}
  /\ Announce(s, "disabled", [policy[s] EXCEPT !.status = "disabled"])
  /\ UNCHANGED <<log, policy, verdicts, history, crashes>>

\* Mutant: the patch is lost.
ApplyPatchLost ==
  /\ patch # NoPatch
  /\ patch' = NoPatch
  /\ UNCHANGED <<log, policy, announced, verdicts, history, crashes>>

ApplyPatch ==
  /\ patch # NoPatch
  /\ policy' = [policy EXCEPT ![patch.scope] = patch.to]
  /\ patch' = NoPatch
  /\ UNCHANGED <<log, announced, verdicts, history, crashes>>

-----------------------------------------------------------------------------
(* Reliability *)

\* eval_outcome emits reliability.changed for a tool_policy.
ReliabilityChanged(s, verdict) ==
  /\ patch = NoPatch
  /\ policy[s].status # "absent"
  /\ verdicts' = verdicts \cup {[scope |-> s, verdict |-> verdict]}
  /\ UNCHANGED <<log, policy, announced, patch, history, crashes>>

\* Mutant: a stale verdict is tolerated.
BadHarmfulOnly == {"harmful"}

BadVerdicts == {"harmful", "stale"}

\* tool_policy_reliability_guard demotes on a bad verdict; a good one is
\* ignored, whatever the status.
ReliabilityGuard(e) ==
  /\ patch = NoPatch
  /\ e \in verdicts
  /\ verdicts' = verdicts \ {e}
  /\ IF e.verdict \in BadVerdicts /\ policy[e.scope].status = "promoted"
       THEN Announce(e.scope, "demoted",
                     [policy[e.scope] EXCEPT !.status = "demoted"])
       ELSE UNCHANGED <<announced, patch>>
  /\ UNCHANGED <<log, policy, history, crashes>>

\* The event log survives, the queue and the running function do not.
CrashRestart ==
  /\ crashes < MaxCrashes
  /\ crashes' = crashes + 1
  /\ patch' = NoPatch
  /\ verdicts' = {}
  /\ UNCHANGED <<log, policy, announced, history>>

-----------------------------------------------------------------------------

Governance ==
  \E s \in Scopes :
    \/ \E n \in 0..MaxEvidence :
         \E E \in [1..n -> Entries] : ProposeStandingScope(s, E)
    \/ \E owner \in Owners : PromoteToolPolicy(s, owner)
    \/ DemoteToolPolicy(s)
    \/ DisableToolPolicy(s)
    \/ \E verdict \in Verdicts : ReliabilityChanged(s, verdict)
RuntimeStep == ApplyPatch \/ \E e \in verdicts : ReliabilityGuard(e)

Next == RecordEvent \/ Governance \/ RuntimeStep \/ CrashRestart

Spec == Init /\ [][Next]_vars

\* The runtime finishes the function it runs and drains its queue in order, so
\* no queued event is overtaken forever by later ones.
FairSpec ==
  /\ Spec
  /\ WF_vars(ApplyPatch)
  /\ \A s \in Scopes, v \in {"harmful", "stale"} :
       SF_vars(ReliabilityGuard([scope |-> s, verdict |-> v]))

-----------------------------------------------------------------------------
(* Properties *)

\* A promoted scope lies within R0-R2 and stands on the list it was proposed
\* with: every listed prediction precedes its decision in the log, and the count
\* and the accuracy, computed again from that list, still meet the rule, whatever
\* was recorded, demoted, disabled or proposed since. The rule counts list
\* entries and believes their verdicts: a pair listed eight times counts eight
\* times (_validate_pairs, accuracy_percent, the re-check in
\* promote_tool_policy_fn, which reads the stored numbers).
PromotedScopesAreEarned ==
  \A s \in Scopes : policy[s].status = "promoted" =>
    LET E == policy[s].evidence.pairs IN
      /\ ClassOf[s] <= 2
      /\ \A k \in 1..Len(E) : E[k].prediction < E[k].decided /\ E[k].decided <= log
      /\ Len(E) >= MinPredictions
      /\ AccuracyPercent(E) >= MinAccuracy

\* "Nothing promotes silently": a promoted scope's version was announced with
\* the approver who promoted it; neither a proposal, a recovered reliability
\* verdict nor a restart restores a grant.
PromotionIsNeverSilent ==
  \A s \in Scopes : policy[s].status = "promoted" =>
    \E i \in 1..Len(history[s]) : history[s][i].version = policy[s].version

\* disable_tool_policy_fn: a disabled scope moves only to the candidate of a
\* later version, so it is promoted again only on a fresh proposal.
DisabledNeedsFreshProposal ==
  [][\A s \in Scopes :
       policy[s].status = "disabled" /\ policy'[s] # policy[s] =>
         /\ policy'[s].status = "candidate"
         /\ policy'[s].version = policy[s].version + 1]_vars

\* Without a crash the tool_policy object is where its latest event says.
EventsMatchStatus ==
  (crashes = 0 /\ patch = NoPatch) =>
    \A s \in Scopes :
      CASE announced[s] = "none" -> policy[s].status = "absent"
        [] announced[s] = "proposed" -> policy[s].status = "candidate"
        [] OTHER -> policy[s].status = announced[s]

\* Unless the process crashes, a bad reliability verdict the runtime has queued
\* ends the grant.
BadVerdictEndsGrant ==
  \A s \in Scopes :
    (\E v \in {"harmful", "stale"} : [scope |-> s, verdict |-> v] \in verdicts)
      ~> policy[s].status # "promoted" \/ crashes > 0

-----------------------------------------------------------------------------
(* What the documentation says and the code does not do *)

\* behaviors.py, tool_policy_reliability_guard: "Re-promotion of an automation
\* grant always takes a fresh proposal plus explicit owner approval".
\* promote_tool_policy_fn accepts a demoted scope with its old evidence.
RepromotionTakesFreshProposal ==
  \A s \in Scopes : \A i \in 1..Len(history[s]) :
    history[s][i].prior = "candidate"
=================================================================================
