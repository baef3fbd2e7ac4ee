------------------------------- MODULE Reliability -------------------------------
(***************************************************************************)
(* From outcomes to eligibility: packs/eval_outcome (outcomes, the projected  *)
(* reliability of an artifact), packs/memory_gateway/promotion (promotion and *)
(* demotion of memory items, by proposal and approval) and packs/skills       *)
(* (promotion by evidence, demotion and recovery by reliability).             *)
(*                                                                          *)
(* One thread runs everything.  A call of the host or of a tool falls between *)
(* two deliveries: several outcomes may be recorded before the queue is       *)
(* drained.  `queue' holds the deliveries in order, `exec' the function in    *)
(* progress; a crash between two mutations loses both, the objects stay.      *)
(* Events that nothing listens to (memory.promoted, skill.demoted, ...) and   *)
(* the outcome summary of a skill are left out; so is a crash between an event *)
(* and the patch of the same behavior, which loses as much as one before both. *)
(***************************************************************************)
EXTENDS Naturals, Sequences, FiniteSets

CONSTANTS
  Items,          \* memory_item objects
  Skills,         \* skill objects (versions)
  Identities,     \* version identities: an outcome may name a version by its own
  VersionIdentity,  \* the identity a skill carries, shared by spellings of its name
  Revisions,      \* revisions and versions a maintenance outcome may cite
  MaxOutcomes,    \* bound on calls that record outcomes
  MaxCalls,       \* bound on resolutions and calls about skills
  MaxCrashes      \* bound on crashes

ASSUME ReliabilityAssumption ==
  /\ Items \cap (Skills \cup Identities) = {} /\ Skills \cap Identities = {}
  /\ VersionIdentity \in [Skills -> Identities]
  /\ Revisions \subseteq Nat \ {0}
  /\ {MaxOutcomes, MaxCalls, MaxCrashes} \subseteq Nat

Artifacts == Items \cup Skills \cup Identities
Terminal == {"helped", "hurt", "neutral"}
Maintenance == {"contradicted", "stale", "superseded"}
Kinds == Terminal \cup Maintenance
Verdicts == {"supported", "harmful", "stale", "weak"}
Unfit == {"harmful", "stale"}
\* Of the kinds of evidence the code tells only owner_approval apart.
Evidence == [kind : {"verification", "owner_approval"}, accepted : BOOLEAN]
MinHelped == 2

VARIABLES
  evaluations,    \* evaluation objects: the artifact each of them judges
  records,        \* outcome_record objects
  reliability,    \* artifact_reliability: tally of helped, current verdict
  latest,         \* of the projections of a skill and its identity, the newer one
  items,          \* promotion_status and applied verdict of every item
  proposals,      \* memory_promotion_proposal objects
  skills,         \* status and metadata.demoted_by_reliability
  proof,          \* skill_promotion_evidence recorded for a skill
  queue,          \* deliveries not yet made, in order
  exec,           \* the function in progress
  budget          \* what is left of the bounds

vars == <<evaluations, records, reliability, latest, items, proposals, skills, proof,
          queue, exec, budget>>

Record ==
  [kind : Kinds, artifact : Artifacts, evaluation : Nat, subject : Nat]
Idle == [pc |-> "idle"]
Emitting(r, then) == [pc |-> "emit", record |-> r, then |-> then]

\* What is delivered, and what may be in progress.
Captures ==
  [to : {"evaluation_outcome_capture"}, evaluation : Nat, kind : Kinds, subject : Nat]
Announcements ==
  [to : {"artifact_reliability_projector"}, artifact : Artifacts, kind : Kinds]
Changes ==
  [to : {"memory_reliability_applier", "memory_promotion_proposer",
         "skill_reliability_eligibility"},
   artifact : Artifacts, verdict : Verdicts, helped : Nat]
Recordings ==
  [pc : {"emit", "record"}, record : Record, then : Terminal \cup {"none"}]
Resolutions == [pc : {"item", "proposal"}, proposal : Nat]

TypeOK ==
  /\ evaluations \in Seq(Artifacts)
  /\ records \subseteq Record
  /\ reliability \in [Artifacts -> [helped : Nat, verdict : Verdicts \cup {"none"}]]
  /\ latest \in [Skills -> Artifacts]
  /\ items \in [Items -> [status : {"admitted", "promoted", "demoted"},
                          verdict : Verdicts \cup {"none"}]]
  /\ proposals \in Seq([item : Items, direction : {"promote", "demote"},
                        status : {"proposed", "approved", "rejected"},
                        found : Verdicts \cup {"none"}])
  /\ skills \in [Skills -> [status : {"candidate", "promoted", "demoted", "disabled"},
                            recovers : BOOLEAN]]
  /\ proof \in [Skills -> SUBSET Evidence]
  /\ queue \in Seq(Captures \cup Announcements \cup Changes)
  /\ exec \in {Idle} \cup Recordings \cup Resolutions
  /\ budget \in [outcomes : Nat, calls : Nat, crashes : Nat]

Init ==
  /\ evaluations = <<>> /\ records = {} /\ proposals = <<>> /\ queue = <<>>
  /\ reliability = [a \in Artifacts |-> [helped |-> 0, verdict |-> "none"]]
  /\ latest = [s \in Skills |-> s]
  /\ items = [i \in Items |-> [status |-> "admitted", verdict |-> "none"]]
  /\ skills = [s \in Skills |-> [status |-> "candidate", recovers |-> FALSE]]
  /\ proof = [s \in Skills |-> {}]
  /\ exec = Idle
  /\ budget = [outcomes |-> MaxOutcomes, calls |-> MaxCalls, crashes |-> MaxCrashes]

Spend(b) == budget[b] > 0 /\ budget' = [budget EXCEPT ![b] = @ - 1]
Ready == exec = Idle
Quiet == Ready /\ queue = <<>>
Fires(behavior) == Ready /\ queue # <<>> /\ Head(queue).to = behavior

-----------------------------------------------------------------------------
(* Outcomes: packs/eval_outcome/tools.py *)

\* _terminal_record: an evaluation has at most one terminal outcome.
Judged(e) == \E r \in records : r.kind \in Terminal /\ r.evaluation = e

NewEvaluation == Len(evaluations) + 1
TerminalRecord(kind, a, e) ==
  [kind |-> kind, artifact |-> a, evaluation |-> e, subject |-> 0]
Capture(e, kind, subject) ==
  [to |-> "evaluation_outcome_capture", evaluation |-> e, kind |-> kind,
   subject |-> subject]

\* record_explicit_verdict_fn on an artifact: a new evaluation, then its outcome.
ExplicitVerdict(a, kind) ==
  /\ Ready
  /\ Spend("outcomes")
  /\ evaluations' = Append(evaluations, a)
  /\ queue' = Append(queue, Capture(NewEvaluation, kind, 0))
  /\ exec' = Emitting(TerminalRecord(kind, a, NewEvaluation), "none")
  /\ UNCHANGED <<records, reliability, latest, items, proposals, skills,
                 proof>>

\* record_explicit_verdict_fn on a given evaluation: the same value again is
\* ignored, another one refused.
VerdictOn(e, kind) ==
  /\ Ready
  /\ Spend("outcomes")
  /\ ~Judged(e)
  /\ exec' = Emitting(TerminalRecord(kind, evaluations[e], e), "none")
  /\ UNCHANGED <<evaluations, records, reliability, latest, items, proposals,
                 skills, proof, queue>>

\* An evaluation of a task, a capability result or a skill usage, on behalf of the
\* artifact its metadata names; or one of an item by the memory layer, which only
\* contradicts.
Judge(a, kind, revision) ==
  /\ Ready
  /\ Spend("outcomes")
  /\ \/ kind \in Terminal /\ revision = 0
     \/ a \in Items /\ kind = "contradicted" /\ revision \in Revisions
  /\ evaluations' = Append(evaluations, a)
  /\ queue' = Append(queue, Capture(NewEvaluation, kind, revision))
  /\ UNCHANGED <<records, reliability, latest, items, proposals, skills, proof,
                 exec>>

\* The contribution key of a maintenance outcome; the replacement of an evaluation,
\* recorded as its superseding version, is the version of nothing else.
Contributed(a, kind, subject) ==
  \E r \in records : /\ r.artifact = a /\ r.kind = kind /\ r.subject = subject
                     /\ kind = "superseded" => r.evaluation = 0

\* record_maintenance_outcome_fn
MaintenanceOutcome(a, kind, revision) ==
  /\ Ready
  /\ Spend("outcomes")
  /\ ~Contributed(a, kind, revision)
  /\ exec' = Emitting([kind |-> kind, artifact |-> a, evaluation |-> 0,
                       subject |-> revision], "none")
  /\ UNCHANGED <<evaluations, records, reliability, latest, items, proposals,
                 skills, proof, queue>>

\* supersede_evaluation_fn: a replacement, the supersession, then its own outcome.
\* Nothing captures an evaluation of an evaluation.
SupersedeEvaluation(e, kind) ==
  /\ Ready
  /\ Spend("outcomes")
  /\ Judged(e)
  /\ evaluations' = Append(evaluations, evaluations[e])
  /\ exec' = Emitting([kind |-> "superseded", artifact |-> evaluations[e],
                       evaluation |-> e, subject |-> NewEvaluation], kind)
  /\ UNCHANGED <<records, reliability, latest, items, proposals, skills, proof,
                 queue>>

\* The event, heard by the projector ...
EmitOutcome ==
  /\ exec.pc = "emit"
  /\ queue' = Append(queue, [to |-> "artifact_reliability_projector",
                             artifact |-> exec.record.artifact,
                             kind |-> exec.record.kind])
  /\ exec' = [exec EXCEPT !.pc = "record"]
  /\ UNCHANGED <<evaluations, records, reliability, latest, items, proposals,
                 skills, proof, budget>>

\* ... and its outcome_record.
AddRecord ==
  LET r == exec.record IN
  /\ exec.pc = "record"
  /\ records' = records \cup {r}
  /\ exec' = IF exec.then = "none" THEN Idle
             ELSE Emitting(TerminalRecord(exec.then, r.artifact, r.subject), "none")
  /\ UNCHANGED <<evaluations, reliability, latest, items, proposals, skills,
                 proof, queue, budget>>

-----------------------------------------------------------------------------
(* The behaviors on evaluations and outcomes: packs/eval_outcome/behaviors.py *)

\* An explicit verdict, when it is captured at all, is recorded already.
EvaluationOutcomeCapture ==
  LET d == Head(queue)
      a == evaluations[d.evaluation]
      fresh == IF d.kind \in Terminal THEN ~Judged(d.evaluation)
               ELSE ~Contributed(a, d.kind, d.subject)
  IN /\ Fires("evaluation_outcome_capture")
     /\ queue' = Tail(queue)
     /\ exec' = IF ~fresh THEN Idle
                ELSE Emitting([kind |-> d.kind, artifact |-> a,
                               evaluation |-> d.evaluation, subject |-> d.subject],
                              "none")
     /\ UNCHANGED <<evaluations, records, reliability, latest, items,
                    proposals, skills, proof, budget>>

\* Mutant: a neutral outcome leaves no verdict.
VerdictUnsettled(kind) ==
  CASE kind = "helped" -> "supported"
    [] kind \in {"hurt", "contradicted"} -> "harmful"
    [] kind \in {"stale", "superseded"} -> "stale"
    [] kind = "neutral" -> "none"
\* _verdict_and_multiplier: the latest outcome decides.
Verdict(kind) ==
  CASE kind = "helped" -> "supported"
    [] kind \in {"hurt", "contradicted"} -> "harmful"
    [] kind \in {"stale", "superseded"} -> "stale"
    [] kind = "neutral" -> "weak"

Tally(helped, kind) == IF kind = "helped" THEN helped + 1 ELSE helped

HeardBy(a) ==
  IF a \in Items THEN <<"memory_reliability_applier", "memory_promotion_proposer">>
  ELSE <<"skill_reliability_eligibility">>

\* The projection is made or patched, reliability.changed goes out with its value.
ArtifactReliabilityProjector ==
  LET d == Head(queue)
      a == d.artifact
      new == [helped |-> Tally(reliability[a].helped, d.kind),
              verdict |-> Verdict(d.kind)]
  IN /\ Fires("artifact_reliability_projector")
     /\ reliability' = [reliability EXCEPT ![a] = new]
     /\ latest' = [s \in Skills |->
                     IF reliability[a].verdict = "none" /\ a \in {s, VersionIdentity[s]}
                     THEN a ELSE latest[s]]
     /\ queue' = Tail(queue) \o
          [k \in 1..Len(HeardBy(a)) |->
             [to |-> HeardBy(a)[k], artifact |-> a, verdict |-> new.verdict,
              helped |-> new.helped]]
     /\ UNCHANGED <<evaluations, records, items, proposals, skills, proof,
                    exec, budget>>

-----------------------------------------------------------------------------
(* Memory items: packs/memory_gateway *)

MemoryReliabilityApplier ==
  LET d == Head(queue) IN
  /\ Fires("memory_reliability_applier")
  /\ items' = [items EXCEPT ![d.artifact].verdict = d.verdict]
  /\ queue' = Tail(queue)
  /\ UNCHANGED <<evaluations, records, reliability, latest, proposals, skills,
                 proof, exec, budget>>

Open(i, direction) ==
  {p \in 1..Len(proposals) : /\ proposals[p].item = i
                             /\ proposals[p].direction = direction
                             /\ proposals[p].status = "proposed"}

\* Mutant: one helped outcome earns a promotion.
EarnsSingle(i, d) ==
  /\ d.verdict = "supported" /\ d.helped >= 1
  /\ items[i].status # "promoted" /\ Open(i, "promote") = {}
EarnsPromotion(i, d) ==
  /\ d.verdict = "supported" /\ d.helped >= MinHelped
  /\ items[i].status # "promoted" /\ Open(i, "promote") = {}

\* Mutant: a stale item is left alone.
EarnsDemotionWhenHarmful(i, d) ==
  d.verdict = "harmful" /\ items[i].status = "promoted" /\ Open(i, "demote") = {}
EarnsDemotion(i, d) ==
  d.verdict \in Unfit /\ items[i].status = "promoted" /\ Open(i, "demote") = {}

\* memory_promotion_proposer and propose_memory_promotion_fn, on what the event says.
MemoryPromotionProposer ==
  LET d == Head(queue)
      i == d.artifact
      Propose(direction) ==
        proposals' = Append(proposals, [item |-> i, direction |-> direction,
                                        status |-> "proposed", found |-> "none"])
  IN /\ Fires("memory_promotion_proposer")
     /\ \/ EarnsPromotion(i, d) /\ Propose("promote")
        \/ EarnsDemotion(i, d) /\ Propose("demote")
        \/ ~EarnsPromotion(i, d) /\ ~EarnsDemotion(i, d) /\ UNCHANGED proposals
     /\ queue' = Tail(queue)
     /\ UNCHANGED <<evaluations, records, reliability, latest, items, skills,
                    proof, exec, budget>>

NewStatus(direction) == IF direction = "promote" THEN "promoted" ELSE "demoted"

RejectPromotion(p) ==
  /\ Ready
  /\ Spend("calls")
  /\ proposals[p].status = "proposed"
  /\ proposals' = [proposals EXCEPT ![p].status = "rejected"]
  /\ UNCHANGED <<evaluations, records, reliability, latest, items, skills,
                 proof, queue, exec>>

\* resolve_memory_promotion_fn(approve): the verdict is not read again.
ApprovePromotion(p) ==
  /\ Ready
  /\ Spend("calls")
  /\ proposals[p].status = "proposed"
  /\ exec' = [pc |-> IF items[proposals[p].item].status
                          = NewStatus(proposals[p].direction)
                     THEN "proposal" ELSE "item",
              proposal |-> p]
  /\ UNCHANGED <<evaluations, records, reliability, latest, items, proposals,
                 skills, proof, queue>>

\* `found' remembers the verdict the item had when it was patched.
PatchItem ==
  LET p == exec.proposal
      i == proposals[p].item
  IN /\ exec.pc = "item"
     /\ items' = [items EXCEPT ![i].status = NewStatus(proposals[p].direction)]
     /\ proposals' = [proposals EXCEPT ![p].found = reliability[i].verdict]
     /\ exec' = [exec EXCEPT !.pc = "proposal"]
     /\ UNCHANGED <<evaluations, records, reliability, latest, skills, proof,
                    queue, budget>>

PatchProposal ==
  /\ exec.pc = "proposal"
  /\ proposals' = [proposals EXCEPT ![exec.proposal].status = "approved"]
  /\ exec' = Idle
  /\ UNCHANGED <<evaluations, records, reliability, latest, items, skills,
                 proof, queue, budget>>

-----------------------------------------------------------------------------
(* Skills: packs/skills *)

\* record_promotion_evidence_fn
RecordPromotionEvidence(s, e) ==
  /\ Ready
  /\ Spend("calls")
  /\ proof' = [proof EXCEPT ![s] = @ \cup {e}]
  /\ UNCHANGED <<evaluations, records, reliability, latest, items, proposals,
                 skills, queue, exec>>

\* Mutant: evidence is enough, whatever the projection says.
SupportsByEvidence(s, e) == e.accepted
\* _promotion_support: the newer projection decides, accepted evidence where there
\* is none.
Supports(s, e) ==
  LET verdict == reliability[latest[s]].verdict
  IN IF verdict # "none" THEN verdict = "supported" ELSE e.accepted

PromoteSkill(s, e) ==
  /\ Ready
  /\ Spend("calls")
  /\ e \in proof[s]
  /\ Supports(s, e)
  /\ skills[s].status = "disabled" => e.kind = "owner_approval"
  /\ skills[s].status # "promoted"
  /\ skills' = [skills EXCEPT ![s].status = "promoted"]
  /\ UNCHANGED <<evaluations, records, reliability, latest, items, proposals,
                 proof, queue, exec>>

\* demote_skill_fn and disable_skill_fn, with or without an outcome as evidence.
SetIneligible(s, status, cited) ==
  /\ Ready
  /\ Spend("calls")
  /\ skills[s].status # status
  /\ skills' = [skills EXCEPT ![s] = [status |-> status,
                                      recovers |-> cited /\ status = "demoted"]]
  /\ UNCHANGED <<evaluations, records, reliability, latest, items, proposals,
                 proof, queue, exec>>

\* An unfit version is demoted; one that reliability demoted recovers with it.  A
\* verdict on a version identity resolves to no skill.
SkillReliabilityEligibility ==
  LET d == Head(queue)
      After(k) ==
        IF d.verdict \in Unfit /\ k.status \in {"candidate", "promoted"}
        THEN [status |-> "demoted", recovers |-> TRUE]
        ELSE IF d.verdict = "supported" /\ k.status = "demoted" /\ k.recovers
        THEN [status |-> "promoted", recovers |-> FALSE]
        ELSE k
  IN /\ Fires("skill_reliability_eligibility")
     /\ skills' = [s \in Skills |-> IF s = d.artifact THEN After(skills[s])
                                   ELSE skills[s]]
     /\ queue' = Tail(queue)
     /\ UNCHANGED <<evaluations, records, reliability, latest, items,
                    proposals, proof, exec, budget>>

-----------------------------------------------------------------------------

CrashRestart ==
  /\ Spend("crashes")
  /\ queue' = <<>>
  /\ exec' = Idle
  /\ UNCHANGED <<evaluations, records, reliability, latest, items, proposals,
                 skills, proof>>

Outcome ==
  \/ \E a \in Artifacts, kind \in Terminal : ExplicitVerdict(a, kind)
  \/ \E e \in 1..Len(evaluations), kind \in Terminal :
       VerdictOn(e, kind) \/ SupersedeEvaluation(e, kind)
  \/ \E a \in Artifacts, kind \in Terminal \cup {"contradicted"},
        revision \in Revisions \cup {0} : Judge(a, kind, revision)
  \/ \E a \in Artifacts, kind \in Maintenance, revision \in Revisions :
       MaintenanceOutcome(a, kind, revision)
  \/ EmitOutcome \/ AddRecord

Resolution ==
  \/ \E p \in 1..Len(proposals) : RejectPromotion(p) \/ ApprovePromotion(p)
  \/ PatchItem \/ PatchProposal

SkillCall ==
  \E s \in Skills :
    \/ \E e \in Evidence : RecordPromotionEvidence(s, e) \/ PromoteSkill(s, e)
    \/ \E status \in {"demoted", "disabled"}, cited \in BOOLEAN :
         SetIneligible(s, status, cited)

Drain ==
  \/ EvaluationOutcomeCapture \/ ArtifactReliabilityProjector
  \/ MemoryReliabilityApplier \/ MemoryPromotionProposer
  \/ SkillReliabilityEligibility

Next == Outcome \/ Resolution \/ SkillCall \/ Drain \/ CrashRestart

Spec == Init /\ [][Next]_vars

-----------------------------------------------------------------------------
(* Properties *)

Helping(a) == {r \in records : r.kind = "helped" /\ r.artifact = a}

\* An evaluation settles one terminal value, whoever records it and in whatever
\* order; the tally never runs ahead of the evaluations that say helped; and an
\* item is only ever promoted on two different ones ("repeated means at least two
\* distinct helped terminal outcomes", promotion.py), crashes and late approvals
\* included.
PromotedItemsAreEarned ==
  /\ \A q, r \in records :
       q.kind \in Terminal /\ r.kind \in Terminal /\ q.evaluation = r.evaluation
         => q = r
  /\ \A a \in Artifacts : reliability[a].helped <= Cardinality(Helping(a))
  /\ \A i \in Items : items[i].status # "admitted"
       => \E q, r \in Helping(i) : q.evaluation # r.evaluation

\* The promotion the item owes its status to.
Granting(i) ==
  {p \in 1..Len(proposals) : /\ proposals[p].item = i
                             /\ proposals[p].direction = "promote"
                             /\ proposals[p].found # "none"}

\* Of one item and direction one proposal is open at a time; and an item that was
\* promoted while fit and is unfit now has been proposed for demotion since then
\* (memory_promotion_proposer), unless a crash lost the event.
DemotionIsProposed ==
  /\ \A i \in Items, direction \in {"promote", "demote"} :
       Cardinality(Open(i, direction)) <= 1
  /\ (Quiet /\ budget.crashes = MaxCrashes) =>
       \A i \in Items :
         (items[i].status = "promoted" /\ reliability[i].verdict \in Unfit) =>
           \E p \in Granting(i) :
             /\ \A q \in Granting(i) : q <= p
             /\ \/ proposals[p].found \in Unfit
                \/ \E q \in p..Len(proposals) :
                     proposals[q].item = i /\ proposals[q].direction = "demote"

\* Once the queue is drained no skill whose own projection is the newer one is
\* eligible with a harmful or stale verdict, whatever was promoted, demoted or
\* superseded meanwhile, and an item is retrieved under its current verdict; a crash
\* may lose the change.  Of a verdict on the version identity nothing is promised:
\* skill_reliability_eligibility does not find the skill by it.
EligibilityFollowsVerdict ==
  (Quiet /\ budget.crashes = MaxCrashes) =>
    /\ \A s \in Skills :
         (skills[s].status = "promoted" /\ latest[s] = s) =>
           reliability[s].verdict \notin Unfit
    /\ \A i \in Items : items[i].verdict = reliability[i].verdict
================================================================================
