--------------------------- MODULE ReliabilityProofs ---------------------------
(***************************************************************************)
(* Proofs about Reliability, for every set of items and skills and any number *)
(* of outcomes, calls and crashes.                                            *)
(*                                                                          *)
(* A promotion is earned because every helped outcome the projection has      *)
(* counted, or is still to be told of, has its outcome_record, except the one *)
(* that is being recorded (TallyCovered), and because two terminal records    *)
(* never judge one evaluation (RecordsSettle).                                *)
(***************************************************************************)
EXTENDS Reliability, FiniteSetTheorems, TLAPS

Delivery == Captures \cup Announcements \cup Changes

\* What a delivery and the function in progress refer to exists.
DeliveryRefers(d, n) ==
  /\ d.to = "evaluation_outcome_capture" => d.evaluation \in 1..n
  /\ d.to \in {"memory_reliability_applier", "memory_promotion_proposer"}
       => d.artifact \in Items
RefersOK ==
  /\ \A k \in 1..Len(queue) : DeliveryRefers(queue[k], Len(evaluations))
  /\ exec.pc \in {"item", "proposal"} => exec.proposal \in 1..Len(proposals)

TypeInv == TypeOK /\ RefersOK

-----------------------------------------------------------------------------
(* Types *)

LEMMA QueueType == TypeOK => queue \in Seq(Delivery)
  BY DEF TypeOK, Delivery

LEMMA FrameKinds ==
  ASSUME TypeOK
  PROVE  /\ exec = Idle => exec.pc = "idle"
         /\ exec.pc \in {"emit", "record"} => exec \in Recordings
         /\ exec.pc \in {"item", "proposal"} => exec \in Resolutions
         /\ exec.pc \in {"idle", "emit", "record", "item", "proposal"}
  BY DEF TypeOK, Idle, Recordings, Resolutions

\* A delivery for a behavior has the shape the behavior reads.
LEMMA DeliveryKinds ==
  ASSUME NEW d \in Delivery
  PROVE  /\ d.to = "evaluation_outcome_capture" => d \in Captures
         /\ d.to = "artifact_reliability_projector" => d \in Announcements
         /\ d.to \in {"memory_reliability_applier", "memory_promotion_proposer",
                      "skill_reliability_eligibility"} => d \in Changes
  BY DEF Delivery, Captures, Announcements, Changes

LEMMA HeadAndTail ==
  ASSUME NEW S, NEW q \in Seq(S), q # <<>>
  PROVE  /\ Head(q) \in S /\ Head(q) = q[1] /\ 1 \in 1..Len(q)
         /\ Tail(q) \in Seq(S) /\ Len(Tail(q)) = Len(q) - 1
         /\ \A k \in 1..Len(Tail(q)) : k + 1 \in 1..Len(q) /\ Tail(q)[k] = q[k + 1]
  OBVIOUS

LEMMA Spending ==
  ASSUME TypeOK, NEW b \in {"outcomes", "calls", "crashes"}, Spend(b)
  PROVE  budget' \in [outcomes : Nat, calls : Nat, crashes : Nat]
<1>1. budget \in [outcomes : Nat, calls : Nat, crashes : Nat] BY DEF TypeOK
<1>2. CASE b = "outcomes" BY <1>1, <1>2 DEF Spend
<1>3. CASE b = "calls" BY <1>1, <1>3 DEF Spend
<1>4. CASE b = "crashes" BY <1>1, <1>4 DEF Spend
<1> QED BY <1>2, <1>3, <1>4

LEMMA InitTypes == Init => TypeInv
<1> SUFFICES ASSUME Init PROVE TypeInv OBVIOUS
<1>1. latest \in [Skills -> Artifacts] BY DEF Init, Artifacts
<1>2. queue = <<>> /\ evaluations = <<>> /\ proposals = <<>> /\ exec = Idle
  BY DEF Init
<1>3. TypeOK BY <1>1, ReliabilityAssumption DEF Init, ReliabilityAssumption, TypeOK
<1>4. RefersOK BY <1>2 DEF RefersOK, Idle
<1> QED BY <1>3, <1>4 DEF TypeInv

\* A step that takes the first delivery keeps the references of the others.
LEMMA TailRefers ==
  ASSUME TypeInv, queue # <<>>, queue' = Tail(queue), UNCHANGED evaluations
  PROVE  \A k \in 1..Len(queue') : DeliveryRefers(queue'[k], Len(evaluations'))
<1>1. queue \in Seq(Delivery) BY QueueType DEF TypeInv
<1>2. \A k \in 1..Len(queue') : k + 1 \in 1..Len(queue) /\ queue'[k] = queue[k + 1]
  BY <1>1, HeadAndTail
<1> QED BY <1>2 DEF TypeInv, RefersOK, DeliveryRefers

\* A step that adds an evaluation or a delivery keeps those that are there.
LEMMA AppendRefers ==
  ASSUME TypeInv, NEW d \in Delivery, queue' = Append(queue, d),
         evaluations' \in Seq(Artifacts), Len(evaluations') >= Len(evaluations),
         DeliveryRefers(d, Len(evaluations'))
  PROVE  \A k \in 1..Len(queue') : DeliveryRefers(queue'[k], Len(evaluations'))
<1>1. queue \in Seq(Delivery) BY QueueType DEF TypeInv
<1>2. evaluations \in Seq(Artifacts) BY DEF TypeInv, TypeOK
<1>3. \A k \in 1..Len(queue') : (k \in 1..Len(queue) /\ queue'[k] = queue[k]) \/ queue'[k] = d
  BY <1>1
<1>4. \A k \in 1..Len(queue) : DeliveryRefers(queue[k], Len(evaluations'))
  BY <1>2 DEF TypeInv, RefersOK, DeliveryRefers
<1> QED BY <1>3, <1>4 DEF DeliveryRefers

\* What a call that begins to record an outcome leaves.
LEMMA BeginRecording ==
  ASSUME TypeInv, NEW r \in Record, NEW then \in Terminal \cup {"none"},
         exec' = Emitting(r, then), evaluations' \in Seq(Artifacts),
         \A k \in 1..Len(queue') : DeliveryRefers(queue'[k], Len(evaluations')),
         queue' \in Seq(Delivery),
         budget' \in [outcomes : Nat, calls : Nat, crashes : Nat],
         UNCHANGED <<records, reliability, latest, items, proposals, skills, proof>>
  PROVE  TypeInv'
<1>1. exec' \in Recordings /\ exec'.pc = "emit" BY DEF Emitting, Recordings
<1>2. TypeOK' BY <1>1 DEF TypeInv, TypeOK, Delivery
<1> QED BY <1>1, <1>2 DEF TypeInv, RefersOK

LEMMA TerminalRecordType ==
  ASSUME NEW kind \in Terminal, NEW a \in Artifacts, NEW e \in Nat
  PROVE  TerminalRecord(kind, a, e) \in Record
  BY DEF TerminalRecord, Record, Kinds

LEMMA ExplicitVerdictTypes ==
  ASSUME TypeInv, NEW a \in Artifacts, NEW kind \in Terminal, ExplicitVerdict(a, kind)
  PROVE  TypeInv'
<1>1. evaluations \in Seq(Artifacts) /\ queue \in Seq(Delivery)
  BY QueueType DEF TypeInv, TypeOK
<1>2. /\ evaluations' \in Seq(Artifacts) /\ Len(evaluations') = Len(evaluations) + 1
      /\ NewEvaluation = Len(evaluations') /\ NewEvaluation \in Nat
  BY <1>1 DEF ExplicitVerdict, NewEvaluation
<1>3. Capture(NewEvaluation, kind, 0) \in Captures
  BY <1>2 DEF Capture, Captures, Kinds
<1>4. DeliveryRefers(Capture(NewEvaluation, kind, 0), Len(evaluations'))
  BY <1>1, <1>2 DEF DeliveryRefers, Capture
<1>5. \A k \in 1..Len(queue') : DeliveryRefers(queue'[k], Len(evaluations'))
  BY <1>1, <1>2, <1>3, <1>4, AppendRefers DEF ExplicitVerdict, Delivery
<1>6. queue' \in Seq(Delivery) BY <1>1, <1>3 DEF ExplicitVerdict, Delivery
<1>7. TerminalRecord(kind, a, NewEvaluation) \in Record BY <1>2, TerminalRecordType
<1> QED BY <1>2, <1>5, <1>6, <1>7, Spending, BeginRecording DEF ExplicitVerdict, TypeInv

LEMMA VerdictOnTypes ==
  ASSUME TypeInv, NEW e \in 1..Len(evaluations), NEW kind \in Terminal,
         VerdictOn(e, kind)
  PROVE  TypeInv'
<1>1. evaluations \in Seq(Artifacts) /\ queue \in Seq(Delivery)
  BY QueueType DEF TypeInv, TypeOK
<1>2. TerminalRecord(kind, evaluations[e], e) \in Record BY <1>1, TerminalRecordType
<1> QED BY <1>1, <1>2, Spending, BeginRecording DEF VerdictOn, TypeInv, RefersOK

LEMMA MaintenanceTypes ==
  ASSUME TypeInv, NEW a \in Artifacts, NEW kind \in Maintenance,
         NEW revision \in Revisions, MaintenanceOutcome(a, kind, revision)
  PROVE  TypeInv'
<1>1. evaluations \in Seq(Artifacts) /\ queue \in Seq(Delivery)
  BY QueueType DEF TypeInv, TypeOK
<1>2. [kind |-> kind, artifact |-> a, evaluation |-> 0, subject |-> revision] \in Record
  BY ReliabilityAssumption DEF ReliabilityAssumption, Record, Kinds, Maintenance
<1> QED BY <1>1, <1>2, Spending, BeginRecording DEF MaintenanceOutcome, TypeInv, RefersOK

LEMMA SupersedeTypes ==
  ASSUME TypeInv, NEW e \in 1..Len(evaluations), NEW kind \in Terminal,
         SupersedeEvaluation(e, kind)
  PROVE  TypeInv'
<1>1. evaluations \in Seq(Artifacts) /\ queue \in Seq(Delivery)
  BY QueueType DEF TypeInv, TypeOK
<1>2. evaluations' \in Seq(Artifacts) /\ Len(evaluations') = Len(evaluations) + 1
  BY <1>1 DEF SupersedeEvaluation
<1>3. [kind |-> "superseded", artifact |-> evaluations[e], evaluation |-> e,
       subject |-> NewEvaluation] \in Record
  BY <1>1 DEF NewEvaluation, Record, Kinds, Maintenance
<1>4. \A k \in 1..Len(queue') : DeliveryRefers(queue'[k], Len(evaluations'))
  BY <1>1, <1>2 DEF SupersedeEvaluation, TypeInv, RefersOK, DeliveryRefers
<1> QED BY <1>1, <1>2, <1>3, <1>4, Spending, BeginRecording
        DEF SupersedeEvaluation, TypeInv

LEMMA JudgeTypes ==
  ASSUME TypeInv, NEW a \in Artifacts, NEW kind \in Terminal \cup {"contradicted"},
         NEW revision \in Revisions \cup {0}, Judge(a, kind, revision)
  PROVE  TypeInv'
<1>1. evaluations \in Seq(Artifacts) /\ queue \in Seq(Delivery)
  BY QueueType DEF TypeInv, TypeOK
<1>2. /\ evaluations' \in Seq(Artifacts) /\ Len(evaluations') = Len(evaluations) + 1
      /\ NewEvaluation = Len(evaluations') /\ NewEvaluation \in Nat
  BY <1>1 DEF Judge, NewEvaluation
<1>3. Capture(NewEvaluation, kind, revision) \in Captures
  BY <1>2, ReliabilityAssumption
     DEF ReliabilityAssumption, Capture, Captures, Kinds, Maintenance
<1>4. DeliveryRefers(Capture(NewEvaluation, kind, revision), Len(evaluations'))
  BY <1>1, <1>2 DEF DeliveryRefers, Capture
<1>5. \A k \in 1..Len(queue') : DeliveryRefers(queue'[k], Len(evaluations'))
  BY <1>1, <1>2, <1>3, <1>4, AppendRefers DEF Judge, Delivery
<1>6. queue' \in Seq(Delivery) BY <1>1, <1>3 DEF Judge, Delivery
<1>7. budget' \in [outcomes : Nat, calls : Nat, crashes : Nat]
  BY Spending DEF Judge, TypeInv
<1>8. TypeOK' BY <1>2, <1>6, <1>7 DEF Judge, TypeInv, TypeOK, Delivery
<1> QED BY <1>5, <1>8 DEF Judge, TypeInv, RefersOK

LEMMA EmitTypes == ASSUME TypeInv, EmitOutcome PROVE TypeInv'
<1>1. evaluations \in Seq(Artifacts) /\ queue \in Seq(Delivery)
  BY QueueType DEF TypeInv, TypeOK
<1>2. exec \in Recordings BY FrameKinds DEF EmitOutcome, TypeInv
<1> DEFINE d == [to |-> "artifact_reliability_projector",
                 artifact |-> exec.record.artifact, kind |-> exec.record.kind]
<1>3. d \in Announcements BY <1>2 DEF Recordings, Record, Announcements
<1>4. exec' \in Recordings /\ exec'.pc = "record" BY <1>2 DEF EmitOutcome, Recordings
<1>5. DeliveryRefers(d, Len(evaluations')) BY DEF DeliveryRefers
<1>6. queue' = Append(queue, d) BY DEF EmitOutcome
<1> HIDE DEF d
<1>7. \A k \in 1..Len(queue') : DeliveryRefers(queue'[k], Len(evaluations'))
  BY <1>1, <1>3, <1>5, <1>6, AppendRefers DEF EmitOutcome, Delivery
<1>8. queue' \in Seq(Delivery) BY <1>1, <1>3, <1>6 DEF Delivery
<1>9. TypeOK' BY <1>4, <1>8 DEF EmitOutcome, TypeInv, TypeOK, Delivery
<1> QED BY <1>4, <1>7, <1>9 DEF TypeInv, RefersOK

LEMMA AddRecordTypes == ASSUME TypeInv, AddRecord PROVE TypeInv'
<1>1. exec \in Recordings BY FrameKinds DEF AddRecord, TypeInv
<1>2. records' \subseteq Record BY <1>1 DEF AddRecord, TypeInv, TypeOK, Recordings
<1>3. exec' = Idle \/ (exec' \in Recordings /\ exec'.pc = "emit")
  <2>1. CASE exec.then = "none" BY <2>1 DEF AddRecord
  <2>2. CASE exec.then # "none"
    <3>1. exec.then \in Terminal /\ exec.record.artifact \in Artifacts
          /\ exec.record.subject \in Nat
      BY <1>1, <2>2 DEF Recordings, Record
    <3> QED BY <2>2, <3>1, TerminalRecordType DEF AddRecord, Emitting, Recordings
  <2> QED BY <2>1, <2>2
<1>4. TypeOK' BY <1>2, <1>3 DEF AddRecord, TypeInv, TypeOK
<1> QED BY <1>3, <1>4 DEF AddRecord, TypeInv, RefersOK, Idle

LEMMA CaptureTypes == ASSUME TypeInv, EvaluationOutcomeCapture PROVE TypeInv'
<1>1. evaluations \in Seq(Artifacts) /\ queue \in Seq(Delivery) /\ queue # <<>>
  BY QueueType DEF TypeInv, TypeOK, EvaluationOutcomeCapture, Fires
<1> DEFINE d == Head(queue)
<1>2. d \in Captures /\ d.evaluation \in 1..Len(evaluations)
  BY <1>1, HeadAndTail, DeliveryKinds
     DEF EvaluationOutcomeCapture, Fires, TypeInv, RefersOK, DeliveryRefers
<1>3. [kind |-> d.kind, artifact |-> evaluations[d.evaluation],
       evaluation |-> d.evaluation, subject |-> d.subject] \in Record
  BY <1>1, <1>2 DEF Captures, Record
<1>4. /\ queue' = Tail(queue) /\ queue' \in Seq(Delivery)
      /\ UNCHANGED <<evaluations, records, reliability, latest, items, proposals,
                     skills, proof, budget>>
  BY <1>1, HeadAndTail DEF EvaluationOutcomeCapture
<1>5. exec' = Idle \/ (exec' \in Recordings /\ exec'.pc = "emit")
  BY <1>3 DEF EvaluationOutcomeCapture, Emitting, Recordings
<1>6. TypeOK' BY <1>4, <1>5 DEF TypeInv, TypeOK, Delivery
<1>7. \A k \in 1..Len(queue') : DeliveryRefers(queue'[k], Len(evaluations'))
  BY <1>1, <1>4, TailRefers
<1> QED BY <1>5, <1>6, <1>7 DEF TypeInv, RefersOK, Idle

\* What every other delivery leaves of the references.
LEMMA DeliveredRefers ==
  ASSUME TypeInv, queue # <<>>, queue' = Tail(queue), exec = Idle, TypeOK',
         UNCHANGED <<evaluations, exec>>
  PROVE  TypeInv'
<1>1. \A k \in 1..Len(queue') : DeliveryRefers(queue'[k], Len(evaluations'))
  BY TailRefers
<1> QED BY <1>1 DEF TypeInv, RefersOK, Idle

LEMMA TailType == ASSUME TypeInv, queue # <<>> PROVE Tail(queue) \in Seq(Delivery)
  BY QueueType, HeadAndTail DEF TypeInv

LEMMA ApplierTypes == ASSUME TypeInv, MemoryReliabilityApplier PROVE TypeInv'
<1>1. queue \in Seq(Delivery) /\ queue # <<>> /\ exec = Idle
  BY QueueType DEF TypeInv, MemoryReliabilityApplier, Fires, Ready
<1>2. Head(queue) \in Changes
  BY <1>1, HeadAndTail, DeliveryKinds DEF MemoryReliabilityApplier, Fires
<1>3. queue' = Tail(queue) /\ queue' \in Seq(Delivery)
  BY <1>1, TailType DEF MemoryReliabilityApplier
<1>4. items' \in [Items -> [status : {"admitted", "promoted", "demoted"},
                            verdict : Verdicts \cup {"none"}]]
  <2> DEFINE i == Head(queue).artifact
             v == Head(queue).verdict
  <2>1. v \in Verdicts BY <1>2 DEF Changes
  <2>2. items' = [items EXCEPT ![i].verdict = v] BY DEF MemoryReliabilityApplier
  <2>3. items \in [Items -> [status : {"admitted", "promoted", "demoted"},
                            verdict : Verdicts \cup {"none"}]]
    BY DEF TypeInv, TypeOK
  <2> HIDE DEF i, v
  <2> QED BY <2>1, <2>2, <2>3
<1>5. TypeOK' BY <1>3, <1>4 DEF MemoryReliabilityApplier, TypeInv, TypeOK, Delivery
<1> QED BY <1>1, <1>3, <1>5, DeliveredRefers DEF MemoryReliabilityApplier

LEMMA EligibilityTypes == ASSUME TypeInv, SkillReliabilityEligibility PROVE TypeInv'
<1>1. queue \in Seq(Delivery) /\ queue # <<>> /\ exec = Idle
  BY QueueType DEF TypeInv, SkillReliabilityEligibility, Fires, Ready
<1>3. queue' = Tail(queue) /\ queue' \in Seq(Delivery)
  BY <1>1, TailType DEF SkillReliabilityEligibility
<1>4. skills' \in [Skills -> [status : {"candidate", "promoted", "demoted", "disabled"},
                              recovers : BOOLEAN]]
  BY DEF SkillReliabilityEligibility, TypeInv, TypeOK
<1>5. TypeOK' BY <1>3, <1>4 DEF SkillReliabilityEligibility, TypeInv, TypeOK, Delivery
<1> QED BY <1>1, <1>3, <1>5, DeliveredRefers DEF SkillReliabilityEligibility

\* What the proposer adds, if anything.
LEMMA ProposerAppends ==
  ASSUME MemoryPromotionProposer
  PROVE  \/ proposals' = proposals
         \/ \E direction \in {"promote", "demote"} :
              /\ proposals' = Append(proposals,
                   [item |-> Head(queue).artifact, direction |-> direction,
                    status |-> "proposed", found |-> "none"])
              /\ direction = "promote" => EarnsPromotion(Head(queue).artifact, Head(queue))
              /\ direction = "demote" => EarnsDemotion(Head(queue).artifact, Head(queue))
  BY DEF MemoryPromotionProposer

LEMMA ProposerTypes == ASSUME TypeInv, MemoryPromotionProposer PROVE TypeInv'
<1>1. queue \in Seq(Delivery) /\ queue # <<>> /\ exec = Idle
  BY QueueType DEF TypeInv, MemoryPromotionProposer, Fires, Ready
<1>2. Head(queue).artifact \in Items
  BY <1>1, HeadAndTail
     DEF MemoryPromotionProposer, Fires, TypeInv, RefersOK, DeliveryRefers
<1>3. queue' = Tail(queue) /\ queue' \in Seq(Delivery)
  BY <1>1, TailType DEF MemoryPromotionProposer
<1>4. proposals' \in Seq([item : Items, direction : {"promote", "demote"},
                          status : {"proposed", "approved", "rejected"},
                          found : Verdicts \cup {"none"}])
  <2> DEFINE P == [item : Items, direction : {"promote", "demote"},
                   status : {"proposed", "approved", "rejected"},
                   found : Verdicts \cup {"none"}]
             i == Head(queue).artifact
             new(direction) == [item |-> i, direction |-> direction,
                                status |-> "proposed", found |-> "none"]
  <2>1. \A direction \in {"promote", "demote"} : new(direction) \in P BY <1>2
  <2>2. proposals \in Seq(P) BY DEF TypeInv, TypeOK
  <2>3. \/ proposals' = proposals
        \/ \E direction \in {"promote", "demote"} :
             proposals' = Append(proposals, new(direction))
    BY ProposerAppends
  <2> HIDE DEF P, new
  <2>4. proposals' \in Seq(P) BY <2>1, <2>2, <2>3
  <2> QED BY <2>4 DEF P
<1>5. TypeOK' BY <1>3, <1>4 DEF MemoryPromotionProposer, TypeInv, TypeOK, Delivery
<1> QED BY <1>1, <1>3, <1>5, DeliveredRefers DEF MemoryPromotionProposer

LEMMA ProjectorTypes == ASSUME TypeInv, ArtifactReliabilityProjector PROVE TypeInv'
<1>1. queue \in Seq(Delivery) /\ queue # <<>> /\ exec = Idle
  BY QueueType DEF TypeInv, ArtifactReliabilityProjector, Fires, Ready
<1> DEFINE d == Head(queue)
           a == d.artifact
           h == Tally(reliability[a].helped, d.kind)
           v == Verdict(d.kind)
           News == [k \in 1..Len(HeardBy(a)) |->
                      [to |-> HeardBy(a)[k], artifact |-> a, verdict |-> v, helped |-> h]]
<1>2. d \in Announcements
  BY <1>1, HeadAndTail, DeliveryKinds DEF ArtifactReliabilityProjector, Fires
<1>3. a \in Artifacts /\ d.kind \in Kinds BY <1>2 DEF Announcements
<1>4. h \in Nat BY <1>3 DEF Tally, TypeInv, TypeOK
<1>5. v \in Verdicts BY <1>3 DEF Verdict, Verdicts, Kinds, Terminal, Maintenance
<1>6. /\ queue' = Tail(queue) \o News
      /\ reliability' = [reliability EXCEPT ![a] = [helped |-> h, verdict |-> v]]
      /\ UNCHANGED <<evaluations, records, items, proposals, skills, proof, exec, budget>>
  BY DEF ArtifactReliabilityProjector
<1>7. /\ News \in Seq(Changes)
      /\ \A k \in 1..Len(News) : DeliveryRefers(News[k], Len(evaluations))
  <2>1. CASE a \in Items
    BY <2>1, <1>3, <1>4, <1>5 DEF HeardBy, Changes, DeliveryRefers
  <2>2. CASE a \notin Items
    BY <2>2, <1>3, <1>4, <1>5 DEF HeardBy, Changes, DeliveryRefers
  <2> QED BY <2>1, <2>2
<1> HIDE DEF h, v, News, d
<1>8. Tail(queue) \in Seq(Delivery) /\ News \in Seq(Delivery)
  BY <1>1, <1>7, TailType DEF Delivery
<1>9. queue' \in Seq(Delivery) BY <1>6, <1>8
<1>10. reliability' \in [Artifacts -> [helped : Nat, verdict : Verdicts \cup {"none"}]]
  BY <1>4, <1>5, <1>6 DEF TypeInv, TypeOK
<1>11. latest' \in [Skills -> Artifacts]
  BY <1>3 DEF ArtifactReliabilityProjector, TypeInv, TypeOK, d
<1>12. TypeOK' BY <1>6, <1>9, <1>10, <1>11 DEF TypeInv, TypeOK, Delivery
<1>13. \A k \in 1..Len(Tail(queue)) : DeliveryRefers(Tail(queue)[k], Len(evaluations))
  BY <1>1, HeadAndTail DEF TypeInv, RefersOK
<1>14. \A k \in 1..Len(queue') : DeliveryRefers(queue'[k], Len(evaluations))
  <2> DEFINE old == Tail(queue)
  <2> HIDE DEF old
  <2>1. old \in Seq(Delivery) /\ queue' = old \o News BY <1>6, <1>8 DEF old
  <2>2. \A k \in 1..Len(queue') :
          \/ k \in 1..Len(old) /\ queue'[k] = old[k]
          \/ k - Len(old) \in 1..Len(News) /\ queue'[k] = News[k - Len(old)]
    BY <2>1, <1>8
  <2> QED BY <2>2, <1>7, <1>13 DEF old
<1> QED BY <1>1, <1>6, <1>12, <1>14 DEF TypeInv, RefersOK, Idle

\* What a call about proposals, items or skills leaves of the references.
LEMMA CallRefers ==
  ASSUME TypeInv, TypeOK', Len(proposals') = Len(proposals),
         UNCHANGED <<evaluations, queue>>,
         exec' \in Resolutions => exec'.proposal \in 1..Len(proposals)
  PROVE  TypeInv'
<1>1. exec'.pc \in {"item", "proposal"} => exec' \in Resolutions
  BY DEF TypeOK, Idle, Recordings, Resolutions
<1> QED BY <1>1 DEF TypeInv, RefersOK

Proposal ==
  [item : Items, direction : {"promote", "demote"},
   status : {"proposed", "approved", "rejected"}, found : Verdicts \cup {"none"}]

LEMMA PatchedProposal ==
  ASSUME NEW S, NEW s \in Seq(S), NEW p \in 1..Len(s), NEW new \in S
  PROVE  [s EXCEPT ![p] = new] \in Seq(S) /\ Len([s EXCEPT ![p] = new]) = Len(s)
<1> DEFINE t == [s EXCEPT ![p] = new]
<1>1. s \in [1..Len(s) -> S] /\ Len(s) \in Nat OBVIOUS
<1>2. t \in [1..Len(s) -> S] BY <1>1
<1> HIDE DEF t
<1>3. t \in Seq(S) /\ Len(t) = Len(s) BY <1>1, <1>2
<1> QED BY <1>3 DEF t

LEMMA PatchedFields ==
  ASSUME NEW q \in Proposal, NEW status \in {"proposed", "approved", "rejected"},
         NEW found \in Verdicts \cup {"none"}
  PROVE  /\ [q EXCEPT !.status = status] \in Proposal
         /\ [q EXCEPT !.found = found] \in Proposal
         /\ [q EXCEPT !.status = status].item = q.item
         /\ [q EXCEPT !.found = found].item = q.item
  BY DEF Proposal

LEMMA ProposalTypes ==
  ASSUME TypeInv
  PROVE  /\ proposals \in Seq(Proposal)
         /\ \A p \in 1..Len(proposals) : proposals[p] \in Proposal
<1>1. proposals \in Seq(Proposal) BY DEF TypeInv, TypeOK, Proposal
<1> QED BY <1>1

LEMMA RejectTypes ==
  ASSUME TypeInv, NEW p \in 1..Len(proposals), RejectPromotion(p)
  PROVE  TypeInv'
<1>1. budget' \in [outcomes : Nat, calls : Nat, crashes : Nat]
  BY Spending DEF TypeInv, RejectPromotion
<1>2. proposals' \in Seq(Proposal) /\ Len(proposals') = Len(proposals)
  <2>1. proposals' = [proposals EXCEPT ![p] = [proposals[p] EXCEPT !.status = "rejected"]]
    BY DEF RejectPromotion
  <2>2. [proposals[p] EXCEPT !.status = "rejected"] \in Proposal
    BY ProposalTypes, PatchedFields DEF Verdicts
  <2> QED BY <2>1, <2>2, ProposalTypes, PatchedProposal
<1>3. TypeOK' BY <1>1, <1>2 DEF TypeInv, TypeOK, RejectPromotion, Proposal
<1> QED BY <1>2, <1>3, CallRefers DEF RejectPromotion, Ready, Idle, Resolutions

LEMMA ApproveTypes ==
  ASSUME TypeInv, NEW p \in 1..Len(proposals), ApprovePromotion(p)
  PROVE  TypeInv'
<1>1. budget' \in [outcomes : Nat, calls : Nat, crashes : Nat]
  BY Spending DEF TypeInv, ApprovePromotion
<1>2. exec' \in Resolutions /\ exec'.proposal = p
  BY DEF TypeInv, TypeOK, ApprovePromotion, Resolutions
<1>3. TypeOK' BY <1>1, <1>2 DEF TypeInv, TypeOK, ApprovePromotion
<1> QED BY <1>2, <1>3, CallRefers DEF ApprovePromotion

LEMMA PatchItemTypes == ASSUME TypeInv, PatchItem PROVE TypeInv'
<1> DEFINE p == exec.proposal
           i == proposals[p].item
<1>1. exec \in Resolutions /\ p \in 1..Len(proposals)
  <2>1. exec.pc = "item" BY DEF PatchItem
  <2> QED BY <2>1, FrameKinds DEF TypeInv, RefersOK
<1>2. i \in Items
  <2>1. proposals[p] \in Proposal BY <1>1, ProposalTypes
  <2> QED BY <2>1 DEF Proposal
<1>3. reliability[i].verdict \in Verdicts \cup {"none"}
  BY <1>2 DEF TypeInv, TypeOK, Artifacts
<1>4. exec' \in Resolutions /\ exec'.proposal = p BY <1>1 DEF PatchItem, Resolutions
<1>5. items' \in [Items -> [status : {"admitted", "promoted", "demoted"},
                            verdict : Verdicts \cup {"none"}]]
  <2> DEFINE v == NewStatus(proposals[p].direction)
  <2>1. v \in {"promoted", "demoted"} BY DEF NewStatus
  <2>2. items' = [items EXCEPT ![i].status = v] BY DEF PatchItem
  <2>3. items \in [Items -> [status : {"admitted", "promoted", "demoted"},
                            verdict : Verdicts \cup {"none"}]]
    BY DEF TypeInv, TypeOK
  <2> HIDE DEF i, v
  <2> QED BY <2>1, <2>2, <2>3
<1>6. proposals' \in Seq(Proposal) /\ Len(proposals') = Len(proposals)
  <2> DEFINE v == reliability[i].verdict
  <2>1. proposals' = [proposals EXCEPT ![p] = [proposals[p] EXCEPT !.found = v]]
    BY DEF PatchItem
  <2>2. [proposals[p] EXCEPT !.found = v] \in Proposal
    BY <1>1, <1>3, ProposalTypes, PatchedFields
  <2> HIDE DEF v
  <2> QED BY <1>1, <2>1, <2>2, ProposalTypes, PatchedProposal
<1>7. TypeOK' BY <1>4, <1>5, <1>6 DEF PatchItem, TypeInv, TypeOK, Proposal
<1> QED BY <1>1, <1>4, <1>6, <1>7, CallRefers DEF PatchItem

LEMMA PatchProposalTypes == ASSUME TypeInv, PatchProposal PROVE TypeInv'
<1> DEFINE p == exec.proposal
<1>1. p \in 1..Len(proposals) BY DEF PatchProposal, TypeInv, RefersOK
<1>2. proposals' \in Seq(Proposal) /\ Len(proposals') = Len(proposals)
  <2>1. proposals' = [proposals EXCEPT ![p] = [proposals[p] EXCEPT !.status = "approved"]]
    BY DEF PatchProposal
  <2>2. [proposals[p] EXCEPT !.status = "approved"] \in Proposal
    BY <1>1, ProposalTypes, PatchedFields DEF Verdicts
  <2> HIDE DEF p
  <2> QED BY <1>1, <2>1, <2>2, ProposalTypes, PatchedProposal
<1>3. TypeOK' BY <1>2 DEF PatchProposal, TypeInv, TypeOK, Proposal
<1> QED BY <1>2, <1>3, CallRefers DEF PatchProposal, Idle, Resolutions

LEMMA SkillCallTypes == ASSUME TypeInv, SkillCall PROVE TypeInv'
<1> SUFFICES ASSUME NEW s \in Skills, NEW e \in Evidence,
                    NEW status \in {"demoted", "disabled"}, NEW cited \in BOOLEAN,
                    \/ RecordPromotionEvidence(s, e) \/ PromoteSkill(s, e)
                    \/ SetIneligible(s, status, cited)
             PROVE  TypeInv'
  <2>1. [kind |-> "verification", accepted |-> TRUE] \in Evidence BY DEF Evidence
  <2> QED BY <2>1 DEF SkillCall
<1>1. budget' \in [outcomes : Nat, calls : Nat, crashes : Nat]
  BY Spending DEF TypeInv, RecordPromotionEvidence, PromoteSkill, SetIneligible
<1>2. CASE RecordPromotionEvidence(s, e)
  <2>1. TypeOK' BY <1>1, <1>2 DEF RecordPromotionEvidence, TypeInv, TypeOK
  <2> QED BY <1>2, <2>1, CallRefers
          DEF RecordPromotionEvidence, Ready, Idle, Resolutions
<1>3. CASE PromoteSkill(s, e)
  <2>1. TypeOK' BY <1>1, <1>3 DEF PromoteSkill, TypeInv, TypeOK
  <2> QED BY <1>3, <2>1, CallRefers DEF PromoteSkill, Ready, Idle, Resolutions
<1>4. CASE SetIneligible(s, status, cited)
  <2>1. TypeOK' BY <1>1, <1>4 DEF SetIneligible, TypeInv, TypeOK
  <2> QED BY <1>4, <2>1, CallRefers DEF SetIneligible, Ready, Idle, Resolutions
<1> QED BY <1>2, <1>3, <1>4

LEMMA CrashTypes == ASSUME TypeInv, CrashRestart PROVE TypeInv'
<1>1. budget' \in [outcomes : Nat, calls : Nat, crashes : Nat]
  BY Spending DEF TypeInv, CrashRestart
<1>2. TypeOK' BY <1>1 DEF CrashRestart, TypeInv, TypeOK
<1> QED BY <1>2 DEF CrashRestart, TypeInv, RefersOK, Idle

LEMMA TypeStep == ASSUME TypeInv, [Next]_vars PROVE TypeInv'
<1>1. CASE Outcome
  <2>1. ASSUME NEW a \in Artifacts, NEW kind \in Terminal, ExplicitVerdict(a, kind)
        PROVE  TypeInv'
    BY <2>1, ExplicitVerdictTypes
  <2>2. ASSUME NEW e \in 1..Len(evaluations), NEW kind \in Terminal,
               VerdictOn(e, kind) \/ SupersedeEvaluation(e, kind)
        PROVE  TypeInv'
    BY <2>2, VerdictOnTypes, SupersedeTypes
  <2>3. ASSUME NEW a \in Artifacts, NEW kind \in Terminal \cup {"contradicted"},
               NEW revision \in Revisions \cup {0}, Judge(a, kind, revision)
        PROVE  TypeInv'
    BY <2>3, JudgeTypes
  <2>4. ASSUME NEW a \in Artifacts, NEW kind \in Maintenance,
               NEW revision \in Revisions, MaintenanceOutcome(a, kind, revision)
        PROVE  TypeInv'
    BY <2>4, MaintenanceTypes
  <2> QED BY <1>1, <2>1, <2>2, <2>3, <2>4, EmitTypes, AddRecordTypes DEF Outcome
<1>2. CASE Resolution
  BY <1>2, RejectTypes, ApproveTypes, PatchItemTypes, PatchProposalTypes DEF Resolution
<1>3. CASE SkillCall BY <1>3, SkillCallTypes
<1>4. CASE Drain
  BY <1>4, CaptureTypes, ProjectorTypes, ApplierTypes, ProposerTypes, EligibilityTypes
     DEF Drain
<1>5. CASE CrashRestart BY <1>5, CrashTypes
<1>6. CASE UNCHANGED vars BY <1>6 DEF vars, TypeInv, TypeOK, RefersOK
<1> QED BY <1>1, <1>2, <1>3, <1>4, <1>5, <1>6 DEF Next

\* Outcomes, projections, proposals and skills keep their types, and every delivery
\* and every resolution in progress is about objects that exist.
THEOREM TypeCorrect == Spec => []TypeOK
<1>1. Spec => []TypeInv BY InitTypes, TypeStep, PTL DEF Spec
<1>2. TypeInv => TypeOK BY DEF TypeInv
<1> QED BY <1>1, <1>2, PTL

-----------------------------------------------------------------------------
(* Two terminal records never judge one evaluation. *)

RecordsSettle ==
  /\ IsFiniteSet(records)
  /\ \A r \in records : r.evaluation <= Len(evaluations)
  /\ \A q, r \in records :
       q.kind \in Terminal /\ r.kind \in Terminal /\ q.evaluation = r.evaluation
         => q = r

\* An outcome on its way to its record is the first one of its evaluation.
FrameSettles ==
  exec.pc \in {"emit", "record"} =>
    /\ exec.record.evaluation <= Len(evaluations)
    /\ exec.record.kind \in Terminal
         => ~Judged(exec.record.evaluation) /\ exec.then = "none"
    /\ exec.then # "none"
         => exec.record.subject <= Len(evaluations) /\ ~Judged(exec.record.subject)

SettleInv == TypeInv /\ RecordsSettle /\ FrameSettles

\* An evaluation is new as long as no record has its number.
LEMMA NewIsUnjudged ==
  ASSUME SettleInv PROVE NewEvaluation \in Nat /\ ~Judged(NewEvaluation)
<1>1. Len(evaluations) \in Nat BY DEF SettleInv, TypeInv, TypeOK
<1>2. \A r \in records : r.evaluation \in Nat
  BY DEF SettleInv, TypeInv, TypeOK, Record
<1> QED BY <1>1, <1>2 DEF SettleInv, RecordsSettle, NewEvaluation, Judged

LEMMA RecordsKept ==
  ASSUME SettleInv, UNCHANGED records, evaluations' \in Seq(Artifacts),
         Len(evaluations') >= Len(evaluations)
  PROVE  RecordsSettle' /\ \A e : Judged(e)' <=> Judged(e)
<1>1. Len(evaluations) \in Nat /\ Len(evaluations') \in Nat
  BY DEF SettleInv, TypeInv, TypeOK
<1>2. \A r \in records : r.evaluation \in Nat
  BY DEF SettleInv, TypeInv, TypeOK, Record
<1> QED BY <1>1, <1>2 DEF SettleInv, RecordsSettle, Judged

LEMMA BeginSettles ==
  ASSUME SettleInv, TypeInv', UNCHANGED records, Len(evaluations') >= Len(evaluations),
         NEW r, NEW then, exec' = Emitting(r, then),
         r.evaluation <= Len(evaluations'),
         r.kind \in Terminal => ~Judged(r.evaluation) /\ then = "none",
         then # "none" => r.subject <= Len(evaluations') /\ ~Judged(r.subject)
  PROVE  SettleInv'
<1>1. evaluations' \in Seq(Artifacts) BY DEF TypeInv, TypeOK
<1>2. RecordsSettle' /\ \A e : Judged(e)' <=> Judged(e) BY <1>1, RecordsKept
<1>3. exec'.record = r /\ exec'.then = then BY DEF Emitting
<1>4. FrameSettles' BY <1>2, <1>3 DEF FrameSettles, Judged
<1> QED BY <1>2, <1>4 DEF SettleInv

LEMMA NoFrameSettles ==
  ASSUME SettleInv, TypeInv', UNCHANGED records, Len(evaluations') >= Len(evaluations),
         exec'.pc \notin {"emit", "record"}
  PROVE  SettleInv'
<1>1. evaluations' \in Seq(Artifacts) BY DEF TypeInv, TypeOK
<1> QED BY <1>1, RecordsKept DEF SettleInv, FrameSettles

LEMMA EmitSettles == ASSUME SettleInv, TypeInv', EmitOutcome PROVE SettleInv'
<1>1. exec \in Recordings BY FrameKinds DEF EmitOutcome, SettleInv, TypeInv
<1>2. exec'.record = exec.record /\ exec'.then = exec.then
  BY <1>1 DEF EmitOutcome, Recordings
<1>3. exec.pc = "emit" /\ UNCHANGED <<records, evaluations>> BY DEF EmitOutcome
<1> QED BY <1>2, <1>3 DEF SettleInv, RecordsSettle, FrameSettles, Judged

LEMMA AddRecordSettles == ASSUME SettleInv, TypeInv', AddRecord PROVE SettleInv'
<1> DEFINE r == exec.record
<1>1. /\ exec \in Recordings /\ r \in Record /\ exec.pc = "record"
      /\ records' = records \cup {r} /\ UNCHANGED evaluations
  BY FrameKinds DEF AddRecord, SettleInv, TypeInv, Recordings
<1>2. IsFiniteSet(records') BY <1>1, FS_AddElement DEF SettleInv, RecordsSettle
<1>3. /\ r.evaluation <= Len(evaluations)
      /\ r.kind \in Terminal => ~Judged(r.evaluation) /\ exec.then = "none"
      /\ exec.then # "none" => r.subject <= Len(evaluations) /\ ~Judged(r.subject)
  BY <1>1 DEF SettleInv, FrameSettles
<1>4. RecordsSettle' BY <1>1, <1>2, <1>3 DEF SettleInv, RecordsSettle, Judged
<1>5. CASE exec.then = "none"
  BY <1>4, <1>5 DEF AddRecord, Idle, SettleInv, FrameSettles
<1>6. CASE exec.then # "none"
  <2>1. exec' = Emitting(TerminalRecord(exec.then, r.artifact, r.subject), "none")
    BY <1>6 DEF AddRecord
  <2>2. /\ exec'.record.evaluation = r.subject /\ exec'.then = "none"
    BY <2>1 DEF Emitting, TerminalRecord
  <2>3. r.kind \notin Terminal BY <1>3, <1>6
  <2>4. \A q \in records' : ~(q.kind \in Terminal /\ q.evaluation = r.subject)
    BY <1>1, <1>3, <1>6, <2>3 DEF Judged
  <2>5. FrameSettles' BY <1>1, <1>3, <1>6, <2>2, <2>4 DEF FrameSettles, Judged
  <2> QED BY <1>4, <2>5 DEF SettleInv
<1> QED BY <1>5, <1>6

LEMMA CallSettles ==
  ASSUME SettleInv, TypeInv', Outcome, ~EmitOutcome, ~AddRecord
  PROVE  SettleInv'
<1>1. evaluations \in Seq(Artifacts) /\ Len(evaluations) \in Nat
  BY DEF SettleInv, TypeInv, TypeOK
<1>2. ASSUME NEW a \in Artifacts, NEW kind \in Terminal, ExplicitVerdict(a, kind)
      PROVE  SettleInv'
  <2>1. Len(evaluations') = NewEvaluation /\ NewEvaluation > Len(evaluations)
    BY <1>1, <1>2 DEF ExplicitVerdict, NewEvaluation
  <2> QED BY <1>1, <1>2, <2>1, NewIsUnjudged, BeginSettles
          DEF ExplicitVerdict, TerminalRecord
<1>3. ASSUME NEW e \in 1..Len(evaluations), NEW kind \in Terminal, VerdictOn(e, kind)
      PROVE  SettleInv'
  BY <1>1, <1>3, BeginSettles DEF VerdictOn, TerminalRecord
<1>4. ASSUME NEW e \in 1..Len(evaluations), NEW kind \in Terminal,
             SupersedeEvaluation(e, kind)
      PROVE  SettleInv'
  <2> DEFINE r == [kind |-> "superseded", artifact |-> evaluations[e], evaluation |-> e,
                   subject |-> NewEvaluation]
  <2>1. /\ Len(evaluations') = NewEvaluation /\ NewEvaluation > Len(evaluations)
        /\ UNCHANGED records /\ exec' = Emitting(r, kind)
    BY <1>1, <1>4 DEF SupersedeEvaluation, NewEvaluation
  <2>2. r.kind \notin Terminal /\ r.evaluation = e /\ r.subject = NewEvaluation
    BY DEF Terminal
  <2> HIDE DEF r
  <2> QED BY <1>1, <1>4, <2>1, <2>2, NewIsUnjudged, BeginSettles
<1>5. ASSUME NEW a \in Artifacts, NEW kind \in Terminal \cup {"contradicted"},
             NEW revision \in Revisions \cup {0}, Judge(a, kind, revision)
      PROVE  SettleInv'
  <2>1. exec'.pc = "idle" /\ Len(evaluations') >= Len(evaluations) /\ UNCHANGED records
    BY <1>1, <1>5 DEF Judge, Ready, Idle
  <2> QED BY <2>1, NoFrameSettles
<1>6. ASSUME NEW a \in Artifacts, NEW kind \in Maintenance,
             NEW revision \in Revisions, MaintenanceOutcome(a, kind, revision)
      PROVE  SettleInv'
  <2> DEFINE r == [kind |-> kind, artifact |-> a, evaluation |-> 0, subject |-> revision]
  <2>1. UNCHANGED <<records, evaluations>> /\ exec' = Emitting(r, "none")
    BY <1>6 DEF MaintenanceOutcome
  <2>2. r.kind \notin Terminal /\ r.evaluation = 0
    BY <1>6 DEF Terminal, Maintenance
  <2> HIDE DEF r
  <2> QED BY <1>1, <2>1, <2>2, BeginSettles
<1> QED BY <1>2, <1>3, <1>4, <1>5, <1>6 DEF Outcome

LEMMA CaptureSettles ==
  ASSUME SettleInv, TypeInv', EvaluationOutcomeCapture PROVE SettleInv'
<1> DEFINE d == Head(queue)
           r == [kind |-> d.kind, artifact |-> evaluations[d.evaluation],
                 evaluation |-> d.evaluation, subject |-> d.subject]
<1>1. /\ queue \in Seq(Delivery) /\ queue # <<>> /\ Len(evaluations) \in Nat
      /\ UNCHANGED <<evaluations, records>>
  BY QueueType DEF SettleInv, TypeInv, TypeOK, EvaluationOutcomeCapture, Fires
<1>2. d.evaluation \in 1..Len(evaluations)
  BY <1>1, HeadAndTail
     DEF EvaluationOutcomeCapture, Fires, SettleInv, TypeInv, RefersOK, DeliveryRefers
<1>3. \/ exec' = Idle
      \/ /\ exec' = Emitting(r, "none")
         /\ d.kind \in Terminal => ~Judged(d.evaluation)
  BY DEF EvaluationOutcomeCapture
<1>4. r.evaluation = d.evaluation /\ r.kind = d.kind OBVIOUS
<1> HIDE DEF r, d
<1>5. CASE exec' = Idle BY <1>1, <1>5, NoFrameSettles DEF Idle
<1>6. CASE exec' # Idle BY <1>1, <1>2, <1>3, <1>4, <1>6, BeginSettles
<1> QED BY <1>5, <1>6

LEMMA SettleStep == ASSUME SettleInv, [Next]_vars PROVE SettleInv'
<1>1. TypeInv' BY TypeStep DEF SettleInv
<1>2. Len(evaluations) \in Nat BY DEF SettleInv, TypeInv, TypeOK
<1>3. CASE Outcome BY <1>1, <1>3, CallSettles, EmitSettles, AddRecordSettles
<1>4. CASE Resolution
  <2>1. exec'.pc \notin {"emit", "record"} /\ UNCHANGED <<records, evaluations>>
    <3>1. CASE PatchItem
      <4>1. exec \in Resolutions
        BY <3>1, FrameKinds DEF PatchItem, SettleInv, TypeInv
      <4> QED BY <3>1, <4>1 DEF PatchItem, Resolutions
    <3> QED BY <1>4, <3>1
            DEF Resolution, RejectPromotion, ApprovePromotion, PatchProposal, Ready, Idle
  <2> QED BY <1>1, <1>2, <2>1, NoFrameSettles
<1>5. CASE SkillCall
  <2>1. exec'.pc = "idle" /\ UNCHANGED <<records, evaluations>>
    BY <1>5 DEF SkillCall, RecordPromotionEvidence, PromoteSkill, SetIneligible, Ready,
                Idle
  <2> QED BY <1>1, <1>2, <2>1, NoFrameSettles
<1>6. CASE Drain /\ ~EvaluationOutcomeCapture
  <2>1. exec'.pc = "idle" /\ UNCHANGED <<records, evaluations>>
    BY <1>6 DEF Drain, ArtifactReliabilityProjector, MemoryReliabilityApplier,
                MemoryPromotionProposer, SkillReliabilityEligibility, Fires, Ready, Idle
  <2> QED BY <1>1, <1>2, <2>1, NoFrameSettles
<1>7. CASE EvaluationOutcomeCapture BY <1>1, <1>7, CaptureSettles
<1>8. CASE CrashRestart BY <1>1, <1>2, <1>8, NoFrameSettles DEF CrashRestart, Idle
<1>9. CASE UNCHANGED vars
  BY <1>1, <1>9 DEF vars, SettleInv, RecordsSettle, FrameSettles, Judged
<1> QED BY <1>3, <1>4, <1>5, <1>6, <1>7, <1>8, <1>9 DEF Next

-----------------------------------------------------------------------------
(* Helped outcomes: announced, recorded, counted. *)

Helps(d, a) ==
  d.to = "artifact_reliability_projector" /\ d.artifact = a /\ d.kind = "helped"
\* Announcements of help the projector has not seen.
Outstanding(q, a) == {k \in 1..Len(q) : Helps(q[k], a)}

LEMMA OutstandingFinite ==
  ASSUME NEW S, NEW q \in Seq(S), NEW a
  PROVE  IsFiniteSet(Outstanding(q, a)) /\ Cardinality(Outstanding(q, a)) \in Nat
<1>1. IsFiniteSet(1..Len(q)) BY FS_Interval
<1>2. Outstanding(q, a) \in SUBSET (1..Len(q)) BY DEF Outstanding
<1> QED BY <1>1, <1>2, FS_Subset, FS_CardinalityType

LEMMA OutstandingNone ==
  ASSUME NEW a PROVE Cardinality(Outstanding(<<>>, a)) = 0
<1>1. Outstanding(<<>>, a) = {} BY DEF Outstanding
<1> QED BY <1>1, FS_EmptySet

LEMMA OutstandingAppend ==
  ASSUME NEW S, NEW q \in Seq(S), NEW d \in S, NEW a
  PROVE  Cardinality(Outstanding(Append(q, d), a)) =
           Cardinality(Outstanding(q, a)) + (IF Helps(d, a) THEN 1 ELSE 0)
<1> DEFINE t == Append(q, d)
           n == Len(q)
<1>1. /\ n \in Nat /\ Len(t) = n + 1 /\ t[n + 1] = d
      /\ \A k \in 1..n : t[k] = q[k]
  OBVIOUS
<1> HIDE DEF t
<1>2. IsFiniteSet(Outstanding(q, a)) /\ Cardinality(Outstanding(q, a)) \in Nat
  BY OutstandingFinite
<1>5. n + 1 \notin Outstanding(q, a) BY <1>1 DEF Outstanding
<1>3. CASE Helps(d, a)
  <2>1. Outstanding(t, a) = Outstanding(q, a) \cup {n + 1}
    BY <1>1, <1>3 DEF Outstanding
  <2> QED BY <1>2, <1>3, <1>5, <2>1, FS_AddElement DEF t
<1>4. CASE ~Helps(d, a)
  <2>1. Outstanding(t, a) = Outstanding(q, a)
    BY <1>1, <1>4 DEF Outstanding
  <2> QED BY <1>2, <1>4, <2>1 DEF t
<1> QED BY <1>3, <1>4

LEMMA OutstandingTail ==
  ASSUME NEW S, NEW q \in Seq(S), q # <<>>, NEW a
  PROVE  Cardinality(Outstanding(Tail(q), a)) =
           Cardinality(Outstanding(q, a)) - (IF Helps(Head(q), a) THEN 1 ELSE 0)
<1> DEFINE t == Tail(q)
           old == Outstanding(q, a) \ {1}
           f == [k \in Outstanding(t, a) |-> k + 1]
<1>1. /\ Head(q) = q[1] /\ 1 \in 1..Len(q) /\ t \in Seq(S) /\ Len(t) = Len(q) - 1
      /\ \A k \in 1..Len(t) : k + 1 \in 1..Len(q) /\ t[k] = q[k + 1]
  BY HeadAndTail
<1>2. Len(q) \in Nat /\ Len(t) \in Nat BY <1>1
<1> HIDE DEF t
<1>3. f \in [Outstanding(t, a) -> old]
  BY <1>1, <1>2 DEF Outstanding
<1>4. \A k, l \in Outstanding(t, a) : f[k] = f[l] => k = l
  BY <1>1, <1>2 DEF Outstanding
<1>5. \A m \in old : \E k \in Outstanding(t, a) : f[k] = m
  <2> SUFFICES ASSUME NEW m \in old PROVE m - 1 \in Outstanding(t, a) /\ f[m - 1] = m
    OBVIOUS
  <2>1. m \in 2..Len(q) /\ Helps(q[m], a) BY <1>2 DEF Outstanding
  <2>2. m - 1 \in 1..Len(t) /\ t[m - 1] = q[(m - 1) + 1] BY <1>1, <1>2, <2>1
  <2>3. (m - 1) + 1 = m BY <2>1
  <2> QED BY <2>1, <2>2, <2>3 DEF Outstanding
<1> HIDE DEF f
<1>6. f \in Bijection(Outstanding(t, a), old)
  BY <1>3, <1>4, <1>5 DEF Bijection, Injection, IsInjective, Surjection
<1>7. IsFiniteSet(Outstanding(t, a)) BY <1>1, OutstandingFinite
<1>8. Cardinality(old) = Cardinality(Outstanding(t, a))
  BY <1>6, <1>7, FS_Bijection DEF ExistsBijection
<1>9. IsFiniteSet(Outstanding(q, a)) BY OutstandingFinite
<1>10. 1 \in Outstanding(q, a) <=> Helps(Head(q), a) BY <1>1 DEF Outstanding
<1>11. Cardinality(Outstanding(q, a)) \in Nat BY OutstandingFinite
<1>12. Cardinality(old) = IF 1 \in Outstanding(q, a)
                        THEN Cardinality(Outstanding(q, a)) - 1
                        ELSE Cardinality(Outstanding(q, a))
  BY <1>9, FS_RemoveElement
<1> HIDE DEF old
<1>13. Cardinality(Outstanding(t, a)) =
         Cardinality(Outstanding(q, a)) - (IF Helps(Head(q), a) THEN 1 ELSE 0)
  <2>1. CASE Helps(Head(q), a) BY <1>8, <1>10, <1>11, <1>12, <2>1
  <2>2. CASE ~Helps(Head(q), a) BY <1>8, <1>10, <1>11, <1>12, <2>2
  <2> QED BY <2>1, <2>2
<1> QED BY <1>13 DEF t

LEMMA OutstandingConcat ==
  ASSUME NEW S, NEW q \in Seq(S), NEW news \in Seq(S), NEW a,
         \A k \in 1..Len(news) : ~Helps(news[k], a)
  PROVE  Outstanding(q \o news, a) = Outstanding(q, a)
<1> DEFINE t == q \o news
<1>1. /\ Len(q) \in Nat /\ Len(news) \in Nat /\ Len(t) = Len(q) + Len(news)
      /\ \A k \in 1..Len(q) : t[k] = q[k]
      /\ \A k \in 1..Len(t) : k \in 1..Len(q)
            \/ (k - Len(q) \in 1..Len(news) /\ t[k] = news[k - Len(q)])
  OBVIOUS
<1> HIDE DEF t
<1>2. \A k \in 1..Len(q) : k \in 1..Len(t) BY <1>1
<1>3. \A k \in 1..Len(t) : Helps(t[k], a) => k \in 1..Len(q) /\ Helps(q[k], a)
  BY <1>1
<1>4. \A k \in 1..Len(q) : Helps(q[k], a) => k \in 1..Len(t) /\ Helps(t[k], a)
  BY <1>1, <1>2
<1>5. Outstanding(t, a) = Outstanding(q, a) BY <1>3, <1>4 DEF Outstanding
<1> QED BY <1>5 DEF t

\* The help announced whose record is being added.
Pending(a) ==
  IF exec.pc = "record" /\ exec.record.kind = "helped" /\ exec.record.artifact = a
  THEN 1 ELSE 0

TallyCovered ==
  \A a \in Artifacts :
    /\ reliability[a].helped <= Cardinality(Helping(a))
    /\ reliability[a].helped + Cardinality(Outstanding(queue, a))
         <= Cardinality(Helping(a)) + Pending(a)

\* What the proposer will read was true when it was sent, and records stay.
HelpedTimes == [a \in Artifacts |-> Cardinality(Helping(a))]
Covered(d, times) ==
  d.to = "memory_promotion_proposer" => d.helped <= times[d.artifact]
QueueCovered == \A k \in 1..Len(queue) : Covered(queue[k], HelpedTimes)

Earned(i) == Cardinality(Helping(i)) >= 2
StatusEarned ==
  /\ \A p \in 1..Len(proposals) : Earned(proposals[p].item)
  /\ \A i \in Items : items[i].status # "admitted" => Earned(i)

EarnedInv == SettleInv /\ TallyCovered /\ QueueCovered /\ StatusEarned

LEMMA HelpingFinite ==
  ASSUME RecordsSettle, NEW a
  PROVE  IsFiniteSet(Helping(a)) /\ Cardinality(Helping(a)) \in Nat
<1>1. Helping(a) \in SUBSET records BY DEF Helping
<1> QED BY <1>1, FS_Subset, FS_CardinalityType DEF RecordsSettle

LEMMA RecordsGrow == ASSUME [Next]_vars PROVE records \subseteq records'
  BY DEF Next, vars, Outcome, Resolution, SkillCall, Drain, ExplicitVerdict, VerdictOn,
         SupersedeEvaluation, Judge, MaintenanceOutcome, EmitOutcome, AddRecord,
         EvaluationOutcomeCapture, ArtifactReliabilityProjector,
         MemoryReliabilityApplier, MemoryPromotionProposer, RejectPromotion,
         ApprovePromotion, PatchItem, PatchProposal, RecordPromotionEvidence,
         PromoteSkill, SetIneligible, SkillReliabilityEligibility, CrashRestart

LEMMA HelpingGrows ==
  ASSUME SettleInv, SettleInv', [Next]_vars, NEW a
  PROVE  /\ Cardinality(Helping(a)) <= Cardinality(Helping(a)')
         /\ Cardinality(Helping(a)') \in Nat
<1>1. Helping(a) \in SUBSET (Helping(a)') BY RecordsGrow DEF Helping
<1>2. IsFiniteSet(Helping(a)')
  <2>1. Helping(a)' \in SUBSET (records') BY DEF Helping
  <2>2. IsFiniteSet(records') BY DEF SettleInv, RecordsSettle
  <2> QED BY <2>1, <2>2, FS_Subset
<1> QED BY <1>1, <1>2, FS_Subset, FS_CardinalityType

\* A record of help is a new one.
LEMMA HelpingAdds ==
  ASSUME SettleInv, AddRecord, NEW a
  PROVE  Cardinality(Helping(a)') = Cardinality(Helping(a)) + Pending(a)
<1> DEFINE r == exec.record
<1>1. /\ exec.pc = "record" /\ records' = records \cup {r} BY DEF AddRecord
<1>2. IsFiniteSet(Helping(a)) /\ Cardinality(Helping(a)) \in Nat
  BY HelpingFinite DEF SettleInv
<1>3. CASE r.kind = "helped" /\ r.artifact = a
  <2>1. ~Judged(r.evaluation)
    BY <1>1, <1>3 DEF SettleInv, FrameSettles, Terminal
  <2>2. r \notin Helping(a) BY <1>3, <2>1 DEF Judged, Helping, Terminal
  <2>3. Helping(a)' = Helping(a) \cup {r} BY <1>1, <1>3 DEF Helping
  <2>4. Cardinality(Helping(a) \cup {r}) = Cardinality(Helping(a)) + 1
    BY <1>2, <2>2, FS_AddElement
  <2> QED BY <1>1, <1>3, <2>3, <2>4 DEF Pending
<1>4. CASE ~(r.kind = "helped" /\ r.artifact = a)
  <2>1. Helping(a)' = Helping(a) BY <1>1, <1>4 DEF Helping
  <2> QED BY <1>2, <1>4, <2>1 DEF Pending
<1> QED BY <1>3, <1>4

LEMMA TallyTypes ==
  ASSUME SettleInv, NEW a \in Artifacts
  PROVE  /\ reliability[a].helped \in Nat /\ Cardinality(Helping(a)) \in Nat
         /\ Cardinality(Outstanding(queue, a)) \in Nat /\ Pending(a) \in {0, 1}
<1>1. reliability[a].helped \in Nat BY DEF SettleInv, TypeInv, TypeOK
<1>2. Cardinality(Outstanding(queue, a)) \in Nat
  BY QueueType, OutstandingFinite DEF SettleInv, TypeInv
<1> QED BY <1>1, <1>2, HelpingFinite DEF SettleInv, Pending

\* A step that tells the projector of nothing keeps the tally covered.
LEMMA TallyKept ==
  ASSUME SettleInv, SettleInv', TallyCovered, UNCHANGED <<reliability, records>>,
         exec.pc # "record" \/ exec' = exec,
         \A a \in Artifacts :
           Cardinality(Outstanding(queue', a)) <= Cardinality(Outstanding(queue, a))
  PROVE  TallyCovered'
<1> SUFFICES ASSUME NEW a \in Artifacts
             PROVE  /\ reliability[a].helped <= Cardinality(Helping(a)')
                    /\ reliability[a].helped + Cardinality(Outstanding(queue', a))
                         <= Cardinality(Helping(a)') + Pending(a)'
  BY DEF TallyCovered
<1>1. /\ reliability[a].helped \in Nat /\ Cardinality(Helping(a)) \in Nat
      /\ Cardinality(Outstanding(queue, a)) \in Nat
  BY TallyTypes
<1>2. Cardinality(Outstanding(queue', a)) \in Nat
  <2>1. queue' \in Seq(Delivery) BY DEF SettleInv, TypeInv, TypeOK, Delivery
  <2> QED BY <2>1, OutstandingFinite
<1>3. Pending(a)' \in {0, 1} /\ (Pending(a)' = Pending(a) \/ Pending(a) = 0)
  BY DEF Pending
<1>4. Helping(a)' = Helping(a) BY DEF Helping
<1>5. /\ reliability[a].helped <= Cardinality(Helping(a))
      /\ reliability[a].helped + Cardinality(Outstanding(queue, a))
           <= Cardinality(Helping(a)) + Pending(a)
  BY DEF TallyCovered
<1>6. Cardinality(Outstanding(queue', a)) <= Cardinality(Outstanding(queue, a))
  OBVIOUS
<1>7. reliability[a].helped + Cardinality(Outstanding(queue', a))
        <= Cardinality(Helping(a)) + Pending(a)'
  <2>1. CASE Pending(a)' = Pending(a) BY <1>1, <1>2, <1>3, <1>5, <1>6, <2>1
  <2>2. CASE Pending(a) = 0 BY <1>1, <1>2, <1>3, <1>5, <1>6, <2>2
  <2> QED BY <1>3, <2>1, <2>2
<1> QED BY <1>4, <1>5, <1>7

LEMMA EmitCovers ==
  ASSUME SettleInv, SettleInv', TallyCovered, EmitOutcome PROVE TallyCovered'
<1> DEFINE d == [to |-> "artifact_reliability_projector",
                 artifact |-> exec.record.artifact, kind |-> exec.record.kind]
<1>1. /\ exec.pc = "emit" /\ queue' = Append(queue, d)
      /\ exec' = [exec EXCEPT !.pc = "record"] /\ UNCHANGED <<reliability, records>>
  BY DEF EmitOutcome
<1>2. exec \in Recordings BY <1>1, FrameKinds DEF SettleInv, TypeInv
<1>3. queue \in Seq(Delivery) /\ d \in Delivery
  BY <1>2, QueueType DEF SettleInv, TypeInv, Recordings, Record, Delivery, Announcements
<1>4. exec'.pc = "record" /\ exec'.record = exec.record
  BY <1>1, <1>2 DEF Recordings
<1> SUFFICES ASSUME NEW a \in Artifacts
             PROVE  /\ reliability[a].helped <= Cardinality(Helping(a))
                    /\ reliability[a].helped + Cardinality(Outstanding(queue', a))
                         <= Cardinality(Helping(a)) + Pending(a)'
  BY <1>1 DEF TallyCovered, Helping
<1>5. Pending(a) = 0 /\ Pending(a)' = IF Helps(d, a) THEN 1 ELSE 0
  BY <1>1, <1>4 DEF Pending, Helps
<1> HIDE DEF d
<1>6. Cardinality(Outstanding(queue', a)) =
        Cardinality(Outstanding(queue, a)) + Pending(a)'
  BY <1>1, <1>3, <1>5, OutstandingAppend
<1>7. Pending(a)' \in {0, 1} BY <1>5
<1> QED BY <1>5, <1>6, <1>7, TallyTypes DEF TallyCovered

LEMMA AddRecordCovers ==
  ASSUME SettleInv, SettleInv', TallyCovered, AddRecord PROVE TallyCovered'
<1>1. UNCHANGED <<reliability, queue>> BY DEF AddRecord
<1>2. exec'.pc # "record" BY DEF AddRecord, Idle, Emitting
<1> SUFFICES ASSUME NEW a \in Artifacts
             PROVE  /\ reliability[a].helped <= Cardinality(Helping(a)')
                    /\ reliability[a].helped + Cardinality(Outstanding(queue, a))
                         <= Cardinality(Helping(a)') + Pending(a)'
  BY <1>1 DEF TallyCovered
<1>3. Pending(a)' = 0 BY <1>2 DEF Pending
<1>4. Cardinality(Helping(a)') = Cardinality(Helping(a)) + Pending(a) BY HelpingAdds
<1> QED BY <1>3, <1>4, TallyTypes DEF TallyCovered

\* What the projector sends is never an announcement.
LEMMA ProjectorSends ==
  ASSUME SettleInv, ArtifactReliabilityProjector
  PROVE  \E news \in Seq(Changes) :
           /\ queue' = Tail(queue) \o news
           /\ \A k \in 1..Len(news) :
                /\ news[k].to # "artifact_reliability_projector"
                /\ news[k].artifact = Head(queue).artifact
                /\ news[k].helped = reliability'[Head(queue).artifact].helped
<1> DEFINE d == Head(queue)
           a == d.artifact
           h == Tally(reliability[a].helped, d.kind)
           v == Verdict(d.kind)
           news == [k \in 1..Len(HeardBy(a)) |->
                      [to |-> HeardBy(a)[k], artifact |-> a, verdict |-> v, helped |-> h]]
<1>1. queue \in Seq(Delivery) /\ queue # <<>>
  BY QueueType DEF SettleInv, TypeInv, ArtifactReliabilityProjector, Fires
<1>2. d \in Announcements
  BY <1>1, HeadAndTail, DeliveryKinds DEF ArtifactReliabilityProjector, Fires
<1>3. a \in Artifacts BY <1>2 DEF Announcements
<1>4. v \in Verdicts BY <1>2 DEF Announcements, Kinds, Maintenance, Terminal, Verdict, Verdicts
<1>5. h \in Nat BY <1>3 DEF SettleInv, TypeInv, TypeOK, Tally
<1>6. queue' = Tail(queue) \o news
      /\ reliability' = [reliability EXCEPT ![a] = [helped |-> h, verdict |-> v]]
  BY DEF ArtifactReliabilityProjector
<1>7. reliability'[a].helped = h BY <1>3, <1>6 DEF SettleInv, TypeInv, TypeOK
<1>8. /\ news \in Seq(Changes)
      /\ \A k \in 1..Len(news) : /\ news[k].to # "artifact_reliability_projector"
                                 /\ news[k].artifact = a /\ news[k].helped = h
  <2>1. CASE a \in Items BY <2>1, <1>3, <1>4, <1>5 DEF HeardBy, Changes
  <2>2. CASE a \notin Items BY <2>2, <1>3, <1>4, <1>5 DEF HeardBy, Changes
  <2> QED BY <2>1, <2>2
<1> HIDE DEF news, h
<1> QED BY <1>6, <1>7, <1>8

LEMMA ProjectorCovers ==
  ASSUME SettleInv, SettleInv', TallyCovered, ArtifactReliabilityProjector
  PROVE  TallyCovered'
<1> DEFINE d == Head(queue)
<1>1. /\ queue \in Seq(Delivery) /\ queue # <<>> /\ exec = Idle
      /\ d.to = "artifact_reliability_projector" /\ UNCHANGED <<exec, records>>
  BY QueueType DEF SettleInv, TypeInv, ArtifactReliabilityProjector, Fires, Ready
<1>2. Tail(queue) \in Seq(Delivery) BY <1>1, HeadAndTail
<1> SUFFICES ASSUME NEW a \in Artifacts
             PROVE  /\ reliability'[a].helped <= Cardinality(Helping(a))
                    /\ reliability'[a].helped + Cardinality(Outstanding(queue', a))
                         <= Cardinality(Helping(a)) + Pending(a)'
  BY <1>1 DEF TallyCovered, Helping
<1>3. Pending(a) = 0 /\ Pending(a)' = 0 BY <1>1 DEF Pending, Idle
<1>4. Outstanding(queue', a) = Outstanding(Tail(queue), a)
  <2>1. PICK news \in Seq(Changes) :
          /\ queue' = Tail(queue) \o news
          /\ \A k \in 1..Len(news) : news[k].to # "artifact_reliability_projector"
    BY ProjectorSends
  <2>2. news \in Seq(Delivery) BY DEF Delivery
  <2> QED BY <1>2, <2>1, <2>2, OutstandingConcat DEF Helps
<1> DEFINE one == IF Helps(d, a) THEN 1 ELSE 0
<1>5. Cardinality(Outstanding(queue', a)) = Cardinality(Outstanding(queue, a)) - one
  BY <1>1, <1>4, OutstandingTail
<1>6. Cardinality(Outstanding(queue', a)) \in Nat BY <1>2, <1>4, OutstandingFinite
<1>7. reliability'[a].helped = reliability[a].helped + one
  <2>1. reliability' =
          [reliability EXCEPT ![d.artifact] =
             [helped |-> Tally(reliability[d.artifact].helped, d.kind),
              verdict |-> Verdict(d.kind)]]
    BY DEF ArtifactReliabilityProjector
  <2>2. reliability[a].helped \in Nat BY TallyTypes
  <2>3. CASE d.artifact = a
    <3>1. reliability'[a].helped = Tally(reliability[a].helped, d.kind)
      BY <2>1, <2>3 DEF SettleInv, TypeInv, TypeOK
    <3> QED BY <1>1, <2>2, <2>3, <3>1 DEF Tally, Helps
  <2>4. CASE d.artifact # a
    <3>1. reliability'[a] = reliability[a]
      BY <2>1, <2>4 DEF SettleInv, TypeInv, TypeOK
    <3> QED BY <2>2, <2>4, <3>1 DEF Helps
  <2> QED BY <2>3, <2>4
<1>8. one \in {0, 1} OBVIOUS
<1> HIDE DEF one
<1>9. reliability[a].helped + Cardinality(Outstanding(queue, a)) <= Cardinality(Helping(a))
  BY <1>3, TallyTypes DEF TallyCovered
<1> QED BY <1>3, <1>5, <1>6, <1>7, <1>8, <1>9, TallyTypes

LEMMA CaptureType ==
  ASSUME NEW kind \in Kinds, NEW subject \in Nat, SettleInv
  PROVE  Capture(NewEvaluation, kind, subject) \in Captures
  BY DEF Capture, Captures, NewEvaluation, SettleInv, TypeInv, TypeOK

\* Every step but those about the announcement and the record of an outcome.
LEMMA OtherSteps ==
  ASSUME SettleInv, [Next]_vars, ~EmitOutcome, ~AddRecord, ~ArtifactReliabilityProjector
  PROVE  /\ UNCHANGED <<reliability, records>>
         /\ exec.pc # "record" \/ exec' = exec \/ queue' = <<>>
         /\ \/ queue' = queue \/ queue' = <<>> \/ (queue # <<>> /\ queue' = Tail(queue))
            \/ \E d \in Captures : queue' = Append(queue, d)
<1>1. CASE Outcome
  <2>1. Kinds = Terminal \cup Maintenance /\ "contradicted" \in Kinds
        /\ Revisions \cup {0} \subseteq Nat
    BY ReliabilityAssumption DEF ReliabilityAssumption, Kinds, Maintenance
  <2>2. ASSUME NEW a \in Artifacts, NEW kind \in Terminal, ExplicitVerdict(a, kind)
        PROVE  \E d \in Captures : queue' = Append(queue, d)
    BY <2>1, <2>2, CaptureType DEF ExplicitVerdict
  <2>3. ASSUME NEW a \in Artifacts, NEW kind \in Terminal \cup {"contradicted"},
               NEW revision \in Revisions \cup {0}, Judge(a, kind, revision)
        PROVE  \E d \in Captures : queue' = Append(queue, d)
    <3>1. kind \in Kinds /\ revision \in Nat BY <2>1
    <3> QED BY <2>3, <3>1, CaptureType DEF Judge
  <2>4. UNCHANGED <<reliability, records>> /\ exec = Idle
    BY <1>1 DEF Outcome, ExplicitVerdict, VerdictOn, SupersedeEvaluation, Judge,
                MaintenanceOutcome, Ready
  <2>5. \/ queue' = queue \/ \E d \in Captures : queue' = Append(queue, d)
    BY <1>1, <2>2, <2>3 DEF Outcome, VerdictOn, SupersedeEvaluation, MaintenanceOutcome
  <2> QED BY <2>4, <2>5 DEF Idle
<1>2. CASE Resolution
  BY <1>2 DEF Resolution, RejectPromotion, ApprovePromotion, PatchItem, PatchProposal,
              Ready, Idle
<1>3. CASE SkillCall
  BY <1>3 DEF SkillCall, RecordPromotionEvidence, PromoteSkill, SetIneligible
<1>4. CASE Drain
  BY <1>4 DEF Drain, EvaluationOutcomeCapture, MemoryReliabilityApplier,
              MemoryPromotionProposer, SkillReliabilityEligibility, Fires, Ready, Idle
<1>5. CASE CrashRestart BY <1>5 DEF CrashRestart
<1>6. CASE UNCHANGED vars BY <1>6 DEF vars
<1> QED BY <1>1, <1>2, <1>3, <1>4, <1>5, <1>6 DEF Next

LEMMA TallyStep ==
  ASSUME SettleInv, SettleInv', TallyCovered, [Next]_vars PROVE TallyCovered'
<1>1. CASE EmitOutcome BY <1>1, EmitCovers
<1>2. CASE AddRecord BY <1>2, AddRecordCovers
<1>3. CASE ArtifactReliabilityProjector BY <1>3, ProjectorCovers
<1>4. CASE ~EmitOutcome /\ ~AddRecord /\ ~ArtifactReliabilityProjector
  <2>1. queue \in Seq(Delivery) BY QueueType DEF SettleInv, TypeInv
  <2>2. /\ UNCHANGED <<reliability, records>>
        /\ exec.pc # "record" \/ exec' = exec \/ queue' = <<>>
        /\ \/ queue' = queue \/ queue' = <<>> \/ (queue # <<>> /\ queue' = Tail(queue))
           \/ \E d \in Captures : queue' = Append(queue, d)
    BY <1>4, OtherSteps
  <2>3. CASE queue' = <<>>
    <3> SUFFICES ASSUME NEW a \in Artifacts
                 PROVE  /\ reliability[a].helped <= Cardinality(Helping(a))
                        /\ reliability[a].helped + Cardinality(Outstanding(queue', a))
                             <= Cardinality(Helping(a)) + Pending(a)'
      BY <2>2 DEF TallyCovered, Helping
    <3>1. Cardinality(Outstanding(queue', a)) = 0 BY <2>3, OutstandingNone
    <3>2. reliability[a].helped <= Cardinality(Helping(a)) BY DEF TallyCovered
    <3>3. Pending(a)' \in {0, 1} BY DEF Pending
    <3> QED BY <3>1, <3>2, <3>3, TallyTypes
  <2>4. CASE queue' # <<>>
    <3>1. ASSUME NEW a \in Artifacts
          PROVE  Cardinality(Outstanding(queue', a)) <= Cardinality(Outstanding(queue, a))
      <4>1. Cardinality(Outstanding(queue, a)) \in Nat BY TallyTypes
      <4>2. CASE queue' = queue BY <4>1, <4>2
      <4>3. CASE queue # <<>> /\ queue' = Tail(queue)
        BY <2>1, <4>1, <4>3, OutstandingTail
      <4>4. ASSUME NEW d \in Captures, queue' = Append(queue, d)
            PROVE  Cardinality(Outstanding(queue', a)) = Cardinality(Outstanding(queue, a))
        <5>1. d \in Delivery /\ ~Helps(d, a) BY DEF Delivery, Captures, Helps
        <5> QED BY <2>1, <4>1, <4>4, <5>1, OutstandingAppend
      <4> QED BY <2>2, <2>4, <4>1, <4>2, <4>3, <4>4
    <3> QED BY <2>2, <2>4, <3>1, TallyKept
  <2> QED BY <2>3, <2>4
<1> QED BY <1>1, <1>2, <1>3, <1>4

LEMMA StillCovered ==
  ASSUME SettleInv, SettleInv', [Next]_vars, NEW d \in Delivery, Covered(d, HelpedTimes)
  PROVE  Covered(d, HelpedTimes')
<1>1. CASE d.to = "memory_promotion_proposer"
  <2>1. d.helped \in Nat /\ d.artifact \in Artifacts BY <1>1, DeliveryKinds DEF Changes
  <2>2. ASSUME NEW a \in Artifacts
        PROVE  /\ HelpedTimes[a] \in Nat /\ HelpedTimes'[a] \in Nat
               /\ HelpedTimes[a] <= HelpedTimes'[a]
    BY HelpingGrows, HelpingFinite DEF SettleInv, HelpedTimes
  <2> QED BY <1>1, <2>1, <2>2 DEF Covered
<1> QED BY <1>1 DEF Covered

LEMMA QueueCoveredStep ==
  ASSUME SettleInv, SettleInv', TallyCovered', QueueCovered, [Next]_vars
  PROVE  QueueCovered'
<1>1. queue \in Seq(Delivery) BY QueueType DEF SettleInv, TypeInv
<1>2. \A k \in 1..Len(queue) : queue[k] \in Delivery /\ Covered(queue[k], HelpedTimes')
  BY <1>1, StillCovered DEF QueueCovered
<1>3. CASE queue' = queue BY <1>2, <1>3 DEF QueueCovered
<1>4. CASE queue' = <<>> BY <1>4 DEF QueueCovered
<1>5. CASE queue # <<>> /\ queue' = Tail(queue)
  BY <1>1, <1>2, <1>5, HeadAndTail DEF QueueCovered
<1>6. ASSUME NEW d, d.to # "memory_promotion_proposer", queue' = Append(queue, d),
             d \in Delivery
      PROVE  QueueCovered'
  <2>1. \A k \in 1..Len(queue') : (k \in 1..Len(queue) /\ queue'[k] = queue[k]) \/ queue'[k] = d
    BY <1>1, <1>6
  <2> QED BY <1>2, <1>6, <2>1 DEF QueueCovered, Covered
<1>7. CASE ArtifactReliabilityProjector
  <2>1. PICK news \in Seq(Changes) :
          /\ queue' = Tail(queue) \o news
          /\ \A k \in 1..Len(news) :
               /\ news[k].artifact = Head(queue).artifact
               /\ news[k].helped = reliability'[Head(queue).artifact].helped
    BY <1>7, ProjectorSends
  <2>2. queue # <<>> /\ Head(queue) \in Announcements
    BY <1>1, <1>7, HeadAndTail, DeliveryKinds DEF ArtifactReliabilityProjector, Fires
  <2>3. Head(queue).artifact \in Artifacts BY <2>2 DEF Announcements
  <2>4. \A k \in 1..Len(news) : Covered(news[k], HelpedTimes')
    BY <2>1, <2>3 DEF Covered, TallyCovered, HelpedTimes
  <2> DEFINE old == Tail(queue)
  <2>5. old \in Seq(Delivery) /\ \A k \in 1..Len(old) : Covered(old[k], HelpedTimes')
    BY <1>1, <1>2, <2>2, HeadAndTail
  <2> HIDE DEF old
  <2>6. queue' = old \o news BY <2>1 DEF old
  <2>7. \A k \in 1..Len(queue') :
          \/ k \in 1..Len(old) /\ queue'[k] = old[k]
          \/ k - Len(old) \in 1..Len(news) /\ queue'[k] = news[k - Len(old)]
    BY <2>5, <2>6
  <2> QED BY <2>4, <2>5, <2>7 DEF QueueCovered
<1>8. CASE EmitOutcome
  <2>1. exec \in Recordings BY <1>8, FrameKinds DEF EmitOutcome, SettleInv, TypeInv
  <2>2. [to |-> "artifact_reliability_projector", artifact |-> exec.record.artifact,
         kind |-> exec.record.kind] \in Delivery
    BY <2>1 DEF Recordings, Record, Delivery, Announcements
  <2> QED BY <1>6, <1>8, <2>2 DEF EmitOutcome
<1>9. CASE AddRecord BY <1>3, <1>9 DEF AddRecord
<1> QED
  <2>1. \A d \in Captures : d \in Delivery /\ d.to # "memory_promotion_proposer"
    BY DEF Delivery, Captures
  <2> QED BY <1>3, <1>4, <1>5, <1>6, <1>7, <1>8, <1>9, <2>1, OtherSteps

LEMMA StillEarned ==
  ASSUME SettleInv, SettleInv', [Next]_vars, NEW i, Earned(i)
  PROVE  2 <= Cardinality(Helping(i)')
<1>1. Cardinality(Helping(i)) \in Nat BY HelpingFinite DEF SettleInv
<1> QED BY <1>1, HelpingGrows DEF Earned

EarnedItems == {i \in Items : Earned(i)}

LEMMA EarnedItemsGrow ==
  ASSUME SettleInv, SettleInv', [Next]_vars PROVE EarnedItems \subseteq EarnedItems'
<1> SUFFICES ASSUME NEW i \in Items, Earned(i) PROVE 2 <= Cardinality(Helping(i)')
  BY HelpingGrows DEF EarnedItems, Earned
<1> QED BY StillEarned

LEMMA StatusInItems ==
  ASSUME SettleInv
  PROVE  StatusEarned <=>
           /\ \A p \in 1..Len(proposals) : proposals[p].item \in EarnedItems
           /\ \A i \in Items : items[i].status # "admitted" => i \in EarnedItems
<1>1. \A p \in 1..Len(proposals) : proposals[p].item \in Items
  BY ProposalTypes DEF SettleInv, Proposal
<1> QED BY <1>1 DEF StatusEarned, EarnedItems

\* The proposer only proposes for an item that two helped outcomes earned.
LEMMA ProposerEarns ==
  ASSUME SettleInv, SettleInv', QueueCovered, StatusEarned, MemoryPromotionProposer
  PROVE  \A p \in 1..Len(proposals') : proposals'[p].item \in EarnedItems
<1> DEFINE d == Head(queue)
<1>1. /\ queue \in Seq(Delivery) /\ queue # <<>> /\ d.to = "memory_promotion_proposer"
  BY QueueType DEF SettleInv, TypeInv, MemoryPromotionProposer, Fires
<1>2. d \in Changes /\ d.artifact \in Items /\ Covered(d, HelpedTimes)
  BY <1>1, HeadAndTail, DeliveryKinds
     DEF SettleInv, TypeInv, RefersOK, DeliveryRefers, QueueCovered
<1>3. d.helped \in Nat /\ d.artifact \in Artifacts BY <1>2 DEF Changes
<1>4. d.helped <= Cardinality(Helping(d.artifact))
  BY <1>1, <1>2, <1>3 DEF Covered, HelpedTimes
<1>5. Cardinality(Helping(d.artifact)) \in Nat BY HelpingFinite DEF SettleInv
<1>6. \A p \in 1..Len(proposals) : proposals[p].item \in EarnedItems BY StatusInItems
<1>7. proposals \in Seq(Proposal) BY ProposalTypes DEF SettleInv
<1>8. CASE proposals' = proposals BY <1>6, <1>8
<1>9. CASE proposals' # proposals
  <2>1. PICK direction \in {"promote", "demote"} :
          /\ proposals' = Append(proposals,
               [item |-> d.artifact, direction |-> direction,
                status |-> "proposed", found |-> "none"])
          /\ direction = "promote" => EarnsPromotion(d.artifact, d)
          /\ direction = "demote" => EarnsDemotion(d.artifact, d)
    BY <1>9, ProposerAppends
  <2>2. d.artifact \in EarnedItems
    <3>1. CASE direction = "promote"
      <4>1. d.helped >= 2 BY <2>1, <3>1 DEF EarnsPromotion, MinHelped
      <4> QED BY <1>2, <1>3, <1>4, <1>5, <4>1 DEF EarnedItems, Earned
    <3>2. CASE direction = "demote"
      BY <1>2, <2>1, <3>2, StatusInItems DEF EarnsDemotion
    <3> QED BY <3>1, <3>2
  <2> DEFINE new == [item |-> d.artifact, direction |-> direction,
                     status |-> "proposed", found |-> "none"]
  <2>3. new.item \in EarnedItems BY <2>2
  <2>4. proposals' = Append(proposals, new) BY <2>1
  <2> HIDE DEF new, d
  <2>5. \A p \in 1..Len(proposals') :
          (p \in 1..Len(proposals) /\ proposals'[p] = proposals[p]) \/ proposals'[p] = new
    BY <1>7, <2>4
  <2> QED BY <1>6, <2>3, <2>5
<1> QED BY <1>8, <1>9

\* A resolution writes the status or the verdict found of one proposal.
LEMMA ResolvedItems ==
  ASSUME SettleInv, SettleInv', Resolution
  PROVE  /\ Len(proposals') = Len(proposals)
         /\ \A p \in 1..Len(proposals) : proposals'[p].item = proposals[p].item
<1>1. proposals \in Seq(Proposal) /\ \A p \in 1..Len(proposals) : proposals[p] \in Proposal
  BY ProposalTypes DEF SettleInv
<1>2. ASSUME NEW p \in 1..Len(proposals), NEW q \in Proposal,
             proposals' = [proposals EXCEPT ![p] = q], q.item = proposals[p].item
      PROVE  /\ Len(proposals') = Len(proposals)
             /\ \A k \in 1..Len(proposals) : proposals'[k].item = proposals[k].item
  BY <1>1, <1>2, PatchedProposal
<1>3. ASSUME NEW p \in 1..Len(proposals), RejectPromotion(p)
      PROVE  proposals' = [proposals EXCEPT ![p] = [proposals[p] EXCEPT !.status = "rejected"]]
  BY <1>3 DEF RejectPromotion
<1>4. CASE \E p \in 1..Len(proposals) : RejectPromotion(p)
  BY <1>1, <1>2, <1>3, <1>4, PatchedFields DEF Verdicts
<1>5. CASE PatchItem
  <2> DEFINE p == exec.proposal
             v == reliability[proposals[p].item].verdict
  <2>1. p \in 1..Len(proposals) BY <1>5 DEF PatchItem, SettleInv, TypeInv, RefersOK
  <2>2. proposals' = [proposals EXCEPT ![p] = [proposals[p] EXCEPT !.found = v]]
    BY <1>5 DEF PatchItem
  <2>3. v \in Verdicts \cup {"none"}
    BY <1>1, <2>1 DEF SettleInv, TypeInv, TypeOK, Artifacts, Proposal
  <2> HIDE DEF v, p
  <2> QED BY <1>1, <1>2, <2>1, <2>2, <2>3, PatchedFields
<1>6. CASE PatchProposal
  <2> DEFINE p == exec.proposal
  <2>1. p \in 1..Len(proposals) BY <1>6 DEF PatchProposal, SettleInv, TypeInv, RefersOK
  <2>2. proposals' = [proposals EXCEPT ![p] = [proposals[p] EXCEPT !.status = "approved"]]
    BY <1>6 DEF PatchProposal
  <2> HIDE DEF p
  <2> QED BY <1>1, <1>2, <2>1, <2>2, PatchedFields DEF Verdicts
<1> QED BY <1>4, <1>5, <1>6 DEF Resolution, ApprovePromotion

LEMMA StatusStep ==
  ASSUME SettleInv, SettleInv', QueueCovered, StatusEarned, [Next]_vars
  PROVE  StatusEarned'
<1>1. /\ \A p \in 1..Len(proposals) : proposals[p].item \in EarnedItems
      /\ \A i \in Items : items[i].status # "admitted" => i \in EarnedItems
  BY StatusInItems
<1>2. /\ \A p \in 1..Len(proposals') : proposals'[p].item \in EarnedItems
      /\ \A i \in Items : items'[i].status # "admitted" => i \in EarnedItems
  <2>1. CASE MemoryPromotionProposer
    BY <1>1, <2>1, ProposerEarns DEF MemoryPromotionProposer
  <2>2. CASE MemoryReliabilityApplier
    BY <1>1, <2>2 DEF MemoryReliabilityApplier, SettleInv, TypeInv, TypeOK
  <2>3. CASE PatchItem
    <3> DEFINE j == proposals[exec.proposal].item
    <3>1. exec.proposal \in 1..Len(proposals)
      BY <2>3 DEF PatchItem, SettleInv, TypeInv, RefersOK
    <3>2. j \in EarnedItems BY <1>1, <3>1
    <3>3. items' = [items EXCEPT ![j].status = NewStatus(proposals[exec.proposal].direction)]
      BY <2>3 DEF PatchItem
    <3> HIDE DEF j
    <3>4. \A i \in Items : i # j => items'[i] = items[i]
      BY <3>3 DEF SettleInv, TypeInv, TypeOK
    <3> QED BY <1>1, <2>3, <3>2, <3>4, ResolvedItems DEF Resolution
  <2>4. CASE Resolution /\ ~PatchItem
    <3>1. UNCHANGED items
      BY <2>4 DEF Resolution, RejectPromotion, ApprovePromotion, PatchProposal
    <3> QED BY <1>1, <2>4, <3>1, ResolvedItems
  <2>5. CASE UNCHANGED <<items, proposals>> BY <1>1, <2>5
  <2> QED
    <3>1. Outcome \/ SkillCall \/ CrashRestart \/ UNCHANGED vars
            => UNCHANGED <<items, proposals>>
      BY DEF vars, Outcome, SkillCall, CrashRestart, ExplicitVerdict, VerdictOn,
             SupersedeEvaluation, Judge, MaintenanceOutcome, EmitOutcome, AddRecord,
             RecordPromotionEvidence, PromoteSkill, SetIneligible
    <3>2. EvaluationOutcomeCapture \/ ArtifactReliabilityProjector
            \/ SkillReliabilityEligibility => UNCHANGED <<items, proposals>>
      BY DEF EvaluationOutcomeCapture, ArtifactReliabilityProjector,
             SkillReliabilityEligibility
    <3> QED BY <2>1, <2>2, <2>3, <2>4, <2>5, <3>1, <3>2 DEF Next, Drain
<1>3. EarnedItems \subseteq EarnedItems' BY EarnedItemsGrow
<1>4. /\ \A p \in 1..Len(proposals') : proposals'[p].item \in EarnedItems'
      /\ \A i \in Items : items'[i].status # "admitted" => i \in EarnedItems'
  BY <1>2, <1>3
<1> QED BY <1>4 DEF StatusEarned, EarnedItems, Earned

LEMMA InitEarned == Init => EarnedInv
<1> SUFFICES ASSUME Init PROVE EarnedInv OBVIOUS
<1>1. TypeInv BY InitTypes
<1>2. RecordsSettle /\ FrameSettles
  BY FS_EmptySet DEF Init, RecordsSettle, FrameSettles, Idle
<1>3. \A a : Cardinality(Outstanding(queue, a)) = 0
  BY OutstandingNone DEF Init
<1>4. \A a : Helping(a) = {} BY DEF Init, Helping
<1>5. TallyCovered
  <2> SUFFICES ASSUME NEW a \in Artifacts
               PROVE  /\ reliability[a].helped <= Cardinality(Helping(a))
                      /\ reliability[a].helped + Cardinality(Outstanding(queue, a))
                           <= Cardinality(Helping(a)) + Pending(a)
    BY DEF TallyCovered
  <2>1. reliability[a].helped = 0 /\ Pending(a) = 0 BY DEF Init, Pending, Idle
  <2>2. Cardinality(Helping(a)) = 0 BY <1>4, FS_EmptySet
  <2> QED BY <1>3, <2>1, <2>2
<1> QED BY <1>1, <1>2, <1>5 DEF Init, EarnedInv, SettleInv, QueueCovered, StatusEarned

LEMMA EarnedStep == ASSUME EarnedInv, [Next]_vars PROVE EarnedInv'
<1>1. SettleInv' BY SettleStep DEF EarnedInv
<1>2. TallyCovered' BY <1>1, TallyStep DEF EarnedInv
<1> QED BY <1>1, <1>2, QueueCoveredStep, StatusStep DEF EarnedInv

\* Two records of help are about two evaluations.
LEMMA TwoEvaluations ==
  ASSUME EarnedInv, NEW i, Earned(i)
  PROVE  \E q, r \in Helping(i) : q.evaluation # r.evaluation
<1>1. IsFiniteSet(Helping(i)) /\ Cardinality(Helping(i)) \in Nat
  BY HelpingFinite DEF EarnedInv, SettleInv
<1>2. Helping(i) # {} BY FS_EmptySet DEF Earned
<1>3. PICK q \in Helping(i) : TRUE BY <1>2
<1>4. Cardinality(Helping(i) \ {q}) = Cardinality(Helping(i)) - 1
  BY <1>1, FS_RemoveElement
<1>5. Helping(i) \ {q} # {} BY <1>1, <1>4, FS_EmptySet DEF Earned
<1>6. PICK r \in Helping(i) \ {q} : TRUE BY <1>5
<1>7. q \in records /\ r \in records /\ q.kind \in Terminal /\ r.kind \in Terminal
  BY <1>6 DEF Helping, Terminal
<1> QED BY <1>6, <1>7 DEF EarnedInv, SettleInv, RecordsSettle

\* An evaluation settles one terminal value; the tally of the projection is covered by
\* outcome records at every moment, crashes between the event and its record
\* included; and an item is promoted, or was, only on two helped evaluations.
THEOREM PromotionsAreEarned == Spec => []PromotedItemsAreEarned
<1>1. Spec => []EarnedInv BY InitEarned, EarnedStep, PTL DEF Spec
<1>2. EarnedInv => PromotedItemsAreEarned
  BY TwoEvaluations
     DEF EarnedInv, SettleInv, RecordsSettle, TallyCovered, StatusEarned,
         PromotedItemsAreEarned
<1> QED BY <1>1, <1>2, PTL

-----------------------------------------------------------------------------
(* Every listener hears the current verdict last. *)

\* A delivery of a changed projection: to whom and about which artifact.
Listeners == {"memory_reliability_applier", "memory_promotion_proposer",
              "skill_reliability_eligibility"}
Hears(to, a) ==
  IF to = "skill_reliability_eligibility" THEN a \in Skills ELSE a \in Items
Tells(d, to, a) == d.to = to /\ d.artifact = a
Expects(q, to, a) == \E k \in 1..Len(q) : Tells(q[k], to, a)
LastSays(q, to, a, v) ==
  \A k \in 1..Len(q) :
    (Tells(q[k], to, a) /\ \A l \in 1..Len(q) : l > k => ~Tells(q[l], to, a))
      => q[k].verdict = v

WordsHold ==
  \A to \in Listeners, a \in Artifacts :
    Hears(to, a) => LastSays(queue, to, a, reliability[a].verdict)

LEMMA WordsAppend ==
  ASSUME NEW q \in Seq(Delivery), NEW d \in Delivery, NEW to, NEW a, NEW v,
         ~Tells(d, to, a)
  PROVE  /\ Expects(q, to, a) => Expects(Append(q, d), to, a)
         /\ Expects(Append(q, d), to, a) => Expects(q, to, a)
         /\ LastSays(q, to, a, v) => LastSays(Append(q, d), to, a, v)
<1> DEFINE r == Append(q, d)
<1>1. /\ r \in Seq(Delivery) /\ Len(r) = Len(q) + 1 /\ r[Len(q) + 1] = d
      /\ \A k \in 1..Len(q) : k \in 1..Len(r) /\ r[k] = q[k]
      /\ \A k \in 1..Len(r) : k \in 1..Len(q) \/ k = Len(q) + 1
      /\ Len(q) \in Nat
  OBVIOUS
<1> HIDE DEF r
<1>2. Expects(q, to, a) => Expects(r, to, a) BY <1>1 DEF Expects
<1>3. Expects(r, to, a) => Expects(q, to, a) BY <1>1 DEF Expects
<1>4. ASSUME LastSays(q, to, a, v), NEW k \in 1..Len(r), Tells(r[k], to, a),
             \A l \in 1..Len(r) : l > k => ~Tells(r[l], to, a)
      PROVE  r[k].verdict = v
  <2>1. k \in 1..Len(q) /\ r[k] = q[k] BY <1>1, <1>4
  <2>2. \A l \in 1..Len(q) : l > k => ~Tells(q[l], to, a) BY <1>1, <1>4
  <2> QED BY <1>4, <2>1, <2>2 DEF LastSays
<1>5. LastSays(q, to, a, v) => LastSays(r, to, a, v) BY <1>4 DEF LastSays
<1> QED BY <1>2, <1>3, <1>5 DEF r

LEMMA WordsTail ==
  ASSUME NEW q \in Seq(Delivery), q # <<>>, NEW to, NEW a, NEW v
  PROVE  /\ LastSays(q, to, a, v) => LastSays(Tail(q), to, a, v)
         /\ Expects(Tail(q), to, a) => Expects(q, to, a)
         /\ Expects(q, to, a) => Expects(Tail(q), to, a) \/ Tells(Head(q), to, a)
         /\ LastSays(q, to, a, v) /\ Tells(Head(q), to, a) /\ ~Expects(Tail(q), to, a)
              => Head(q).verdict = v
<1> DEFINE r == Tail(q)
<1>1. /\ r \in Seq(Delivery) /\ Len(r) = Len(q) - 1 /\ Head(q) = q[1]
      /\ \A k \in 1..Len(r) : k + 1 \in 1..Len(q) /\ r[k] = q[k + 1]
      /\ Len(q) \in Nat /\ 1 \in 1..Len(q)
  BY HeadAndTail
<1> HIDE DEF r
<1>2. \A k \in 1..Len(q) : k = 1 \/ (k - 1 \in 1..Len(r) /\ r[k - 1] = q[k])
  <2>1. ASSUME NEW k \in 1..Len(q), k # 1
        PROVE  k - 1 \in 1..Len(r) /\ r[k - 1] = q[k]
    <3>1. k - 1 \in 1..Len(r) /\ (k - 1) + 1 = k BY <1>1, <2>1
    <3> QED BY <1>1, <3>1
  <2> QED BY <2>1
<1>3. ASSUME LastSays(q, to, a, v), NEW k \in 1..Len(r), Tells(r[k], to, a),
             \A l \in 1..Len(r) : l > k => ~Tells(r[l], to, a)
      PROVE  r[k].verdict = v
  <2>1. k + 1 \in 1..Len(q) /\ r[k] = q[k + 1] BY <1>1
  <2>2. ASSUME NEW l \in 1..Len(q), l > k + 1 PROVE ~Tells(q[l], to, a)
    <3>1. l - 1 \in 1..Len(r) /\ r[l - 1] = q[l] /\ l - 1 > k BY <1>1, <1>2, <2>2
    <3> QED BY <1>3, <3>1
  <2> QED BY <1>3, <2>1, <2>2 DEF LastSays
<1>4. LastSays(q, to, a, v) => LastSays(r, to, a, v) BY <1>3 DEF LastSays
<1>5. Expects(r, to, a) => Expects(q, to, a) BY <1>1 DEF Expects
<1>6. Expects(q, to, a) => Expects(r, to, a) \/ Tells(Head(q), to, a)
  BY <1>1, <1>2 DEF Expects
<1>7. ASSUME LastSays(q, to, a, v), Tells(Head(q), to, a), ~Expects(r, to, a)
      PROVE  Head(q).verdict = v
  <2>1. \A l \in 1..Len(q) : l > 1 => ~Tells(q[l], to, a)
    BY <1>2, <1>7 DEF Expects
  <2> QED BY <1>1, <1>7, <2>1 DEF LastSays
<1> QED BY <1>4, <1>5, <1>6, <1>7 DEF r

LEMMA WordsConcat ==
  ASSUME NEW q \in Seq(Delivery), NEW news \in Seq(Delivery), NEW to, NEW a, NEW v
  PROVE  /\ Expects(q, to, a) => Expects(q \o news, to, a)
         /\ Expects(news, to, a) => Expects(q \o news, to, a)
         /\ ~Expects(news, to, a) /\ LastSays(q, to, a, v)
              => LastSays(q \o news, to, a, v)
         /\ Expects(news, to, a) /\ (\A k \in 1..Len(news) : news[k].verdict = v)
              => LastSays(q \o news, to, a, v)
<1> DEFINE r == q \o news
<1>1. /\ Len(q) \in Nat /\ Len(news) \in Nat
      /\ r \in Seq(Delivery) /\ Len(r) = Len(q) + Len(news)
      /\ \A k \in 1..Len(q) : k \in 1..Len(r) /\ r[k] = q[k]
      /\ \A k \in 1..Len(news) : Len(q) + k \in 1..Len(r) /\ r[Len(q) + k] = news[k]
  OBVIOUS
<1>2. \A k \in 1..Len(r) :
        \/ k \in 1..Len(q) /\ r[k] = q[k]
        \/ /\ k - Len(q) \in 1..Len(news) /\ r[k] = news[k - Len(q)]
           /\ k > Len(q)
  OBVIOUS
<1> HIDE DEF r
<1>3. Expects(q, to, a) => Expects(r, to, a) BY <1>1 DEF Expects
<1>4. Expects(news, to, a) => Expects(r, to, a) BY <1>1 DEF Expects
<1>5. ASSUME ~Expects(news, to, a), LastSays(q, to, a, v)
      PROVE  LastSays(r, to, a, v)
  <2> SUFFICES ASSUME NEW k \in 1..Len(r), Tells(r[k], to, a),
                      \A l \in 1..Len(r) : l > k => ~Tells(r[l], to, a)
               PROVE  r[k].verdict = v
    BY DEF LastSays
  <2>1. k \in 1..Len(q) /\ r[k] = q[k] BY <1>2, <1>5 DEF Expects
  <2>2. \A l \in 1..Len(q) : l > k => ~Tells(q[l], to, a) BY <1>1
  <2> QED BY <1>5, <2>1, <2>2 DEF LastSays
<1>6. ASSUME Expects(news, to, a), \A k \in 1..Len(news) : news[k].verdict = v
      PROVE  LastSays(r, to, a, v)
  <2> SUFFICES ASSUME NEW k \in 1..Len(r), Tells(r[k], to, a),
                      \A l \in 1..Len(r) : l > k => ~Tells(r[l], to, a)
               PROVE  r[k].verdict = v
    BY DEF LastSays
  <2>1. PICK j \in 1..Len(news) : Tells(news[j], to, a) BY <1>6 DEF Expects
  <2>2. Len(q) + j \in 1..Len(r) /\ Tells(r[Len(q) + j], to, a) BY <1>1, <2>1
  <2>3. ~(Len(q) + j > k) BY <2>2
  <2>4. k \notin 1..Len(q) BY <1>1, <2>3
  <2>5. k - Len(q) \in 1..Len(news) /\ r[k] = news[k - Len(q)] BY <1>2, <2>4
  <2> QED BY <1>6, <2>5
<1> QED BY <1>3, <1>4, <1>5, <1>6 DEF r

\* What the projector queues.
LEMMA ProjectorNews ==
  ASSUME SettleInv, ArtifactReliabilityProjector, NEW a, a = Head(queue).artifact
  PROVE  /\ queue \in Seq(Delivery) /\ queue # <<>> /\ a \in Artifacts
         /\ Head(queue).to \notin Listeners
         /\ \A b \in Artifacts : b # a => reliability'[b] = reliability[b]
         /\ reliability'[a].verdict # "none"
         /\ \E news \in Seq(Delivery) :
              /\ queue' = Tail(queue) \o news
              /\ \A k \in 1..Len(news) :
                   /\ news[k].artifact = a
                   /\ news[k].verdict = reliability'[a].verdict
              /\ \A to \in Listeners : Hears(to, a) => Expects(news, to, a)
<1> DEFINE d == Head(queue)
           h == Tally(reliability[a].helped, d.kind)
           v == Verdict(d.kind)
           news == [k \in 1..Len(HeardBy(a)) |->
                      [to |-> HeardBy(a)[k], artifact |-> a, verdict |-> v, helped |-> h]]
<1>1. /\ queue \in Seq(Delivery) /\ queue # <<>>
      /\ d.to = "artifact_reliability_projector"
  BY QueueType DEF SettleInv, TypeInv, ArtifactReliabilityProjector, Fires
<1>2. d \in Announcements BY <1>1, HeadAndTail, DeliveryKinds
<1>3. a \in Artifacts BY <1>2 DEF Announcements
<1>4. v \in Verdicts BY <1>2 DEF Announcements, Kinds, Maintenance, Terminal, Verdict, Verdicts
<1>5. h \in Nat BY <1>3 DEF SettleInv, TypeInv, TypeOK, Tally
<1>6. /\ queue' = Tail(queue) \o news
      /\ reliability' = [reliability EXCEPT ![a] = [helped |-> h, verdict |-> v]]
  BY DEF ArtifactReliabilityProjector
<1>7. /\ reliability'[a].verdict = v
      /\ \A b \in Artifacts : b # a => reliability'[b] = reliability[b]
  BY <1>3, <1>6 DEF SettleInv, TypeInv, TypeOK
<1>8. /\ news \in Seq(Changes)
      /\ \A k \in 1..Len(news) : news[k].artifact = a /\ news[k].verdict = v
      /\ \A to \in Listeners : Hears(to, a) => Expects(news, to, a)
  <2>1. CASE a \in Items
    <3>1. /\ Len(HeardBy(a)) = 2 /\ HeardBy(a)[1] = "memory_reliability_applier"
          /\ HeardBy(a)[2] = "memory_promotion_proposer"
      BY <2>1 DEF HeardBy
    <3>2. /\ news \in Seq(Changes) /\ Len(news) = 2
          /\ news[1] = [to |-> "memory_reliability_applier", artifact |-> a,
                        verdict |-> v, helped |-> h]
          /\ news[2] = [to |-> "memory_promotion_proposer", artifact |-> a,
                        verdict |-> v, helped |-> h]
      BY <1>3, <1>4, <1>5, <3>1 DEF Changes
    <3> HIDE DEF news
    <3>3. \A k \in 1..Len(news) : k = 1 \/ k = 2 BY <3>2
    <3>4. \A to \in Listeners : Hears(to, a) =>
            to \in {"memory_reliability_applier", "memory_promotion_proposer"}
      BY <2>1, ReliabilityAssumption DEF Hears, Listeners
    <3>5. /\ Expects(news, "memory_reliability_applier", a)
          /\ Expects(news, "memory_promotion_proposer", a)
      <4>1. 1 \in 1..Len(news) /\ 2 \in 1..Len(news) BY <3>2
      <4> QED BY <3>2, <4>1 DEF Expects, Tells
    <3> QED BY <3>2, <3>3, <3>4, <3>5
  <2>2. CASE a \notin Items
    <3>1. Len(HeardBy(a)) = 1 /\ HeardBy(a)[1] = "skill_reliability_eligibility"
      BY <2>2 DEF HeardBy
    <3>2. /\ news \in Seq(Changes) /\ Len(news) = 1
          /\ news[1] = [to |-> "skill_reliability_eligibility", artifact |-> a,
                        verdict |-> v, helped |-> h]
      BY <1>3, <1>4, <1>5, <3>1 DEF Changes
    <3> HIDE DEF news
    <3>3. \A k \in 1..Len(news) : k = 1 BY <3>2
    <3>4. \A to \in Listeners : Hears(to, a) => to = "skill_reliability_eligibility"
      BY <2>2 DEF Hears, Listeners
    <3>5. Expects(news, "skill_reliability_eligibility", a)
      <4>1. 1 \in 1..Len(news) BY <3>2
      <4> QED BY <3>2, <4>1 DEF Expects, Tells
    <3> QED BY <3>2, <3>3, <3>4, <3>5
  <2> QED BY <2>1, <2>2
<1> HIDE DEF news, h, v
<1>9. news \in Seq(Delivery) BY <1>8 DEF Delivery
<1> QED BY <1>1, <1>3, <1>4, <1>6, <1>7, <1>8, <1>9 DEF Verdicts, Listeners

\* What a step without a crash does to the queue and the projections.
LEMMA QueueSteps ==
  ASSUME SettleInv, [Next]_vars, ~CrashRestart
  PROVE  \/ queue' = queue /\ reliability' = reliability
         \/ /\ \E d \in Captures \cup Announcements : queue' = Append(queue, d)
            /\ reliability' = reliability
         \/ /\ queue # <<>> /\ queue' = Tail(queue) /\ reliability' = reliability
            /\ \/ EvaluationOutcomeCapture \/ MemoryReliabilityApplier
               \/ MemoryPromotionProposer \/ SkillReliabilityEligibility
         \/ ArtifactReliabilityProjector
<1>1. CASE Outcome
  <2>1. Kinds = Terminal \cup Maintenance /\ "contradicted" \in Kinds
        /\ Revisions \cup {0} \subseteq Nat
    BY ReliabilityAssumption DEF Kinds, Maintenance
  <2>2. ASSUME NEW a \in Artifacts, NEW kind \in Terminal, ExplicitVerdict(a, kind)
        PROVE  \E d \in Captures : queue' = Append(queue, d)
    BY <2>1, <2>2, CaptureType DEF ExplicitVerdict
  <2>3. ASSUME NEW a \in Artifacts, NEW kind \in Terminal \cup {"contradicted"},
               NEW revision \in Revisions \cup {0}, Judge(a, kind, revision)
        PROVE  \E d \in Captures : queue' = Append(queue, d)
    <3>1. kind \in Kinds /\ revision \in Nat BY <2>1
    <3> QED BY <2>3, <3>1, CaptureType DEF Judge
  <2>4. ASSUME EmitOutcome PROVE \E d \in Announcements : queue' = Append(queue, d)
    <3>1. exec \in Recordings BY <2>4, FrameKinds DEF EmitOutcome, SettleInv, TypeInv
    <3>2. [to |-> "artifact_reliability_projector", artifact |-> exec.record.artifact,
           kind |-> exec.record.kind] \in Announcements
      BY <3>1 DEF Recordings, Record, Announcements
    <3> QED BY <2>4, <3>2 DEF EmitOutcome
  <2>5. reliability' = reliability
    BY <1>1 DEF Outcome, ExplicitVerdict, VerdictOn, SupersedeEvaluation, Judge,
                MaintenanceOutcome, EmitOutcome, AddRecord
  <2>6. \/ queue' = queue
        \/ \E d \in Captures : queue' = Append(queue, d)
        \/ \E d \in Announcements : queue' = Append(queue, d)
    BY <1>1, <2>2, <2>3, <2>4
    DEF Outcome, VerdictOn, SupersedeEvaluation, MaintenanceOutcome, AddRecord
  <2> QED BY <2>5, <2>6
<1>2. CASE Resolution
  BY <1>2 DEF Resolution, RejectPromotion, ApprovePromotion, PatchItem, PatchProposal
<1>3. CASE SkillCall
  BY <1>3 DEF SkillCall, RecordPromotionEvidence, PromoteSkill, SetIneligible
<1>4. CASE Drain
  <2>1. ASSUME \/ EvaluationOutcomeCapture \/ MemoryReliabilityApplier
               \/ MemoryPromotionProposer \/ SkillReliabilityEligibility
        PROVE  queue # <<>> /\ queue' = Tail(queue) /\ reliability' = reliability
    BY <2>1 DEF EvaluationOutcomeCapture, MemoryReliabilityApplier,
                MemoryPromotionProposer, SkillReliabilityEligibility, Fires
  <2> QED BY <1>4, <2>1 DEF Drain
<1>5. CASE UNCHANGED vars BY <1>5 DEF vars
<1> QED BY <1>1, <1>2, <1>3, <1>4, <1>5 DEF Next

\* The listener of a delivery about a.
Acts(to) ==
  \/ to = "memory_reliability_applier" /\ MemoryReliabilityApplier
  \/ to = "memory_promotion_proposer" /\ MemoryPromotionProposer
  \/ to = "skill_reliability_eligibility" /\ SkillReliabilityEligibility

\* A listener is told again, or nothing concerns it, or it acts on its last word,
\* which is the current verdict.
LEMMA Hearing ==
  ASSUME SettleInv, WordsHold, [Next]_vars, ~CrashRestart,
         NEW to \in Listeners, NEW a \in Artifacts, Hears(to, a)
  PROVE  /\ LastSays(queue', to, a, reliability'[a].verdict)
         /\ \/ Expects(queue', to, a)
            \/ ~Expects(queue, to, a) /\ reliability'[a] = reliability[a]
            \/ /\ Acts(to) /\ Head(queue).artifact = a
               /\ Head(queue).verdict = reliability[a].verdict
               /\ reliability'[a] = reliability[a]
<1>0. queue \in Seq(Delivery) /\ LastSays(queue, to, a, reliability[a].verdict)
  BY QueueType DEF SettleInv, TypeInv, WordsHold
<1>1. CASE queue' = queue /\ reliability' = reliability
  BY <1>0, <1>1
<1>2. ASSUME NEW d \in Captures \cup Announcements, queue' = Append(queue, d),
             reliability' = reliability
      PROVE  /\ LastSays(queue', to, a, reliability'[a].verdict)
             /\ Expects(queue', to, a) \/ ~Expects(queue, to, a)
  <2>1. d \in Delivery /\ ~Tells(d, to, a)
    BY DEF Delivery, Captures, Announcements, Tells, Listeners
  <2> QED BY <1>0, <1>2, <2>1, WordsAppend
<1>3. CASE /\ queue # <<>> /\ queue' = Tail(queue) /\ reliability' = reliability
           /\ \/ EvaluationOutcomeCapture \/ MemoryReliabilityApplier
              \/ MemoryPromotionProposer \/ SkillReliabilityEligibility
  <2>1. LastSays(queue', to, a, reliability'[a].verdict)
    BY <1>0, <1>3, WordsTail
  <2>2. CASE Expects(queue', to, a) \/ ~Expects(queue, to, a)
    BY <1>3, <2>1, <2>2
  <2>3. CASE ~Expects(queue', to, a) /\ Expects(queue, to, a)
    <3>1. Tells(Head(queue), to, a) BY <1>0, <1>3, <2>3, WordsTail
    <3>2. Head(queue).verdict = reliability[a].verdict
      BY <1>0, <1>3, <2>3, <3>1, WordsTail
    <3>3. Acts(to)
      BY <1>3, <3>1
      DEF Acts, Tells, Listeners, EvaluationOutcomeCapture, MemoryReliabilityApplier,
          MemoryPromotionProposer, SkillReliabilityEligibility, Fires
    <3> QED BY <1>3, <2>1, <3>1, <3>2, <3>3 DEF Tells
  <2> QED BY <2>2, <2>3
<1>4. CASE ArtifactReliabilityProjector
  <2> DEFINE c == Head(queue).artifact
  <2>1. PICK news \in Seq(Delivery) :
          /\ queue' = Tail(queue) \o news
          /\ \A k \in 1..Len(news) : /\ news[k].artifact = c
                                     /\ news[k].verdict = reliability'[c].verdict
          /\ \A t \in Listeners : Hears(t, c) => Expects(news, t, c)
    BY <1>4, ProjectorNews
  <2>2. /\ queue # <<>> /\ Head(queue).to \notin Listeners
        /\ \A b \in Artifacts : b # c => reliability'[b] = reliability[b]
    BY <1>4, ProjectorNews
  <2>3. Tail(queue) \in Seq(Delivery) BY <1>0, <2>2, HeadAndTail
  <2> HIDE DEF c
  <2>4. CASE a = c
    <3>1. Expects(news, to, a) /\ \A k \in 1..Len(news) : news[k].verdict = reliability'[a].verdict
      BY <2>1, <2>4
    <3> QED BY <2>1, <2>3, <3>1, WordsConcat
  <2>5. CASE a # c
    <3>1. ~Expects(news, to, a) BY <2>1, <2>5 DEF Expects, Tells
    <3>2. reliability'[a] = reliability[a] BY <2>2, <2>5
    <3>3. LastSays(Tail(queue), to, a, reliability[a].verdict) BY <1>0, <2>2, WordsTail
    <3>4. LastSays(queue', to, a, reliability'[a].verdict)
      BY <2>1, <2>3, <3>1, <3>2, <3>3, WordsConcat
    <3>5. Expects(queue, to, a) => Expects(Tail(queue), to, a)
      BY <1>0, <2>2, WordsTail DEF Tells
    <3>6. Expects(Tail(queue), to, a) => Expects(queue', to, a)
      BY <2>1, <2>3, WordsConcat
    <3> QED BY <3>2, <3>4, <3>5, <3>6
  <2> QED BY <2>4, <2>5
<1> QED BY <1>1, <1>2, <1>3, <1>4, QueueSteps

LEMMA WordsStep ==
  ASSUME SettleInv, WordsHold, [Next]_vars, ~CrashRestart
  PROVE  WordsHold'
<1>1. ASSUME NEW to \in Listeners, NEW a \in Artifacts, Hears(to, a)
      PROVE  LastSays(queue', to, a, reliability'[a].verdict)
  BY <1>1, Hearing
<1> QED BY <1>1 DEF WordsHold, LastSays, Tells, Hears

-----------------------------------------------------------------------------
(* Eligibility follows the verdict. *)

NoCrash == budget.crashes = MaxCrashes
CrashesFall == budget.crashes <= MaxCrashes

\* Crashes are counted down: before any of them there was none.
LEMMA CrashesCount ==
  ASSUME TypeInv, CrashesFall, [Next]_vars
  PROVE  CrashesFall' /\ (NoCrash' => NoCrash /\ ~CrashRestart)
<1>1. /\ budget \in [outcomes : Nat, calls : Nat, crashes : Nat] /\ MaxCrashes \in Nat
  BY ReliabilityAssumption DEF TypeInv, TypeOK
<1>2. ASSUME Spend("outcomes") \/ Spend("calls") PROVE budget'.crashes = budget.crashes
  BY <1>1, <1>2 DEF Spend
<1>3. CASE CrashRestart
  <2>1. budget'.crashes = budget.crashes - 1 BY <1>1, <1>3 DEF CrashRestart, Spend
  <2> QED BY <1>1, <2>1 DEF CrashesFall, NoCrash
<1>4. CASE ~CrashRestart
  <2>1. Spend("outcomes") \/ Spend("calls") \/ UNCHANGED budget
    <3>1. CASE Outcome
      BY <3>1 DEF Outcome, ExplicitVerdict, VerdictOn, SupersedeEvaluation, Judge,
                  MaintenanceOutcome, EmitOutcome, AddRecord
    <3>2. CASE Resolution \/ SkillCall
      BY <3>2 DEF Resolution, RejectPromotion, ApprovePromotion, PatchItem,
                  PatchProposal, SkillCall, RecordPromotionEvidence, PromoteSkill,
                  SetIneligible
    <3>3. CASE Drain \/ UNCHANGED vars
      BY <3>3 DEF Drain, EvaluationOutcomeCapture, MemoryReliabilityApplier, vars,
                  MemoryPromotionProposer, SkillReliabilityEligibility,
                  ArtifactReliabilityProjector
    <3> QED BY <1>4, <3>1, <3>2, <3>3 DEF Next
  <2> QED BY <1>2, <1>4, <2>1 DEF CrashesFall, NoCrash
<1> QED BY <1>3, <1>4

\* What a listener is no longer told of it has acted on.
Applied ==
  \A i \in Items :
    \/ Expects(queue, "memory_reliability_applier", i)
    \/ items[i].verdict = reliability[i].verdict
Judicious ==
  \A s \in Skills :
    \/ Expects(queue, "skill_reliability_eligibility", s)
    \/ skills[s].status = "promoted" /\ latest[s] = s
         => reliability[s].verdict \notin Unfit

EligibleInv == NoCrash => WordsHold /\ Applied /\ Judicious

LEMMA InitEligible == Init => CrashesFall /\ EligibleInv
<1> SUFFICES ASSUME Init PROVE CrashesFall /\ EligibleInv OBVIOUS
<1>1. Len(queue) = 0 /\ MaxCrashes \in Nat BY ReliabilityAssumption DEF Init
<1>2. CrashesFall BY <1>1 DEF Init, CrashesFall
<1>3. WordsHold BY <1>1 DEF WordsHold, LastSays
<1>4. Applied /\ Judicious BY DEF Init, Applied, Judicious, Artifacts
<1> QED BY <1>2, <1>3, <1>4 DEF EligibleInv

\* Only the applier writes an item's verdict.
LEMMA AppliedStep ==
  ASSUME SettleInv, WordsHold, Applied, [Next]_vars, ~CrashRestart
  PROVE  Applied'
<1> DEFINE to == "memory_reliability_applier"
<1> SUFFICES ASSUME NEW i \in Items, ~Expects(queue', to, i)
             PROVE  items'[i].verdict = reliability'[i].verdict
  BY DEF Applied, Expects, Tells
<1>1. to \in Listeners /\ i \in Artifacts /\ Hears(to, i)
  BY DEF Listeners, Artifacts, Hears
<1>2. items \in [Items -> [status : {"admitted", "promoted", "demoted"},
                           verdict : Verdicts \cup {"none"}]]
      /\ queue \in Seq(Delivery)
  BY QueueType DEF SettleInv, TypeInv, TypeOK
<1>3. \/ ~Expects(queue, to, i) /\ reliability'[i] = reliability[i]
      \/ /\ MemoryReliabilityApplier /\ Head(queue).artifact = i
         /\ Head(queue).verdict = reliability[i].verdict
         /\ reliability'[i] = reliability[i]
  BY <1>1, Hearing DEF Acts
<1>4. CASE /\ MemoryReliabilityApplier /\ Head(queue).artifact = i
           /\ Head(queue).verdict = reliability[i].verdict
           /\ reliability'[i] = reliability[i]
  <2>1. items' = [items EXCEPT ![i].verdict = reliability[i].verdict]
    BY <1>4 DEF MemoryReliabilityApplier
  <2> QED BY <1>2, <1>4, <2>1
<1>5. CASE ~Expects(queue, to, i) /\ reliability'[i] = reliability[i]
  <2>1. items[i].verdict = reliability[i].verdict BY <1>5 DEF Applied
  <2>2. items'[i].verdict = items[i].verdict
    <3>1. CASE MemoryReliabilityApplier
      <4>1. queue # <<>> /\ Head(queue).to = to /\ 1 \in 1..Len(queue)
            /\ Head(queue) = queue[1]
        BY <1>2, <3>1, HeadAndTail DEF MemoryReliabilityApplier, Fires
      <4>2. Head(queue).artifact # i BY <1>5, <4>1 DEF Expects, Tells
      <4> QED BY <1>2, <3>1, <4>2 DEF MemoryReliabilityApplier
    <3>2. CASE PatchItem
      <4> DEFINE v == NewStatus(proposals[exec.proposal].direction)
                 j == proposals[exec.proposal].item
      <4>1. items' = [items EXCEPT ![j].status = v] BY <3>2 DEF PatchItem
      <4> HIDE DEF v, j
      <4> QED BY <1>2, <4>1
    <3>3. CASE UNCHANGED items BY <3>3
    <3> QED
      <4>1. Outcome \/ SkillCall \/ UNCHANGED vars => UNCHANGED items
        BY DEF vars, Outcome, SkillCall, ExplicitVerdict, VerdictOn,
               SupersedeEvaluation, Judge, MaintenanceOutcome, EmitOutcome, AddRecord,
               RecordPromotionEvidence, PromoteSkill, SetIneligible
      <4>2. EvaluationOutcomeCapture \/ ArtifactReliabilityProjector
              \/ SkillReliabilityEligibility \/ MemoryPromotionProposer
              => UNCHANGED items
        BY DEF EvaluationOutcomeCapture, ArtifactReliabilityProjector,
               SkillReliabilityEligibility, MemoryPromotionProposer
      <4>3. Resolution => PatchItem \/ UNCHANGED items
        BY DEF Resolution, RejectPromotion, ApprovePromotion, PatchProposal
      <4> QED BY <3>1, <3>2, <3>3, <4>1, <4>2, <4>3 DEF Next, Drain
  <2> QED BY <1>5, <2>1, <2>2
<1> QED BY <1>3, <1>4, <1>5

\* A projection becomes the newer one of its skill when it is made.
LEMMA LatestStays ==
  ASSUME SettleInv, [Next]_vars, NEW s \in Skills, latest'[s] = s,
         reliability'[s] = reliability[s]
  PROVE  latest[s] = s
<1>1. CASE ArtifactReliabilityProjector
  <2> DEFINE a == Head(queue).artifact
  <2>1. latest'[s] = IF reliability[a].verdict = "none" /\ a \in {s, VersionIdentity[s]}
                     THEN a ELSE latest[s]
    BY <1>1 DEF ArtifactReliabilityProjector
  <2>2. reliability'[a].verdict # "none" BY <1>1, ProjectorNews
  <2> HIDE DEF a
  <2> QED BY <2>1, <2>2
<1>2. CASE ~ArtifactReliabilityProjector
  <2>1. Outcome \/ Resolution \/ SkillCall \/ CrashRestart \/ UNCHANGED vars
          => latest' = latest
    BY DEF vars, Outcome, ExplicitVerdict, VerdictOn, SupersedeEvaluation, Judge,
           MaintenanceOutcome, EmitOutcome, AddRecord, Resolution, RejectPromotion,
           ApprovePromotion, PatchItem, PatchProposal, SkillCall,
           RecordPromotionEvidence, PromoteSkill, SetIneligible, CrashRestart
  <2>2. Drain => latest' = latest
    BY <1>2 DEF Drain, EvaluationOutcomeCapture, MemoryReliabilityApplier,
                MemoryPromotionProposer, SkillReliabilityEligibility
  <2> QED BY <2>1, <2>2 DEF Next
<1> QED BY <1>1, <1>2

\* A promotion reads the projection; otherwise only the last word makes a skill
\* eligible.
LEMMA JudiciousStep ==
  ASSUME SettleInv, WordsHold, Judicious, [Next]_vars, ~CrashRestart
  PROVE  Judicious'
<1> DEFINE to == "skill_reliability_eligibility"
<1> SUFFICES ASSUME NEW s \in Skills, ~Expects(queue', to, s),
                    skills'[s].status = "promoted", latest'[s] = s
             PROVE  reliability'[s].verdict \notin Unfit
  BY DEF Judicious, Expects, Tells
<1>1. to \in Listeners /\ s \in Artifacts /\ Hears(to, s)
  BY DEF Listeners, Artifacts, Hears
<1>2. skills \in [Skills -> [status : {"candidate", "promoted", "demoted", "disabled"},
                             recovers : BOOLEAN]]
      /\ queue \in Seq(Delivery)
  BY QueueType DEF SettleInv, TypeInv, TypeOK
<1>3. \/ ~Expects(queue, to, s) /\ reliability'[s] = reliability[s]
      \/ /\ SkillReliabilityEligibility /\ Head(queue).artifact = s
         /\ Head(queue).verdict = reliability[s].verdict
         /\ reliability'[s] = reliability[s]
  BY <1>1, Hearing DEF Acts
<1>4. CASE /\ SkillReliabilityEligibility /\ Head(queue).artifact = s
           /\ Head(queue).verdict = reliability[s].verdict
           /\ reliability'[s] = reliability[s]
  <2> DEFINE k == skills[s]
             v == Head(queue).verdict
  <2>1. skills'[s] = IF v \in Unfit /\ k.status \in {"candidate", "promoted"}
                     THEN [status |-> "demoted", recovers |-> TRUE]
                     ELSE IF v = "supported" /\ k.status = "demoted" /\ k.recovers
                     THEN [status |-> "promoted", recovers |-> FALSE]
                     ELSE k
    BY <1>2, <1>4 DEF SkillReliabilityEligibility
  <2> HIDE DEF v
  <2>2. v \notin Unfit BY <2>1 DEF Unfit
  <2> QED BY <1>4, <2>2 DEF v
<1>5. CASE ~Expects(queue, to, s) /\ reliability'[s] = reliability[s]
  <2>0. latest[s] = s BY <1>5, LatestStays
  <2>1. skills[s].status = "promoted" => reliability[s].verdict \notin Unfit
    BY <1>5, <2>0 DEF Judicious
  <2>2. CASE \E r \in Skills, e \in Evidence : PromoteSkill(r, e)
    <3>1. PICK r \in Skills : \E e \in Evidence : PromoteSkill(r, e) BY <2>2
    <3>2. PICK e \in Evidence : PromoteSkill(r, e) BY <3>1
    <3>3. CASE r = s
      <4>1. reliability[s].verdict \in {"none", "supported"}
        BY <2>0, <3>2, <3>3 DEF PromoteSkill, Supports
      <4> QED BY <1>5, <4>1 DEF Unfit
    <3>4. CASE r # s
      BY <1>2, <1>5, <2>1, <3>2, <3>4 DEF PromoteSkill
    <3> QED BY <3>3, <3>4
  <2>3. CASE SkillReliabilityEligibility
    <3>1. queue # <<>> /\ Head(queue).to = to /\ 1 \in 1..Len(queue)
          /\ Head(queue) = queue[1]
      BY <1>2, <2>3, HeadAndTail DEF SkillReliabilityEligibility, Fires
    <3>2. Head(queue).artifact # s BY <1>5, <3>1 DEF Expects, Tells
    <3>3. skills'[s] = skills[s]
      BY <1>2, <2>3, <3>2 DEF SkillReliabilityEligibility
    <3> QED BY <1>5, <2>1, <3>3
  <2>4. CASE skills'[s] = skills[s] BY <1>5, <2>1, <2>4
  <2>5. CASE SkillCall
    <3>1. ASSUME NEW r \in Skills, NEW status \in {"demoted", "disabled"},
                 NEW cited \in BOOLEAN, SetIneligible(r, status, cited)
          PROVE  skills'[s] = skills[s]
      <4>1. skills' = [skills EXCEPT ![r] = [status |-> status,
                                 recovers |-> cited /\ status = "demoted"]]
        BY <3>1 DEF SetIneligible
      <4>2. r # s
        BY <1>2, <4>1
      <4> QED BY <1>2, <4>1, <4>2
    <3>2. ASSUME NEW r \in Skills, NEW e \in Evidence,
                 RecordPromotionEvidence(r, e)
          PROVE  skills'[s] = skills[s]
      BY <3>2 DEF RecordPromotionEvidence
    <3> QED BY <2>2, <2>4, <2>5, <3>1, <3>2 DEF SkillCall
  <2> QED
    <3>1. Outcome \/ Resolution \/ UNCHANGED vars => UNCHANGED skills
      BY DEF vars, Outcome, ExplicitVerdict, VerdictOn,
             SupersedeEvaluation, Judge, MaintenanceOutcome, EmitOutcome, AddRecord,
             Resolution, RejectPromotion, ApprovePromotion, PatchItem, PatchProposal
    <3>2. Drain /\ ~SkillReliabilityEligibility => UNCHANGED skills
      BY DEF Drain, EvaluationOutcomeCapture, ArtifactReliabilityProjector,
             MemoryReliabilityApplier, MemoryPromotionProposer
    <3> QED BY <2>3, <2>4, <2>5, <3>1, <3>2 DEF Next
<1> QED BY <1>3, <1>4, <1>5

LEMMA EligibleStep ==
  ASSUME SettleInv, CrashesFall, EligibleInv, [Next]_vars
  PROVE  CrashesFall' /\ EligibleInv'
<1>1. CrashesFall' /\ (NoCrash' => NoCrash /\ ~CrashRestart)
  BY CrashesCount DEF SettleInv
<1>2. EligibleInv'
  BY <1>1, WordsStep, AppliedStep, JudiciousStep DEF EligibleInv
<1> QED BY <1>1, <1>2

\* While the process lives, a drained queue means that no skill whose own projection
\* is the newer one is eligible with a harmful or stale verdict, and that every item
\* is retrieved under its current one, for any number of artifacts, outcomes and
\* calls.
THEOREM EligibilityIsCurrent == Spec => []EligibilityFollowsVerdict
<1> DEFINE Inv == SettleInv /\ CrashesFall /\ EligibleInv
<1>1. Init => Inv BY InitEarned, InitEligible DEF EarnedInv
<1>2. ASSUME Inv, [Next]_vars PROVE Inv' BY <1>2, SettleStep, EligibleStep
<1>3. Inv => EligibilityFollowsVerdict
  <2>1. ASSUME queue = <<>>, NEW to, NEW a PROVE ~Expects(queue, to, a)
    BY <2>1 DEF Expects
  <2> QED BY <2>1 DEF EligibilityFollowsVerdict, Quiet, EligibleInv, NoCrash,
                      Applied, Judicious
<1> HIDE DEF Inv
<1>4. [Next]_vars /\ Inv => Inv' BY <1>2
<1> QED BY <1>1, <1>3, <1>4, PTL DEF Spec

-----------------------------------------------------------------------------
(* An unfit item has been proposed for demotion. *)

\* Of one item and direction one proposal is open.
Directions == {"promote", "demote"}
OneOpen ==
  \A i \in Items, direction \in Directions : \A p, q \in Open(i, direction) : p = q

\* Only what has a verdict is told of and proposed.
VerdictKnown ==
  /\ \A k \in 1..Len(queue) :
       queue[k].to \in Listeners => reliability[queue[k].artifact].verdict # "none"
  /\ \A p \in 1..Len(proposals) : reliability[proposals[p].item].verdict # "none"

\* The resolution in progress changes something.
FrameMoves ==
  exec.pc = "item" =>
    /\ proposals[exec.proposal].status = "proposed"
    /\ items[proposals[exec.proposal].item].status
         # NewStatus(proposals[exec.proposal].direction)

\* A demotion is open only of a promoted item, or while it is being closed.
OpenDemotions ==
  \A i \in Items : \A q \in Open(i, "demote") :
    items[i].status = "promoted" \/ (exec.pc = "proposal" /\ exec.proposal = q)

\* Open proposals are later than every grant.
GrantsAreOlder ==
  \A i \in Items, direction \in Directions :
    \A p \in Granting(i), q \in Open(i, direction) : p <= q

\* A promoted item has a latest grant; unless that was given with open eyes, the
\* demotion follows it or the proposer is still to be told.
Answered(i, p) ==
  \/ proposals[p].found \in Unfit
  \/ \E q \in p..Len(proposals) :
       proposals[q].item = i /\ proposals[q].direction = "demote"
Latest(i, p) == p \in Granting(i) /\ \A q \in Granting(i) : q <= p
DemotionFollows ==
  \A i \in Items : items[i].status = "promoted" =>
    \E p \in Granting(i) :
      /\ Latest(i, p)
      /\ reliability[i].verdict \in Unfit =>
           Answered(i, p) \/ Expects(queue, "memory_promotion_proposer", i)

DemotionInv ==
  /\ OneOpen /\ VerdictKnown
  /\ NoCrash => FrameMoves /\ OpenDemotions /\ GrantsAreOlder /\ DemotionFollows

\* What a proposal keeps.
SameProposal(q, r) == q.item = r.item /\ q.direction = r.direction

\* A proposal is closed ...
LEMMA Closing ==
  ASSUME TypeInv, NEW p \in 1..Len(proposals),
         RejectPromotion(p) \/ (PatchProposal /\ p = exec.proposal)
  PROVE  /\ Len(proposals') = Len(proposals)
         /\ \A q \in 1..Len(proposals) : /\ SameProposal(proposals'[q], proposals[q])
                                         /\ proposals'[q].found = proposals[q].found
         /\ \A i, d : Open(i, d)' = Open(i, d) \ {p}
         /\ \A i : Granting(i)' = Granting(i)
<1>0. PICK status \in {"approved", "rejected"} :
        proposals' = [proposals EXCEPT ![p].status = status]
  BY DEF RejectPromotion, PatchProposal
<1>1. /\ proposals \in Seq(Proposal) /\ proposals[p] \in Proposal
      /\ \A q \in 1..Len(proposals) : proposals[q] \in Proposal
  BY ProposalTypes
<1>2. /\ Len(proposals') = Len(proposals)
      /\ proposals'[p] = [proposals[p] EXCEPT !.status = status]
      /\ \A q \in 1..Len(proposals) : q # p => proposals'[q] = proposals[q]
  BY <1>0, <1>1
<1>3. /\ SameProposal(proposals'[p], proposals[p])
      /\ proposals'[p].found = proposals[p].found /\ proposals'[p].status = status
  BY <1>1, <1>2 DEF Proposal, SameProposal
<1>4. \A q \in 1..Len(proposals) : /\ SameProposal(proposals'[q], proposals[q])
                                   /\ proposals'[q].found = proposals[q].found
  BY <1>2, <1>3 DEF SameProposal
<1>5. ASSUME NEW i, NEW d PROVE Open(i, d)' = Open(i, d) \ {p}
  BY <1>2, <1>3, <1>4 DEF Open, SameProposal
<1>6. ASSUME NEW i PROVE Granting(i)' = Granting(i)
  BY <1>2, <1>4 DEF Granting, SameProposal
<1> QED BY <1>2, <1>4, <1>5, <1>6

\* ... made ...
LEMMA Proposing ==
  ASSUME TypeInv, NEW j \in Items, NEW dir \in Directions,
         proposals' = Append(proposals, [item |-> j, direction |-> dir,
                                         status |-> "proposed", found |-> "none"])
  PROVE  /\ Len(proposals) \in Nat /\ Len(proposals') = Len(proposals) + 1
         /\ \A q \in 1..Len(proposals) : proposals'[q] = proposals[q]
         /\ proposals'[Len(proposals) + 1].item = j
         /\ proposals'[Len(proposals) + 1].direction = dir
         /\ \A i, d : Open(i, d)' =
              Open(i, d) \cup (IF i = j /\ d = dir THEN {Len(proposals) + 1} ELSE {})
         /\ \A i : Granting(i)' = Granting(i)
<1> DEFINE n == Len(proposals)
           new == [item |-> j, direction |-> dir, status |-> "proposed", found |-> "none"]
<1>1. proposals \in Seq(Proposal) /\ n \in Nat BY ProposalTypes
<1>2. /\ Len(proposals') = n + 1 /\ proposals'[n + 1] = new
      /\ \A q \in 1..n : proposals'[q] = proposals[q]
  <2>1. new \in Proposal BY DEF Proposal, Directions
  <2> HIDE DEF new
  <2> QED BY <1>1, <2>1 DEF new
<1>3. \A q : q \in 1..(n + 1) <=> q \in 1..n \/ q = n + 1 BY <1>1
<1> HIDE DEF n
<1>4. ASSUME NEW i, NEW d
      PROVE  Open(i, d)' = Open(i, d) \cup (IF i = j /\ d = dir THEN {n + 1} ELSE {})
  BY <1>2, <1>3, <1>4 DEF Open, n
<1>5. ASSUME NEW i PROVE Granting(i)' = Granting(i)
  BY <1>2, <1>3 DEF Granting, n
<1> QED BY <1>1, <1>2, <1>4, <1>5 DEF n

\* ... or granted.
LEMMA Patching ==
  ASSUME TypeInv, PatchItem, NEW p, p = exec.proposal
  PROVE  /\ p \in 1..Len(proposals) /\ proposals[p].item \in Items
         /\ Len(proposals') = Len(proposals)
         /\ \A q \in 1..Len(proposals) : SameProposal(proposals'[q], proposals[q])
         /\ \A q \in 1..Len(proposals) : q # p => proposals'[q].found = proposals[q].found
         /\ proposals'[p].found = reliability[proposals[p].item].verdict
         /\ \A i, d : Open(i, d)' = Open(i, d)
         /\ \A i : /\ Granting(i)' \subseteq Granting(i) \cup {p}
                   /\ (proposals[p].direction = "demote" \/ i # proposals[p].item) =>
                        Granting(i)' = Granting(i)
         /\ \A i \in Items : items'[i].status =
              IF i = proposals[p].item THEN NewStatus(proposals[p].direction)
              ELSE items[i].status
<1>1. p \in 1..Len(proposals) BY DEF TypeInv, RefersOK, PatchItem
<1>2. /\ proposals \in Seq(Proposal) /\ proposals[p] \in Proposal
      /\ \A q \in 1..Len(proposals) : proposals[q] \in Proposal
  BY <1>1, ProposalTypes
<1> DEFINE v == reliability[proposals[p].item].verdict
           s == NewStatus(proposals[p].direction)
           j == proposals[p].item
<1>3. proposals' = [proposals EXCEPT ![p].found = v]
      /\ items' = [items EXCEPT ![j].status = s]
  BY DEF PatchItem
<1>4. j \in Items BY <1>2 DEF Proposal
<1> HIDE DEF v, s
<1>5. /\ Len(proposals') = Len(proposals)
      /\ proposals'[p] = [proposals[p] EXCEPT !.found = v]
      /\ \A q \in 1..Len(proposals) : q # p => proposals'[q] = proposals[q]
  BY <1>1, <1>2, <1>3
<1>6. /\ SameProposal(proposals'[p], proposals[p])
      /\ proposals'[p].found = v /\ proposals'[p].status = proposals[p].status
  BY <1>2, <1>5 DEF Proposal, SameProposal
<1>7. \A q \in 1..Len(proposals) : /\ SameProposal(proposals'[q], proposals[q])
                                   /\ proposals'[q].status = proposals[q].status
  BY <1>5, <1>6 DEF SameProposal
<1>8. ASSUME NEW i, NEW d PROVE Open(i, d)' = Open(i, d)
  BY <1>5, <1>7 DEF Open, SameProposal
<1>9. ASSUME NEW i
      PROVE  /\ Granting(i)' \subseteq Granting(i) \cup {p}
             /\ (proposals[p].direction = "demote" \/ i # j) => Granting(i)' = Granting(i)
  BY <1>1, <1>5, <1>6, <1>7 DEF Granting, SameProposal
<1>10. \A i \in Items : items'[i].status = IF i = j THEN s ELSE items[i].status
  <2>1. items \in [Items -> [status : {"admitted", "promoted", "demoted"},
                             verdict : Verdicts \cup {"none"}]]
    BY DEF TypeInv, TypeOK
  <2> HIDE DEF j
  <2> QED BY <1>3, <1>4, <2>1 DEF j
<1> QED BY <1>1, <1>4, <1>5, <1>6, <1>7, <1>8, <1>9, <1>10 DEF v, s

\* The other steps leave the proposals alone or close one, and no item is promoted
\* or demoted.
LEMMA ProposalSteps ==
  ASSUME TypeInv, [Next]_vars, ~PatchItem
  PROVE  /\ \A i \in Items : items'[i].status = items[i].status
         /\ \/ MemoryPromotionProposer
            \/ \E p \in 1..Len(proposals) : RejectPromotion(p)
            \/ PatchProposal
            \/ proposals' = proposals
<1>1. \A i \in Items : items'[i].status = items[i].status
  <2>1. items \in [Items -> [status : {"admitted", "promoted", "demoted"},
                             verdict : Verdicts \cup {"none"}]]
    BY DEF TypeInv, TypeOK
  <2>2. CASE MemoryReliabilityApplier
    BY <2>1, <2>2 DEF MemoryReliabilityApplier
  <2>3. CASE ~MemoryReliabilityApplier
    <3>1. Outcome \/ SkillCall \/ CrashRestart \/ UNCHANGED vars => UNCHANGED items
      BY DEF vars, Outcome, SkillCall, ExplicitVerdict, VerdictOn,
             SupersedeEvaluation, Judge, MaintenanceOutcome, EmitOutcome, AddRecord,
             RecordPromotionEvidence, PromoteSkill, SetIneligible, CrashRestart
    <3>2. Drain => UNCHANGED items
      BY <2>3 DEF Drain, EvaluationOutcomeCapture, ArtifactReliabilityProjector,
                  SkillReliabilityEligibility, MemoryPromotionProposer
    <3>3. Resolution => UNCHANGED items
      BY DEF Resolution, RejectPromotion, ApprovePromotion, PatchProposal
    <3> QED BY <3>1, <3>2, <3>3 DEF Next
  <2> QED BY <2>2, <2>3
<1>2. \/ MemoryPromotionProposer
      \/ \E p \in 1..Len(proposals) : RejectPromotion(p)
      \/ PatchProposal
      \/ proposals' = proposals
  <2>1. Outcome \/ SkillCall \/ CrashRestart \/ UNCHANGED vars => UNCHANGED proposals
    BY DEF vars, Outcome, SkillCall, ExplicitVerdict, VerdictOn,
           SupersedeEvaluation, Judge, MaintenanceOutcome, EmitOutcome, AddRecord,
           RecordPromotionEvidence, PromoteSkill, SetIneligible, CrashRestart
  <2>2. Drain => MemoryPromotionProposer \/ UNCHANGED proposals
    BY DEF Drain, EvaluationOutcomeCapture, ArtifactReliabilityProjector,
           SkillReliabilityEligibility, MemoryReliabilityApplier
  <2>3. Resolution => \/ \E p \in 1..Len(proposals) : RejectPromotion(p)
                      \/ PatchProposal \/ UNCHANGED proposals
    BY DEF Resolution, ApprovePromotion
  <2> QED BY <2>1, <2>2, <2>3 DEF Next
<1> QED BY <1>1, <1>2

\* What the proposer makes.
LEMMA ProposerMakes ==
  ASSUME TypeInv, MemoryPromotionProposer, NEW j, j = Head(queue).artifact
  PROVE  /\ queue # <<>> /\ j \in Items
         /\ Head(queue) = queue[1] /\ 1 \in 1..Len(queue) /\ queue[1].to \in Listeners
         /\ exec' = exec /\ exec.pc = "idle"
         /\ \/ proposals' = proposals
            \/ \E dir \in Directions :
                 /\ proposals' = Append(proposals, [item |-> j, direction |-> dir,
                                           status |-> "proposed", found |-> "none"])
                 /\ Open(j, dir) = {}
                 /\ dir = "demote" => items[j].status = "promoted"
<1>1. queue \in Seq(Delivery) /\ queue # <<>> /\ exec.pc = "idle" /\ exec' = exec
  BY QueueType, FrameKinds DEF TypeInv, MemoryPromotionProposer, Fires, Ready
<1>2. Head(queue) = queue[1] /\ 1 \in 1..Len(queue)
      /\ queue[1].to = "memory_promotion_proposer"
  BY <1>1, HeadAndTail DEF MemoryPromotionProposer, Fires
<1>3. j \in Items BY <1>2 DEF TypeInv, RefersOK, DeliveryRefers
<1>4. \/ proposals' = proposals
      \/ \E dir \in Directions :
           /\ proposals' = Append(proposals, [item |-> j, direction |-> dir,
                                     status |-> "proposed", found |-> "none"])
           /\ Open(j, dir) = {}
           /\ dir = "demote" => items[j].status = "promoted"
  BY ProposerAppends DEF Directions, EarnsPromotion, EarnsDemotion
<1> QED BY <1>1, <1>2, <1>3, <1>4 DEF Listeners

LEMMA OneOpenStep ==
  ASSUME TypeInv, OneOpen, [Next]_vars PROVE OneOpen'
<1> SUFFICES ASSUME NEW i \in Items, NEW dir \in Directions,
                    NEW p \in Open(i, dir)', NEW q \in Open(i, dir)'
             PROVE  p = q
  BY DEF OneOpen
<1>1. CASE Open(i, dir)' \subseteq Open(i, dir) BY <1>1 DEF OneOpen
<1>2. CASE PatchItem BY <1>1, <1>2, Patching
<1>3. CASE MemoryPromotionProposer
  <2>1. PICK j \in Items : j = Head(queue).artifact BY <1>3, ProposerMakes
  <2>2. CASE proposals' = proposals BY <1>1, <2>2 DEF Open
  <2>3. CASE proposals' # proposals
    <3>1. PICK d \in Directions :
            /\ proposals' = Append(proposals, [item |-> j, direction |-> d,
                                      status |-> "proposed", found |-> "none"])
            /\ Open(j, d) = {}
      BY <1>3, <2>1, <2>3, ProposerMakes
    <3>2. Open(i, dir)' = Open(i, dir) \cup
            (IF i = j /\ dir = d THEN {Len(proposals) + 1} ELSE {})
      BY <3>1, Proposing
    <3> QED BY <3>1, <3>2 DEF OneOpen
  <2> QED BY <2>2, <2>3
<1>4. CASE \E r \in 1..Len(proposals) : RejectPromotion(r)
  <2>1. PICK r \in 1..Len(proposals) : RejectPromotion(r) BY <1>4
  <2> QED BY <1>1, <2>1, Closing
<1>5. CASE PatchProposal
  <2>1. PICK r \in 1..Len(proposals) : r = exec.proposal
    BY <1>5 DEF PatchProposal, TypeInv, RefersOK
  <2> QED BY <1>1, <1>5, <2>1, Closing
<1>6. CASE proposals' = proposals BY <1>1, <1>6 DEF Open
<1> QED BY <1>2, <1>3, <1>4, <1>5, <1>6, ProposalSteps

\* Which proposals there are, and about what.
LEMMA ProposalsKept ==
  ASSUME TypeInv, [Next]_vars
  PROVE  /\ Len(proposals) \in Nat /\ Len(proposals') \in Nat
         /\ Len(proposals') >= Len(proposals)
         /\ \A q \in 1..Len(proposals) : SameProposal(proposals'[q], proposals[q])
         /\ \A q \in 1..Len(proposals') : q \notin 1..Len(proposals) =>
              /\ MemoryPromotionProposer
              /\ proposals'[q].item = Head(queue).artifact
<1>1. Len(proposals) \in Nat BY ProposalTypes
<1>2. CASE PatchItem BY <1>1, <1>2, Patching
<1>3. CASE MemoryPromotionProposer
  <2>1. PICK j \in Items : j = Head(queue).artifact BY <1>3, ProposerMakes
  <2>2. CASE proposals' = proposals BY <1>1, <2>2 DEF SameProposal
  <2>3. CASE proposals' # proposals
    <3>1. PICK d \in Directions :
            proposals' = Append(proposals, [item |-> j, direction |-> d,
                                  status |-> "proposed", found |-> "none"])
      BY <1>3, <2>1, <2>3, ProposerMakes
    <3>2. /\ Len(proposals') = Len(proposals) + 1
          /\ \A q \in 1..Len(proposals) : proposals'[q] = proposals[q]
          /\ proposals'[Len(proposals) + 1].item = j
      BY <3>1, Proposing
    <3> QED BY <1>1, <1>3, <2>1, <3>2 DEF SameProposal
  <2> QED BY <2>2, <2>3
<1>4. CASE \E r \in 1..Len(proposals) : RejectPromotion(r)
  <2>1. PICK r \in 1..Len(proposals) : RejectPromotion(r) BY <1>4
  <2> QED BY <1>1, <2>1, Closing
<1>5. CASE PatchProposal
  <2>1. PICK r \in 1..Len(proposals) : r = exec.proposal
    BY <1>5 DEF PatchProposal, TypeInv, RefersOK
  <2> QED BY <1>1, <1>5, <2>1, Closing
<1>6. CASE proposals' = proposals BY <1>1, <1>6 DEF SameProposal
<1> QED BY <1>2, <1>3, <1>4, <1>5, <1>6, ProposalSteps

\* A verdict once given is never taken back.
LEMMA VerdictsStay ==
  ASSUME SettleInv, [Next]_vars, NEW a \in Artifacts, reliability[a].verdict # "none"
  PROVE  reliability'[a].verdict # "none"
<1>1. CASE CrashRestart BY <1>1 DEF CrashRestart
<1>2. CASE ArtifactReliabilityProjector BY <1>2, ProjectorNews
<1> QED BY <1>1, <1>2, QueueSteps

LEMMA VerdictKnownStep ==
  ASSUME SettleInv, VerdictKnown, [Next]_vars PROVE VerdictKnown'
<1>0. queue \in Seq(Delivery) /\ Items \subseteq Artifacts
  BY QueueType DEF SettleInv, TypeInv, Artifacts
<1>1. \A k \in 1..Len(queue) : queue[k].to \in Listeners =>
        queue[k].artifact \in Artifacts /\ reliability'[queue[k].artifact].verdict # "none"
  <2> SUFFICES ASSUME NEW k \in 1..Len(queue), queue[k].to \in Listeners
               PROVE  queue[k].artifact \in Artifacts
                      /\ reliability'[queue[k].artifact].verdict # "none"
    OBVIOUS
  <2>1. queue[k] \in Delivery BY <1>0
  <2>2. queue[k] \in Changes BY <2>1, DeliveryKinds DEF Listeners
  <2>3. queue[k].artifact \in Artifacts BY <2>2 DEF Changes
  <2> QED BY <2>3, VerdictsStay DEF VerdictKnown
<1>2. ASSUME NEW k \in 1..Len(queue'), queue'[k].to \in Listeners
      PROVE  reliability'[queue'[k].artifact].verdict # "none"
  <2>1. CASE CrashRestart BY <2>1 DEF CrashRestart
  <2>2. CASE queue' = queue BY <1>1, <1>2, <2>2
  <2>3. CASE \E d \in Captures \cup Announcements : queue' = Append(queue, d)
    <3>1. PICK d \in Captures \cup Announcements : queue' = Append(queue, d) BY <2>3
    <3>2. d \in Delivery /\ d.to \notin Listeners
      BY DEF Delivery, Captures, Announcements, Listeners
    <3>3. (k \in 1..Len(queue) /\ queue'[k] = queue[k]) \/ queue'[k] = d
      BY <1>0, <3>1, <3>2
    <3> QED BY <1>1, <1>2, <3>2, <3>3
  <2>4. CASE queue # <<>> /\ queue' = Tail(queue)
    <3>1. k + 1 \in 1..Len(queue) /\ queue'[k] = queue[k + 1] BY <1>0, <2>4, HeadAndTail
    <3> QED BY <1>1, <1>2, <3>1
  <2>5. CASE ArtifactReliabilityProjector
    <3>1. PICK a \in Artifacts : a = Head(queue).artifact BY <2>5, ProjectorNews
    <3>2. queue # <<>> /\ reliability'[a].verdict # "none"
      BY <2>5, <3>1, ProjectorNews
    <3>3. PICK news \in Seq(Delivery) :
            /\ queue' = Tail(queue) \o news
            /\ \A n \in 1..Len(news) : news[n].artifact = a
      BY <2>5, <3>1, ProjectorNews
    <3>4. /\ Tail(queue) \in Seq(Delivery)
          /\ \A n \in 1..Len(Tail(queue)) :
               n + 1 \in 1..Len(queue) /\ Tail(queue)[n] = queue[n + 1]
      BY <1>0, <3>2, HeadAndTail
    <3>5. \/ k \in 1..Len(Tail(queue)) /\ queue'[k] = Tail(queue)[k]
          \/ k - Len(Tail(queue)) \in 1..Len(news)
             /\ queue'[k] = news[k - Len(Tail(queue))]
      BY <3>3, <3>4
    <3> QED BY <1>1, <1>2, <3>2, <3>3, <3>4, <3>5
  <2> QED BY <2>1, <2>2, <2>3, <2>4, <2>5, QueueSteps
<1>3. ASSUME NEW p \in 1..Len(proposals')
      PROVE  reliability'[proposals'[p].item].verdict # "none"
  <2>1. TypeInv BY DEF SettleInv
  <2>2. CASE p \in 1..Len(proposals)
    <3>1. proposals'[p].item = proposals[p].item
      BY <2>1, <2>2, ProposalsKept DEF SameProposal
    <3>2. proposals[p].item \in Artifacts BY <1>0, <2>1, <2>2, ProposalTypes DEF Proposal
    <3> QED BY <2>2, <3>1, <3>2, VerdictsStay DEF VerdictKnown
  <2>3. CASE p \notin 1..Len(proposals)
    <3>1. MemoryPromotionProposer /\ proposals'[p].item = Head(queue).artifact
      BY <2>1, <2>3, ProposalsKept
    <3>2. Head(queue) = queue[1] /\ 1 \in 1..Len(queue) /\ queue[1].to \in Listeners
      BY <2>1, <3>1, ProposerMakes
    <3> QED BY <1>1, <3>1, <3>2
  <2> QED BY <2>2, <2>3
<1> QED BY <1>2, <1>3 DEF VerdictKnown

\* Who begins and who ends a resolution.
LEMMA FrameSteps ==
  ASSUME TypeInv, [Next]_vars, ~CrashRestart
  PROVE  /\ exec'.pc = "item" =>
              UNCHANGED vars \/ \E p \in 1..Len(proposals) : ApprovePromotion(p)
         /\ exec.pc = "proposal" => UNCHANGED vars \/ PatchProposal
<1>0. TypeOK BY DEF TypeInv
<1>1. CASE Outcome
  <2>1. CASE EmitOutcome
    <3>1. exec.pc = "emit" /\ exec \in Recordings /\ exec' = [exec EXCEPT !.pc = "record"]
      BY <1>0, <2>1, FrameKinds DEF EmitOutcome
    <3>2. exec'.pc = "record" BY <3>1 DEF Recordings
    <3> QED BY <3>1, <3>2
  <2>2. CASE AddRecord
    <3>1. exec'.pc \in {"idle", "emit"} BY <2>2 DEF AddRecord, Idle, Emitting
    <3>2. exec.pc = "record" BY <2>2 DEF AddRecord
    <3> QED BY <3>1, <3>2
  <2>3. CASE ~EmitOutcome /\ ~AddRecord
    <3>1. exec.pc = "idle"
      BY <1>0, <1>1, <2>3, FrameKinds
      DEF Outcome, ExplicitVerdict, VerdictOn, SupersedeEvaluation, Judge,
          MaintenanceOutcome, Ready
    <3>2. exec'.pc \in {"idle", "emit"}
      BY <1>1, <2>3, <3>1
      DEF Outcome, ExplicitVerdict, VerdictOn, SupersedeEvaluation, Judge,
          MaintenanceOutcome, Emitting
    <3> QED BY <3>1, <3>2
  <2> QED BY <2>1, <2>2, <2>3
<1>2. CASE Resolution
  <2>1. CASE \E p \in 1..Len(proposals) : RejectPromotion(p)
    <3>1. exec.pc = "idle" /\ exec' = exec
      BY <1>0, <2>1, FrameKinds DEF RejectPromotion, Ready
    <3> QED BY <3>1
  <2>2. CASE \E p \in 1..Len(proposals) : ApprovePromotion(p)
    <3>1. exec.pc = "idle" BY <1>0, <2>2, FrameKinds DEF ApprovePromotion, Ready
    <3> QED BY <2>2, <3>1
  <2>3. CASE PatchItem
    <3>1. exec.pc = "item" /\ exec \in Resolutions /\ exec' = [exec EXCEPT !.pc = "proposal"]
      BY <1>0, <2>3, FrameKinds DEF PatchItem
    <3>2. exec'.pc = "proposal" BY <3>1 DEF Resolutions
    <3> QED BY <3>1, <3>2
  <2>4. CASE PatchProposal
    BY <2>4 DEF PatchProposal, Idle
  <2> QED BY <1>2, <2>1, <2>2, <2>3, <2>4 DEF Resolution
<1>3. CASE SkillCall
  <2>1. exec.pc = "idle" /\ exec' = exec
    BY <1>0, <1>3, FrameKinds
    DEF SkillCall, RecordPromotionEvidence, PromoteSkill, SetIneligible, Ready
  <2> QED BY <2>1
<1>4. CASE Drain
  <2>1. exec.pc = "idle"
    BY <1>0, <1>4, FrameKinds
    DEF Drain, EvaluationOutcomeCapture, ArtifactReliabilityProjector,
        MemoryReliabilityApplier, MemoryPromotionProposer, SkillReliabilityEligibility,
        Fires, Ready
  <2>2. CASE EvaluationOutcomeCapture
    <3>1. exec'.pc \in {"idle", "emit"}
      BY <2>2 DEF EvaluationOutcomeCapture, Idle, Emitting
    <3> QED BY <2>1, <3>1
  <2>3. CASE ~EvaluationOutcomeCapture
    <3>1. exec' = exec
      BY <1>4, <2>3
      DEF Drain, ArtifactReliabilityProjector, MemoryReliabilityApplier,
          MemoryPromotionProposer, SkillReliabilityEligibility
    <3> QED BY <2>1, <3>1
  <2> QED BY <2>2, <2>3
<1>5. CASE UNCHANGED vars BY <1>5
<1> QED BY <1>1, <1>2, <1>3, <1>4, <1>5 DEF Next

LEMMA FrameMovesStep ==
  ASSUME TypeInv, FrameMoves, [Next]_vars, ~CrashRestart PROVE FrameMoves'
<1> SUFFICES ASSUME exec'.pc = "item"
             PROVE  /\ proposals'[exec'.proposal].status = "proposed"
                    /\ items'[proposals'[exec'.proposal].item].status
                         # NewStatus(proposals'[exec'.proposal].direction)
  BY DEF FrameMoves, NewStatus
<1>1. CASE UNCHANGED vars BY <1>1 DEF vars, FrameMoves
<1>2. CASE \E p \in 1..Len(proposals) : ApprovePromotion(p)
  <2>1. PICK p \in 1..Len(proposals) : ApprovePromotion(p) BY <1>2
  <2>2. /\ proposals[p].status = "proposed" /\ exec'.proposal = p
        /\ proposals' = proposals /\ items' = items
    BY <2>1 DEF ApprovePromotion
  <2>3. items[proposals[p].item].status # NewStatus(proposals[p].direction)
    BY <2>1 DEF ApprovePromotion
  <2> QED BY <2>2, <2>3
<1> QED BY <1>1, <1>2, FrameSteps

\* The proposal in the frame is the open one of its item and direction.
LEMMA FrameIsOpen ==
  ASSUME TypeInv, FrameMoves, PatchItem, NEW p, p = exec.proposal
  PROVE  /\ exec.pc = "item"
         /\ p \in Open(proposals[p].item, proposals[p].direction)
         /\ proposals[p].direction \in Directions
         /\ items[proposals[p].item].status # NewStatus(proposals[p].direction)
<1>1. exec.pc = "item" /\ p \in 1..Len(proposals) BY Patching DEF PatchItem
<1>2. proposals[p] \in Proposal BY <1>1, ProposalTypes
<1> QED BY <1>1, <1>2 DEF FrameMoves, Open, Proposal, Directions

LEMMA OpenDemotionsStep ==
  ASSUME TypeInv, OneOpen, FrameMoves, OpenDemotions, [Next]_vars, ~CrashRestart
  PROVE  OpenDemotions'
<1> SUFFICES ASSUME NEW i \in Items, NEW q \in Open(i, "demote")',
                    items'[i].status # "promoted"
             PROVE  exec'.pc = "proposal" /\ exec'.proposal = q
  BY DEF OpenDemotions
<1>1. CASE PatchItem
  <2>1. PICK p : p = exec.proposal OBVIOUS
  <2>2. /\ q \in Open(i, "demote")
        /\ items'[i].status = IF i = proposals[p].item
                              THEN NewStatus(proposals[p].direction)
                              ELSE items[i].status
    BY <1>1, <2>1, Patching
  <2>3. /\ p \in Open(proposals[p].item, proposals[p].direction)
        /\ exec.pc = "item" /\ proposals[p].direction \in Directions
    BY <1>1, <2>1, FrameIsOpen
  <2>4. i = proposals[p].item BY <2>2, <2>3 DEF OpenDemotions
  <2>5. proposals[p].direction = "demote" BY <2>2, <2>3, <2>4 DEF NewStatus, Directions
  <2>6. q = p BY <2>2, <2>3, <2>4, <2>5 DEF OneOpen
  <2>7. exec \in Resolutions /\ exec' = [exec EXCEPT !.pc = "proposal"]
    BY <1>1, <2>3, FrameKinds DEF PatchItem, TypeInv
  <2> QED BY <2>1, <2>6, <2>7 DEF Resolutions
<1>2. CASE PatchProposal
  <2>1. PICK r \in 1..Len(proposals) : r = exec.proposal
    BY <1>2 DEF PatchProposal, TypeInv, RefersOK
  <2>2. q \in Open(i, "demote") /\ q # r BY <1>2, <2>1, Closing
  <2>3. items' = items BY <1>2 DEF PatchProposal
  <2> QED BY <2>1, <2>2, <2>3 DEF OpenDemotions
<1>3. CASE UNCHANGED vars BY <1>3 DEF vars, OpenDemotions, Open
<1>4. CASE ~PatchItem /\ ~PatchProposal /\ ~UNCHANGED vars
  <2>1. exec.pc # "proposal" /\ items'[i].status = items[i].status
    BY <1>4, FrameSteps, ProposalSteps
  <2>2. q \notin Open(i, "demote") BY <2>1 DEF OpenDemotions
  <2>3. CASE MemoryPromotionProposer
    <3>1. PICK j \in Items : j = Head(queue).artifact BY <2>3, ProposerMakes
    <3>2. proposals' # proposals BY <2>2 DEF Open
    <3>3. PICK d \in Directions :
            /\ proposals' = Append(proposals, [item |-> j, direction |-> d,
                                      status |-> "proposed", found |-> "none"])
            /\ d = "demote" => items[j].status = "promoted"
      BY <2>3, <3>1, <3>2, ProposerMakes
    <3>4. i = j /\ d = "demote" BY <2>2, <3>3, Proposing
    <3> QED BY <2>1, <3>3, <3>4
  <2>4. CASE \E r \in 1..Len(proposals) : RejectPromotion(r)
    <3>1. PICK r \in 1..Len(proposals) : RejectPromotion(r) BY <2>4
    <3> QED BY <2>2, <3>1, Closing
  <2>5. CASE proposals' = proposals BY <2>2, <2>5 DEF Open
  <2> QED BY <1>4, <2>3, <2>4, <2>5, ProposalSteps
<1> QED BY <1>1, <1>2, <1>3, <1>4

LEMMA GrantsStep ==
  ASSUME TypeInv, OneOpen, FrameMoves, OpenDemotions, GrantsAreOlder, [Next]_vars
  PROVE  GrantsAreOlder'
<1> SUFFICES ASSUME NEW i \in Items, NEW dir \in Directions,
                    NEW g \in Granting(i)', NEW q \in Open(i, dir)'
             PROVE  g <= q
  BY DEF GrantsAreOlder
<1>1. /\ Len(proposals) \in Nat
      /\ \A k : Granting(k) \subseteq 1..Len(proposals)
  BY ProposalTypes DEF Granting
<1>2. CASE g \in Granting(i) /\ q \in Open(i, dir) BY <1>2 DEF GrantsAreOlder
<1>3. CASE PatchItem
  <2>1. PICK p : p = exec.proposal OBVIOUS
  <2>2. /\ q \in Open(i, dir) /\ p \in 1..Len(proposals)
        /\ Granting(i)' \subseteq Granting(i) \cup {p}
        /\ (proposals[p].direction = "demote" \/ i # proposals[p].item) =>
             Granting(i)' = Granting(i)
    BY <1>3, <2>1, Patching
  <2>3. /\ p \in Open(proposals[p].item, proposals[p].direction)
        /\ exec.pc = "item" /\ proposals[p].direction \in Directions
        /\ items[proposals[p].item].status # NewStatus(proposals[p].direction)
    BY <1>3, <2>1, FrameIsOpen
  <2>4. CASE g \notin Granting(i)
    <3>1. g = p /\ i = proposals[p].item /\ proposals[p].direction = "promote"
      BY <2>2, <2>3, <2>4 DEF Directions
    <3>2. items[i].status # "promoted" BY <2>3, <3>1 DEF NewStatus
    <3>3. dir # "demote" BY <2>2, <2>3, <3>2 DEF OpenDemotions
    <3>4. q = p BY <2>2, <2>3, <3>1, <3>3 DEF OneOpen, Directions
    <3> QED BY <2>2, <3>1, <3>4
  <2> QED BY <1>2, <2>2, <2>4
<1>4. CASE MemoryPromotionProposer
  <2>1. PICK j \in Items : j = Head(queue).artifact BY <1>4, ProposerMakes
  <2>2. CASE proposals' = proposals BY <1>2, <2>2 DEF Open, Granting
  <2>3. CASE proposals' # proposals
    <3>1. PICK d \in Directions :
            proposals' = Append(proposals, [item |-> j, direction |-> d,
                                  status |-> "proposed", found |-> "none"])
      BY <1>4, <2>1, <2>3, ProposerMakes
    <3>2. /\ Granting(i)' = Granting(i)
          /\ Open(i, dir)' = Open(i, dir) \cup
               (IF i = j /\ dir = d THEN {Len(proposals) + 1} ELSE {})
      BY <3>1, Proposing
    <3>3. g \in 1..Len(proposals) BY <1>1, <3>2
    <3> QED BY <1>1, <1>2, <3>2, <3>3
  <2> QED BY <2>2, <2>3
<1>5. CASE \E r \in 1..Len(proposals) : RejectPromotion(r)
  <2>1. PICK r \in 1..Len(proposals) : RejectPromotion(r) BY <1>5
  <2> QED BY <1>2, <2>1, Closing
<1>6. CASE PatchProposal
  <2>1. PICK r \in 1..Len(proposals) : r = exec.proposal
    BY <1>6 DEF PatchProposal, TypeInv, RefersOK
  <2> QED BY <1>2, <1>6, <2>1, Closing
<1>7. CASE proposals' = proposals BY <1>2, <1>7 DEF Open, Granting
<1> QED BY <1>3, <1>4, <1>5, <1>6, <1>7, ProposalSteps

\* Without a grant the grants stay, and an answer once given counts.
LEMMA GrantsStay ==
  ASSUME TypeInv, [Next]_vars, NEW i \in Items,
         \/ ~PatchItem
         \/ proposals[exec.proposal].direction = "demote"
         \/ i # proposals[exec.proposal].item
  PROVE  /\ Granting(i)' = Granting(i)
         /\ \A p \in Granting(i) : Answered(i, p) => Answered(i, p)'
<1>1. /\ Len(proposals) \in Nat /\ Len(proposals') \in Nat
      /\ Len(proposals') >= Len(proposals)
      /\ \A q \in 1..Len(proposals) : SameProposal(proposals'[q], proposals[q])
  BY ProposalsKept
<1>2. /\ Granting(i)' = Granting(i)
      /\ \A p \in Granting(i) : proposals'[p].found = proposals[p].found
  <2>1. CASE PatchItem
    <3>1. PICK r : r = exec.proposal OBVIOUS
    <3>2. /\ r \in 1..Len(proposals) /\ Granting(i)' = Granting(i)
          /\ \A q \in 1..Len(proposals) : q # r => proposals'[q].found = proposals[q].found
      BY <2>1, <3>1, Patching
    <3>3. r \notin Granting(i) BY <2>1, <3>1 DEF Granting
    <3> QED BY <3>2, <3>3 DEF Granting
  <2>2. CASE MemoryPromotionProposer
    <3>1. PICK j \in Items : j = Head(queue).artifact BY <2>2, ProposerMakes
    <3>2. CASE proposals' = proposals BY <3>2 DEF Granting
    <3>3. CASE proposals' # proposals
      <4>1. PICK d \in Directions :
              proposals' = Append(proposals, [item |-> j, direction |-> d,
                                    status |-> "proposed", found |-> "none"])
        BY <2>2, <3>1, <3>3, ProposerMakes
      <4> QED BY <4>1, Proposing DEF Granting
    <3> QED BY <3>2, <3>3
  <2>3. CASE \E r \in 1..Len(proposals) : RejectPromotion(r)
    <3>1. PICK r \in 1..Len(proposals) : RejectPromotion(r) BY <2>3
    <3> QED BY <3>1, Closing DEF Granting
  <2>4. CASE PatchProposal
    <3>1. PICK r \in 1..Len(proposals) : r = exec.proposal
      BY <2>4 DEF PatchProposal, TypeInv, RefersOK
    <3> QED BY <2>4, <3>1, Closing DEF Granting
  <2>5. CASE proposals' = proposals BY <2>5 DEF Granting
  <2> QED BY <2>1, <2>2, <2>3, <2>4, <2>5, ProposalSteps
<1>3. ASSUME NEW p \in Granting(i), Answered(i, p) PROVE Answered(i, p)'
  <2>1. p \in 1..Len(proposals) BY DEF Granting
  <2>2. CASE proposals[p].found \in Unfit BY <1>2, <2>2 DEF Answered, Unfit
  <2>3. CASE \E q \in p..Len(proposals) :
               proposals[q].item = i /\ proposals[q].direction = "demote"
    <3>1. PICK q \in p..Len(proposals) :
            proposals[q].item = i /\ proposals[q].direction = "demote"
      BY <2>3
    <3>2. q \in 1..Len(proposals) /\ q \in p..Len(proposals') BY <1>1, <2>1
    <3>3. proposals'[q].item = i /\ proposals'[q].direction = "demote"
      BY <1>1, <3>1, <3>2 DEF SameProposal
    <3> QED BY <3>2, <3>3 DEF Answered
  <2> QED BY <1>3, <2>2, <2>3 DEF Answered
<1> QED BY <1>2, <1>3

\* The proposer, told that a promoted item is unfit, leaves it with a demotion that
\* is later than its grants.
LEMMA ProposerAnswers ==
  ASSUME TypeInv, GrantsAreOlder, MemoryPromotionProposer, NEW i \in Items,
         i = Head(queue).artifact, Head(queue).verdict \in Unfit,
         items[i].status = "promoted", NEW p \in Granting(i)
  PROVE  Answered(i, p)'
<1>1. Len(proposals) \in Nat /\ p \in 1..Len(proposals)
  BY ProposalTypes DEF Granting
<1>2. CASE Open(i, "demote") = {}
  <2>1. EarnsDemotion(i, Head(queue)) /\ ~EarnsPromotion(i, Head(queue))
    BY <1>2 DEF EarnsDemotion, EarnsPromotion
  <2>2. proposals' = Append(proposals, [item |-> i, direction |-> "demote",
                                        status |-> "proposed", found |-> "none"])
    BY <2>1 DEF MemoryPromotionProposer
  <2>3. /\ Len(proposals') = Len(proposals) + 1
        /\ proposals'[Len(proposals) + 1].item = i
        /\ proposals'[Len(proposals) + 1].direction = "demote"
    BY <2>2, Proposing DEF Directions
  <2>4. Len(proposals) + 1 \in p..Len(proposals') BY <1>1, <2>3
  <2> QED BY <2>3, <2>4 DEF Answered
<1>3. CASE Open(i, "demote") # {}
  <2>1. PICK q \in Open(i, "demote") : TRUE BY <1>3
  <2>2. p <= q BY <2>1 DEF GrantsAreOlder, Directions
  <2>3. /\ q \in p..Len(proposals) /\ proposals[q].item = i
        /\ proposals[q].direction = "demote"
    BY <1>1, <2>1, <2>2 DEF Open
  <2>4. Answered(i, p) BY <2>3 DEF Answered
  <2>5. ~PatchItem
    BY FrameKinds DEF TypeInv, MemoryPromotionProposer, Fires, Ready, PatchItem
  <2>6. [Next]_vars BY DEF Next, Drain
  <2> QED BY <2>4, <2>5, <2>6, GrantsStay
<1> QED BY <1>2, <1>3

LEMMA DemotionFollowsStep ==
  ASSUME SettleInv, WordsHold, OneOpen, VerdictKnown, FrameMoves, GrantsAreOlder,
         DemotionFollows, [Next]_vars, ~CrashRestart
  PROVE  DemotionFollows'
<1> DEFINE to == "memory_promotion_proposer"
<1>0. TypeInv BY DEF SettleInv
<1> SUFFICES ASSUME NEW i \in Items, items'[i].status = "promoted"
             PROVE  \E p \in Granting(i)' :
                      /\ Latest(i, p)'
                      /\ reliability'[i].verdict \in Unfit =>
                           Answered(i, p)' \/ Expects(queue', to, i)
  BY DEF DemotionFollows, Expects, Tells
<1>1. CASE PatchItem /\ i = proposals[exec.proposal].item
  <2>1. PICK p : p = exec.proposal OBVIOUS
  <2>2. /\ p \in 1..Len(proposals) /\ Len(proposals') = Len(proposals)
        /\ SameProposal(proposals'[p], proposals[p])
        /\ proposals'[p].found = reliability[i].verdict
        /\ Granting(i)' \subseteq Granting(i) \cup {p}
        /\ items'[i].status = NewStatus(proposals[p].direction)
    BY <1>0, <1>1, <2>1, Patching
  <2>3. /\ p \in Open(i, proposals[p].direction) /\ proposals[p].direction \in Directions
    BY <1>0, <1>1, <2>1, FrameIsOpen
  <2>4. proposals[p].direction = "promote" /\ proposals[p].item = i
    BY <1>1, <2>1, <2>2, <2>3 DEF NewStatus, Directions
  <2>5. reliability[i].verdict # "none" BY <2>2, <2>4 DEF VerdictKnown
  <2>6. p \in Granting(i)' BY <2>2, <2>4, <2>5 DEF Granting, SameProposal
  <2>7. \A g \in Granting(i)' : g <= p
    BY <2>2, <2>3 DEF GrantsAreOlder
  <2>8. reliability' = reliability BY <1>1 DEF PatchItem
  <2>9. reliability'[i].verdict \in Unfit => Answered(i, p)'
    BY <2>2, <2>8 DEF Answered, Unfit
  <2> QED BY <2>6, <2>7, <2>9 DEF Latest
<1>2. CASE ~PatchItem \/ i # proposals[exec.proposal].item
  <2>1. items[i].status = "promoted"
    <3>1. CASE PatchItem
      <4>1. PICK r : r = exec.proposal OBVIOUS
      <4> QED BY <1>0, <1>2, <3>1, <4>1, Patching
    <3>2. CASE ~PatchItem BY <1>0, <3>2, ProposalSteps
    <3> QED BY <3>1, <3>2
  <2>2. PICK p \in Granting(i) :
          /\ Latest(i, p)
          /\ reliability[i].verdict \in Unfit => Answered(i, p) \/ Expects(queue, to, i)
    BY <2>1 DEF DemotionFollows
  <2>3. Granting(i)' = Granting(i) /\ (Answered(i, p) => Answered(i, p)')
    BY <1>0, <1>2, GrantsStay
  <2>4. Latest(i, p)' BY <2>2, <2>3 DEF Latest
  <2>5. ASSUME reliability'[i].verdict \in Unfit, ~Expects(queue', to, i)
        PROVE  Answered(i, p)'
    <3>1. to \in Listeners /\ i \in Artifacts /\ Hears(to, i)
      BY DEF Listeners, Artifacts, Hears
    <3>2. \/ ~Expects(queue, to, i) /\ reliability'[i] = reliability[i]
          \/ /\ MemoryPromotionProposer /\ Head(queue).artifact = i
             /\ Head(queue).verdict = reliability[i].verdict
             /\ reliability'[i] = reliability[i]
      BY <2>5, <3>1, Hearing DEF Acts
    <3>3. CASE ~Expects(queue, to, i) /\ reliability'[i] = reliability[i]
      BY <2>2, <2>3, <2>5, <3>3
    <3>4. CASE /\ MemoryPromotionProposer /\ Head(queue).artifact = i
               /\ Head(queue).verdict = reliability[i].verdict
               /\ reliability'[i] = reliability[i]
      BY <1>0, <2>1, <2>5, <3>4, ProposerAnswers
    <3> QED BY <3>2, <3>3, <3>4
  <2> QED BY <2>2, <2>3, <2>4, <2>5
<1> QED BY <1>1, <1>2

LEMMA InitDemotion == Init => DemotionInv
<1> SUFFICES ASSUME Init PROVE DemotionInv OBVIOUS
<1>1. Len(queue) = 0 /\ Len(proposals) = 0 /\ exec.pc = "idle" BY DEF Init, Idle
<1>2. \A i, d : Open(i, d) = {} BY <1>1 DEF Open
<1>3. OneOpen /\ OpenDemotions /\ GrantsAreOlder
  BY <1>2 DEF OneOpen, OpenDemotions, GrantsAreOlder
<1>4. VerdictKnown /\ FrameMoves BY <1>1 DEF VerdictKnown, FrameMoves
<1>5. DemotionFollows BY DEF Init, DemotionFollows
<1> QED BY <1>3, <1>4, <1>5 DEF DemotionInv

\* At most one proposal is open of an item and direction; and while the process lives,
\* a drained queue means that an item promoted while fit and unfit now was proposed for
\* demotion after the grant it owes its status to.
THEOREM UnfitItemsAreProposed == Spec => []DemotionIsProposed
<1> DEFINE Inv == SettleInv /\ CrashesFall /\ EligibleInv /\ DemotionInv
<1>1. Init => Inv BY InitEarned, InitEligible, InitDemotion DEF EarnedInv
<1>2. ASSUME Inv, [Next]_vars PROVE Inv'
  <2>1. SettleInv' BY <1>2, SettleStep
  <2>2. CrashesFall' /\ EligibleInv' BY <1>2, EligibleStep
  <2>3. NoCrash' => NoCrash /\ ~CrashRestart BY <1>2, CrashesCount DEF SettleInv
  <2>4. OneOpen' /\ VerdictKnown'
    BY <1>2, OneOpenStep, VerdictKnownStep DEF SettleInv, DemotionInv
  <2>5. ASSUME NoCrash'
        PROVE  FrameMoves' /\ OpenDemotions' /\ GrantsAreOlder' /\ DemotionFollows'
    <3>1. /\ TypeInv /\ WordsHold /\ OneOpen /\ VerdictKnown /\ FrameMoves
          /\ OpenDemotions /\ GrantsAreOlder /\ DemotionFollows /\ ~CrashRestart
      BY <1>2, <2>3, <2>5 DEF SettleInv, EligibleInv, DemotionInv
    <3>2. FrameMoves' BY <1>2, <3>1, FrameMovesStep
    <3>3. OpenDemotions' BY <1>2, <3>1, OpenDemotionsStep
    <3>4. GrantsAreOlder' BY <1>2, <3>1, GrantsStep
    <3>5. DemotionFollows' BY <1>2, <3>1, DemotionFollowsStep
    <3> QED BY <3>2, <3>3, <3>4, <3>5
  <2>6. DemotionInv' BY <2>4, <2>5 DEF DemotionInv
  <2> QED BY <2>1, <2>2, <2>6
<1>3. Inv => DemotionIsProposed
  <2> SUFFICES ASSUME Inv PROVE DemotionIsProposed OBVIOUS
  <2>1. ASSUME NEW i \in Items, NEW d \in Directions PROVE Cardinality(Open(i, d)) <= 1
    <3>1. CASE Open(i, d) = {} BY <3>1, FS_EmptySet
    <3>2. CASE Open(i, d) # {}
      <4>1. PICK p \in Open(i, d) : TRUE BY <3>2
      <4>2. Open(i, d) = {p} BY <4>1 DEF DemotionInv, OneOpen
      <4> QED BY <4>2, FS_Singleton
    <3> QED BY <3>1, <3>2
  <2>2. ASSUME Quiet, budget.crashes = MaxCrashes, NEW i \in Items,
               items[i].status = "promoted", reliability[i].verdict \in Unfit
        PROVE  \E p \in Granting(i) :
                 /\ \A q \in Granting(i) : q <= p
                 /\ \/ proposals[p].found \in Unfit
                    \/ \E q \in p..Len(proposals) :
                         proposals[q].item = i /\ proposals[q].direction = "demote"
    <3>1. ~Expects(queue, "memory_promotion_proposer", i)
      BY <2>2 DEF Quiet, Expects
    <3>2. DemotionFollows BY <2>2 DEF DemotionInv, NoCrash
    <3> QED BY <2>2, <3>1, <3>2 DEF DemotionFollows, Latest, Answered
  <2> QED BY <2>1, <2>2 DEF DemotionIsProposed, Directions
<1> HIDE DEF Inv
<1>4. [Next]_vars /\ Inv => Inv' BY <1>2
<1> QED BY <1>1, <1>3, <1>4, PTL DEF Spec
================================================================================
