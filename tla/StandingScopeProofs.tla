-------------------------- MODULE StandingScopeProofs --------------------------
(***************************************************************************)
(* What the prover shows of StandingScope for every set of scopes and        *)
(* owners, every earning rule, and any number of events, versions, listed    *)
(* pairs and crashes.                                                        *)
(***************************************************************************)
EXTENDS StandingScope, FiniteSetTheorems, TLAPS

-----------------------------------------------------------------------------
(* Types *)

LEMMA InitType == Init => TypeOK
  BY StandingScopeAssumption
  DEF Init, TypeOK, Policies, Absent, Kinds, NoEvidence, Evidences

\* Announcing a policy of the schema keeps the types.
LEMMA AnnounceType ==
  ASSUME TypeOK, NEW s \in Scopes, NEW kind \in Kinds, NEW to \in Policies,
         Announce(s, kind, to)
  PROVE  /\ announced' \in [Scopes -> Kinds]
         /\ patch' \in Patches
  BY DEF TypeOK, Announce, Patches

\* The accuracy of any list is a number.
LEMMA AccuracyType ==
  ASSUME NEW E \in Seq(Entries)
  PROVE  AccuracyPercent(E) \in Nat
<1> DEFINE agreeing == {k \in 1..Len(E) : E[k].agrees}
<1>1. CASE E = <<>>
  BY <1>1 DEF AccuracyPercent
<1>2. CASE E # <<>>
  <2>1. Len(E) \in Nat \ {0}
    BY <1>2
  <2>2. Cardinality(agreeing) \in Nat
    <3>1. IsFiniteSet(1..Len(E)) /\ agreeing \subseteq 1..Len(E)
      BY <2>1, FS_Interval
    <3> QED
      BY <3>1, FS_Subset, FS_CardinalityType
  <2> HIDE DEF agreeing
  <2>3. \A c \in Nat, n \in Nat \ {0} : (c * 100) \div n \in Nat
    OBVIOUS
  <2>4. (Cardinality(agreeing) * 100) \div Len(E) \in Nat
    BY <2>1, <2>2, <2>3
  <2> QED
    BY <1>2, <2>4 DEF AccuracyPercent, agreeing
<1> QED
  BY <1>1, <1>2

LEMMA CandidateType ==
  ASSUME TypeOK, NEW s \in Scopes, NEW E \in Seq(Entries),
         policy[s].version < MaxVersion
  PROVE  Candidate(s, E) \in Policies
<1>1. policy[s] \in Policies
  BY DEF TypeOK
<1>2. EvidenceOf(E) \in Evidences
  BY AccuracyType DEF EvidenceOf, Evidences
<1> QED
  BY <1>1, <1>2, StandingScopeAssumption DEF Candidate, Policies

LEMMA StatusType ==
  ASSUME TypeOK, NEW s \in Scopes,
         NEW status \in {"promoted", "demoted", "disabled"}
  PROVE  [policy[s] EXCEPT !.status = status] \in Policies
  BY DEF TypeOK, Policies

LEMMA NextType == TypeOK /\ [Next]_vars => TypeOK'
<1> SUFFICES ASSUME TypeOK, [Next]_vars PROVE TypeOK'
  OBVIOUS
<1>1. CASE RecordEvent
  BY <1>1, StandingScopeAssumption DEF RecordEvent, TypeOK
<1>2. ASSUME NEW s \in Scopes, NEW n \in 0..MaxEvidence,
             NEW E \in [1..n -> Entries], ProposeStandingScope(s, E)
      PROVE  TypeOK'
  <2>0. E \in Seq(Entries)
    BY StandingScopeAssumption
  <2>1. announced' \in [Scopes -> Kinds] /\ patch' \in Patches
    BY <1>2, <2>0, CandidateType, AnnounceType DEF ProposeStandingScope, Kinds
  <2> QED
    BY <1>2, <2>1 DEF ProposeStandingScope, TypeOK
<1>3. ASSUME NEW s \in Scopes, NEW owner \in Owners, PromoteToolPolicy(s, owner)
      PROVE  TypeOK'
  <2>1. announced' \in [Scopes -> Kinds] /\ patch' \in Patches
    BY <1>3, StatusType, AnnounceType DEF PromoteToolPolicy, Kinds
  <2>2. policy[s] \in Policies /\ history[s] \in Seq(Promotions)
    BY DEF TypeOK
  <2>3. [version |-> policy[s].version, prior |-> policy[s].status,
         by |-> owner] \in Promotions
    BY <1>3, <2>2 DEF PromoteToolPolicy, Promotable, Policies, Promotions
  <2>4. Append(history[s],
               [version |-> policy[s].version, prior |-> policy[s].status,
                by |-> owner]) \in Seq(Promotions)
    BY <2>2, <2>3
  <2>5. history' \in [Scopes -> Seq(Promotions)]
    BY <1>3, <2>4 DEF PromoteToolPolicy, TypeOK
  <2> QED
    BY <1>3, <2>1, <2>5 DEF PromoteToolPolicy, TypeOK
<1>4. ASSUME NEW s \in Scopes, DemoteToolPolicy(s) \/ DisableToolPolicy(s)
      PROVE  TypeOK'
  <2>1. announced' \in [Scopes -> Kinds] /\ patch' \in Patches
    BY <1>4, StatusType, AnnounceType
    DEF DemoteToolPolicy, DisableToolPolicy, Kinds
  <2> QED
    BY <1>4, <2>1 DEF DemoteToolPolicy, DisableToolPolicy, TypeOK
<1>5. ASSUME NEW s \in Scopes, NEW verdict \in Verdicts,
             ReliabilityChanged(s, verdict)
      PROVE  TypeOK'
  BY <1>5 DEF ReliabilityChanged, TypeOK
<1>6. CASE ApplyPatch
  <2>1. policy' \in [Scopes -> Policies]
    BY <1>6 DEF ApplyPatch, TypeOK, Patches
  <2> QED
    BY <1>6, <2>1 DEF ApplyPatch, TypeOK
<1>7. ASSUME NEW e \in verdicts, ReliabilityGuard(e) PROVE TypeOK'
  <2>1. e.scope \in Scopes
    BY DEF TypeOK
  <2>2. announced' \in [Scopes -> Kinds] /\ patch' \in Patches \cup {NoPatch}
    BY <1>7, <2>1, StatusType, AnnounceType DEF ReliabilityGuard, Kinds, TypeOK
  <2> QED
    BY <1>7, <2>2 DEF ReliabilityGuard, TypeOK
<1>8. CASE CrashRestart
  BY <1>8, StandingScopeAssumption DEF CrashRestart, TypeOK
<1>9. CASE UNCHANGED vars
  BY <1>9 DEF vars, TypeOK
<1> QED
  BY <1>1, <1>2, <1>3, <1>4, <1>5, <1>6, <1>7, <1>8, <1>9
  DEF Next, Governance, RuntimeStep

\* Every variable keeps its type: no sequence of proposals, promotions, verdicts
\* and crashes gives a tool_policy a status or a version outside the schema.
THEOREM TypeCorrect == Spec => []TypeOK
  BY InitType, NextType, PTL DEF Spec

-----------------------------------------------------------------------------
(* The inductive invariant *)

\* Evidence that met the rule for a scope that may stand at all; what it stores is
\* what its list says.
Earned(s, e) ==
  /\ ClassOf[s] <= 2
  /\ e \in Evidences
  /\ ValidPairs(e.pairs)
  /\ e.count = Len(e.pairs)
  /\ e.accuracy = AccuracyPercent(e.pairs)
  /\ MeetsThresholds(e)

\* An owner promoted this version.
OwnerPromoted(s, version) ==
  \E i \in 1..Len(history[s]) : history[s][i].version = version

\* The event names the status.
Matches(kind, status) ==
  CASE kind = "none" -> status = "absent"
    [] kind = "proposed" -> status = "candidate"
    [] OTHER -> status = kind

\* What a tool_policy object says is earned, promoted by an owner, and, while
\* no crash came in between, what its latest event says.
PolicySound ==
  \A s \in Scopes :
    /\ policy[s].status # "absent" => Earned(s, policy[s].evidence)
    /\ policy[s].status = "promoted" => OwnerPromoted(s, policy[s].version)
    /\ crashes = 0 /\ ~(patch # NoPatch /\ patch.scope = s)
         => Matches(announced[s], policy[s].status)

\* The same of the patch in progress, and what it may make of a disabled scope.
PatchSound ==
  patch # NoPatch =>
    /\ patch.to.status # "absent"
    /\ Earned(patch.scope, patch.to.evidence)
    /\ patch.to.status = "promoted"
         => OwnerPromoted(patch.scope, patch.to.version)
    /\ policy[patch.scope].status = "disabled" =>
         /\ patch.to.status = "candidate"
         /\ patch.to.version = policy[patch.scope].version + 1
    /\ crashes = 0 => Matches(announced[patch.scope], patch.to.status)

ScopeInv == PolicySound /\ PatchSound

LEMMA InitInv == Init => ScopeInv
  BY DEF Init, ScopeInv, PolicySound, PatchSound, Absent, Matches

\* The log only grows, so evidence that was earned stays earned.
LEMMA EarnedStays ==
  ASSUME TypeOK, NEW s, NEW e, Earned(s, e),
         log' = log \/ log' = log + 1
  PROVE  Earned(s, e)'
<1>0. e.pairs \in Seq(Entries)
  BY DEF Earned, Evidences
<1>1. ASSUME NEW k \in 1..Len(e.pairs)
      PROVE  e.pairs[k].prediction \in Nat /\ e.pairs[k].decided \in Nat
  <2>1. e.pairs[k] \in Entries
    BY <1>0
  <2> QED
    BY <2>1 DEF Entries
<1>2. ValidPairs(e.pairs)'
  BY <1>0, <1>1 DEF Earned, ValidPairs, TypeOK
<1> QED
  BY <1>2 DEF Earned, MeetsThresholds, AccuracyPercent

\* Promotions are only appended.
LEMMA PromotionStays ==
  ASSUME TypeOK, NEW s \in Scopes, NEW version, OwnerPromoted(s, version),
         NEW t \in Scopes, NEW record,
         \/ UNCHANGED history
         \/ history' = [history EXCEPT ![t] = Append(@, record)]
  PROVE  OwnerPromoted(s, version)'
<1>1. PICK i \in 1..Len(history[s]) : history[s][i].version = version
  BY DEF OwnerPromoted
<1>2. history \in [Scopes -> Seq(Promotions)] /\ history[s] \in Seq(Promotions)
  BY DEF TypeOK
<1>3. i \in 1..Len(history'[s]) /\ history'[s][i] = history[s][i]
  <2>1. CASE history' = [history EXCEPT ![t] = Append(@, record)] /\ s = t
    <3>1. history'[s] = Append(history[s], record)
      BY <1>2, <2>1
    <3> QED
      BY <1>2, <3>1
  <2>2. CASE history'[s] = history[s]
    BY <2>2
  <2> QED
    BY <1>2, <2>1, <2>2
<1> QED
  BY <1>1, <1>3 DEF OwnerPromoted

\* A function that announces: what it is about to write has to be sound.
LEMMA AnnounceInv ==
  ASSUME TypeOK, ScopeInv, patch = NoPatch, UNCHANGED <<log, policy, crashes>>,
         NEW s \in Scopes, NEW kind, NEW to, Announce(s, kind, to), NEW record,
         \/ UNCHANGED history
         \/ history' = [history EXCEPT ![s] = Append(@, record)],
         to.status # "absent",
         Earned(s, to.evidence),
         to.status = "promoted" => OwnerPromoted(s, to.version)',
         policy[s].status = "disabled" =>
           to.status = "candidate" /\ to.version = policy[s].version + 1,
         Matches(kind, to.status)
  PROVE  ScopeInv'
<1>1. /\ patch' = [scope |-> s, to |-> to]
      /\ announced' = [announced EXCEPT ![s] = kind]
      /\ announced \in [Scopes -> Kinds]
  BY DEF Announce, TypeOK
<1>2. patch' # NoPatch
  BY <1>1 DEF NoPatch, Absent
<1>3. PolicySound'
  <2>1. ASSUME NEW t \in Scopes
        PROVE  /\ policy'[t].status # "absent" => Earned(t, policy[t].evidence)'
               /\ policy'[t].status = "promoted"
                    => OwnerPromoted(t, policy[t].version)'
               /\ crashes' = 0 /\ ~(patch' # NoPatch /\ patch'.scope = t)
                    => Matches(announced'[t], policy'[t].status)
    <3>1. policy[t].status # "absent" => Earned(t, policy[t].evidence)'
      BY EarnedStays DEF ScopeInv, PolicySound
    <3>2. policy[t].status = "promoted" => OwnerPromoted(t, policy[t].version)'
      BY PromotionStays DEF ScopeInv, PolicySound
    <3>3. t # s => announced'[t] = announced[t]
      BY <1>1
    <3> QED
      BY <1>1, <1>2, <3>1, <3>2, <3>3 DEF ScopeInv, PolicySound
  <2> QED
    BY <2>1 DEF PolicySound
<1>4. PatchSound'
  <2>1. Earned(s, to.evidence)'
    BY EarnedStays
  <2>2. announced'[s] = kind
    BY <1>1
  <2> QED
    BY <1>1, <2>1, <2>2 DEF PatchSound
<1> QED
  BY <1>3, <1>4 DEF ScopeInv

LEMMA NextInv == TypeOK /\ ScopeInv /\ [Next]_vars => ScopeInv'
<1> SUFFICES ASSUME TypeOK, ScopeInv, [Next]_vars PROVE ScopeInv'
  OBVIOUS
<1>a. PolicySound /\ PatchSound
  BY DEF ScopeInv
<1>b. (\A s \in Scopes : policy[s] \in Policies) /\ log \in Nat
  BY DEF TypeOK
<1>1. CASE RecordEvent
  <2>1. /\ log' = log + 1 /\ patch = NoPatch
        /\ UNCHANGED <<policy, announced, patch, history, crashes>>
    BY <1>1 DEF RecordEvent
  <2>2. ASSUME NEW s \in Scopes, policy[s].status # "absent"
        PROVE  Earned(s, policy[s].evidence)'
    BY <1>a, <1>b, <2>1, <2>2, EarnedStays DEF PolicySound
  <2> QED
    BY <1>a, <2>1, <2>2 DEF ScopeInv, PolicySound, PatchSound, OwnerPromoted
<1>2. ASSUME NEW s \in Scopes, NEW n \in 0..MaxEvidence,
             NEW E \in [1..n -> Entries], ProposeStandingScope(s, E)
      PROVE  ScopeInv'
  <2>1. /\ Candidate(s, E).status = "candidate"
        /\ Candidate(s, E).version = policy[s].version + 1
        /\ Candidate(s, E).evidence = EvidenceOf(E)
    BY DEF Candidate
  <2>2. Earned(s, EvidenceOf(E)) /\ Matches("proposed", "candidate")
    <3>1. E \in Seq(Entries)
      BY StandingScopeAssumption
    <3>2. EvidenceOf(E) \in Evidences
      BY <3>1, AccuracyType DEF EvidenceOf, Evidences
    <3> QED
      BY <1>2, <3>2 DEF ProposeStandingScope, EvidenceOf, Earned, Matches
  <2>3. /\ patch = NoPatch /\ UNCHANGED <<log, policy, crashes, history>>
        /\ Announce(s, "proposed", Candidate(s, E))
    BY <1>2 DEF ProposeStandingScope
  <2> QED
    BY <2>1, <2>2, <2>3, AnnounceInv
<1>3. ASSUME NEW s \in Scopes, NEW owner \in Owners, PromoteToolPolicy(s, owner)
      PROVE  ScopeInv'
  <2> DEFINE to == [policy[s] EXCEPT !.status = "promoted"]
             record == [version |-> policy[s].version,
                        prior |-> policy[s].status, by |-> owner]
  <2>1. /\ patch = NoPatch /\ UNCHANGED <<log, policy, crashes>>
        /\ Announce(s, "promoted", to)
        /\ history' = [history EXCEPT ![s] = Append(@, record)]
        /\ policy[s].status \notin {"absent", "promoted", "disabled"}
    BY <1>3 DEF PromoteToolPolicy, Promotable
  <2>2. /\ to.status = "promoted" /\ to.version = policy[s].version
        /\ to.evidence = policy[s].evidence
    BY <1>b DEF Policies
  <2>3. Earned(s, policy[s].evidence)
    BY <1>a, <2>1 DEF PolicySound
  <2>4. OwnerPromoted(s, policy[s].version)'
    <3>1. history[s] \in Seq(Promotions)
      BY DEF TypeOK
    <3>2. history'[s] = Append(history[s], record)
      BY <2>1 DEF TypeOK
    <3>3. /\ Len(history[s]) + 1 \in 1..Len(history'[s])
          /\ history'[s][Len(history[s]) + 1] = record
      BY <3>1, <3>2
    <3> QED
      BY <2>1, <3>3 DEF OwnerPromoted
  <2>5. Matches("promoted", "promoted")
    BY DEF Matches
  <2> HIDE DEF to, record
  <2> QED
    BY <2>1, <2>2, <2>3, <2>4, <2>5, AnnounceInv
<1>4. ASSUME NEW s \in Scopes, NEW status \in {"demoted", "disabled"},
             patch = NoPatch, policy[s].status \notin {"absent", "disabled"},
             Announce(s, status, [policy[s] EXCEPT !.status = status]),
             UNCHANGED <<log, policy, history, crashes>>
      PROVE  ScopeInv'
  <2> DEFINE to == [policy[s] EXCEPT !.status = status]
  <2>1. to.status = status /\ to.evidence = policy[s].evidence
    BY <1>b DEF Policies
  <2>2. Earned(s, policy[s].evidence)
    BY <1>a, <1>4 DEF PolicySound
  <2>3. Matches(status, status)
    BY DEF Matches
  <2>4. Announce(s, status, to)
    BY <1>4
  <2> HIDE DEF to
  <2> QED
    BY <1>4, <2>1, <2>2, <2>3, <2>4, AnnounceInv
<1>5. ASSUME NEW s \in Scopes, DemoteToolPolicy(s) \/ DisableToolPolicy(s)
      PROVE  ScopeInv'
  BY <1>4, <1>5 DEF DemoteToolPolicy, DisableToolPolicy
<1>6. CASE ApplyPatch
  <2>1. /\ patch # NoPatch /\ patch.scope \in Scopes
        /\ policy' = [policy EXCEPT ![patch.scope] = patch.to]
        /\ policy \in [Scopes -> Policies]
        /\ patch' = NoPatch
        /\ UNCHANGED <<log, announced, history, crashes>>
    BY <1>6 DEF ApplyPatch, TypeOK, Patches
  <2>2. PolicySound'
    <3>1. ASSUME NEW t \in Scopes
          PROVE  /\ policy'[t].status # "absent"
                      => Earned(t, policy[t].evidence)'
                 /\ policy'[t].status = "promoted"
                      => OwnerPromoted(t, policy[t].version)'
                 /\ crashes' = 0 => Matches(announced'[t], policy'[t].status)
      <4>1. \A E : Earned(t, E) => Earned(t, E)'
        BY <2>1, EarnedStays
      <4>2. \A version : OwnerPromoted(t, version) => OwnerPromoted(t, version)'
        BY <2>1 DEF OwnerPromoted
      <4>3. CASE t = patch.scope
        <5>1. policy'[t] = patch.to
          BY <2>1, <4>3
        <5> QED
          BY <1>a, <2>1, <4>1, <4>2, <4>3, <5>1 DEF PatchSound
      <4>4. CASE t # patch.scope
        <5>1. policy'[t] = policy[t]
          BY <2>1, <4>4
        <5> QED
          BY <1>a, <2>1, <4>1, <4>2, <4>4, <5>1 DEF PolicySound
      <4> QED
        BY <4>3, <4>4
    <3> QED
      BY <3>1 DEF PolicySound
  <2> QED
    BY <2>1, <2>2 DEF ScopeInv, PatchSound
<1>7. CASE UNCHANGED <<log, policy, announced, patch, history, crashes>>
  <2>1. \A s, E : Earned(s, E) => Earned(s, E)'
    BY <1>7, EarnedStays
  <2> QED
    BY <1>7, <1>a, <2>1 DEF ScopeInv, PolicySound, PatchSound, OwnerPromoted
<1>8. ASSUME NEW e \in verdicts, ReliabilityGuard(e) PROVE ScopeInv'
  <2>1. e.scope \in Scopes
    BY DEF TypeOK
  <2>2. CASE /\ policy[e.scope].status = "promoted"
             /\ Announce(e.scope, "demoted",
                         [policy[e.scope] EXCEPT !.status = "demoted"])
    BY <1>4, <1>8, <2>1, <2>2 DEF ReliabilityGuard
  <2>3. CASE UNCHANGED <<announced, patch>>
    BY <1>7, <1>8, <2>3 DEF ReliabilityGuard
  <2> QED
    BY <1>8, <2>2, <2>3 DEF ReliabilityGuard
<1>9. CASE CrashRestart
  <2>1. /\ crashes' # 0 /\ patch' = NoPatch
        /\ UNCHANGED <<log, policy, history>>
    BY <1>9 DEF CrashRestart, TypeOK
  <2>2. \A s, E : Earned(s, E) => Earned(s, E)'
    BY <2>1, EarnedStays
  <2> QED
    BY <1>a, <2>1, <2>2 DEF ScopeInv, PolicySound, PatchSound, OwnerPromoted
<1>10. ASSUME NEW s \in Scopes, NEW verdict \in Verdicts,
              ReliabilityChanged(s, verdict)
       PROVE  ScopeInv'
  BY <1>7, <1>10 DEF ReliabilityChanged
<1>11. CASE UNCHANGED vars
  BY <1>7, <1>11 DEF vars
<1> QED
  BY <1>1, <1>2, <1>3, <1>5, <1>6, <1>8, <1>9, <1>10, <1>11
  DEF Next, Governance, RuntimeStep

IInv == TypeOK /\ ScopeInv

LEMMA SpecInv == Spec => []IInv
<1>1. Init => IInv
  BY InitType, InitInv DEF IInv
<1>2. IInv /\ [Next]_vars => IInv'
  BY NextType, NextInv DEF IInv
<1> QED
  BY <1>1, <1>2, PTL DEF Spec

-----------------------------------------------------------------------------
(* The theorems *)

\* A promoted scope's list, read again, meets the rule, every prediction in it made
\* before its decision, and never for an R3 or R4 class, whatever rule is
\* configured and however often a pair is listed.
THEOREM PromotionIsEarned == Spec => []PromotedScopesAreEarned
<1>1. ASSUME IInv, NEW s \in Scopes, policy[s].status = "promoted"
      PROVE  LET E == policy[s].evidence.pairs IN
               /\ ClassOf[s] <= 2
               /\ \A k \in 1..Len(E) :
                    E[k].prediction < E[k].decided /\ E[k].decided <= log
               /\ Len(E) >= MinPredictions
               /\ AccuracyPercent(E) >= MinAccuracy
  <2>1. Earned(s, policy[s].evidence)
    BY <1>1 DEF IInv, ScopeInv, PolicySound
  <2> QED
    BY <2>1 DEF Earned, ValidPairs, MeetsThresholds
<1>2. IInv => PromotedScopesAreEarned
  BY <1>1 DEF PromotedScopesAreEarned
<1> QED
  BY <1>2, SpecInv, PTL

\* A promoted version was promoted by an owner: proposals, reliability verdicts
\* and restarts never restore a grant.
THEOREM NothingPromotesSilently == Spec => []PromotionIsNeverSilent
<1>1. IInv => PromotionIsNeverSilent
  BY DEF IInv, ScopeInv, PolicySound, OwnerPromoted, PromotionIsNeverSilent
<1> QED
  BY <1>1, SpecInv, PTL

\* Without a crash every tool_policy object is where its latest event says.
THEOREM EventsAreTrue == Spec => []EventsMatchStatus
<1>1. IInv => EventsMatchStatus
  BY DEF IInv, ScopeInv, PolicySound, Matches, EventsMatchStatus
<1> QED
  BY <1>1, SpecInv, PTL

\* A disabled scope leaves that status only as the candidate of its next version.
THEOREM DisablingHolds == Spec => DisabledNeedsFreshProposal
<1>1. ASSUME IInv, [Next]_vars, NEW s \in Scopes, policy[s].status = "disabled",
             policy'[s] # policy[s]
      PROVE  /\ policy'[s].status = "candidate"
             /\ policy'[s].version = policy[s].version + 1
  <2>1. ApplyPatch
    BY <1>1
    DEF Next, Governance, RuntimeStep, RecordEvent,
        ProposeStandingScope, PromoteToolPolicy,
        DemoteToolPolicy, DisableToolPolicy, ReliabilityChanged,
        ReliabilityGuard, CrashRestart, vars
  <2>2. patch.scope = s /\ policy'[s] = patch.to /\ patch # NoPatch
    BY <1>1, <2>1 DEF ApplyPatch, IInv, TypeOK
  <2> QED
    BY <1>1, <2>2 DEF IInv, ScopeInv, PatchSound
<1>2. IInv /\ [Next]_vars =>
        [\A s \in Scopes :
           policy[s].status = "disabled" /\ policy'[s] # policy[s] =>
             /\ policy'[s].status = "candidate"
             /\ policy'[s].version = policy[s].version + 1]_vars
  BY <1>1
<1> QED
  BY <1>2, SpecInv, PTL DEF Spec, DisabledNeedsFreshProposal
================================================================================
