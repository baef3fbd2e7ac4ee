------------------------- MODULE EvolutionAdoptionProofs -------------------------
(***************************************************************************)
(* Proofs about EvolutionAdoption, for every set of proposals and packs and   *)
(* any number of retries, requests, trials, disables, edits and crashes.      *)
(*                                                                          *)
(* The graph's tables only grow and their references stay (TypeInv); the     *)
(* frame says what the thread knows of the objects at hand (FrameFollows);    *)
(* the rest is one invariant per promise of the chassis and of boot.          *)
(***************************************************************************)
EXTENDS EvolutionAdoption, FiniteSetTheorems, WellFoundedInduction, TLAPS

-----------------------------------------------------------------------------
(* Numbers, sequences and the lookups by number *)

LEMMA LessThan == OpToRel(<, Nat) = {ss \in Nat \X Nat : ss[1] < ss[2]}
  BY DEF OpToRel

LEMMA SmallestIsFirst ==
  ASSUME NEW S \in SUBSET Nat, S # {}
  PROVE  SmallestOf(S) \in S /\ \A j \in S : SmallestOf(S) <= j
<1> DEFINE R == OpToRel(<, Nat)
<1>1. \A x, y \in Nat : y < x => <<y, x>> \in R BY LessThan
<1>2. IsWellFoundedOn(R, Nat) BY NatLessThanWellFounded
<1> HIDE DEF R
<1>3. PICK x \in S : \A y \in S : ~ (<<y, x>> \in R) BY <1>2, WFMin
<1>4. \A y \in S : ~ (y < x) BY <1>1, <1>3, Zenon
<1>5. \A y \in S : x <= y BY <1>4
<1> QED BY <1>5 DEF SmallestOf

LEMMA LargestIsLast ==
  ASSUME NEW n \in Nat, NEW S \in SUBSET (1..n), S # {}
  PROVE  LargestOf(S) \in S /\ \A j \in S : j <= LargestOf(S)
<1> DEFINE T == {n - j : j \in S}
<1>1. T \in SUBSET Nat /\ T # {}
  <2>1. PICK i \in S : TRUE OBVIOUS
  <2>2. n - i \in T OBVIOUS
  <2>3. \A j \in 1..n : n - j \in Nat OBVIOUS
  <2> QED BY <2>2, <2>3
<1>2. SmallestOf(T) \in T /\ \A y \in T : SmallestOf(T) <= y BY <1>1, SmallestIsFirst
<1>3. PICK i \in S : SmallestOf(T) = n - i BY <1>2
<1>4. \A j \in S : n - i <= n - j BY <1>2, <1>3
<1>5. \A j \in S : j <= i BY <1>4
<1> QED BY <1>5 DEF LargestOf

LEMMA Replaced ==
  ASSUME NEW S, NEW s \in Seq(S), NEW i \in 1..Len(s), NEW new \in S
  PROVE  LET t == [s EXCEPT ![i] = new]
         IN  /\ t \in Seq(S) /\ Len(t) = Len(s)
             /\ \A k \in 1..Len(s) : t[k] = IF k = i THEN new ELSE s[k]
<1> DEFINE t == [s EXCEPT ![i] = new]
<1>1. s \in [1..Len(s) -> S] /\ Len(s) \in Nat OBVIOUS
<1>2. t \in [1..Len(s) -> S] /\ \A k \in 1..Len(s) : t[k] = IF k = i THEN new ELSE s[k]
  BY <1>1
<1> HIDE DEF t
<1>3. t \in Seq(S) /\ Len(t) = Len(s) BY <1>1, <1>2
<1> QED BY <1>2, <1>3 DEF t

LEMMA Mapped ==
  ASSUME NEW S, NEW n \in Nat, NEW t \in [1..n -> S]
  PROVE  t \in Seq(S) /\ Len(t) = n
  OBVIOUS

LEMMA Appended ==
  ASSUME NEW S, NEW s \in Seq(S), NEW new \in S
  PROVE  LET t == Append(s, new)
         IN  /\ t \in Seq(S) /\ Len(t) = Len(s) + 1 /\ t[Len(s) + 1] = new
             /\ \A k \in 1..Len(s) : t[k] = s[k]
             /\ \A k \in 1..Len(t) : k \in 1..Len(s) \/ k = Len(s) + 1
  OBVIOUS

-----------------------------------------------------------------------------
(* Types and references *)

Adoptions == {t \in 1..Len(tickets) : tickets[t].kind = "adopt"}

\* Where the thread works on a proposal, an adoption ticket, a promotion.
AdoptionPCs == {"patch", "gates", "abort", "fork", "promote", "done", "record",
                "promoted", "supersede", "retrial", "requeue"}
DisablePCs == {"rollback", "undo", "closed"}
ProposalPCs == AdoptionPCs \cup DisablePCs \cup {"request", "adopting", "verdict"}
RecordPCs == {"promote", "done", "record", "promoted", "supersede"}
BootPCs == {"boot", "close", "gap", "survivor"}
PromotionPCs == RecordPCs \cup DisablePCs \cup {"close", "gap", "survivor"}

FrameOK(f, adoptions, ts, ps) ==
  /\ f \in Frames
  /\ f.todo \subseteq ts /\ f.again \subseteq adoptions
  /\ f.pc = "ticket" => f.todo # {}
  /\ f.pc = "retry" => f.again # {}
  /\ f.pc \in ProposalPCs => f.proposal \in Proposals
  /\ f.pc \in AdoptionPCs \/ (f.pc = "verdict" /\ f.ticket # 0) => f.ticket \in adoptions
  /\ f.pc \in DisablePCs => f.ticket \in ts
  /\ f.pc \in PromotionPCs => f.promotion \in ps
  /\ f.pc = "patch" => f.to \in {"suspended", "conflict", "gated"}
  /\ f.pc \in {"close", "gap"} => f.to \in Cases

TicketsRefer ==
  \A t \in 1..Len(tickets) :
    /\ tickets[t].kind = "adopt" => tickets[t].proposal \in Proposals
    /\ tickets[t].kind = "disable" => tickets[t].promotion \in 1..Len(promotions)
PromotionsRefer ==
  \A i \in 1..Len(promotions) :
    /\ promotions[i].fork \in 1..Len(forks)
    /\ forks[promotions[i].fork].proposal = promotions[i].proposal

TypeInv ==
  /\ TypeOK
  /\ heldDisables \subseteq 1..Len(promotions)
  /\ applied \subseteq 1..Len(forks)
  /\ TicketsRefer
  /\ PromotionsRefer
  /\ FrameOK(exec, Adoptions, 1..Len(tickets), 1..Len(promotions))

\* The promotion at hand.
FrameFollows ==
  /\ exec.pc \in RecordPCs => promotions[exec.promotion].proposal = exec.proposal
  /\ exec.pc \in {"promote", "done", "record"}
       => promotions[exec.promotion].status = "loading"
  /\ exec.pc \in {"done", "record"} => promotions[exec.promotion].fork \in applied
  /\ exec.pc = "supersede" => Rivals(exec.promotion) # {}
  /\ exec.pc \in AdoptionPCs \/ (exec.pc = "verdict" /\ exec.ticket # 0)
       => tickets[exec.ticket].proposal = exec.proposal

BaseInv == TypeInv /\ FrameFollows

\* What a step leaves of the tables' entries.
TicketsKept ==
  /\ Len(tickets') >= Len(tickets)
  /\ \A t \in 1..Len(tickets) : /\ tickets'[t].kind = tickets[t].kind
                                /\ tickets'[t].proposal = tickets[t].proposal
                                /\ tickets'[t].promotion = tickets[t].promotion
PromotionsKept ==
  /\ Len(promotions') >= Len(promotions)
  /\ \A i \in 1..Len(promotions) : /\ promotions'[i].proposal = promotions[i].proposal
                                   /\ promotions'[i].fork = promotions[i].fork
ForksKept ==
  /\ Len(forks') >= Len(forks)
  /\ \A f \in 1..Len(forks) : forks'[f].proposal = forks[f].proposal

TicketStates == {"open", "done", "aborted"}
PromotionStates == {"loading", "active", "disabled"}

LEMMA TableTypes ==
  ASSUME TypeInv
  PROVE  /\ tickets \in Seq(Tickets) /\ Len(tickets) \in Nat
         /\ \A t \in 1..Len(tickets) : tickets[t] \in Tickets
         /\ promotions \in Seq(Promotions) /\ Len(promotions) \in Nat
         /\ \A i \in 1..Len(promotions) : promotions[i] \in Promotions
         /\ forks \in Seq(Forks) /\ Len(forks) \in Nat
         /\ \A f \in 1..Len(forks) : forks[f] \in Forks
<1>1. tickets \in Seq(Tickets) /\ promotions \in Seq(Promotions) /\ forks \in Seq(Forks)
  BY DEF TypeInv, TypeOK
<1> QED BY <1>1

LEMMA SettingTicket ==
  ASSUME TypeInv, NEW t \in 1..Len(tickets), NEW s \in TicketStates, SetTicket(t, s)
  PROVE  /\ tickets' \in Seq(Tickets) /\ TicketsKept /\ Len(tickets') = Len(tickets)
         /\ \A u \in 1..Len(tickets) :
              tickets'[u].status = IF u = t THEN s ELSE tickets[u].status
<1> DEFINE new == [tickets[t] EXCEPT !.status = s]
<1>1. tickets' = [tickets EXCEPT ![t] = new] BY DEF SetTicket
<1>2. tickets[t] \in Tickets BY TableTypes
<1>3. /\ new \in Tickets /\ new.kind = tickets[t].kind /\ new.status = s
      /\ new.proposal = tickets[t].proposal /\ new.promotion = tickets[t].promotion
  BY <1>2 DEF Tickets, TicketStates
<1> HIDE DEF new
<1>4. /\ tickets' \in Seq(Tickets) /\ Len(tickets') = Len(tickets)
      /\ \A k \in 1..Len(tickets) : tickets'[k] = IF k = t THEN new ELSE tickets[k]
  BY <1>1, <1>3, TableTypes, Replaced
<1> QED BY <1>3, <1>4, TableTypes DEF TicketsKept

LEMMA OpeningTicket ==
  ASSUME TypeInv, NEW new \in Tickets, tickets' = Append(tickets, new)
  PROVE  /\ tickets' \in Seq(Tickets) /\ TicketsKept /\ Len(tickets') = Len(tickets) + 1
         /\ tickets'[Len(tickets) + 1] = new
         /\ \A t \in 1..Len(tickets) : tickets'[t] = tickets[t]
<1>1. tickets \in Seq(Tickets) BY TableTypes
<1> QED BY <1>1, Appended DEF TicketsKept

LEMMA SettingPromotion ==
  ASSUME TypeInv, NEW i \in 1..Len(promotions), NEW s \in PromotionStates,
         SetPromotion(i, s)
  PROVE  /\ promotions' \in Seq(Promotions) /\ PromotionsKept
         /\ Len(promotions') = Len(promotions)
         /\ \A j \in 1..Len(promotions) :
              promotions'[j].status = IF j = i THEN s ELSE promotions[j].status
         /\ \A j \in 1..Len(promotions) :
              promotions'[j].rolledBack = promotions[j].rolledBack
<1> DEFINE new == [promotions[i] EXCEPT !.status = s]
<1>1. promotions' = [promotions EXCEPT ![i] = new] BY DEF SetPromotion
<1>2. promotions[i] \in Promotions BY TableTypes
<1>3. /\ new \in Promotions /\ new.status = s
      /\ new.rolledBack = promotions[i].rolledBack
      /\ new.proposal = promotions[i].proposal /\ new.fork = promotions[i].fork
  BY <1>2 DEF Promotions, PromotionStates
<1> HIDE DEF new
<1>4. /\ promotions' \in Seq(Promotions) /\ Len(promotions') = Len(promotions)
      /\ \A k \in 1..Len(promotions) :
           promotions'[k] = IF k = i THEN new ELSE promotions[k]
  BY <1>1, <1>3, TableTypes, Replaced
<1>5. \A k \in 1..Len(promotions) : promotions'[k].rolledBack = promotions[k].rolledBack
  BY <1>3, <1>4, Zenon
<1> QED BY <1>3, <1>4, <1>5, TableTypes DEF PromotionsKept

\* The frame's lookups find what they look for.
LEMMA CurrentIsTicket ==
  ASSUME TypeInv, exec.pc = "ticket"
  PROVE  Current \in exec.todo /\ Current \in 1..Len(tickets)
<1>1. exec.todo \subseteq 1..Len(tickets) /\ exec.todo # {} BY DEF TypeInv, FrameOK
<1>2. exec.todo \in SUBSET Nat BY <1>1, TableTypes
<1>3. SmallestOf(exec.todo) \in exec.todo BY <1>1, <1>2, SmallestIsFirst
<1> QED BY <1>1, <1>3 DEF Current

LEMMA RetriedIsAdoption ==
  ASSUME TypeInv, exec.pc = "retry"
  PROVE  /\ SmallestOf(exec.again) \in exec.again
         /\ SmallestOf(exec.again) \in Adoptions
         /\ tickets[SmallestOf(exec.again)].proposal \in Proposals
<1>1. exec.again \subseteq Adoptions /\ exec.again # {} BY DEF TypeInv, FrameOK
<1>2. exec.again \in SUBSET Nat BY <1>1, TableTypes DEF Adoptions
<1>3. SmallestOf(exec.again) \in exec.again BY <1>1, <1>2, SmallestIsFirst
<1> QED BY <1>1, <1>3 DEF TypeInv, TicketsRefer, Adoptions

LEMMA FirstOfPromotions ==
  ASSUME TypeInv, NEW S \in SUBSET (1..Len(promotions)), S # {}
  PROVE  /\ SmallestOf(S) \in S /\ LargestOf(S) \in S
         /\ \A j \in S : j <= LargestOf(S)
<1>1. Len(promotions) \in Nat BY TableTypes
<1>2. S \in SUBSET Nat BY <1>1
<1> QED BY <1>1, <1>2, SmallestIsFirst, LargestIsLast

LEMMA NamesArePacks ==
  ASSUME TypeInv, NEW i \in 1..Len(promotions)
  PROVE  promotions[i].proposal \in Proposals /\ NameOf(i) \in Packs
<1>1. promotions[i] \in Promotions BY TableTypes
<1> QED BY <1>1, EvolutionAssumption DEF EvolutionAssumption, Promotions, NameOf

\* How the tables change.
OpensAdoption(p) ==
  /\ p \in Proposals /\ OpenAdoption(p)
  /\ ApproveAdoption(p) \/ (Requeue /\ p = exec.proposal)
OpensDisable(i) ==
  /\ i \in heldDisables
  /\ tickets' = Append(tickets, [kind |-> "disable", proposal |-> NoProposal,
                                 promotion |-> i, status |-> "open"])
HealsTickets ==
  tickets' = [t \in 1..Len(tickets) |->
    IF t \in HealedTickets(promotions[exec.promotion].proposal)
      THEN [tickets[t] EXCEPT !.status = "done"] ELSE tickets[t]]

TicketsStep ==
  \/ UNCHANGED tickets
  \/ \E t \in 1..Len(tickets), s \in TicketStates : SetTicket(t, s)
  \/ \E p \in Proposals : OpensAdoption(p)
  \/ \E i \in 1..Len(promotions) : OpensDisable(i)
  \/ HealsTickets

LEMMA NextTickets == ASSUME TypeInv, [Next]_vars PROVE TicketsStep
<1>1. exec.pc \in AdoptionPCs \cup DisablePCs => exec.ticket \in 1..Len(tickets)
  BY DEF TypeInv, FrameOK, Adoptions
<1>2. CASE Chassis
  <2>1. CASE Patches BY <2>1 DEF Patches, RecordVerdict, MarkPending, MarkAdopting,
                                 TicketsStep
  <2>2. CASE StartSweep BY <2>2 DEF StartSweep, graph, TicketsStep
  <2>3. CASE \E p \in Proposals : RefuseParked(p) \/ HashMismatch(p) \/ Regate(p)
    BY <2>3, CurrentIsTicket
       DEF RefuseParked, HashMismatch, Regate, TakesAdoption, TicketsStep, TicketStates
  <2>4. CASE AbortAfterGates \/ ForkLostOrConflict \/ Promote \/ CloseAdoption
    BY <1>1, <2>4 DEF AbortAfterGates, ForkLostOrConflict, Promote, CloseAdoption,
                      AdoptionPCs, TicketsStep, TicketStates
  <2>5. CASE RerunGates \/ LoadAndRecord \/ PromotionRecorder \/ MarkPromoted
               \/ SupersedePriorActive \/ PatchAborted
    BY <2>5 DEF RerunGates, LoadAndRecord, PromotionRecorder, MarkPromoted,
                SupersedePriorActive, PatchAborted, TicketsStep
  <2>6. CASE \E i \in 1..Len(promotions) : DisablePack(i)
    BY <2>6, CurrentIsTicket DEF DisablePack, TicketsStep, TicketStates
  <2>7. CASE AddRollback \/ MarkDisabled \/ CloseDisable
    BY <1>1, <2>7 DEF AddRollback, MarkDisabled, CloseDisable, DisablePCs, TicketsStep,
                      TicketStates
  <2>8. CASE RetryStep
    <3>1. exec.pc = "requeue" => exec.proposal \in Proposals
      BY DEF TypeInv, FrameOK, ProposalPCs, AdoptionPCs
    <3> QED BY <2>8, <3>1 DEF RetryStep, Retry, Retrial, Requeue, TicketsStep,
                              OpensAdoption
  <2>9. CASE BootStep
    BY <2>9 DEF BootStep, Boot, CloseHealedTickets, OpenBootGap, LoadSurvivor,
                HealLoading, ParkLoading, SupersedeAtBoot, ResolvePack, TicketsStep,
                HealsTickets
  <2> QED BY <1>2, <2>1, <2>2, <2>3, <2>4, <2>5, <2>6, <2>7, <2>8, <2>9
          DEF Chassis, AdoptStep, DisableStep
<1>3. CASE Authoring \/ Owner \/ Tampering
             \/ \E p \in Proposals : ProposalGatekeeper(p)
  BY <1>3 DEF Authoring, Owner, Tampering, SubmitProposal, RunTrial, RequestAdoption,
              ApproveAdoption, DenyAdoption, RequestDisable, ApproveDisable,
              TamperArtifacts, ProposalGatekeeper, graph, TicketsStep, OpensAdoption,
              OpensDisable
<1>4. CASE Crash \/ UNCHANGED vars BY <1>4 DEF Crash, vars, graph, TicketsStep
<1> QED BY <1>2, <1>3, <1>4 DEF Next

\* Only what is loading and has its marker in the log becomes active.
Activates(i) ==
  /\ SetPromotion(i, "active")
  /\ promotions[i].status = "loading" /\ promotions[i].fork \in applied
  /\ \/ PromotionRecorder /\ NameOf(i) = NameOf(exec.promotion)
     \/ \E n \in Packs : HealLoading(n) /\ n = NameOf(i)
PromotionsStep ==
  \/ UNCHANGED promotions
  \/ \E i \in 1..Len(promotions) : Activates(i) \/ SetPromotion(i, "disabled")
  \/ LoadAndRecord
  \/ AddRollback
  \/ \E n \in Packs : SupersedeAtBoot(n)

\* Promotions that are loading under a fork or a name, or active, are promotions.
LEMMA RecordedAreLoading ==
  ASSUME TypeInv, FrameFollows, exec.pc = "record"
  PROVE  LET i == SmallestOf(Recorded(promotions[exec.promotion].fork))
         IN  /\ i \in 1..Len(promotions) /\ promotions[i].status = "loading"
             /\ promotions[i].fork = promotions[exec.promotion].fork
             /\ promotions[i].proposal = exec.proposal
<1> DEFINE S == Recorded(promotions[exec.promotion].fork)
<1>1. /\ exec.promotion \in 1..Len(promotions)
      /\ promotions[exec.promotion].status = "loading"
      /\ promotions[exec.promotion].proposal = exec.proposal
  BY DEF TypeInv, FrameOK, FrameFollows, PromotionPCs, RecordPCs
<1>2. S \in SUBSET (1..Len(promotions)) /\ exec.promotion \in S BY <1>1 DEF Recorded
<1> HIDE DEF S
<1>3. SmallestOf(S) \in S BY <1>2, FirstOfPromotions
<1>4. SmallestOf(S) \in Recorded(promotions[exec.promotion].fork) BY <1>3 DEF S
<1> QED BY <1>1, <1>4 DEF Recorded, TypeInv, PromotionsRefer, S

LEMMA LoadingOfPack ==
  ASSUME TypeInv, NEW n, InGroup(n, "loading") # {}
  PROVE  LET i == SmallestOf(InGroup(n, "loading"))
         IN  i \in 1..Len(promotions) /\ promotions[i].status = "loading" /\ NameOf(i) = n
<1> DEFINE S == InGroup(n, "loading")
<1>1. S \in SUBSET (1..Len(promotions)) BY DEF InGroup, Group
<1> HIDE DEF S
<1>2. SmallestOf(S) \in S BY <1>1, FirstOfPromotions DEF S
<1> QED BY <1>2 DEF S, InGroup, Group

LEMMA RivalOfPromotion ==
  ASSUME TypeInv, Rivals(exec.promotion) # {}
  PROVE  LET i == SmallestOf(Rivals(exec.promotion))
         IN  /\ i \in Rivals(exec.promotion) /\ i \in 1..Len(promotions)
             /\ promotions[i].status = "active" /\ NameOf(i) = NameOf(exec.promotion)
             /\ i # exec.promotion
<1> DEFINE S == Rivals(exec.promotion)
<1>1. S \in SUBSET (1..Len(promotions)) BY DEF Rivals, InGroup, Group
<1> HIDE DEF S
<1>2. SmallestOf(S) \in S BY <1>1, FirstOfPromotions DEF S
<1> QED BY <1>2 DEF S, Rivals, InGroup, Group

LEMMA NextPromotions == ASSUME BaseInv, [Next]_vars PROVE PromotionsStep
<1> USE DEF BaseInv
<1>1. CASE Chassis
  <2>1. CASE Patches \/ StartSweep \/ RetryStep
    BY <2>1 DEF Patches, RecordVerdict, MarkPending, MarkAdopting, StartSweep, graph,
                RetryStep, Retry, Retrial, Requeue, PromotionsStep
  <2>2. CASE AdoptStep
    <3>1. CASE PromotionRecorder
      BY <3>1, RecordedAreLoading
         DEF PromotionRecorder, PromotionsStep, Activates, FrameFollows, NameOf, RecordPCs
    <3>2. CASE SupersedePriorActive
      BY <3>2, RivalOfPromotion DEF SupersedePriorActive, FrameFollows, PromotionsStep
    <3>3. CASE LoadAndRecord BY <3>3 DEF PromotionsStep
    <3> QED
      BY <2>2, <3>1, <3>2, <3>3
         DEF AdoptStep, RefuseParked, HashMismatch, Regate, RerunGates, AbortAfterGates,
             ForkLostOrConflict, Promote, CloseAdoption, MarkPromoted, PatchAborted,
             PromotionsStep
  <2>3. CASE DisableStep
    BY <2>3 DEF DisableStep, DisablePack, MarkDisabled, CloseDisable, PromotionsStep
  <2>4. CASE BootStep
    <3>1. CASE \E n \in Packs : HealLoading(n) \/ ParkLoading(n)
      BY <3>1, LoadingOfPack
         DEF HealLoading, ParkLoading, MarkerInLog, PromotionsStep, Activates
    <3>2. CASE LoadSurvivor
      <4>1. exec.promotion \in 1..Len(promotions)
        BY <3>2 DEF LoadSurvivor, TypeInv, FrameOK, PromotionPCs
      <4> QED BY <3>2, <4>1 DEF LoadSurvivor, ReloadOne, PromotionsStep
    <3>3. CASE \E n \in Packs : ResolvePack(n)
      <4>1. \A n : InGroup(n, "active") \subseteq 1..Len(promotions)
        BY DEF InGroup, Group
      <4> QED BY <3>3, <4>1 DEF ResolvePack, ReloadOne, PromotionsStep
    <3> QED BY <2>4, <3>1, <3>2, <3>3
            DEF BootStep, Boot, CloseHealedTickets, OpenBootGap, PromotionsStep
  <2> QED BY <1>1, <2>1, <2>2, <2>3, <2>4 DEF Chassis
<1>2. CASE Authoring \/ Owner \/ Tampering
             \/ \E p \in Proposals : ProposalGatekeeper(p)
  BY <1>2 DEF Authoring, Owner, Tampering, SubmitProposal, RunTrial, RequestAdoption,
              ApproveAdoption, DenyAdoption, RequestDisable, ApproveDisable,
              TamperArtifacts, ProposalGatekeeper, graph, PromotionsStep
<1>3. CASE Crash \/ UNCHANGED vars BY <1>3 DEF Crash, vars, graph, PromotionsStep
<1> QED BY <1>1, <1>2, <1>3 DEF Next

ForksStep ==
  \/ UNCHANGED forks
  \/ \E p \in Proposals : forks' = Append(forks, [proposal |-> p, alive |-> TRUE])
  \/ Boot

LEMMA NextForks == ASSUME TypeInv, [Next]_vars PROVE ForksStep
<1>1. CASE Chassis
  <2>1. exec.pc = "retrial" => exec.proposal \in Proposals
    BY DEF TypeInv, FrameOK, ProposalPCs, AdoptionPCs
  <2> QED
    BY <1>1, <2>1
       DEF Chassis, Patches, AdoptStep, DisableStep, RetryStep, BootStep, RecordVerdict,
           MarkPending, MarkAdopting, StartSweep, graph, RefuseParked, HashMismatch,
           Regate, RerunGates, AbortAfterGates, ForkLostOrConflict, LoadAndRecord,
           Promote, CloseAdoption, PromotionRecorder, MarkPromoted, SupersedePriorActive,
           PatchAborted, DisablePack, AddRollback, MarkDisabled, CloseDisable, Retry,
           Retrial, TrialOutcome, Requeue, CloseHealedTickets, OpenBootGap, LoadSurvivor,
           HealLoading, ParkLoading, SupersedeAtBoot, ResolvePack, ForksStep
<1>2. CASE Authoring \/ Owner \/ Tampering
             \/ \E p \in Proposals : ProposalGatekeeper(p)
  BY <1>2 DEF Authoring, Owner, Tampering, SubmitProposal, RunTrial, TrialOutcome,
              RequestAdoption, ApproveAdoption, DenyAdoption, RequestDisable,
              ApproveDisable, TamperArtifacts, ProposalGatekeeper, graph, ForksStep
<1>3. CASE Crash \/ UNCHANGED vars BY <1>3 DEF Crash, vars, graph, ForksStep
<1> QED BY <1>1, <1>2, <1>3 DEF Next

\* The tables keep their types and entries.
LEMMA HealingTickets ==
  ASSUME TypeInv, HealsTickets
  PROVE  /\ tickets' \in Seq(Tickets) /\ TicketsKept /\ Len(tickets') = Len(tickets)
         /\ \A t \in 1..Len(tickets) :
              tickets'[t].status =
                IF t \in HealedTickets(promotions[exec.promotion].proposal)
                THEN "done" ELSE tickets[t].status
<1> DEFINE S == HealedTickets(promotions[exec.promotion].proposal)
           New(t) == [tickets[t] EXCEPT !.status = "done"]
<1>1. \A t \in 1..Len(tickets) :
        /\ New(t) \in Tickets /\ New(t).status = "done"
        /\ New(t).kind = tickets[t].kind /\ New(t).proposal = tickets[t].proposal
        /\ New(t).promotion = tickets[t].promotion
  BY TableTypes DEF Tickets
<1>2. tickets' = [t \in 1..Len(tickets) |-> IF t \in S THEN New(t) ELSE tickets[t]]
  BY DEF HealsTickets
<1> HIDE DEF S, New
<1>3. tickets' \in [1..Len(tickets) -> Tickets] BY <1>1, <1>2, TableTypes
<1>4. tickets' \in Seq(Tickets) /\ Len(tickets') = Len(tickets)
  BY <1>3, TableTypes, Mapped
<1>5. \A t \in 1..Len(tickets) :
        tickets'[t] = IF t \in S THEN New(t) ELSE tickets[t]
  BY <1>2
<1>6. \A t \in 1..Len(tickets) :
        /\ tickets'[t].status = IF t \in S THEN "done" ELSE tickets[t].status
        /\ tickets'[t].kind = tickets[t].kind
        /\ tickets'[t].proposal = tickets[t].proposal
        /\ tickets'[t].promotion = tickets[t].promotion
  BY <1>1, <1>5
<1> QED BY <1>4, <1>6, TableTypes DEF TicketsKept, S

LEMMA TicketsTyped ==
  ASSUME TypeInv, TicketsStep PROVE tickets' \in Seq(Tickets) /\ TicketsKept
<1>1. CASE UNCHANGED tickets BY <1>1, TableTypes DEF TicketsKept
<1>2. CASE \E t \in 1..Len(tickets), s \in TicketStates : SetTicket(t, s)
  BY <1>2, SettingTicket
<1>3. CASE \E p \in Proposals : OpensAdoption(p)
  BY <1>3, OpeningTicket DEF OpensAdoption, OpenAdoption, Tickets
<1>4. CASE \E i \in 1..Len(promotions) : OpensDisable(i)
  <2>1. PICK i \in 1..Len(promotions) : OpensDisable(i) BY <1>4
  <2>2. i \in Nat BY TableTypes
  <2> QED BY <2>1, <2>2, OpeningTicket DEF OpensDisable, Tickets
<1>5. CASE HealsTickets BY <1>5, HealingTickets
<1> QED BY <1>1, <1>2, <1>3, <1>4, <1>5 DEF TicketsStep

LEMMA RecordingPromotion ==
  ASSUME TypeInv, LoadAndRecord
  PROVE  /\ promotions' \in Seq(Promotions) /\ PromotionsKept
         /\ Len(promotions') = Len(promotions) + 1
         /\ promotions'[Len(promotions) + 1] =
              [proposal |-> exec.proposal, fork |-> LatestFork(exec.proposal),
               status |-> "loading", rolledBack |-> FALSE]
         /\ \A i \in 1..Len(promotions) : promotions'[i] = promotions[i]
         /\ LatestFork(exec.proposal) \in TrialsOf(exec.proposal)
         /\ exec.proposal \in Proposals
<1> DEFINE p == exec.proposal
           new == [proposal |-> p, fork |-> LatestFork(p),
                   status |-> "loading", rolledBack |-> FALSE]
<1>1. p \in Proposals
  BY DEF LoadAndRecord, TypeInv, FrameOK, ProposalPCs, AdoptionPCs
<1>2. TrialsOf(p) # {} /\ TrialsOf(p) \in SUBSET (1..Len(forks))
  BY DEF LoadAndRecord, ForkLoads, TrialsOf
<1>3. LatestFork(p) \in TrialsOf(p)
  BY <1>2, TableTypes, LargestIsLast DEF LatestFork
<1>4. LatestFork(p) \in Nat BY <1>2, <1>3, TableTypes
<1>5. new \in Promotions BY <1>1, <1>4 DEF Promotions
<1>6. promotions' = Append(promotions, new) BY DEF LoadAndRecord
<1> HIDE DEF new
<1>7. /\ promotions' \in Seq(Promotions) /\ Len(promotions') = Len(promotions) + 1
      /\ promotions'[Len(promotions) + 1] = new
      /\ \A i \in 1..Len(promotions) : promotions'[i] = promotions[i]
  BY <1>5, <1>6, TableTypes, Appended
<1> QED BY <1>1, <1>3, <1>7, TableTypes DEF PromotionsKept, new

LEMMA RollingBack ==
  ASSUME TypeInv, AddRollback
  PROVE  /\ promotions' \in Seq(Promotions) /\ PromotionsKept
         /\ Len(promotions') = Len(promotions)
         /\ \A i \in 1..Len(promotions) :
              /\ promotions'[i].status = promotions[i].status
              /\ i = exec.promotion => promotions'[i].rolledBack
              /\ i # exec.promotion =>
                   promotions'[i].rolledBack = promotions[i].rolledBack
<1> DEFINE i == exec.promotion
           new == [promotions[i] EXCEPT !.rolledBack = TRUE]
<1>1. i \in 1..Len(promotions)
  BY DEF AddRollback, TypeInv, FrameOK, PromotionPCs, DisablePCs
<1>2. promotions[i] \in Promotions BY <1>1, TableTypes
<1>3. /\ new \in Promotions /\ new.status = promotions[i].status
      /\ new.rolledBack
      /\ new.proposal = promotions[i].proposal /\ new.fork = promotions[i].fork
  BY <1>2 DEF Promotions
<1>4. promotions' = [promotions EXCEPT ![i] = new] BY DEF AddRollback
<1> HIDE DEF new, i
<1>5. /\ promotions' \in Seq(Promotions) /\ Len(promotions') = Len(promotions)
      /\ \A k \in 1..Len(promotions) :
           promotions'[k] = IF k = i THEN new ELSE promotions[k]
  BY <1>1, <1>3, <1>4, TableTypes, Replaced
<1>6. \A k \in 1..Len(promotions) :
        /\ promotions'[k].status = promotions[k].status
        /\ promotions'[k].proposal = promotions[k].proposal
        /\ promotions'[k].fork = promotions[k].fork
  BY <1>3, <1>5
<1>7. \A k \in 1..Len(promotions) :
        /\ k = i => promotions'[k].rolledBack
        /\ k # i => promotions'[k].rolledBack = promotions[k].rolledBack
  BY <1>3, <1>5, Zenon
<1> QED BY <1>5, <1>6, <1>7, TableTypes DEF PromotionsKept, i

LEMMA SurvivorAtBoot ==
  ASSUME TypeInv, NEW n \in Packs, SupersedeAtBoot(n)
  PROVE  /\ LargestOf(InGroup(n, "active")) \in InGroup(n, "active")
         /\ LargestOf(InGroup(n, "active")) \in 1..Len(promotions)
<1>1. InGroup(n, "active") \in SUBSET (1..Len(promotions)) BY DEF InGroup, Group
<1>2. InGroup(n, "active") # {}
  <2>1. Cardinality({}) = 0 BY FS_EmptySet
  <2>2. ~ (Cardinality({}) >= 2) BY <2>1
  <2> QED BY <2>2, Zenon DEF SupersedeAtBoot, SeveralActive
<1> QED BY <1>1, <1>2, FirstOfPromotions

\* Boot leaves the survivor of each pack's active promotions alone.
LEMMA SupersedingAtBoot ==
  ASSUME TypeInv, NEW n \in Packs, SupersedeAtBoot(n)
  PROVE  /\ promotions' \in Seq(Promotions) /\ PromotionsKept
         /\ Len(promotions') = Len(promotions)
         /\ \A i \in 1..Len(promotions) :
              promotions'[i].status =
                IF i \in InGroup(n, "active") \ {LargestOf(InGroup(n, "active"))}
                THEN "disabled" ELSE promotions[i].status
<1> DEFINE S == InGroup(n, "active") \ {LargestOf(InGroup(n, "active"))}
           New(i) == [promotions[i] EXCEPT !.status = "disabled"]
<1>1. \A i \in 1..Len(promotions) :
        /\ New(i) \in Promotions /\ New(i).status = "disabled"
        /\ New(i).proposal = promotions[i].proposal /\ New(i).fork = promotions[i].fork
  BY TableTypes DEF Promotions
<1>2. promotions' = [i \in 1..Len(promotions) |-> IF i \in S THEN New(i) ELSE promotions[i]]
  BY DEF SupersedeAtBoot
<1> HIDE DEF S, New
<1>3. promotions' \in [1..Len(promotions) -> Promotions] BY <1>1, <1>2, TableTypes
<1>4. promotions' \in Seq(Promotions) /\ Len(promotions') = Len(promotions)
  BY <1>3, TableTypes, Mapped
<1>5. \A i \in 1..Len(promotions) :
        /\ promotions'[i].status = IF i \in S THEN "disabled" ELSE promotions[i].status
        /\ promotions'[i].proposal = promotions[i].proposal
        /\ promotions'[i].fork = promotions[i].fork
  <2> SUFFICES ASSUME NEW i \in 1..Len(promotions)
               PROVE  /\ promotions'[i].status = IF i \in S THEN "disabled"
                                                            ELSE promotions[i].status
                      /\ promotions'[i].proposal = promotions[i].proposal
                      /\ promotions'[i].fork = promotions[i].fork
    OBVIOUS
  <2>1. promotions'[i] = IF i \in S THEN New(i) ELSE promotions[i] BY <1>2
  <2> QED BY <1>1, <2>1
<1>6. PromotionsKept BY <1>4, <1>5, TableTypes DEF PromotionsKept
<1> QED BY <1>4, <1>5, <1>6 DEF S

LEMMA PromotionsTyped ==
  ASSUME TypeInv, PromotionsStep
  PROVE  /\ promotions' \in Seq(Promotions) /\ PromotionsKept
         /\ Len(promotions') = Len(promotions) \/ LoadAndRecord
<1>1. CASE UNCHANGED promotions BY <1>1, TableTypes DEF PromotionsKept
<1>2. CASE \E i \in 1..Len(promotions) : Activates(i) \/ SetPromotion(i, "disabled")
  BY <1>2, SettingPromotion DEF PromotionStates, Activates
<1> QED BY <1>1, <1>2, RecordingPromotion, RollingBack, SupersedingAtBoot
        DEF PromotionsStep

LEMMA ForksTyped ==
  ASSUME TypeInv, ForksStep PROVE forks' \in Seq(Forks) /\ ForksKept
<1>1. CASE UNCHANGED forks BY <1>1, TableTypes DEF ForksKept
<1>2. CASE \E p \in Proposals : forks' = Append(forks, [proposal |-> p, alive |-> TRUE])
  BY <1>2, TableTypes, Appended DEF ForksKept, Forks
<1>3. CASE Boot
  <2> DEFINE New(f) == [forks[f] EXCEPT !.alive = forks[f].alive /\ Retained(f)]
  <2>1. \A f \in 1..Len(forks) : New(f) \in Forks /\ New(f).proposal = forks[f].proposal
    BY TableTypes DEF Forks
  <2>2. forks' = [f \in 1..Len(forks) |-> New(f)] BY <1>3 DEF Boot
  <2> HIDE DEF New
  <2>3. forks' \in [1..Len(forks) -> Forks] BY <2>1, <2>2
  <2>4. forks' \in Seq(Forks) /\ Len(forks') = Len(forks)
    BY <2>3, TableTypes, Mapped
  <2> QED BY <2>1, <2>2, <2>4, TableTypes DEF ForksKept
<1> QED BY <1>1, <1>2, <1>3 DEF ForksStep

-----------------------------------------------------------------------------
(* The frame *)

FrameHere(f) == FrameOK(f, Adoptions, 1..Len(tickets), 1..Len(promotions))

LEMMA TablesGrow ==
  ASSUME TypeInv, TicketsKept, PromotionsKept,
         tickets' \in Seq(Tickets), promotions' \in Seq(Promotions)
  PROVE  /\ Adoptions \subseteq Adoptions' /\ 1..Len(tickets) \subseteq 1..Len(tickets')
         /\ 1..Len(promotions) \subseteq 1..Len(promotions')
<1>1. Len(tickets') \in Nat /\ Len(promotions') \in Nat OBVIOUS
<1> QED BY <1>1, TableTypes DEF TicketsKept, PromotionsKept, Adoptions

LEMMA RestingFrames ==
  /\ Idle \in Frames /\ Idle.pc = "idle" /\ Idle.todo = {} /\ Idle.again = {}
  /\ Idle.ticket = 0
  /\ Down \in Frames /\ Down.pc = "down" /\ Down.todo = {} /\ Down.again = {}
  BY DEF Idle, Down, Frames, PCs, Statuses

LEMMA RestingFramesHere == FrameHere(Idle) /\ FrameHere(Down)
  BY RestingFrames
     DEF FrameHere, FrameOK, ProposalPCs, AdoptionPCs, DisablePCs, PromotionPCs, RecordPCs

LEMMA AfterIsFrame ==
  ASSUME TypeInv, NEW todo \in SUBSET (1..Len(tickets)), NEW again \in SUBSET Adoptions
  PROVE  /\ FrameHere(After(todo, again))
         /\ After(todo, again).pc \in {"ticket", "retry", "idle"}
         /\ After(todo, again).todo = todo
         /\ After(todo, again).again \subseteq again
<1>1. todo \in SUBSET Nat /\ again \in SUBSET Nat BY TableTypes DEF Adoptions
<1>2. CASE todo # {}
  <2>1. After(todo, again) = [Idle EXCEPT !.pc = "ticket", !.todo = todo, !.again = again]
    BY <1>2 DEF After
  <2>2. /\ After(todo, again) \in Frames
        /\ After(todo, again).pc = "ticket"
        /\ After(todo, again).todo = todo /\ After(todo, again).again = again
    BY <1>1, <2>1, RestingFrames DEF Frames, PCs
  <2> QED BY <1>2, <2>2 DEF FrameHere, FrameOK, ProposalPCs, AdoptionPCs, DisablePCs,
                            PromotionPCs, RecordPCs
<1>3. CASE todo = {} /\ again # {}
  <2>1. After(todo, again) = [Idle EXCEPT !.pc = "retry", !.again = again]
    BY <1>3 DEF After
  <2>2. /\ After(todo, again) \in Frames /\ After(todo, again).pc = "retry"
        /\ After(todo, again).todo = {} /\ After(todo, again).again = again
    BY <1>1, <2>1, RestingFrames DEF Frames, PCs
  <2> QED BY <1>3, <2>2 DEF FrameHere, FrameOK, ProposalPCs, AdoptionPCs, DisablePCs,
                            PromotionPCs, RecordPCs
<1>4. CASE todo = {} /\ again = {}
  <2>1. After(todo, again) = Idle BY <1>4 DEF After
  <2> QED BY <1>4, <2>1, RestingFrames, RestingFramesHere
<1> QED BY <1>2, <1>3, <1>4

\* Where boot announces and where it goes on.
LEMMA BootFrames ==
  ASSUME TypeInv, NEW packs \in SUBSET Packs
  PROVE  FrameHere(Remaining(packs)) /\ Remaining(packs).pc \in {"idle", "boot"}
<1>1. /\ Remaining(packs) \in Frames /\ Remaining(packs).pc \in {"idle", "boot"}
      /\ Remaining(packs).todo = {} /\ Remaining(packs).again = {}
  BY RestingFrames DEF Remaining, Idle, Down, Frames, PCs, Statuses
<1> QED BY <1>1 DEF FrameHere, FrameOK, ProposalPCs, AdoptionPCs, DisablePCs,
                    PromotionPCs, RecordPCs

LEMMA AnnouncedFrame ==
  ASSUME NEW i, NEW c, NEW packs
  PROVE  /\ Announce(i, c, packs).pc = "gap"
         /\ Announce(i, c, packs).promotion = i
         /\ Announce(i, c, packs).to = c
         /\ Announce(i, c, packs).packs = packs
         /\ [Announce(i, c, packs) EXCEPT !.pc = "close"].pc = "close"
         /\ [Announce(i, c, packs) EXCEPT !.pc = "close"].promotion = i
         /\ [Announce(i, c, packs) EXCEPT !.pc = "close"].to = c
         /\ [Announce(i, c, packs) EXCEPT !.pc = "close"].packs = packs
  BY DEF Announce, Down, Idle

LEMMA AnnouncingFrames ==
  ASSUME TypeInv, NEW packs \in SUBSET Packs, NEW i \in 1..Len(promotions),
         NEW c \in Cases
  PROVE  /\ FrameHere(Announce(i, c, packs))
         /\ FrameHere([Announce(i, c, packs) EXCEPT !.pc = "close"])
<1> DEFINE f == Announce(i, c, packs)
           g == [f EXCEPT !.pc = "close"]
<1>1. i \in Nat BY TableTypes
<1>2. /\ f \in Frames /\ f.pc = "gap" /\ f.promotion = i /\ f.to = c /\ f.packs = packs
      /\ f.todo = {} /\ f.again = {}
  BY <1>1 DEF Announce, Down, Idle, Frames, PCs
<1> HIDE DEF f
<1>3. /\ g \in Frames /\ g.pc = "close" /\ g.promotion = i /\ g.to = c
      /\ g.todo = {} /\ g.again = {} /\ g.packs = packs
  BY <1>2 DEF Frames, PCs
<1> HIDE DEF g
<1>4. FrameHere(f) /\ FrameHere(g)
  BY <1>2, <1>3 DEF FrameHere, FrameOK, ProposalPCs, AdoptionPCs, DisablePCs,
                    PromotionPCs, RecordPCs
<1> QED BY <1>2, <1>3, <1>4 DEF f, g

LEMMA FrameFields ==
  ASSUME TypeInv
  PROVE  /\ exec \in Frames
         /\ exec.todo \in SUBSET (1..Len(tickets)) /\ exec.again \in SUBSET Adoptions
         /\ exec.packs \in SUBSET Packs
         /\ FrameHere(exec)
<1>1. exec \in Frames BY DEF TypeInv, TypeOK
<1> QED BY <1>1 DEF TypeInv, FrameOK, FrameHere, Frames

\* Going on with the function, at another place.
LEMMA GoesOn ==
  ASSUME TypeInv, NEW pc \in PCs
  PROVE  /\ [exec EXCEPT !.pc = pc] \in Frames
         /\ [exec EXCEPT !.pc = pc].pc = pc
         /\ [exec EXCEPT !.pc = pc].todo = exec.todo
         /\ [exec EXCEPT !.pc = pc].again = exec.again
         /\ [exec EXCEPT !.pc = pc].ticket = exec.ticket
         /\ [exec EXCEPT !.pc = pc].promotion = exec.promotion
         /\ [exec EXCEPT !.pc = pc].proposal = exec.proposal
         /\ [exec EXCEPT !.pc = pc].to = exec.to
         /\ [exec EXCEPT !.pc = pc].packs = exec.packs
  BY FrameFields DEF Frames

LEMMA AuthoringFrames ==
  ASSUME TypeInv,
         Authoring \/ Owner \/ Tampering \/ (\E p \in Proposals : ProposalGatekeeper(p))
           \/ Patches \/ StartSweep \/ Crash \/ UNCHANGED vars
  PROVE  FrameHere(exec')
<1>1. CASE exec' = exec BY <1>1, FrameFields
<1>3. CASE \E p \in Proposals : RunTrial(p)
  <2>1. PICK p \in Proposals : RunTrial(p) BY <1>3
  <2>2. CASE exec' = After({}, exec.again) BY <2>2, FrameFields, AfterIsFrame
  <2>3. CASE exec' = [exec EXCEPT !.pc = "verdict", !.proposal = p]
    <3>1. exec = Idle BY <2>1 DEF RunTrial
    <3>2. /\ exec' \in Frames /\ exec'.pc = "verdict" /\ exec'.proposal = p
          /\ exec'.todo = {} /\ exec'.again = {} /\ exec'.ticket = 0
      BY <2>3, <3>1, RestingFrames DEF Frames, PCs
    <3> QED BY <3>2 DEF FrameHere, FrameOK, ProposalPCs, AdoptionPCs, DisablePCs,
                        PromotionPCs, RecordPCs
  <2> QED BY <2>1, <2>2, <2>3 DEF RunTrial, TrialOutcome
<1>4. CASE \E p \in Proposals, pc \in {"request", "adopting"} :
             exec' = [Idle EXCEPT !.pc = pc, !.proposal = p]
  <2>1. PICK p \in Proposals, pc \in {"request", "adopting"} :
               exec' = [Idle EXCEPT !.pc = pc, !.proposal = p]
    BY <1>4
  <2>2. /\ exec' \in Frames /\ exec'.pc = pc /\ exec'.proposal = p
        /\ exec'.todo = {} /\ exec'.again = {}
    BY <2>1, RestingFrames DEF Frames, PCs
  <2> QED BY <2>2 DEF FrameHere, FrameOK, ProposalPCs, AdoptionPCs, DisablePCs,
                      PromotionPCs, RecordPCs
<1>5. CASE Patches
  <2>1. CASE exec' = Idle BY <2>1, RestingFramesHere
  <2>2. CASE RecordVerdict /\ exec.ticket # 0
    <3>1. exec.pc = "verdict" /\ exec' = [exec EXCEPT !.pc = "requeue"]
      BY <2>2 DEF RecordVerdict
    <3>2. /\ exec' \in Frames /\ exec'.pc = "requeue" /\ exec'.proposal = exec.proposal
          /\ exec'.todo = exec.todo /\ exec'.again = exec.again
          /\ exec'.ticket = exec.ticket
      BY <3>1, GoesOn DEF PCs
    <3> QED BY <2>2, <3>1, <3>2, FrameFields
            DEF FrameHere, FrameOK, ProposalPCs, AdoptionPCs, DisablePCs, PromotionPCs,
                RecordPCs
  <2> QED BY <1>5, <2>1, <2>2 DEF Patches, RecordVerdict, MarkPending, MarkAdopting
<1>6. CASE StartSweep
  <2>1. OpenTickets \in SUBSET (1..Len(tickets)) BY DEF OpenTickets
  <2> QED BY <1>6, <2>1, AfterIsFrame DEF StartSweep
<1>7. CASE Crash BY <1>7, RestingFramesHere DEF Crash
<1> QED BY <1>1, <1>3, <1>4, <1>5, <1>6, <1>7
        DEF Authoring, SubmitProposal, RequestAdoption, Owner, ApproveAdoption,
            DenyAdoption, RequestDisable, ApproveDisable, Tampering, TamperArtifacts,
            ProposalGatekeeper, vars

LEMMA WorkingFrames ==
  ASSUME TypeInv, exec.pc = "ticket", NEW pc \in PCs, NEW p \in Proposals \cup {NoProposal}
  PROVE  /\ Working(pc, p) \in Frames
         /\ Working(pc, p).pc = pc /\ Working(pc, p).proposal = p
         /\ Working(pc, p).ticket = Current
         /\ Working(pc, p).todo = exec.todo \ {Current}
         /\ Working(pc, p).again = exec.again
<1>1. Current \in Nat BY CurrentIsTicket, TableTypes
<1>2. exec \in Frames BY FrameFields
<1> QED BY <1>1, <1>2 DEF Working, Frames

LEMMA AdoptFrames ==
  ASSUME BaseInv, AdoptStep, ~ LoadAndRecord
  PROVE  FrameHere(exec')
<1> USE DEF BaseInv
<1>1. CASE \E p \in Proposals : RefuseParked(p)
  <2>1. exec' = After(exec.todo \ {Current}, exec.again) BY <1>1 DEF RefuseParked
  <2> QED BY <2>1, FrameFields, AfterIsFrame
<1>2. CASE \E p \in Proposals : HashMismatch(p)
  <2>1. PICK p \in Proposals : HashMismatch(p) BY <1>2
  <2>2. /\ exec.pc = "ticket" /\ Current \in Adoptions
        /\ exec' = [Working("patch", p) EXCEPT !.to = "suspended"]
    BY <2>1, CurrentIsTicket DEF HashMismatch, TakesAdoption, Adoptions
  <2>3. /\ Working("patch", p) \in Frames /\ Working("patch", p).pc = "patch"
        /\ Working("patch", p).proposal = p /\ Working("patch", p).ticket = Current
        /\ Working("patch", p).todo = exec.todo \ {Current}
        /\ Working("patch", p).again = exec.again
    BY <2>2, WorkingFrames DEF PCs
  <2>4. /\ exec' \in Frames /\ exec'.pc = "patch" /\ exec'.proposal = p
        /\ exec'.ticket = Current /\ exec'.todo = exec.todo \ {Current}
        /\ exec'.again = exec.again /\ exec'.to = "suspended"
    BY <2>2, <2>3 DEF Frames, Statuses
  <2> QED BY <2>2, <2>4, FrameFields
          DEF FrameHere, FrameOK, ProposalPCs, AdoptionPCs, DisablePCs, PromotionPCs,
              RecordPCs
<1>3. CASE \E p \in Proposals : Regate(p)
  <2>1. PICK p \in Proposals : Regate(p) BY <1>3
  <2>2. /\ exec.pc = "ticket" /\ Current \in Adoptions /\ exec' = Working("gates", p)
    BY <2>1, CurrentIsTicket DEF Regate, TakesAdoption, Adoptions
  <2>3. /\ exec' \in Frames /\ exec'.pc = "gates" /\ exec'.proposal = p
        /\ exec'.ticket = Current /\ exec'.todo = exec.todo \ {Current}
        /\ exec'.again = exec.again
    BY <2>2, WorkingFrames DEF PCs
  <2> QED BY <2>2, <2>3, FrameFields
          DEF FrameHere, FrameOK, ProposalPCs, AdoptionPCs, DisablePCs, PromotionPCs,
              RecordPCs
<1>4. CASE /\ exec.pc \in AdoptionPCs
           /\ \E again \in SUBSET Adoptions : exec' = After(exec.todo, again)
  BY <1>4, FrameFields, AfterIsFrame
\* From one place of a ticket's adoption to another.
<1>5. ASSUME exec.pc \in AdoptionPCs, NEW pc \in AdoptionPCs \ {"patch"},
             pc \in RecordPCs => exec.pc \in RecordPCs,
             exec' = [exec EXCEPT !.pc = pc]
      PROVE  FrameHere(exec')
  <2>1. /\ exec' \in Frames /\ exec'.pc = pc /\ exec'.proposal = exec.proposal
        /\ exec'.todo = exec.todo /\ exec'.again = exec.again
        /\ exec'.ticket = exec.ticket /\ exec'.promotion = exec.promotion
    <3>1. pc \in PCs BY DEF PCs, AdoptionPCs
    <3> QED BY <1>5, <3>1, GoesOn
  <2> QED BY <1>5, <2>1, FrameFields
          DEF FrameHere, FrameOK, ProposalPCs, AdoptionPCs, DisablePCs, PromotionPCs,
              RecordPCs
<1>6. ASSUME exec.pc \in AdoptionPCs, NEW to \in {"conflict", "gated"},
             exec' = [exec EXCEPT !.pc = "patch", !.to = to]
      PROVE  FrameHere(exec')
  <2>1. /\ exec' \in Frames /\ exec'.pc = "patch" /\ exec'.proposal = exec.proposal
        /\ exec'.todo = exec.todo /\ exec'.again = exec.again
        /\ exec'.ticket = exec.ticket /\ exec'.to = to
    BY <1>6, FrameFields DEF Frames, PCs, Statuses
  <2> QED BY <1>6, <2>1, FrameFields
          DEF FrameHere, FrameOK, ProposalPCs, AdoptionPCs, DisablePCs, PromotionPCs,
              RecordPCs
<1>7. CASE RerunGates BY <1>5, <1>7 DEF RerunGates, AdoptionPCs, RecordPCs
<1>8. CASE AbortAfterGates
  BY <1>4, <1>8, FrameFields DEF AbortAfterGates, AdoptionPCs
<1>9. CASE ForkLostOrConflict BY <1>6, <1>9 DEF ForkLostOrConflict, AdoptionPCs
<1>10. CASE Promote BY <1>5, <1>6, <1>10 DEF Promote, AdoptionPCs, RecordPCs
<1>11. CASE CloseAdoption BY <1>5, <1>11 DEF CloseAdoption, AdoptionPCs, RecordPCs
<1>12. CASE MarkPromoted
  BY <1>4, <1>5, <1>12, FrameFields DEF MarkPromoted, AdoptionPCs, RecordPCs
<1>13. CASE SupersedePriorActive
  <2>1. CASE exec' = exec BY <2>1, FrameFields
  <2> QED BY <1>4, <1>13, <2>1, FrameFields
          DEF SupersedePriorActive, AdoptionPCs
<1>14. CASE PatchAborted
  <2>1. exec.pc = "patch" /\ exec.ticket \in Adoptions
    BY <1>14, FrameFields DEF PatchAborted, AdoptionPCs, FrameHere, FrameOK
  <2> QED BY <1>4, <1>14, <2>1, FrameFields DEF PatchAborted, AdoptionPCs
<1>15. CASE PromotionRecorder
  <2>1. exec.pc = "record" /\ exec' = [exec EXCEPT !.pc = "promoted",
                                                   !.proposal = exec.proposal]
    BY <1>15, RecordedAreLoading DEF PromotionRecorder
  <2>2. exec' = [exec EXCEPT !.pc = "promoted"]
    BY <2>1, FrameFields DEF Frames
  <2> QED BY <1>5, <2>1, <2>2 DEF AdoptionPCs, RecordPCs
<1> QED BY <1>1, <1>2, <1>3, <1>7, <1>8, <1>9, <1>10, <1>11, <1>12, <1>13, <1>14, <1>15
        DEF AdoptStep

LEMMA RecordingFrame ==
  ASSUME TypeInv, LoadAndRecord
  PROVE  /\ FrameOK(exec', Adoptions, 1..Len(tickets), 1..Len(promotions'))
         /\ exec'.pc = "promote" /\ exec'.promotion = Len(promotions) + 1
         /\ exec'.proposal = exec.proposal /\ exec'.ticket = exec.ticket
         /\ exec'.todo = exec.todo /\ exec'.again = exec.again
<1>1. Len(promotions') = Len(promotions) + 1 /\ Len(promotions) \in Nat
  BY RecordingPromotion, TableTypes
<1>2. exec.pc = "fork" /\ exec' = [exec EXCEPT !.pc = "promote",
                                               !.promotion = Len(promotions) + 1]
  BY DEF LoadAndRecord
<1> DEFINE n == Len(promotions) + 1
<1>3. n \in Nat BY <1>1
<1> HIDE DEF n
<1>5. exec' = [exec EXCEPT !.pc = "promote", !.promotion = n] BY <1>2 DEF n
<1>6. /\ exec' \in Frames /\ exec'.pc = "promote" /\ exec'.proposal = exec.proposal
      /\ exec'.todo = exec.todo /\ exec'.again = exec.again
      /\ exec'.ticket = exec.ticket /\ exec'.promotion = n
  BY <1>3, <1>5, FrameFields DEF Frames, PCs
<1>7. exec'.promotion \in 1..Len(promotions') BY <1>1, <1>6 DEF n
<1> QED BY <1>2, <1>6, <1>7, FrameFields
        DEF n, FrameHere, FrameOK, ProposalPCs, AdoptionPCs, DisablePCs, PromotionPCs,
            RecordPCs

LEMMA RollbackFrame ==
  ASSUME TypeInv, exec.pc = "ticket", NEW i \in 1..Len(promotions),
         exec' = [Working("rollback", promotions[i].proposal) EXCEPT !.promotion = i]
  PROVE  exec'.pc = "rollback"
<1>1. promotions[i].proposal \in Proposals BY NamesArePacks
<1>2. /\ Working("rollback", promotions[i].proposal) \in Frames
      /\ Working("rollback", promotions[i].proposal).pc = "rollback"
  BY <1>1, WorkingFrames DEF PCs
<1> QED BY <1>2 DEF Frames

LEMMA DisableFrames ==
  ASSUME TypeInv, DisableStep
  PROVE  FrameHere(exec')
<1>1. CASE \E i \in 1..Len(promotions) : DisablePack(i)
  <2>1. PICK i \in 1..Len(promotions) : DisablePack(i) BY <1>1
  <2>2. exec.pc = "ticket" BY <2>1 DEF DisablePack
  <2>3. CASE exec' = After(exec.todo \ {Current}, exec.again)
    BY <2>3, FrameFields, AfterIsFrame
  <2>4. CASE exec' = [Working("rollback", promotions[i].proposal) EXCEPT !.promotion = i]
    <3>1. promotions[i].proposal \in Proposals /\ i \in Nat BY NamesArePacks, TableTypes
    <3> DEFINE f == Working("rollback", promotions[i].proposal)
    <3>2. /\ f \in Frames /\ f.pc = "rollback" /\ f.proposal = promotions[i].proposal
          /\ f.ticket = Current /\ f.todo = exec.todo \ {Current}
          /\ f.again = exec.again
      BY <2>2, <3>1, WorkingFrames DEF PCs
    <3> HIDE DEF f
    <3>3. exec' = [f EXCEPT !.promotion = i] BY <2>4 DEF f
    <3>4. /\ exec' \in Frames /\ exec'.pc = "rollback"
          /\ exec'.proposal = promotions[i].proposal /\ exec'.promotion = i
          /\ exec'.ticket = Current /\ exec'.todo = exec.todo \ {Current}
          /\ exec'.again = exec.again
      BY <3>1, <3>2, <3>3 DEF Frames
    <3> QED BY <2>2, <3>1, <3>4, FrameFields, CurrentIsTicket
            DEF FrameHere, FrameOK, ProposalPCs, AdoptionPCs, DisablePCs, PromotionPCs,
                RecordPCs
  <2> QED BY <2>1, <2>3, <2>4 DEF DisablePack
<1>2. ASSUME exec.pc \in DisablePCs, NEW pc \in DisablePCs,
             exec' = [exec EXCEPT !.pc = pc]
      PROVE  FrameHere(exec')
  <2>1. pc \in PCs BY DEF PCs, DisablePCs
  <2>2. /\ exec' \in Frames /\ exec'.pc = pc /\ exec'.proposal = exec.proposal
        /\ exec'.todo = exec.todo /\ exec'.again = exec.again
        /\ exec'.ticket = exec.ticket /\ exec'.promotion = exec.promotion
    BY <1>2, <2>1, GoesOn
  <2> QED BY <1>2, <2>2, FrameFields
          DEF FrameHere, FrameOK, ProposalPCs, AdoptionPCs, DisablePCs, PromotionPCs,
              RecordPCs
<1>3. CASE AddRollback \/ MarkDisabled
  BY <1>2, <1>3 DEF AddRollback, MarkDisabled, DisablePCs
<1>4. CASE CloseDisable BY <1>4, FrameFields, AfterIsFrame DEF CloseDisable
<1> QED BY <1>1, <1>3, <1>4 DEF DisableStep

LEMMA RetryFrames ==
  ASSUME TypeInv, RetryStep
  PROVE  FrameHere(exec')
<1>1. CASE Retry
  <2> DEFINE t == SmallestOf(exec.again)
             p == tickets[t].proposal
  <2>1. t \in Adoptions /\ p \in Proposals BY <1>1, RetriedIsAdoption DEF Retry
  <2> HIDE DEF t, p
  <2>2. exec.again \ {t} \in SUBSET Adoptions /\ {} \in SUBSET (1..Len(tickets))
    BY FrameFields
  <2>3. CASE exec' = After({}, exec.again \ {t}) BY <2>2, <2>3, AfterIsFrame
  <2>4. CASE exec' = [Idle EXCEPT !.pc = "retrial", !.ticket = t,
                                  !.again = exec.again \ {t}, !.proposal = p]
    <3>1. t \in Nat /\ exec.again \ {t} \in SUBSET Nat
      BY <2>1, <2>2, TableTypes DEF Adoptions
    <3>2. /\ exec' \in Frames /\ exec'.pc = "retrial" /\ exec'.proposal = p
          /\ exec'.ticket = t /\ exec'.todo = {} /\ exec'.again = exec.again \ {t}
      BY <2>1, <2>4, <3>1, RestingFrames DEF Frames, PCs
    <3> QED BY <2>1, <2>2, <3>2
            DEF FrameHere, FrameOK, ProposalPCs, AdoptionPCs, DisablePCs, PromotionPCs,
                RecordPCs
  <2> QED BY <1>1, <2>3, <2>4 DEF Retry, t, p
<1>2. CASE Retrial
  <2>1. CASE exec' = After({}, exec.again) BY <2>1, FrameFields, AfterIsFrame
  <2>2. CASE exec' = [exec EXCEPT !.pc = "verdict", !.proposal = exec.proposal]
    <3>1. /\ exec' \in Frames /\ exec'.pc = "verdict" /\ exec'.proposal = exec.proposal
          /\ exec'.todo = exec.todo /\ exec'.again = exec.again
          /\ exec'.ticket = exec.ticket
      BY <2>2, FrameFields DEF Frames, PCs
    <3> QED BY <1>2, <3>1, FrameFields
            DEF Retrial, FrameHere, FrameOK, ProposalPCs, AdoptionPCs, DisablePCs,
                PromotionPCs, RecordPCs
  <2> QED BY <1>2, <2>1, <2>2 DEF Retrial, TrialOutcome
<1>3. CASE Requeue BY <1>3, FrameFields, AfterIsFrame DEF Requeue
<1> QED BY <1>1, <1>2, <1>3 DEF RetryStep

LEMMA BootStepFrames ==
  ASSUME TypeInv, BootStep
  PROVE  FrameHere(exec')
<1>1. exec.packs \in SUBSET Packs /\ \A n : exec.packs \ {n} \in SUBSET Packs
  BY FrameFields
<1>2. CASE Boot
  <2>1. exec' = [Down EXCEPT !.pc = "boot", !.packs = Packs] BY <1>2 DEF Boot
  <2>2. exec' \in Frames /\ exec'.pc = "boot" /\ exec'.todo = {} /\ exec'.again = {}
    BY <2>1, RestingFrames DEF Frames, PCs
  <2> QED BY <2>2 DEF FrameHere, FrameOK, ProposalPCs, AdoptionPCs, DisablePCs,
                      PromotionPCs, RecordPCs
<1>3. ASSUME exec.pc \in {"close", "gap"}, NEW pc \in {"gap", "survivor"},
             exec' = [exec EXCEPT !.pc = pc]
      PROVE  FrameHere(exec')
  <2>1. /\ exec' \in Frames /\ exec'.pc = pc /\ exec'.to = exec.to
        /\ exec'.todo = exec.todo /\ exec'.again = exec.again
        /\ exec'.promotion = exec.promotion
    BY <1>3, FrameFields DEF Frames, PCs
  <2> QED BY <1>3, <2>1, FrameFields
          DEF FrameHere, FrameOK, ProposalPCs, AdoptionPCs, DisablePCs, PromotionPCs,
              RecordPCs
<1>4. CASE CloseHealedTickets BY <1>3, <1>4 DEF CloseHealedTickets
<1>5. CASE OpenBootGap BY <1>1, <1>3, <1>5, BootFrames DEF OpenBootGap
<1>6. CASE \E n \in Packs : HealLoading(n) \/ ParkLoading(n)
  <2>1. PICK n \in Packs : HealLoading(n) \/ ParkLoading(n) BY <1>6
  <2> DEFINE i == SmallestOf(InGroup(n, "loading"))
  <2>2. i \in 1..Len(promotions) BY <2>1, LoadingOfPack DEF HealLoading, ParkLoading
  <2>3. \/ exec' = [Announce(i, "healed", exec.packs) EXCEPT !.pc = "close"]
        \/ exec' = Announce(i, "parked", exec.packs)
    BY <2>1 DEF HealLoading, ParkLoading
  <2> HIDE DEF i
  <2>4. "healed" \in Cases /\ "parked" \in Cases BY DEF Cases
  <2>5. FrameHere([Announce(i, "healed", exec.packs) EXCEPT !.pc = "close"])
    BY <1>1, <2>2, <2>4, AnnouncingFrames
  <2>6. FrameHere(Announce(i, "parked", exec.packs))
    BY <1>1, <2>2, <2>4, AnnouncingFrames
  <2> QED BY <2>3, <2>5, <2>6
<1>7. CASE \E n \in Packs : SupersedeAtBoot(n)
  <2>1. PICK n \in Packs : SupersedeAtBoot(n) BY <1>7
  <2>4. LargestOf(InGroup(n, "active")) \in 1..Len(promotions) BY <2>1, SurvivorAtBoot
  <2> QED BY <1>1, <2>1, <2>4, AnnouncingFrames DEF SupersedeAtBoot, Cases
<1>8. ASSUME NEW i \in 1..Len(promotions), NEW packs \in SUBSET Packs,
             ReloadOne(i, packs)
      PROVE  FrameHere(exec')
  <2>1. exec' = Remaining(packs) \/ exec' = Announce(i, "mismatch", packs)
    BY <1>8 DEF ReloadOne
  <2>2. "mismatch" \in Cases BY DEF Cases
  <2>3. FrameHere(Remaining(packs)) BY BootFrames
  <2>4. FrameHere(Announce(i, "mismatch", packs)) BY <2>2, AnnouncingFrames
  <2> QED BY <2>1, <2>3, <2>4
<1>9. CASE LoadSurvivor
  <2>1. exec.promotion \in 1..Len(promotions)
    BY <1>9, FrameFields DEF LoadSurvivor, FrameHere, FrameOK, PromotionPCs
  <2> QED BY <1>1, <1>8, <1>9, <2>1 DEF LoadSurvivor
<1>10. CASE \E n \in Packs : ResolvePack(n)
  <2>1. \A n : InGroup(n, "active") \subseteq 1..Len(promotions) BY DEF InGroup, Group
  <2> QED BY <1>1, <1>8, <1>10, <2>1, BootFrames DEF ResolvePack
<1> QED BY <1>2, <1>4, <1>5, <1>6, <1>7, <1>9, <1>10 DEF BootStep

\* Where boot goes and what it has at hand.
LEMMA BootStepPlaces ==
  ASSUME TypeInv, BootStep
  PROVE  exec'.pc \in {"idle", "boot", "close", "gap", "survivor"}
<1>1. exec.packs \in SUBSET Packs /\ \A n : exec.packs \ {n} \in SUBSET Packs
  BY FrameFields
<1>2. CASE Boot
  <2>1. exec' = [Down EXCEPT !.pc = "boot", !.packs = Packs] BY <1>2 DEF Boot
  <2> QED BY <2>1, RestingFrames DEF Frames
<1>3. CASE CloseHealedTickets BY <1>3, GoesOn DEF CloseHealedTickets, PCs
<1>4. CASE OpenBootGap BY <1>1, <1>4, GoesOn, BootFrames DEF OpenBootGap, PCs
<1>5. CASE exec'.pc \in {"idle", "boot", "close", "gap", "survivor"} BY <1>5
<1>6. CASE \E n \in Packs : HealLoading(n) \/ ParkLoading(n)
  <2>1. PICK n \in Packs : HealLoading(n) \/ ParkLoading(n) BY <1>6
  <2> DEFINE i == SmallestOf(InGroup(n, "loading"))
  <2>2. i \in 1..Len(promotions) BY <2>1, LoadingOfPack DEF HealLoading, ParkLoading
  <2>3. \/ exec' = [Announce(i, "healed", exec.packs) EXCEPT !.pc = "close"]
        \/ exec' = Announce(i, "parked", exec.packs)
    BY <2>1 DEF HealLoading, ParkLoading
  <2> HIDE DEF i
  <2>5. [Announce(i, "healed", exec.packs) EXCEPT !.pc = "close"].pc = "close"
    BY AnnouncedFrame
  <2>6. Announce(i, "parked", exec.packs).pc = "gap" BY AnnouncedFrame
  <2> QED BY <2>3, <2>5, <2>6
<1>7. CASE \E n \in Packs : SupersedeAtBoot(n)
  BY <1>7, AnnouncedFrame DEF SupersedeAtBoot
<1>8. ASSUME NEW i \in 1..Len(promotions), NEW packs \in SUBSET Packs,
             ReloadOne(i, packs)
      PROVE  exec'.pc \in {"idle", "boot", "close", "gap", "survivor"}
  <2>1. exec' = Remaining(packs) \/ exec' = Announce(i, "mismatch", packs)
    BY <1>8 DEF ReloadOne
  <2> QED BY <2>1, BootFrames, AnnouncedFrame
<1>9. CASE LoadSurvivor
  <2>1. exec.promotion \in 1..Len(promotions)
    BY <1>9, FrameFields DEF LoadSurvivor, FrameHere, FrameOK, PromotionPCs
  <2> QED BY <1>1, <1>8, <1>9, <2>1 DEF LoadSurvivor
<1>10. CASE \E n \in Packs : ResolvePack(n)
  <2>1. \A n : InGroup(n, "active") \subseteq 1..Len(promotions) BY DEF InGroup, Group
  <2> QED BY <1>1, <1>8, <1>10, <2>1, BootFrames DEF ResolvePack
<1> QED BY <1>2, <1>3, <1>4, <1>6, <1>7, <1>9, <1>10 DEF BootStep

LEMMA NextFrame ==
  ASSUME BaseInv, [Next]_vars
  PROVE  FrameOK(exec', Adoptions', 1..Len(tickets'), 1..Len(promotions'))
<1>1. TypeInv BY DEF BaseInv
<1>2. TicketsStep /\ PromotionsStep BY <1>1, NextTickets, NextPromotions
<1>3. /\ Adoptions \subseteq Adoptions' /\ 1..Len(tickets) \subseteq 1..Len(tickets')
      /\ 1..Len(promotions) \subseteq 1..Len(promotions')
  BY <1>1, <1>2, TicketsTyped, PromotionsTyped, TablesGrow
<1>4. CASE LoadAndRecord
  <2>1. FrameOK(exec', Adoptions, 1..Len(tickets), 1..Len(promotions'))
    BY <1>1, <1>4, RecordingFrame
  <2> QED BY <1>3, <2>1 DEF FrameOK
<1>5. CASE ~ LoadAndRecord
  <2>1. FrameHere(exec')
    BY <1>1, <1>5, AuthoringFrames, AdoptFrames, DisableFrames, RetryFrames,
       BootStepFrames DEF Next, Chassis
  <2>2. FrameOK(exec', Adoptions, 1..Len(tickets), 1..Len(promotions))
    BY <2>1 DEF FrameHere
  <2> QED BY <1>3, <2>2 DEF FrameOK
<1> QED BY <1>4, <1>5

-----------------------------------------------------------------------------
(* The other variables *)

StatusStep ==
  UNCHANGED status \/ \E p \in Proposals, s \in Statuses : SetProposal(p, s)

\* Where the frame's step sets a status there is a proposal at hand.
LEMMA ProposalAtHand ==
  ASSUME TypeInv, exec.pc \in ProposalPCs PROVE exec.proposal \in Proposals
  BY DEF TypeInv, FrameOK

LEMMA NextStatus == ASSUME TypeInv, [Next]_vars PROVE StatusStep
<1> DEFINE Sets(p) == \E s \in Statuses : SetProposal(p, s)
<1>1. CASE Authoring \/ Owner \/ Tampering
             \/ \E p \in Proposals : ProposalGatekeeper(p)
  BY <1>1 DEF Authoring, Owner, Tampering, SubmitProposal, RunTrial, TrialOutcome,
              RequestAdoption, ApproveAdoption, DenyAdoption, RequestDisable,
              ApproveDisable, TamperArtifacts, ProposalGatekeeper, graph, StatusStep,
              GateFailures, Statuses
<1>2. CASE Patches
  BY <1>2, ProposalAtHand
     DEF Patches, RecordVerdict, MarkPending, MarkAdopting, StatusStep, Statuses,
         ProposalPCs
<1>3. CASE AdoptStep
  <2>1. CASE PatchAborted
    <3>1. exec.pc = "patch" /\ SetProposal(exec.proposal, exec.to)
      BY <2>1 DEF PatchAborted, AbortStatus
    <3>2. exec.to \in {"suspended", "conflict", "gated"} BY <3>1 DEF TypeInv, FrameOK
    <3> QED BY <3>1, <3>2, ProposalAtHand DEF StatusStep, Statuses, ProposalPCs, AdoptionPCs
  <2>2. CASE RerunGates \/ MarkPromoted
    BY <2>2, ProposalAtHand
       DEF RerunGates, MarkPromoted, GateFailures, StatusStep, Statuses, ProposalPCs,
           AdoptionPCs
  <2>3. CASE \E p \in Proposals : RefuseParked(p) \/ HashMismatch(p) \/ Regate(p)
    BY <2>3 DEF RefuseParked, HashMismatch, Regate, StatusStep, Statuses
  <2> QED
    BY <1>3, <2>1, <2>2, <2>3
       DEF AdoptStep, AbortAfterGates, ForkLostOrConflict, LoadAndRecord, Promote,
           CloseAdoption, PromotionRecorder, SupersedePriorActive, StatusStep
<1>4. CASE DisableStep
  BY <1>4, ProposalAtHand
     DEF DisableStep, DisablePack, AddRollback, MarkDisabled, CloseDisable, StatusStep,
         Statuses, ProposalPCs, DisablePCs
<1>5. CASE RetryStep
  <2>1. CASE Retry BY <2>1, RetriedIsAdoption DEF Retry, StatusStep, Statuses
  <2> QED
    BY <1>5, <2>1, ProposalAtHand
       DEF RetryStep, Retrial, TrialOutcome, Requeue, StatusStep, Statuses, ProposalPCs,
           AdoptionPCs
<1>6. CASE BootStep
  BY <1>6 DEF BootStep, Boot, CloseHealedTickets, OpenBootGap, LoadSurvivor, HealLoading,
              ParkLoading, SupersedeAtBoot, ResolvePack, StatusStep
<1>7. CASE StartSweep \/ Crash \/ UNCHANGED vars
  BY <1>7 DEF StartSweep, Crash, graph, vars, StatusStep
<1> QED BY <1>1, <1>2, <1>3, <1>4, <1>5, <1>6, <1>7 DEF Next, Chassis

\* What a step loads is what the thread has verified.
LoadsVerified(p) ==
  /\ p \in Proposals
  /\ \/ LoadAndRecord /\ p = exec.proposal
     \/ /\ BootStep /\ p \notin tampered
        /\ \E i \in 1..Len(promotions) : promotions[i].proposal = p
  /\ loaded' = [loaded EXCEPT ![PackOf[p]] = [proposal |-> p, pinned |-> p \notin tampered]]

LoadedStep ==
  \/ UNCHANGED loaded
  \/ \E p \in Proposals : LoadsVerified(p)
  \/ \E i \in 1..Len(promotions) :
       DisablePack(i) /\ loaded' = [loaded EXCEPT ![NameOf(i)] = Nothing]
  \/ Crash

LEMMA NextLoaded == ASSUME BaseInv, [Next]_vars PROVE LoadedStep
<1> USE DEF BaseInv
<1>1. CASE Authoring \/ Owner \/ Tampering \/ Patches \/ StartSweep \/ UNCHANGED vars
             \/ \E p \in Proposals : ProposalGatekeeper(p)
  BY <1>1 DEF Authoring, Owner, Tampering, SubmitProposal, RunTrial, RequestAdoption,
              ApproveAdoption, DenyAdoption, RequestDisable, ApproveDisable,
              TamperArtifacts, ProposalGatekeeper, Patches, RecordVerdict, MarkPending,
              MarkAdopting, StartSweep, graph, vars, LoadedStep
<1>2. CASE AdoptStep
  <2>1. CASE LoadAndRecord
    BY <2>1, RecordingPromotion DEF LoadAndRecord, LoadsVerified, LoadedStep
  <2> QED
    BY <1>2, <2>1
       DEF AdoptStep, RefuseParked, HashMismatch, Regate, RerunGates, AbortAfterGates,
           ForkLostOrConflict, Promote, CloseAdoption, PromotionRecorder, MarkPromoted,
           SupersedePriorActive, LoadedAfterSupersede, PatchAborted, LoadedStep
<1>3. CASE DisableStep
  BY <1>3 DEF DisableStep, DisablePack, AddRollback, MarkDisabled, CloseDisable, LoadedStep
<1>4. CASE BootStep
  <2>1. ASSUME NEW i \in 1..Len(promotions), NEW packs, ReloadOne(i, packs)
        PROVE  LoadedStep
    <3>1. promotions[i].proposal \in Proposals BY NamesArePacks
    <3> QED BY <1>4, <2>1, <3>1 DEF ReloadOne, PinHolds, LoadsVerified, LoadedStep
  <2>2. CASE LoadSurvivor
    <3>1. exec.promotion \in 1..Len(promotions)
      BY <2>2 DEF LoadSurvivor, TypeInv, FrameOK, PromotionPCs
    <3> QED BY <2>1, <2>2, <3>1 DEF LoadSurvivor
  <2>3. CASE \E n \in Packs : ResolvePack(n)
    <3>1. \A n : InGroup(n, "active") \subseteq 1..Len(promotions) BY DEF InGroup, Group
    <3> QED BY <2>1, <2>3, <3>1 DEF ResolvePack, LoadedStep
  <2> QED
    BY <1>4, <2>2, <2>3
       DEF BootStep, Boot, CloseHealedTickets, OpenBootGap, HealLoading, ParkLoading,
           SupersedeAtBoot, LoadedStep
<1>5. CASE RetryStep BY <1>5 DEF RetryStep, Retry, Retrial, Requeue, LoadedStep
<1>6. CASE Crash BY <1>6 DEF LoadedStep
<1> QED BY <1>1, <1>2, <1>3, <1>4, <1>5, <1>6 DEF Next, Chassis

\* A marker is only written for a promotion that is still loading.
AppliedStep ==
  \/ UNCHANGED applied
  \/ Promote /\ applied' = applied \cup {promotions[exec.promotion].fork}

LEMMA NextApplied == ASSUME [Next]_vars PROVE AppliedStep
<1>1. CASE Chassis
  BY <1>1
     DEF Chassis, Patches, AdoptStep, DisableStep, RetryStep, BootStep, RecordVerdict,
         MarkPending, MarkAdopting, StartSweep, graph, RefuseParked, HashMismatch,
         Regate, RerunGates, AbortAfterGates, ForkLostOrConflict, LoadAndRecord,
         Promote, CloseAdoption, PromotionRecorder, MarkPromoted, SupersedePriorActive,
         PatchAborted, DisablePack, AddRollback, MarkDisabled, CloseDisable, Retry,
         Retrial, Requeue, Boot, CloseHealedTickets, OpenBootGap, LoadSurvivor,
         HealLoading, ParkLoading, SupersedeAtBoot, ResolvePack, AppliedStep
<1>2. CASE Authoring \/ Owner \/ Tampering \/ Crash \/ UNCHANGED vars
             \/ \E p \in Proposals : ProposalGatekeeper(p)
  BY <1>2 DEF Authoring, Owner, Tampering, SubmitProposal, RunTrial, RequestAdoption,
              ApproveAdoption, DenyAdoption, RequestDisable, ApproveDisable,
              TamperArtifacts, ProposalGatekeeper, Crash, graph, vars, AppliedStep
<1> QED BY <1>1, <1>2 DEF Next

\* The owner's and the history's variables.
RestOK ==
  /\ retries \in [Proposals -> Nat]
  /\ drafts \subseteq Proposals
  /\ held \in [Proposals -> Nat]
  /\ gaps \subseteq Nat \X Cases
  /\ tampered \subseteq Proposals
  /\ requests \in [Proposals -> Nat]
  /\ approved \subseteq Proposals
  /\ reconciled \subseteq Nat \X Cases
  /\ disables \in Nat
  /\ crashes \in Nat

LEMMA NextRest == ASSUME TypeInv, [Next]_vars PROVE RestOK'
<1>0. RestOK BY DEF TypeInv, TypeOK, RestOK
<1>1. CASE Authoring \/ Tampering \/ \E p \in Proposals : ProposalGatekeeper(p)
  <2>1. CASE \E p \in Proposals : RequestAdoption(p)
    BY <1>0, <2>1 DEF RestOK, RequestAdoption
  <2>2. CASE \E p \in Proposals : SubmitProposal(p) \/ RunTrial(p)
    BY <1>0, <2>2 DEF RestOK, SubmitProposal, RunTrial, history
  <2>3. CASE \E p \in Proposals : TamperArtifacts(p)
    BY <1>0, <2>3 DEF RestOK, TamperArtifacts, graph, history
  <2>4. CASE \E p \in Proposals : ProposalGatekeeper(p)
    BY <1>0, <2>4 DEF RestOK, ProposalGatekeeper, history
  <2> QED BY <1>1, <2>1, <2>2, <2>3, <2>4 DEF Authoring, Tampering
<1>2. CASE Owner
  <2>1. CASE \E p \in Proposals : ApproveAdoption(p)
    BY <1>0, <2>1 DEF RestOK, ApproveAdoption
  <2>2. CASE \E p \in Proposals : DenyAdoption(p)
    BY <1>0, <2>2 DEF RestOK, DenyAdoption, history
  <2>3. CASE \E i \in 1..Len(promotions) : RequestDisable(i)
    BY <1>0, <2>3 DEF RestOK, RequestDisable
  <2>4. CASE \E i \in 1..Len(promotions) : ApproveDisable(i)
    BY <1>0, <2>4 DEF RestOK, ApproveDisable, history
  <2> QED BY <1>2, <2>1, <2>2, <2>3, <2>4 DEF Owner
<1>3. CASE Patches \/ StartSweep \/ AdoptStep \/ DisableStep
  <2>1. UNCHANGED <<retries, held, gaps, tampered, drafts, history>>
    BY <1>3
       DEF Patches, RecordVerdict, MarkPending, MarkAdopting, StartSweep, graph,
           AdoptStep, RefuseParked, HashMismatch, Regate, RerunGates, AbortAfterGates,
           ForkLostOrConflict, LoadAndRecord, Promote, CloseAdoption, PromotionRecorder,
           MarkPromoted, SupersedePriorActive, PatchAborted, DisableStep, DisablePack,
           AddRollback, MarkDisabled, CloseDisable
  <2> QED BY <1>0, <2>1 DEF RestOK, history
<1>4. CASE RetryStep
  <2>1. CASE Retry BY <1>0, <2>1, RetriedIsAdoption DEF RestOK, Retry, history
  <2> QED BY <1>0, <1>4, <2>1 DEF RestOK, RetryStep, Retrial, Requeue, history
<1>5. CASE BootStep
  <2>1. UNCHANGED <<retries, held, tampered, drafts, requests, approved, disables, crashes>>
    BY <1>5 DEF BootStep, Boot, CloseHealedTickets, OpenBootGap, LoadSurvivor,
                HealLoading, ParkLoading, SupersedeAtBoot, ResolvePack, history
  <2>2. /\ gaps' \subseteq Nat \X Cases
        /\ \A i \in 1..Len(promotions) : i \in Nat
    <3>1. exec.pc = "gap" => exec.promotion \in Nat /\ exec.to \in Cases
      BY TableTypes DEF TypeInv, FrameOK, PromotionPCs
    <3>2. CASE OpenBootGap BY <1>0, <3>1, <3>2, TableTypes DEF RestOK, OpenBootGap
    <3>3. CASE UNCHANGED gaps BY <1>0, <3>3, TableTypes DEF RestOK
    <3> QED BY <1>5, <3>2, <3>3
            DEF BootStep, Boot, CloseHealedTickets, LoadSurvivor, HealLoading, ParkLoading,
                SupersedeAtBoot, ResolvePack
  <2>3. \A i \in 1..Len(promotions), c \in Cases :
          reconciled' = reconciled \cup {<<i, c>>} => reconciled' \subseteq Nat \X Cases
    BY <1>0, <2>2 DEF RestOK
  <2>4. CASE UNCHANGED reconciled BY <1>0, <2>1, <2>2, <2>4 DEF RestOK
  <2>5. CASE reconciled' \subseteq Nat \X Cases BY <1>0, <2>1, <2>2, <2>5 DEF RestOK
  <2>6. CASE \E n \in Packs : HealLoading(n) \/ ParkLoading(n)
    BY <2>3, <2>5, <2>6, LoadingOfPack DEF HealLoading, ParkLoading, Cases
  <2>7. CASE \E n \in Packs : SupersedeAtBoot(n)
    <3>1. PICK n \in Packs : SupersedeAtBoot(n) BY <2>7
    <3>2. LargestOf(InGroup(n, "active")) \in 1..Len(promotions)
      BY <3>1, SurvivorAtBoot
    <3> QED BY <2>3, <2>5, <3>1, <3>2 DEF SupersedeAtBoot, Cases
  <2>8. ASSUME NEW i \in 1..Len(promotions), NEW packs, ReloadOne(i, packs)
        PROVE  UNCHANGED reconciled \/ reconciled' \subseteq Nat \X Cases
    BY <2>3, <2>8 DEF ReloadOne, Cases
  <2>9. CASE LoadSurvivor
    <3>1. exec.promotion \in 1..Len(promotions)
      BY <2>9 DEF LoadSurvivor, TypeInv, FrameOK, PromotionPCs
    <3> QED BY <2>4, <2>5, <2>8, <2>9, <3>1 DEF LoadSurvivor
  <2>10. CASE \E n \in Packs : ResolvePack(n)
    <3>1. \A n : InGroup(n, "active") \subseteq 1..Len(promotions) BY DEF InGroup, Group
    <3> QED BY <2>4, <2>5, <2>8, <2>10, <3>1 DEF ResolvePack
  <2> QED BY <1>5, <2>4, <2>6, <2>7, <2>9, <2>10
          DEF BootStep, Boot, CloseHealedTickets, OpenBootGap, history
<1>6. CASE Crash BY <1>0, <1>6 DEF RestOK, Crash, graph
<1>7. CASE UNCHANGED vars BY <1>0, <1>7 DEF RestOK, vars, graph, history
<1> QED BY <1>1, <1>2, <1>3, <1>4, <1>5, <1>6, <1>7 DEF Next, Chassis

LEMMA NextHeldDisables ==
  ASSUME TypeInv, [Next]_vars PROVE heldDisables' \subseteq 1..Len(promotions)
<1>0. heldDisables \subseteq 1..Len(promotions) BY DEF TypeInv
<1>1. CASE Owner
  BY <1>0, <1>1 DEF Owner, ApproveAdoption, DenyAdoption, RequestDisable, ApproveDisable
<1>2. CASE Authoring \/ Tampering \/ Crash \/ UNCHANGED vars
             \/ \E p \in Proposals : ProposalGatekeeper(p)
  BY <1>0, <1>2 DEF Authoring, Tampering, SubmitProposal, RunTrial, RequestAdoption,
                    TamperArtifacts, ProposalGatekeeper, Crash, graph, vars
<1>3. CASE Chassis
  BY <1>0, <1>3
     DEF Chassis, Patches, AdoptStep, DisableStep, RetryStep, BootStep, RecordVerdict,
         MarkPending, MarkAdopting, StartSweep, graph, RefuseParked, HashMismatch,
         Regate, RerunGates, AbortAfterGates, ForkLostOrConflict, LoadAndRecord,
         Promote, CloseAdoption, PromotionRecorder, MarkPromoted, SupersedePriorActive,
         PatchAborted, DisablePack, AddRollback, MarkDisabled, CloseDisable, Retry,
         Retrial, Requeue, Boot, CloseHealedTickets, OpenBootGap, LoadSurvivor,
         HealLoading, ParkLoading, SupersedeAtBoot, ResolvePack
<1> QED BY <1>1, <1>2, <1>3 DEF Next

-----------------------------------------------------------------------------
(* Type correctness *)

LEMMA NextTicketsRefer ==
  ASSUME BaseInv, [Next]_vars PROVE TicketsRefer'
<1> USE DEF BaseInv
<1>1. /\ TicketsStep /\ TicketsKept /\ PromotionsKept
      /\ tickets' \in Seq(Tickets) /\ promotions' \in Seq(Promotions)
  BY NextTickets, NextPromotions, TicketsTyped, PromotionsTyped
<1>2. 1..Len(promotions) \subseteq 1..Len(promotions') BY <1>1, TablesGrow
<1>3. \A t \in 1..Len(tickets) :
        /\ tickets'[t].kind = "adopt" => tickets'[t].proposal \in Proposals
        /\ tickets'[t].kind = "disable" => tickets'[t].promotion \in 1..Len(promotions')
  BY <1>1, <1>2 DEF TicketsKept, TypeInv, TicketsRefer
<1>4. ASSUME NEW new \in Tickets, tickets' = Append(tickets, new),
             new.kind = "adopt" => new.proposal \in Proposals,
             new.kind = "disable" => new.promotion \in 1..Len(promotions')
      PROVE  TicketsRefer'
  <2>1. /\ Len(tickets') = Len(tickets) + 1 /\ tickets'[Len(tickets) + 1] = new
        /\ Len(tickets) \in Nat
    BY <1>4, OpeningTicket, TableTypes
  <2>2. \A t \in 1..Len(tickets') : t \in 1..Len(tickets) \/ t = Len(tickets) + 1
    BY <2>1
  <2> QED BY <1>3, <1>4, <2>1, <2>2 DEF TicketsRefer
<1>5. CASE Len(tickets') = Len(tickets) BY <1>3, <1>5 DEF TicketsRefer
<1>6. CASE \E p \in Proposals : OpensAdoption(p)
  BY <1>4, <1>6 DEF OpensAdoption, OpenAdoption, Tickets
<1>7. CASE \E i \in 1..Len(promotions) : OpensDisable(i)
  <2>1. PICK i \in 1..Len(promotions) : OpensDisable(i) BY <1>7
  <2>2. i \in Nat /\ i \in 1..Len(promotions') BY <1>2, TableTypes
  <2> QED BY <1>4, <2>1, <2>2 DEF OpensDisable, Tickets
<1>8. CASE \E t \in 1..Len(tickets), s \in TicketStates : SetTicket(t, s)
  BY <1>5, <1>8, SettingTicket
<1>9. CASE HealsTickets BY <1>5, <1>9, HealingTickets
<1> QED BY <1>1, <1>5, <1>6, <1>7, <1>8, <1>9 DEF TicketsStep

LEMMA NextPromotionsRefer ==
  ASSUME BaseInv, [Next]_vars PROVE PromotionsRefer'
<1> USE DEF BaseInv
<1>1. /\ PromotionsKept /\ ForksKept /\ promotions' \in Seq(Promotions)
      /\ forks' \in Seq(Forks) /\ (Len(promotions') = Len(promotions) \/ LoadAndRecord)
  BY NextPromotions, NextForks, PromotionsTyped, ForksTyped
<1>2. 1..Len(forks) \subseteq 1..Len(forks')
  BY <1>1, TableTypes DEF ForksKept
<1>3. \A i \in 1..Len(promotions) :
        /\ promotions'[i].fork \in 1..Len(forks')
        /\ forks'[promotions'[i].fork].proposal = promotions'[i].proposal
  BY <1>1, <1>2 DEF PromotionsKept, ForksKept, TypeInv, PromotionsRefer
<1>4. CASE Len(promotions') = Len(promotions) BY <1>3, <1>4 DEF PromotionsRefer
<1>5. CASE LoadAndRecord
  <2> DEFINE n == Len(promotions) + 1
  <2>1. /\ Len(promotions') = n /\ promotions'[n].proposal = exec.proposal
        /\ promotions'[n].fork \in TrialsOf(exec.proposal)
    BY <1>5, RecordingPromotion
  <2>2. /\ promotions'[n].fork \in 1..Len(forks)
        /\ forks[promotions'[n].fork].proposal = promotions'[n].proposal
    BY <2>1 DEF TrialsOf
  <2>3. /\ promotions'[n].fork \in 1..Len(forks')
        /\ forks'[promotions'[n].fork].proposal = promotions'[n].proposal
    BY <1>1, <1>2, <2>2 DEF ForksKept
  <2>4. \A i \in 1..Len(promotions') : i \in 1..Len(promotions) \/ i = n
    BY <2>1, TableTypes
  <2> QED BY <1>3, <2>3, <2>4 DEF PromotionsRefer
<1> QED BY <1>1, <1>4, <1>5

LEMMA InitTypes == ASSUME Init PROVE BaseInv
<1>1. exec = Idle /\ Len(tickets) = 0 /\ Len(promotions) = 0 /\ Len(forks) = 0
  BY DEF Init
<1>2. TypeOK BY <1>1, RestingFrames DEF Init, TypeOK, Statuses, Loads, Nothing
<1>3. FrameOK(exec, Adoptions, 1..Len(tickets), 1..Len(promotions))
  BY <1>1, RestingFrames
     DEF FrameOK, ProposalPCs, AdoptionPCs, DisablePCs, PromotionPCs, RecordPCs
<1>4. FrameFollows
  BY <1>1, RestingFrames DEF FrameFollows, RecordPCs, AdoptionPCs
<1> QED BY <1>1, <1>2, <1>3, <1>4
        DEF Init, BaseInv, TypeInv, TicketsRefer, PromotionsRefer

LEMMA NextTypes == ASSUME BaseInv, [Next]_vars PROVE TypeInv'
<1> USE DEF BaseInv
<1>1. /\ tickets' \in Seq(Tickets) /\ promotions' \in Seq(Promotions) /\ PromotionsKept
      /\ forks' \in Seq(Forks) /\ ForksKept
  BY NextTickets, NextPromotions, NextForks, TicketsTyped, PromotionsTyped, ForksTyped
<1>2. status' \in [Proposals -> Statuses]
  BY NextStatus DEF StatusStep, SetProposal, TypeInv, TypeOK
<1>3. loaded' \in [Packs -> Loads]
  <2>1. loaded \in [Packs -> Loads] /\ Nothing \in Loads
    BY DEF TypeInv, TypeOK, Nothing, Loads
  <2>2. \A p \in Proposals : [proposal |-> p, pinned |-> p \notin tampered] \in Loads
    BY DEF Loads
  <2> QED BY <2>1, <2>2, NextLoaded DEF LoadedStep, LoadsVerified, Crash
<1>4. 1..Len(forks) \subseteq 1..Len(forks')
      /\ 1..Len(promotions) \subseteq 1..Len(promotions')
  BY <1>1, TableTypes DEF ForksKept, PromotionsKept
<1>5. applied' \subseteq 1..Len(forks')
  <2>1. CASE UNCHANGED applied BY <1>4, <2>1 DEF TypeInv
  <2>2. CASE Promote /\ applied' = applied \cup {promotions[exec.promotion].fork}
    <3>1. promotions[exec.promotion].fork \in 1..Len(forks)
      BY <2>2 DEF Promote, TypeInv, FrameOK, PromotionPCs, RecordPCs, PromotionsRefer
    <3> QED BY <1>4, <2>2, <3>1 DEF TypeInv
  <2> QED BY <2>1, <2>2, NextApplied DEF AppliedStep
<1>6. heldDisables' \subseteq 1..Len(promotions') BY <1>4, NextHeldDisables
<1>7. FrameOK(exec', Adoptions', 1..Len(tickets'), 1..Len(promotions')) BY NextFrame
<1>8. RestOK' BY NextRest
<1>9. /\ exec' \in Frames /\ heldDisables' \subseteq Nat /\ applied' \subseteq Nat
  BY <1>1, <1>5, <1>6, <1>7 DEF FrameOK
<1>10. TypeOK' BY <1>1, <1>2, <1>3, <1>8, <1>9 DEF TypeOK, RestOK
<1>11. TicketsRefer' /\ PromotionsRefer' BY NextTicketsRefer, NextPromotionsRefer
<1> QED BY <1>5, <1>6, <1>7, <1>10, <1>11 DEF TypeInv, FrameOK

\* Where the frame has no promotion or ticket of a proposal there is nothing to follow.
LEMMA FollowsElsewhere ==
  ASSUME exec'.pc \notin AdoptionPCs, exec'.pc # "verdict" \/ exec'.ticket = 0
  PROVE  FrameFollows'
  BY DEF FrameFollows, AdoptionPCs, RecordPCs

\* A step inside one ticket's adoption keeps what it has at hand.
LEMMA SameAtHand ==
  ASSUME TypeInv, FrameFollows, TicketsKept, exec.pc \in AdoptionPCs,
         exec'.ticket = exec.ticket, exec'.proposal = exec.proposal
  PROVE  tickets'[exec'.ticket].proposal = exec'.proposal
<1>1. exec.ticket \in 1..Len(tickets) BY FrameFields DEF FrameHere, FrameOK, Adoptions
<1> QED BY <1>1 DEF FrameFollows, TicketsKept

LEMMA AdoptFollows ==
  ASSUME BaseInv, AdoptStep PROVE FrameFollows'
<1> USE DEF BaseInv
<1>0. [Next]_vars BY DEF Next, Chassis
<1>1. /\ TicketsKept /\ PromotionsKept /\ TicketsStep /\ PromotionsStep
      /\ exec.pc \in PromotionPCs => exec.promotion \in 1..Len(promotions)
  BY <1>0, NextTickets, NextPromotions, TicketsTyped, PromotionsTyped
     DEF TypeInv, FrameOK
<1>2. CASE exec'.pc \in {"ticket", "retry", "idle"}
  BY <1>2, FollowsElsewhere DEF AdoptionPCs
<1>3. ASSUME NEW again \in SUBSET Adoptions, NEW todo \in SUBSET (1..Len(tickets)),
             exec' = After(todo, again)
      PROVE  FrameFollows'
  BY <1>2, <1>3, AfterIsFrame
<1>4. CASE \E p \in Proposals : RefuseParked(p)
  BY <1>3, <1>4, FrameFields DEF RefuseParked
<1>5. CASE \E p \in Proposals : HashMismatch(p) \/ Regate(p)
  <2>1. PICK p \in Proposals : HashMismatch(p) \/ Regate(p) BY <1>5
  <2>2. exec.pc = "ticket" /\ p = tickets[Current].proposal
    BY <2>1 DEF HashMismatch, Regate, TakesAdoption
  <2>3. Current \in 1..Len(tickets) BY <2>2, CurrentIsTicket
  <2>4. /\ exec'.pc \in {"patch", "gates"} /\ exec'.ticket = Current /\ exec'.proposal = p
    <3>1. /\ Working("patch", p) \in Frames /\ Working("patch", p).pc = "patch"
          /\ Working("patch", p).ticket = Current /\ Working("patch", p).proposal = p
          /\ Working("gates", p).pc = "gates"
          /\ Working("gates", p).ticket = Current /\ Working("gates", p).proposal = p
      BY <2>2, WorkingFrames DEF PCs
    <3> QED BY <2>1, <3>1 DEF HashMismatch, Regate, Frames
  <2> QED BY <1>1, <2>2, <2>3, <2>4 DEF FrameFollows, TicketsKept, RecordPCs
\* The steps that leave the promotion alone.
<1>6. ASSUME exec.pc \in AdoptionPCs, NEW pc \in AdoptionPCs, NEW to,
             \/ exec' = [exec EXCEPT !.pc = pc]
             \/ exec' = [exec EXCEPT !.pc = pc, !.to = to]
      PROVE  /\ exec'.pc = pc /\ exec'.proposal = exec.proposal
             /\ exec'.promotion = exec.promotion /\ exec'.ticket = exec.ticket
             /\ tickets'[exec'.ticket].proposal = exec'.proposal
  <2>1. /\ exec'.pc = pc /\ exec'.proposal = exec.proposal
        /\ exec'.promotion = exec.promotion /\ exec'.ticket = exec.ticket
    BY <1>6, FrameFields DEF Frames
  <2> QED BY <1>1, <1>6, <2>1, SameAtHand
<1>7. CASE RerunGates \/ ForkLostOrConflict
  <2>1. exec.pc \in AdoptionPCs BY <1>7 DEF RerunGates, ForkLostOrConflict, AdoptionPCs
  <2>2. /\ exec'.pc \in {"fork", "abort", "patch"}
        /\ tickets'[exec'.ticket].proposal = exec'.proposal
    BY <1>6, <1>7, <2>1 DEF RerunGates, ForkLostOrConflict, AdoptionPCs
  <2> QED BY <2>2 DEF FrameFollows, RecordPCs
<1>8. CASE AbortAfterGates BY <1>3, <1>8, FrameFields DEF AbortAfterGates
<1>9. CASE LoadAndRecord
  <2>1. /\ exec'.pc = "promote" /\ exec'.promotion = Len(promotions) + 1
        /\ exec'.proposal = exec.proposal /\ exec'.ticket = exec.ticket
    BY <1>9, RecordingFrame
  <2>2. /\ promotions'[exec'.promotion].proposal = exec'.proposal
        /\ promotions'[exec'.promotion].status = "loading"
    BY <1>9, <2>1, RecordingPromotion
  <2>3. exec.pc \in AdoptionPCs BY <1>9 DEF LoadAndRecord, AdoptionPCs
  <2> QED BY <1>1, <2>1, <2>2, <2>3, SameAtHand DEF FrameFollows
<1>10. CASE Promote
  <2>1. /\ exec.pc = "promote" /\ exec.pc \in AdoptionPCs /\ UNCHANGED promotions
        /\ "done" \in AdoptionPCs /\ "patch" \in AdoptionPCs
    BY <1>10 DEF Promote, AdoptionPCs
  <2>2. CASE exec' = [exec EXCEPT !.pc = "done"]
    <3>1. applied' = applied \cup {promotions[exec.promotion].fork}
      <4>1. exec'.pc = "done" BY <1>6, <2>1, <2>2
      <4>2. CASE exec' = [exec EXCEPT !.pc = "patch", !.to = "conflict"]
        <5>1. exec'.pc = "patch" BY <1>6, <2>1, <4>2
        <5> QED BY <4>1, <5>1
      <4> QED BY <1>10, <4>2 DEF Promote
    <3>2. /\ exec'.pc = "done" /\ exec'.proposal = exec.proposal
          /\ exec'.promotion = exec.promotion
          /\ tickets'[exec'.ticket].proposal = exec'.proposal
      BY <1>6, <2>1, <2>2
    <3> QED BY <2>1, <3>1, <3>2 DEF FrameFollows, RecordPCs
  <2>3. CASE exec' = [exec EXCEPT !.pc = "patch", !.to = "conflict"]
    <3>1. exec'.pc = "patch" /\ tickets'[exec'.ticket].proposal = exec'.proposal
      BY <1>6, <2>1, <2>3
    <3> QED BY <3>1 DEF FrameFollows, RecordPCs
  <2> QED BY <1>10, <2>2, <2>3 DEF Promote
<1>11. CASE CloseAdoption
  <2>1. /\ exec.pc = "done" /\ exec' = [exec EXCEPT !.pc = "record"]
        /\ UNCHANGED <<promotions, applied>>
    BY <1>11 DEF CloseAdoption
  <2>2. /\ exec'.pc = "record" /\ exec'.proposal = exec.proposal
        /\ exec'.promotion = exec.promotion
        /\ tickets'[exec'.ticket].proposal = exec'.proposal
    BY <1>6, <2>1 DEF AdoptionPCs
  <2> QED BY <2>1, <2>2 DEF FrameFollows, RecordPCs
<1>12. CASE PromotionRecorder
  <2>1. /\ exec.pc = "record"
        /\ exec' = [exec EXCEPT !.pc = "promoted", !.proposal = exec.proposal]
    BY <1>12, RecordedAreLoading DEF PromotionRecorder
  <2>2. exec' = [exec EXCEPT !.pc = "promoted"] BY <2>1, FrameFields DEF Frames
  <2>3. /\ exec'.pc = "promoted" /\ exec'.proposal = exec.proposal
        /\ exec'.promotion = exec.promotion
        /\ tickets'[exec'.ticket].proposal = exec'.proposal
    BY <1>6, <2>1, <2>2 DEF AdoptionPCs
  <2>4. exec.promotion \in 1..Len(promotions)
    BY <1>1, <2>1 DEF PromotionPCs, RecordPCs
  <2> QED BY <1>1, <2>1, <2>3, <2>4 DEF FrameFollows, PromotionsKept, RecordPCs
<1>13. CASE MarkPromoted
  <2>1. exec.pc = "promoted" /\ UNCHANGED promotions BY <1>13 DEF MarkPromoted
  <2>2. CASE exec' = [exec EXCEPT !.pc = "supersede"] /\ Rivals(exec.promotion) # {}
    <3>1. /\ exec'.pc = "supersede" /\ exec'.proposal = exec.proposal
          /\ exec'.promotion = exec.promotion
          /\ tickets'[exec'.ticket].proposal = exec'.proposal
      BY <1>6, <2>1, <2>2 DEF AdoptionPCs
    <3>2. Rivals(exec.promotion)' = Rivals(exec.promotion)
      BY <2>1, <3>1 DEF Rivals, InGroup, Group, NameOf
    <3> QED BY <2>1, <2>2, <3>1, <3>2 DEF FrameFollows, RecordPCs
  <2> QED BY <1>3, <1>13, <2>2, FrameFields DEF MarkPromoted
<1>14. CASE SupersedePriorActive
  <2> DEFINE R == Rivals(exec.promotion)
             i == SmallestOf(R)
  <2>1. /\ exec.pc = "supersede" /\ SetPromotion(i, "disabled")
        /\ exec.promotion \in 1..Len(promotions)
    BY <1>1, <1>14 DEF SupersedePriorActive, PromotionPCs, RecordPCs
  <2>2. CASE exec' = exec /\ R # {i}
    <3>1. /\ i \in R /\ i \in 1..Len(promotions)
      BY <2>1, RivalOfPromotion DEF FrameFollows
    <3>2. PICK j \in R : j # i BY <2>2, <3>1
    <3>3. /\ j \in 1..Len(promotions) /\ promotions[j].status = "active"
          /\ NameOf(j) = NameOf(exec.promotion) /\ j # exec.promotion
      BY <3>2 DEF Rivals, InGroup, Group
    <3> HIDE DEF i, R
    <3>4. /\ promotions'[j].status = "active" /\ Len(promotions') = Len(promotions)
      BY <2>1, <3>1, <3>2, <3>3, SettingPromotion DEF PromotionStates
    <3>5. NameOf(j)' = NameOf(exec.promotion)'
      BY <1>1, <2>1, <2>2, <3>3 DEF NameOf, PromotionsKept
    <3>6. j \in Rivals(exec.promotion)'
      BY <2>2, <3>3, <3>4, <3>5 DEF Rivals, InGroup, Group
    <3>7. tickets'[exec'.ticket].proposal = exec'.proposal
      BY <1>1, <2>1, <2>2, SameAtHand DEF AdoptionPCs
    <3> QED BY <1>1, <2>1, <2>2, <3>6, <3>7 DEF FrameFollows, PromotionsKept, RecordPCs
  <2> QED BY <1>3, <1>14, <2>2, FrameFields DEF SupersedePriorActive
<1>15. CASE PatchAborted
  <2>1. exec.ticket \in Adoptions BY <1>15 DEF PatchAborted, TypeInv, FrameOK, AdoptionPCs
  <2> QED BY <1>3, <1>15, <2>1, FrameFields DEF PatchAborted
<1> QED BY <1>4, <1>5, <1>7, <1>8, <1>9, <1>10, <1>11, <1>12, <1>13, <1>14, <1>15
        DEF AdoptStep

LEMMA NextFollows ==
  ASSUME BaseInv, [Next]_vars PROVE FrameFollows'
<1> USE DEF BaseInv
<1>1. TicketsKept BY NextTickets, TicketsTyped
<1>2. CASE exec'.pc \in {"ticket", "retry", "idle", "down", "request", "adopting",
                         "boot", "close", "gap", "survivor"} \cup DisablePCs
  BY <1>2, FollowsElsewhere DEF AdoptionPCs, DisablePCs
<1>3. ASSUME NEW again \in SUBSET Adoptions, NEW todo \in SUBSET (1..Len(tickets)),
             exec' = After(todo, again)
      PROVE  FrameFollows'
  BY <1>2, <1>3, AfterIsFrame
<1>4. CASE Authoring \/ Owner \/ Tampering \/ (\E p \in Proposals : ProposalGatekeeper(p))
             \/ StartSweep \/ Crash
  <2>1. CASE StartSweep
    <3>1. OpenTickets \in SUBSET (1..Len(tickets)) BY DEF OpenTickets
    <3> QED BY <1>3, <2>1, <3>1 DEF StartSweep
  <2>2. CASE \E p \in Proposals : RunTrial(p)
    <3>1. PICK p \in Proposals : RunTrial(p) BY <2>2
    <3>2. CASE exec' = [exec EXCEPT !.pc = "verdict", !.proposal = p]
      <4>1. exec = Idle BY <3>1 DEF RunTrial
      <4>2. exec'.pc = "verdict" /\ exec'.ticket = 0
        BY <3>2, <4>1, RestingFrames DEF Frames
      <4> QED BY <4>2, FollowsElsewhere DEF AdoptionPCs
    <3> QED BY <1>3, <3>1, <3>2, FrameFields DEF RunTrial, TrialOutcome
  <2>3. CASE exec' = exec /\ exec = Idle BY <1>2, <2>3, RestingFrames
  <2>4. CASE Crash BY <1>2, <2>4, RestingFrames DEF Crash
  <2>5. CASE \E p \in Proposals, pc \in {"request", "adopting"} :
               exec' = [Idle EXCEPT !.pc = pc, !.proposal = p]
    BY <1>2, <2>5, RestingFrames DEF Frames
  <2> QED BY <1>4, <2>1, <2>2, <2>3, <2>4, <2>5
          DEF Authoring, SubmitProposal, RequestAdoption, Owner, ApproveAdoption,
              DenyAdoption, RequestDisable, ApproveDisable, Tampering, TamperArtifacts,
              ProposalGatekeeper
<1>5. CASE UNCHANGED vars
  <2>1. UNCHANGED <<exec, promotions, applied, tickets>> BY <1>5 DEF vars, graph
  <2>2. Rivals(exec.promotion)' = Rivals(exec.promotion)
    BY <2>1 DEF Rivals, InGroup, Group, NameOf
  <2> QED BY <2>1, <2>2 DEF FrameFollows
<1>6. CASE Patches
  <2>1. CASE exec' = Idle BY <1>2, <2>1, RestingFrames
  <2>2. CASE RecordVerdict /\ exec.ticket # 0
    <3>1. exec.pc = "verdict" /\ exec' = [exec EXCEPT !.pc = "requeue"]
      BY <2>2 DEF RecordVerdict
    <3>2. /\ exec'.pc = "requeue" /\ exec'.proposal = exec.proposal
          /\ exec'.ticket = exec.ticket
      BY <3>1, GoesOn DEF PCs
    <3>3. exec.ticket \in 1..Len(tickets)
      BY <2>2, <3>1 DEF TypeInv, FrameOK, Adoptions
    <3> QED BY <1>1, <2>2, <3>1, <3>2, <3>3 DEF FrameFollows, TicketsKept, RecordPCs
  <2> QED BY <1>6, <2>1, <2>2 DEF Patches, RecordVerdict, MarkPending, MarkAdopting
<1>7. CASE DisableStep
  <2>1. CASE \E i \in 1..Len(promotions) : DisablePack(i)
    <3>1. PICK i \in 1..Len(promotions) : DisablePack(i) BY <2>1
    <3>2. CASE exec' = [Working("rollback", promotions[i].proposal) EXCEPT !.promotion = i]
      <4>1. exec'.pc = "rollback" BY <3>1, <3>2, RollbackFrame DEF DisablePack
      <4> QED BY <1>2, <4>1 DEF DisablePCs
    <3> QED BY <1>3, <3>1, <3>2, FrameFields DEF DisablePack
  <2>2. CASE AddRollback \/ MarkDisabled
    <3>1. "undo" \in PCs /\ "closed" \in PCs BY DEF PCs
    <3>2. exec'.pc = "undo" \/ exec'.pc = "closed"
      BY <2>2, <3>1, GoesOn DEF AddRollback, MarkDisabled
    <3> QED BY <1>2, <3>2 DEF DisablePCs
  <2>3. CASE CloseDisable BY <1>3, <2>3, FrameFields DEF CloseDisable
  <2> QED BY <1>7, <2>1, <2>2, <2>3 DEF DisableStep
<1>8. CASE RetryStep
  <2>1. CASE Retry
    <3> DEFINE t == SmallestOf(exec.again)
               p == tickets[t].proposal
    <3>1. t \in Adoptions /\ p \in Proposals BY <2>1, RetriedIsAdoption DEF Retry
    <3> HIDE DEF t
    <3>2. CASE exec' = [Idle EXCEPT !.pc = "retrial", !.ticket = t,
                                    !.again = exec.again \ {t}, !.proposal = p]
      <4>1. exec'.pc = "retrial" /\ exec'.proposal = p /\ exec'.ticket = t
        BY <3>2, RestingFrames DEF Frames
      <4>2. tickets' = tickets BY <2>1 DEF Retry
      <4> QED BY <4>1, <4>2 DEF FrameFollows, RecordPCs
    <3>3. {} \in SUBSET (1..Len(tickets)) /\ exec.again \ {t} \in SUBSET Adoptions
      BY FrameFields
    <3> QED BY <1>3, <2>1, <3>2, <3>3 DEF Retry, t
  <2>2. CASE Retrial
    <3>1. CASE exec' = [exec EXCEPT !.pc = "verdict", !.proposal = exec.proposal]
      <4>1. /\ exec'.pc = "verdict" /\ exec'.proposal = exec.proposal
            /\ exec'.ticket = exec.ticket
        BY <3>1, FrameFields DEF Frames
      <4>2. exec.pc = "retrial" /\ tickets' = tickets BY <2>2 DEF Retrial
      <4> QED BY <4>1, <4>2 DEF FrameFollows, AdoptionPCs, RecordPCs
    <3> QED BY <1>3, <2>2, <3>1, FrameFields DEF Retrial, TrialOutcome
  <2>3. CASE Requeue BY <1>3, <2>3, FrameFields DEF Requeue
  <2> QED BY <1>8, <2>1, <2>2, <2>3 DEF RetryStep
<1>9. CASE BootStep
  <2>1. exec'.pc \in {"idle", "boot", "close", "gap", "survivor"} BY <1>9, BootStepPlaces
  <2> QED BY <1>2, <2>1
<1> QED BY <1>4, <1>5, <1>6, <1>7, <1>8, <1>9, AdoptFollows DEF Next, Chassis

LEMMA BaseInvariant == Spec => []BaseInv
<1>1. Init => BaseInv BY InitTypes
<1>2. BaseInv /\ [Next]_vars => BaseInv' BY NextTypes, NextFollows DEF BaseInv
<1> QED BY <1>1, <1>2, PTL DEF Spec

\* Every value the program keeps has its type, and what the thread, the tickets and
\* the promotions refer to is in the graph.
THEOREM TypeCorrect == Spec => []TypeOK
<1>1. BaseInv => TypeOK BY DEF BaseInv, TypeInv
<1> QED BY <1>1, BaseInvariant, PTL

-----------------------------------------------------------------------------
(* The promotions' life *)

LEMMA AppliedGrows == ASSUME [Next]_vars PROVE applied \subseteq applied'
  BY NextApplied DEF AppliedStep

LEMMA PromotionLife ==
  ASSUME BaseInv, [Next]_vars
  PROVE  /\ \A i \in 1..Len(promotions) :
              \/ promotions'[i].status = promotions[i].status
              \/ promotions'[i].status = "disabled"
              \/ /\ promotions'[i].status = "active" /\ promotions[i].status = "loading"
                 /\ promotions[i].fork \in applied
                 /\ \/ PromotionRecorder /\ NameOf(i) = NameOf(exec.promotion)
                    \/ \E n \in Packs : HealLoading(n) /\ n = NameOf(i)
         /\ \A i \in 1..Len(promotions') :
              i \in 1..Len(promotions) \/ promotions'[i].status = "loading"
<1> USE DEF BaseInv
<1>1. Len(promotions) \in Nat BY TableTypes
<1>2. CASE UNCHANGED promotions BY <1>2
<1>3. CASE \E i \in 1..Len(promotions) : Activates(i) \/ SetPromotion(i, "disabled")
  BY <1>3, SettingPromotion DEF Activates, PromotionStates
<1>4. CASE LoadAndRecord
  <2>1. /\ Len(promotions') = Len(promotions) + 1
        /\ promotions'[Len(promotions) + 1].status = "loading"
        /\ \A i \in 1..Len(promotions) : promotions'[i] = promotions[i]
    BY <1>4, RecordingPromotion
  <2>2. \A i \in 1..Len(promotions') : i \in 1..Len(promotions) \/ i = Len(promotions) + 1
    BY <1>1, <2>1
  <2> QED BY <2>1, <2>2
<1>5. CASE AddRollback BY <1>5, RollingBack
<1>6. CASE \E n \in Packs : SupersedeAtBoot(n) BY <1>6, SupersedingAtBoot
<1> QED BY <1>2, <1>3, <1>4, <1>5, <1>6, NextPromotions DEF PromotionsStep

AppliedInv == BaseInv /\ ActiveMeansApplied

\* "Heal never guesses": through any number of crashes, retries and heals, an active
\* promotion's state delta is in the graph.
THEOREM ActiveImpliesApplied == Spec => []ActiveMeansApplied
<1>1. Init => AppliedInv BY InitTypes DEF Init, AppliedInv, ActiveMeansApplied
<1>2. ASSUME AppliedInv, [Next]_vars PROVE AppliedInv'
  <2>1. BaseInv /\ ActiveMeansApplied BY <1>2 DEF AppliedInv
  <2>2. BaseInv' BY <1>2, <2>1, NextTypes, NextFollows DEF BaseInv
  <2>3. PromotionsKept /\ applied \subseteq applied'
    BY <1>2, <2>1, NextPromotions, PromotionsTyped, AppliedGrows DEF BaseInv
  <2>4. ActiveMeansApplied'
    BY <1>2, <2>1, <2>3, PromotionLife DEF ActiveMeansApplied, PromotionsKept
  <2> QED BY <2>2, <2>4 DEF AppliedInv
<1>3. AppliedInv => ActiveMeansApplied BY DEF AppliedInv
<1> QED BY <1>1, <1>2, <1>3, PTL DEF Spec

\* A disabled promotion never comes back: no retry, recorder or heal revives it.
THEOREM DisabledStaysDisabled == Spec => DisabledIsFinal
<1>1. BaseInv /\ [Next]_vars =>
        [\A i \in 1..Len(promotions) :
           promotions[i].status = "disabled" => promotions'[i].status = "disabled"]_vars
  BY PromotionLife
<1> QED BY <1>1, BaseInvariant, PTL DEF Spec, DisabledIsFinal

-----------------------------------------------------------------------------
(* One active promotion *)

\* Who may step where the thread is.
LEMMA WhoSteps ==
  ASSUME [Next]_vars
  PROVE  /\ exec.pc \in {"promoted", "supersede"} =>
              MarkPromoted \/ SupersedePriorActive \/ Crash \/ UNCHANGED vars
         /\ exec.pc \in BootPCs \cup {"down"} => BootStep \/ Crash \/ UNCHANGED vars
         /\ BootStep => exec.pc \in BootPCs \cup {"down"}
<1>1. Authoring \/ Owner \/ Tampering \/ (\E p \in Proposals : ProposalGatekeeper(p))
        \/ StartSweep => exec.pc = "idle"
  BY RestingFrames
     DEF Authoring, Owner, Tampering, SubmitProposal, RunTrial, RequestAdoption,
         ApproveAdoption, DenyAdoption, RequestDisable, ApproveDisable, TamperArtifacts,
         ProposalGatekeeper, StartSweep
<1>2. AdoptStep => \/ MarkPromoted \/ SupersedePriorActive
                   \/ exec.pc \notin BootPCs \cup {"down", "promoted", "supersede"}
  BY DEF AdoptStep, RefuseParked, HashMismatch, Regate, TakesAdoption, RerunGates,
         AbortAfterGates, ForkLostOrConflict, LoadAndRecord, Promote, CloseAdoption,
         PromotionRecorder, PatchAborted, BootPCs
<1>3. Patches \/ DisableStep \/ RetryStep
        => exec.pc \notin BootPCs \cup {"down", "promoted", "supersede"}
  BY DEF Patches, RecordVerdict, MarkPending, MarkAdopting, DisableStep, DisablePack,
         AddRollback, MarkDisabled, CloseDisable, RetryStep, Retry, Retrial, Requeue,
         BootPCs
<1>4. BootStep => exec.pc \in BootPCs \cup {"down"}
  BY DEF BootStep, Boot, CloseHealedTickets, OpenBootGap, LoadSurvivor, HealLoading,
         ParkLoading, SupersedeAtBoot, ResolvePack, BootPCs
<1>5. MarkPromoted \/ SupersedePriorActive => exec.pc \notin BootPCs \cup {"down"}
  BY DEF MarkPromoted, SupersedePriorActive, BootPCs
<1> QED BY <1>1, <1>2, <1>3, <1>4, <1>5 DEF Next, Chassis, BootPCs

\* Only boot's own steps lead to its places, and only a crash stops the process.
LEMMA BootPlaces ==
  ASSUME TypeInv, [Next]_vars, ~ BootStep, ~ Crash, ~ UNCHANGED vars
  PROVE  exec'.pc \notin BootPCs \cup {"down"}
<1> USE DEF BootPCs
<1>1. \A todo, again : After(todo, again).pc \in {"ticket", "retry", "idle"}
  BY DEF After, Idle
<1>2. exec \in Frames BY FrameFields
<1>3. CASE \E todo, again : exec' = After(todo, again) BY <1>1, <1>3
<1>4. CASE Authoring \/ Owner \/ Tampering \/ StartSweep
             \/ \E p \in Proposals : ProposalGatekeeper(p)
  <2>1. CASE exec = Idle /\ exec' = exec BY <2>1, RestingFrames
  <2>2. CASE \E p \in Proposals : RunTrial(p)
    BY <1>1, <1>2, <2>2 DEF RunTrial, TrialOutcome, Frames
  <2>3. CASE \E p \in Proposals : RequestAdoption(p)
    BY <2>3, RestingFrames DEF RequestAdoption, Frames
  <2>4. CASE \E p \in Proposals : ApproveAdoption(p)
    <3>1. PICK p \in Proposals : ApproveAdoption(p) BY <2>4
    <3>2. CASE exec' = [Idle EXCEPT !.pc = "adopting", !.proposal = p]
      <4>1. exec'.pc = "adopting" BY <3>2, RestingFrames DEF Frames
      <4> QED BY <4>1
    <3> QED BY <2>1, <3>1, <3>2 DEF ApproveAdoption
  <2>5. CASE StartSweep BY <1>1, <2>5 DEF StartSweep
  <2> QED BY <1>4, <2>1, <2>2, <2>3, <2>4, <2>5
          DEF Authoring, SubmitProposal, Owner, DenyAdoption, RequestDisable,
              ApproveDisable, Tampering, TamperArtifacts, ProposalGatekeeper
<1>5. CASE Patches \/ RetryStep
  <2>1. CASE Patches
    BY <1>2, <2>1, RestingFrames
       DEF Patches, RecordVerdict, MarkPending, MarkAdopting, Frames
  <2>2. CASE Retry
    <3>1. \/ exec' = After({}, exec.again \ {SmallestOf(exec.again)})
          \/ exec' = [Idle EXCEPT !.pc = "retrial", !.ticket = SmallestOf(exec.again),
                        !.again = exec.again \ {SmallestOf(exec.again)},
                        !.proposal = tickets[SmallestOf(exec.again)].proposal]
      BY <2>2 DEF Retry
    <3> QED BY <1>1, <3>1, RestingFrames DEF Frames
  <2>3. CASE Retrial
    BY <1>2, <1>3, <2>3 DEF Retrial, TrialOutcome, Frames
  <2>4. CASE Requeue BY <1>3, <2>4 DEF Requeue
  <2> QED BY <1>5, <2>1, <2>2, <2>3, <2>4 DEF RetryStep
<1>6. CASE AdoptStep
  <2>1. CASE SupersedePriorActive BY <1>1, <2>1 DEF SupersedePriorActive
  <2>2. CASE \E p \in Proposals : RefuseParked(p) \/ HashMismatch(p) \/ Regate(p)
    BY <1>1, <1>2, <2>2 DEF RefuseParked, HashMismatch, Regate, Working, Frames
  <2>3. CASE RerunGates \/ AbortAfterGates \/ ForkLostOrConflict \/ PatchAborted
    BY <1>1, <1>2, <2>3
       DEF RerunGates, AbortAfterGates, ForkLostOrConflict, PatchAborted, Frames
  <2>4. CASE LoadAndRecord \/ Promote \/ CloseAdoption
    BY <1>1, <1>2, <2>4 DEF LoadAndRecord, Promote, CloseAdoption, Frames
  <2>5. CASE PromotionRecorder \/ MarkPromoted
    BY <1>1, <1>2, <2>5 DEF PromotionRecorder, MarkPromoted, Frames
  <2> QED BY <1>6, <2>1, <2>2, <2>3, <2>4, <2>5 DEF AdoptStep
<1>7. CASE DisableStep
  <2>1. CASE \E i \in 1..Len(promotions) : DisablePack(i)
    BY <1>1, <1>2, <2>1 DEF DisablePack, Working, Frames
  <2>2. CASE AddRollback BY <1>2, <2>2 DEF AddRollback, Frames
  <2>3. CASE MarkDisabled BY <1>2, <2>3 DEF MarkDisabled, Frames
  <2>4. CASE CloseDisable BY <1>1, <2>4 DEF CloseDisable
  <2> QED BY <1>7, <2>1, <2>2, <2>3, <2>4 DEF DisableStep
<1> QED BY <1>4, <1>5, <1>6, <1>7 DEF Next, Chassis

AtMostOne(n) == \A i, j \in InGroup(n, "active") : i = j
\* Where more than one may be active for a while: between the recorder and the last
\* superseding, and until boot has resolved the pack.
Unsettled(n) ==
  \/ exec.pc \in {"promoted", "supersede"} /\ n = NameOf(exec.promotion)
  \/ exec.pc = "down"
  \/ exec.pc \in BootPCs /\ n \in exec.packs
     /\ ~(exec.pc \in {"gap", "survivor"} /\ exec.to = "superseded"
             /\ n = NameOf(exec.promotion))
OneActiveInv ==
  /\ \A n \in Packs : AtMostOne(n) \/ Unsettled(n)
  /\ exec.pc = "survivor" => exec.to = "superseded"
  /\ exec.pc = "close" => exec.to = "healed"

LEMMA FewAreOne ==
  ASSUME TypeInv, NEW n
  PROVE  Cardinality(InGroup(n, "active")) <= 1 <=> AtMostOne(n)
<1> DEFINE S == InGroup(n, "active")
<1>1. S \subseteq 1..Len(promotions) /\ Len(promotions) \in Nat
  BY TableTypes DEF InGroup, Group
<1>2. IsFiniteSet(S)
  <2>1. IsFiniteSet(1..Len(promotions)) BY <1>1, FS_Interval
  <2> QED BY <1>1, <2>1, FS_Subset
<1> HIDE DEF S
<1>3. Cardinality(S) \in Nat BY <1>2, FS_CardinalityType
<1>4. ASSUME Cardinality(S) <= 1 PROVE \A i, j \in S : i = j
  <2>1. CASE Cardinality(S) = 0 BY <1>2, <2>1, FS_EmptySet
  <2>2. CASE Cardinality(S) = 1 BY <1>2, <2>2, FS_Singleton
  <2> QED BY <1>3, <1>4, <2>1, <2>2
<1>5. ASSUME \A i, j \in S : i = j PROVE Cardinality(S) <= 1
  <2>1. CASE S = {} BY <2>1, FS_EmptySet
  <2>2. CASE S # {}
    <3>1. PICK x \in S : TRUE BY <2>2
    <3>2. S = {x} BY <1>5, <3>1
    <3> QED BY <3>2, FS_Singleton
  <2> QED BY <2>1, <2>2
<1> QED BY <1>4, <1>5 DEF S, AtMostOne

LEMMA SeveralOrFew ==
  ASSUME TypeInv, NEW n
  PROVE  Cardinality(InGroup(n, "active")) >= 2 \/ Cardinality(InGroup(n, "active")) <= 1
<1>1. InGroup(n, "active") \subseteq 1..Len(promotions) /\ Len(promotions) \in Nat
  BY TableTypes DEF InGroup, Group
<1>2. Cardinality(InGroup(n, "active")) \in Nat
  <2>1. IsFiniteSet(1..Len(promotions)) BY <1>1, FS_Interval
  <2>2. IsFiniteSet(InGroup(n, "active")) BY <1>1, <2>1, FS_Subset
  <2> QED BY <2>2, FS_CardinalityType
<1> QED BY <1>2

\* What is active stays the same or shrinks, but for the recorder and the heal.
LEMMA ActiveShrinks ==
  ASSUME BaseInv, [Next]_vars, NEW n,
         ~ (PromotionRecorder /\ n = NameOf(exec.promotion)), n \in Packs => ~ HealLoading(n)
  PROVE  InGroup(n, "active")' \subseteq InGroup(n, "active")
<1>1. PromotionsKept /\ promotions' \in Seq(Promotions)
  BY NextPromotions, PromotionsTyped DEF BaseInv
<1>2. ASSUME NEW i \in InGroup(n, "active")' PROVE i \in InGroup(n, "active")
  <2>1. /\ i \in 1..Len(promotions') /\ promotions'[i].status = "active"
        /\ PackOf[promotions'[i].proposal] = n
    BY <1>2 DEF InGroup, Group, NameOf
  <2>2. i \in 1..Len(promotions) BY <2>1, PromotionLife
  <2>3. NameOf(i) = n BY <1>1, <2>1, <2>2 DEF PromotionsKept, NameOf
  <2>4. promotions[i].status = "active" BY <2>1, <2>2, <2>3, PromotionLife
  <2> QED BY <2>2, <2>3, <2>4 DEF InGroup, Group
<1> QED BY <1>2

LEMMA OneActiveNext ==
  ASSUME BaseInv, OneActiveInv, [Next]_vars, NEW n \in Packs
  PROVE  AtMostOne(n)' \/ Unsettled(n)'
<1>0. /\ TypeInv /\ PromotionsKept
      /\ \A i \in 1..Len(promotions) : NameOf(i)' = NameOf(i)
      /\ exec.pc \in PromotionPCs => exec.promotion \in 1..Len(promotions)
  BY NextPromotions, PromotionsTyped DEF BaseInv, PromotionsKept, NameOf, TypeInv, FrameOK
<1>1. CASE Crash BY <1>1, RestingFrames DEF Crash, Unsettled
<1>2. CASE PromotionRecorder /\ n = NameOf(exec.promotion)
  <2>1. /\ exec.pc = "record" /\ exec.promotion \in 1..Len(promotions)
        /\ exec'.pc = "promoted" /\ exec'.promotion = exec.promotion
    BY <1>0, <1>2, FrameFields DEF PromotionRecorder, Frames, PromotionPCs, RecordPCs
  <2> QED BY <1>0, <1>2, <2>1 DEF Unsettled, NameOf
<1>3. CASE HealLoading(n)
  <2>1. exec'.pc = "close" /\ exec'.packs = exec.packs /\ n \in exec.packs
    BY <1>3, AnnouncedFrame DEF HealLoading
  <2> QED BY <2>1 DEF Unsettled, BootPCs
<1>4. CASE ~ (PromotionRecorder /\ n = NameOf(exec.promotion)) /\ ~ HealLoading(n) /\ ~ Crash
  <2>1. InGroup(n, "active")' \subseteq InGroup(n, "active") BY <1>4, ActiveShrinks
  <2>2. CASE AtMostOne(n) BY <2>1, <2>2 DEF AtMostOne
  <2>3. CASE UNCHANGED vars /\ Unsettled(n)
    <3>1. UNCHANGED <<exec, promotions>> BY <2>3 DEF vars, graph
    <3> QED BY <2>3, <3>1 DEF Unsettled, NameOf
  <2>4. CASE /\ exec.pc \in {"promoted", "supersede"} /\ n = NameOf(exec.promotion)
             /\ MarkPromoted \/ SupersedePriorActive
    <3> DEFINE m == exec.promotion
    <3>1. m \in 1..Len(promotions) BY <1>0, <2>4 DEF PromotionPCs, RecordPCs
    <3>2. CASE InGroup(n, "active")' \subseteq {m} BY <3>2 DEF AtMostOne
    <3>3. CASE exec'.pc = "supersede" /\ exec'.promotion = m
      BY <1>0, <2>4, <3>1, <3>3 DEF Unsettled, NameOf
    <3>4. CASE MarkPromoted
      <4>1. CASE Rivals(m) = {}
        <5>1. InGroup(n, "active") \subseteq {m} BY <2>4, <4>1 DEF Rivals
        <5> QED BY <2>1, <3>2, <5>1
      <4>2. CASE exec' = [exec EXCEPT !.pc = "supersede"]
        BY <3>3, <4>2, GoesOn DEF PCs
      <4> QED BY <3>4, <4>1, <4>2 DEF MarkPromoted
    <3>5. CASE SupersedePriorActive
      <4> DEFINE i == SmallestOf(Rivals(m))
      <4>1. CASE Rivals(m) = {i}
        <5>1. i \in 1..Len(promotions)
          BY <3>5, <1>0, RivalOfPromotion DEF SupersedePriorActive, BaseInv, FrameFollows
        <5>2. SetPromotion(i, "disabled") BY <3>5 DEF SupersedePriorActive
        <5> HIDE DEF i
        <5>3. promotions'[i].status = "disabled"
          BY <1>0, <5>1, <5>2, SettingPromotion DEF PromotionStates
        <5>4. i \notin InGroup(n, "active")' BY <5>3 DEF InGroup
        <5>5. InGroup(n, "active") \subseteq {m, i} BY <2>4, <4>1 DEF Rivals
        <5> QED BY <2>1, <3>2, <5>4, <5>5
      <4>2. CASE exec' = exec BY <3>3, <3>5, <4>2 DEF SupersedePriorActive
      <4> QED BY <3>5, <4>1, <4>2 DEF SupersedePriorActive
    <3> QED BY <2>4, <3>4, <3>5
  <2>5. CASE Unsettled(n) /\ BootStep
    <3> USE DEF BootPCs
    <3>1. CASE Boot
      <4>1. exec'.pc = "boot" /\ exec'.packs = Packs
        BY <3>1, RestingFrames DEF Boot, Frames
      <4> QED BY <4>1 DEF Unsettled
    <3>2. n \in exec.packs \/ Boot
      BY <2>5, WhoSteps DEF Unsettled, BootStep, CloseHealedTickets, OpenBootGap,
         LoadSurvivor, HealLoading, ParkLoading, SupersedeAtBoot, ResolvePack
    <3>3. CASE CloseHealedTickets /\ n \in exec.packs
      <4>1. /\ exec.pc = "close" /\ exec'.pc = "gap" /\ exec'.packs = exec.packs
            /\ exec'.to = exec.to
        BY <3>3, GoesOn, <1>0 DEF CloseHealedTickets, PCs
      <4> QED BY <3>3, <4>1 DEF OneActiveInv, Unsettled
    <3>4. ASSUME NEW packs, n \in packs, exec' = Remaining(packs) PROVE Unsettled(n)'
      <4>1. exec'.pc = "boot" /\ exec'.packs = packs
        BY <3>4 DEF Remaining, Down, Idle
      <4> QED BY <3>4, <4>1 DEF Unsettled
    <3>5. ASSUME NEW i, NEW c, NEW packs, n \in packs,
                 exec' = Announce(i, c, packs), c # "superseded" \/ NameOf(i)' # n
          PROVE  Unsettled(n)'
      <4>1. /\ exec'.pc = "gap" /\ exec'.packs = packs /\ exec'.to = c
            /\ exec'.promotion = i
        BY <3>5, AnnouncedFrame
      <4> QED BY <3>5, <4>1 DEF Unsettled, NameOf
    <3>6. ASSUME NEW i, NEW packs, n \in packs, ReloadOne(i, packs)
          PROVE  Unsettled(n)'
      BY <3>4, <3>5, <3>6 DEF ReloadOne
    <3>7. CASE OpenBootGap /\ n \in exec.packs
      <4>1. CASE exec' = [exec EXCEPT !.pc = "survivor"] /\ exec.to = "superseded"
        <5>1. /\ exec'.pc = "survivor" /\ exec'.packs = exec.packs
              /\ exec'.promotion = exec.promotion /\ exec'.to = exec.to
          BY <4>1, GoesOn, <1>0 DEF PCs
        <5>2. exec.pc = "gap" BY <3>7 DEF OpenBootGap
        <5>3. n # NameOf(exec.promotion) /\ exec.promotion \in 1..Len(promotions)
          BY <1>0, <2>5, <4>1, <5>2 DEF Unsettled, PromotionPCs
        <5> QED BY <1>0, <3>7, <5>1, <5>3 DEF Unsettled, NameOf
      <4> QED BY <3>4, <3>7, <4>1 DEF OpenBootGap
    <3>8. CASE LoadSurvivor
      <4>1. /\ exec.pc = "survivor" /\ exec.to = "superseded"
            /\ ReloadOne(exec.promotion, exec.packs \ {NameOf(exec.promotion)})
        BY <3>8 DEF LoadSurvivor, OneActiveInv
      <4>2. n \in exec.packs \ {NameOf(exec.promotion)}
        BY <2>5, <4>1 DEF Unsettled
      <4> QED BY <3>6, <4>1, <4>2
    <3>9. CASE \E m \in Packs : HealLoading(m) \/ ParkLoading(m)
      <4>1. PICK m \in Packs : HealLoading(m) \/ ParkLoading(m) BY <3>9
      <4>2. n \in exec.packs BY <3>2, <4>1 DEF HealLoading, ParkLoading, Boot
      <4>3. CASE HealLoading(m)
        <5>1. exec'.pc = "close" /\ exec'.packs = exec.packs
          BY <4>3, AnnouncedFrame DEF HealLoading
        <5> QED BY <4>2, <5>1 DEF Unsettled
      <4>4. CASE ParkLoading(m) BY <3>5, <4>2, <4>4 DEF ParkLoading
      <4> QED BY <4>1, <4>3, <4>4
    <3>10. CASE \E m \in Packs : SupersedeAtBoot(m)
      <4>1. PICK m \in Packs : SupersedeAtBoot(m) BY <3>10
      <4>2. PICK i \in 1..Len(promotions) :
               i = LargestOf(InGroup(m, "active")) /\ i \in InGroup(m, "active")
        BY <1>0, <4>1, SurvivorAtBoot
      <4>3. CASE m = n
        <5>1. \A j \in InGroup(m, "active") \ {i} : promotions'[j].status = "disabled"
          BY <1>0, <4>1, <4>2, SupersedingAtBoot DEF InGroup, Group
        <5>2. InGroup(n, "active")' \subseteq {i}
          BY <2>1, <4>3, <5>1 DEF InGroup
        <5> QED BY <5>2 DEF AtMostOne
      <4>4. CASE m # n
        <5>1. NameOf(i) = m BY <4>2 DEF InGroup, Group
        <5>2. NameOf(i)' # n BY <1>0, <4>2, <4>4, <5>1
        <5>3. exec.pc = "boot" BY <4>1 DEF SupersedeAtBoot
        <5>4. n \in exec.packs BY <2>5, <5>3 DEF Unsettled
        <5>5. exec' = Announce(i, "superseded", exec.packs) BY <4>1, <4>2 DEF SupersedeAtBoot
        <5> QED BY <3>5, <5>2, <5>4, <5>5
      <4> QED BY <4>3, <4>4
    <3>11. CASE \E m \in Packs : ResolvePack(m)
      <4>1. PICK m \in Packs : ResolvePack(m) BY <3>11
      <4>2. CASE m = n
        <5>1. ~ (Cardinality(InGroup(n, "active")) >= 2)
          BY <4>1, <4>2 DEF ResolvePack, SeveralActive
        <5>2. AtMostOne(n) BY <1>0, <5>1, SeveralOrFew, FewAreOne
        <5> QED BY <2>2, <5>2
      <4>3. CASE m # n
        <5>1. exec.pc = "boot" BY <4>1 DEF ResolvePack
        <5>2. n \in exec.packs \ {m} BY <2>5, <4>3, <5>1 DEF Unsettled
        <5> QED BY <3>4, <3>6, <4>1, <5>2 DEF ResolvePack
      <4> QED BY <4>2, <4>3
    <3> QED BY <2>5, <3>1, <3>2, <3>3, <3>7, <3>8, <3>9, <3>10, <3>11 DEF BootStep
  <2> QED BY <1>4, <2>2, <2>3, <2>4, <2>5, WhoSteps DEF OneActiveInv, Unsettled
<1> QED BY <1>1, <1>2, <1>3, <1>4

LEMMA OneActivePlaces ==
  ASSUME BaseInv, OneActiveInv, [Next]_vars
  PROVE  /\ exec'.pc = "survivor" => exec'.to = "superseded"
         /\ exec'.pc = "close" => exec'.to = "healed"
<1>0. TypeInv BY DEF BaseInv
<1>1. CASE UNCHANGED vars BY <1>1 DEF vars, OneActiveInv
<1>2. CASE BootStep
  <2>1. CASE Boot BY <2>1, RestingFrames DEF Boot, Frames
  <2>2. CASE CloseHealedTickets BY <1>0, <2>2, GoesOn DEF CloseHealedTickets, PCs
  <2>3. CASE \E packs \in SUBSET Packs : exec' = Remaining(packs)
    BY <1>0, <2>3, BootFrames
  <2>4. CASE \E i, c, packs : exec' = Announce(i, c, packs)
    BY <2>4, AnnouncedFrame
  <2>5. exec.packs \in SUBSET Packs /\ \A n : exec.packs \ {n} \in SUBSET Packs
    BY <1>0, FrameFields
  <2>6. CASE OpenBootGap
    BY <1>0, <2>3, <2>5, <2>6, GoesOn DEF OpenBootGap, PCs
  <2>7. CASE LoadSurvivor
    BY <2>3, <2>4, <2>5, <2>7 DEF LoadSurvivor, ReloadOne
  <2>8. CASE \E n \in Packs : HealLoading(n)
    BY <2>8, AnnouncedFrame DEF HealLoading
  <2>9. CASE \E n \in Packs : ParkLoading(n) \/ SupersedeAtBoot(n) \/ ResolvePack(n)
    BY <2>3, <2>4, <2>5, <2>9 DEF ParkLoading, SupersedeAtBoot, ResolvePack, ReloadOne
  <2> QED BY <1>2, <2>1, <2>2, <2>6, <2>7, <2>8, <2>9 DEF BootStep
<1>3. CASE ~ BootStep /\ ~ UNCHANGED vars
  <2>1. exec'.pc \notin BootPCs
    BY <1>0, <1>3, BootPlaces, RestingFrames DEF Crash, BootPCs
  <2> QED BY <2>1 DEF BootPCs
<1> QED BY <1>1, <1>2, <1>3

LEMMA OneActiveInit == ASSUME Init PROVE OneActiveInv
<1>1. promotions = <<>> /\ exec = Idle BY DEF Init
<1>2. \A n : InGroup(n, "active") = {} BY <1>1 DEF InGroup, Group
<1> QED BY <1>1, <1>2, RestingFrames DEF OneActiveInv, AtMostOne

\* Whenever the thread rests a pack has at most one active promotion: after version
\* updates, late conflicts, disables, crashes anywhere and what boot makes of them.
THEOREM OneActive == Spec => []AtMostOneActive
<1> DEFINE Inv == BaseInv /\ OneActiveInv
<1>1. Init => Inv BY InitTypes, OneActiveInit
<1>2. Inv /\ [Next]_vars => Inv'
  <2> SUFFICES ASSUME Inv, [Next]_vars PROVE Inv' OBVIOUS
  <2>1. BaseInv' BY NextTypes, NextFollows DEF BaseInv
  <2>2. \A n \in Packs : AtMostOne(n)' \/ Unsettled(n)' BY OneActiveNext
  <2> QED BY <2>1, <2>2, OneActivePlaces DEF OneActiveInv
<1>3. Inv => AtMostOneActive
  <2> SUFFICES ASSUME Inv, exec = Idle, NEW n \in Packs
               PROVE  Cardinality(InGroup(n, "active")) <= 1
    BY DEF AtMostOneActive
  <2>1. AtMostOne(n) BY RestingFrames DEF OneActiveInv, Unsettled, BootPCs
  <2> QED BY <2>1, FewAreOne DEF BaseInv
<1> QED BY <1>1, <1>2, <1>3, PTL DEF Spec

-----------------------------------------------------------------------------
(* Only reviewed code is loaded *)

ReviewedInv ==
  /\ \A t \in Adoptions : tickets[t].proposal \in approved
  /\ \A i \in 1..Len(promotions) : promotions[i].proposal \in approved
  /\ exec.pc \in {"gates", "fork"} => exec.proposal \notin tampered
  /\ OnlyReviewedCodeLoads

\* An approval is never withdrawn, and edits happen while the thread rests.
LEMMA ApprovalsAndEdits ==
  ASSUME [Next]_vars
  PROVE  /\ approved \subseteq approved'
         /\ UNCHANGED tampered \/ (exec.pc = "idle" /\ exec' = exec)
         /\ \A p \in Proposals : ApproveAdoption(p) => p \in approved'
<1>1. CASE Chassis
  BY <1>1
     DEF Chassis, Patches, AdoptStep, DisableStep, RetryStep, BootStep, RecordVerdict,
         MarkPending, MarkAdopting, StartSweep, graph, history, RefuseParked,
         HashMismatch, Regate, RerunGates, AbortAfterGates, ForkLostOrConflict,
         LoadAndRecord, Promote, CloseAdoption, PromotionRecorder, MarkPromoted,
         SupersedePriorActive, PatchAborted, DisablePack, AddRollback, MarkDisabled,
         CloseDisable, Retry, Retrial, Requeue, Boot, CloseHealedTickets, OpenBootGap,
         LoadSurvivor, HealLoading, ParkLoading, SupersedeAtBoot, ResolvePack,
         ApproveAdoption
<1>2. CASE Authoring \/ Owner \/ Tampering \/ Crash \/ UNCHANGED vars
             \/ \E p \in Proposals : ProposalGatekeeper(p)
  BY <1>2, RestingFrames
     DEF Authoring, Owner, Tampering, SubmitProposal, RunTrial, RequestAdoption,
         ApproveAdoption, DenyAdoption, RequestDisable, ApproveDisable, TamperArtifacts,
         ProposalGatekeeper, Crash, graph, history, vars
<1> QED BY <1>1, <1>2 DEF Next

\* The gates and the dry run are only reached past the pin.
LEMMA GatePlaces ==
  ASSUME TypeInv, [Next]_vars, exec'.pc \in {"gates", "fork"}
  PROVE  \/ UNCHANGED exec
         \/ \E p \in Proposals : Regate(p) /\ exec'.proposal = p
         \/ RerunGates /\ exec'.proposal = exec.proposal
<1>1. \A todo, again : After(todo, again).pc \in {"ticket", "retry", "idle"}
  BY DEF After, Idle
<1>2. exec \in Frames BY FrameFields
<1>3. ~ BootStep
  <2>1. BootStep => exec'.pc \in {"idle", "boot", "close", "gap", "survivor"}
    BY BootStepPlaces
  <2> QED BY <2>1
<1>4. CASE Authoring \/ Owner \/ Tampering \/ StartSweep \/ Crash \/ UNCHANGED vars
             \/ \E p \in Proposals : ProposalGatekeeper(p)
  <2>1. CASE \E p \in Proposals : RunTrial(p)
    BY <1>1, <1>2, <2>1 DEF RunTrial, TrialOutcome, Frames
  <2>2. CASE \E p \in Proposals : RequestAdoption(p)
    BY <2>2, RestingFrames DEF RequestAdoption, Frames
  <2>3. CASE \E p \in Proposals : ApproveAdoption(p)
    <3>1. PICK p \in Proposals : ApproveAdoption(p) BY <2>3
    <3>2. CASE exec' = [Idle EXCEPT !.pc = "adopting", !.proposal = p]
      <4>1. exec'.pc = "adopting" BY <3>2, RestingFrames DEF Frames
      <4> QED BY <4>1
    <3>3. CASE exec' = exec BY <3>3
    <3> QED BY <3>1, <3>2, <3>3 DEF ApproveAdoption
  <2>4. CASE Crash BY <2>4, RestingFrames DEF Crash
  <2>5. CASE StartSweep BY <1>1, <2>5 DEF StartSweep
  <2> QED BY <1>4, <2>1, <2>2, <2>3, <2>4, <2>5
          DEF Authoring, SubmitProposal, Owner, DenyAdoption, RequestDisable,
              ApproveDisable, Tampering, TamperArtifacts, ProposalGatekeeper, vars
<1>5. CASE Patches \/ RetryStep
  <2>1. CASE Patches
    BY <1>2, <2>1, RestingFrames
       DEF Patches, RecordVerdict, MarkPending, MarkAdopting, Frames
  <2>2. CASE Retry
    <3>1. \/ exec' = After({}, exec.again \ {SmallestOf(exec.again)})
          \/ exec' = [Idle EXCEPT !.pc = "retrial", !.ticket = SmallestOf(exec.again),
                        !.again = exec.again \ {SmallestOf(exec.again)},
                        !.proposal = tickets[SmallestOf(exec.again)].proposal]
      BY <2>2 DEF Retry
    <3> QED BY <1>1, <3>1, RestingFrames DEF Frames
  <2>3. CASE Retrial BY <1>1, <1>2, <2>3 DEF Retrial, TrialOutcome, Frames
  <2>4. CASE Requeue BY <1>1, <2>4 DEF Requeue
  <2> QED BY <1>5, <2>1, <2>2, <2>3, <2>4 DEF RetryStep
<1>6. CASE AdoptStep
  <2>1. CASE SupersedePriorActive BY <1>1, <2>1 DEF SupersedePriorActive
  <2>2. CASE \E p \in Proposals : Regate(p)
    <3>1. PICK p \in Proposals : Regate(p) BY <2>2
    <3>2. exec'.proposal = p
      BY <1>2, <3>1, WorkingFrames DEF Regate, TakesAdoption, PCs
    <3> QED BY <3>1, <3>2
  <2>3. CASE RerunGates BY <1>2, <2>3 DEF RerunGates, Frames
  <2> QED
    BY <1>1, <1>2, <1>6, <2>1, <2>2, <2>3
       DEF AdoptStep, RefuseParked, HashMismatch, Working, AbortAfterGates,
           ForkLostOrConflict, LoadAndRecord, Promote, CloseAdoption,
           PromotionRecorder, MarkPromoted, PatchAborted, Frames
<1>7. CASE DisableStep
  BY <1>1, <1>2, <1>7
     DEF DisableStep, DisablePack, Working, AddRollback, MarkDisabled, CloseDisable, Frames
<1> QED BY <1>3, <1>4, <1>5, <1>6, <1>7 DEF Next, Chassis

LEMMA TrialsStay ==
  ASSUME BaseInv, [Next]_vars, NEW p, TrialsOf(p) # {}
  PROVE  \E f \in 1..Len(forks') : forks'[f].proposal = p
<1>1. forks' \in Seq(Forks) /\ ForksKept BY NextForks, ForksTyped DEF BaseInv
<1>2. PICK f \in 1..Len(forks) : forks[f].proposal = p BY DEF TrialsOf
<1>3. f \in 1..Len(forks') /\ forks'[f].proposal = p
  BY <1>1, <1>2, TableTypes DEF BaseInv, ForksKept
<1> QED BY <1>3

\* "What loads is what was reviewed", at adoption and at every boot, and whatever is
\* edited, retried or healed in between.
THEOREM OnlyReviewed == Spec => []OnlyReviewedCodeLoads
<1> DEFINE Inv == BaseInv /\ ReviewedInv
<1>1. Init => Inv
  <2> SUFFICES ASSUME Init PROVE Inv OBVIOUS
  <2>1. tickets = <<>> /\ promotions = <<>> /\ exec = Idle BY DEF Init
  <2>2. \A n \in Packs : loaded[n] = Nothing BY DEF Init
  <2> QED BY <2>1, <2>2, InitTypes, RestingFrames
          DEF ReviewedInv, Adoptions, OnlyReviewedCodeLoads
<1>2. Inv /\ [Next]_vars => Inv'
  <2> SUFFICES ASSUME Inv, [Next]_vars PROVE Inv' OBVIOUS
  <2>1. BaseInv' BY NextTypes, NextFollows DEF BaseInv
  <2>2. /\ TypeInv /\ FrameFollows /\ TicketsStep /\ TicketsKept
        /\ PromotionsStep /\ PromotionsKept /\ approved \subseteq approved'
    BY NextTickets, TicketsTyped, NextPromotions, PromotionsTyped, ApprovalsAndEdits
       DEF BaseInv
  <2>3. exec.pc \in AdoptionPCs => exec.proposal \in approved
    BY <2>2 DEF ReviewedInv, FrameFollows, TypeInv, FrameOK
  <2>4. ASSUME NEW t \in Adoptions' PROVE tickets'[t].proposal \in approved'
    <3>1. CASE t \in 1..Len(tickets)
      BY <2>2, <2>4, <3>1 DEF ReviewedInv, Adoptions, TicketsKept
    <3>2. CASE t \notin 1..Len(tickets)
      <4>1. Len(tickets') # Len(tickets) BY <2>4, <3>2 DEF Adoptions
      <4>2. PICK new \in Tickets :
              /\ tickets' = Append(tickets, new)
              /\ new.kind = "adopt" =>
                   \E p \in Proposals : new.proposal = p /\ OpensAdoption(p)
        <5>1. CASE \E p \in Proposals : OpensAdoption(p)
          <6>1. PICK p \in Proposals : OpensAdoption(p) BY <5>1
          <6> DEFINE new == [kind |-> "adopt", proposal |-> p, promotion |-> 0,
                             status |-> "open"]
          <6>2. new \in Tickets /\ new.proposal = p BY DEF Tickets
          <6>3. tickets' = Append(tickets, new) BY <6>1 DEF OpensAdoption, OpenAdoption
          <6> QED BY <6>1, <6>2, <6>3
        <5>2. CASE \E i \in 1..Len(promotions) : OpensDisable(i)
          <6>1. PICK i \in 1..Len(promotions) : OpensDisable(i) BY <5>2
          <6> DEFINE new == [kind |-> "disable", proposal |-> NoProposal,
                             promotion |-> i, status |-> "open"]
          <6>2. new \in Tickets /\ new.kind = "disable"
            BY <2>2, TableTypes DEF Tickets
          <6>3. tickets' = Append(tickets, new) BY <6>1 DEF OpensDisable
          <6> QED BY <6>2, <6>3
        <5> QED BY <2>2, <4>1, <5>1, <5>2, SettingTicket, HealingTickets DEF TicketsStep
      <4>3. t = Len(tickets) + 1 /\ tickets'[t] = new
        BY <2>2, <2>4, <3>2, <4>2, OpeningTicket, TableTypes DEF Adoptions
      <4>4. PICK p \in Proposals : new.proposal = p /\ OpensAdoption(p)
        BY <2>4, <4>2, <4>3 DEF Adoptions
      <4>5. CASE ApproveAdoption(p) BY <4>3, <4>4, <4>5, ApprovalsAndEdits
      <4>6. CASE Requeue /\ p = exec.proposal
        BY <2>2, <2>3, <4>3, <4>4, <4>6 DEF Requeue, AdoptionPCs
      <4> QED BY <4>4, <4>5, <4>6 DEF OpensAdoption
    <3> QED BY <3>1, <3>2
  <2>5. ASSUME NEW i \in 1..Len(promotions') PROVE promotions'[i].proposal \in approved'
    <3>1. CASE i \in 1..Len(promotions)
      BY <2>2, <3>1 DEF ReviewedInv, PromotionsKept
    <3>2. CASE i \notin 1..Len(promotions)
      <4>1. LoadAndRecord
        BY <2>2, <3>2, NextPromotions, PromotionsTyped DEF BaseInv
      <4>2. i = Len(promotions) + 1
        BY <2>2, <3>2, <4>1, RecordingPromotion, TableTypes
      <4>3. promotions'[i].proposal = exec.proposal
        BY <2>2, <4>1, <4>2, RecordingPromotion
      <4> QED BY <2>2, <2>3, <4>1, <4>3 DEF LoadAndRecord, AdoptionPCs
    <3> QED BY <3>1, <3>2
  <2>6. ASSUME exec'.pc \in {"gates", "fork"} PROVE exec'.proposal \notin tampered'
    <3>1. CASE UNCHANGED exec BY <2>6, <3>1, ApprovalsAndEdits DEF ReviewedInv
    <3>2. CASE \E p \in Proposals : Regate(p) /\ exec'.proposal = p
      BY <3>2 DEF Regate, PinHolds
    <3>3. CASE RerunGates /\ exec'.proposal = exec.proposal
      BY <3>3 DEF RerunGates, ReviewedInv
    <3> QED BY <2>2, <2>6, <3>1, <3>2, <3>3, GatePlaces
  <2>7. OnlyReviewedCodeLoads'
    <3> SUFFICES ASSUME NEW n \in Packs, loaded'[n] # Nothing
                 PROVE  /\ loaded'[n].pinned
                        /\ loaded'[n].proposal \in approved'
                        /\ \E f \in 1..Len(forks') : forks'[f].proposal = loaded'[n].proposal
      BY DEF OnlyReviewedCodeLoads, TrialsOf
    <3>1. CASE loaded'[n] = loaded[n]
      <4>1. /\ loaded[n].pinned /\ loaded[n].proposal \in approved
            /\ TrialsOf(loaded[n].proposal) # {}
        BY <3>1 DEF ReviewedInv, OnlyReviewedCodeLoads
      <4>2. \E f \in 1..Len(forks') : forks'[f].proposal = loaded[n].proposal
        BY <4>1, TrialsStay
      <4> QED BY <2>2, <3>1, <4>1, <4>2
    <3>2. CASE \E p \in Proposals : LoadsVerified(p) /\ n = PackOf[p]
      <4>1. PICK p \in Proposals : LoadsVerified(p) /\ n = PackOf[p] BY <3>2
      <4>2. loaded'[n] = [proposal |-> p, pinned |-> p \notin tampered]
        BY <2>2, <4>1 DEF LoadsVerified, TypeInv, TypeOK
      <4>3. CASE LoadAndRecord /\ p = exec.proposal
        <5>1. p \in approved /\ p \notin tampered
          BY <2>3, <4>3 DEF LoadAndRecord, AdoptionPCs, ReviewedInv
        <5>2. TrialsOf(p) # {} BY <4>3 DEF LoadAndRecord, ForkLoads
        <5>3. \E f \in 1..Len(forks') : forks'[f].proposal = p BY <5>2, TrialsStay
        <5>4. (p \notin tampered) = TRUE BY <5>1
        <5>5. loaded'[n] = [proposal |-> p, pinned |-> TRUE] BY <4>2, <5>4, Zenon
        <5>6. loaded'[n].proposal = p /\ loaded'[n].pinned BY <5>5
        <5> QED BY <2>2, <5>1, <5>3, <5>6
      <4>4. CASE p \notin tampered /\ \E i \in 1..Len(promotions) : promotions[i].proposal = p
        <5>1. PICK i \in 1..Len(promotions) : promotions[i].proposal = p BY <4>4
        <5>2. p \in approved BY <5>1 DEF ReviewedInv
        <5>3. promotions[i].fork \in TrialsOf(p)
          BY <2>2, <5>1 DEF TypeInv, PromotionsRefer, TrialsOf
        <5>4. \E f \in 1..Len(forks') : forks'[f].proposal = p BY <5>3, TrialsStay
        <5>5. (p \notin tampered) = TRUE BY <4>4
        <5>6. loaded'[n] = [proposal |-> p, pinned |-> TRUE] BY <4>2, <5>5, Zenon
        <5>7. loaded'[n].proposal = p /\ loaded'[n].pinned BY <5>6
        <5> QED BY <2>2, <5>2, <5>4, <5>7
      <4> QED BY <4>1, <4>3, <4>4 DEF LoadsVerified
    <3> QED BY <2>2, <3>1, <3>2, NextLoaded
            DEF LoadedStep, LoadsVerified, Crash, TypeInv, TypeOK
  <2> QED BY <2>1, <2>4, <2>5, <2>6, <2>7 DEF ReviewedInv
<1>3. Inv => OnlyReviewedCodeLoads BY DEF ReviewedInv
<1> QED BY <1>1, <1>2, <1>3, PTL DEF Spec

-----------------------------------------------------------------------------
(* Parked proposals *)

\* Where the thread is about to set the status of the proposal at hand.
ParkedPlaces == {"patch", "gates", "fork", "promote", "done", "record", "promoted",
                 "verdict", "retrial"}
ParkedInv ==
  /\ \A p \in Proposals : status[p] = "needs_owner" => retries[p] >= MaxRetries
  /\ exec.pc \in ParkedPlaces => status[exec.proposal] # "needs_owner"
\* What the property says of one step.
ParkedAlone ==
  \A p \in Proposals :
    status[p] = "needs_owner" /\ exec.pc \notin {"idle", "request", "adopting"}
      => status'[p] \in {"needs_owner", "disabled"}

LEMMA StatusSet ==
  ASSUME TypeInv, NEW p \in Proposals, NEW s, SetProposal(p, s)
  PROVE  \A q \in Proposals : status'[q] = IF q = p THEN s ELSE status[q]
<1>1. status \in [Proposals -> Statuses] BY DEF TypeInv, TypeOK
<1> QED BY <1>1 DEF SetProposal

LEMMA ParkedNext ==
  ASSUME BaseInv, ParkedInv, [Next]_vars PROVE ParkedInv' /\ ParkedAlone
<1> DEFINE At(pc) == exec'.pc = pc /\ exec'.proposal = exec.proposal
<1>0. /\ TypeInv /\ exec \in Frames /\ retries \in [Proposals -> Nat] /\ MaxRetries \in Nat
      /\ exec.pc \in ProposalPCs => exec.proposal \in Proposals
  BY FrameFields, ProposalAtHand, EvolutionAssumption
     DEF BaseInv, TypeInv, TypeOK, EvolutionAssumption
<1>1. \A todo, again : After(todo, again).pc \in {"ticket", "retry", "idle"}
  BY DEF After, Idle
\* Nothing is set.
<1>2. CASE UNCHANGED <<status, retries>> /\ exec'.pc \notin ParkedPlaces
  BY <1>2 DEF ParkedInv, ParkedAlone
<1>3. CASE /\ UNCHANGED <<status, retries>>
           /\ exec.pc \in ParkedPlaces /\ exec'.proposal = exec.proposal
  BY <1>3 DEF ParkedInv, ParkedAlone
\* The status of a proposal that is not parked is set.
<1>4. ASSUME NEW p \in Proposals, NEW s \in Statuses \ {"needs_owner"}, SetProposal(p, s),
             UNCHANGED retries,
             \/ status[p] # "needs_owner" \/ s = "disabled"
             \/ exec.pc \in {"idle", "request", "adopting"},
             exec'.pc \in ParkedPlaces => exec'.proposal = p
      PROVE  ParkedInv' /\ ParkedAlone
  <2>1. \A q \in Proposals : status'[q] = IF q = p THEN s ELSE status[q]
    BY <1>0, <1>4, StatusSet
  <2> QED BY <1>4, <2>1 DEF ParkedInv, ParkedAlone
<1>5. CASE \E p \in Proposals : SubmitProposal(p) \/ ProposalGatekeeper(p)
  <2>1. PICK p \in Proposals : SubmitProposal(p) \/ ProposalGatekeeper(p) BY <1>5
  <2>2. /\ exec.pc = "idle" /\ exec' = exec /\ UNCHANGED retries
        /\ \E s \in Statuses \ {"needs_owner"} : SetProposal(p, s)
    BY <2>1, RestingFrames DEF SubmitProposal, ProposalGatekeeper, Statuses, GateFailures
  <2>3. exec'.pc \notin ParkedPlaces BY <2>2 DEF ParkedPlaces
  <2> QED BY <1>4, <2>2, <2>3
<1>6. CASE \E p \in Proposals : RunTrial(p)
  <2>1. PICK p \in Proposals : RunTrial(p) BY <1>6
  <2>2. exec = Idle /\ status[p] = "gated" /\ UNCHANGED retries BY <2>1 DEF RunTrial
  <2>3. CASE SetProposal(p, "rejected") /\ exec' = After({}, exec.again)
    <3>1. exec'.pc \notin ParkedPlaces BY <1>1, <2>3 DEF ParkedPlaces
    <3>2. "rejected" \in Statuses \ {"needs_owner"} BY DEF Statuses
    <3> QED BY <1>4, <2>2, <2>3, <3>1, <3>2
  <2>4. CASE exec' = [exec EXCEPT !.pc = "verdict", !.proposal = p] /\ UNCHANGED status
    <3>1. exec'.proposal = p BY <1>0, <2>4 DEF Frames
    <3> QED BY <2>2, <2>4, <3>1, RestingFrames DEF ParkedInv, ParkedAlone
  <2> QED BY <2>1, <2>3, <2>4 DEF RunTrial, TrialOutcome
<1>7. CASE (\E p \in Proposals : RequestAdoption(p)) \/ Owner \/ Tampering
             \/ StartSweep \/ Crash \/ UNCHANGED vars
  <2>1. UNCHANGED <<status, retries>>
    BY <1>7 DEF RequestAdoption, Owner, ApproveAdoption, DenyAdoption, RequestDisable,
                ApproveDisable, Tampering, TamperArtifacts, StartSweep, Crash, graph, vars
  <2>2. CASE exec' = exec BY <2>1, <2>2 DEF ParkedInv, ParkedAlone
  <2>3. CASE \E p \in Proposals : RequestAdoption(p)
    <3>1. exec'.pc = "request" BY <2>3, RestingFrames DEF RequestAdoption, Frames
    <3> QED BY <1>2, <2>1, <3>1 DEF ParkedPlaces
  <2>4. CASE \E p \in Proposals : ApproveAdoption(p) /\ exec' # exec
    <3>1. exec'.pc = "adopting" BY <2>4, RestingFrames DEF ApproveAdoption, Frames
    <3> QED BY <1>2, <2>1, <3>1 DEF ParkedPlaces
  <2>5. CASE StartSweep \/ Crash
    <3>1. exec'.pc \in {"ticket", "retry", "idle", "down"}
      BY <1>1, <2>5, RestingFrames DEF StartSweep, Crash
    <3> QED BY <1>2, <2>1, <3>1 DEF ParkedPlaces
  <2> QED BY <1>7, <2>2, <2>3, <2>4, <2>5
          DEF Owner, DenyAdoption, RequestDisable, ApproveDisable, Tampering,
              TamperArtifacts, vars
<1>8. CASE Patches
  <2>1. CASE RecordVerdict
    <3>1. /\ exec.pc = "verdict" /\ SetProposal(exec.proposal, "trialed")
          /\ UNCHANGED retries /\ "trialed" \in Statuses \ {"needs_owner"}
      BY <2>1 DEF RecordVerdict, Statuses
    <3>2. exec'.pc \in {"idle", "requeue"}
      BY <1>0, <2>1, RestingFrames DEF RecordVerdict, Frames
    <3>3. exec.proposal \in Proposals /\ status[exec.proposal] # "needs_owner"
      BY <1>0, <3>1 DEF ProposalPCs, ParkedInv, ParkedPlaces
    <3>4. exec'.pc \notin ParkedPlaces BY <3>2 DEF ParkedPlaces
    <3> QED BY <1>4, <3>1, <3>3, <3>4
  <2>2. CASE MarkPending \/ MarkAdopting
    <3>1. /\ exec.pc \in {"request", "adopting"} /\ UNCHANGED retries /\ exec' = Idle
          /\ \E s \in Statuses \ {"needs_owner"} : SetProposal(exec.proposal, s)
      BY <2>2 DEF MarkPending, MarkAdopting, Statuses
    <3>2. exec.proposal \in Proposals BY <1>0, <3>1 DEF ProposalPCs
    <3>3. exec'.pc \notin ParkedPlaces BY <3>1, RestingFrames DEF ParkedPlaces
    <3> QED BY <1>4, <3>1, <3>2, <3>3
  <2> QED BY <1>8, <2>1, <2>2 DEF Patches
<1>9. CASE AdoptStep
  <2>1. UNCHANGED retries
    BY <1>9 DEF AdoptStep, RefuseParked, HashMismatch, Regate, RerunGates,
                AbortAfterGates, ForkLostOrConflict, LoadAndRecord, Promote,
                CloseAdoption, PromotionRecorder, MarkPromoted, SupersedePriorActive,
                PatchAborted
  <2>2. CASE \E p \in Proposals : RefuseParked(p)
    <3>1. UNCHANGED status /\ exec'.pc \notin ParkedPlaces
      BY <1>1, <2>2 DEF RefuseParked, ParkedPlaces
    <3> QED BY <1>2, <2>1, <3>1
  <2>3. CASE \E p \in Proposals : HashMismatch(p) \/ Regate(p)
    <3>1. PICK p \in Proposals : HashMismatch(p) \/ Regate(p) BY <2>3
    <3>2. status[p] # "needs_owner" /\ exec'.proposal = p
      BY <1>0, <3>1 DEF HashMismatch, Regate, Parked, Working, Frames
    <3>3. CASE HashMismatch(p)
      BY <2>1, <3>2, <3>3 DEF HashMismatch, ParkedInv, ParkedAlone
    <3>4. CASE Regate(p)
      <4>1. SetProposal(p, "gated") /\ "gated" \in Statuses \ {"needs_owner"}
        BY <3>4 DEF Regate, Statuses
      <4> QED BY <1>4, <2>1, <3>2, <4>1
    <3> QED BY <3>1, <3>3, <3>4
  <2>4. CASE RerunGates
    <3>1. /\ exec.pc = "gates" /\ exec'.proposal = exec.proposal
          /\ \E s \in Statuses \ {"needs_owner"} : SetProposal(exec.proposal, s)
      BY <1>0, <2>4 DEF RerunGates, Frames, Statuses, GateFailures
    <3>2. exec.proposal \in Proposals /\ status[exec.proposal] # "needs_owner"
      BY <1>0, <3>1 DEF ProposalPCs, AdoptionPCs, ParkedInv, ParkedPlaces
    <3> QED BY <1>4, <2>1, <3>1, <3>2
  <2>5. CASE AbortAfterGates
    <3>1. UNCHANGED status /\ exec'.pc \notin ParkedPlaces
      BY <1>1, <2>5 DEF AbortAfterGates, ParkedPlaces
    <3> QED BY <1>2, <2>1, <3>1
  <2>6. CASE ForkLostOrConflict \/ LoadAndRecord \/ Promote \/ CloseAdoption
    <3>1. /\ UNCHANGED status /\ exec.pc \in ParkedPlaces
          /\ exec'.proposal = exec.proposal
      BY <1>0, <2>6 DEF ForkLostOrConflict, LoadAndRecord, Promote, CloseAdoption,
                        ParkedPlaces, Frames
    <3> QED BY <1>3, <2>1, <3>1
  <2>7. CASE PromotionRecorder
    <3>1. /\ UNCHANGED status /\ exec.pc = "record"
          /\ exec' = [exec EXCEPT !.pc = "promoted", !.proposal = exec.proposal]
      BY <2>7, RecordedAreLoading DEF PromotionRecorder, BaseInv
    <3>2. exec.pc \in ParkedPlaces /\ exec'.proposal = exec.proposal
      BY <1>0, <3>1 DEF ParkedPlaces, Frames
    <3> QED BY <1>3, <2>1, <3>1, <3>2
  <2>8. CASE MarkPromoted
    <3>1. /\ exec.pc = "promoted" /\ SetProposal(exec.proposal, "promoted")
          /\ "promoted" \in Statuses \ {"needs_owner"}
      BY <2>8 DEF MarkPromoted, Statuses
    <3>2. exec.proposal \in Proposals /\ status[exec.proposal] # "needs_owner"
      BY <1>0, <3>1 DEF ProposalPCs, AdoptionPCs, ParkedInv, ParkedPlaces
    <3>3. exec'.pc \notin ParkedPlaces
      BY <1>0, <1>1, <2>8 DEF MarkPromoted, ParkedPlaces, Frames
    <3> QED BY <1>4, <2>1, <3>1, <3>2, <3>3
  <2>9. CASE SupersedePriorActive
    <3>1. UNCHANGED status /\ exec'.pc \notin ParkedPlaces
      BY <1>1, <2>9 DEF SupersedePriorActive, ParkedPlaces
    <3> QED BY <1>2, <2>1, <3>1
  <2>10. CASE PatchAborted
    <3>1. exec.pc = "patch" /\ SetProposal(exec.proposal, exec.to)
      BY <2>10 DEF PatchAborted, AbortStatus
    <3>2. exec.to \in Statuses \ {"needs_owner"}
      BY <1>0, <3>1 DEF TypeInv, FrameOK, Statuses
    <3>3. exec.proposal \in Proposals /\ status[exec.proposal] # "needs_owner"
      BY <1>0, <3>1 DEF ProposalPCs, AdoptionPCs, ParkedInv, ParkedPlaces
    <3>4. exec'.pc \notin ParkedPlaces
      BY <1>1, <2>10 DEF PatchAborted, ParkedPlaces
    <3> QED BY <1>4, <2>1, <3>1, <3>2, <3>3, <3>4
  <2> QED BY <1>9, <2>2, <2>3, <2>4, <2>5, <2>6, <2>7, <2>8, <2>9, <2>10 DEF AdoptStep
<1>10. CASE DisableStep
  <2>1. CASE MarkDisabled
    <3>1. /\ exec.pc = "undo" /\ SetProposal(exec.proposal, "disabled")
          /\ "disabled" \in Statuses \ {"needs_owner"} /\ UNCHANGED retries
      BY <2>1 DEF MarkDisabled, Statuses
    <3>2. exec.proposal \in Proposals BY <1>0, <3>1 DEF ProposalPCs, DisablePCs
    <3>3. exec'.pc \notin ParkedPlaces BY <1>0, <2>1 DEF MarkDisabled, ParkedPlaces, Frames
    <3> QED BY <1>4, <3>1, <3>2, <3>3
  <2>2. CASE ~ MarkDisabled
    <3>1. UNCHANGED <<status, retries>>
      BY <1>10, <2>2 DEF DisableStep, DisablePack, AddRollback, CloseDisable
    <3>2. CASE \E i \in 1..Len(promotions) : DisablePack(i)
      <4>1. PICK i \in 1..Len(promotions) : DisablePack(i) BY <3>2
      <4>2. exec'.pc \in {"ticket", "retry", "idle", "rollback"}
        BY <1>0, <1>1, <4>1, RollbackFrame DEF DisablePack
      <4> QED BY <1>2, <3>1, <4>2 DEF ParkedPlaces
    <3>3. CASE AddRollback \/ CloseDisable
      <4>1. exec'.pc \in {"ticket", "retry", "idle", "undo"}
        BY <1>0, <1>1, <3>3 DEF AddRollback, CloseDisable, Frames
      <4> QED BY <1>2, <3>1, <4>1 DEF ParkedPlaces
    <3> QED BY <1>10, <2>2, <3>2, <3>3 DEF DisableStep
  <2> QED BY <2>1, <2>2
<1>11. CASE RetryStep
  <2>1. CASE Retry
    <3> DEFINE t == SmallestOf(exec.again)
               p == tickets[t].proposal
    <3>1. p \in Proposals BY <1>0, <2>1, RetriedIsAdoption DEF Retry
    <3> HIDE DEF t, p
    <3>2. CASE /\ CapReached(p) /\ SetProposal(p, "needs_owner") /\ UNCHANGED retries
               /\ exec' = After({}, exec.again \ {t})
      <4>1. \A q \in Proposals : status'[q] = IF q = p THEN "needs_owner" ELSE status[q]
        BY <1>0, <3>1, <3>2, StatusSet
      <4>2. exec'.pc \notin ParkedPlaces BY <1>1, <3>2 DEF ParkedPlaces
      <4> QED BY <3>1, <3>2, <4>1, <4>2 DEF ParkedInv, ParkedAlone, CapReached
    <3>3. CASE /\ ~ CapReached(p) /\ SetProposal(p, "gated")
               /\ retries' = [retries EXCEPT ![p] = @ + 1]
               /\ exec' = [Idle EXCEPT !.pc = "retrial", !.ticket = t,
                                       !.again = exec.again \ {t}, !.proposal = p]
      <4>1. \A q \in Proposals : status'[q] = IF q = p THEN "gated" ELSE status[q]
        BY <1>0, <3>1, <3>3, StatusSet
      <4>2. exec'.proposal = p BY <3>3, RestingFrames DEF Frames
      <4>3. status[p] # "needs_owner" BY <3>1, <3>3 DEF ParkedInv, CapReached
      <4>4. \A q \in Proposals : retries'[q] >= retries[q] BY <1>0, <3>1, <3>3
      <4>5. \A q \in Proposals : retries'[q] = IF q = p THEN retries[q] + 1 ELSE retries[q]
        BY <1>0, <3>1, <3>3
      <4> QED BY <1>0, <3>1, <4>1, <4>2, <4>3, <4>5 DEF ParkedInv, ParkedAlone
    <3> QED BY <2>1, <3>2, <3>3 DEF Retry, t, p
  <2>2. CASE Retrial
    <3>1. exec.pc = "retrial" /\ UNCHANGED retries BY <2>2 DEF Retrial
    <3>2. exec.proposal \in Proposals /\ status[exec.proposal] # "needs_owner"
      BY <1>0, <3>1 DEF ProposalPCs, AdoptionPCs, ParkedInv, ParkedPlaces
    <3>3. CASE SetProposal(exec.proposal, "rejected") /\ exec' = After({}, exec.again)
      <4>1. exec'.pc \notin ParkedPlaces BY <1>1, <3>3 DEF ParkedPlaces
      <4>2. "rejected" \in Statuses \ {"needs_owner"} BY DEF Statuses
      <4> QED BY <1>4, <3>1, <3>2, <3>3, <4>1, <4>2
    <3>4. CASE /\ exec' = [exec EXCEPT !.pc = "verdict", !.proposal = exec.proposal]
               /\ UNCHANGED status
      <4>1. exec'.proposal = exec.proposal BY <1>0, <3>4 DEF Frames
      <4> QED BY <1>3, <3>1, <3>4, <4>1 DEF ParkedPlaces
    <3> QED BY <2>2, <3>3, <3>4 DEF Retrial, TrialOutcome
  <2>3. CASE Requeue
    <3>1. UNCHANGED <<status, retries>> /\ exec'.pc \notin ParkedPlaces
      BY <1>1, <2>3 DEF Requeue, ParkedPlaces
    <3> QED BY <1>2, <3>1
  <2> QED BY <1>11, <2>1, <2>2, <2>3 DEF RetryStep
<1>12. CASE BootStep
  <2>1. UNCHANGED <<status, retries>>
    BY <1>12 DEF BootStep, Boot, CloseHealedTickets, OpenBootGap, LoadSurvivor,
                 HealLoading, ParkLoading, SupersedeAtBoot, ResolvePack
  <2>2. exec'.pc \notin ParkedPlaces BY <1>0, <1>12, BootStepPlaces DEF ParkedPlaces
  <2> QED BY <1>2, <2>1, <2>2
<1> QED BY <1>5, <1>6, <1>7, <1>8, <1>9, <1>10, <1>11, <1>12 DEF Next, Chassis, Authoring

\* A parked proposal is left to the owner: whatever tickets or retries are still open
\* for it, the chassis' own steps do not set its status, but for a disable.
THEOREM ParkedIsLeftAlone == Spec => ChassisLeavesParkedAlone
<1> DEFINE Inv == BaseInv /\ ParkedInv
<1>1. Init => Inv
  <2> SUFFICES ASSUME Init PROVE Inv OBVIOUS
  <2>1. exec = Idle /\ \A p \in Proposals : status[p] = "none" BY DEF Init
  <2> QED BY <2>1, InitTypes, RestingFrames DEF ParkedInv, ParkedPlaces
<1>2. Inv /\ [Next]_vars => Inv' /\ ParkedAlone
  <2> SUFFICES ASSUME Inv, [Next]_vars PROVE Inv' /\ ParkedAlone OBVIOUS
  <2>1. BaseInv' BY NextTypes, NextFollows DEF BaseInv
  <2> QED BY <2>1, ParkedNext
<1>3. ParkedAlone =>
        [\A p \in Proposals :
           status[p] = "needs_owner" /\ exec.pc \notin {"idle", "request", "adopting"}
             => status'[p] \in {"needs_owner", "disabled"}]_vars
  BY DEF ParkedAlone
<1> QED BY <1>1, <1>2, <1>3, PTL DEF Spec, ChassisLeavesParkedAlone

-----------------------------------------------------------------------------
(* What boot announces *)

\* What the thread is about to announce.
Pending == IF exec.pc \in {"close", "gap"} THEN {<<exec.promotion, exec.to>>} ELSE {}
AnnouncedInv ==
  /\ crashes = 0 => reconciled = {} /\ exec.pc \notin BootPCs \cup {"down"}
  /\ crashes <= 1 => reconciled \subseteq gaps \cup Pending

LEMMA AnnouncedNext ==
  ASSUME BaseInv, AnnouncedInv, [Next]_vars PROVE AnnouncedInv'
<1>0. TypeInv /\ crashes \in Nat BY DEF BaseInv, TypeInv, TypeOK
<1>1. CASE UNCHANGED vars
  BY <1>1 DEF vars, graph, history, AnnouncedInv, Pending
<1>2. CASE Crash
  <2>1. crashes' = crashes + 1 /\ UNCHANGED <<reconciled, gaps>> BY <1>2 DEF Crash, graph
  <2>2. crashes' <= 1 => crashes = 0 BY <1>0, <2>1
  <2> QED BY <1>0, <2>1, <2>2 DEF AnnouncedInv
<1>3. CASE ~ BootStep /\ ~ Crash /\ ~ UNCHANGED vars
  <2>1. exec.pc \notin BootPCs \cup {"down"} /\ exec'.pc \notin BootPCs \cup {"down"}
    BY <1>0, <1>3, WhoSteps, BootPlaces
  <2>2. UNCHANGED <<reconciled, gaps, crashes>>
    BY <1>3
       DEF Next, Authoring, Owner, Tampering, SubmitProposal, RunTrial, RequestAdoption,
           ApproveAdoption, DenyAdoption, RequestDisable, ApproveDisable,
           TamperArtifacts, ProposalGatekeeper, Chassis, Patches, AdoptStep,
           DisableStep, RetryStep, RecordVerdict, MarkPending, MarkAdopting, StartSweep,
           graph, history, RefuseParked, HashMismatch, Regate, RerunGates,
           AbortAfterGates, ForkLostOrConflict, LoadAndRecord, Promote, CloseAdoption,
           PromotionRecorder, MarkPromoted, SupersedePriorActive, PatchAborted,
           DisablePack, AddRollback, MarkDisabled, CloseDisable, Retry, Retrial, Requeue
  <2>3. Pending = {} BY <2>1 DEF Pending, BootPCs
  <2> QED BY <2>1, <2>2, <2>3 DEF AnnouncedInv
<1>4. CASE BootStep
  <2>1. UNCHANGED crashes
    BY <1>4 DEF BootStep, Boot, CloseHealedTickets, OpenBootGap, LoadSurvivor,
                HealLoading, ParkLoading, SupersedeAtBoot, ResolvePack, history
  <2>2. crashes # 0 BY <1>4, WhoSteps DEF AnnouncedInv
  <2> SUFFICES ASSUME crashes <= 1 PROVE reconciled' \subseteq gaps' \cup Pending'
    BY <2>1, <2>2 DEF AnnouncedInv
  <2>3. reconciled \subseteq gaps \cup Pending BY DEF AnnouncedInv
  <2>4. CASE Boot
    BY <2>3, <2>4 DEF Boot, history, Pending
  <2>5. CASE CloseHealedTickets
    <3>1. /\ exec.pc = "close" /\ exec'.pc = "gap" /\ exec'.promotion = exec.promotion
          /\ exec'.to = exec.to
      BY <1>0, <2>5, GoesOn DEF CloseHealedTickets, PCs
    <3> QED BY <2>3, <2>5, <3>1 DEF CloseHealedTickets, history, Pending
  <2>6. CASE OpenBootGap
    <3>1. exec.pc = "gap" /\ gaps' = gaps \cup {<<exec.promotion, exec.to>>}
      BY <2>6 DEF OpenBootGap
    <3> QED BY <2>3, <2>6, <3>1 DEF OpenBootGap, history, Pending
  \* What a step changes, and what it leaves unchanged, is what it announces.
  <2>7. ASSUME exec.pc \in {"boot", "survivor"}, UNCHANGED gaps,
               NEW i, NEW c, NEW packs,
               reconciled' = reconciled \cup {<<i, c>>},
               \/ exec' = Announce(i, c, packs)
               \/ exec' = [Announce(i, c, packs) EXCEPT !.pc = "close"]
        PROVE  reconciled' \subseteq gaps' \cup Pending'
    <3>1. exec'.pc \in {"close", "gap"} /\ exec'.promotion = i /\ exec'.to = c
      <4>1. CASE exec' = Announce(i, c, packs) BY <4>1, AnnouncedFrame
      <4>2. CASE exec' = [Announce(i, c, packs) EXCEPT !.pc = "close"]
        BY <4>2, AnnouncedFrame
      <4> QED BY <2>7, <4>1, <4>2
    <3>2. Pending = {} BY <2>7 DEF Pending
    <3>3. Pending' = {<<i, c>>} BY <3>1 DEF Pending
    <3> QED BY <2>3, <2>7, <3>2, <3>3
  <2>8. CASE exec.pc \in {"boot", "survivor"} /\ UNCHANGED <<gaps, reconciled>>
    <3>1. Pending = {} BY <2>8 DEF Pending
    <3> QED BY <2>3, <2>8, <3>1
  <2>9. ASSUME exec.pc \in {"boot", "survivor"}, UNCHANGED gaps,
               NEW i, NEW packs, ReloadOne(i, packs)
        PROVE  reconciled' \subseteq gaps' \cup Pending'
    BY <2>7, <2>8, <2>9 DEF ReloadOne
  <2>10. CASE \E n \in Packs : HealLoading(n) \/ ParkLoading(n)
    BY <2>7, <2>10 DEF HealLoading, ParkLoading
  <2>11. CASE \E n \in Packs : SupersedeAtBoot(n)
    BY <2>7, <2>11 DEF SupersedeAtBoot
  <2>12. CASE LoadSurvivor BY <2>9, <2>12 DEF LoadSurvivor
  <2>13. CASE \E n \in Packs : ResolvePack(n)
    BY <2>8, <2>9, <2>13 DEF ResolvePack
  <2> QED BY <1>4, <2>4, <2>5, <2>6, <2>10, <2>11, <2>12, <2>13 DEF BootStep
<1> QED BY <1>1, <1>2, <1>3, <1>4

\* Through one crash, whatever boot heals, parks, supersedes or finds tampered with is
\* announced before it is done.
THEOREM BootAnnounces == Spec => []BootIsNeverSilent
<1> DEFINE Inv == BaseInv /\ AnnouncedInv
<1>1. Init => Inv
  <2> SUFFICES ASSUME Init PROVE Inv OBVIOUS
  <2>1. exec = Idle /\ reconciled = {} BY DEF Init
  <2> QED BY <2>1, InitTypes, RestingFrames DEF AnnouncedInv, BootPCs
<1>2. Inv /\ [Next]_vars => Inv'
  <2> SUFFICES ASSUME Inv, [Next]_vars PROVE Inv' OBVIOUS
  <2>1. BaseInv' BY NextTypes, NextFollows DEF BaseInv
  <2> QED BY <2>1, AnnouncedNext
<1>3. Inv => BootIsNeverSilent
  BY RestingFrames DEF AnnouncedInv, Pending, BootIsNeverSilent
<1> QED BY <1>1, <1>2, <1>3, PTL DEF Spec

-----------------------------------------------------------------------------
(* The runtime holds the latest version *)

LatestOf(n, i) == i \in Group(n) /\ \A j \in Group(n) : j <= i
HoldsLatest(n) ==
  \E i \in Group(n) :
    /\ LatestOf(n, i)
    /\ promotions[i].proposal = loaded[n].proposal
    /\ promotions[i].status # "disabled"
TakenDown(n) ==
  \E j \in Group(n) :
    promotions[j].rolledBack \/ (exec.pc = "rollback" /\ exec.promotion = j)

\* Before the first crash boot never runs, the adoption at hand is the newest record,
\* and a pack with records is either held in its latest version or was taken down.
LatestInv ==
  crashes = 0 =>
    /\ exec.pc \notin BootPCs \cup {"down"}
    /\ exec.pc \in RecordPCs => exec.promotion = Len(promotions)
    /\ \A n \in Packs : loaded[n] # Nothing => HoldsLatest(n)
    /\ \A n \in Packs : loaded[n] = Nothing /\ Group(n) # {} => TakenDown(n)

\* Crashes are counted.
LEMMA Counted ==
  ASSUME TypeInv, [Next]_vars
  PROVE  /\ crashes' = crashes \/ crashes' = crashes + 1
         /\ Crash => crashes' = crashes + 1
<1>1. CASE Chassis
  BY <1>1
     DEF Chassis, Patches, AdoptStep, DisableStep, RetryStep, BootStep, RecordVerdict,
         MarkPending, MarkAdopting, StartSweep, graph, history, RefuseParked,
         HashMismatch, Regate, RerunGates, AbortAfterGates, ForkLostOrConflict,
         LoadAndRecord, Promote, CloseAdoption, PromotionRecorder, MarkPromoted,
         SupersedePriorActive, PatchAborted, DisablePack, AddRollback, MarkDisabled,
         CloseDisable, Retry, Retrial, Requeue, Boot, CloseHealedTickets, OpenBootGap,
         LoadSurvivor, HealLoading, ParkLoading, SupersedeAtBoot, ResolvePack, Crash
<1>2. CASE Authoring \/ Owner \/ Tampering \/ Crash \/ UNCHANGED vars
             \/ \E p \in Proposals : ProposalGatekeeper(p)
  BY <1>2
     DEF Authoring, Owner, Tampering, SubmitProposal, RunTrial, RequestAdoption,
         ApproveAdoption, DenyAdoption, RequestDisable, ApproveDisable, TamperArtifacts,
         ProposalGatekeeper, Crash, graph, history, vars
<1> QED BY <1>1, <1>2 DEF Next

\* Outside boot five steps touch the records or the loaded code; after an unrecorded
\* rollback only its recording follows.
LEMMA RecordSteps ==
  ASSUME [Next]_vars, ~ BootStep, ~ Crash
  PROVE  \/ LoadAndRecord
         \/ \E i \in 1..Len(promotions) : DisablePack(i)
         \/ AddRollback
         \/ PromotionRecorder
         \/ SupersedePriorActive
         \/ UNCHANGED <<promotions, loaded>> /\ (exec.pc # "rollback" \/ UNCHANGED exec)
<1>1. CASE Authoring \/ Owner \/ Tampering \/ StartSweep
             \/ \E p \in Proposals : ProposalGatekeeper(p)
  BY <1>1, RestingFrames
     DEF Authoring, Owner, Tampering, SubmitProposal, RunTrial, RequestAdoption,
         ApproveAdoption, DenyAdoption, RequestDisable, ApproveDisable, TamperArtifacts,
         ProposalGatekeeper, StartSweep, graph
<1>2. CASE AdoptStep
  BY <1>2 DEF AdoptStep, RefuseParked, HashMismatch, Regate, TakesAdoption, RerunGates,
              AbortAfterGates, ForkLostOrConflict, Promote, CloseAdoption, MarkPromoted,
              PatchAborted
<1>3. CASE DisableStep
  BY <1>3 DEF DisableStep, MarkDisabled, CloseDisable
<1>4. CASE Patches \/ RetryStep
  BY <1>4 DEF Patches, RecordVerdict, MarkPending, MarkAdopting, RetryStep, Retry,
              Retrial, Requeue
<1>5. CASE UNCHANGED vars BY <1>5 DEF vars, graph
<1> QED BY <1>1, <1>2, <1>3, <1>4, <1>5 DEF Next, Chassis

\* An adoption that has recorded its promotion keeps it at hand.
LEMMA RecordPlaces ==
  ASSUME TypeInv, [Next]_vars, ~ BootStep, ~ Crash, ~ LoadAndRecord,
         exec'.pc \in RecordPCs
  PROVE  exec.pc \in RecordPCs /\ exec'.promotion = exec.promotion
<1> USE DEF RecordPCs
<1>1. \A todo, again : After(todo, again).pc \in {"ticket", "retry", "idle"}
  BY DEF After, Idle
<1>2. exec \in Frames BY FrameFields
<1>3. CASE UNCHANGED vars BY <1>3 DEF vars
<1>4. CASE Authoring \/ Owner \/ Tampering \/ StartSweep
             \/ \E p \in Proposals : ProposalGatekeeper(p)
  <2>1. CASE exec = Idle /\ exec' = exec BY <2>1, RestingFrames
  <2>2. CASE \E p \in Proposals : RunTrial(p)
    BY <1>1, <1>2, <2>2 DEF RunTrial, TrialOutcome, Frames
  <2>3. CASE \E p \in Proposals : RequestAdoption(p)
    BY <2>3, RestingFrames DEF RequestAdoption, Frames
  <2>4. CASE \E p \in Proposals : ApproveAdoption(p)
    <3>1. PICK p \in Proposals : ApproveAdoption(p) BY <2>4
    <3>2. CASE exec' = [Idle EXCEPT !.pc = "adopting", !.proposal = p]
      <4>1. exec'.pc = "adopting" BY <3>2, RestingFrames DEF Frames
      <4> QED BY <4>1
    <3> QED BY <2>1, <3>1, <3>2 DEF ApproveAdoption
  <2>5. CASE StartSweep BY <1>1, <2>5 DEF StartSweep
  <2> QED BY <1>4, <2>1, <2>2, <2>3, <2>4, <2>5
          DEF Authoring, SubmitProposal, Owner, DenyAdoption, RequestDisable,
              ApproveDisable, Tampering, TamperArtifacts, ProposalGatekeeper
<1>5. CASE Patches \/ RetryStep
  <2>1. CASE Patches
    BY <1>2, <2>1, RestingFrames
       DEF Patches, RecordVerdict, MarkPending, MarkAdopting, Frames
  <2>2. CASE Retry
    <3>1. \/ exec' = After({}, exec.again \ {SmallestOf(exec.again)})
          \/ exec' = [Idle EXCEPT !.pc = "retrial", !.ticket = SmallestOf(exec.again),
                        !.again = exec.again \ {SmallestOf(exec.again)},
                        !.proposal = tickets[SmallestOf(exec.again)].proposal]
      BY <2>2 DEF Retry
    <3> QED BY <1>1, <3>1, RestingFrames DEF Frames
  <2>3. CASE Retrial BY <1>1, <1>2, <2>3 DEF Retrial, TrialOutcome, Frames
  <2>4. CASE Requeue BY <1>1, <2>4 DEF Requeue
  <2> QED BY <1>5, <2>1, <2>2, <2>3, <2>4 DEF RetryStep
<1>6. CASE AdoptStep
  <2>1. CASE SupersedePriorActive BY <1>1, <2>1 DEF SupersedePriorActive
  <2>2. CASE \E p \in Proposals : RefuseParked(p) \/ HashMismatch(p) \/ Regate(p)
    BY <1>1, <1>2, <2>2 DEF RefuseParked, HashMismatch, Regate, Working, Frames
  <2>3. CASE RerunGates \/ AbortAfterGates \/ ForkLostOrConflict \/ PatchAborted
    BY <1>1, <1>2, <2>3
       DEF RerunGates, AbortAfterGates, ForkLostOrConflict, PatchAborted, Frames
  <2>4. CASE Promote \/ CloseAdoption
    BY <1>1, <1>2, <2>4 DEF Promote, CloseAdoption, Frames
  <2>5. CASE PromotionRecorder \/ MarkPromoted
    BY <1>1, <1>2, <2>5 DEF PromotionRecorder, MarkPromoted, Frames
  <2> QED BY <1>6, <2>1, <2>2, <2>3, <2>4, <2>5 DEF AdoptStep
<1>7. CASE DisableStep
  <2>1. CASE \E i \in 1..Len(promotions) : DisablePack(i)
    <3>1. PICK i \in 1..Len(promotions) : DisablePack(i) BY <2>1
    <3>2. exec'.pc \in {"ticket", "retry", "idle", "rollback"}
      BY <1>1, <3>1, RollbackFrame DEF DisablePack
    <3> QED BY <3>2
  <2>2. CASE AddRollback BY <1>2, <2>2 DEF AddRollback, Frames
  <2>3. CASE MarkDisabled BY <1>2, <2>3 DEF MarkDisabled, Frames
  <2>4. CASE CloseDisable BY <1>1, <2>4 DEF CloseDisable
  <2> QED BY <1>7, <2>1, <2>2, <2>3, <2>4 DEF DisableStep
<1> QED BY <1>3, <1>4, <1>5, <1>6, <1>7 DEF Next, Chassis

\* Records whose count and proposals stay are grouped as before.
LEMMA GroupsStay ==
  ASSUME PromotionsKept, Len(promotions') = Len(promotions), NEW n
  PROVE  /\ Group(n)' = Group(n)
         /\ \A i : LatestOf(n, i)' <=> LatestOf(n, i)
<1>1. Group(n)' = Group(n) BY DEF PromotionsKept, Group, NameOf
<1> QED BY <1>1 DEF LatestOf

\* What a step does to a pack's records, for the packs it leaves loaded as they are.
LEMMA LatestStays ==
  ASSUME TypeInv, PromotionsKept, Len(promotions') = Len(promotions), NEW n \in Packs,
         loaded'[n] = loaded[n],
         \A i \in Group(n) : promotions[i].rolledBack => promotions'[i].rolledBack,
         \A i \in Group(n) : LatestOf(n, i) /\ promotions[i].status # "disabled"
                               => promotions'[i].status # "disabled"
  PROVE  /\ HoldsLatest(n) => HoldsLatest(n)'
         /\ TakenDown(n) /\ (exec.pc # "rollback" \/ UNCHANGED exec) => TakenDown(n)'
<1>1. Group(n)' = Group(n) /\ \A i : LatestOf(n, i)' <=> LatestOf(n, i)
  BY GroupsStay
<1>2. Group(n) \subseteq 1..Len(promotions) BY DEF Group
<1>3. \A i \in Group(n) : promotions'[i].proposal = promotions[i].proposal
  BY <1>2 DEF PromotionsKept
<1> QED BY <1>1, <1>3 DEF HoldsLatest, TakenDown

LEMMA LatestNext ==
  ASSUME BaseInv, LatestInv, [Next]_vars PROVE LatestInv'
<1> SUFFICES ASSUME crashes' = 0 PROVE LatestInv'
  BY DEF LatestInv
<1>0. /\ TypeInv /\ crashes \in Nat /\ Len(promotions) \in Nat
      /\ loaded \in [Packs -> Loads] /\ PackOf \in [Proposals -> Packs]
      /\ NoProposal \notin Proposals
  BY EvolutionAssumption, TableTypes DEF EvolutionAssumption, BaseInv, TypeInv, TypeOK
<1>1. crashes = 0 /\ ~ Crash BY <1>0, Counted
<1>2. /\ exec.pc \notin BootPCs \cup {"down"}
      /\ exec.pc \in RecordPCs => exec.promotion = Len(promotions)
      /\ \A n \in Packs : loaded[n] # Nothing => HoldsLatest(n)
      /\ \A n \in Packs : loaded[n] = Nothing /\ Group(n) # {} => TakenDown(n)
  BY <1>1 DEF LatestInv
<1>3. ~ BootStep BY <1>2, WhoSteps
<1>4. exec'.pc \notin BootPCs \cup {"down"}
  <2>1. CASE UNCHANGED vars BY <1>2, <2>1 DEF vars
  <2> QED BY <1>0, <1>1, <1>3, <2>1, BootPlaces
<1>5. /\ PromotionsStep /\ PromotionsKept
      /\ Len(promotions') = Len(promotions) \/ LoadAndRecord
  BY <1>0, NextPromotions, PromotionsTyped
<1>6. exec'.pc \in RecordPCs => exec'.promotion = Len(promotions')
  <2>1. CASE LoadAndRecord
    BY <1>0, <2>1, RecordingFrame, RecordingPromotion
  <2>2. CASE ~ LoadAndRecord
    BY <1>0, <1>1, <1>2, <1>3, <1>5, <2>2, RecordPlaces
  <2> QED BY <2>1, <2>2
\* The pack's records and its loaded code.
<1> DEFINE Fits(n) == /\ loaded[n] # Nothing => HoldsLatest(n)
                      /\ loaded[n] = Nothing /\ Group(n) # {} => TakenDown(n)
<1>7. ASSUME NEW n \in Packs, Len(promotions') = Len(promotions),
             loaded'[n] = loaded[n],
             \A i \in Group(n) : promotions[i].rolledBack => promotions'[i].rolledBack,
             \A i \in Group(n) : LatestOf(n, i) /\ promotions[i].status # "disabled"
                                   => promotions'[i].status # "disabled",
             exec.pc # "rollback" \/ UNCHANGED exec
      PROVE  Fits(n)'
  <2>1. Group(n)' = Group(n) BY <1>5, <1>7, GroupsStay
  <2> QED BY <1>0, <1>2, <1>5, <1>7, <2>1, LatestStays DEF Nothing
<1>8. ASSUME NEW n \in Packs PROVE Fits(n)'
  <2>1. CASE LoadAndRecord
    <3> DEFINE p == exec.proposal
    <3>0. PICK k \in Nat : k = Len(promotions) + 1 BY <1>0
    <3>1. /\ Len(promotions') = k /\ p \in Proposals
          /\ promotions'[k].proposal = p /\ promotions'[k].status = "loading"
          /\ \A i \in 1..Len(promotions) : promotions'[i] = promotions[i]
      BY <1>0, <2>1, <3>0, RecordingPromotion
    <3>2. loaded' = [loaded EXCEPT ![PackOf[p]] =
                       [proposal |-> p, pinned |-> p \notin tampered]]
      BY <2>1 DEF LoadAndRecord
    <3>3. exec.pc # "rollback" BY <2>1 DEF LoadAndRecord
    <3>4. Group(n)' = Group(n) \cup (IF PackOf[p] = n THEN {k} ELSE {})
      BY <1>0, <3>0, <3>1 DEF Group, NameOf
    <3>5. Group(n) \subseteq 1..Len(promotions) BY DEF Group
    <3>6. CASE PackOf[p] = n
      <4>1. loaded'[n].proposal = p /\ p # NoProposal BY <1>0, <3>1, <3>2, <3>6
      <4>2. k \in Group(n)' /\ LatestOf(n, k)'
        BY <1>0, <3>0, <3>4, <3>5, <3>6 DEF LatestOf
      <4> QED BY <3>1, <4>1, <4>2 DEF HoldsLatest, Nothing
    <3>7. CASE PackOf[p] # n
      <4>1. loaded'[n] = loaded[n] /\ Group(n)' = Group(n)
        BY <1>0, <3>2, <3>4, <3>7
      <4>2. \A i \in Group(n) : promotions'[i] = promotions[i] BY <3>1, <3>5
      <4> QED BY <1>2, <3>3, <4>1, <4>2 DEF HoldsLatest, TakenDown, LatestOf, Nothing
    <3> QED BY <3>6, <3>7
  <2>2. ASSUME NEW i \in 1..Len(promotions), DisablePack(i) PROVE Fits(n)'
    <3>1. exec.pc = "ticket" BY <2>2 DEF DisablePack
    <3>2. CASE UNCHANGED <<loaded, promotions>>
      BY <1>7, <3>1, <3>2
    <3>3. CASE /\ loaded' = [loaded EXCEPT ![NameOf(i)] = Nothing]
               /\ SetPromotion(i, "disabled")
               /\ exec' = [Working("rollback", promotions[i].proposal)
                             EXCEPT !.promotion = i]
      <4>1. /\ Len(promotions') = Len(promotions)
            /\ \A j \in 1..Len(promotions) :
                 /\ promotions'[j].status = IF j = i THEN "disabled"
                                            ELSE promotions[j].status
                 /\ promotions'[j].rolledBack = promotions[j].rolledBack
        BY <1>0, <3>3, SettingPromotion DEF PromotionStates
      <4>2. Group(n) \subseteq 1..Len(promotions) BY DEF Group
      <4>3. CASE n = NameOf(i)
        <5>1. loaded'[n] = Nothing BY <1>0, <3>3, <4>3
        <5>2. exec'.pc = "rollback" /\ exec'.promotion = i
          BY <1>0, <3>1, <3>3, RollbackFrame
        <5>3. i \in Group(n)'
          BY <1>5, <4>1, <4>3, GroupsStay DEF Group
        <5> QED BY <5>1, <5>2, <5>3 DEF TakenDown
      <4>4. CASE n # NameOf(i)
        <5>1. loaded'[n] = loaded[n] BY <1>0, <3>3, <4>4
        <5>2. i \notin Group(n) BY <4>4 DEF Group
        <5> QED BY <1>7, <3>1, <4>1, <4>2, <5>1, <5>2
      <4> QED BY <4>3, <4>4
    <3> QED BY <2>2, <3>2, <3>3 DEF DisablePack
  <2>3. CASE AddRollback
    <3>1. exec.pc = "rollback" /\ UNCHANGED loaded BY <2>3 DEF AddRollback
    <3>2. /\ Len(promotions') = Len(promotions)
          /\ \A i \in 1..Len(promotions) :
               /\ promotions'[i].status = promotions[i].status
               /\ i = exec.promotion => promotions'[i].rolledBack
               /\ i # exec.promotion =>
                    promotions'[i].rolledBack = promotions[i].rolledBack
      BY <1>0, <2>3, RollingBack
    <3>3. Group(n) \subseteq 1..Len(promotions) /\ Group(n)' = Group(n)
      BY <1>5, <3>2, GroupsStay DEF Group
    <3>4. HoldsLatest(n) => HoldsLatest(n)'
      BY <1>0, <1>5, <3>1, <3>2, <3>3, LatestStays
    <3>5. TakenDown(n) => TakenDown(n)'
      BY <3>2, <3>3 DEF TakenDown
    <3> QED BY <1>2, <3>1, <3>3, <3>4, <3>5 DEF Nothing
  <2>4. CASE PromotionRecorder
    <3> DEFINE i == SmallestOf(Recorded(promotions[exec.promotion].fork))
    <3>1. /\ exec.pc = "record" /\ SetPromotion(i, "active") /\ UNCHANGED loaded
      BY <2>4 DEF PromotionRecorder
    <3>2. i \in 1..Len(promotions)
      BY <1>0, <3>1, RecordedAreLoading DEF BaseInv
    <3> HIDE DEF i
    <3>3. /\ Len(promotions') = Len(promotions)
          /\ \A j \in 1..Len(promotions) :
               /\ promotions'[j].status = IF j = i THEN "active" ELSE promotions[j].status
               /\ promotions'[j].rolledBack = promotions[j].rolledBack
      BY <1>0, <3>1, <3>2, SettingPromotion DEF PromotionStates
    <3>4. Group(n) \subseteq 1..Len(promotions) BY DEF Group
    <3> QED BY <1>7, <3>1, <3>3, <3>4
  <2>5. CASE SupersedePriorActive
    <3> DEFINE i == SmallestOf(Rivals(exec.promotion))
    <3>1. /\ exec.pc = "supersede" /\ SetPromotion(i, "disabled") /\ UNCHANGED loaded
      BY <2>5 DEF SupersedePriorActive, LoadedAfterSupersede
    <3>2. /\ i \in 1..Len(promotions) /\ NameOf(i) = NameOf(exec.promotion)
          /\ i # exec.promotion
      BY <1>0, <3>1, RivalOfPromotion DEF BaseInv, FrameFollows
    <3>3. exec.promotion = Len(promotions) /\ exec.promotion \in 1..Len(promotions)
      BY <1>0, <1>2, <3>1, <3>2 DEF RecordPCs
    <3> HIDE DEF i
    <3>4. ~ LatestOf(n, i)
      BY <1>0, <3>2, <3>3 DEF LatestOf, Group
    <3>5. /\ Len(promotions') = Len(promotions)
          /\ \A j \in 1..Len(promotions) :
               /\ promotions'[j].status = IF j = i THEN "disabled"
                                          ELSE promotions[j].status
               /\ promotions'[j].rolledBack = promotions[j].rolledBack
      BY <1>0, <3>1, <3>2, SettingPromotion DEF PromotionStates
    <3>6. Group(n) \subseteq 1..Len(promotions) BY DEF Group
    <3> QED BY <1>7, <3>1, <3>4, <3>5, <3>6
  <2>6. CASE /\ UNCHANGED <<promotions, loaded>>
             /\ exec.pc # "rollback" \/ UNCHANGED exec
    BY <1>7, <2>6
  <2> QED BY <1>1, <1>3, <2>1, <2>2, <2>3, <2>4, <2>5, <2>6, RecordSteps
<1> QED BY <1>4, <1>6, <1>8 DEF LatestInv

\* Unless the process crashes, a loaded pack is its latest version, which no ticket has
\* disabled, and a pack with an active promotion is down only after a rollback: for any
\* number of versions, retries and disables.
THEOREM LatestIsHeld == Spec => []RuntimeHoldsLatest
<1> DEFINE Inv == BaseInv /\ LatestInv
<1>1. Init => Inv
  <2> SUFFICES ASSUME Init PROVE Inv OBVIOUS
  <2>1. /\ promotions = <<>> /\ exec = Idle /\ loaded = [n \in Packs |-> Nothing]
    BY DEF Init
  <2>2. \A n : Group(n) = {} BY <2>1 DEF Group
  <2> QED BY <2>1, <2>2, InitTypes, RestingFrames DEF LatestInv, BootPCs, RecordPCs
<1>2. Inv /\ [Next]_vars => Inv'
  <2> SUFFICES ASSUME Inv, [Next]_vars PROVE Inv' OBVIOUS
  <2>1. BaseInv' BY NextTypes, NextFollows DEF BaseInv
  <2> QED BY <2>1, LatestNext
<1>3. Inv => RuntimeHoldsLatest
  <2> SUFFICES ASSUME Inv, exec = Idle, crashes = 0, NEW n \in Packs
               PROVE  /\ loaded[n] # Nothing =>
                           \E i \in Group(n) :
                             /\ \A j \in Group(n) : j <= i
                             /\ promotions[i].proposal = loaded[n].proposal
                             /\ promotions[i].status # "disabled"
                      /\ loaded[n] = Nothing /\ InGroup(n, "active") # {} =>
                           \E j \in Group(n) : promotions[j].rolledBack
    BY DEF RuntimeHoldsLatest
  <2>1. loaded[n] # Nothing => HoldsLatest(n) BY DEF LatestInv
  <2>2. loaded[n] = Nothing /\ Group(n) # {} => TakenDown(n) BY DEF LatestInv
  <2>3. exec.pc # "rollback" BY RestingFrames
  <2>4. InGroup(n, "active") # {} => Group(n) # {} BY DEF InGroup
  <2> QED BY <2>1, <2>2, <2>3, <2>4 DEF HoldsLatest, TakenDown, LatestOf
<1> QED BY <1>1, <1>2, <1>3, PTL DEF Spec

-----------------------------------------------------------------------------
(* One adoption for one request *)

\* A claim on an adoption is a ticket somebody will still work on: it is open, waits for
\* its retry, or its aborted attempt is in the frame.
OpenPCs == {"gates", "abort", "fork", "promote", "done"}
RetryPCs == {"retrial", "verdict", "requeue"}
Retries(f) == f.pc \in RetryPCs \/ (f.pc = "patch" /\ f.to \in Retryable)
Hand(f, open) == open \cup f.again \cup (IF Retries(f) THEN {f.ticket} ELSE {})
Hands == Hand(exec, OpenTickets) \cap (1..Len(tickets))
Claims(p) == {t \in Hands : tickets[t].proposal = p}

\* A ticket is in one hand only.
HandFits(f, open) ==
  /\ f.todo \subseteq open
  /\ f.again \cap open = {}
  /\ f.ticket \notin f.todo
  /\ f.pc \in OpenPCs => f.ticket \in open
  /\ f.pc \in RetryPCs \cup {"patch"} => f.ticket \notin f.again \cup open
  /\ f.pc \in BootPCs \cup {"down"} => f.again = {} /\ f.todo = {}
TicketInHand == HandFits(exec, OpenTickets)

\* Which tickets are open after a step on the table.
LEMMA OpenAfterSetting ==
  ASSUME TypeInv, NEW t \in 1..Len(tickets), NEW s \in {"done", "aborted"}, SetTicket(t, s)
  PROVE  OpenTickets' = OpenTickets \ {t} /\ Len(tickets') = Len(tickets)
  BY SettingTicket DEF OpenTickets, TicketStates

LEMMA OpenAfterOpening ==
  ASSUME TypeInv, NEW new \in Tickets, new.status = "open",
         tickets' = Append(tickets, new)
  PROVE  /\ OpenTickets' = OpenTickets \cup {Len(tickets) + 1}
         /\ Len(tickets') = Len(tickets) + 1
<1> DEFINE n == Len(tickets)
<1>1. /\ n \in Nat /\ Len(tickets') = n + 1 /\ tickets'[n + 1].status = "open"
      /\ \A t \in 1..n : tickets'[t] = tickets[t]
  BY OpeningTicket, TableTypes
<1>2. 1..Len(tickets') = (1..n) \cup {n + 1} BY <1>1
<1>3. ASSUME NEW t PROVE t \in OpenTickets' <=> t \in OpenTickets \cup {n + 1}
  BY <1>1, <1>2 DEF OpenTickets
<1> QED BY <1>1, <1>3

LEMMA OpenAfterHealing ==
  ASSUME TypeInv, HealsTickets
  PROVE  /\ OpenTickets' =
              OpenTickets \ HealedTickets(promotions[exec.promotion].proposal)
         /\ Len(tickets') = Len(tickets)
  BY HealingTickets DEF OpenTickets

\* What the thread has in hand where it goes.
LEMMA RestingHand ==
  ASSUME NEW f, NEW open, f.again = {}, f.todo = {}, f.pc \notin OpenPCs \cup RetryPCs,
         f.pc # "patch"
  PROVE  HandFits(f, open) /\ Hand(f, open) = open
  BY DEF HandFits, Hand, Retries

LEMMA SweepingHand ==
  ASSUME TypeInv, NEW todo \in SUBSET (1..Len(tickets)), NEW again \in SUBSET Adoptions,
         NEW open, todo \subseteq open, again \cap open = {}
  PROVE  /\ HandFits(After(todo, again), open)
         /\ Hand(After(todo, again), open) \subseteq open \cup again
<1> DEFINE f == After(todo, again)
<1>1. /\ f.pc \in {"ticket", "retry", "idle"} /\ f.todo = todo /\ f.again \subseteq again
  BY AfterIsFrame
<1>2. f.ticket = 0
  BY RestingFrames DEF After, Frames
<1>3. 0 \notin todo BY TableTypes
<1> HIDE DEF f
<1>4. HandFits(f, open)
  BY <1>1, <1>2, <1>3 DEF HandFits, OpenPCs, RetryPCs, BootPCs
<1>5. Hand(f, open) \subseteq open \cup again BY <1>1 DEF Hand, Retries, RetryPCs
<1> QED BY <1>4, <1>5 DEF f

LEMMA WorkingHand ==
  ASSUME NEW f, NEW open, f.todo \subseteq open, f.again \cap open = {},
         f.ticket \notin f.todo, ~Retries(f), f.pc # "patch",
         f.pc \notin BootPCs \cup {"down"},
         f.pc \in OpenPCs => f.ticket \in open
  PROVE  HandFits(f, open) /\ Hand(f, open) = open \cup f.again
  BY DEF HandFits, Hand, Retries, BootPCs

LEMMA RetryingHand ==
  ASSUME NEW f, NEW open, f.todo \subseteq open, f.again \cap open = {},
         f.ticket \notin f.todo, f.ticket \notin f.again \cup open,
         f.pc \in RetryPCs \cup {"patch"}
  PROVE  HandFits(f, open) /\ Hand(f, open) \subseteq open \cup f.again \cup {f.ticket}
  BY DEF HandFits, Hand, Retries, RetryPCs, BootPCs, OpenPCs

HandsKept ==
  TicketInHand' /\ Hands' \subseteq Hands /\ Len(tickets') = Len(tickets)
\* A ticket of p is opened; what is closed for it leaves the hand.
HandsOpen(p, closed) ==
  /\ TicketInHand' /\ Hands' \subseteq (Hands \ closed) \cup {Len(tickets) + 1}
  /\ Len(tickets') = Len(tickets) + 1 /\ tickets'[Len(tickets) + 1].proposal = p

\* From a hand the next frame has to one the next state has.
LEMMA KeepingHands ==
  ASSUME HandFits(exec', OpenTickets'), Len(tickets') = Len(tickets),
         Hand(exec', OpenTickets') \cap (1..Len(tickets)) \subseteq Hands
  PROVE  HandsKept
  BY DEF HandsKept, TicketInHand, Hands, HandFits, Hand, Retries
LEMMA OpeningHands ==
  ASSUME NEW p, NEW closed, HandFits(exec', OpenTickets'),
         Len(tickets') = Len(tickets) + 1, tickets'[Len(tickets) + 1].proposal = p,
         Hand(exec', OpenTickets') \cap (1..Len(tickets'))
           \subseteq (Hands \ closed) \cup {Len(tickets) + 1}
  PROVE  HandsOpen(p, closed)
  BY DEF HandsOpen, TicketInHand, Hands, HandFits, Hand, Retries

LEMMA OpenAreTickets == OpenTickets \in SUBSET (1..Len(tickets))
  BY DEF OpenTickets

\* The thread rests in between, or begins or ends a function without tickets.
LEMMA AuthoringHands ==
  ASSUME BaseInv, TicketInHand,
         \/ Authoring \/ Tampering \/ Patches \/ StartSweep \/ Crash \/ UNCHANGED vars
         \/ \E p \in Proposals : ProposalGatekeeper(p) \/ DenyAdoption(p)
         \/ \E i \in 1..Len(promotions) : RequestDisable(i)
  PROVE  HandsKept
<1>0. TypeInv BY DEF BaseInv
<1>1. tickets' = tickets
  BY DEF Authoring, SubmitProposal, RunTrial, RequestAdoption, Tampering, TamperArtifacts,
         Patches, RecordVerdict, MarkPending, MarkAdopting, StartSweep, Crash,
         ProposalGatekeeper, DenyAdoption, RequestDisable, graph, vars
<1>2. OpenTickets' = OpenTickets /\ Len(tickets') = Len(tickets) BY <1>1 DEF OpenTickets
<1>3. OpenTickets \subseteq Hands BY OpenAreTickets DEF Hands, Hand
<1>4. CASE exec' = exec
  BY <1>2, <1>4, KeepingHands DEF TicketInHand, Hands
<1>5. CASE /\ exec'.again = {} /\ exec'.todo = {} /\ exec'.pc # "patch"
           /\ exec'.pc \notin OpenPCs \cup RetryPCs
  <2>1. HandFits(exec', OpenTickets) /\ Hand(exec', OpenTickets) = OpenTickets
    BY <1>5, RestingHand
  <2> QED BY <1>2, <1>3, <2>1, KeepingHands
<1>6. CASE exec' = Idle \/ Crash
  BY <1>5, <1>6, RestingFrames DEF Crash, OpenPCs, RetryPCs
<1>7. CASE exec = Idle /\ \E p \in Proposals, pc \in {"request", "adopting"} :
             exec' = [Idle EXCEPT !.pc = pc, !.proposal = p]
  <2>1. /\ exec'.pc \in {"request", "adopting"} /\ exec'.again = {} /\ exec'.todo = {}
    BY <1>7, RestingFrames DEF Frames
  <2> QED BY <1>5, <2>1 DEF OpenPCs, RetryPCs
<1>8. CASE \E p \in Proposals : RunTrial(p)
  <2>1. PICK p \in Proposals : RunTrial(p) BY <1>8
  <2>2. exec = Idle BY <2>1 DEF RunTrial
  <2>3. CASE exec' = After({}, exec.again)
    <3>1. exec' = Idle BY <2>2, <2>3, RestingFrames DEF After
    <3> QED BY <1>6, <3>1
  <2>4. CASE exec' = [exec EXCEPT !.pc = "verdict", !.proposal = p]
    <3>1. /\ exec'.pc = "verdict" /\ exec'.todo = {} /\ exec'.again = {}
          /\ exec'.ticket = 0
      BY <2>2, <2>4, RestingFrames DEF Frames
    <3>2. 0 \notin OpenTickets BY <1>0, TableTypes DEF OpenTickets
    <3>3. HandFits(exec', OpenTickets) BY <3>1, <3>2, RetryingHand DEF RetryPCs
    <3>4. Hand(exec', OpenTickets) \subseteq OpenTickets \cup {0}
      BY <3>1 DEF Hand
    <3>5. 0 \notin 1..Len(tickets) BY <1>0, TableTypes
    <3> QED BY <1>2, <1>3, <3>3, <3>4, <3>5, KeepingHands
  <2> QED BY <2>1, <2>3, <2>4 DEF RunTrial, TrialOutcome
<1>9. CASE RecordVerdict /\ exec.ticket # 0
  <2>1. exec.pc = "verdict" /\ exec' = [exec EXCEPT !.pc = "requeue"]
    BY <1>9 DEF RecordVerdict
  <2>2. /\ exec'.pc = "requeue" /\ exec'.todo = exec.todo /\ exec'.again = exec.again
        /\ exec'.ticket = exec.ticket
    BY <1>0, <2>1, GoesOn DEF PCs
  <2>3. /\ exec.todo \subseteq OpenTickets /\ exec.again \cap OpenTickets = {}
        /\ exec.ticket \notin exec.todo /\ exec.ticket \notin exec.again \cup OpenTickets
    BY <2>1 DEF TicketInHand, HandFits, RetryPCs
  <2>4. /\ HandFits(exec', OpenTickets)
        /\ Hand(exec', OpenTickets) \subseteq OpenTickets \cup exec.again \cup {exec.ticket}
    BY <2>2, <2>3, RetryingHand DEF RetryPCs
  <2>5. Hand(exec, OpenTickets) = OpenTickets \cup exec.again \cup {exec.ticket}
    BY <2>1 DEF Hand, Retries, RetryPCs
  <2> QED BY <1>2, <2>4, <2>5, KeepingHands DEF Hands
<1>10. CASE StartSweep
  <2>1. exec' = After(OpenTickets, {}) BY <1>10 DEF StartSweep
  <2>2. /\ HandFits(exec', OpenTickets) /\ Hand(exec', OpenTickets) \subseteq OpenTickets
    <3>1. {} \in SUBSET Adoptions /\ {} \cap OpenTickets = {} OBVIOUS
    <3>2. /\ HandFits(After(OpenTickets, {}), OpenTickets)
          /\ Hand(After(OpenTickets, {}), OpenTickets) \subseteq OpenTickets \cup {}
      BY <1>0, <3>1, OpenAreTickets, SweepingHand
    <3> QED BY <2>1, <3>2
  <2> QED BY <1>2, <1>3, <2>2, KeepingHands
<1> QED BY <1>4, <1>6, <1>7, <1>8, <1>9, <1>10
        DEF Authoring, SubmitProposal, RequestAdoption, Tampering, TamperArtifacts,
            Patches, RecordVerdict, MarkPending, MarkAdopting, ProposalGatekeeper,
            DenyAdoption, RequestDisable, vars

\* The owner opens a ticket of what was approved.
LEMMA ApprovingHands ==
  ASSUME BaseInv, TicketInHand, NEW p \in Proposals, ApproveAdoption(p)
  PROVE  HandsKept \/ HandsOpen(p, {})
<1>0. TypeInv /\ exec = Idle BY DEF BaseInv, ApproveAdoption
<1>1. OpenTickets \subseteq Hands BY OpenAreTickets DEF Hands, Hand
<1>2. CASE OpenAdoption(p) /\ exec' = [Idle EXCEPT !.pc = "adopting", !.proposal = p]
  <2> DEFINE new == [kind |-> "adopt", proposal |-> p, promotion |-> 0,
                     status |-> "open"]
  <2>1. new \in Tickets /\ new.status = "open" /\ new.proposal = p BY DEF Tickets
  <2>2. tickets' = Append(tickets, new) BY <1>2 DEF OpenAdoption
  <2> HIDE DEF new
  <2>3. /\ OpenTickets' = OpenTickets \cup {Len(tickets) + 1}
        /\ Len(tickets') = Len(tickets) + 1
        /\ tickets'[Len(tickets) + 1].proposal = p
    BY <1>0, <2>1, <2>2, OpenAfterOpening, OpeningTicket
  <2>4. exec'.pc = "adopting" /\ exec'.again = {} /\ exec'.todo = {}
    BY <1>2, RestingFrames DEF Frames
  <2>5. HandFits(exec', OpenTickets') /\ Hand(exec', OpenTickets') = OpenTickets'
    BY <2>4, RestingHand DEF OpenPCs, RetryPCs
  <2>6. Hand(exec', OpenTickets') \cap (1..Len(tickets'))
          \subseteq (Hands \ {}) \cup {Len(tickets) + 1}
    BY <1>1, <2>3, <2>5
  <2> QED BY <2>3, <2>5, <2>6, OpeningHands
<1>3. CASE UNCHANGED <<tickets, exec>>
  <2>1. OpenTickets' = OpenTickets BY <1>3 DEF OpenTickets
  <2> QED BY <1>3, <2>1, KeepingHands DEF TicketInHand, Hands
<1> QED BY <1>2, <1>3 DEF ApproveAdoption

LEMMA DisablingHands ==
  ASSUME BaseInv, TicketInHand, NEW i \in 1..Len(promotions), ApproveDisable(i)
  PROVE  HandsOpen(NoProposal, {})
<1>0. TypeInv /\ exec = Idle /\ exec' = exec BY DEF BaseInv, ApproveDisable
<1>1. OpenTickets \subseteq Hands BY OpenAreTickets DEF Hands, Hand
<1> DEFINE new == [kind |-> "disable", proposal |-> NoProposal, promotion |-> i,
                   status |-> "open"]
<1>2. new \in Tickets /\ new.status = "open" /\ new.proposal = NoProposal
  BY <1>0, TableTypes DEF Tickets
<1>3. tickets' = Append(tickets, new) BY DEF ApproveDisable
<1> HIDE DEF new
<1>4. /\ OpenTickets' = OpenTickets \cup {Len(tickets) + 1}
      /\ Len(tickets') = Len(tickets) + 1
      /\ tickets'[Len(tickets) + 1].proposal = NoProposal
  BY <1>0, <1>2, <1>3, OpenAfterOpening, OpeningTicket
<1>5. HandFits(exec', OpenTickets') /\ Hand(exec', OpenTickets') = OpenTickets'
  BY <1>0, RestingFrames, RestingHand DEF OpenPCs, RetryPCs
<1>6. Hand(exec', OpenTickets') \cap (1..Len(tickets'))
        \subseteq (Hands \ {}) \cup {Len(tickets) + 1}
  BY <1>1, <1>4, <1>5
<1> QED BY <1>4, <1>5, <1>6, OpeningHands

\* The sweep goes on, or its frame with the ticket at hand.
LEMMA SweepOn ==
  ASSUME BaseInv, Len(tickets') = Len(tickets), OpenTickets' \subseteq OpenTickets,
         NEW todo \in SUBSET OpenTickets', NEW again \in SUBSET Adoptions,
         again \cap OpenTickets' = {}, again \subseteq Hands, exec' = After(todo, again)
  PROVE  HandsKept /\ Hands' \subseteq OpenTickets' \cup again
<1>0. TypeInv BY DEF BaseInv
<1>1. todo \in SUBSET (1..Len(tickets)) BY OpenAreTickets
<1>2. /\ HandFits(exec', OpenTickets')
      /\ Hand(exec', OpenTickets') \subseteq OpenTickets' \cup again
  BY <1>0, <1>1, SweepingHand
<1>3. OpenTickets \subseteq Hands BY OpenAreTickets DEF Hands, Hand
<1>4. HandsKept BY <1>2, <1>3, KeepingHands
<1>5. Hands' = Hand(exec', OpenTickets') \cap (1..Len(tickets'))
  BY DEF Hands, Hand, Retries
<1> QED BY <1>2, <1>4, <1>5

LEMMA WorkOn ==
  ASSUME BaseInv, TicketInHand, Len(tickets') = Len(tickets),
         OpenTickets' \subseteq OpenTickets,
         exec'.todo \subseteq OpenTickets', exec'.again = exec.again,
         exec'.ticket \notin exec'.todo, ~Retries(exec'), exec'.pc # "patch",
         exec'.pc \notin BootPCs \cup {"down"},
         exec'.pc \in OpenPCs => exec'.ticket \in OpenTickets'
  PROVE  HandsKept /\ Hands' \subseteq OpenTickets' \cup exec.again
<1>1. exec.again \cap OpenTickets' = {} BY DEF TicketInHand, HandFits
<1>2. /\ HandFits(exec', OpenTickets')
      /\ Hand(exec', OpenTickets') = OpenTickets' \cup exec.again
  BY <1>1, WorkingHand
<1>3. (OpenTickets \cup exec.again) \cap (1..Len(tickets)) \subseteq Hands
  BY DEF Hands, Hand
<1>4. HandsKept BY <1>2, <1>3, KeepingHands
<1>5. Hands' = Hand(exec', OpenTickets') \cap (1..Len(tickets'))
  BY DEF Hands, Hand, Retries
<1> QED BY <1>2, <1>4, <1>5

\* An attempt ends, its ticket still in hand.
LEMMA AbortOn ==
  ASSUME BaseInv, TicketInHand, Len(tickets') = Len(tickets),
         OpenTickets' = OpenTickets \ {exec'.ticket}, exec'.ticket \in OpenTickets,
         exec'.todo = exec.todo \ {exec'.ticket}, exec'.again = exec.again,
         exec'.pc = "patch"
  PROVE  HandsKept
<1>1. /\ exec.todo \subseteq OpenTickets /\ exec.again \cap OpenTickets = {}
  BY DEF TicketInHand, HandFits
<1>2. /\ HandFits(exec', OpenTickets')
      /\ Hand(exec', OpenTickets')
           \subseteq OpenTickets' \cup exec.again \cup {exec'.ticket}
  BY <1>1, RetryingHand
<1>3. (OpenTickets \cup exec.again) \cap (1..Len(tickets)) \subseteq Hands
  BY DEF Hands, Hand
<1> QED BY <1>2, <1>3, KeepingHands

LEMMA HandParts ==
  ASSUME BaseInv, TicketInHand
  PROVE  /\ exec.todo \in SUBSET OpenTickets /\ exec.again \in SUBSET Adoptions
         /\ exec.again \cap OpenTickets = {} /\ exec.again \subseteq Hands
         /\ exec.ticket \notin exec.todo
         /\ exec.pc = "ticket" => /\ Current \in exec.todo
                                  /\ Current \in 1..Len(tickets)
         /\ exec.pc \in AdoptionPCs \cup DisablePCs => exec.ticket \in 1..Len(tickets)
         /\ exec.pc \in AdoptionPCs => exec.ticket \in Adoptions
<1>1. TypeInv BY DEF BaseInv
<1>2. exec.again \in SUBSET Adoptions BY <1>1, FrameFields
<1>3. exec.again \subseteq Hands BY <1>2 DEF Hands, Hand, Adoptions
<1> QED BY <1>1, <1>2, <1>3, CurrentIsTicket
        DEF TicketInHand, HandFits, TypeInv, FrameOK, Adoptions

\* An adoption's own ticket is closed once its promotion is done.
LEMMA AdoptHands ==
  ASSUME BaseInv, TicketInHand, AdoptStep
  PROVE  HandsKept /\ (CloseAdoption => exec.ticket \notin Hands')
<1>0. TypeInv /\ exec \in Frames BY FrameFields DEF BaseInv
<1>1. /\ exec.todo \in SUBSET OpenTickets /\ exec.again \in SUBSET Adoptions
      /\ exec.again \cap OpenTickets = {} /\ exec.again \subseteq Hands
      /\ exec.ticket \notin exec.todo
  BY HandParts
<1>2. \A t \in 1..Len(tickets), s \in {"done", "aborted"} :
        SetTicket(t, s) => /\ OpenTickets' = OpenTickets \ {t}
                           /\ Len(tickets') = Len(tickets)
  BY <1>0, OpenAfterSetting
<1>3. UNCHANGED tickets => OpenTickets' = OpenTickets /\ Len(tickets') = Len(tickets)
  BY DEF OpenTickets
<1>4. exec.pc = "ticket" => Current \in exec.todo /\ Current \in 1..Len(tickets)
  BY HandParts
<1>5. exec.pc \in AdoptionPCs => exec.ticket \in 1..Len(tickets) /\ exec.ticket \in Adoptions
  BY HandParts DEF Adoptions
<1>6. exec.pc \in OpenPCs => exec.ticket \in OpenTickets BY DEF TicketInHand, HandFits
<1>7. CASE \E p \in Proposals : RefuseParked(p)
  <2>1. /\ exec.pc = "ticket" /\ SetTicket(Current, "aborted")
        /\ exec' = After(exec.todo \ {Current}, exec.again)
    BY <1>7 DEF RefuseParked, TakesAdoption
  <2>2. OpenTickets' = OpenTickets \ {Current} /\ Len(tickets') = Len(tickets)
    BY <1>2, <1>4, <2>1
  <2>3. HandsKept BY <1>1, <2>1, <2>2, SweepOn
  <2> QED BY <2>1, <2>3 DEF CloseAdoption
<1>8. CASE \E p \in Proposals : HashMismatch(p)
  <2>1. PICK p \in Proposals : HashMismatch(p) BY <1>8
  <2>2. /\ exec.pc = "ticket" /\ SetTicket(Current, "aborted")
        /\ exec' = [Working("patch", p) EXCEPT !.to = "suspended"]
    BY <2>1 DEF HashMismatch, TakesAdoption
  <2>3. /\ Working("patch", p) \in Frames /\ Working("patch", p).pc = "patch"
        /\ Working("patch", p).ticket = Current
        /\ Working("patch", p).todo = exec.todo \ {Current}
        /\ Working("patch", p).again = exec.again
    BY <1>0, <2>2, WorkingFrames DEF PCs
  <2>4. /\ exec'.pc = "patch" /\ exec'.ticket = Current
        /\ exec'.todo = exec.todo \ {Current} /\ exec'.again = exec.again
    BY <2>2, <2>3 DEF Frames
  <2>5. OpenTickets' = OpenTickets \ {Current} /\ Len(tickets') = Len(tickets)
    BY <1>2, <1>4, <2>2
  <2>6. HandsKept BY <1>1, <1>4, <2>2, <2>4, <2>5, AbortOn
  <2> QED BY <2>2, <2>6 DEF CloseAdoption
<1>9. CASE \E p \in Proposals : Regate(p)
  <2>1. PICK p \in Proposals : Regate(p) BY <1>9
  <2>2. exec.pc = "ticket" /\ UNCHANGED tickets /\ exec' = Working("gates", p)
    BY <2>1 DEF Regate, TakesAdoption
  <2>3. /\ exec'.pc = "gates" /\ exec'.ticket = Current
        /\ exec'.todo = exec.todo \ {Current} /\ exec'.again = exec.again
    BY <1>0, <2>2, WorkingFrames DEF PCs
  <2>4. HandsKept
    BY <1>1, <1>3, <1>4, <2>2, <2>3, WorkOn DEF Retries, RetryPCs, BootPCs
  <2> QED BY <2>2, <2>4 DEF CloseAdoption
\* From one place of a ticket's adoption to another, the ticket open or no longer needed.
<1>10. ASSUME exec.pc \in AdoptionPCs,
              NEW pc \in AdoptionPCs \ (RetryPCs \cup {"patch"}), exec'.pc = pc,
              exec'.todo = exec.todo, exec'.again = exec.again, exec'.ticket = exec.ticket,
              UNCHANGED tickets, pc \in OpenPCs => exec.pc \in OpenPCs
       PROVE  HandsKept
  <2>1. exec'.pc \notin BootPCs \cup {"down"} BY <1>10 DEF AdoptionPCs, BootPCs
  <2>2. ~Retries(exec') /\ exec'.pc # "patch" BY <1>10 DEF Retries
  <2> QED BY <1>1, <1>3, <1>6, <1>10, <2>1, <2>2, WorkOn
<1>11. CASE RerunGates
  <2>1. /\ exec.pc = "gates" /\ UNCHANGED tickets
        /\ \E pc \in {"fork", "abort"} : exec' = [exec EXCEPT !.pc = pc]
    BY <1>11 DEF RerunGates
  <2>2. /\ exec'.pc \in {"fork", "abort"} /\ exec'.todo = exec.todo
        /\ exec'.again = exec.again /\ exec'.ticket = exec.ticket
    BY <1>0, <2>1 DEF Frames
  <2>3. HandsKept BY <1>10, <2>1, <2>2 DEF AdoptionPCs, RetryPCs, OpenPCs
  <2> QED BY <2>1, <2>3 DEF CloseAdoption
<1>12. CASE AbortAfterGates
  <2>1. /\ exec.pc = "abort" /\ SetTicket(exec.ticket, "aborted")
        /\ exec' = After(exec.todo, exec.again)
    BY <1>12 DEF AbortAfterGates
  <2>2. OpenTickets' = OpenTickets \ {exec.ticket} /\ Len(tickets') = Len(tickets)
    BY <1>2, <1>5, <2>1 DEF AdoptionPCs
  <2>3. HandsKept BY <1>1, <2>1, <2>2, SweepOn
  <2> QED BY <2>1, <2>3 DEF CloseAdoption
<1>13. ASSUME exec.pc \in {"fork", "promote"}, SetTicket(exec.ticket, "aborted"), NEW to,
              exec' = [exec EXCEPT !.pc = "patch", !.to = to]
       PROVE  HandsKept
  <2>1. OpenTickets' = OpenTickets \ {exec.ticket} /\ Len(tickets') = Len(tickets)
    BY <1>2, <1>5, <1>13 DEF AdoptionPCs
  <2>2. /\ exec'.pc = "patch" /\ exec'.todo = exec.todo /\ exec'.again = exec.again
        /\ exec'.ticket = exec.ticket
    BY <1>0, <1>13 DEF Frames
  <2>3. exec.ticket \in OpenTickets BY <1>6, <1>13 DEF OpenPCs
  <2>4. exec'.todo = exec.todo \ {exec'.ticket} BY <1>1, <2>2
  <2> QED BY <2>1, <2>2, <2>3, <2>4, AbortOn
<1>14. CASE ForkLostOrConflict
  BY <1>13, <1>14 DEF ForkLostOrConflict, CloseAdoption
<1>15. CASE LoadAndRecord
  <2>1. /\ exec.pc = "fork" /\ UNCHANGED tickets /\ exec'.pc = "promote"
        /\ exec'.todo = exec.todo /\ exec'.again = exec.again
        /\ exec'.ticket = exec.ticket
    BY <1>0, <1>15, RecordingFrame DEF LoadAndRecord
  <2>2. HandsKept BY <1>10, <2>1 DEF AdoptionPCs, RetryPCs, OpenPCs
  <2> QED BY <2>1, <2>2 DEF CloseAdoption
<1>16. CASE Promote
  <2>1. exec.pc = "promote" BY <1>16 DEF Promote
  <2>2. CASE exec' = [exec EXCEPT !.pc = "done"] /\ UNCHANGED tickets
    <3>1. /\ exec'.pc = "done" /\ exec'.todo = exec.todo /\ exec'.again = exec.again
          /\ exec'.ticket = exec.ticket
      BY <1>0, <2>2 DEF Frames
    <3>2. HandsKept BY <1>10, <2>1, <2>2, <3>1 DEF AdoptionPCs, RetryPCs, OpenPCs
    <3> QED BY <2>1, <3>2 DEF CloseAdoption
  <2> QED BY <1>13, <1>16, <2>1, <2>2 DEF Promote, CloseAdoption
<1>17. CASE CloseAdoption
  <2>1. /\ exec.pc = "done" /\ SetTicket(exec.ticket, "done")
        /\ exec' = [exec EXCEPT !.pc = "record"]
    BY <1>17 DEF CloseAdoption
  <2>2. /\ exec'.pc = "record" /\ exec'.todo = exec.todo /\ exec'.again = exec.again
        /\ exec'.ticket = exec.ticket
    BY <1>0, <2>1 DEF Frames
  <2>3. OpenTickets' = OpenTickets \ {exec.ticket} /\ Len(tickets') = Len(tickets)
    BY <1>2, <1>5, <2>1 DEF AdoptionPCs
  <2>4. exec.ticket \in OpenTickets BY <1>6, <2>1 DEF OpenPCs
  <2>5. HandsKept /\ Hands' \subseteq OpenTickets' \cup exec.again
    <3>1. exec'.todo \subseteq OpenTickets' BY <1>1, <2>2, <2>3
    <3>2. exec'.pc \notin OpenPCs /\ exec'.pc \notin BootPCs \cup {"down"}
      BY <2>2 DEF OpenPCs, BootPCs
    <3>3. ~Retries(exec') BY <2>2 DEF Retries, RetryPCs
    <3> QED BY <1>1, <2>2, <2>3, <3>1, <3>2, <3>3, WorkOn
  <2> QED BY <1>1, <2>3, <2>4, <2>5
<1>18. CASE PromotionRecorder
  <2>1. /\ exec.pc = "record" /\ UNCHANGED tickets /\ exec'.pc = "promoted"
        /\ exec'.todo = exec.todo /\ exec'.again = exec.again
        /\ exec'.ticket = exec.ticket
    BY <1>0, <1>18 DEF PromotionRecorder, Frames
  <2>2. HandsKept BY <1>10, <2>1 DEF AdoptionPCs, RetryPCs, OpenPCs
  <2> QED BY <2>1, <2>2 DEF CloseAdoption
<1>19. ASSUME UNCHANGED tickets, exec' = After(exec.todo, exec.again) PROVE HandsKept
  BY <1>1, <1>3, <1>19, SweepOn
<1>20. CASE MarkPromoted
  <2>1. exec.pc = "promoted" /\ UNCHANGED tickets BY <1>20 DEF MarkPromoted
  <2>2. CASE exec' = [exec EXCEPT !.pc = "supersede"]
    <3>1. /\ exec'.pc = "supersede" /\ exec'.todo = exec.todo
          /\ exec'.again = exec.again /\ exec'.ticket = exec.ticket
      BY <1>0, <2>2 DEF Frames
    <3>2. HandsKept BY <1>10, <2>1, <3>1 DEF AdoptionPCs, RetryPCs, OpenPCs
    <3> QED BY <2>1, <3>2 DEF CloseAdoption
  <2> QED BY <1>19, <1>20, <2>1, <2>2 DEF MarkPromoted, CloseAdoption
<1>21. CASE SupersedePriorActive
  <2>1. exec.pc = "supersede" /\ UNCHANGED tickets BY <1>21 DEF SupersedePriorActive
  <2>2. CASE exec' = exec
    BY <1>3, <2>1, <2>2, KeepingHands DEF TicketInHand, Hands, CloseAdoption
  <2> QED BY <1>19, <1>21, <2>1, <2>2 DEF SupersedePriorActive, CloseAdoption
<1>22. CASE PatchAborted
  <2> DEFINE again == exec.again \cup (IF exec.to \in Retryable THEN {exec.ticket} ELSE {})
  <2>1. exec.pc = "patch" /\ UNCHANGED tickets /\ exec' = After(exec.todo, again)
    BY <1>22 DEF PatchAborted
  <2>2. exec.ticket \in Adoptions /\ exec.ticket \in 1..Len(tickets)
    BY <1>5, <2>1 DEF AdoptionPCs
  <2>3. exec.ticket \notin OpenTickets BY <2>1 DEF TicketInHand, HandFits
  <2>4. exec.to \in Retryable => exec.ticket \in Hands
    BY <2>1, <2>2 DEF Hands, Hand, Retries
  <2>5. /\ again \in SUBSET Adoptions /\ again \cap OpenTickets = {}
        /\ again \subseteq Hands
    BY <1>1, <2>2, <2>3, <2>4
  <2> HIDE DEF again
  <2>6. HandsKept BY <1>1, <1>3, <2>1, <2>5, SweepOn
  <2> QED BY <2>1, <2>6 DEF CloseAdoption
<1> QED BY <1>7, <1>8, <1>9, <1>11, <1>12, <1>14, <1>15, <1>16, <1>17, <1>18, <1>20,
           <1>21, <1>22 DEF AdoptStep

LEMMA DisableHands ==
  ASSUME BaseInv, TicketInHand, DisableStep PROVE HandsKept
<1>0. TypeInv /\ exec \in Frames BY FrameFields DEF BaseInv
<1>1. /\ exec.todo \in SUBSET OpenTickets /\ exec.again \in SUBSET Adoptions
      /\ exec.again \cap OpenTickets = {} /\ exec.again \subseteq Hands
      /\ exec.ticket \notin exec.todo
  BY HandParts
<1>2. ASSUME NEW t \in 1..Len(tickets), SetTicket(t, "done"),
             exec' = After(exec.todo \ {t}, exec.again)
      PROVE  HandsKept
  <2>1. OpenTickets' = OpenTickets \ {t} /\ Len(tickets') = Len(tickets)
    BY <1>0, <1>2, OpenAfterSetting
  <2> QED BY <1>1, <1>2, <2>1, SweepOn
<1>3. ASSUME UNCHANGED tickets, exec'.todo \subseteq exec.todo, exec'.again = exec.again,
             exec'.ticket \notin exec'.todo, exec'.pc \in DisablePCs
      PROVE  HandsKept
  <2>1. OpenTickets' = OpenTickets /\ Len(tickets') = Len(tickets)
    BY <1>3 DEF OpenTickets
  <2>2. /\ ~Retries(exec') /\ exec'.pc # "patch" /\ exec'.pc \notin OpenPCs
        /\ exec'.pc \notin BootPCs \cup {"down"}
    BY <1>3 DEF DisablePCs, Retries, RetryPCs, OpenPCs, BootPCs
  <2> QED BY <1>1, <1>3, <2>1, <2>2, WorkOn
<1>4. CASE \E i \in 1..Len(promotions) : DisablePack(i)
  <2>1. PICK i \in 1..Len(promotions) : DisablePack(i) BY <1>4
  <2>2. exec.pc = "ticket" /\ Current \in 1..Len(tickets)
    BY <2>1, HandParts DEF DisablePack
  <2>3. CASE /\ UNCHANGED tickets
             /\ exec' = [Working("rollback", promotions[i].proposal) EXCEPT !.promotion = i]
    <3>1. promotions[i].proposal \in Proposals /\ i \in Nat
      BY <1>0, NamesArePacks, TableTypes
    <3> DEFINE f == Working("rollback", promotions[i].proposal)
    <3>2. /\ f \in Frames /\ f.pc = "rollback" /\ f.ticket = Current
          /\ f.todo = exec.todo \ {Current} /\ f.again = exec.again
      BY <1>0, <2>2, <3>1, WorkingFrames DEF PCs
    <3> HIDE DEF f
    <3>3. exec' = [f EXCEPT !.promotion = i] BY <2>3 DEF f
    <3>4. /\ exec'.pc = "rollback" /\ exec'.ticket = Current
          /\ exec'.todo = exec.todo \ {Current} /\ exec'.again = exec.again
      BY <3>1, <3>2, <3>3 DEF Frames
    <3> QED BY <1>3, <2>3, <3>4 DEF DisablePCs
  <2> QED BY <1>2, <2>1, <2>2, <2>3 DEF DisablePack
<1>5. ASSUME UNCHANGED tickets, NEW pc \in DisablePCs, exec' = [exec EXCEPT !.pc = pc]
      PROVE  HandsKept
  <2>1. /\ exec'.pc = pc /\ exec'.todo = exec.todo /\ exec'.again = exec.again
        /\ exec'.ticket = exec.ticket
    BY <1>0, <1>5 DEF Frames
  <2> QED BY <1>1, <1>3, <1>5, <2>1
<1>6. CASE AddRollback \/ MarkDisabled
  BY <1>5, <1>6 DEF AddRollback, MarkDisabled, DisablePCs
<1>7. CASE CloseDisable
  <2>1. exec.ticket \in 1..Len(tickets)
    BY <1>7, HandParts DEF CloseDisable, DisablePCs
  <2>2. exec.todo \ {exec.ticket} = exec.todo BY <1>1
  <2> QED BY <1>2, <1>7, <2>1, <2>2 DEF CloseDisable
<1> QED BY <1>4, <1>6, <1>7 DEF DisableStep

LEMMA RetryHands ==
  ASSUME BaseInv, TicketInHand, Retry \/ Retrial PROVE HandsKept
<1>0. TypeInv /\ exec \in Frames BY FrameFields DEF BaseInv
<1>1. /\ exec.again \in SUBSET Adoptions
      /\ exec.again \cap OpenTickets = {} /\ exec.again \subseteq Hands
  BY HandParts
<1>2. tickets' = tickets BY DEF Retry, Retrial
<1>3. OpenTickets' = OpenTickets /\ Len(tickets') = Len(tickets) BY <1>2 DEF OpenTickets
<1>4. OpenTickets \subseteq Hands BY OpenAreTickets DEF Hands, Hand
<1>5. ASSUME NEW again \in SUBSET exec.again, exec' = After({}, again) PROVE HandsKept
  BY <1>1, <1>3, <1>5, SweepOn
<1>6. ASSUME exec'.todo \subseteq OpenTickets, exec'.again \subseteq exec.again,
             exec'.ticket \notin exec'.todo, exec'.pc \in RetryPCs,
             exec'.ticket \notin exec'.again \cup OpenTickets,
             exec'.ticket \in Hands
      PROVE  HandsKept
  <2>1. /\ HandFits(exec', OpenTickets)
        /\ Hand(exec', OpenTickets)
             \subseteq OpenTickets \cup exec'.again \cup {exec'.ticket}
    BY <1>1, <1>6, RetryingHand
  <2> QED BY <1>1, <1>3, <1>4, <1>6, <2>1, KeepingHands
<1>7. CASE Retry
  <2> DEFINE t == SmallestOf(exec.again)
             p == tickets[t].proposal
  <2>1. t \in exec.again BY <1>0, <1>7, RetriedIsAdoption DEF Retry
  <2> HIDE DEF t, p
  <2>2. CASE exec' = After({}, exec.again \ {t}) BY <1>5, <2>2
  <2>3. CASE exec' = [Idle EXCEPT !.pc = "retrial", !.ticket = t,
                                  !.again = exec.again \ {t}, !.proposal = p]
    <3>1. /\ exec'.pc = "retrial" /\ exec'.ticket = t /\ exec'.again = exec.again \ {t}
          /\ exec'.todo = {}
      BY <2>3, RestingFrames DEF Frames
    <3> QED BY <1>1, <1>6, <2>1, <3>1 DEF RetryPCs
  <2> QED BY <1>7, <2>2, <2>3 DEF Retry, t, p
<1>8. CASE Retrial
  <2>1. exec.pc = "retrial" BY <1>8 DEF Retrial
  <2>2. CASE exec' = After({}, exec.again) BY <1>5, <2>2
  <2>3. CASE exec' = [exec EXCEPT !.pc = "verdict", !.proposal = exec.proposal]
    <3>1. /\ exec'.pc = "verdict" /\ exec'.ticket = exec.ticket
          /\ exec'.again = exec.again /\ exec'.todo = exec.todo
      BY <1>0, <2>3 DEF Frames
    <3>2. exec.ticket \notin exec.again \cup OpenTickets
      BY <2>1 DEF TicketInHand, HandFits, RetryPCs
    <3>3. exec.ticket \in 1..Len(tickets) /\ exec.ticket \in Hands
      BY <2>1, HandParts DEF AdoptionPCs, Hands, Hand, Retries, RetryPCs
    <3>4. exec.todo \subseteq OpenTickets /\ exec.ticket \notin exec.todo BY HandParts
    <3> QED BY <1>6, <3>1, <3>2, <3>3, <3>4 DEF RetryPCs
  <2> QED BY <1>8, <2>2, <2>3 DEF Retrial, TrialOutcome
<1> QED BY <1>7, <1>8

\* A retry that passes hands its claim on to a fresh ticket.
LEMMA RequeueHands ==
  ASSUME BaseInv, TicketInHand, Requeue
  PROVE  /\ HandsOpen(exec.proposal, {exec.ticket})
         /\ exec.proposal \in Proposals /\ exec.ticket \in Claims(exec.proposal)
<1>0. /\ TypeInv /\ exec.pc = "requeue" /\ OpenAdoption(exec.proposal)
      /\ exec' = After({}, exec.again)
  BY DEF BaseInv, Requeue
<1>1. /\ exec.again \in SUBSET Adoptions
      /\ exec.again \cap OpenTickets = {} /\ exec.again \subseteq Hands
      /\ exec.ticket \in 1..Len(tickets)
  BY <1>0, HandParts DEF AdoptionPCs
<1>2. exec.ticket \notin exec.again \cup OpenTickets
  BY <1>0 DEF TicketInHand, HandFits, RetryPCs
<1>3. exec.proposal \in Proposals
  BY <1>0, ProposalAtHand DEF ProposalPCs, AdoptionPCs
<1>4. tickets[exec.ticket].proposal = exec.proposal
  BY <1>0 DEF BaseInv, FrameFollows, AdoptionPCs
<1>5. exec.ticket \in Hands BY <1>0, <1>1 DEF Hands, Hand, Retries, RetryPCs
<1> DEFINE new == [kind |-> "adopt", proposal |-> exec.proposal, promotion |-> 0,
                   status |-> "open"]
<1>6. new \in Tickets /\ new.status = "open" /\ new.proposal = exec.proposal
  BY <1>3 DEF Tickets
<1>7. tickets' = Append(tickets, new) BY <1>0 DEF OpenAdoption
<1> HIDE DEF new
<1>8. /\ OpenTickets' = OpenTickets \cup {Len(tickets) + 1}
      /\ Len(tickets') = Len(tickets) + 1
      /\ tickets'[Len(tickets) + 1].proposal = exec.proposal
  BY <1>0, <1>6, <1>7, OpenAfterOpening, OpeningTicket
<1>9. exec.again \cap OpenTickets' = {}
  <2>1. Len(tickets) + 1 \notin 1..Len(tickets) BY <1>0, TableTypes
  <2> QED BY <1>1, <1>8, <2>1 DEF Adoptions
<1>10. /\ HandFits(exec', OpenTickets')
       /\ Hand(exec', OpenTickets') \subseteq OpenTickets' \cup exec.again
  <2>1. {} \in SUBSET (1..Len(tickets)) /\ {} \subseteq OpenTickets' OBVIOUS
  <2> QED BY <1>0, <1>1, <1>9, <2>1, SweepingHand
<1>11. OpenTickets \subseteq Hands BY OpenAreTickets DEF Hands, Hand
<1>12. Hand(exec', OpenTickets') \cap (1..Len(tickets'))
         \subseteq (Hands \ {exec.ticket}) \cup {Len(tickets) + 1}
  BY <1>1, <1>2, <1>8, <1>10, <1>11
<1>13. HandsOpen(exec.proposal, {exec.ticket})
  BY <1>8, <1>10, <1>12, OpeningHands
<1> QED BY <1>3, <1>4, <1>5, <1>13 DEF Claims

LEMMA BootRests ==
  ASSUME BaseInv, TicketInHand, BootStep
  PROVE  exec'.again = {} /\ exec'.todo = {}
<1>0. TypeInv /\ exec \in Frames BY FrameFields DEF BaseInv
<1>1. exec.again = {} /\ exec.todo = {}
  BY <1>0, WhoSteps DEF BootStep, Boot, CloseHealedTickets, OpenBootGap, LoadSurvivor,
                        HealLoading, ParkLoading, SupersedeAtBoot, ResolvePack,
                        TicketInHand, HandFits, BootPCs
<1>2. \A packs : Remaining(packs).again = {} /\ Remaining(packs).todo = {}
  BY RestingFrames DEF Remaining, Idle, Down
<1>3. \A i, c, packs :
        /\ Announce(i, c, packs).again = {} /\ Announce(i, c, packs).todo = {}
        /\ [Announce(i, c, packs) EXCEPT !.pc = "close"].again = {}
        /\ [Announce(i, c, packs) EXCEPT !.pc = "close"].todo = {}
  BY DEF Announce, Down, Idle
<1>4. CASE Boot BY <1>4, RestingFrames DEF Boot, Frames
<1>5. CASE CloseHealedTickets \/ OpenBootGap
  BY <1>0, <1>1, <1>2, <1>5 DEF CloseHealedTickets, OpenBootGap, Frames
<1>6. CASE \E packs : exec' = Remaining(packs) BY <1>2, <1>6
<1>7. CASE \E i, c, packs : \/ exec' = Announce(i, c, packs)
                            \/ exec' = [Announce(i, c, packs) EXCEPT !.pc = "close"]
  BY <1>3, <1>7
<1>8. CASE LoadSurvivor \/ \E n \in Packs : ResolvePack(n)
  BY <1>6, <1>7, <1>8 DEF LoadSurvivor, ResolvePack, ReloadOne
<1>9. CASE \E n \in Packs : HealLoading(n) \/ ParkLoading(n) \/ SupersedeAtBoot(n)
  BY <1>7, <1>9 DEF HealLoading, ParkLoading, SupersedeAtBoot
<1> QED BY <1>4, <1>5, <1>8, <1>9 DEF BootStep

\* Boot has the open tickets in hand and closes those of what it heals.
LEMMA BootHands ==
  ASSUME BaseInv, TicketInHand, BootStep
  PROVE  /\ HandsKept
         /\ CloseHealedTickets =>
              Hands' \cap HealedTickets(promotions[exec.promotion].proposal) = {}
<1>0. TypeInv BY DEF BaseInv
<1>1. exec'.again = {} /\ exec'.todo = {} BY BootRests
<1>2. exec'.pc \in {"idle", "boot", "close", "gap", "survivor"} BY <1>0, BootStepPlaces
<1>3. /\ HandFits(exec', OpenTickets') /\ Hand(exec', OpenTickets') = OpenTickets'
  BY <1>1, <1>2, RestingHand DEF OpenPCs, RetryPCs
<1>4. UNCHANGED tickets \/ (CloseHealedTickets /\ HealsTickets)
  BY DEF BootStep, Boot, CloseHealedTickets, OpenBootGap, LoadSurvivor, HealLoading,
         ParkLoading, SupersedeAtBoot, ResolvePack, HealsTickets
<1>5. OpenTickets \subseteq Hands BY OpenAreTickets DEF Hands, Hand
<1>6. Hands' \subseteq OpenTickets'
  <2>1. Hands' = Hand(exec', OpenTickets') \cap (1..Len(tickets'))
    BY DEF Hands, Hand, Retries
  <2> QED BY <1>3, <2>1
<1>7. CASE HealsTickets
  <2>1. /\ OpenTickets' =
             OpenTickets \ HealedTickets(promotions[exec.promotion].proposal)
        /\ Len(tickets') = Len(tickets)
    BY <1>0, <1>7, OpenAfterHealing
  <2> QED BY <1>3, <1>5, <1>6, <2>1, KeepingHands
<1>8. CASE UNCHANGED tickets /\ ~HealsTickets
  <2>1. OpenTickets' = OpenTickets /\ Len(tickets') = Len(tickets)
    BY <1>8 DEF OpenTickets
  <2>2. HandsKept BY <1>3, <1>5, <2>1, KeepingHands
  <2> QED BY <1>8, <2>2 DEF CloseHealedTickets, HealsTickets
<1> QED BY <1>4, <1>7, <1>8

\* Tickets leave the hand, or one comes into it: the owner's, or a retry's for its own.
LEMMA NextHands ==
  ASSUME BaseInv, TicketInHand, [Next]_vars
  PROVE  \/ HandsKept
         \/ \E p \in Proposals : ApproveAdoption(p) /\ HandsOpen(p, {})
         \/ HandsOpen(NoProposal, {})
         \/ Requeue /\ HandsOpen(exec.proposal, {exec.ticket})
<1>1. CASE Chassis
  BY <1>1, AuthoringHands, AdoptHands, DisableHands, RetryHands, RequeueHands, BootHands
     DEF Chassis, RetryStep
<1>2. CASE Authoring \/ Tampering \/ Crash \/ UNCHANGED vars
             \/ \E p \in Proposals : ProposalGatekeeper(p)
  BY <1>2, AuthoringHands
<1>3. CASE Owner
  BY <1>3, AuthoringHands, ApprovingHands, DisablingHands DEF Owner
<1> QED BY <1>1, <1>2, <1>3 DEF Next

LEMMA NextClaims ==
  ASSUME BaseInv, TicketInHand, [Next]_vars, NEW p \in Proposals
  PROVE  \/ Claims(p)' \subseteq Claims(p)
         \/ ApproveAdoption(p) /\ Claims(p)' \subseteq Claims(p) \cup {Len(tickets) + 1}
         \/ /\ Requeue /\ p = exec.proposal /\ exec.ticket \in Claims(p)
            /\ Claims(p)' \subseteq (Claims(p) \ {exec.ticket}) \cup {Len(tickets) + 1}
<1>0. TypeInv /\ Len(tickets) \in Nat BY TableTypes DEF BaseInv
<1>1. \A t \in Hands : t \in 1..Len(tickets) /\ tickets'[t].proposal = tickets[t].proposal
  BY <1>0, NextTickets, TicketsTyped DEF TicketsKept, Hands
<1>2. CASE HandsKept BY <1>1, <1>2 DEF HandsKept, Claims
<1>3. ASSUME NEW q, NEW closed, HandsOpen(q, closed)
      PROVE  Claims(p)' \subseteq (Claims(p) \ closed)
                                    \cup (IF p = q THEN {Len(tickets) + 1} ELSE {})
  BY <1>1, <1>3 DEF HandsOpen, Claims
<1>4. CASE HandsOpen(NoProposal, {})
  <2>1. p # NoProposal BY EvolutionAssumption DEF EvolutionAssumption
  <2> QED BY <1>3, <1>4, <2>1
<1>5. ASSUME NEW q \in Proposals, ApproveAdoption(q), HandsOpen(q, {})
      PROVE  \/ Claims(p)' \subseteq Claims(p)
             \/ /\ ApproveAdoption(p)
                /\ Claims(p)' \subseteq Claims(p) \cup {Len(tickets) + 1}
  BY <1>3, <1>5
<1>6. CASE Requeue /\ HandsOpen(exec.proposal, {exec.ticket})
  <2>1. exec.ticket \in Claims(exec.proposal) BY <1>6, RequeueHands
  <2>2. CASE p = exec.proposal BY <1>3, <1>6, <2>1, <2>2
  <2>3. CASE p # exec.proposal BY <1>3, <1>6, <2>3
  <2> QED BY <2>2, <2>3
<1> QED BY <1>2, <1>4, <1>5, <1>6, NextHands

\* A request adds a call to those the owner holds; deciding one takes it away.
HeldStep ==
  \/ UNCHANGED <<held, requests>>
  \/ \E p \in Proposals : /\ RequestAdoption(p)
                          /\ requests' = [requests EXCEPT ![p] = @ + 1]
                          /\ held' = [held EXCEPT ![p] = @ + 1]
  \/ \E p \in Proposals : /\ ApproveAdoption(p) \/ DenyAdoption(p)
                          /\ held[p] > 0 /\ held' = [held EXCEPT ![p] = @ - 1]
                          /\ UNCHANGED requests

LEMMA NextHeld ==
  ASSUME [Next]_vars
  PROVE  /\ HeldStep
         /\ \A p \in Proposals : ApproveAdoption(p) =>
              held[p] > 0 /\ held' = [held EXCEPT ![p] = @ - 1] /\ UNCHANGED requests
         /\ Requeue => UNCHANGED <<held, requests>>
<1>1. \A p \in Proposals : ApproveAdoption(p) =>
        held[p] > 0 /\ held' = [held EXCEPT ![p] = @ - 1] /\ UNCHANGED requests
  BY DEF ApproveAdoption
<1>2. Requeue => UNCHANGED <<held, requests>> BY DEF Requeue, history
<1>3. CASE Chassis
  BY <1>1, <1>2, <1>3
     DEF Chassis, Patches, AdoptStep, DisableStep, RetryStep, BootStep, RecordVerdict,
         MarkPending, MarkAdopting, StartSweep, graph, history, RefuseParked,
         HashMismatch, Regate, RerunGates, AbortAfterGates, ForkLostOrConflict,
         LoadAndRecord, Promote, CloseAdoption, PromotionRecorder, MarkPromoted,
         SupersedePriorActive, PatchAborted, DisablePack, AddRollback, MarkDisabled,
         CloseDisable, Retry, Retrial, Boot, CloseHealedTickets, OpenBootGap,
         LoadSurvivor, HealLoading, ParkLoading, SupersedeAtBoot, ResolvePack, HeldStep
<1>4. CASE \E p \in Proposals : RequestAdoption(p)
  BY <1>1, <1>2, <1>4 DEF RequestAdoption, HeldStep
<1>5. CASE \E p \in Proposals : ApproveAdoption(p) \/ DenyAdoption(p)
  BY <1>1, <1>2, <1>5 DEF DenyAdoption, history, HeldStep
<1>6. CASE \/ Tampering \/ Crash \/ UNCHANGED vars
           \/ \E p \in Proposals : SubmitProposal(p) \/ RunTrial(p) \/ ProposalGatekeeper(p)
           \/ \E i \in 1..Len(promotions) : RequestDisable(i) \/ ApproveDisable(i)
  BY <1>1, <1>2, <1>6
     DEF Tampering, SubmitProposal, RunTrial, RequestDisable, ApproveDisable,
         TamperArtifacts, ProposalGatekeeper, Crash, graph, history, vars, HeldStep
<1> QED BY <1>3, <1>4, <1>5, <1>6 DEF Next, Authoring, Owner

LEMMA HeldOfProposal ==
  ASSUME TypeInv, [Next]_vars, NEW p \in Proposals
  PROVE  \/ held'[p] = held[p] /\ requests'[p] = requests[p]
         \/ /\ RequestAdoption(p) /\ held'[p] = held[p] + 1
            /\ requests'[p] = requests[p] + 1
         \/ held[p] > 0 /\ held'[p] = held[p] - 1 /\ requests'[p] = requests[p]
<1>1. held \in [Proposals -> Nat] /\ requests \in [Proposals -> Nat]
  BY DEF TypeInv, TypeOK
<1>2. CASE UNCHANGED <<held, requests>> BY <1>2
<1>3. ASSUME NEW q \in Proposals, RequestAdoption(q),
             requests' = [requests EXCEPT ![q] = @ + 1],
             held' = [held EXCEPT ![q] = @ + 1]
      PROVE  \/ held'[p] = held[p] /\ requests'[p] = requests[p]
             \/ /\ RequestAdoption(p) /\ held'[p] = held[p] + 1
                /\ requests'[p] = requests[p] + 1
  BY <1>1, <1>3
<1>4. ASSUME NEW q \in Proposals, held[q] > 0, held' = [held EXCEPT ![q] = @ - 1],
             UNCHANGED requests
      PROVE  \/ held'[p] = held[p] /\ requests'[p] = requests[p]
             \/ /\ held[p] > 0 /\ held'[p] = held[p] - 1
                /\ requests'[p] = requests[p]
  BY <1>1, <1>4
<1> QED BY <1>2, <1>3, <1>4, NextHeld DEF HeldStep

\* A request that was made once is a call held, or one claim, or settled.
OneClaim ==
  \A p \in Proposals : requests[p] <= 1 =>
    /\ held[p] <= requests[p]
    /\ \A t, u \in Claims(p) : t = u
    /\ held[p] > 0 \/ requests[p] = 0 => Claims(p) = {}

LEMMA OneClaimNext ==
  ASSUME BaseInv, TicketInHand, OneClaim, [Next]_vars
  PROVE  OneClaim'
<1>0. TypeInv BY DEF BaseInv
<1> SUFFICES ASSUME NEW p \in Proposals, requests'[p] <= 1
             PROVE  /\ held'[p] <= requests'[p]
                    /\ \A t, u \in Claims(p)' : t = u
                    /\ held'[p] > 0 \/ requests'[p] = 0 => Claims(p)' = {}
  BY DEF OneClaim
<1>1. held \in [Proposals -> Nat] /\ requests \in [Proposals -> Nat]
  BY DEF BaseInv, TypeInv, TypeOK
<1>2. held[p] \in Nat /\ requests[p] \in Nat BY <1>1
<1>3. HeldStep /\ (Requeue => UNCHANGED <<held, requests>>) BY NextHeld
<1>4. ApproveAdoption(p) =>
        held[p] > 0 /\ held'[p] = held[p] - 1 /\ requests'[p] = requests[p]
  BY <1>1, NextHeld
<1>5. \/ held'[p] = held[p] /\ requests'[p] = requests[p]
      \/ RequestAdoption(p) /\ held'[p] = held[p] + 1 /\ requests'[p] = requests[p] + 1
      \/ held[p] > 0 /\ held'[p] = held[p] - 1 /\ requests'[p] = requests[p]
  BY <1>0, HeldOfProposal
<1>6. requests[p] <= 1 BY <1>2, <1>5
<1>7. /\ held[p] <= requests[p]
      /\ \A t, u \in Claims(p) : t = u
      /\ held[p] > 0 \/ requests[p] = 0 => Claims(p) = {}
  BY <1>6 DEF OneClaim
<1>8. CASE Claims(p)' \subseteq Claims(p)
  <2>1. \A t, u \in Claims(p)' : t = u BY <1>7, <1>8
  <2>2. CASE RequestAdoption(p) /\ held'[p] = held[p] + 1 /\ requests'[p] = requests[p] + 1
    <3>1. requests[p] = 0 /\ held[p] = 0 BY <1>2, <1>5, <1>7, <2>2
    <3>2. Claims(p)' = {} BY <1>7, <1>8, <3>1
    <3> QED BY <1>2, <2>2, <3>1, <3>2
  <2>3. CASE held'[p] = held[p] /\ requests'[p] = requests[p] BY <1>7, <1>8, <2>1, <2>3
  <2>4. CASE held[p] > 0 /\ held'[p] = held[p] - 1 /\ requests'[p] = requests[p]
    <3>1. Claims(p)' = {} BY <1>7, <1>8, <2>4
    <3> QED BY <1>2, <1>7, <2>4, <3>1
  <2> QED BY <1>5, <2>2, <2>3, <2>4
<1>9. CASE ApproveAdoption(p) /\ Claims(p)' \subseteq Claims(p) \cup {Len(tickets) + 1}
  <2>1. Claims(p) = {} BY <1>4, <1>7, <1>9
  <2>2. \A t, u \in Claims(p)' : t = u BY <1>9, <2>1
  <2>3. requests'[p] = 1 /\ held'[p] = 0
    BY <1>2, <1>4, <1>6, <1>7, <1>9
  <2> QED BY <2>2, <2>3
<1>10. CASE /\ Requeue /\ exec.ticket \in Claims(p)
            /\ Claims(p)' \subseteq (Claims(p) \ {exec.ticket}) \cup {Len(tickets) + 1}
  <2>1. held'[p] = held[p] /\ requests'[p] = requests[p] BY <1>3, <1>10
  <2>2. Claims(p) \ {exec.ticket} = {} BY <1>7, <1>10
  <2>3. \A t, u \in Claims(p)' : t = u BY <1>10, <2>2
  <2>4. ~(held[p] > 0 \/ requests[p] = 0) BY <1>7, <1>10
  <2> QED BY <1>7, <2>1, <2>3, <2>4
<1> QED BY <1>8, <1>9, <1>10, NextClaims

\* The trials of a proposal that were promoted.
Adopted(p) == applied \cap TrialsOf(p)

\* While the process is down or boot has not come to the pack, a promote whose function
\* was cut off is still there to be healed; then its tickets are closed.
Unhealed(p) ==
  \/ exec.pc = "close" /\ promotions[exec.promotion].proposal = p
  \/ /\ exec.pc = "down" \/ (exec.pc \in BootPCs /\ PackOf[p] \in exec.packs)
     /\ \E i \in 1..Len(promotions) : /\ promotions[i].proposal = p
                                      /\ promotions[i].status = "loading"
                                      /\ promotions[i].fork \in applied
\* Boot supersedes when nothing of the pack is left to heal.
SettledPack ==
  exec.pc \in {"gap", "survivor"} /\ exec.to = "superseded" =>
    InGroup(NameOf(exec.promotion), "loading") = {}

LEMMA NextAdopted ==
  ASSUME BaseInv, [Next]_vars, NEW p \in Proposals
  PROVE  \/ Adopted(p)' = Adopted(p)
         \/ /\ exec.pc = "promote" /\ p = exec.proposal
            /\ exec'.pc = "done" /\ exec'.proposal = p
            /\ Adopted(p)' = Adopted(p) \cup {promotions[exec.promotion].fork}
<1>0. TypeInv /\ Len(forks) \in Nat BY TableTypes DEF BaseInv
<1>1. forks' \in Seq(Forks) /\ ForksKept BY <1>0, NextForks, ForksTyped
<1>2. applied \subseteq 1..Len(forks) BY <1>0 DEF TypeInv
<1>3. \A f \in 1..Len(forks) : f \in TrialsOf(p)' <=> f \in TrialsOf(p)
  BY <1>0, <1>1 DEF ForksKept, TrialsOf
<1>4. CASE UNCHANGED applied BY <1>2, <1>3, <1>4 DEF Adopted
<1>5. CASE Promote /\ ~UNCHANGED applied
  <2> DEFINE f == promotions[exec.promotion].fork
  <2>1. /\ exec.pc = "promote" /\ applied' = applied \cup {f}
        /\ exec' = [exec EXCEPT !.pc = "done"]
    BY <1>5 DEF Promote
  <2>2. exec'.pc = "done" /\ exec'.proposal = exec.proposal
    BY <1>0, <2>1, FrameFields DEF Frames
  <2>3. exec.promotion \in 1..Len(promotions)
    BY <1>0, <2>1 DEF TypeInv, FrameOK, PromotionPCs, RecordPCs
  <2>4. f \in 1..Len(forks) /\ forks[f].proposal = exec.proposal
    BY <1>0, <2>1, <2>3 DEF TypeInv, PromotionsRefer, BaseInv, FrameFollows, RecordPCs
  <2> HIDE DEF f
  <2>5. f \in TrialsOf(p) <=> p = exec.proposal BY <2>4 DEF TrialsOf
  <2>6. Adopted(p)' = applied' \cap TrialsOf(p)' BY DEF Adopted
  <2>7. CASE p = exec.proposal
    <3>1. Adopted(p)' = Adopted(p) \cup {f}
      BY <1>2, <1>3, <2>1, <2>4, <2>5, <2>6, <2>7 DEF Adopted
    <3> QED BY <2>1, <2>2, <2>7, <3>1 DEF f
  <2>8. CASE p # exec.proposal
    BY <1>2, <1>3, <2>1, <2>4, <2>5, <2>6, <2>8 DEF Adopted
  <2> QED BY <2>7, <2>8
<1> QED BY <1>4, <1>5, NextApplied DEF AppliedStep

LEMMA RemainingPacks ==
  ASSUME NEW packs, packs # {}
  PROVE  Remaining(packs).pc = "boot" /\ Remaining(packs).packs = packs
  BY DEF Remaining, Down, Idle

\* Boot heals what was promoted before it leaves the pack.
LEMMA BootHeals ==
  ASSUME BaseInv, OneActiveInv, SettledPack, BootStep, NEW j \in 1..Len(promotions),
         promotions[j].status = "loading", promotions[j].fork \in applied,
         exec.pc = "down" \/ (exec.pc \in BootPCs /\ NameOf(j) \in exec.packs)
  PROVE  \/ exec'.pc = "close" /\ exec'.promotion = j
         \/ /\ promotions'[j].status = "loading"
            /\ exec'.pc \in BootPCs /\ NameOf(j) \in exec'.packs
<1> DEFINE n == NameOf(j)
<1>0. TypeInv /\ exec \in Frames /\ n \in Packs
  BY FrameFields, NamesArePacks DEF BaseInv
<1>1. j \in InGroup(n, "loading") BY DEF InGroup, Group
<1>2. \A m : j \notin InGroup(m, "active") BY DEF InGroup, Group
<1> HIDE DEF n
<1>3. ASSUME NEW packs, n \in packs, exec' = Remaining(packs)
      PROVE  exec'.pc \in BootPCs /\ n \in exec'.packs
  BY <1>3, RemainingPacks DEF BootPCs
<1>4. ASSUME NEW i, NEW c, NEW packs, n \in packs,
             \/ exec' = Announce(i, c, packs)
             \/ exec' = [Announce(i, c, packs) EXCEPT !.pc = "close"]
      PROVE  exec'.pc \in BootPCs /\ n \in exec'.packs
  <2>1. CASE exec' = Announce(i, c, packs) BY <1>4, <2>1, AnnouncedFrame DEF BootPCs
  <2>2. CASE exec' = [Announce(i, c, packs) EXCEPT !.pc = "close"]
    BY <1>4, <2>2, AnnouncedFrame DEF BootPCs
  <2> QED BY <1>4, <2>1, <2>2
<1>5. CASE Boot
  <2>1. UNCHANGED promotions /\ exec' = [Down EXCEPT !.pc = "boot", !.packs = Packs]
    BY <1>5 DEF Boot
  <2>2. exec'.pc = "boot" /\ exec'.packs = Packs BY <2>1, RestingFrames DEF Frames
  <2> QED BY <1>0, <2>1, <2>2 DEF n, BootPCs
<1> SUFFICES ASSUME ~Boot PROVE \/ exec'.pc = "close" /\ exec'.promotion = j
                                \/ /\ promotions'[j].status = "loading"
                                   /\ exec'.pc \in BootPCs /\ n \in exec'.packs
  BY <1>5 DEF n
<1>6. n \in exec.packs
  <2>1. exec.pc # "down"
    BY DEF BootStep, CloseHealedTickets, OpenBootGap, LoadSurvivor, HealLoading,
           ParkLoading, SupersedeAtBoot, ResolvePack
  <2> QED BY <2>1 DEF n
<1>7. CASE CloseHealedTickets
  <2>1. UNCHANGED promotions /\ exec' = [exec EXCEPT !.pc = "gap"]
    BY <1>7 DEF CloseHealedTickets
  <2> QED BY <1>0, <1>6, <2>1 DEF Frames, BootPCs
<1>8. CASE OpenBootGap
  <2>1. UNCHANGED promotions BY <1>8 DEF OpenBootGap
  <2>2. CASE exec' = [exec EXCEPT !.pc = "survivor"]
    BY <1>0, <1>6, <2>1, <2>2 DEF Frames, BootPCs
  <2> QED BY <1>3, <1>6, <1>8, <2>1, <2>2 DEF OpenBootGap
\* Whatever boot reloads is of another pack, or active.
<1>9. ASSUME NEW i \in 1..Len(promotions), i # j, NEW packs, n \in packs,
             ReloadOne(i, packs)
      PROVE  /\ promotions'[j].status = "loading"
             /\ exec'.pc \in BootPCs /\ n \in exec'.packs
  <2>1. UNCHANGED promotions \/ SetPromotion(i, "disabled") BY <1>9 DEF ReloadOne
  <2>2. promotions'[j].status = "loading"
    BY <1>0, <1>9, <2>1, SettingPromotion DEF PromotionStates
  <2> QED BY <1>3, <1>4, <1>9, <2>2 DEF ReloadOne
<1>10. CASE LoadSurvivor
  <2>1. exec.pc = "survivor" /\ exec.promotion \in 1..Len(promotions)
    BY <1>0, <1>10 DEF LoadSurvivor, TypeInv, FrameOK, PromotionPCs
  <2>2. exec.to = "superseded" BY <2>1 DEF OneActiveInv
  <2>3. NameOf(exec.promotion) # n BY <1>1, <2>1, <2>2 DEF SettledPack
  <2>4. n \in exec.packs \ {NameOf(exec.promotion)} /\ exec.promotion # j
    BY <1>6, <2>3 DEF n
  <2> QED BY <1>9, <1>10, <2>1, <2>4 DEF LoadSurvivor
<1>11. CASE \E m \in Packs : HealLoading(m) \/ ParkLoading(m)
  <2>1. PICK m \in Packs : HealLoading(m) \/ ParkLoading(m) BY <1>11
  <2> DEFINE i == SmallestOf(InGroup(m, "loading"))
  <2>2. i \in 1..Len(promotions)
    BY <1>0, <2>1, LoadingOfPack DEF HealLoading, ParkLoading
  <2>3. \/ /\ SetPromotion(i, "active")
           /\ exec' = [Announce(i, "healed", exec.packs) EXCEPT !.pc = "close"]
        \/ /\ SetPromotion(i, "disabled") /\ promotions[i].fork \notin applied
           /\ exec' = Announce(i, "parked", exec.packs)
    BY <2>1 DEF HealLoading, ParkLoading, MarkerInLog
  <2> HIDE DEF i
  <2>4. CASE i = j
    <3>1. exec' = [Announce(j, "healed", exec.packs) EXCEPT !.pc = "close"]
      BY <2>3, <2>4
    <3> QED BY <3>1, AnnouncedFrame
  <2>5. CASE i # j
    <3>1. promotions'[j].status = "loading"
      BY <1>0, <2>2, <2>3, <2>5, SettingPromotion DEF PromotionStates
    <3>2. exec'.pc \in BootPCs /\ n \in exec'.packs BY <1>4, <1>6, <2>3
    <3> QED BY <3>1, <3>2
  <2> QED BY <2>4, <2>5
<1>12. CASE \E m \in Packs : SupersedeAtBoot(m)
  <2>1. PICK m \in Packs : SupersedeAtBoot(m) BY <1>12
  <2>2. promotions'[j].status = "loading" BY <1>0, <1>2, <2>1, SupersedingAtBoot
  <2>3. exec'.pc \in BootPCs /\ n \in exec'.packs
    BY <1>4, <1>6, <2>1 DEF SupersedeAtBoot
  <2> QED BY <2>2, <2>3
<1>13. CASE \E m \in Packs : ResolvePack(m)
  <2>1. PICK m \in Packs : ResolvePack(m) BY <1>13
  <2>2. InGroup(m, "loading") = {} BY <2>1 DEF ResolvePack
  <2>3. n \in exec.packs \ {m} BY <1>1, <1>6, <2>2
  <2>4. CASE exec' = Remaining(exec.packs \ {m}) /\ UNCHANGED promotions
    BY <1>3, <2>3, <2>4
  <2>5. ASSUME NEW i \in InGroup(m, "active"), ReloadOne(i, exec.packs \ {m})
        PROVE  /\ promotions'[j].status = "loading"
               /\ exec'.pc \in BootPCs /\ n \in exec'.packs
    <3>1. i \in 1..Len(promotions) /\ i # j BY <1>2, <2>5 DEF InGroup, Group
    <3> QED BY <1>9, <2>3, <2>5, <3>1
  <2> QED BY <2>1, <2>4, <2>5 DEF ResolvePack
<1> QED BY <1>7, <1>8, <1>10, <1>11, <1>12, <1>13 DEF BootStep

LEMMA NextSettled ==
  ASSUME BaseInv, OneActiveInv, SettledPack, [Next]_vars
  PROVE  SettledPack'
<1>0. TypeInv /\ exec \in Frames BY FrameFields DEF BaseInv
<1>1. CASE UNCHANGED vars
  BY <1>1 DEF vars, graph, SettledPack, InGroup, Group, NameOf
<1>2. CASE ~BootStep /\ ~UNCHANGED vars
  <2>1. exec'.pc \notin BootPCs
    BY <1>0, <1>2, BootPlaces, RestingFrames DEF Crash, BootPCs
  <2> QED BY <2>1 DEF SettledPack, BootPCs
\* No step of boot makes a promotion loading.
<1>3. CASE BootStep
  <2>1. exec.pc \in BootPCs \cup {"down"} BY <1>3, WhoSteps
  <2>2. ~LoadAndRecord BY <2>1 DEF LoadAndRecord, BootPCs
  <2>3. PromotionsKept /\ Len(promotions') = Len(promotions)
    BY <1>0, <2>2, NextPromotions, PromotionsTyped
  <2>4. \A i \in 1..Len(promotions) :
          promotions'[i].status = "loading" => promotions[i].status = "loading"
    BY PromotionLife
  <2>5. \A n : InGroup(n, "loading")' \subseteq InGroup(n, "loading")
    BY <2>3, <2>4 DEF InGroup, Group, NameOf, PromotionsKept
  <2>6. ASSUME NEW i \in 1..Len(promotions), exec'.promotion = i,
               InGroup(NameOf(i), "loading") = {}
        PROVE  SettledPack'
    <3>1. NameOf(exec.promotion)' = NameOf(i)
      BY <2>3, <2>6 DEF NameOf, PromotionsKept
    <3> QED BY <2>5, <2>6, <3>1 DEF SettledPack
  <2>7. CASE exec'.pc \notin {"gap", "survivor"} BY <2>7 DEF SettledPack
  <2>8. CASE \E packs \in SUBSET Packs : exec' = Remaining(packs)
    BY <1>0, <2>7, <2>8, BootFrames
  <2>9. ASSUME NEW i, NEW c, NEW packs, c # "superseded", exec' = Announce(i, c, packs)
        PROVE  SettledPack'
    BY <2>9, AnnouncedFrame DEF SettledPack
  <2>10. exec.packs \in SUBSET Packs /\ \A n : exec.packs \ {n} \in SUBSET Packs
    BY <1>0, FrameFields
  <2>11. CASE Boot BY <2>7, <2>11, RestingFrames DEF Boot, Frames
  <2>12. CASE CloseHealedTickets
    <3>1. exec.pc = "close" /\ exec'.to = exec.to
      BY <1>0, <2>12 DEF CloseHealedTickets, Frames
    <3> QED BY <3>1 DEF OneActiveInv, SettledPack
  <2>13. CASE OpenBootGap
    <3>1. CASE exec.to = "superseded" /\ exec' = [exec EXCEPT !.pc = "survivor"]
      <4>1. exec.pc = "gap" /\ exec'.promotion = exec.promotion
        BY <1>0, <2>13, <3>1 DEF OpenBootGap, Frames
      <4>2. exec.promotion \in 1..Len(promotions)
        BY <1>0, <4>1 DEF TypeInv, FrameOK, PromotionPCs
      <4> QED BY <2>6, <3>1, <4>1, <4>2 DEF SettledPack
    <3> QED BY <2>8, <2>10, <2>13, <3>1 DEF OpenBootGap
  <2>14. CASE LoadSurvivor \/ \E n \in Packs : ResolvePack(n)
    BY <2>8, <2>9, <2>10, <2>14 DEF LoadSurvivor, ResolvePack, ReloadOne
  <2>15. CASE \E n \in Packs : HealLoading(n)
    <3>1. exec'.pc = "close" BY <2>15, AnnouncedFrame DEF HealLoading
    <3> QED BY <2>7, <3>1
  <2>16. CASE \E n \in Packs : ParkLoading(n) BY <2>9, <2>16 DEF ParkLoading
  <2>17. CASE \E n \in Packs : SupersedeAtBoot(n)
    <3>1. PICK n \in Packs : SupersedeAtBoot(n) BY <2>17
    <3> DEFINE i == LargestOf(InGroup(n, "active"))
    <3>2. i \in InGroup(n, "active") /\ i \in 1..Len(promotions)
      BY <1>0, <3>1, SurvivorAtBoot
    <3>3. /\ exec' = Announce(i, "superseded", exec.packs)
          /\ InGroup(n, "loading") = {}
      BY <3>1 DEF SupersedeAtBoot
    <3> HIDE DEF i
    <3>4. NameOf(i) = n BY <3>2 DEF InGroup, Group
    <3> QED BY <2>6, <3>2, <3>3, <3>4, AnnouncedFrame
  <2> QED BY <1>3, <2>11, <2>12, <2>13, <2>14, <2>15, <2>16, <2>17 DEF BootStep
<1> QED BY <1>1, <1>2, <1>3

\* What one request has adopted, through one crash, has no claim left: its ticket is
\* closed, or about to be, by its own function or by boot.
OnceAdopted(p) ==
  requests[p] <= 1 /\ Adopted(p) # {} =>
    /\ requests[p] = 1 /\ held[p] = 0
    /\ \A f, g \in Adopted(p) : f = g
    /\ Claims(p) = {} \/ (exec.pc = "done" /\ exec.proposal = p) \/ Unhealed(p)
AdoptedOnceInv == crashes <= 1 => \A p \in Proposals : OnceAdopted(p)

\* After its delta is in the graph an adoption closes its ticket, or the process dies.
LEMMA DoneSteps ==
  ASSUME [Next]_vars, exec.pc = "done"
  PROVE  CloseAdoption \/ Crash \/ UNCHANGED vars
<1>1. ~(Authoring \/ Owner \/ Tampering \/ StartSweep
          \/ \E p \in Proposals : ProposalGatekeeper(p))
  BY RestingFrames
     DEF Authoring, Owner, Tampering, SubmitProposal, RunTrial, RequestAdoption,
         ApproveAdoption, DenyAdoption, RequestDisable, ApproveDisable, TamperArtifacts,
         ProposalGatekeeper, StartSweep
<1>2. AdoptStep => CloseAdoption
  BY DEF AdoptStep, RefuseParked, HashMismatch, Regate, TakesAdoption, RerunGates,
         AbortAfterGates, ForkLostOrConflict, LoadAndRecord, Promote, PromotionRecorder,
         MarkPromoted, SupersedePriorActive, PatchAborted
<1>3. ~(Patches \/ DisableStep \/ RetryStep \/ BootStep)
  BY WhoSteps
     DEF Patches, RecordVerdict, MarkPending, MarkAdopting, DisableStep, DisablePack,
         AddRollback, MarkDisabled, CloseDisable, RetryStep, Retry, Retrial, Requeue,
         BootPCs
<1> QED BY <1>1, <1>2, <1>3 DEF Next, Chassis

\* The ticket an adoption is working on is a claim on it.
LEMMA OwnClaim ==
  ASSUME BaseInv, TicketInHand, exec.pc \in {"promote", "done"}
  PROVE  exec.ticket \in Claims(exec.proposal)
<1>1. exec.ticket \in OpenTickets BY DEF TicketInHand, HandFits, OpenPCs
<1>2. exec.ticket \in Hands BY <1>1, OpenAreTickets DEF Hands, Hand
<1>3. tickets[exec.ticket].proposal = exec.proposal
  BY DEF BaseInv, FrameFollows, AdoptionPCs
<1> QED BY <1>2, <1>3 DEF Claims

\* A promoted proposal's last claim is closed by its function, or, after a crash in
\* between, by boot.
LEMMA ClosingDone ==
  ASSUME BaseInv, TicketInHand, OneClaim, [Next]_vars, NEW p \in Proposals,
         requests[p] <= 1, exec.pc = "done", exec.proposal = p
  PROVE  Claims(p)' = {} \/ (exec'.pc = "done" /\ exec'.proposal = p) \/ Unhealed(p)'
<1>0. TypeInv BY DEF BaseInv
<1>1. CASE CloseAdoption
  <2>1. exec.ticket \in Claims(p) BY OwnClaim
  <2>2. Claims(p) = {exec.ticket} BY <2>1 DEF OneClaim
  <2>3. HandsKept /\ exec.ticket \notin Hands' BY <1>1, AdoptHands DEF AdoptStep
  <2>4. \A t \in Hands : tickets'[t].proposal = tickets[t].proposal
    BY <1>0, NextTickets, TicketsTyped DEF TicketsKept, Hands
  <2>5. Claims(p)' \subseteq Claims(p) BY <2>3, <2>4 DEF HandsKept, Claims
  <2>6. exec.ticket \notin Claims(p)' BY <2>3 DEF Claims
  <2> QED BY <2>2, <2>5, <2>6
<1>2. CASE Crash
  <2>1. exec.promotion \in 1..Len(promotions)
    BY <1>0 DEF TypeInv, FrameOK, PromotionPCs, RecordPCs
  <2>2. /\ promotions[exec.promotion].proposal = p
        /\ promotions[exec.promotion].status = "loading"
        /\ promotions[exec.promotion].fork \in applied
    BY DEF BaseInv, FrameFollows, RecordPCs
  <2>3. UNCHANGED <<promotions, applied>> /\ exec'.pc = "down"
    BY <1>2, RestingFrames DEF Crash, graph
  <2> QED BY <2>1, <2>2, <2>3 DEF Unhealed
<1>3. CASE UNCHANGED vars BY <1>3 DEF vars
<1> QED BY <1>1, <1>2, <1>3, DoneSteps

LEMMA ClosingHealed ==
  ASSUME BaseInv, OneActiveInv, SettledPack, TicketInHand, BootStep, [Next]_vars,
         NEW p \in Proposals, Unhealed(p)
  PROVE  Claims(p)' = {} \/ Unhealed(p)'
<1>0. TypeInv /\ PackOf \in [Proposals -> Packs]
  BY EvolutionAssumption DEF BaseInv, EvolutionAssumption
<1>1. CASE exec.pc = "close" /\ promotions[exec.promotion].proposal = p
  <2>1. CloseHealedTickets
    BY <1>1 DEF BootStep, Boot, OpenBootGap, LoadSurvivor, HealLoading, ParkLoading,
                SupersedeAtBoot, ResolvePack
  <2>2. HandsKept /\ Hands' \cap HealedTickets(p) = {} BY <1>1, <2>1, BootHands
  <2>3. exec.again = {} BY <1>1 DEF TicketInHand, HandFits, BootPCs
  <2>4. Hands \subseteq OpenTickets BY <1>1, <2>3 DEF Hands, Hand, Retries, RetryPCs
  <2>5. \A t \in Hands : tickets'[t].proposal = tickets[t].proposal
    BY <1>0, NextTickets, TicketsTyped DEF TicketsKept, Hands
  <2>6. ASSUME NEW t \in Claims(p)' PROVE FALSE
    <3>1. t \in Hands' /\ t \in Hands BY <2>2, <2>6 DEF Claims, HandsKept
    <3>2. tickets[t].proposal = p /\ t \in OpenTickets BY <2>4, <2>5, <2>6, <3>1 DEF Claims
    <3>3. t \in HealedTickets(p) BY <3>2 DEF HealedTickets, OpenTickets
    <3> QED BY <2>2, <3>1, <3>3
  <2> QED BY <2>6
<1>2. ASSUME exec.pc = "down" \/ (exec.pc \in BootPCs /\ PackOf[p] \in exec.packs),
             NEW i \in 1..Len(promotions), promotions[i].proposal = p,
             promotions[i].status = "loading", promotions[i].fork \in applied
      PROVE  Unhealed(p)'
  <2>1. NameOf(i) = PackOf[p] BY <1>2 DEF NameOf
  <2>2. \/ exec'.pc = "close" /\ exec'.promotion = i
        \/ /\ promotions'[i].status = "loading"
           /\ exec'.pc \in BootPCs /\ NameOf(i) \in exec'.packs
    BY <1>2, <2>1, BootHeals
  <2>3. PromotionsKept /\ promotions' \in Seq(Promotions)
    BY <1>0, NextPromotions, PromotionsTyped
  <2>4. i \in 1..Len(promotions') BY <1>0, <1>2, <2>3, TableTypes DEF PromotionsKept
  <2>5. promotions'[i].proposal = p /\ promotions'[i].fork \in applied'
    BY <1>2, <2>3, AppliedGrows DEF PromotionsKept
  <2> QED BY <2>1, <2>2, <2>4, <2>5 DEF Unhealed
<1> QED BY <1>1, <1>2 DEF Unhealed

LEMMA NextAdoptedOnce ==
  ASSUME BaseInv, OneActiveInv, AnnouncedInv, SettledPack, TicketInHand, OneClaim,
         AdoptedOnceInv, [Next]_vars
  PROVE  AdoptedOnceInv'
<1>0. TypeInv /\ crashes \in Nat BY DEF BaseInv, TypeInv, TypeOK
<1> SUFFICES ASSUME crashes' <= 1, NEW p \in Proposals, requests'[p] <= 1,
                    Adopted(p)' # {}
             PROVE  /\ requests'[p] = 1 /\ held'[p] = 0
                    /\ \A f, g \in Adopted(p)' : f = g
                    /\ \/ Claims(p)' = {}
                       \/ exec'.pc = "done" /\ exec'.proposal = p
                       \/ Unhealed(p)'
  BY DEF AdoptedOnceInv, OnceAdopted
<1>1. crashes <= 1 /\ (Crash => crashes = 0) BY <1>0, Counted
<1>2. held[p] \in Nat /\ requests[p] \in Nat BY DEF BaseInv, TypeInv, TypeOK
<1>3. \/ held'[p] = held[p] /\ requests'[p] = requests[p]
      \/ RequestAdoption(p) /\ held'[p] = held[p] + 1 /\ requests'[p] = requests[p] + 1
      \/ held[p] > 0 /\ held'[p] = held[p] - 1 /\ requests'[p] = requests[p]
  BY <1>0, HeldOfProposal
<1>4. requests[p] <= 1 BY <1>2, <1>3
<1>5. Adopted(p) # {} =>
        /\ requests[p] = 1 /\ held[p] = 0
        /\ \A f, g \in Adopted(p) : f = g
        /\ Claims(p) = {} \/ (exec.pc = "done" /\ exec.proposal = p) \/ Unhealed(p)
  BY <1>1, <1>4 DEF AdoptedOnceInv, OnceAdopted
<1>6. CASE Adopted(p)' = Adopted(p)
  <2>1. requests'[p] = 1 /\ held'[p] = 0 BY <1>2, <1>3, <1>5, <1>6
  <2>2. \A f, g \in Adopted(p)' : f = g BY <1>5, <1>6
  <2>3. CASE Claims(p) = {}
    <3>1. ~ApproveAdoption(p) BY <1>2, <1>5, <1>6 DEF ApproveAdoption
    <3>2. Claims(p)' = {} BY <2>3, <3>1, NextClaims
    <3> QED BY <2>1, <2>2, <3>2
  <2>4. CASE exec.pc = "done" /\ exec.proposal = p
    BY <1>4, <2>1, <2>2, <2>4, ClosingDone
  <2>5. CASE Unhealed(p)
    <3>1. exec.pc \in BootPCs \cup {"down"} BY <2>5 DEF Unhealed, BootPCs
    <3>2. ~Crash BY <1>1, <3>1 DEF AnnouncedInv
    <3>3. CASE BootStep BY <2>1, <2>2, <2>5, <3>3, ClosingHealed
    <3>4. CASE UNCHANGED vars
      <4>1. Unhealed(p)' BY <2>5, <3>4 DEF vars, graph, Unhealed
      <4> QED BY <2>1, <2>2, <4>1
    <3> QED BY <3>1, <3>2, <3>3, <3>4, WhoSteps
  <2> QED BY <1>5, <1>6, <2>3, <2>4, <2>5
<1>7. CASE /\ exec.pc = "promote" /\ p = exec.proposal
           /\ exec'.pc = "done" /\ exec'.proposal = p
           /\ Adopted(p)' = Adopted(p) \cup {promotions[exec.promotion].fork}
  <2>1. Claims(p) # {} BY <1>7, OwnClaim
  <2>2. ~Unhealed(p) BY <1>7 DEF Unhealed, BootPCs
  <2>3. Adopted(p) = {} BY <1>5, <1>7, <2>1, <2>2
  <2>4. \A f, g \in Adopted(p)' : f = g BY <1>7, <2>3
  <2>5. held[p] <= requests[p] /\ ~(held[p] > 0 \/ requests[p] = 0)
    BY <1>4, <2>1 DEF OneClaim
  <2>6. held[p] = 0 /\ requests[p] = 1 BY <1>2, <1>4, <2>5
  <2>7. ~RequestAdoption(p) BY <1>7, RestingFrames DEF RequestAdoption
  <2>8. requests'[p] = 1 /\ held'[p] = 0 BY <1>3, <2>6, <2>7
  <2> QED BY <1>7, <2>4, <2>8
<1> QED BY <1>6, <1>7, NextAdopted

\* One approved request promotes its state once, through any number of versions, retries
\* and disables and one crash anywhere: the sweep retries what it finds open, and so
\* whatever was promoted must have lost its last ticket before the next sweep.
THEOREM AdoptsOnce == Spec => []AdoptedOnce
<1> DEFINE Inv == /\ BaseInv /\ OneActiveInv /\ AnnouncedInv
                  /\ TicketInHand /\ OneClaim /\ SettledPack /\ AdoptedOnceInv
<1>1. Init => Inv
  <2> SUFFICES ASSUME Init PROVE Inv OBVIOUS
  <2>1. /\ exec = Idle /\ tickets = <<>> /\ applied = {} /\ reconciled = {}
        /\ held = [p \in Proposals |-> 0] /\ requests = [p \in Proposals |-> 0]
    BY DEF Init
  <2>2. OpenTickets = {} BY <2>1 DEF OpenTickets
  <2>3. HandFits(exec, OpenTickets) BY <2>1, RestingFrames, RestingHand DEF OpenPCs, RetryPCs
  <2>4. \A p : Claims(p) = {} BY <2>1 DEF Claims, Hands
  <2>5. OneClaim BY <2>1, <2>4 DEF OneClaim
  <2>6. SettledPack BY <2>1, RestingFrames DEF SettledPack
  <2>7. AdoptedOnceInv BY <2>1 DEF AdoptedOnceInv, OnceAdopted, Adopted
  <2>8. AnnouncedInv BY <2>1, RestingFrames DEF AnnouncedInv, BootPCs
  <2> QED BY <2>3, <2>5, <2>6, <2>7, <2>8, InitTypes, OneActiveInit DEF TicketInHand
<1>2. ASSUME Inv, [Next]_vars PROVE Inv'
  <2>1. BaseInv' BY <1>2, NextTypes, NextFollows DEF BaseInv
  <2>2. OneActiveInv' BY <1>2, OneActiveNext, OneActivePlaces DEF OneActiveInv
  <2>3. AnnouncedInv' BY <1>2, AnnouncedNext
  <2>4. TicketInHand' BY <1>2, NextHands DEF HandsKept, HandsOpen
  <2>5. OneClaim' BY <1>2, OneClaimNext
  <2>6. SettledPack' BY <1>2, NextSettled
  <2>7. AdoptedOnceInv' BY <1>2, NextAdoptedOnce
  <2> QED BY <2>1, <2>2, <2>3, <2>4, <2>5, <2>6, <2>7
<1>3. Inv => AdoptedOnce
  <2> SUFFICES ASSUME Inv, crashes <= 1, NEW p \in Proposals, requests[p] <= 1
               PROVE  Cardinality(applied \cap TrialsOf(p)) <= 1
    BY DEF AdoptedOnce
  <2>1. CASE Adopted(p) = {} BY <2>1, FS_EmptySet DEF Adopted
  <2>2. CASE Adopted(p) # {}
    <3>1. PICK f \in Adopted(p) : TRUE BY <2>2
    <3>2. Adopted(p) = {f} BY <2>2, <3>1 DEF AdoptedOnceInv, OnceAdopted
    <3> QED BY <3>2, FS_Singleton DEF Adopted
  <2> QED BY <2>1, <2>2
<1> HIDE DEF Inv
<1>4. [Next]_vars /\ Inv => Inv' BY <1>2
<1> QED BY <1>1, <1>3, <1>4, PTL DEF Spec
================================================================================
