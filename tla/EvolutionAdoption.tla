--------------------------- MODULE EvolutionAdoption ---------------------------
(***************************************************************************)
(* packs/evolution: how a pack the assistant wrote gets into the running    *)
(* system, how it is taken out again, and what a restart makes of it.       *)
(*                                                                          *)
(* A proposal is gated and tried in a fork; the owner approves the adoption *)
(* call, whose executor only writes a ticket; sweep_evolution applies the   *)
(* open tickets between frames and retries conflicts up to a cap; boot      *)
(* rebuilds the loaded packs from the graph.  Everything runs on the one    *)
(* runtime thread, and each function is split at its graph mutations, with  *)
(* a possible crash between any two: `exec' is the function in progress.    *)
(* The graph and the forks survive a crash, loaded packs and queued events  *)
(* do not.                                                                  *)
(***************************************************************************)
EXTENDS Naturals, Sequences, FiniteSets

CONSTANTS
  Proposals,      \* mod_proposal objects
  Packs,          \* pack names
  PackOf,         \* [Proposals -> Packs]: two proposals of a pack are versions
  NoProposal,     \* no proposal: a disable ticket, an unloaded pack
  MaxRetries,     \* max_conflict_retries
  MaxRequests,    \* bound on the adoption requests of one proposal
  MaxForks,       \* bound on trials
  MaxDisables,    \* bound on disable requests
  MaxTampers,     \* bound on edits of stored artifacts
  MaxCrashes      \* bound on crashes

ASSUME EvolutionAssumption ==
  /\ PackOf \in [Proposals -> Packs]
  /\ NoProposal \notin Proposals
  /\ {MaxRetries, MaxRequests, MaxForks, MaxDisables, MaxTampers,
      MaxCrashes} \subseteq Nat

VARIABLES
  status,         \* [Proposals -> Statuses]: mod_proposal.status
  retries,        \* [Proposals -> Nat]: metadata.auto_retries
  drafts,         \* mod_proposal creation events not yet dispatched
  held,           \* [Proposals -> Nat]: adopt_proposal calls awaiting the owner
  heldDisables,   \* promotions with a disable_promotion call awaiting the owner
  tickets,        \* adoption_ticket objects in creation order
  forks,          \* passing trials (and their fork runs) in creation order
  applied,        \* forks with a promote.applied marker in the event log
  promotions,     \* mod_promotion objects in creation order
  gaps,           \* what boot has announced: promotion and case
  loaded,         \* [Packs -> Loads]: the code the runtime holds, in memory
  tampered,       \* proposals whose stored artifacts no longer match the pin
  exec,           \* the function the runtime thread is in the middle of
  requests,       \* history: [Proposals -> Nat], adoption requests
  approved,       \* history: proposals whose adoption the owner approved
  reconciled,     \* history: what boot has changed: promotion and case
  disables, crashes

graph == <<status, retries, held, heldDisables, tickets, forks, applied,
           promotions, gaps>>
history == <<requests, approved, reconciled, disables, crashes>>
vars == <<graph, drafts, loaded, tampered, exec, history>>

Statuses == {"none", "drafted", "gated", "rejected", "suspended", "trialed",
             "pending_approval", "adopting", "promoted", "conflict",
             "disabled", "needs_owner"}
\* A ticket adopts a proposal or disables the promotion with the given index.
Tickets == [kind : {"adopt", "disable"}, proposal : Proposals \cup {NoProposal},
            promotion : Nat, status : {"open", "done", "aborted"}]
Forks == [proposal : Proposals, alive : BOOLEAN]
Promotions == [proposal : Proposals, fork : Nat,
               status : {"loading", "active", "disabled"}, rolledBack : BOOLEAN]
\* What is loaded under a name, and whether its bytes were the reviewed ones.
Loads == [proposal : Proposals \cup {NoProposal}, pinned : BOOLEAN]
Nothing == [proposal |-> NoProposal, pinned |-> TRUE]

\* What boot changes and announces.
Cases == {"healed", "parked", "superseded", "mismatch"}

\* The frame: where the thread is; the tickets still to process and those to
\* retry; the ticket, promotion and proposal at hand; the status a pending patch
\* sets or the case a pending gap reports; the packs boot has still to resolve.
PCs == {"idle", "down", "request", "adopting", "ticket", "patch", "gates",
        "abort", "fork", "promote", "done", "record", "promoted", "supersede",
        "rollback", "undo", "closed", "retry", "retrial", "verdict", "requeue",
        "boot", "close", "gap", "survivor"}
Frames == [pc : PCs, todo : SUBSET Nat, again : SUBSET Nat, ticket : Nat,
           promotion : Nat, proposal : Proposals \cup {NoProposal},
           to : Statuses \cup Cases, packs : SUBSET Packs]
Idle == [pc |-> "idle", todo |-> {}, again |-> {}, ticket |-> 0,
         promotion |-> 0, proposal |-> NoProposal, to |-> "none", packs |-> {}]
Down == [Idle EXCEPT !.pc = "down"]

TypeOK ==
  /\ status \in [Proposals -> Statuses]
  /\ retries \in [Proposals -> Nat]
  /\ drafts \subseteq Proposals
  /\ held \in [Proposals -> Nat]
  /\ heldDisables \subseteq Nat
  /\ tickets \in Seq(Tickets)
  /\ forks \in Seq(Forks)
  /\ applied \subseteq Nat
  /\ promotions \in Seq(Promotions)
  /\ gaps \subseteq Nat \X Cases
  /\ loaded \in [Packs -> Loads]
  /\ tampered \subseteq Proposals
  /\ exec \in Frames
  /\ requests \in [Proposals -> Nat]
  /\ approved \subseteq Proposals
  /\ reconciled \subseteq Nat \X Cases
  /\ disables \in Nat
  /\ crashes \in Nat

Init ==
  /\ status = [p \in Proposals |-> "none"]
  /\ retries = [p \in Proposals |-> 0]
  /\ drafts = {}
  /\ held = [p \in Proposals |-> 0]
  /\ heldDisables = {}
  /\ tickets = <<>>
  /\ forks = <<>>
  /\ applied = {}
  /\ promotions = <<>>
  /\ gaps = {}
  /\ loaded = [n \in Packs |-> Nothing]
  /\ tampered = {}
  /\ exec = Idle
  /\ requests = [p \in Proposals |-> 0]
  /\ approved = {}
  /\ reconciled = {}
  /\ disables = 0
  /\ crashes = 0

-----------------------------------------------------------------------------

SetProposal(p, s) == status' = [status EXCEPT ![p] = s]
SetTicket(t, s) == tickets' = [tickets EXCEPT ![t].status = s]
SetPromotion(i, s) == promotions' = [promotions EXCEPT ![i].status = s]
OpenAdoption(p) ==
  tickets' = Append(tickets, [kind |-> "adopt", proposal |-> p, promotion |-> 0,
                              status |-> "open"])


\* Mutant: the sweep sees adoption tickets only.
OpenTicketsAdoptOnly ==
  {t \in 1..Len(tickets) : tickets[t].status = "open" /\ tickets[t].kind = "adopt"}

\* The tickets a sweep works on.
OpenTickets == {t \in 1..Len(tickets) : tickets[t].status = "open"}
LargestOf(S) == CHOOSE i \in S : \A j \in S : j <= i
SmallestOf(S) == CHOOSE i \in S : \A j \in S : i <= j
NameOf(i) == PackOf[promotions[i].proposal]
Group(n) == {i \in 1..Len(promotions) : NameOf(i) = n}
InGroup(n, s) == {i \in Group(n) : promotions[i].status = s}

\* The fork of the latest passing trial, 0 if there is none, and whether
\* load_trial_fork finds its run.
TrialsOf(p) == {f \in 1..Len(forks) : forks[f].proposal = p}
LatestFork(p) == IF TrialsOf(p) = {} THEN 0 ELSE LargestOf(TrialsOf(p))
ForkLoads(p) == TrialsOf(p) # {} /\ forks[LatestFork(p)].alive

\* The sweep goes on with the next ticket, then with the retries.
After(todo, again) ==
  CASE todo # {} -> [Idle EXCEPT !.pc = "ticket", !.todo = todo, !.again = again]
    [] todo = {} /\ again # {} -> [Idle EXCEPT !.pc = "retry", !.again = again]
    [] OTHER -> Idle

-----------------------------------------------------------------------------
(* Proposals, trials and requests *)

\* submit_proposal_fn.
SubmitProposal(p) ==
  /\ exec = Idle
  /\ status[p] = "none"
  /\ SetProposal(p, "drafted")
  /\ drafts' = drafts \cup {p}
  /\ UNCHANGED <<retries, held, heldDisables, tickets, forks, applied,
                 promotions, gaps, loaded, tampered, exec, history>>

\* What run_static_gates finds in the files, the settings and the lineage.
GateFailures == {"rejected", "suspended"}

\* proposal_gatekeeper acts on the event's snapshot, which says 'drafted'; a
\* tainted lineage suspends, otherwise the gates decide.
ProposalGatekeeper(p) ==
  /\ exec = Idle
  /\ p \in drafts
  /\ drafts' = drafts \ {p}
  /\ \E s \in {"gated"} \cup GateFailures : SetProposal(p, s)
  /\ UNCHANGED <<retries, held, heldDisables, tickets, forks, applied,
                 promotions, gaps, loaded, tampered, exec, history>>

\* run_trial records a passing trial, then patches the proposal; a failing one
\* rejects it.
TrialOutcome(p) ==
  \/ /\ SetProposal(p, "rejected")
     /\ exec' = After({}, exec.again)
     /\ UNCHANGED forks
  \/ /\ Len(forks) < MaxForks
     /\ forks' = Append(forks, [proposal |-> p, alive |-> TRUE])
     /\ exec' = [exec EXCEPT !.pc = "verdict", !.proposal = p]
     /\ UNCHANGED status

\* The host tries a gated proposal.
RunTrial(p) ==
  /\ exec = Idle
  /\ status[p] = "gated"
  /\ p \notin tampered
  /\ TrialOutcome(p)
  /\ UNCHANGED <<retries, drafts, held, heldDisables, tickets, applied,
                 promotions, gaps, loaded, tampered, history>>

RecordVerdict ==
  /\ exec.pc = "verdict"
  /\ SetProposal(exec.proposal, "trialed")
  /\ exec' = IF exec.ticket = 0 THEN Idle ELSE [exec EXCEPT !.pc = "requeue"]
  /\ UNCHANGED <<retries, drafts, held, heldDisables, tickets, forks, applied,
                 promotions, gaps, loaded, tampered, history>>

\* request_adoption_fn holds a call and patches the proposal, whatever status
\* the proposal has.
RequestAdoption(p) ==
  /\ exec = Idle
  /\ status[p] # "none"
  /\ requests[p] < MaxRequests
  /\ requests' = [requests EXCEPT ![p] = @ + 1]
  /\ held' = [held EXCEPT ![p] = @ + 1]
  /\ exec' = [Idle EXCEPT !.pc = "request", !.proposal = p]
  /\ UNCHANGED <<status, retries, drafts, heldDisables, tickets, forks, applied,
                 promotions, gaps, loaded, tampered, approved, reconciled,
                 disables, crashes>>

MarkPending ==
  /\ exec.pc = "request"
  /\ SetProposal(exec.proposal, "pending_approval")
  /\ exec' = Idle
  /\ UNCHANGED <<retries, drafts, held, heldDisables, tickets, forks, applied,
                 promotions, gaps, loaded, tampered, history>>

\* _adopt_executor's check.
Adoptable(p) == status[p] \in {"trialed", "pending_approval"}

\* The owner approves a held call and _adopt_executor runs: it opens a ticket
\* and patches the proposal, or raises.
ApproveAdoption(p) ==
  /\ exec = Idle
  /\ held[p] > 0
  /\ held' = [held EXCEPT ![p] = @ - 1]
  /\ approved' = approved \cup {p}
  /\ IF Adoptable(p)
       THEN /\ OpenAdoption(p)
            /\ exec' = [Idle EXCEPT !.pc = "adopting", !.proposal = p]
       ELSE UNCHANGED <<tickets, exec>>
  /\ UNCHANGED <<status, retries, drafts, heldDisables, forks, applied,
                 promotions, gaps, loaded, tampered, requests, reconciled,
                 disables, crashes>>

MarkAdopting ==
  /\ exec.pc = "adopting"
  /\ SetProposal(exec.proposal, "adopting")
  /\ exec' = Idle
  /\ UNCHANGED <<retries, drafts, held, heldDisables, tickets, forks, applied,
                 promotions, gaps, loaded, tampered, history>>

\* Denying the call leaves the proposal alone.
DenyAdoption(p) ==
  /\ exec = Idle
  /\ held[p] > 0
  /\ held' = [held EXCEPT ![p] = @ - 1]
  /\ UNCHANGED <<status, retries, drafts, heldDisables, tickets, forks, applied,
                 promotions, gaps, loaded, tampered, exec, history>>

\* A disable_promotion call is proposed, and approved later or never.
RequestDisable(i) ==
  /\ exec = Idle
  /\ disables < MaxDisables
  /\ disables' = disables + 1
  /\ heldDisables' = heldDisables \cup {i}
  /\ UNCHANGED <<status, retries, drafts, held, tickets, forks, applied,
                 promotions, gaps, loaded, tampered, exec, requests, approved,
                 reconciled, crashes>>

\* _disable_executor.
ApproveDisable(i) ==
  /\ exec = Idle
  /\ i \in heldDisables
  /\ heldDisables' = heldDisables \ {i}
  /\ tickets' = Append(tickets, [kind |-> "disable", proposal |-> NoProposal,
                                 promotion |-> i, status |-> "open"])
  /\ UNCHANGED <<status, retries, drafts, held, forks, applied, promotions,
                 gaps, loaded, tampered, exec, history>>

\* Somebody edits the artifacts a proposal's pack is stored in.
TamperArtifacts(p) ==
  /\ exec = Idle
  /\ status[p] # "none"
  /\ p \notin tampered
  /\ Cardinality(tampered) < MaxTampers
  /\ tampered' = tampered \cup {p}
  /\ UNCHANGED <<graph, drafts, loaded, exec, history>>

-----------------------------------------------------------------------------
(* process_adoption_tickets *)

\* sweep_evolution takes the open tickets in creation order.
StartSweep ==
  /\ exec = Idle
  /\ OpenTickets # {}
  /\ exec' = After(OpenTickets, {})
  /\ UNCHANGED <<graph, drafts, loaded, tampered, history>>

\* The next ticket in creation order, and the frame that works on it.
Current == SmallestOf(exec.todo)
Working(pc, p) ==
  [exec EXCEPT !.pc = pc, !.todo = @ \ {Current}, !.ticket = Current,
               !.proposal = p]
TakesAdoption(p) ==
  /\ exec.pc = "ticket"
  /\ tickets[Current].kind = "adopt"
  /\ p = tickets[Current].proposal

\* Mutant: nobody is refused.
ParkedNever(p) == FALSE

Parked(p) == status[p] = "needs_owner"

\* A parked proposal's ticket is aborted, the proposal left alone.
RefuseParked(p) ==
  /\ TakesAdoption(p)
  /\ Parked(p)
  /\ SetTicket(Current, "aborted")
  /\ exec' = After(exec.todo \ {Current}, exec.again)
  /\ UNCHANGED <<status, retries, drafts, held, heldDisables, forks, applied,
                 promotions, gaps, loaded, tampered, history>>

\* Mutant: the pin is not verified.
PinHoldsAlways(p) == TRUE

\* materialize_verified: the stored bytes still have the approved hash.
PinHolds(p) == p \notin tampered

HashMismatch(p) ==
  /\ TakesAdoption(p)
  /\ ~Parked(p)
  /\ ~PinHolds(p)
  /\ SetTicket(Current, "aborted")
  /\ exec' = [Working("patch", p) EXCEPT !.to = "suspended"]
  /\ UNCHANGED <<status, retries, drafts, held, heldDisables, forks, applied,
                 promotions, gaps, loaded, tampered, history>>

\* The proposal goes back to 'gated' for the gates' second run.
Regate(p) ==
  /\ TakesAdoption(p)
  /\ ~Parked(p)
  /\ PinHolds(p)
  /\ SetProposal(p, "gated")
  /\ exec' = Working("gates", p)
  /\ UNCHANGED <<retries, drafts, held, heldDisables, tickets, forks, applied,
                 promotions, gaps, loaded, tampered, history>>

\* run_static_gates; the settings they read may have changed since.
RerunGates ==
  /\ exec.pc = "gates"
  /\ \/ /\ SetProposal(exec.proposal, "adopting")
        /\ exec' = [exec EXCEPT !.pc = "fork"]
     \/ /\ \E s \in GateFailures : SetProposal(exec.proposal, s)
        /\ exec' = [exec EXCEPT !.pc = "abort"]
  /\ UNCHANGED <<retries, drafts, held, heldDisables, tickets, forks, applied,
                 promotions, gaps, loaded, tampered, history>>

AbortAfterGates ==
  /\ exec.pc = "abort"
  /\ SetTicket(exec.ticket, "aborted")
  /\ exec' = After(exec.todo, exec.again)
  /\ UNCHANGED <<status, retries, drafts, held, heldDisables, forks, applied,
                 promotions, gaps, loaded, tampered, history>>

\* The latest passing trial's fork is gone, or the dry run conflicts: always
\* when this fork has been promoted before, otherwise when the parent's state
\* has moved under it.
ForkLostOrConflict ==
  /\ exec.pc = "fork"
  /\ SetTicket(exec.ticket, "aborted")
  /\ exec' = [exec EXCEPT !.pc = "patch",
                !.to = IF ForkLoads(exec.proposal) THEN "conflict" ELSE "gated"]
  /\ UNCHANGED <<status, retries, drafts, held, heldDisables, forks, applied,
                 promotions, gaps, loaded, tampered, history>>

\* The dry run is clean: load the pack and record the promotion.
LoadAndRecord ==
  LET p == exec.proposal IN
  /\ exec.pc = "fork"
  /\ ForkLoads(p)
  /\ LatestFork(p) \notin applied
  /\ loaded' = [loaded EXCEPT ![PackOf[p]] =
                  [proposal |-> p, pinned |-> p \notin tampered]]
  /\ promotions' = Append(promotions, [proposal |-> p, fork |-> LatestFork(p),
                            status |-> "loading", rolledBack |-> FALSE])
  /\ exec' = [exec EXCEPT !.pc = "promote", !.promotion = Len(promotions) + 1]
  /\ UNCHANGED <<status, retries, drafts, held, heldDisables, tickets, forks,
                 applied, gaps, tampered, history>>

\* The real promote recomputes the delta and applies it, or raises with
\* nothing applied.
Promote ==
  /\ exec.pc = "promote"
  /\ \/ /\ applied' = applied \cup {promotions[exec.promotion].fork}
        /\ exec' = [exec EXCEPT !.pc = "done"]
        /\ UNCHANGED tickets
     \/ /\ SetTicket(exec.ticket, "aborted")
        /\ exec' = [exec EXCEPT !.pc = "patch", !.to = "conflict"]
        /\ UNCHANGED applied
  /\ UNCHANGED <<status, retries, drafts, held, heldDisables, forks,
                 promotions, gaps, loaded, tampered, history>>

CloseAdoption ==
  /\ exec.pc = "done"
  /\ SetTicket(exec.ticket, "done")
  /\ exec' = [exec EXCEPT !.pc = "record"]
  /\ UNCHANGED <<status, retries, drafts, held, heldDisables, forks, applied,
                 promotions, gaps, loaded, tampered, history>>

\* Mutant: the recorder does not look at the status.
RecordedAny(fork) == {j \in 1..Len(promotions) : promotions[j].fork = fork}

Recorded(fork) ==
  {j \in 1..Len(promotions) :
     promotions[j].fork = fork /\ promotions[j].status = "loading"}

\* promotion_recorder, fired by the marker event: the first loading promotion
\* with the marker's fork becomes active, then its proposal is promoted.
PromotionRecorder ==
  LET i == SmallestOf(Recorded(promotions[exec.promotion].fork))
  IN /\ exec.pc = "record"
     /\ SetPromotion(i, "active")
     /\ exec' = [exec EXCEPT !.pc = "promoted",
                             !.proposal = promotions[i].proposal]
     /\ UNCHANGED <<status, retries, drafts, held, heldDisables, tickets, forks,
                    applied, gaps, loaded, tampered, history>>

\* Mutant: earlier versions are not looked for.
RivalsNone(i) == {}

\* _supersede_prior_actives: the other active promotions of the pack.
Rivals(i) == InGroup(NameOf(i), "active") \ {i}

MarkPromoted ==
  /\ exec.pc = "promoted"
  /\ SetProposal(exec.proposal, "promoted")
  /\ exec' = IF Rivals(exec.promotion) = {} THEN After(exec.todo, exec.again)
                                            ELSE [exec EXCEPT !.pc = "supersede"]
  /\ UNCHANGED <<retries, drafts, held, heldDisables, tickets, forks, applied,
                 promotions, gaps, loaded, tampered, history>>

\* Mutant: superseding goes through disable_pack.
LoadedAfterSupersedeNone(i) == [loaded EXCEPT ![NameOf(i)] = Nothing]

\* "A bookkeeping disable, NOT a disable_pack".
LoadedAfterSupersede(i) == loaded

SupersedePriorActive ==
  LET i == SmallestOf(Rivals(exec.promotion)) IN
  /\ exec.pc = "supersede"
  /\ SetPromotion(i, "disabled")
  /\ loaded' = LoadedAfterSupersede(i)
  /\ exec' = IF Rivals(exec.promotion) = {i} THEN After(exec.todo, exec.again)
                                             ELSE exec
  /\ UNCHANGED <<status, retries, drafts, held, heldDisables, tickets, forks,
                 applied, gaps, tampered, history>>

\* Mutant: the ticket's final status goes to the proposal too.
AbortStatusOfTicket == "aborted"

\* The proposal status _abort is called with.
AbortStatus == exec.to

\* Mutant: conflicts are left to the owner.
RetryableLostForks == {"gated"}

\* The outcomes sweep_evolution retries: a lost fork and a conflict.
Retryable == {"gated", "conflict"}

\* The proposal patch of an abort.
PatchAborted ==
  /\ exec.pc = "patch"
  /\ SetProposal(exec.proposal, AbortStatus)
  /\ exec' = After(exec.todo,
       exec.again \cup (IF exec.to \in Retryable THEN {exec.ticket} ELSE {}))
  /\ UNCHANGED <<retries, drafts, held, heldDisables, tickets, forks, applied,
                 promotions, gaps, loaded, tampered, history>>

-----------------------------------------------------------------------------
(* _process_disable *)

\* The idempotency guard: disabled and rolled back already.
AlreadyDisabled(i) ==
  promotions[i].status = "disabled" /\ promotions[i].rolledBack

\* Otherwise rt.disable_pack deregisters the pack by its name.
DisablePack(i) ==
  /\ exec.pc = "ticket"
  /\ tickets[Current].kind = "disable"
  /\ i = tickets[Current].promotion
  /\ \/ /\ AlreadyDisabled(i)
        /\ SetTicket(Current, "done")
        /\ exec' = After(exec.todo \ {Current}, exec.again)
        /\ UNCHANGED <<loaded, promotions>>
     \/ /\ ~AlreadyDisabled(i)
        /\ loaded' = [loaded EXCEPT ![NameOf(i)] = Nothing]
        /\ SetPromotion(i, "disabled")
        /\ exec' = [Working("rollback", promotions[i].proposal)
                      EXCEPT !.promotion = i]
        /\ UNCHANGED tickets
  /\ UNCHANGED <<status, retries, drafts, held, heldDisables, forks, applied,
                 gaps, tampered, history>>

AddRollback ==
  /\ exec.pc = "rollback"
  /\ promotions' = [promotions EXCEPT ![exec.promotion].rolledBack = TRUE]
  /\ exec' = [exec EXCEPT !.pc = "undo"]
  /\ UNCHANGED <<status, retries, drafts, held, heldDisables, tickets, forks,
                 applied, gaps, loaded, tampered, history>>

MarkDisabled ==
  /\ exec.pc = "undo"
  /\ SetProposal(exec.proposal, "disabled")
  /\ exec' = [exec EXCEPT !.pc = "closed"]
  /\ UNCHANGED <<retries, drafts, held, heldDisables, tickets, forks, applied,
                 promotions, gaps, loaded, tampered, history>>

CloseDisable ==
  /\ exec.pc = "closed"
  /\ SetTicket(exec.ticket, "done")
  /\ exec' = After(exec.todo, exec.again)
  /\ UNCHANGED <<status, retries, drafts, held, heldDisables, forks, applied,
                 promotions, gaps, loaded, tampered, history>>

-----------------------------------------------------------------------------
(* sweep_evolution: capped retries *)

CapReached(p) == retries[p] >= MaxRetries

\* After MaxRetries attempts the proposal is parked; otherwise it goes back to
\* 'gated' and is tried again.
Retry ==
  LET t == SmallestOf(exec.again)
      p == tickets[t].proposal
  IN /\ exec.pc = "retry"
     /\ \/ /\ CapReached(p)
           /\ SetProposal(p, "needs_owner")
           /\ exec' = After({}, exec.again \ {t})
           /\ UNCHANGED retries
        \/ /\ ~CapReached(p)
           /\ retries' = [retries EXCEPT ![p] = @ + 1]
           /\ SetProposal(p, "gated")
           /\ exec' = [Idle EXCEPT !.pc = "retrial", !.ticket = t,
                                   !.again = exec.again \ {t}, !.proposal = p]
     /\ UNCHANGED <<drafts, held, heldDisables, tickets, forks, applied,
                    promotions, gaps, loaded, tampered, history>>

Retrial ==
  /\ exec.pc = "retrial"
  /\ TrialOutcome(exec.proposal)
  /\ UNCHANGED <<retries, drafts, held, heldDisables, tickets, applied,
                 promotions, gaps, loaded, tampered, history>>

\* A fresh ticket under the same approved call, for the next sweep.
Requeue ==
  /\ exec.pc = "requeue"
  /\ OpenAdoption(exec.proposal)
  /\ exec' = After({}, exec.again)
  /\ UNCHANGED <<status, retries, drafts, held, heldDisables, forks, applied,
                 promotions, gaps, loaded, tampered, history>>

-----------------------------------------------------------------------------
(* Crash and boot *)

\* The process dies between any two mutations.
Crash ==
  /\ exec.pc # "down"
  /\ crashes < MaxCrashes
  /\ crashes' = crashes + 1
  /\ exec' = Down
  /\ loaded' = [n \in Packs |-> Nothing]
  /\ drafts' = {}
  /\ UNCHANGED <<graph, tampered, requests, approved, reconciled, disables>>

\* retire_unpinned_trial_forks: a promoted fork is pinned, and a proposal that
\* may still be adopted keeps its forks.
Retained(f) ==
  \/ f \in applied
  \/ status[forks[f].proposal] \in {"trialed", "pending_approval", "adopting",
                                    "needs_owner"}

Boot ==
  /\ exec.pc = "down"
  /\ forks' = [f \in 1..Len(forks) |->
                 [forks[f] EXCEPT !.alive = @ /\ Retained(f)]]
  /\ exec' = [Down EXCEPT !.pc = "boot", !.packs = Packs]
  /\ UNCHANGED <<status, retries, drafts, held, heldDisables, tickets, applied,
                 promotions, gaps, loaded, tampered, history>>

\* reload_adopted_packs goes on with the remaining packs, or is done.
Remaining(packs) ==
  IF packs = {} THEN Idle ELSE [Down EXCEPT !.pc = "boot", !.packs = packs]

\* Mutant: superseding at boot is not announced.
AnnounceLosses(i, case, packs) ==
  [Down EXCEPT !.pc = IF case = "superseded" THEN "survivor" ELSE "gap",
               !.promotion = i, !.to = case, !.packs = packs]

Announce(i, case, packs) ==
  [Down EXCEPT !.pc = "gap", !.promotion = i, !.to = case, !.packs = packs]

\* Mutant: every loading record is taken for a completed promote.
MarkerInLogAlways(i) == TRUE

MarkerInLog(i) == promotions[i].fork \in applied

\* A loading record with a marker is a completed promote: heal it.
HealLoading(n) ==
  LET i == SmallestOf(InGroup(n, "loading")) IN
  /\ exec.pc = "boot" /\ n \in exec.packs
  /\ InGroup(n, "loading") # {}
  /\ MarkerInLog(i)
  /\ SetPromotion(i, "active")
  /\ reconciled' = reconciled \cup {<<i, "healed">>}
  /\ exec' = [Announce(i, "healed", exec.packs) EXCEPT !.pc = "close"]
  /\ UNCHANGED <<status, retries, drafts, held, heldDisables, tickets, forks,
                 applied, gaps, loaded, tampered, requests, approved, disables,
                 crashes>>

\* Mutant: the healed adoption's ticket stays open.
HealedTicketsNone(p) == {}

HealedTickets(p) ==
  {t \in 1..Len(tickets) : tickets[t].proposal = p /\ tickets[t].status = "open"}

\* The healed proposal's open tickets are closed.
CloseHealedTickets ==
  /\ exec.pc = "close"
  /\ tickets' = [t \in 1..Len(tickets) |->
       IF t \in HealedTickets(promotions[exec.promotion].proposal)
         THEN [tickets[t] EXCEPT !.status = "done"] ELSE tickets[t]]
  /\ exec' = [exec EXCEPT !.pc = "gap"]
  /\ UNCHANGED <<status, retries, drafts, held, heldDisables, forks, applied,
                 promotions, gaps, loaded, tampered, history>>

\* A loading record without a marker is an incomplete adoption: park it.
ParkLoading(n) ==
  LET i == SmallestOf(InGroup(n, "loading")) IN
  /\ exec.pc = "boot" /\ n \in exec.packs
  /\ InGroup(n, "loading") # {}
  /\ ~MarkerInLog(i)
  /\ SetPromotion(i, "disabled")
  /\ reconciled' = reconciled \cup {<<i, "parked">>}
  /\ exec' = Announce(i, "parked", exec.packs)
  /\ UNCHANGED <<status, retries, drafts, held, heldDisables, tickets, forks,
                 applied, gaps, loaded, tampered, requests, approved, disables,
                 crashes>>

SeveralActive(n) == Cardinality(InGroup(n, "active")) >= 2

\* Of several active promotions the latest survives.
SupersedeAtBoot(n) ==
  LET survivor == LargestOf(InGroup(n, "active")) IN
  /\ exec.pc = "boot" /\ n \in exec.packs
  /\ InGroup(n, "loading") = {}
  /\ SeveralActive(n)
  /\ promotions' = [i \in 1..Len(promotions) |->
       IF i \in InGroup(n, "active") \ {survivor}
         THEN [promotions[i] EXCEPT !.status = "disabled"] ELSE promotions[i]]
  /\ reconciled' = reconciled \cup {<<survivor, "superseded">>}
  /\ exec' = Announce(survivor, "superseded", exec.packs)
  /\ UNCHANGED <<status, retries, drafts, held, heldDisables, tickets, forks,
                 applied, gaps, loaded, tampered, requests, approved, disables,
                 crashes>>

\* Every heal, park and mismatch opens a capability_gap.
OpenBootGap ==
  /\ exec.pc = "gap"
  /\ gaps' = gaps \cup {<<exec.promotion, exec.to>>}
  /\ exec' = IF exec.to = "superseded" THEN [exec EXCEPT !.pc = "survivor"]
                                       ELSE Remaining(exec.packs)
  /\ UNCHANGED <<status, retries, drafts, held, heldDisables, tickets, forks,
                 applied, promotions, loaded, tampered, history>>

\* _reload_one: load what still has the reviewed bytes, disable the rest.
ReloadOne(i, packs) ==
  LET p == promotions[i].proposal IN
  \/ /\ PinHolds(p)
     /\ loaded' = [loaded EXCEPT ![PackOf[p]] =
                     [proposal |-> p, pinned |-> p \notin tampered]]
     /\ exec' = Remaining(packs)
     /\ UNCHANGED <<promotions, reconciled>>
  \/ /\ ~PinHolds(p)
     /\ SetPromotion(i, "disabled")
     /\ reconciled' = reconciled \cup {<<i, "mismatch">>}
     /\ exec' = Announce(i, "mismatch", packs)
     /\ UNCHANGED loaded

LoadSurvivor ==
  /\ exec.pc = "survivor"
  /\ ReloadOne(exec.promotion, exec.packs \ {NameOf(exec.promotion)})
  /\ UNCHANGED <<status, retries, drafts, held, heldDisables, tickets, forks,
                 applied, gaps, tampered, requests, approved, disables, crashes>>

\* A single active promotion is loaded if it is the latest record of its pack;
\* "recency decides" otherwise, and the pack stays down.
ResolvePack(n) ==
  /\ exec.pc = "boot" /\ n \in exec.packs
  /\ InGroup(n, "loading") = {}
  /\ ~SeveralActive(n)
  /\ \/ \E i \in InGroup(n, "active") :
          i = LargestOf(Group(n)) /\ ReloadOne(i, exec.packs \ {n})
     \/ /\ \A i \in InGroup(n, "active") : i # LargestOf(Group(n))
        /\ exec' = Remaining(exec.packs \ {n})
        /\ UNCHANGED <<loaded, promotions, reconciled>>
  /\ UNCHANGED <<status, retries, drafts, held, heldDisables, tickets, forks,
                 applied, gaps, tampered, requests, approved, disables, crashes>>

-----------------------------------------------------------------------------

Authoring ==
  \E p \in Proposals : SubmitProposal(p) \/ RunTrial(p) \/ RequestAdoption(p)
Owner ==
  \/ \E p \in Proposals : ApproveAdoption(p) \/ DenyAdoption(p)
  \/ \E i \in 1..Len(promotions) : RequestDisable(i) \/ ApproveDisable(i)
Tampering == \E p \in Proposals : TamperArtifacts(p)

\* The tail of an API function that has begun.
Patches == RecordVerdict \/ MarkPending \/ MarkAdopting
AdoptStep ==
  \/ \E p \in Proposals : RefuseParked(p) \/ HashMismatch(p) \/ Regate(p)
  \/ RerunGates \/ AbortAfterGates \/ ForkLostOrConflict \/ LoadAndRecord
  \/ Promote \/ CloseAdoption \/ PromotionRecorder \/ MarkPromoted
  \/ SupersedePriorActive \/ PatchAborted
DisableStep ==
  \/ \E i \in 1..Len(promotions) : DisablePack(i)
  \/ AddRollback \/ MarkDisabled \/ CloseDisable
RetryStep == Retry \/ Retrial \/ Requeue
BootStep ==
  \/ Boot \/ CloseHealedTickets \/ OpenBootGap \/ LoadSurvivor
  \/ \E n \in Packs :
       HealLoading(n) \/ ParkLoading(n) \/ SupersedeAtBoot(n) \/ ResolvePack(n)
Chassis ==
  Patches \/ StartSweep \/ AdoptStep \/ DisableStep \/ RetryStep \/ BootStep

Next ==
  \/ Authoring \/ Owner \/ Tampering
  \/ \E p \in Proposals : ProposalGatekeeper(p)
  \/ Chassis
  \/ Crash

Spec == Init /\ [][Next]_vars

\* A function that has begun runs on, the tick driver sweeps every few seconds
\* and a supervisor restarts the process.
FairSpec == Spec /\ SF_vars(StartSweep) /\ WF_vars(Chassis)

-----------------------------------------------------------------------------
(* Properties *)

\* evolution-design 10: "at most one active promotion per pack name", whenever
\* the thread rests: after version updates, late conflicts, disables, a crash
\* between any two mutations and whatever boot healed or superseded.
AtMostOneActive ==
  exec = Idle => \A n \in Packs : Cardinality(InGroup(n, "active")) <= 1

\* "Heal never guesses": an active promotion's promote.applied marker is in the
\* event log, so its state delta really is in the graph.
ActiveMeansApplied ==
  \A i \in 1..Len(promotions) :
    promotions[i].status = "active" => promotions[i].fork \in applied

\* "What loads is what was reviewed": the runtime holds only code whose adoption
\* the owner approved, that passed a trial and whose bytes matched the pin when
\* they were loaded, at adoption and again at boot.
OnlyReviewedCodeLoads ==
  \A n \in Packs : loaded[n] # Nothing =>
    /\ loaded[n].pinned
    /\ loaded[n].proposal \in approved
    /\ TrialsOf(loaded[n].proposal) # {}

\* A disabled promotion never comes back: no retry, recorder or heal revives it.
DisabledIsFinal ==
  [][\A i \in 1..Len(promotions) :
       promotions[i].status = "disabled" => promotions'[i].status = "disabled"]_vars

\* chassis.py: a parked proposal is refused by "gates, trials, and ticket
\* processing", two open tickets and a pending retry included; only a disable
\* of one of its promotions still marks it.
ChassisLeavesParkedAlone ==
  [][\A p \in Proposals :
       status[p] = "needs_owner" /\ exec.pc \notin {"idle", "request", "adopting"}
         => status'[p] \in {"needs_owner", "disabled"}]_vars

\* Unless it crashes, the runtime holds under a pack's name the code of that
\* pack's latest promotion, which no ticket has disabled: after a version update
\* the new code, superseding the old record included, and after a late conflict
\* the new code too, although its record is still loading and an older one is
\* active (adopt.py, step 4; chassis.py, RETRYABLE_OUTCOMES).  A pack with an
\* active promotion is down only because one of its promotions was rolled back,
\* which may be another one: _process_disable deregisters by pack name.
RuntimeHoldsLatest ==
  exec = Idle /\ crashes = 0 =>
    \A n \in Packs :
      /\ loaded[n] # Nothing =>
           \E i \in Group(n) :
             /\ \A j \in Group(n) : j <= i
             /\ promotions[i].proposal = loaded[n].proposal
             /\ promotions[i].status # "disabled"
      /\ loaded[n] = Nothing /\ InGroup(n, "active") # {} =>
           \E j \in Group(n) : promotions[j].rolledBack

\* evolution-design 10.1: one approved request promotes its state once, although
\* a crash may lose the recorder or the ticket's end and the sweep retries what
\* it finds open.  Two crashes break this: the second one between the boot heal
\* and the closing of the ticket leads to a conflict, a retrial and a second
\* promotion.
AdoptedOnce ==
  crashes <= 1 =>
    \A p \in Proposals :
      requests[p] <= 1 => Cardinality(applied \cap TrialsOf(p)) <= 1

\* boot.py: "nothing boot does to reconcile an ambiguous state is ever silent".
\* A second crash, between a heal and its gap, silences it.
BootIsNeverSilent ==
  exec = Idle /\ crashes <= 1 => reconciled \subseteq gaps

\* Every ticket an approved call or a retry opens is closed in the end, across
\* crashes.
TicketsClose ==
  \A t \in 1..(MaxDisables + Cardinality(Proposals) * (MaxRequests + MaxRetries)) :
    (t <= Len(tickets) /\ tickets[t].status = "open")
      ~> (t <= Len(tickets) /\ tickets[t].status # "open")

\* Unless the process crashes no proposal is left in conflict: the capped retry
\* promotes, rejects or parks it.
ConflictsAreResolved ==
  \A p \in Proposals :
    status[p] = "conflict" ~> status[p] # "conflict" \/ crashes > 0

-----------------------------------------------------------------------------
(* What the documentation says and the code does not do *)

\* adopt.py, step 6: "a crash mid-adoption can never disable the old version
\* while failing to install the new one".  The crash leaves a loading record,
\* boot parks it, and the older active promotion is then no longer the latest
\* record of its pack: it stays down, also when the new version is never
\* installed.
FailedUpdateKeepsOldVersion ==
  exec = Idle /\ OpenTickets = {} =>
    \A n \in Packs : InGroup(n, "active") # {} => loaded[n] # Nothing
================================================================================
