# Verification of activegraph-packs

This directory holds TLA+ models of the packs that carry activegraph-packs' own
control logic, the TLC runs that check them on small instances, and TLAPS proofs
of the properties that matter most. Paths are relative to the repository root.

- [1. The system](#1-the-system)
- [2. How the models are built](#2-how-the-models-are-built)
- [3. Modules, runs and what they show](#3-modules-runs-and-what-they-show)
- [4. Proofs](#4-proofs)
- [5. Where the code and its documentation disagree](#5-where-the-code-and-its-documentation-disagree)
- [6. What is not modelled](#6-what-is-not-modelled)
- [7. Plan](#7-plan)
- [8. Running it](#8-running-it)

## 1. The system

A *pack* adds object types, behaviors and tools to the activegraph runtime (a
dependency, not in this repository). The graph is an event log plus the objects
it folds to. A behavior is a function the runtime fires on an event; an API
function (`*_fn`) is called by the product, which then drains the event queue
(`run_until_idle`). Two facts shape every model:

- **One thread.** `packs/demo_server.py:53-80` gives the runtime its own
  executor thread; HTTP handlers, the schedule driver and the evolution sweep
  submit work to it. Functions do not overlap. What varies is the order in which
  they run, and where a crash falls.
- **Objects survive, events do not.** A restart replays the log into objects and
  fires no behavior. Whatever hung on an undispatched event is gone, as are
  in-process registries and caches.

| Component (packs/) | State it keeps | Operations | Hard behaviour | What makes it correct |
|---|---|---|---|---|
| **Tool Gateway** (`tool_gateway`: tools, behaviors, gateway, llm_tools, approval_api, authority) | `capability_call` status, approval / denial / result / source objects; in memory: handler registry | propose, policy, approve, deny, execute, source; proxies that do all of it inline | approval events dispatched late or lost; a proxy racing its own approval; crash inside an execution | a call runs at most once, never after a denial; high consequence only after a human; complete audit trail |
| **Standing scopes** (`tool_gateway/standing_scopes.py`) | `tool_policy` versions with the evidence list each was proposed with | propose, promote, demote, disable; reliability guard | event and object written separately; verdicts queued; old evidence | authority only on a list that meets the rule, predictions first, never silently |
| **Evolution** (`evolution`: tools, behaviors, adopt, boot, chassis) | `mod_proposal`, trials and forks, tickets, `mod_promotion`, boot gaps; in memory: loaded packs | gate, try, request, approve, sweep, retry, disable, boot | five mutations per adoption with a crash anywhere; stale forks; edits after review; tickets for superseded versions | one active version per pack; active means applied; only reviewed code loads; nothing silent at boot; tickets close |
| **Schedule** (`schedule`) | `schedule`, `schedule_tick` | create, enable, sweep, route, book | repeated sweeps, late sweeps, crash between tick and bookkeeping | a due moment acts once; missed periods are skipped; a due schedule fires |
| **Conversation** (`telegram` poller, ingester, dispatcher; `chat`; `communication`; `identity_auth`) | inputs, sessions, messages, turns, reply candidates, threads, principals; in memory: poller offset, dedup set, session cache, thread and principal registries | poll, post, ingest, gate, resolve principals, reply, approve, dispatch, register | repeated and lost posts, a crash between message and turn, caches that lag or are empty, a role that changes between two messages | no update ingested twice, no text unanswered, the model answers exactly whom it may, no reply unapproved, transcripts in order |
| **Reliability** (`eval_outcome`; `memory_gateway/promotion.py`; `skills`) | evaluations, outcome records, reliability, promotion proposals, item and skill status | record, supersede, project, propose, approve, promote, demote, recover | outcomes recorded faster than they are projected; an approval of an old proposal; a crash that loses a change | promoted only when earned; an unfit artifact is demoted or proposed for it |
| Activity normalizer, connectors, usage | evidence revisions, cursors, runs | normalize, supersede, publish cursor | redelivery, partial pages | each item once, cursor never ahead of its items |
| Secrets | credentials with expiry | resolve, refresh, rotate | a refresh that rotates its own token | an expired credential is refreshed or not used |
| The rest (text extraction, importers, MCP, profiles, demo server, web console) | objects created from objects | transform, forward | little | see section 6 |

How they interact: almost every outward effect is a `capability_call`. Telegram
delivery (`Conversation`: `calls` of a candidate), `adopt_proposal`,
`disable_promotion` and connector maintenance are capabilities of the gateway; a
standing scope is an authority the gateway's policy reads (`ToolGateway!promoted`);
identity supplies the approver role it verifies (`ToolGateway!roles`) and the role the
reply gate reads; outcome evaluation emits the `reliability.changed` events that end a
standing scope, demote a skill and propose memory promotions; the schedule emits
objects that other packs react to. Components share the graph and the event queue and
call each other only through these.

`PROJECT.json` lists every component with its status, and 40 hazards with the
line at which each bites.

## 2. How the models are built

- **Split at mutations.** A function that mutates the graph once is one action.
  One that mutates it several times is one action per mutation; the variable
  `exec` (in StandingScope `patch`) holds the function in progress and every
  other function waits for `exec = Idle`. Only `CrashRestart`/`Crash` can come
  in between. This is the granularity at which a crash can be observed, because
  each mutation is an appended event.
  Objects and relations that nothing modelled reads back (participants,
  `thread_contains`, `turn_from_input`, `promoted_as`) are left out.
- **Crash.** Keeps the variables that stand for graph objects and forks; empties
  queues, `exec`, registries and loaded code.
- **Event queues.** The runtime drains its queue in order. `ToolGateway.queue`
  and `StandingScope.verdicts` are sets, so the models allow every order; what
  holds there holds in the real order. `Schedule.pending`, `Conversation.queue` and
  `Reliability.queue` keep the order because properties depend on it.
- **History variables** (`decider`, `runs`, `body`, `history`, `requests`, `approved`,
  `reconciled`, `granted`, `entitled`, `calls`, `life`, `found`) record what happened
  and guard nothing, apart from the bounds on requests and promotions.
- **Nondeterminism from outside.** What the owner does, whether a handler
  succeeds, raises or raises `TypeError`, what a gate says of a source text,
  whether a trial passes and whether the parent graph moved on are choices.
- **Data.** Messages and payloads are absent, identities are model values, the event
  log that evidence cites is its length, wall-clock times are numbers with a short day.

## 3. Modules, runs and what they show

Every run finishes within five minutes; each property of a passing run has a
mutant of the code (in the same module, with its comment) that TLC finds to break
it. Deadlock is checked for the gateway and the schedule. The others may stop: every
pair decided, every bounded request, message or outcome spent.

### GovernedCall, ToolGateway

`GovernedCall` is the gateway's promise: requested, waiting, granted by one
entitled to, run at most once, finished; or refused. `ToolGateway` is the code.

| TLA+ | code |
|---|---|
| `Propose`, `ProxyCall` | a pack's `add_object('capability_call')`, the LLM proxy of `llm_tools.py` |
| `ClassGrants`, `AutoApproves` | `decide_policy_detail`, `evaluate_call_policy` |
| `PolicyEnforcer`, `CallExecutor`, `ResultSourcer` | the three behaviors |
| `MarkExecuting`, `InvokeHandler`, `InvokeAgain`, `RecordResult`, `FinishCall` | `execute_approved_call` and `execute_capability_fn`, split at mutations |
| `ApproveCapability`/`AddApproval`, `DenyCapability`/`AddDenial` | `approve_capability_fn`, `deny_capability_fn` |
| `SetRole`, `SetAuthorityCeiling`, `StandingScopeChange`, `RegisterCapability` | what other packs and the owner change meanwhile |

*gateway*: an R2 and an R3 call, one owner whose role comes and goes, ceiling "R2",
one crash anywhere. Shows `RunAtMostOnce`, `HighConsequenceNeedsHuman`,
`AuditTrailLegal` (a trail is a prefix of one of three stories),
`SettledCallsAreComplete`, the refinement `ImplementsGovernedCall`, and that as long
as the process lives proposed calls are decided or held (`ProposedCallsAreDecided`)
and approved ones end (`ApprovedCallsFinish`). Two calls are enough to interleave one
function with the other call's events; calls share only the thread, the registry, the
ceilings and the roles, all of which two calls contend for. A low-risk call (in
*gateway_typeerror_retry*) takes the path of an R2 call whose scope is promoted. A second crash adds
nothing a first one does not: after a restart nothing but graph objects is left.
Fairness: `WF(RuntimeStep)`. Every writer settles the runtime before it returns, so
the thread never rests with work in hand. It is weak fairness of the whole step, not
of each event. The liveness properties end at a crash because the code's promise
does: section 5, first item read off the code.

*gateway_typeerror_retry*: see section 5.

### StandingScope

`RecordEvent` grows the log; `ProposeStandingScope` takes an evidence list from its
caller, `PromoteToolPolicy`, `DemoteToolPolicy`, `DisableToolPolicy` act on the stored
object. All four announce a `tool_policy.*` event and `ApplyPatch` writes the object,
because the code does it in that order (`standing_scopes.py:480`); `ReliabilityGuard`
is `tool_policy_reliability_guard`. The list is as the code takes it: any length, any
pair any number of times, each with two log references and what its two verdict
strings come to (`agrees`). `ValidPairs` is the no-backfill rule, the only thing the
code holds against the log; that a pair is told once, is about this scope and tells
the owner's true verdict is nobody's check (section 5).

*scope* (28k states): an R2 and an R3 scope, a log of two events, lists of up to three
pairs, rule "2 pairs, 60 %" (the code's 8 and 90 %), two versions, three promotions,
one crash. Three pairs give lists below, at and above both thresholds, with repeated,
backfilled and dangling pairs. Shows `PromotedScopesAreEarned` (count and accuracy are
computed again from the list, while the code reads the numbers it stored),
`PromotionIsNeverSilent`, `DisabledNeedsFreshProposal`, `EventsMatchStatus` (up to a
crash; the window is real, see section 5) and `BadVerdictEndsGrant`.
Fairness: `WF(ApplyPatch)`; `SF` of the guard per bad verdict, because the queue
is drained in order while the set in the model could let later verdicts overtake
one for ever.

*scope_repromote*: see section 5.

### EvolutionAdoption

| TLA+ | code |
|---|---|
| `SubmitProposal`, `ProposalGatekeeper` | `submit_proposal_fn`, the gatekeeper behavior |
| `RunTrial`/`RecordVerdict` | `run_trial` |
| `RequestAdoption`/`MarkPending`, `ApproveAdoption`/`MarkAdopting`, `DenyAdoption` | `request_adoption_fn` and the executors of the two capabilities, which only write a ticket |
| `StartSweep`, then `RefuseParked`, `HashMismatch`, `Regate`, `RerunGates`, `AbortAfterGates`, `ForkLostOrConflict`, `LoadAndRecord`, `Promote`, `CloseAdoption`, `PromotionRecorder`, `MarkPromoted`, `SupersedePriorActive`, `PatchAborted` | `sweep_evolution` and `process_adoption_tickets` in `adopt.py`, step by step |
| `DisablePack`, `AddRollback`, `MarkDisabled`, `CloseDisable` | `_process_disable` |
| `Retry`, `Retrial`, `Requeue` | `chassis.py`: capped retries, `needs_owner` |
| `Boot`, `HealLoading`, `CloseHealedTickets`, `ParkLoading`, `SupersedeAtBoot`, `OpenBootGap`, `ResolvePack`, `LoadSurvivor` | `boot.py` |
| `TamperArtifacts` | an edit of stored artifacts after review |

*evolution_safety* (2.2M states under the symmetry of the two versions, which differ
only in the order they are used in): two versions of one pack, one adoption request
each, three trials, one retry, one disable, one edit, one crash between any two
mutations. Shows `AtMostOneActive`, `ActiveMeansApplied`, `OnlyReviewedCodeLoads`,
`RuntimeHoldsLatest`, `AdoptedOnce`, `BootIsNeverSilent`, `DisabledIsFinal`.
`RuntimeHoldsLatest` says which code runs: until a crash that of the latest promotion,
after a supersession and after a late conflict alike, when the older record is still
the active one; and a pack with an active promotion is down only after a rollback of
some promotion of its name. Two versions are the least at which supersession and the
recency rule matter; packs of different names share nothing but the sweep's order.
Three trials allow each version one and a retrial for one of them. With two crashes
(11.8M states, just under five minutes, not part of the listed runs) the same
properties hold.

*evolution_live* (45k states): one proposal requested twice, a disable and a
crash: `TicketsClose`, `ConflictsAreResolved`, `ChassisLeavesParkedAlone`.
Fairness: `SF(StartSweep)` (the tick driver calls the sweep every few seconds;
the sweep is disabled while anything else runs) and `WF(Chassis)` (a function
that has begun runs on, a supervisor restarts a dead process).

*evolution_updatecrash*: see section 5.

Two properties carry the number of crashes they survive: with a second crash
between a boot heal and the closing of its ticket, a proposal is adopted a second
time; with a second crash between a heal and its gap, the heal stays unannounced.
`docs/evolution-design.md:853` expects the re-run of such a ticket to end in "a
redundant abort"; the abort for a conflict is followed by an automatic retry.

Simplifications: several losers of a boot supersession are patched in one step;
a boot that `register_adoption_capabilities` refuses is left out; a `load_pack`
that raises is left out (it would leave the ticket open and stop later sweeps).

### Schedule

`CreateSchedule`, `SetScheduleEnabled`, `StartEmit`/`EmitTick`
(`emit_due_ticks_fn`), `TickRouter`, `ScheduleBookkeeper`; `ComputeNextDue` and
`NextDaily` are `compute_next_due`.

*schedule* (424k states): two schedules, each an interval of 2, a daily moment, a
one-time moment or a malformed interval; days of 3 moments; clock to 4; one
crash. The clock passes a day boundary and lets a sweep come late by more than an
interval. Shows `DueMomentsFireOnce`, `MissedPeriodsAreSkipped`,
`WaitsForTheNextMoment`, `DueSchedulesFire`. Fairness: `SF(StartEmit)`,
`SF(TickRouter)`, `WF(EmitTick)`, `WF(ScheduleBookkeeper)`: a driver thread sweeps
every `SCHEDULE_TICK_SECONDS` and settles what it emitted; strong where another
API function can take the thread in between.

*schedule_restart*: see section 5.

### Conversation

| TLA+ | code |
|---|---|
| `GetUpdates`, `PostToServer`, `PostFails`, `PostTimesOut`, `PollerRestarts` | `run_poller` and `_post_to_server`; the offset moves before the post |
| `TelegramIngester`, `SubmitChatInput` | the Telegram ingester, `submit_chat_input_fn` from the web console |
| `ChatIngester`, `AddSource`, `AddMessage`, `AddTurn`, `LinkTurn`, `CountTurn` | `chat_ingester`, split at mutations |
| `RegisterPrincipal`, `PrincipalResolver`, `RebuildPrincipalRegistry`, `DecideReply` | `identity_auth`, `communication/gating.py` |
| `ThreadTracker`/`NameThread`, `ChatContextAssembler` (`Transcript`), `ChatLlmResponder`, `ChatDeflectionResponder` | the behaviors on a `comm_message`, in registration order (`Subscribers`); the tracker counts a message before it names its thread |
| `ResponseDispatcher`, `ChatResponder`, `TelegramDispatcher`, `ApproveResponse` | the behaviors on a candidate, `approve_response_fn` |

*conversation* (330k states): a guest writes twice on Telegram, owner or guest once in
the console, in any session; one registration (guest as collaborator or blocked, owner
as blocked); one fault: a post that fails or times out, a poller that starts over, a
model that stays silent, or a crash between any two mutations; under "open" with
automatic approval and "known" without. Two updates of one sender give redelivery, a
resumed session and a transcript, of which the limit of one turn keeps the latest; the
console adds a second channel and a second writer. Shows `UpdatesAreIngestedOnce`,
`RepliesFollowTheGate` (against the last role registered for the sender, which nothing
in the code records), `OneApprovedReply` (one reply to a message, called at most once,
sent only if approved), `TranscriptsFollowTheSession` and `UpdatesAreAnswered`. A
crash between the turn and its relation to the session leaves a turn no transcript
sees; one between the count of a thread and the message's name for it leaves the count
one ahead. Fairness: `WF(Drain)` (a handler drains the queue before it returns),
`WF(GetUpdates)` and `WF(PostToServer)` (the poller loops for ever).

Reduction: Telegram and the poller take steps only while the server is `Quiet`. No
step of theirs but the post reads or writes what a step of the server does, and the
post waits for the server's lock, so every behaviour has an equivalent of this form.

*conversation_lateapproval*: see section 5.

### Reliability

| TLA+ | code |
|---|---|
| `ExplicitVerdict`, `VerdictOn`, `Judge`, `MaintenanceOutcome`, `SupersedeEvaluation`, each followed by `EmitOutcome`/`AddRecord` | the `*_fn` of `eval_outcome/tools.py`: event, then record |
| `EvaluationOutcomeCapture`, `ArtifactReliabilityProjector` | the behaviors of `eval_outcome` |
| `MemoryReliabilityApplier`, `MemoryPromotionProposer`, `ApprovePromotion`/`PatchItem`/`PatchProposal`, `RejectPromotion` | `memory_gateway` behaviors and `promotion.py` |
| `RecordPromotionEvidence`, `PromoteSkill`, `SetIneligible`, `SkillReliabilityEligibility` | `skills` |

A skill is an artifact under two names, its object id and its version identity:
`skill.proposed` publishes the second (`skills/tools.py:153`), an outcome may name
either. `Supports` reads the newer of their projections (`latest`), as
`_promotion_support` does; `SkillReliabilityEligibility` finds the skill by the first
only, as the behavior does (`skills/behaviors.py:99`).

*reliability* (546k states): a memory item, a skill version and its identity; three
outcomes about the item or two about the skill, two resolutions or calls about the
skill, one crash. Three outcomes and two calls are the least for two helped outcomes,
a promotion, a verdict that turns, and a demotion; two about a skill are the least for
a verdict that turns and for projections under both names. No step reads one subject
and writes another, so the constraint `OneSubjectAtATime` follows behaviours about one
of the two. Shows `PromotedItemsAreEarned`, `DemotionIsProposed` and
`EligibilityFollowsVerdict`, the last for skills whose own projection is the newer
one: section 5 has the other case. The last two hold up to a crash: one that loses a
`reliability.changed` delivery leaves the artifact as it was until its next outcome. A
call may fall between two deliveries, which is more than a host that drains after
every call allows.

## 4. Proofs

TLC checks the instances above; TLAPS proves the following for every value of the
constants. The only assumptions are `ToolGatewayAssumption`,
`StandingScopeAssumption`, `ScheduleAssumption`, `ReliabilityAssumption`,
`EvolutionAssumption` and `ConversationAssumption`, which TLC evaluates in every run
of those modules.

**ToolGatewayProofs.**
`TypeCorrect`; `RunsAtMostOnce`; `GatewayImplementsGovernedCall`. `RunAtMostOnce`
is not inductive: nothing in it says that an approved call has not run yet. The
invariant is `IInv == TypeOK /\ RunInv`, where `RunInv` adds that a call has run
exactly when its status is executing, done or failed (`RunsFollowStatus`), that
the function in progress fits the status of its call (`FrameFollowsStatus`), and
that a queued creation event of an undecided snapshot belongs to a call that is
still there to decide (`SnapshotsAreFresh`). The last one is what the policy
enforcer, which reads the snapshot in the event and not the object, relies on.
The refinement uses the same invariant: `PhaseStep` maps each action to a
`GovernedCall` step or a stutter; `GrantsAreAutomatic` shows a policy grants only
calls that are not `NeverAutomatic`.

**ToolGatewayAuthorityProofs.** `HighConsequenceIsHuman`. A crash can leave such a
call `approved` with no approval object, so "approved means a human's approval is
recorded" is not an invariant. `AuthorityInv` says instead that every queued
approval event of such a call has a human's approval behind it, and that the
function in progress (`SoundFrame`) neither executes it for the proxy nor is about
to record an approval in a policy's name. A run starts only from one of these two.

**ToolGatewayAuditProofs.** `AuditTrailsAreLegal`, `SettledIsComplete`. The trail is
written by functions that run one mutation at a time and by events delivered later,
so the invariant `AuditInv` says of each call, besides `IInv`: how far its trail may
be at its status (`TrailFits`); what the function in progress has recorded of it and
in whose name (`FrameFits`); that a queued approval has its approval in the trail, and
that at most one result is queued, which nothing has been sourced from yet
(`QueueFits`); and, before the first crash, that somebody owes the call its next step:
the frame, an event, or nobody because it waits for a human or has ended
(`WorkIsInHand`). `OneCall` and `Elsewhere` reduce each step to the call it touches.

**StandingScopeProofs.** `TypeCorrect`, `PromotionIsEarned`,
`NothingPromotesSilently`, `EventsAreTrue`, `DisablingHolds`. The invariant says
the same things of the object (`PolicySound`) and of the patch that is announced and
not yet written (`PatchSound`), for a crash may or may not let it through. That
earned evidence stays earned (`EarnedStays`) rests on the log only growing and on the
stored numbers being those of the stored list.

**ScheduleProofs.**
`NextDueAfter` (the next moment is `None` or strictly later, for every spec and
reference time); `TypeCorrect`; `FiresOnce`; `SkipsMissedPeriods`; `WaitsForFirst`,
which is about the remainders of moments modulo a day (`OneRemainder`,
`NextDailyIsFirst`) and about a booking in progress (`BookedWaits`). The invariant of
the firings has these parts besides `TypeOK`: ticks, queue and frame refer to ticks that
exist and were due when they fired (`RefsOK`); the sweep emits only for schedules
that are due and whose key is new (`TodoOK`); no two ticks have one dedup key
(`KeysUnique`); no event is queued twice, or while its tick is being booked
(`QueueOK`); a tick whose bookkeeping is outstanding is for the moment its schedule
still waits for (`Awaited`); for every tick its schedule is still at that moment,
past the firing, or over (`Advanced`); a later tick of a schedule is for a moment
after the earlier firing (`FiredOrdered`). The crash is what makes `Awaited` and
`Advanced` separate: it leaves a tick that will never be booked and whose key
stays spent.

**ReliabilityProofs.** `TypeCorrect`; `PromotionsAreEarned`; `EligibilityIsCurrent`;
`UnfitItemsAreProposed`, for any number of items, skills, outcomes, calls and crashes.
`PromotedItemsAreEarned` is about records and statuses only; between them lie the
event, the projection and a proposal. The invariant is `EarnedInv`. `SettleInv` says
that an outcome on its way to its record is the first terminal one of its evaluation
(`FrameSettles`), so that records settle. `TallyCovered` counts: what the projection
has counted plus the announcements of help still queued never exceed the records of
help, plus one while such a record is being added; the event goes out before the
record, so without that term it is false. `QueueCovered` carries the count into the
deliveries the proposer will read, which may be old by then but were true when sent,
and records are never removed (`HelpingGrows`). `StatusEarned` adds every proposal to
the items: an approval reads the proposal and not the verdict. Two records of help are
then about two evaluations (`TwoEvaluations`). A crash only empties the queue and the
frame, which can only leave the tally behind the records.

`EligibilityIsCurrent` is about what deliveries say rather than how many there are. A
listener reads the verdict in its event, which later ones may have overtaken.
`EligibleInv` says, until the first crash, that the last delivery to each listener
carries the current verdict (`WordsHold`) and that a listener with no delivery left has
acted on the current one (`Applied`, `Judicious`; of a skill as long as the projection
of its object is the newer one, which it can cease but not come to be without a
delivery, `LatestStays`).

`UnfitItemsAreProposed` compares a promoted item with its latest grant, so `DemotionInv`
orders proposals by age. Until the first crash, open proposals are later than every grant
(`GrantsAreOlder`) and an open demotion is of a promoted item (`OpenDemotions`), so a
grant never comes after it; a promoted item has a latest grant, and while its verdict is
unfit a demotion has followed that grant, or it was given with the unfit verdict in
sight, or the proposer is still to be told (`DemotionFollows`). At any time a direction
has at most one open proposal per item (`OneOpen`).

**EvolutionAdoptionProofs.** `TypeCorrect`, `OneActive`, `OnlyReviewed`,
`ActiveImpliesApplied`, `ParkedIsLeftAlone`, `BootAnnounces`, `LatestIsHeld`,
`DisabledStaysDisabled`, `AdoptsOnce`. All rest on `BaseInv`: the tables only grow and
refer to what exists (`TypeInv`), and the frame, which holds ids read several mutations
ago, still says the truth about the promotion and ticket at hand (`FrameFollows`: between
`promote` and `record` it is loading, at `record` its delta is in the graph). One
lemma per variable lists the steps that change it (`NextTickets`, `NextPromotions`,
`NextStatus`, `NextLoaded`, ...), so that a theorem splits on those and not on the 42
actions. Each promise then has its own invariant:

- `OneActiveInv`: two active promotions of a pack occur, between the recorder's
  patch and the superseding loop, and after a crash in the loop. The invariant says
  that then the frame is in that loop, or the process is down or booting and has not
  passed the pack yet (`Unsettled`).
- `ReviewedInv`: "loaded code is what the review saw" needs that open tickets and all
  promotions are about approved proposals, and that between the gates and the fork
  the frame's artifacts are the pinned ones.
- `ParkedInv`: "needs_owner is final for the chassis" holds as no retry is counted
  past the cap, and as a frame that is about to write a verdict read a proposal that
  was not parked.
- `AnnouncedInv`: what boot has reconciled is a gap or still pending in the boot
  frame, with one crash at most; a second crash in between loses the announcement.
- `LatestInv`: until the first crash boot never runs, the adoption in progress is the
  newest record of all, and a pack with records is held in its latest version
  (`HoldsLatest`) or was taken down by a rollback, made or under way (`TakenDown`).
- `AdoptedOnceInv`: whoever could promote a proposal again holds a ticket of it, open,
  queued for a retry or cut off in the frame (`Claims`). A proposal requested once has
  at most one such claim, and none while its call is still held (`OneClaim`), as a
  retry hands its claim on and no ticket is in two hands (`TicketInHand`). Once
  promoted, the claim is gone, or its function is about to close it, or a crash came in
  between and boot has the loading record still to heal (`Unhealed`); boot passes no
  pack before that (`SettledPack`). A second crash between the heal and the closing
  breaks the last part, as section 3 says.

**ConversationProofs.** `TypeCorrect`, `UpdatesIngestedOnce`, `OneReply`,
`GateFollowed`, `TranscriptsInOrder`. `TypeInv` says besides the types that every
reference, in an object, the frame, a cache or a delivery, is to an object that
exists; lemmas like `MessagesKept` say of each table what a step may change in it.
Then:

- `SeenInv`: what this process has ingested is in its dedup set.
- `ReplyInv`: "one reply" needs that no two deliveries would do the same work
  (`DeliveredOnce`) and that the work of a queued one is undone (`DeliveriesHold`),
  also while a message is counted and not yet named (`NamingAhead`). The two
  responders count as one: only the one the gate names is subscribed. "Sent only if
  approved" rests on `BornApproved`, as the dispatchers read the status at birth.
- `AuthorityInv`: the registry finds every principal, with the role last registered,
  and a sender it does not find was never registered; so the gate in the frame and on
  the messages is what the sender was entitled to, and stays so though roles change.
- `NumbersAgree`, `SessionsInOrder`, `ThreadsCount`: in a session of one user the
  cached count equals the object's, the frame's number is the next one, and a turn
  that already has it is the frame's own or from an earlier life. A transcript is the
  end of the linked turns before its message, which later turns and relations do not
  change: a turn that a crash left unlinked stays so. A thread's count is that of the
  messages that name it, plus one while the tracker is between its two mutations or
  if a crash stopped it there, after which no registry finds that thread.

**Only model-checked.** The seven liveness properties: `ApprovedCallsFinish` and
`ProposedCallsAreDecided` (gateway), `BadVerdictEndsGrant` (scopes), `TicketsClose` and
`ConflictsAreResolved` (evolution), `DueSchedulesFire` (schedule), `UpdatesAreAnswered`
(conversation). They rest on fairness, hence on ENABLED, which is out of the prover's
reach. Every invariant and every action property of the passing runs is a theorem.

## 5. Where the code and its documentation disagree

Each has a run in which TLC finds the counterexample:

1. *gateway_typeerror_retry.* "One approval → at most one execution"
   (`tool_gateway/behaviors.py:347`). `execute_capability_fn` takes any `TypeError`
   for a wrong signature and calls the handler again (`tools.py:202`), also when
   the error came from inside a body that has already acted.
2. *scope_repromote.* "Re-promotion ... always takes a fresh proposal"
   (`behaviors.py:445`). `promote_tool_policy_fn` accepts a demoted scope with its
   old evidence (`standing_scopes.py:375`).
3. *evolution_updatecrash.* "a crash mid-adoption can never disable the old
   version while failing to install the new one" (`adopt.py:312-313`). The crash
   leaves a loading record; boot parks it; the older active version is then not
   the latest record and is not loaded (`boot.py:275`).
4. *schedule_restart.* "Tick dedup keys make a twitchy or restarted driver
   harmless" (`schedule/README.md:110-111`). After a crash between tick and
   bookkeeping the key is spent and the schedule never advances (`tools.py:155`).
5. *conversation_lateapproval.* "Approve a CommResponseCandidate, triggering
   response_dispatcher" (`communication/tools.py:70` and `:118`), and "the
   response_dispatcher behavior fires on status='approved'"
   (`communication/object_types.py:177`). `approve_response_fn` patches the candidate;
   the dispatchers fire on `object.created` and read the status in that event
   (`communication/behaviors.py:342-365`). A reply approved later is never sent.

Read off the code while modelling, without a run of their own:

- "There is no side-channel queue to poll or lose on restart"
  (`tool_gateway/README.md:18-19`). A crash after the approval object and before
  its dispatch leaves the call `approved` for ever; it cannot be approved again.
- The LLM proxy executes the call before its approval object is recorded
  (`llm_tools.py:166-170`, on purpose), while `tool_gateway/README.md:34` calls
  the approval's creation "the ONLY execution trigger". `AuditTrailLegal` admits it
  as one of the three stories.
- A demotion emits its event before it patches the object
  (`standing_scopes.py:480`), while the gateway reads the object, "so a demotion
  stops auto-approval on the very next decision" (`:183`). A crash in between
  leaves a log that says demoted and an object that still grants. Hence
  `crashes = 0` in `EventsMatchStatus`.
- "Enough decisions that one lucky streak cannot qualify" and "accuracy is agreement
  with the owner's actual verdicts" (`standing_scopes.py:40-45`, `:22-23`). The
  evidence list is its caller's: `_validate_pairs` checks the order of the two
  references only, so one decision listed eight times counts eight times, and the
  verdicts are the strings in the list.
- "the runtime holds the new code" after a supersession (`adopt.py:325-327`). A disable
  ticket for the superseded promotion deregisters by pack name (`adopt.py:358-369`)
  and takes its successor down, whose record stays active; hence the second conjunct
  of `RuntimeHoldsLatest`.
- `request_adoption_fn` accepts a proposal in any status and without a trial
  (`evolution/tools.py:154`); `adopt.py:111-113` catches that later. It also
  takes a `needs_owner` proposal back to `pending_approval`, though
  `chassis.py:16-19` calls that status terminal until the owner re-gates or denies.
- The Telegram poller advances its offset before it posts the update
  (`telegram/poller.py:58`) and goes on after a failed post: such an update is in
  nobody's hands (`lost`). At-least-once pollers are called safe
  (`telegram/README.md:25`), yet the dedup set lives in the process: after a restart
  a redelivered update is ingested again.
- `demo_server.py:544-547` says already seeded owners are left alone at a restart;
  `register_principal_fn` patches their role back to owner, also when the owner
  identifier had been demoted or blocked.
- `chat_responder`'s candidates carry no `thread_id`, so their `dispatched_to`
  relation is never made. A chat candidate is marked sent before
  `telegram_dispatcher` has run.
- A console message that names another user's session makes that user's cached turn
  count stale (`chat/behaviors.py:147`), hence `Own` in `TranscriptsFollowTheSession`;
  a crash between turn and count uses a number twice. "Behaviors fall back
  to the graph when a cache misses (e.g. after a restart ...)"
  (`chat/behaviors.py:62-63`), but a message without an explicit session starts a new
  one after a restart.
- "one late hurt blocks the proposal" (`promotion.py:42-45`), but a proposal that is
  open already is still approved, and the item then stays promoted although unfit,
  with no demotion proposed before the next outcome. Helped outcomes that were
  superseded still count towards the two.
- "When the generic reliability projection exists, its verdict is authoritative"
  (`skills/README.md:53-54`). A harmful verdict on the version identity, the name
  `skill.proposed` publishes (`skills/tools.py:153`), blocks a promotion but does not
  demote: `skill_reliability_eligibility` resolves the object id only
  (`skills/behaviors.py:99`). And while a projection supports the skill, evidence that
  was not accepted is enough to promote it, an owner's not accepted approval to
  restore a disabled one (`skills/tools.py:362-373`).
- "Promotion requires a skill_promotion_evidence object" (`skills/README.md:52-53`),
  but `skill_reliability_eligibility` demotes a candidate that was never promoted, and
  a later helped outcome then promotes it. `promote_skill_fn` leaves
  `demoted_by_reliability` set (in the model `PromoteSkill` leaves `recovers`), and an
  owner's demotion of a version that reliability demoted already is a no-op, so it
  recovers all the same. A disabled version is "restored only" by owner-approved
  evidence (`skills/README.md:47-48`), but `demote_skill_fn` turns it into a demoted
  one, which any accepted evidence restores.

## 6. What is not modelled

Per component with its reason in `PROJECT.json`. In short: text extraction,
ranking, importers and profiles transform data and have no lifecycle; the web
console and the API server forward; the MCP pack speaks a wire protocol and acts
through the gateway; the LLM's answers are inputs. The normalizer and connectors, and
credential refresh, have a lifecycle worth modelling and are in the plan. Of the
modelled packs these parts are left out: the evolution pack's review, soak and watch;
in the conversation WhatsApp and email (the same path behind other transports),
profile and memory context of the prompt, intents, auth contexts, entity links and
the gateway's execution of a delivery call (ToolGateway models any call); in
memory the admission of candidates, embedding, ranking, the SQLite store and replay
verification; in skills authoring, invocation, evaluation links and the outcome
summary, a second tally nothing reads.

## 7. Plan

Done: `GovernedCall`, `ToolGateway`, `StandingScope`, `EvolutionAdoption`,
`Schedule`, `Conversation`, `Reliability` with their runs. The order was: first what
may act on the world, then what grants it authority, then what changes the running
code, then the clock that starts things, then what people write and get back, then
what outcomes do to what is remembered.

Next modules:

1. `GovernedAutomation`: ToolGateway with `promoted` driven by StandingScope, so
   that "an R2 call ran unattended" traces back to earned evidence.
2. `Normalizer` (evidence identity, revisions, cursor) and `Credentials` (refresh
   and rotation).
3. The watch monitor and gap detector as an extension of EvolutionAdoption; memory
   admission in front of Reliability.

Next theorems: a promotion's life as an abstract specification that EvolutionAdoption
implements, as `GovernedCall` is for the gateway.

## 8. Running it

    tlc -workers 2 -config MCToolGateway.cfg MCToolGateway
    tlapm ToolGatewayProofs.tla
    tlapm ToolGatewayAuthorityProofs.tla
    tlapm ToolGatewayAuditProofs.tla
    tlapm StandingScopeProofs.tla
    tlapm ScheduleProofs.tla
    tlapm ReliabilityProofs.tla
    tlapm EvolutionAdoptionProofs.tla
    tlapm ConversationProofs.tla

`PROJECT.json` lists each run with its module, configuration and expected result.
