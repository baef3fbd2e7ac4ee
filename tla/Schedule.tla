-------------------------------- MODULE Schedule --------------------------------
(***************************************************************************)
(* packs/schedule: schedules, the ticks a host driver creates for those that *)
(* are due, and the two behaviors a tick fires: tick_router emits the        *)
(* schedule's payload, schedule_bookkeeper advances the schedule.            *)
(*                                                                          *)
(* The driver calls emit_due_ticks and then settles the runtime; another     *)
(* driver, a repeated call or a set_schedule_enabled may come in between.    *)
(* Moments are numbers, a day has DayLength of them.  Objects survive a      *)
(* crash, undispatched events do not.                                        *)
(***************************************************************************)
EXTENDS Naturals, Sequences

CONSTANTS
  Schedules,      \* schedule ids
  Specs,          \* the specs schedules are created with
  DayLength,      \* moments in a day
  None,           \* no next_due_at
  MaxTime,        \* bound on the clock
  MaxCrashes      \* bound on crashes

Kinds == {"interval", "daily", "once"}

\* n is every_seconds (0 if missing), the time of day or the moment.
ASSUME ScheduleAssumption ==
  /\ Specs \subseteq [kind : Kinds, n : Nat]
  /\ DayLength \in Nat \ {0}
  /\ None \notin Nat
  /\ MaxTime \in Nat
  /\ MaxCrashes \in Nat

VARIABLES
  now,            \* the host's clock
  schedule,       \* [Schedules -> Records]: schedule objects
  ticks,          \* schedule_tick objects in creation order
  pending,        \* ticks whose creation event is not yet dispatched, in order
  emitted,        \* ticks whose payload object exists
  exec,           \* the function in progress
  crashes

vars == <<now, schedule, ticks, pending, emitted, exec, crashes>>

Moments == Nat \cup {None}
Records == [exists : BOOLEAN, spec : [kind : Kinds, n : Nat], enabled : BOOLEAN,
            due : Moments, fired : Moments, count : Nat]
\* fired_at, due_at; schedule and due_at are the dedup_key.
Ticks == [schedule : Schedules, fired : Nat, due : Nat, skipped : BOOLEAN]
\* "emit": the schedules still to emit a tick for; "book": the tick the router is
\* done with.
Frames == [pc : {"idle", "emit", "book"}, todo : SUBSET Schedules, tick : Nat]
Idle == [pc |-> "idle", todo |-> {}, tick |-> 0]

TypeOK ==
  /\ now \in Nat
  /\ schedule \in [Schedules -> Records]
  /\ ticks \in Seq(Ticks)
  /\ pending \in Seq(Nat)
  /\ emitted \subseteq Nat
  /\ exec \in Frames
  /\ crashes \in Nat

Absent == [exists |-> FALSE, spec |-> [kind |-> "once", n |-> 0],
           enabled |-> FALSE, due |-> None, fired |-> None, count |-> 0]

Init ==
  /\ now = 0
  /\ schedule = [s \in Schedules |-> Absent]
  /\ ticks = <<>>
  /\ pending = <<>>
  /\ emitted = {}
  /\ exec = Idle
  /\ crashes = 0

-----------------------------------------------------------------------------
(* compute_next_due *)

\* Mutant: a daily moment that is exactly now counts as still to come.
NextDailyNow(hour, ref) ==
  LET candidate == (ref - (ref % DayLength)) + hour
  IN IF candidate < ref THEN candidate + DayLength ELSE candidate

\* Mutant: the day is taken off instead of added.
NextDailyBack(hour, ref) ==
  LET candidate == (ref - (ref % DayLength)) + hour
  IN IF candidate <= ref THEN candidate - DayLength ELSE candidate

\* Today at the given time, or tomorrow if that is not after ref.
NextDaily(hour, ref) ==
  LET candidate == (ref - (ref % DayLength)) + hour
  IN IF candidate <= ref THEN candidate + DayLength ELSE candidate

ComputeNextDue(spec, ref) ==
  CASE spec.kind = "interval" -> IF spec.n = 0 THEN None ELSE ref + spec.n
    [] spec.kind = "daily" -> NextDaily(spec.n % DayLength, ref)
    [] spec.kind = "once" -> IF spec.n > ref THEN spec.n ELSE None

-----------------------------------------------------------------------------
(* The tools *)

\* create_schedule_fn: a schedule that will never be due starts disabled.
CreateSchedule(s, spec, enabled) ==
  LET due == ComputeNextDue(spec, now) IN
  /\ exec = Idle
  /\ ~schedule[s].exists
  /\ schedule' = [schedule EXCEPT ![s] =
       [exists |-> TRUE, spec |-> spec, enabled |-> enabled /\ due # None,
        due |-> due, fired |-> None, count |-> 0]]
  /\ UNCHANGED <<now, ticks, pending, emitted, exec, crashes>>

SetScheduleEnabled(s, enabled) ==
  /\ exec = Idle
  /\ schedule[s].exists
  /\ schedule' = [schedule EXCEPT ![s].enabled = enabled]
  /\ UNCHANGED <<now, ticks, pending, emitted, exec, crashes>>

\* Mutant: a schedule is due only after its moment.
DueStrict(s) ==
  /\ schedule[s].enabled
  /\ schedule[s].due # None
  /\ schedule[s].due < now

\* list_due_fn's filter.
Due(s) ==
  /\ schedule[s].enabled
  /\ schedule[s].due # None
  /\ schedule[s].due <= now

\* Mutant: no dedup_key.
TickedNever(s) == FALSE

\* A tick with the schedule's current dedup_key exists.
Ticked(s) ==
  \E i \in 1..Len(ticks) :
    ticks[i].schedule = s /\ ticks[i].due = schedule[s].due

\* The driver calls emit_due_ticks_fn.
StartEmit ==
  /\ exec = Idle
  /\ \E s \in Schedules : Due(s) /\ ~Ticked(s)
  /\ exec' = [Idle EXCEPT !.pc = "emit",
                          !.todo = {s \in Schedules : Due(s) /\ ~Ticked(s)}]
  /\ UNCHANGED <<now, schedule, ticks, pending, emitted, crashes>>

\* One tick at a time, the earliest due first.
EmitTick(s) ==
  /\ exec.pc = "emit"
  /\ s \in exec.todo
  /\ \A r \in exec.todo : schedule[s].due <= schedule[r].due
  /\ ticks' = Append(ticks, [schedule |-> s, fired |-> now,
                             due |-> schedule[s].due, skipped |-> FALSE])
  /\ pending' = Append(pending, Len(ticks) + 1)
  /\ exec' = IF exec.todo = {s} THEN Idle ELSE [exec EXCEPT !.todo = @ \ {s}]
  /\ UNCHANGED <<now, schedule, emitted, crashes>>

-----------------------------------------------------------------------------
(* The behaviors *)

\* tick_router: a disabled schedule's tick does nothing; a payload that cannot be
\* created is noted on the tick.
TickRouter ==
  LET i == Head(pending) IN
  /\ exec = Idle
  /\ pending # <<>>
  /\ \/ /\ ~schedule[ticks[i].schedule].enabled
        /\ UNCHANGED <<ticks, emitted>>
     \/ /\ schedule[ticks[i].schedule].enabled
        /\ emitted' = emitted \cup {i}
        /\ UNCHANGED ticks
     \/ /\ schedule[ticks[i].schedule].enabled
        /\ ticks' = [ticks EXCEPT ![i].skipped = TRUE]
        /\ UNCHANGED emitted
  /\ pending' = Tail(pending)
  /\ exec' = [Idle EXCEPT !.pc = "book", !.tick = i]
  /\ UNCHANGED <<now, schedule, crashes>>

\* Mutant: the schedule advances from the moment it was due.
AdvanceFromDue(i) == ticks[i].due

\* Catch-up policy 'skip': the schedule advances from the actual firing.
AdvanceFrom(i) == ticks[i].fired

\* schedule_bookkeeper, right after the router: a 'once' schedule is over.
ScheduleBookkeeper ==
  LET i == exec.tick
      s == ticks[i].schedule
      r == schedule[s]
  IN /\ exec.pc = "book"
     /\ schedule' = [schedule EXCEPT ![s] =
          [r EXCEPT !.fired = ticks[i].fired, !.count = @ + 1,
                    !.enabled = @ /\ r.spec.kind # "once",
                    !.due = IF r.spec.kind = "once" THEN None
                            ELSE ComputeNextDue(r.spec, AdvanceFrom(i))]]
     /\ exec' = Idle
     /\ UNCHANGED <<now, ticks, pending, emitted, crashes>>

-----------------------------------------------------------------------------

\* Time passes; between the driver's calls as far as the model is concerned.
Advance ==
  /\ exec = Idle
  /\ now < MaxTime
  /\ now' = now + 1
  /\ UNCHANGED <<schedule, ticks, pending, emitted, exec, crashes>>

\* The process dies and Runtime.load replays the objects, not the events.
CrashRestart ==
  /\ crashes < MaxCrashes
  /\ crashes' = crashes + 1
  /\ pending' = <<>>
  /\ exec' = Idle
  /\ UNCHANGED <<now, schedule, ticks, emitted>>

Driver ==
  \/ StartEmit \/ (\E s \in Schedules : EmitTick(s))
  \/ TickRouter \/ ScheduleBookkeeper

Next ==
  \/ \E s \in Schedules, enabled \in BOOLEAN :
       \/ \E spec \in Specs : CreateSchedule(s, spec, enabled)
       \/ SetScheduleEnabled(s, enabled)
  \/ Driver
  \/ Advance
  \/ CrashRestart

Spec == Init /\ [][Next]_vars

\* The driver thread sweeps every SCHEDULE_TICK_SECONDS and settles what it
\* emitted; a function in progress runs on.
FairSpec ==
  Spec /\ SF_vars(StartEmit) /\ SF_vars(TickRouter)
       /\ WF_vars(\E s \in Schedules : EmitTick(s)) /\ WF_vars(ScheduleBookkeeper)

-----------------------------------------------------------------------------
(* Properties *)

\* "A twitchy driver cannot double-fire a due moment": whatever repeated sweeps,
\* disables, re-enables and crashes come in between, a schedule acts at most once
\* for a due moment.
DueMomentsFireOnce ==
  \A i, j \in emitted :
    ticks[i].schedule = ticks[j].schedule /\ ticks[i].due = ticks[j].due => i = j

\* Catch-up 'skip': once a schedule has acted, it acts again only for a moment
\* after that firing; missed periods are not replayed, and a 'once' schedule
\* acts once, re-enabled or not.
MissedPeriodsAreSkipped ==
  \A i, j \in emitted :
    ticks[i].schedule = ticks[j].schedule /\ i < j => ticks[j].due > ticks[i].fired

\* A schedule that was advanced waits for the first moment of its spec after the
\* last firing: none is passed over and none comes again.
WaitsForTheNextMoment ==
  \A s \in Schedules :
    LET r == schedule[s] IN
    r.fired # None /\ r.due # None =>
      /\ r.due > r.fired
      /\ r.spec.kind = "daily" =>
           /\ r.due % DayLength = r.spec.n % DayLength
           /\ \A m \in (r.fired + 1)..(r.due - 1) :
                m % DayLength # r.spec.n % DayLength

Overdue(s) ==
  schedule[s].enabled /\ schedule[s].due # None /\ schedule[s].due <= now

\* Unless the process crashes, a due schedule fires or is disabled in the end.
DueSchedulesFire ==
  \A s \in Schedules : Overdue(s) ~> ~Overdue(s) \/ crashes > 0

-----------------------------------------------------------------------------
(* What the documentation says and the code does not do *)

\* schedule/README.md: "Tick dedup keys make a twitchy or restarted driver
\* harmless."  After a crash between a tick and its bookkeeping the key is spent
\* and next_due_at is not advanced: the schedule never fires again.
RestartedDriverIsHarmless ==
  \A s \in Schedules : Overdue(s) ~> ~Overdue(s)
================================================================================
