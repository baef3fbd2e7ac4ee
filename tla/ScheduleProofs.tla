----------------------------- MODULE ScheduleProofs -----------------------------
(***************************************************************************)
(* Proofs about Schedule, for every set of schedules and specs, every day    *)
(* length and any number of crashes.                                         *)
(*                                                                          *)
(* A due moment fires once because its dedup_key stays in the graph; missed  *)
(* periods are skipped because a schedule that is due again has moved past   *)
(* the firing of each of its ticks (Advanced), which needs that a tick whose *)
(* event is still queued is the one its schedule waits for (Awaited).        *)
(***************************************************************************)
EXTENDS Schedule, Integers, TLAPS

TickIds == 1..Len(ticks)
DueOf(i) == schedule[ticks[i].schedule].due

\* Where ticks and behaviors point to, and what a tick keeps of its schedule.
RefsOK ==
  /\ \A k \in 1..Len(pending) : pending[k] \in TickIds
  /\ emitted \subseteq TickIds
  /\ exec.pc = "book" => exec.tick \in TickIds
  /\ \A i \in TickIds : ticks[i].due <= ticks[i].fired
  /\ \A i \in TickIds : schedule[ticks[i].schedule].exists
  /\ \A s \in Schedules : ~schedule[s].exists => schedule[s].due = None

\* The driver emits for schedules that are due and whose key is new.
TodoOK ==
  exec.pc = "emit" =>
    \A s \in exec.todo : schedule[s].due # None /\ schedule[s].due <= now /\ ~Ticked(s)

KeysUnique ==
  \A i, j \in TickIds :
    ticks[i].schedule = ticks[j].schedule /\ ticks[i].due = ticks[j].due => i = j

\* Each event is queued once, and not while its tick is being booked.
QueueOK ==
  /\ \A k, l \in 1..Len(pending) : pending[k] = pending[l] => k = l
  /\ exec.pc = "book" => \A k \in 1..Len(pending) : pending[k] # exec.tick

\* A tick whose bookkeeping is still to come is the one its schedule waits for.
Awaited ==
  /\ \A k \in 1..Len(pending) : DueOf(pending[k]) = ticks[pending[k]].due
  /\ exec.pc = "book" => DueOf(exec.tick) = ticks[exec.tick].due

\* A schedule is at the moment of a tick, past its firing, or over.
Advanced ==
  \A i \in TickIds :
    DueOf(i) = None \/ DueOf(i) = ticks[i].due \/ DueOf(i) > ticks[i].fired

FiredOrdered ==
  \A i, j \in TickIds :
    ticks[i].schedule = ticks[j].schedule /\ i < j => ticks[j].due > ticks[i].fired

TickInv == TypeOK /\ RefsOK /\ TodoOK /\ KeysUnique /\ QueueOK /\ Awaited /\ Advanced

IInv == TickInv /\ FiredOrdered

-----------------------------------------------------------------------------
(* compute_next_due *)

\* A daily moment is a number after the reference time.
LEMMA NextDailyAfter ==
  ASSUME NEW hour \in Nat, NEW ref \in Nat
  PROVE  NextDaily(hour, ref) \in Nat /\ NextDaily(hour, ref) > ref
<1> DEFINE d == DayLength
           m == ref % DayLength
<1>1. m \in 0..(d - 1) /\ m <= ref
  BY ScheduleAssumption
<1>2. DayLength \in Nat \ {0}
  BY ScheduleAssumption
<1> HIDE DEF m
<1>3. NextDaily(hour, ref) = IF (ref - m) + hour <= ref THEN ((ref - m) + hour) + DayLength
                                                      ELSE (ref - m) + hour
  BY DEF NextDaily, m
<1> QED BY <1>1, <1>2, <1>3

\* "Next due moment strictly after": compute_next_due never stays where it is.
LEMMA NextDueAfter ==
  ASSUME NEW spec \in [kind : Kinds, n : Nat], NEW ref \in Nat
  PROVE  /\ ComputeNextDue(spec, ref) \in Moments
         /\ ComputeNextDue(spec, ref) # None => ComputeNextDue(spec, ref) > ref
<1>1. spec.n \in Nat /\ spec.kind \in Kinds
  OBVIOUS
<1>2. spec.n % DayLength \in Nat
  BY <1>1, ScheduleAssumption
<1>3. /\ NextDaily(spec.n % DayLength, ref) \in Nat
      /\ NextDaily(spec.n % DayLength, ref) > ref
  BY <1>2, NextDailyAfter
<1>4. None \notin Nat
  BY ScheduleAssumption
<1>a. CASE spec.kind = "interval"
  <2>1. ComputeNextDue(spec, ref) = IF spec.n = 0 THEN None ELSE ref + spec.n
    BY <1>a DEF ComputeNextDue
  <2> QED BY <2>1, <1>1, <1>4 DEF Moments
<1>b. CASE spec.kind = "daily"
  <2>1. ComputeNextDue(spec, ref) = NextDaily(spec.n % DayLength, ref)
    BY <1>b DEF ComputeNextDue
  <2> QED BY <2>1, <1>3, <1>4 DEF Moments
<1>c. CASE spec.kind = "once"
  <2>1. ComputeNextDue(spec, ref) = IF spec.n > ref THEN spec.n ELSE None
    BY <1>c DEF ComputeNextDue
  <2> QED BY <2>1, <1>1, <1>4 DEF Moments
<1> QED BY <1>1, <1>a, <1>b, <1>c DEF Kinds

-----------------------------------------------------------------------------
(* Types *)

LEMMA InitType == Init => TypeOK
BY ScheduleAssumption DEF Init, TypeOK, Absent, Records, Moments, Kinds, Frames, Idle

\* A schedule's record stays one when the bookkeeper patches it.
LEMMA BookedRecord ==
  ASSUME NEW r \in Records, NEW f \in Moments, NEW on \in BOOLEAN, NEW due \in Moments
  PROVE  [r EXCEPT !.fired = f, !.count = @ + 1, !.enabled = on, !.due = due] \in Records
<1> DEFINE a == [r EXCEPT !.fired = f]
           b == [a EXCEPT !.count = @ + 1]
           c == [b EXCEPT !.enabled = on]
           d == [c EXCEPT !.due = due]
<1>1. a \in Records
  BY DEF Records
<1> HIDE DEF a
<1>2. b \in Records
  BY <1>1 DEF Records
<1> HIDE DEF b
<1>3. c \in Records
  BY <1>2 DEF Records
<1> HIDE DEF c
<1>4. d \in Records
  BY <1>3 DEF Records
<1> QED BY <1>4 DEF a, b, c, d

LEMMA NextType == TypeOK /\ RefsOK /\ TodoOK /\ [Next]_vars => TypeOK'
<1> SUFFICES ASSUME TypeOK, RefsOK, TodoOK, [Next]_vars PROVE TypeOK'
  OBVIOUS
<1> USE DEF TypeOK
<1>1. ASSUME NEW s \in Schedules, NEW spec \in Specs, NEW enabled \in BOOLEAN,
             CreateSchedule(s, spec, enabled)
      PROVE TypeOK'
  <2> DEFINE due == ComputeNextDue(spec, now)
  <2>1. spec \in [kind : Kinds, n : Nat] /\ due \in Moments
    BY NextDueAfter, ScheduleAssumption
  <2> HIDE DEF due
  <2>2. [exists |-> TRUE, spec |-> spec, enabled |-> enabled /\ due # None,
         due |-> due, fired |-> None, count |-> 0] \in Records
    BY <2>1 DEF Records, Moments
  <2> QED BY <1>1, <2>2 DEF CreateSchedule, due
<1>2. ASSUME NEW s \in Schedules, NEW enabled \in BOOLEAN, SetScheduleEnabled(s, enabled)
      PROVE TypeOK'
  BY <1>2 DEF SetScheduleEnabled, Records
<1>3. CASE StartEmit
  BY <1>3 DEF StartEmit, Frames, Idle
<1>4. ASSUME NEW s \in Schedules, EmitTick(s)
      PROVE TypeOK'
  <2>1. schedule[s].due \in Nat
    BY <1>4 DEF EmitTick, TodoOK, Records, Moments
  <2>2. [schedule |-> s, fired |-> now, due |-> schedule[s].due,
         skipped |-> FALSE] \in Ticks
    BY <2>1 DEF Ticks
  <2>3. ticks' \in Seq(Ticks) /\ pending' \in Seq(Nat)
    BY <1>4, <2>2 DEF EmitTick
  <2>4. exec' \in Frames
    BY <1>4 DEF EmitTick, Frames, Idle
  <2> QED BY <1>4, <2>3, <2>4 DEF EmitTick
<1>5. CASE TickRouter
  <2> DEFINE i == Head(pending)
  <2>1. i \in TickIds /\ i \in Nat /\ pending' \in Seq(Nat)
    BY <1>5 DEF TickRouter, RefsOK, TickIds
  <2>2. ticks[i] \in Ticks
    BY <2>1 DEF TickIds
  <2>3. [ticks[i] EXCEPT !.skipped = TRUE] \in Ticks
    BY <2>2 DEF Ticks
  <2>4. ticks' \in Seq(Ticks)
    <3>1. CASE ticks' = ticks
      BY <3>1
    <3>2. CASE ticks' = [ticks EXCEPT ![i].skipped = TRUE]
      <4>1. ticks' = [ticks EXCEPT ![i] = [ticks[i] EXCEPT !.skipped = TRUE]]
        BY <3>2
      <4> QED BY <4>1, <2>1, <2>3 DEF TickIds
    <3> QED BY <1>5, <3>1, <3>2 DEF TickRouter
  <2>5. exec' \in Frames /\ emitted' \subseteq Nat
    BY <1>5, <2>1 DEF TickRouter, Frames, Idle
  <2> QED BY <1>5, <2>1, <2>4, <2>5 DEF TickRouter
<1>6. CASE ScheduleBookkeeper
  <2> DEFINE i == exec.tick
             s == ticks[i].schedule
             due == IF schedule[s].spec.kind = "once" THEN None
                    ELSE ComputeNextDue(schedule[s].spec, AdvanceFrom(i))
  <2>1. i \in TickIds /\ ticks[i] \in Ticks
    BY <1>6 DEF ScheduleBookkeeper, RefsOK, TickIds
  <2>2. s \in Schedules /\ ticks[i].fired \in Nat /\ schedule[s] \in Records
    BY <2>1 DEF Ticks
  <2>3. due \in Moments
    BY <2>2, NextDueAfter DEF Records, AdvanceFrom, Moments
  <2> HIDE DEF due
  <2> DEFINE on == schedule[s].enabled /\ schedule[s].spec.kind # "once"
  <2>on. on \in BOOLEAN
    OBVIOUS
  <2> HIDE DEF on
  <2>4. [schedule[s] EXCEPT !.fired = ticks[i].fired, !.count = @ + 1,
           !.enabled = on, !.due = due] \in Records
    BY <2>2, <2>3, <2>on, BookedRecord DEF Moments
  <2>5. schedule' = [schedule EXCEPT ![s] =
          [schedule[s] EXCEPT !.fired = ticks[i].fired, !.count = @ + 1,
             !.enabled = on, !.due = due]]
    BY <1>6 DEF ScheduleBookkeeper, due, on
  <2>6. schedule' \in [Schedules -> Records]
    BY <2>2, <2>4, <2>5
  <2> QED BY <1>6, <2>6 DEF ScheduleBookkeeper, Frames, Idle
<1>7. CASE Advance
  BY <1>7 DEF Advance
<1>8. CASE CrashRestart
  BY <1>8 DEF CrashRestart, Frames, Idle
<1>9. CASE UNCHANGED vars
  BY <1>9 DEF vars
<1> QED BY <1>1, <1>2, <1>3, <1>4, <1>5, <1>6, <1>7, <1>8, <1>9 DEF Next, Driver

-----------------------------------------------------------------------------
(* The invariant *)

LEMMA InitInv == Init => IInv
<1> SUFFICES ASSUME Init PROVE IInv
  OBVIOUS
<1>1. TypeOK
  BY InitType
<1>2. /\ Len(ticks) = 0 /\ Len(pending) = 0 /\ emitted = {} /\ exec.pc = "idle"
      /\ \A s \in Schedules : schedule[s].due = None
  BY DEF Init, Idle, Absent
<1> QED BY <1>1, <1>2 DEF IInv, TickInv, RefsOK, TodoOK, KeysUnique, QueueOK,
             Awaited, Advanced, FiredOrdered, TickIds

LEMMA TicksTyped ==
  ASSUME TypeOK, NEW i \in TickIds
  PROVE  /\ ticks[i] \in Ticks /\ ticks[i].schedule \in Schedules
         /\ ticks[i].fired \in Nat /\ ticks[i].due \in Nat
<1>1. ticks[i] \in Ticks
  BY DEF TypeOK, TickIds
<1> QED BY <1>1 DEF Ticks

LEMMA SchedulesTyped ==
  ASSUME TypeOK, NEW s \in Schedules
  PROVE  schedule[s] \in Records /\ schedule[s].due \in Moments
BY DEF TypeOK, Records

\* A step that leaves the ticks, the queue and every due moment alone.
LEMMA QuietStep ==
  ASSUME IInv, TypeOK', TodoOK', exec'.pc # "book",
         UNCHANGED <<ticks, pending, emitted>>,
         \A s \in Schedules :
           schedule'[s].due = schedule[s].due /\ schedule'[s].exists = schedule[s].exists
  PROVE  IInv'
<1>0. ticks' = ticks /\ pending' = pending /\ emitted' = emitted
  OBVIOUS
<1>1. \A i \in TickIds : ticks[i].schedule \in Schedules
  BY TicksTyped DEF IInv, TickInv
<1>2. TickIds' = TickIds /\ \A i \in TickIds : DueOf(i)' = DueOf(i)
  <2>1. TickIds' = TickIds
    BY <1>0 DEF TickIds
  <2>2. ASSUME NEW i \in TickIds PROVE DueOf(i)' = DueOf(i)
    BY <1>0, <1>1 DEF DueOf
  <2> QED BY <2>1, <2>2
<1>3. RefsOK'
  BY <1>1, <1>2 DEF IInv, TickInv, RefsOK
<1>4. KeysUnique' /\ QueueOK' /\ FiredOrdered'
  BY <1>2 DEF IInv, TickInv, KeysUnique, QueueOK, FiredOrdered
<1>5. Awaited' /\ Advanced'
  BY <1>2 DEF IInv, TickInv, Awaited, Advanced, RefsOK
<1> QED BY <1>3, <1>4, <1>5 DEF IInv, TickInv

\* The dedup_key of a new tick is new, and its moment is past every earlier firing.
LEMMA EmitInv ==
  ASSUME IInv, TypeOK', NEW s \in Schedules, EmitTick(s)
  PROVE  IInv'
<1> DEFINE n == Len(ticks) + 1
           t == [schedule |-> s, fired |-> now, due |-> schedule[s].due,
                 skipped |-> FALSE]
<1>a. \A i \in TickIds : ticks[i].schedule \in Schedules /\ ticks[i].fired \in Nat
                         /\ ticks[i].due \in Nat
  BY TicksTyped DEF IInv, TickInv
<1>1. /\ schedule' = schedule /\ emitted' = emitted /\ now' = now
      /\ ticks' = Append(ticks, t) /\ pending' = Append(pending, n)
      /\ exec.pc = "emit" /\ s \in exec.todo /\ exec'.pc # "book"
      /\ exec'.pc = "emit" => exec'.todo = exec.todo \ {s}
  BY DEF EmitTick, Idle, IInv, TickInv, TypeOK, Frames
<1>2. /\ Len(ticks) \in Nat /\ Len(pending) \in Nat /\ now \in Nat
      /\ TickIds' = TickIds \cup {n} /\ n \notin TickIds
      /\ \A i \in TickIds : ticks'[i] = ticks[i] /\ i < n
      /\ ticks'[n] = t
  BY <1>1 DEF IInv, TickInv, TypeOK, TickIds
<1>n. ticks'[n].schedule = s /\ ticks'[n].due = schedule[s].due /\ ticks'[n].fired = now
  BY <1>2
<1>3. /\ Len(pending') = Len(pending) + 1
      /\ \A k \in 1..Len(pending) : pending'[k] = pending[k] /\ pending[k] \in TickIds
      /\ pending'[Len(pending) + 1] = n
  BY <1>1 DEF IInv, TickInv, TypeOK, RefsOK
<1>4. schedule[s].due \in Nat /\ schedule[s].due <= now /\ ~Ticked(s) /\ schedule[s].exists
  BY <1>1, SchedulesTyped DEF IInv, TickInv, TodoOK, RefsOK, Moments
<1>5. ASSUME NEW i \in TickIds, ticks[i].schedule = s
      PROVE  ticks[i].due # schedule[s].due /\ schedule[s].due > ticks[i].fired
  <2>1. ticks[i].due # schedule[s].due
    BY <1>4, <1>5 DEF Ticked, TickIds
  <2>2. DueOf(i) = schedule[s].due
    BY <1>5 DEF DueOf
  <2>3. None \notin Nat
    BY ScheduleAssumption
  <2> QED BY <1>a, <1>4, <2>1, <2>2, <2>3 DEF IInv, TickInv, Advanced
<1>6. /\ \A i \in TickIds : DueOf(i)' = DueOf(i)
      /\ schedule'[ticks'[n].schedule].due = ticks'[n].due
  BY <1>1, <1>2, <1>n DEF DueOf
<1> HIDE DEF n, t
<1>7. RefsOK'
  <2>1. \A k \in 1..Len(pending') : pending'[k] \in TickIds'
    BY <1>2, <1>3
  <2>2. \A i \in TickIds' : ticks'[i].due <= ticks'[i].fired
    BY <1>2, <1>n, <1>4 DEF IInv, TickInv, RefsOK
  <2>3. \A i \in TickIds' : schedule'[ticks'[i].schedule].exists
    BY <1>a, <1>1, <1>2, <1>n, <1>4 DEF IInv, TickInv, RefsOK
  <2>4. emitted' \subseteq TickIds'
    BY <1>1, <1>2 DEF IInv, TickInv, RefsOK
  <2>5. \A r \in Schedules : ~schedule'[r].exists => schedule'[r].due = None
    BY <1>1 DEF IInv, TickInv, RefsOK
  <2> QED BY <1>1, <2>1, <2>2, <2>3, <2>4, <2>5 DEF RefsOK
<1>8. TodoOK'
  <2> SUFFICES ASSUME exec'.pc = "emit", NEW r \in exec.todo \ {s}
               PROVE  schedule[r].due # None /\ schedule[r].due <= now /\ ~Ticked(r)'
    BY <1>1 DEF TodoOK
  <2>1. schedule[r].due # None /\ schedule[r].due <= now /\ ~Ticked(r)
    BY <1>1 DEF IInv, TickInv, TodoOK
  <2>2. \A i \in TickIds : ~(ticks[i].schedule = r /\ ticks[i].due = schedule[r].due)
    BY <2>1 DEF Ticked, TickIds
  <2>3. \A i \in TickIds' : ~(ticks'[i].schedule = r /\ ticks'[i].due = schedule[r].due)
    BY <1>2, <1>n, <2>2
  <2> QED BY <1>1, <2>1, <2>3 DEF Ticked, TickIds
<1>9. KeysUnique'
  <2> SUFFICES ASSUME NEW i \in TickIds', NEW j \in TickIds',
                      ticks'[i].schedule = ticks'[j].schedule, ticks'[i].due = ticks'[j].due
               PROVE  i = j
    BY DEF KeysUnique
  <2>1. CASE i \in TickIds /\ j \in TickIds
    BY <2>1, <1>2 DEF IInv, TickInv, KeysUnique
  <2>2. CASE i = n \/ j = n
    BY <2>2, <1>2, <1>n, <1>5
  <2> QED BY <1>2, <2>1, <2>2
<1>10. QueueOK'
  <2>1. ASSUME NEW k \in 1..Len(pending'), NEW l \in 1..Len(pending'),
               pending'[k] = pending'[l]
        PROVE  k = l
    <3>1. CASE k \in 1..Len(pending) /\ l \in 1..Len(pending)
      BY <1>3, <2>1, <3>1 DEF IInv, TickInv, QueueOK
    <3>2. CASE k = Len(pending) + 1 \/ l = Len(pending) + 1
      BY <1>2, <1>3, <2>1, <3>2
    <3> QED BY <1>2, <1>3, <3>1, <3>2
  <2> QED BY <1>1, <2>1 DEF QueueOK
<1>11. Awaited'
  <2>1. ASSUME NEW k \in 1..Len(pending')
        PROVE  schedule'[ticks'[pending'[k]].schedule].due = ticks'[pending'[k]].due
    <3>1. CASE k \in 1..Len(pending)
      <4>1. pending'[k] = pending[k] /\ pending[k] \in TickIds
        BY <1>3, <3>1
      <4>2. schedule[ticks[pending[k]].schedule].due = ticks[pending[k]].due
        BY <3>1 DEF IInv, TickInv, Awaited, DueOf
      <4> QED BY <1>1, <1>2, <4>1, <4>2
    <3>2. CASE k = Len(pending) + 1
      BY <1>3, <1>6, <3>2
    <3> QED BY <1>2, <1>3, <3>1, <3>2
  <2> QED BY <1>1, <2>1 DEF Awaited, DueOf
<1>12. Advanced'
  <2>1. ASSUME NEW i \in TickIds'
        PROVE  LET d == schedule'[ticks'[i].schedule].due
               IN d = None \/ d = ticks'[i].due \/ d > ticks'[i].fired
    BY <1>1, <1>2, <1>6, <2>1 DEF IInv, TickInv, Advanced, DueOf
  <2> QED BY <2>1 DEF Advanced, DueOf
<1>13. FiredOrdered'
  <2> SUFFICES ASSUME NEW i \in TickIds', NEW j \in TickIds',
                      ticks'[i].schedule = ticks'[j].schedule, i < j
               PROVE  ticks'[j].due > ticks'[i].fired
    BY DEF FiredOrdered
  <2>1. CASE i \in TickIds /\ j \in TickIds
    BY <2>1, <1>2 DEF IInv, FiredOrdered
  <2>2. CASE i \in TickIds /\ j = n
    BY <2>2, <1>2, <1>n, <1>5
  <2>3. CASE i = n
    BY <2>3, <1>2 DEF TickIds, n
  <2> QED BY <1>2, <2>1, <2>2, <2>3
<1> QED BY <1>7, <1>8, <1>9, <1>10, <1>11, <1>12, <1>13 DEF IInv, TickInv

\* The router takes the first event; the tick it is done with is still awaited.
LEMMA RouteInv ==
  ASSUME IInv, TypeOK', TickRouter
  PROVE  IInv'
<1> DEFINE i == Head(pending)
<1>a. \A j \in TickIds : ticks[j] \in Ticks /\ ticks[j].schedule \in Schedules
  BY TicksTyped DEF IInv, TickInv
<1>1. /\ pending # <<>> /\ pending' = Tail(pending) /\ schedule' = schedule
      /\ exec.pc = "idle" /\ exec'.pc = "book" /\ exec'.tick = i
      /\ emitted' \subseteq emitted \cup {i}
  BY DEF TickRouter, Idle
<1>2. /\ Len(pending) \in Nat /\ Len(pending) > 0 /\ i = pending[1]
      /\ Len(pending') = Len(pending) - 1
      /\ \A k \in 1..Len(pending') : pending'[k] = pending[k + 1] /\ k + 1 \in 1..Len(pending)
  <2>1. pending \in Seq(Nat)
    BY DEF IInv, TickInv, TypeOK
  <2>2. Len(pending) \in Nat /\ Len(pending) > 0 /\ i = pending[1]
    BY <1>1, <2>1
  <2>3. Len(pending') = Len(pending) - 1
    BY <1>1, <2>1
  <2>4. ASSUME NEW k \in 1..Len(pending') PROVE pending'[k] = pending[k + 1]
    BY <1>1, <2>1, <2>2, <2>3
  <2> QED BY <2>2, <2>3, <2>4
<1>r. ticks' = ticks \/ ticks' = [ticks EXCEPT ![i].skipped = TRUE]
  BY DEF TickRouter
<1> HIDE DEF i
<1>3. i \in TickIds /\ \A k \in 1..Len(pending') : pending'[k] \in TickIds
  BY <1>2 DEF IInv, TickInv, RefsOK
<1>4. /\ TickIds' = TickIds
      /\ \A j \in TickIds : /\ ticks'[j].schedule = ticks[j].schedule
                            /\ ticks'[j].due = ticks[j].due
                            /\ ticks'[j].fired = ticks[j].fired
  <2>1. CASE ticks' = ticks
    BY <2>1 DEF TickIds
  <2>2. CASE ticks' = [ticks EXCEPT ![i].skipped = TRUE]
    <3>1. ticks' = [ticks EXCEPT ![i] = [ticks[i] EXCEPT !.skipped = TRUE]]
      BY <2>2
    <3>2. /\ [ticks[i] EXCEPT !.skipped = TRUE].schedule = ticks[i].schedule
          /\ [ticks[i] EXCEPT !.skipped = TRUE].due = ticks[i].due
          /\ [ticks[i] EXCEPT !.skipped = TRUE].fired = ticks[i].fired
      BY <1>a, <1>3 DEF Ticks
    <3>3. ticks \in Seq(Ticks) /\ ticks' \in Seq(Ticks)
      BY DEF IInv, TickInv, TypeOK
    <3>4. DOMAIN ticks' = DOMAIN ticks
      BY <3>1
    <3>5. TickIds' = TickIds /\ TickIds = DOMAIN ticks
      BY <3>3, <3>4 DEF TickIds
    <3> QED BY <3>1, <3>2, <3>5
  <2> QED BY <1>r, <2>1, <2>2
<1>5. \A j \in TickIds : DueOf(j)' = DueOf(j)
  BY <1>1, <1>4 DEF DueOf
<1>6. RefsOK' /\ TodoOK'
  BY <1>1, <1>3, <1>4 DEF IInv, TickInv, RefsOK, TodoOK
<1>7. KeysUnique' /\ Advanced' /\ FiredOrdered'
  BY <1>4, <1>5 DEF IInv, TickInv, KeysUnique, Advanced, FiredOrdered
<1>8. QueueOK'
  BY <1>1, <1>2 DEF IInv, TickInv, QueueOK
<1>9. Awaited'
  <2>1. \A k \in 1..Len(pending) : pending[k] \in TickIds /\ DueOf(pending[k]) = ticks[pending[k]].due
    BY DEF IInv, TickInv, Awaited, RefsOK
  <2>2. schedule'[ticks'[i].schedule].due = ticks'[i].due
    BY <1>1, <1>2, <1>3, <1>4, <2>1 DEF DueOf
  <2>3. ASSUME NEW k \in 1..Len(pending')
        PROVE  schedule'[ticks'[pending'[k]].schedule].due = ticks'[pending'[k]].due
    BY <1>1, <1>2, <1>3, <1>4, <2>1, <2>3 DEF DueOf
  <2> QED BY <1>1, <2>2, <2>3 DEF Awaited, DueOf
<1> QED BY <1>6, <1>7, <1>8, <1>9 DEF IInv, TickInv

\* The bookkeeper moves the schedule past the firing; nothing else waited for its
\* old moment.
LEMMA BookInv ==
  ASSUME IInv, TypeOK', ScheduleBookkeeper
  PROVE  IInv'
<1> DEFINE i == exec.tick
           s == ticks[i].schedule
           due == IF schedule[s].spec.kind = "once" THEN None
                  ELSE ComputeNextDue(schedule[s].spec, ticks[i].fired)
<1>a. \A j \in TickIds : ticks[j] \in Ticks /\ ticks[j].schedule \in Schedules
                         /\ ticks[j].fired \in Nat /\ ticks[j].due \in Nat
  BY TicksTyped DEF IInv, TickInv
<1>1. /\ ticks' = ticks /\ pending' = pending /\ emitted' = emitted
      /\ exec.pc = "book" /\ exec'.pc = "idle" /\ i \in TickIds
  BY DEF ScheduleBookkeeper, IInv, TickInv, RefsOK, Idle
<1>2. s \in Schedules /\ schedule[s] \in Records /\ schedule[s].spec \in [kind : Kinds, n : Nat]
  BY <1>a, <1>1, SchedulesTyped DEF IInv, TickInv, Records
<1>3. due \in Moments /\ (due # None => due > ticks[i].fired)
  BY <1>a, <1>1, <1>2, NextDueAfter DEF Moments
<1>4. /\ schedule'[s].due = due /\ schedule'[s].exists = schedule[s].exists
      /\ \A r \in Schedules : r # s => schedule'[r] = schedule[r]
  <2> DEFINE on == schedule[s].enabled /\ schedule[s].spec.kind # "once"
             c == schedule[s].count + 1
             new == [schedule[s] EXCEPT !.fired = ticks[i].fired, !.count = c,
                                        !.enabled = on, !.due = due]
  <2>1. schedule' = [schedule EXCEPT ![s] = new]
    BY DEF ScheduleBookkeeper, AdvanceFrom
  <2> HIDE DEF due, on, c
  <2>2. new.due = due /\ new.exists = schedule[s].exists
    BY <1>2 DEF Records
  <2> HIDE DEF new
  <2>3. schedule \in [Schedules -> Records]
    BY DEF IInv, TickInv, TypeOK
  <2> QED BY <1>2, <2>1, <2>2, <2>3
<1>5. schedule[s].exists /\ schedule[s].due = ticks[i].due /\ ticks[i].due <= ticks[i].fired
  BY <1>1 DEF IInv, TickInv, RefsOK, Awaited, DueOf
<1> HIDE DEF due
<1>6. RefsOK'
  BY <1>1, <1>2, <1>4, <1>5, <1>a DEF IInv, TickInv, RefsOK, TickIds
<1>7. TodoOK' /\ KeysUnique' /\ QueueOK' /\ FiredOrdered'
  BY <1>1 DEF IInv, TickInv, TodoOK, KeysUnique, QueueOK, FiredOrdered, TickIds
<1>8. Awaited'
  <2>1. ASSUME NEW k \in 1..Len(pending)
        PROVE  schedule'[ticks[pending[k]].schedule].due = ticks[pending[k]].due
    <3> DEFINE j == pending[k]
    <3>1. j \in TickIds /\ schedule[ticks[j].schedule].due = ticks[j].due
      BY <2>1 DEF IInv, TickInv, RefsOK, Awaited, DueOf
    <3>2. j # i
      BY <1>1, <2>1 DEF IInv, TickInv, QueueOK
    <3>3. ticks[j].schedule # s
      BY <1>1, <1>5, <3>1, <3>2 DEF IInv, TickInv, KeysUnique
    <3> QED BY <1>4, <1>a, <3>1, <3>3
  <2> QED BY <1>1, <2>1 DEF Awaited, DueOf
<1>9. Advanced'
  <2>1. ASSUME NEW j \in TickIds
        PROVE  LET d == schedule'[ticks[j].schedule].due
               IN d = None \/ d = ticks[j].due \/ d > ticks[j].fired
    <3>1. CASE ticks[j].schedule # s
      BY <1>4, <1>a, <3>1 DEF IInv, TickInv, Advanced, DueOf
    <3>2. CASE j = i
      BY <1>3, <1>4, <3>2
    <3>3. CASE ticks[j].schedule = s /\ j # i
      <4>1. ticks[j].due # ticks[i].due
        BY <1>1, <3>3 DEF IInv, TickInv, KeysUnique
      <4>2. schedule[s].due > ticks[j].fired
        <5>1. None \notin Nat
          BY ScheduleAssumption
        <5> QED BY <1>1, <1>a, <1>5, <3>3, <4>1, <5>1 DEF IInv, TickInv, Advanced, DueOf
      <4>3. due # None => due > ticks[j].fired
        BY <1>1, <1>3, <1>5, <1>a, <4>2, ScheduleAssumption DEF Moments
      <4> QED BY <1>4, <3>3, <4>3
    <3> QED BY <3>1, <3>2, <3>3
  <2> QED BY <1>1, <2>1 DEF Advanced, DueOf, TickIds
<1> QED BY <1>6, <1>7, <1>8, <1>9 DEF IInv, TickInv

LEMMA NextInv == IInv /\ [Next]_vars => IInv'
<1> SUFFICES ASSUME IInv, [Next]_vars PROVE IInv'
  OBVIOUS
<1>t. TypeOK'
  BY NextType DEF IInv, TickInv
<1>a. /\ \A i \in TickIds : /\ ticks[i] \in Ticks
                            /\ ticks[i].schedule \in Schedules
                            /\ ticks[i].fired \in Nat /\ ticks[i].due \in Nat
      /\ \A s \in Schedules : schedule[s] \in Records /\ schedule[s].due \in Moments
      /\ None \notin Nat
  BY TicksTyped, SchedulesTyped, ScheduleAssumption DEF IInv, TickInv
<1>1. ASSUME NEW s \in Schedules, NEW spec \in Specs, NEW enabled \in BOOLEAN,
             CreateSchedule(s, spec, enabled)
      PROVE IInv'
  <2>1. \A i \in TickIds : ticks[i].schedule # s
    BY <1>1 DEF CreateSchedule, IInv, TickInv, RefsOK
  <2>2. \A r \in Schedules : r # s => schedule'[r] = schedule[r]
    BY <1>1 DEF CreateSchedule, IInv, TickInv, TypeOK
  <2>3. schedule'[s].exists /\ UNCHANGED <<ticks, pending, emitted, exec>> /\ exec = Idle
    BY <1>1 DEF CreateSchedule, IInv, TickInv, TypeOK
  <2>4. TickIds' = TickIds /\ \A i \in TickIds : DueOf(i)' = DueOf(i)
    BY <1>a, <2>1, <2>2, <2>3 DEF TickIds, DueOf
  <2>5. RefsOK'
    BY <1>a, <2>1, <2>2, <2>3, <2>4 DEF IInv, TickInv, RefsOK, Idle
  <2>6. TodoOK' /\ KeysUnique' /\ QueueOK' /\ FiredOrdered'
    BY <2>3, <2>4 DEF IInv, TickInv, TodoOK, KeysUnique, QueueOK, FiredOrdered, Idle
  <2>7. Awaited' /\ Advanced'
    BY <2>3, <2>4 DEF IInv, TickInv, Awaited, Advanced, RefsOK, Idle
  <2> QED BY <1>t, <2>5, <2>6, <2>7 DEF IInv, TickInv
<1>2. ASSUME NEW s \in Schedules, NEW enabled \in BOOLEAN, SetScheduleEnabled(s, enabled)
      PROVE IInv'
  <2>1. /\ UNCHANGED <<ticks, pending, emitted, exec>> /\ exec.pc = "idle"
        /\ \A r \in Schedules : schedule'[r].due = schedule[r].due
                               /\ schedule'[r].exists = schedule[r].exists
    BY <1>2 DEF SetScheduleEnabled, Idle, IInv, TickInv, TypeOK, Records
  <2>2. TodoOK'
    BY <2>1 DEF TodoOK
  <2> QED BY <1>t, <2>1, <2>2, QuietStep
<1>3. CASE StartEmit
  <2>1. /\ UNCHANGED <<ticks, pending, emitted, schedule, now>> /\ exec'.pc = "emit"
        /\ exec'.todo = {s \in Schedules : Due(s) /\ ~Ticked(s)}
    BY <1>3 DEF StartEmit, Idle
  <2>2. TodoOK'
    BY <2>1 DEF TodoOK, Due, Ticked
  <2> QED BY <1>t, <2>1, <2>2, QuietStep
<1>4. ASSUME NEW s \in Schedules, EmitTick(s)
      PROVE IInv'
  BY <1>4, <1>t, EmitInv
<1>5. CASE TickRouter
  BY <1>5, <1>t, RouteInv
<1>6. CASE ScheduleBookkeeper
  BY <1>6, <1>t, BookInv
<1>7. CASE Advance
  <2>1. UNCHANGED <<ticks, pending, emitted, schedule, exec>> /\ exec.pc = "idle"
    BY <1>7 DEF Advance, Idle
  <2>2. TodoOK'
    BY <2>1 DEF TodoOK
  <2> QED BY <1>t, <2>1, <2>2, QuietStep
<1>8. CASE CrashRestart
  <2>1. /\ ticks' = ticks /\ emitted' = emitted /\ schedule' = schedule
        /\ Len(pending') = 0 /\ exec'.pc = "idle"
    BY <1>8 DEF CrashRestart, Idle
  <2>2. RefsOK' /\ TodoOK' /\ QueueOK' /\ Awaited'
    BY <2>1 DEF IInv, TickInv, RefsOK, TodoOK, QueueOK, Awaited, TickIds
  <2>3. KeysUnique' /\ Advanced' /\ FiredOrdered'
    BY <2>1 DEF IInv, TickInv, KeysUnique, Advanced, FiredOrdered, TickIds, DueOf
  <2> QED BY <1>t, <2>2, <2>3 DEF IInv, TickInv
<1>9. CASE UNCHANGED vars
  BY <1>9 DEF vars, IInv, TickInv, TypeOK, RefsOK, TodoOK, KeysUnique, QueueOK, Awaited,
              Advanced, FiredOrdered, TickIds, DueOf, Ticked
<1> QED BY <1>1, <1>2, <1>3, <1>4, <1>5, <1>6, <1>7, <1>8, <1>9 DEF Next, Driver

-----------------------------------------------------------------------------
(* The theorems *)

LEMMA SpecInv == Spec => []IInv
BY InitInv, NextInv, PTL DEF Spec

\* Clocks, schedules, ticks and queues keep their types: in particular every tick
\* is for a moment that has come, and compute_next_due returns a moment or None.
THEOREM TypeCorrect == Spec => []TypeOK
<1>1. IInv => TypeOK
  BY DEF IInv, TickInv
<1> QED BY <1>1, SpecInv, PTL

\* The dedup_key promise of emit_due_ticks: no two payloads for one due moment.
THEOREM FiresOnce == Spec => []DueMomentsFireOnce
<1>1. IInv => DueMomentsFireOnce
  BY DEF IInv, TickInv, RefsOK, KeysUnique, DueMomentsFireOnce
<1> QED BY <1>1, SpecInv, PTL

\* The catch-up policy 'skip': a schedule acts again only for a moment after its
\* last firing.
THEOREM SkipsMissedPeriods == Spec => []MissedPeriodsAreSkipped
<1>1. IInv => MissedPeriodsAreSkipped
  BY DEF IInv, TickInv, RefsOK, FiredOrdered, MissedPeriodsAreSkipped
<1> QED BY <1>1, SpecInv, PTL

-----------------------------------------------------------------------------
(* The next moment of a daily schedule is the first one *)

\* Division with remainder, and that it has one result.
LEMMA Remainder ==
  ASSUME NEW D \in Nat \ {0}, NEW x \in Nat
  PROVE  x % D \in 0..(D - 1) /\ x \div D \in Nat /\ x = D * (x \div D) + (x % D)
OBVIOUS

LEMMA Multiple ==
  ASSUME NEW D \in Nat \ {0}, NEW k \in Int, k >= 1
  PROVE  D * k >= D
OBVIOUS

LEMMA OneRemainder ==
  ASSUME NEW D \in Nat \ {0}, NEW a \in Int, NEW b \in Int,
         NEW g \in 0..(D - 1), NEW h \in 0..(D - 1), D * a + g = D * b + h
  PROVE  a = b /\ g = h
<1>1. a - b \in Int /\ D * (a - b) = h - g /\ D * (b - a) = g - h
  OBVIOUS
<1>2. ~(a - b >= 1) /\ ~(b - a >= 1)
  BY <1>1, Multiple
<1>3. a = b
  BY <1>2
<1> QED BY <1>1, <1>3

\* Today's or tomorrow's moment has the hour asked for, and is a day after a moment
\* that is not after ref.
LEMMA NextDailyHour ==
  ASSUME NEW hour \in 0..(DayLength - 1), NEW ref \in Nat
  PROVE  \E q \in Nat : /\ NextDaily(hour, ref) = DayLength * q + hour
                        /\ (DayLength * q + hour) - DayLength <= ref
<1> DEFINE d == DayLength
           m == ref % DayLength
           q == ref \div DayLength
<1>0. d \in Nat \ {0}
  BY ScheduleAssumption
<1>1. m \in 0..(d - 1) /\ q \in Nat /\ ref = d * q + m
  BY <1>0, Remainder
<1>2. NextDaily(hour, ref) = IF (ref - m) + hour <= ref THEN ((ref - m) + hour) + d
                                                      ELSE (ref - m) + hour
  BY DEF NextDaily
<1> HIDE DEF d, m, q
<1>3. d * (q + 1) = d * q + d /\ d * q \in Nat /\ q + 1 \in Nat
  BY <1>0, <1>1
<1>4. hour \in 0..(d - 1)
  BY DEF d
<1>5. CASE (ref - m) + hour <= ref
  <2>1. NextDaily(hour, ref) = d * (q + 1) + hour
    BY <1>0, <1>1, <1>2, <1>3, <1>4, <1>5
  <2>2. (d * (q + 1) + hour) - d <= ref
    BY <1>0, <1>1, <1>3, <1>4, <1>5
  <2> QED BY <1>3, <2>1, <2>2 DEF d
<1>6. CASE ~((ref - m) + hour <= ref)
  <2>1. NextDaily(hour, ref) = d * q + hour
    BY <1>0, <1>1, <1>2, <1>3, <1>4, <1>6
  <2>2. (d * q + hour) - d <= ref
    BY <1>0, <1>1, <1>3, <1>4
  <2> QED BY <1>1, <2>1, <2>2 DEF d
<1> QED BY <1>5, <1>6

\* It is at that hour, and no moment between ref and it is.
LEMMA NextDailyIsFirst ==
  ASSUME NEW hour \in 0..(DayLength - 1), NEW ref \in Nat
  PROVE  /\ NextDaily(hour, ref) % DayLength = hour
         /\ \A m \in (ref + 1)..(NextDaily(hour, ref) - 1) : m % DayLength # hour
<1> DEFINE d == DayLength
           due == NextDaily(hour, ref)
<1>0. d \in Nat \ {0} /\ hour \in 0..(d - 1) /\ due \in Nat
  BY ScheduleAssumption, NextDailyAfter
<1>1. PICK q \in Nat : due = d * q + hour /\ (d * q + hour) - d <= ref
  BY NextDailyHour
<1> HIDE DEF d, due
<1>2. due % d = hour
  <2> DEFINE g == due % d
             a == due \div d
  <2>1. g \in 0..(d - 1) /\ a \in Int /\ due = d * a + g
    BY <1>0, Remainder
  <2> HIDE DEF g, a
  <2>2. q \in Int /\ d * a + g = d * q + hour
    BY <1>1, <2>1
  <2>3. g = hour
    BY <1>0, <2>1, <2>2, OneRemainder
  <2> QED BY <2>3 DEF g
<1>3. ASSUME NEW m \in (ref + 1)..(due - 1), m % d = hour
      PROVE  FALSE
  <2>0. m \in Nat /\ ref < m /\ m < due
    BY <1>0
  <2>1. m \div d \in Nat /\ m = d * (m \div d) + hour
    BY <1>0, <1>3, <2>0, Remainder
  <2> DEFINE k == q - (m \div d)
  <2>2. k \in Int /\ d * k = due - m
    BY <1>0, <1>1, <2>1
  <2>3. due - m < d /\ due - m > 0
    BY <1>0, <1>1, <2>0
  <2> HIDE DEF k
  <2>4. k >= 1
    <3>1. ASSUME ~(k >= 1) PROVE FALSE
      <4>1. 0 - k \in Nat /\ d * (0 - k) = 0 - (d * k) /\ d * (0 - k) >= 0
        BY <1>0, <2>2, <3>1
      <4> QED BY <1>0, <2>0, <2>2, <2>3, <4>1
    <3> QED BY <3>1
  <2>5. d * k >= d
    BY <1>0, <2>2, <2>4, Multiple
  <2> QED BY <1>0, <2>0, <2>2, <2>3, <2>5
<1> QED BY <1>2, <1>3 DEF d, due

\* What WaitsForTheNextMoment says of one schedule.
WaitsFor(r) ==
  r.fired # None /\ r.due # None =>
    /\ r.due > r.fired
    /\ r.spec.kind = "daily" =>
         /\ r.due % DayLength = r.spec.n % DayLength
         /\ \A m \in (r.fired + 1)..(r.due - 1) :
              m % DayLength # r.spec.n % DayLength

\* The bookkeeper leaves the schedule waiting for the first moment after the firing.
LEMMA BookedWaits ==
  ASSUME IInv, ScheduleBookkeeper, NEW s \in Schedules, WaitsFor(schedule[s])
  PROVE  WaitsFor(schedule[s])'
<1> DEFINE i == exec.tick
           t == ticks[i].schedule
           spec == schedule[t].spec
           due == IF spec.kind = "once" THEN None ELSE ComputeNextDue(spec, ticks[i].fired)
           on == schedule[t].enabled /\ spec.kind # "once"
           c == schedule[t].count + 1
           new == [schedule[t] EXCEPT !.fired = ticks[i].fired, !.count = c,
                                      !.enabled = on, !.due = due]
<1>0. i \in TickIds
  BY DEF ScheduleBookkeeper, IInv, TickInv, RefsOK
<1>1. /\ ticks[i].fired \in Nat /\ t \in Schedules
      /\ schedule[t] \in Records /\ spec \in [kind : Kinds, n : Nat]
      /\ schedule \in [Schedules -> Records]
  BY <1>0, TicksTyped, SchedulesTyped DEF IInv, TickInv, TypeOK, Records
<1>2. schedule' = [schedule EXCEPT ![t] = new]
  BY DEF ScheduleBookkeeper, AdvanceFrom
<1>3. due # None /\ spec.kind = "daily" =>
        /\ due % DayLength = spec.n % DayLength
        /\ \A m \in (ticks[i].fired + 1)..(due - 1) : m % DayLength # spec.n % DayLength
  <2>1. ASSUME spec.kind = "daily"
        PROVE  /\ due = NextDaily(spec.n % DayLength, ticks[i].fired)
               /\ spec.n % DayLength \in 0..(DayLength - 1)
    BY <1>1, <2>1, ScheduleAssumption DEF ComputeNextDue
  <2> QED BY <1>1, <2>1, NextDailyIsFirst
<1>4. due # None => due > ticks[i].fired
  BY <1>1, NextDueAfter
<1> HIDE DEF due, on, c
<1>5. new.due = due /\ new.fired = ticks[i].fired /\ new.spec = spec
  BY <1>1 DEF Records
<1> HIDE DEF new, spec
<1>6. WaitsFor(new)
  BY <1>3, <1>4, <1>5 DEF WaitsFor
<1>7. schedule'[s] = IF s = t THEN new ELSE schedule[s]
  BY <1>1, <1>2
<1> QED BY <1>6, <1>7 DEF WaitsFor

LEMMA NextWaits ==
  ASSUME IInv, WaitsForTheNextMoment, [Next]_vars
  PROVE  WaitsForTheNextMoment'
<1> SUFFICES ASSUME NEW s \in Schedules PROVE WaitsFor(schedule[s])'
  BY DEF WaitsForTheNextMoment, WaitsFor
<1>0. WaitsFor(schedule[s]) /\ schedule \in [Schedules -> Records]
  BY DEF WaitsForTheNextMoment, WaitsFor, IInv, TickInv, TypeOK
<1>1. ASSUME NEW r \in Schedules, NEW spec \in Specs, NEW enabled \in BOOLEAN,
             CreateSchedule(r, spec, enabled)
      PROVE  WaitsFor(schedule[s])'
  <2>1. CASE s = r
    <3>1. schedule'[s].fired = None
      BY <1>0, <1>1, <2>1 DEF CreateSchedule
    <3> QED BY <3>1 DEF WaitsFor
  <2>2. CASE s # r
    <3>1. schedule'[s] = schedule[s]
      BY <1>0, <1>1, <2>2 DEF CreateSchedule
    <3> QED BY <1>0, <3>1 DEF WaitsFor
  <2> QED BY <2>1, <2>2
<1>2. ASSUME NEW r \in Schedules, NEW enabled \in BOOLEAN, SetScheduleEnabled(r, enabled)
      PROVE  WaitsFor(schedule[s])'
  <2>1. /\ schedule'[s].fired = schedule[s].fired /\ schedule'[s].due = schedule[s].due
        /\ schedule'[s].spec = schedule[s].spec
    BY <1>0, <1>2 DEF SetScheduleEnabled, Records
  <2> QED BY <1>0, <2>1 DEF WaitsFor
<1>3. CASE ScheduleBookkeeper
  BY <1>0, <1>3, BookedWaits
<1>4. CASE \/ StartEmit \/ (\E r \in Schedules : EmitTick(r)) \/ TickRouter
           \/ Advance \/ CrashRestart \/ UNCHANGED vars
  <2>1. schedule' = schedule
    BY <1>4 DEF StartEmit, EmitTick, TickRouter, Advance, CrashRestart, vars
  <2> QED BY <1>0, <2>1 DEF WaitsFor
<1> QED BY <1>1, <1>2, <1>3, <1>4 DEF Next, Driver

\* A schedule that was advanced waits for the first moment of its spec after the last
\* firing, for every day length: _next_daily neither passes one over nor repeats one.
THEOREM WaitsForFirst == Spec => []WaitsForTheNextMoment
<1>1. Init => WaitsForTheNextMoment
  BY DEF Init, WaitsForTheNextMoment, Absent
<1>2. IInv /\ WaitsForTheNextMoment /\ [Next]_vars => WaitsForTheNextMoment'
  BY NextWaits
<1> QED BY <1>1, <1>2, SpecInv, PTL DEF Spec
================================================================================
