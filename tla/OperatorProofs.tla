--------------------------- MODULE OperatorProofs ---------------------------
(***************************************************************************)
(* What the operator's job promises whatever its horizon, its tasks and    *)
(* however many of its writes fail: no start and no task again that is on  *)
(* record, and no start against the owner.                                 *)
(***************************************************************************)
EXTENDS Operator, TLAPS

Watching == pc \in {"watchdog", "process", "agent", "kick"}
Starting == pc \in {"started", "failed"}

\* The tasks of the day of the last tick that are on record.
OnRecord == IF done.day = DayOf(began) THEN done.tasks ELSE {}

Typed ==
  /\ now \in Nat /\ boot \in Nat /\ boot <= now
  /\ began \in Nat /\ began <= now
  /\ heartbeat.ts \in Int /\ heartbeat.ts <= now
  /\ started_at \in Int /\ started_at <= now
  /\ seen = [heartbeat |-> seen.heartbeat, boot |-> seen.boot, process |-> seen.process,
             agent |-> seen.agent, spared |-> seen.spared]
  /\ seen.heartbeat \in Int /\ seen.boot \in Int
  /\ kicks \in Nat /\ lost \in Nat /\ runs \in [Tasks -> Nat]

\* The watchdog's part is over in the stretch it began in; a tick works with a
\* copy of what is on record.
Ticking ==
  /\ power = "off" => Idle
  /\ ~Idle /\ ~ChildRuns => power = "on"
  /\ Watching \/ Starting => in_window /\ began = now
  /\ ~Idle => mine = OnRecord
  /\ pc \in {"process", "agent", "kick"} => seen.boot \in {boot, Never}

\* All attempts were lost, or the last one is on record, or about to be, or is
\* of the day before.
Recorded ==
  /\ Starting => kicks = lost + 1
  /\ ~Starting =>
       \/ kicks = lost
       \/ /\ kicks = lost + 1 /\ Stretch # SCHEDULED_START
          /\ Stretch = 0 \/ started_at >= Since \/ power = "off"

\* A bot that has run and was stopped has left a heartbeat of this boot and
\* morning, and a tick that began after that has read it or will.
Heard ==
  /\ stopped /\ power # "off" /\ Stretch # 0 => heartbeat.ts >= Since
  /\ stopped /\ power = "off" /\ Stretch = SCHEDULED_START => boot = now
  /\ seen.spared /\ Watching => heartbeat.ts >= Since
  /\ seen.spared /\ pc \in {"process", "agent", "kick"} => seen.heartbeat >= Since

\* A task that has run is on record, is to be recorded next, or its record is lost.
Listed ==
  \A t \in Tasks : runs[t] > 0 => t \in OnRecord \/ t \in torn \/ (pc = "mark" /\ t = task)

IInv == Typed /\ Ticking /\ Recorded /\ Heard /\ Listed

----------------------------------------------------------------------------
(* The clock                                                               *)

LEMMA StretchOfDay ==
  ASSUME NEW n \in Nat
  PROVE  /\ n % DayLength \in 0 .. DayLength - 1
         /\ n % DayLength <= n
         /\ (n + 1) % DayLength = IF n % DayLength = DayLength - 1 THEN 0 ELSE (n % DayLength) + 1
  BY SMT DEF DayLength

LEMMA DayOfDay ==
  ASSUME NEW n \in Nat
  PROVE  DayOf(n) \in Nat /\ DayOf(n) <= n /\ DayOf(DayOf(n)) = DayOf(n)
<1>1. /\ n % DayLength \in 0 .. DayLength - 1
      /\ n % DayLength <= n
  BY StretchOfDay
<1>2. (n - (n % DayLength)) % DayLength = 0
  BY SMT DEF DayLength
<1> QED
  BY <1>1, <1>2 DEF DayOf, DayLength

LEMMA InitHolds == Init => IInv
  BY StretchOfDay
     DEF Init, IInv, Typed, Watching, Starting, Ticking, Recorded, Heard, Listed, OnRecord,
         Unread, Never, Idle, DayLength

\* The same moment on the same boot: nothing the code compares with it moves.
LEMMA SameClock ==
  ASSUME Typed, UNCHANGED << now, boot >>
  PROVE  /\ Stretch' = Stretch /\ Since' = Since /\ (in_window' <=> in_window)
         /\ Stretch \in 0 .. 6 /\ Since \in Int
         /\ Stretch # 0 => Since <= now
  BY StretchOfDay DEF Typed, Stretch, Since, in_window, scheduled_start, DayLength,
     SCHEDULED_START

LEMMA WindowIsLate == in_window => Stretch # 0 /\ Stretch # SCHEDULED_START
  BY DEF in_window, WINDOW_START, SCHEDULED_START

\* Nothing of the tasks or their record has changed.
LEMMA SameRecord ==
  ASSUME UNCHANGED << began, done >>
  PROVE  OnRecord' = OnRecord
  BY DEF OnRecord, DayOf

LEMMA AdvanceKeeps == IInv /\ Advance => IInv'
<1> SUFFICES ASSUME IInv, Advance PROVE IInv'
    OBVIOUS
<1> USE DEF Advance, agents, process
<1>1. /\ now' = now + 1 /\ now \in Nat
      /\ Stretch \in 0 .. 6 /\ Stretch <= now
      /\ Stretch' = IF Stretch = 6 THEN 0 ELSE Stretch + 1
  BY StretchOfDay DEF IInv, Typed, Stretch, DayLength
<1>2. Stretch' # 0 => scheduled_start' = scheduled_start
  BY <1>1 DEF scheduled_start
<1>3. ~Watching /\ ~Starting /\ ~Watching' /\ ~Starting' /\ (Idle' <=> Idle)
  BY DEF Idle, ChildRuns, Watching, Starting
<1>4. Typed'
  BY <1>1 DEF IInv, Typed
<1>5. Ticking'
  BY <1>3, SameRecord DEF IInv, Ticking, Idle, ChildRuns
<1>6. Recorded'
  BY <1>1, <1>2, <1>3 DEF IInv, Typed, Recorded, Since, SCHEDULED_START, Stretch
<1>7. Heard'
  BY <1>1, <1>2, <1>3 DEF IInv, Typed, Heard, Since, SCHEDULED_START, Stretch, Watching
<1>8. Listed'
  BY SameRecord DEF IInv, Listed
<1> QED
  BY <1>4, <1>5, <1>6, <1>7, <1>8 DEF IInv

----------------------------------------------------------------------------
(* The machine                                                             *)

LEMMA SleepWakeKeeps == IInv /\ (Sleep \/ Wake) => IInv'
<1> SUFFICES ASSUME IInv, Sleep \/ Wake PROVE IInv'
    OBVIOUS
<1> USE DEF Sleep, Wake, agents, process, operator, records, history
<1>1. /\ Stretch' = Stretch /\ Since' = Since /\ (in_window' <=> in_window)
      /\ OnRecord' = OnRecord
  BY SameClock, SameRecord DEF IInv
<1>2. Typed' /\ Listed'
  BY <1>1 DEF IInv, Typed, Listed
<1>3. Ticking'
  BY <1>1 DEF IInv, Ticking, Watching, Starting, Idle, ChildRuns
<1>4. Recorded'
  BY <1>1 DEF IInv, Recorded, Starting
<1>5. Heard'
  BY <1>1 DEF IInv, Heard, Watching
<1> QED
  BY <1>2, <1>3, <1>4, <1>5 DEF IInv

\* A tick that is cut short leaves no attempt and no task unaccounted for.
LEMMA CutAccounts ==
  ASSUME IInv, TickCut, UNCHANGED << kicks, runs, done >>
  PROVE  /\ kicks' \in Nat /\ lost' \in Nat /\ runs' \in [Tasks -> Nat]
         /\ began' \in Nat /\ began' <= began
         /\ Idle' /\ ~Watching' /\ ~Starting'
         /\ kicks' = lost' \/ (~Starting /\ kicks' = kicks /\ lost' = lost)
         /\ Listed'
<1> USE DEF TickCut
<1>1. kicks' \in Nat /\ lost' \in Nat /\ runs' \in [Tasks -> Nat]
  BY DEF IInv, Typed
<1>2. began' \in Nat /\ began' <= began /\ OnRecord' = OnRecord
  BY DayOfDay DEF IInv, Typed, OnRecord
<1>3. Idle' /\ ~Watching' /\ ~Starting'
  BY DEF Idle, Watching, Starting
<1>4. kicks' = lost' \/ (~Starting /\ kicks' = kicks /\ lost' = lost)
  BY DEF IInv, Recorded, Starting
<1>5. Listed'
  BY <1>2 DEF IInv, Listed
<1> QED
  BY <1>1, <1>2, <1>3, <1>4, <1>5

LEMMA PowerLossKeeps == IInv /\ PowerLoss => IInv'
<1> SUFFICES ASSUME IInv, PowerLoss PROVE IInv'
    OBVIOUS
<1> USE DEF PowerLoss, records
<1>1. Stretch' = Stretch
  BY DEF Stretch
<1>2. /\ kicks' \in Nat /\ lost' \in Nat /\ runs' \in [Tasks -> Nat]
      /\ began' \in Nat /\ began' <= began
      /\ Idle' /\ ~Watching' /\ ~Starting'
      /\ kicks' = lost' \/ (~Starting /\ kicks' = kicks /\ lost' = lost)
      /\ Listed'
  BY CutAccounts
<1>3. Typed'
  BY <1>2 DEF IInv, Typed, TickCut, Unread, Never
<1>4. Ticking'
  BY <1>2 DEF Ticking, Idle
<1>5. Recorded'
  BY <1>1, <1>2 DEF IInv, Recorded
<1>6. Heard'
  BY <1>2 DEF Heard, TickCut
<1> QED
  BY <1>2, <1>3, <1>4, <1>5, <1>6 DEF IInv

\* A boot after the morning's start begins a new account; one at that moment
\* cannot be, for the power went earlier; one before it leaves it to Advance.
LEMMA BootKeeps == IInv /\ Boot => IInv'
<1> SUFFICES ASSUME IInv, Boot PROVE IInv'
    OBVIOUS
<1> USE DEF Boot, operator, records
<1>1. /\ Stretch' = Stretch /\ Stretch \in 0 .. 6 /\ now \in Nat
      /\ now = scheduled_start <=> Stretch = SCHEDULED_START
      /\ now > scheduled_start <=> Stretch > SCHEDULED_START
  BY StretchOfDay DEF IInv, Typed, Stretch, scheduled_start, DayLength, SCHEDULED_START
<1>2. Idle /\ ~Watching' /\ ~Starting' /\ ~Starting /\ OnRecord' = OnRecord
  BY SameRecord DEF IInv, Ticking, Idle, Watching, Starting
<1>3. Typed'
  BY DEF IInv, Typed
<1>4. Ticking'
  BY <1>2 DEF Ticking, Idle
<1>5. Recorded'
  BY <1>1, <1>2 DEF IInv, Recorded, SCHEDULED_START
<1>6. Heard'
  BY <1>1, <1>2 DEF IInv, Typed, Heard, Idle, SCHEDULED_START
<1>7. Listed'
  BY <1>2 DEF IInv, Listed
<1> QED
  BY <1>3, <1>4, <1>5, <1>6, <1>7 DEF IInv

----------------------------------------------------------------------------
(* launchd, the owner and the bot                                          *)

Around ==
  \/ CalendarStart \/ Relaunch \/ OwnerStops \/ OwnerInstalls \/ OwnerRemoves \/ InstallBot
  \/ run \/ Waits \/ _tick \/ EndsItsDay \/ BotCrashes

\* What they leave alone.  The heartbeat stays or becomes one of this moment.
LEMMA AroundLeaves ==
  ASSUME Around
  PROVE  UNCHANGED << now, power, boot, pc, began, seen, mine, task, started_at, done,
                      kicks, lost, runs, torn >>
  BY DEF Around, CalendarStart, Relaunch, OwnerStops, OwnerInstalls, OwnerRemoves, BootOutBot,
     InstallBot, run, Waits, _tick, EndsItsDay, BotCrashes, machine, operator, records, history

LEMMA AroundBeats ==
  ASSUME Around
  PROVE  heartbeat' \in {heartbeat, [ts |-> now, waiting |-> TRUE], [ts |-> now, waiting |-> FALSE]}
  BY DEF Around, CalendarStart, Relaunch, OwnerStops, OwnerInstalls, OwnerRemoves, BootOutBot,
     InstallBot, run, Waits, _tick, EndsItsDay, BotCrashes, _wait_until

LEMMA AroundStops ==
  ASSUME Around, stopped'
  PROVE  stopped \/ (heartbeat' = heartbeat /\ heartbeat.ts >= Since /\ power = "on")
<1>1. CASE OwnerStops \/ OwnerInstalls \/ OwnerRemoves
  BY <1>1 DEF OwnerStops, OwnerInstalls, OwnerRemoves, BootOutBot, Stopped
<1>2. CASE ~(OwnerStops \/ OwnerInstalls \/ OwnerRemoves)
  <2>1. UNCHANGED stopped
    BY <1>2 DEF Around, CalendarStart, Relaunch, InstallBot, run, Waits, _tick, EndsItsDay,
       BotCrashes, history
  <2> QED
    BY <2>1
<1> QED
  BY <1>1, <1>2

LEMMA AroundKeeps == IInv /\ Around => IInv'
<1> SUFFICES ASSUME IInv, Around PROVE IInv'
    OBVIOUS
<1>1. /\ Stretch' = Stretch /\ Since' = Since /\ (in_window' <=> in_window)
      /\ Stretch # 0 => Since <= now
      /\ Since \in Int /\ OnRecord' = OnRecord
  BY SameClock, SameRecord, AroundLeaves DEF IInv
<1>2. Typed'
  BY AroundLeaves, AroundBeats DEF IInv, Typed
<1>3. Ticking' /\ Recorded' /\ Listed'
  BY <1>1, AroundLeaves DEF IInv, Ticking, Watching, Starting, Idle, ChildRuns, Recorded, Listed
<1>4. Watching => Stretch # 0
  BY WindowIsLate DEF IInv, Ticking
<1>5. Heard'
  <2>1. /\ heartbeat.ts \in Int /\ heartbeat'.ts \in Int
        /\ Stretch # 0 /\ heartbeat.ts >= Since => heartbeat'.ts >= Since
    BY <1>1, AroundBeats DEF IInv, Typed
  <2>2. stopped' => stopped \/ (power = "on" /\ heartbeat'.ts >= Since)
    BY AroundStops
  <2> QED
    BY <1>1, <1>4, <2>1, <2>2, AroundLeaves DEF IInv, Heard, Watching
<1> QED
  BY <1>2, <1>3, <1>5 DEF IInv

----------------------------------------------------------------------------
(* The operator's tick                                                     *)

\* The agent is replaced or a task's record raises: the tick is over.
LEMMA CutKeeps == IInv /\ (ReplaceJob \/ MarkRaises) => IInv'
<1> SUFFICES ASSUME IInv, ReplaceJob \/ MarkRaises PROVE IInv'
    OBVIOUS
<1> USE DEF machine, process, records
<1>1. /\ TickCut
      /\ UNCHANGED << now, power, boot, heartbeat, started_at, done, kicks, stopped, runs >>
  BY DEF ReplaceJob, MarkRaises
<1>2. /\ Stretch' = Stretch /\ Since' = Since
  BY <1>1, SameClock DEF IInv
<1>3. /\ kicks' \in Nat /\ lost' \in Nat /\ runs' \in [Tasks -> Nat]
      /\ began' \in Nat /\ began' <= began
      /\ Idle' /\ ~Watching' /\ ~Starting'
      /\ kicks' = lost' \/ (~Starting /\ kicks' = kicks /\ lost' = lost)
      /\ Listed'
  BY <1>1, CutAccounts
<1>4. Typed'
  BY <1>1, <1>3 DEF IInv, Typed, TickCut, Unread, Never
<1>5. Ticking'
  BY <1>3 DEF Ticking, Idle
<1>6. Recorded'
  BY <1>1, <1>2, <1>3 DEF IInv, Recorded
<1>7. Heard'
  BY <1>1, <1>2, <1>3 DEF IInv, Heard, TickCut
<1> QED
  BY <1>3, <1>4, <1>5, <1>6, <1>7 DEF IInv

LEMMA NothingRead ==
  ASSUME NEW spared, NEW t,
         t = [heartbeat |-> Never, boot |-> Never, process |-> TRUE, agent |-> FALSE,
              spared |-> spared]
  PROVE  /\ t = [heartbeat |-> t.heartbeat, boot |-> t.boot, process |-> t.process,
                 agent |-> t.agent, spared |-> t.spared]
         /\ t.heartbeat \in Int /\ t.boot \in Int
  BY DEF Never

\* Its copy is of its own day; what is counted of another day is dropped.
LEMMA TickBeginsKeeps == IInv /\ TickBegins => IInv'
<1> SUFFICES ASSUME IInv, TickBegins PROVE IInv'
    OBVIOUS
<1> USE DEF TickBegins, machine, process, records
<1>1. /\ Stretch' = Stretch /\ Since' = Since /\ (in_window' <=> in_window)
  BY SameClock DEF IInv
<1>2. in_window => Stretch # 0
  BY WindowIsLate
<1>3. CASE Upset /\ UNCHANGED << began, seen, mine, pc, runs, torn >>
  <2>1. OnRecord' = OnRecord
    BY <1>3, SameRecord
  <2> QED
    BY <1>1, <1>3, <2>1 DEF IInv, Typed, Ticking, Watching, Starting, Idle, ChildRuns, Recorded,
       Heard, Listed
<1>4. CASE ~(Upset /\ UNCHANGED << began, seen, mine, pc, runs, torn >>)
  <2>1. /\ began' = now /\ seen' = [Unread EXCEPT !.spared = stopped /\ in_window]
        /\ mine' = (IF done.day = DayOf(now) THEN done.tasks ELSE {})
        /\ pc' = IF Watchdog /\ in_window THEN "watchdog" ELSE "health"
        /\ IF DayOf(began) = DayOf(now) THEN UNCHANGED << runs, torn >>
                                        ELSE runs' = [t \in Tasks |-> 0] /\ torn' = {}
    BY <1>4
  <2>2. /\ seen' = [heartbeat |-> Never, boot |-> Never, process |-> TRUE, agent |-> FALSE,
                    spared |-> stopped /\ in_window]
    BY <2>1 DEF Unread
  <2>3. Typed'
    <3>1. runs' \in [Tasks -> Nat]
      BY <2>1 DEF IInv, Typed
    <3>2. /\ seen' = [heartbeat |-> seen'.heartbeat, boot |-> seen'.boot,
                      process |-> seen'.process, agent |-> seen'.agent, spared |-> seen'.spared]
          /\ seen'.heartbeat \in Int /\ seen'.boot \in Int
      BY <2>2, NothingRead
    <3>3. now' = now /\ boot' = boot /\ heartbeat' = heartbeat /\ started_at' = started_at
          /\ kicks' = kicks /\ lost' = lost /\ began' = now
      BY <2>1
    <3> QED
      BY <3>1, <3>2, <3>3 DEF IInv, Typed
  <2>4. OnRecord' = IF done.day = DayOf(now) THEN done.tasks ELSE {}
    BY <2>1 DEF OnRecord
  <2>5. Ticking'
    BY <1>1, <2>1, <2>4 DEF IInv, Ticking, Watching, Starting, Idle, ChildRuns
  <2>6. Recorded'
    BY <1>1, <2>1 DEF IInv, Recorded, Starting, Idle
  <2>7. Heard'
    BY <1>1, <1>2, <2>1, <2>2 DEF IInv, Heard, Watching
  <2>8. Listed'
    <3>1. CASE DayOf(began) = DayOf(now)
      BY <2>1, <2>4, <3>1 DEF IInv, Listed, OnRecord, Idle
    <3>2. CASE DayOf(began) # DayOf(now)
      BY <2>1, <3>2 DEF Listed
    <3> QED
      BY <3>1, <3>2
  <2> QED
    BY <2>3, <2>5, <2>6, <2>7, <2>8 DEF IInv
<1> QED
  BY <1>3, <1>4

LEMMA HeartbeatRead ==
  ASSUME NEW s, NEW h, NEW b, NEW t,
         s = [heartbeat |-> s.heartbeat, boot |-> s.boot, process |-> s.process,
              agent |-> s.agent, spared |-> s.spared],
         t = [s EXCEPT !.heartbeat = h, !.boot = b]
  PROVE  t = [heartbeat |-> h, boot |-> b, process |-> s.process, agent |-> s.agent,
              spared |-> s.spared]
  OBVIOUS

LEMMA AnswerRead ==
  ASSUME NEW s, NEW a, NEW t,
         s = [heartbeat |-> s.heartbeat, boot |-> s.boot, process |-> s.process,
              agent |-> s.agent, spared |-> s.spared],
         t = [s EXCEPT !.process = a] \/ t = [s EXCEPT !.agent = a]
  PROVE  /\ t = [heartbeat |-> t.heartbeat, boot |-> t.boot, process |-> t.process,
                 agent |-> t.agent, spared |-> t.spared]
         /\ t.heartbeat = s.heartbeat /\ t.boot = s.boot /\ t.spared = s.spared
  OBVIOUS

\* What the watchdog reads is of this moment, or missing.
LEMMA ReadsKeep == IInv /\ (ReadHeartbeat \/ bot_process_running \/ agent_loaded) => IInv'
<1> SUFFICES ASSUME IInv, ReadHeartbeat \/ bot_process_running \/ agent_loaded PROVE IInv'
    OBVIOUS
<1> USE DEF machine, process, records, history
<1>1. /\ UNCHANGED << now, power, boot, heartbeat, began, mine, task, started_at, done, kicks,
                      lost, stopped, runs, torn >>
      /\ Watching /\ Watching' /\ ~Starting /\ ~Starting' /\ ~Idle /\ ~Idle'
      /\ ~ChildRuns /\ pc' # "mark"
  BY DEF ReadHeartbeat, bot_process_running, agent_loaded, Watching, Starting, Idle, ChildRuns
<1>2. /\ Stretch' = Stretch /\ Since' = Since /\ (in_window' <=> in_window)
      /\ OnRecord' = OnRecord
  BY <1>1, SameClock, SameRecord DEF IInv
<1>3. /\ Typed'
      /\ seen'.spared = seen.spared
      /\ seen'.boot \in {boot, Never}
      /\ seen.spared => seen'.heartbeat >= Since
  <2>1. CASE ReadHeartbeat
    <3>1. PICK b \in ProbeBoot : seen' = [seen EXCEPT !.heartbeat = heartbeat.ts, !.boot = b]
      BY <2>1 DEF ReadHeartbeat
    <3>2. seen' = [heartbeat |-> heartbeat.ts, boot |-> b, process |-> seen.process,
                   agent |-> seen.agent, spared |-> seen.spared]
      BY <3>1, HeartbeatRead DEF IInv, Typed
    <3>3. /\ seen'.heartbeat = heartbeat.ts /\ seen'.boot = b /\ seen'.spared = seen.spared
          /\ seen'.process = seen.process /\ seen'.agent = seen.agent
      BY <3>2
    <3>4. b \in {boot, Never} /\ b \in Int
      BY DEF ProbeBoot, IInv, Typed, Never
    <3> QED
      BY <1>1, <3>2, <3>3, <3>4 DEF IInv, Typed, Heard
  <2>2. CASE bot_process_running \/ agent_loaded
    <3>1. PICK a : seen' = [seen EXCEPT !.process = a] \/ seen' = [seen EXCEPT !.agent = a]
      BY <2>2 DEF bot_process_running, agent_loaded
    <3>2. /\ seen' = [heartbeat |-> seen'.heartbeat, boot |-> seen'.boot,
                      process |-> seen'.process, agent |-> seen'.agent, spared |-> seen'.spared]
          /\ seen'.heartbeat = seen.heartbeat /\ seen'.boot = seen.boot
          /\ seen'.spared = seen.spared
      BY <3>1, AnswerRead DEF IInv, Typed
    <3>3. pc \in {"process", "agent"}
      BY <2>2 DEF bot_process_running, agent_loaded
    <3>4. Typed'
      BY <1>1, <3>2 DEF IInv, Typed
    <3> QED
      BY <1>1, <3>2, <3>3, <3>4 DEF IInv, Ticking, Heard
  <2> QED
    BY <2>1, <2>2
<1>4. Ticking'
  BY <1>1, <1>2, <1>3 DEF IInv, Ticking
<1>5. Recorded'
  BY <1>1, <1>2 DEF IInv, Recorded
<1>6. Heard'
  BY <1>1, <1>2, <1>3 DEF IInv, Heard
<1>7. Listed'
  BY <1>1, <1>2 DEF IInv, Listed, Watching
<1> QED
  BY <1>3, <1>4, <1>5, <1>6, <1>7 DEF IInv

\* What ends the watchdog's part without a record: nothing was started, or the
\* attempt is lost.
LEMMA NoRecordKeeps == IInv /\ (WatchdogRaises \/ NoStart \/ RecordRaises) => IInv'
<1> SUFFICES ASSUME IInv, WatchdogRaises \/ NoStart \/ RecordRaises PROVE IInv'
    OBVIOUS
<1> USE DEF machine, process, records, history
<1>1. /\ UNCHANGED << now, power, boot, heartbeat, began, mine, task, started_at, done, kicks,
                      stopped, runs, torn >>
      /\ pc' = "health" /\ seen' = Unread
      /\ ~Watching' /\ ~Starting' /\ ~Idle /\ ~ChildRuns /\ pc # "mark"
      /\ lost' = IF Starting THEN lost + 1 ELSE lost
  BY DEF WatchdogRaises, NoStart, RecordRaises, Watching, Starting, Idle, ChildRuns
<1>2. /\ Stretch' = Stretch /\ Since' = Since /\ (in_window' <=> in_window)
      /\ OnRecord' = OnRecord
  BY <1>1, SameClock, SameRecord DEF IInv
<1>3. Typed'
  BY <1>1 DEF IInv, Typed, Unread, Never
<1>4. Ticking'
  BY <1>1, <1>2 DEF IInv, Ticking, Idle, ChildRuns
<1>5. Recorded'
  BY <1>1, <1>2 DEF IInv, Recorded
<1>6. Heard'
  BY <1>1, <1>2 DEF IInv, Heard
<1>7. Listed'
  BY <1>1, <1>2 DEF IInv, Listed
<1> QED
  BY <1>3, <1>4, <1>5, <1>6, <1>7 DEF IInv

\* Whether the boot time could be read or not, the tick asks for no later a
\* record or heartbeat than the boot and the morning do.
LEMMA AsksForLess ==
  ASSUME Typed, seen.boot \in {boot, Never}
  PROVE  SinceOf(seen.boot) <= Since /\ SinceOf(seen.boot) \in Int /\ Since \in Int
  BY StretchOfDay DEF Typed, SinceOf, Since, scheduled_start, Stretch, Never, DayLength,
     SCHEDULED_START

\* A tick starts the bot only if no attempt is on record, and never one that was
\* stopped before the tick began.
LEMMA UnrecordedAndAllowed ==
  ASSUME IInv, kickstart
  PROVE  kicks = lost /\ ~seen.spared
<1>1. /\ pc = "kick" /\ in_window
      /\ ~(seen.heartbeat >= SinceOf(seen.boot)) /\ ~(started_at >= SinceOf(seen.boot))
  BY DEF kickstart, decide, HasRun, AlreadyTried
<1>2. power = "on" /\ ~Starting
  BY <1>1 DEF IInv, Ticking, Idle, ChildRuns, Starting
<1>3. /\ SinceOf(seen.boot) <= Since /\ SinceOf(seen.boot) \in Int /\ Since \in Int
  BY <1>1, AsksForLess DEF IInv, Ticking
<1>4. ~(seen.heartbeat >= Since) /\ ~(started_at >= Since)
  BY <1>1, <1>3 DEF IInv, Typed
<1>5. Stretch # 0
  BY <1>1, WindowIsLate
<1> QED
  BY <1>1, <1>2, <1>4, <1>5 DEF IInv, Recorded, Heard

LEMMA KickstartKeeps == IInv /\ kickstart => IInv'
<1> SUFFICES ASSUME IInv, kickstart PROVE IInv'
    OBVIOUS
<1> USE DEF kickstart, machine, records
<1>1. /\ UNCHANGED << now, power, boot, heartbeat, began, seen, mine, task, started_at, done,
                      lost, stopped, runs, torn >>
      /\ kicks' = kicks + 1
      /\ Watching /\ Starting' /\ ~Watching' /\ ~Idle /\ ~ChildRuns /\ ~Idle' /\ pc # "mark"
  BY DEF Watching, Starting, Idle, ChildRuns
<1>2. /\ Stretch' = Stretch /\ Since' = Since /\ (in_window' <=> in_window)
      /\ OnRecord' = OnRecord
  BY <1>1, SameClock, SameRecord DEF IInv
<1>3. Typed'
  BY <1>1 DEF IInv, Typed
<1>4. Ticking'
  BY <1>1, <1>2 DEF IInv, Ticking, Starting
<1>5. Recorded'
  BY <1>1, UnrecordedAndAllowed DEF Recorded
<1>6. Heard'
  BY <1>1, <1>2 DEF IInv, Heard, Starting
<1>7. Listed'
  BY <1>1, <1>2 DEF IInv, Listed
<1> QED
  BY <1>3, <1>4, <1>5, <1>6, <1>7 DEF IInv

LEMMA RecordStartKeeps == IInv /\ RecordStart => IInv'
<1> SUFFICES ASSUME IInv, RecordStart PROVE IInv'
    OBVIOUS
<1> USE DEF RecordStart, machine, process, history
<1>1. /\ UNCHANGED << now, power, boot, heartbeat, began, mine, task, done, kicks, lost,
                      stopped, runs, torn >>
      /\ pc' \in {"tasks", "health"} /\ seen' = Unread /\ started_at' = began
      /\ Starting /\ ~Watching' /\ ~Starting' /\ ~Idle /\ ~ChildRuns /\ pc # "mark"
  BY DEF Watching, Starting, Idle, ChildRuns
<1>2. /\ Stretch' = Stretch /\ Since' = Since /\ (in_window' <=> in_window)
      /\ Stretch # 0 => Since <= now
      /\ OnRecord' = OnRecord
  BY <1>1, SameClock, SameRecord DEF IInv
<1>3. began = now /\ Stretch # 0 /\ Stretch # SCHEDULED_START
  BY <1>1, WindowIsLate DEF IInv, Ticking
<1>4. Typed'
  BY <1>1, <1>3 DEF IInv, Typed, Unread, Never
<1>5. Ticking'
  BY <1>1, <1>2 DEF IInv, Ticking, Idle, ChildRuns
<1>6. Recorded'
  BY <1>1, <1>2, <1>3 DEF IInv, Typed, Recorded
<1>7. Heard'
  BY <1>1, <1>2 DEF IInv, Heard
<1>8. Listed'
  BY <1>1, <1>2 DEF IInv, Listed
<1> QED
  BY <1>4, <1>5, <1>6, <1>7, <1>8 DEF IInv

\* What the rest of the tick leaves to the watchdog.
LEMMA RestKeeps ==
  ASSUME IInv,
         UNCHANGED << now, power, boot, heartbeat, started_at, kicks, lost, stopped, seen >>,
         ~Watching, ~Starting, ~Watching', ~Starting'
  PROVE  Recorded' /\ Heard'
<1>1. /\ Stretch' = Stretch /\ Since' = Since
  BY SameClock DEF IInv
<1> QED
  BY <1>1 DEF IInv, Recorded, Heard, Watching

LEMMA CheckKeeps == IInv /\ (check_alerts \/ CheckFails) => IInv'
<1> SUFFICES ASSUME IInv, check_alerts \/ CheckFails PROVE IInv'
    OBVIOUS
<1> USE DEF machine, process, records, history
<1>1. /\ UNCHANGED << now, power, boot, heartbeat, began, seen, mine, task, started_at, done,
                      kicks, lost, stopped, runs, torn >>
      /\ pc = "health" /\ pc' = "tasks" /\ power = "on"
      /\ ~Watching /\ ~Starting /\ ~Watching' /\ ~Starting'
  BY DEF check_alerts, CheckFails, Watching, Starting
<1>2. OnRecord' = OnRecord
  BY <1>1, SameRecord
<1>3. Recorded' /\ Heard'
  BY <1>1, RestKeeps
<1>4. Typed' /\ Ticking' /\ Listed'
  BY <1>1, <1>2 DEF IInv, Typed, Ticking, Idle, Listed
<1> QED
  BY <1>3, <1>4 DEF IInv

\* The copy a tick works with is the record itself, so of a task that is due any
\* earlier run is lost to the record.
LEMMA DueIsUnrecorded ==
  ASSUME IInv, RunTask, NEW t \in Tasks, runs'[t] > runs[t]
  PROVE  runs[t] = 0 \/ t \in torn
<1>1. PICK u \in due_tasks : runs' = [runs EXCEPT ![u] = @ + 1]
  BY DEF RunTask
<1>2. t = u
  BY <1>1 DEF IInv, Typed
<1>3. t \notin OnRecord /\ pc # "mark"
  BY <1>1, <1>2 DEF RunTask, IInv, Ticking, Idle, due_tasks
<1> QED
  BY <1>3 DEF IInv, Listed, Typed

LEMMA RunTaskKeeps == IInv /\ RunTask => IInv'
<1> SUFFICES ASSUME IInv, RunTask PROVE IInv'
    OBVIOUS
<1> USE DEF machine, process, records
<1>1. /\ UNCHANGED << now, power, boot, heartbeat, began, seen, mine, started_at, done, kicks,
                      lost, stopped, torn >>
      /\ pc = "tasks" /\ pc' = "mark"
      /\ ~Watching /\ ~Starting /\ ~Watching' /\ ~Starting'
  BY DEF RunTask, Watching, Starting
<1>2. PICK t \in Tasks : task' = t /\ runs' = [runs EXCEPT ![t] = @ + 1]
  BY DEF RunTask, due_tasks
<1>3. OnRecord' = OnRecord
  BY <1>1, SameRecord
<1>4. Recorded' /\ Heard'
  BY <1>1, RestKeeps
<1>5. Typed' /\ Ticking'
  BY <1>1, <1>2, <1>3 DEF IInv, Typed, Ticking, Idle, ChildRuns
<1>6. Listed'
  BY <1>1, <1>2, <1>3 DEF IInv, Typed, Listed
<1> QED
  BY <1>4, <1>5, <1>6 DEF IInv

LEMMA MarkTaskKeeps == IInv /\ MarkTask => IInv'
<1> SUFFICES ASSUME IInv, MarkTask PROVE IInv'
    OBVIOUS
<1> USE DEF machine, process
<1>1. /\ UNCHANGED << now, power, boot, heartbeat, began, seen, started_at, kicks, lost, stopped,
                      runs >>
      /\ pc = "mark" /\ pc' = "tasks" /\ power = "on"
      /\ mine' = mine \cup {task} /\ done' = [day |-> DayOf(began), tasks |-> mine']
      /\ torn' = torn \ {task}
      /\ ~Watching /\ ~Starting /\ ~Watching' /\ ~Starting'
  BY DEF MarkTask, Watching, Starting
<1>2. OnRecord' = mine' /\ mine = OnRecord
  BY <1>1 DEF OnRecord, DayOf, IInv, Ticking, Idle
<1>3. Recorded' /\ Heard'
  BY <1>1, RestKeeps
<1>4. Typed' /\ Ticking'
  BY <1>1, <1>2 DEF IInv, Typed, Ticking, Idle
<1>5. Listed'
  BY <1>1, <1>2 DEF IInv, Listed
<1> QED
  BY <1>3, <1>4, <1>5 DEF IInv

LEMMA TickEndsKeeps == IInv /\ TickEnds => IInv'
<1> SUFFICES ASSUME IInv, TickEnds PROVE IInv'
    OBVIOUS
<1> USE DEF machine, process, records, history
<1>1. /\ UNCHANGED << now, power, boot, heartbeat, seen, task, started_at, done, kicks, lost,
                      stopped, runs, torn >>
      /\ pc = "tasks" /\ pc' = "idle" /\ began' = DayOf(began)
      /\ ~Watching /\ ~Starting /\ ~Watching' /\ ~Starting'
  BY DEF TickEnds, Watching, Starting
<1>2. began' \in Nat /\ began' <= began /\ OnRecord' = OnRecord
  BY <1>1, DayOfDay DEF IInv, Typed, OnRecord
<1>3. Recorded' /\ Heard'
  BY <1>1, RestKeeps
<1>4. Typed' /\ Ticking' /\ Listed'
  BY <1>1, <1>2 DEF IInv, Typed, Ticking, Idle, Listed
<1> QED
  BY <1>3, <1>4 DEF IInv

LEMMA StutterKeeps == IInv /\ UNCHANGED vars => IInv'
  BY DEF vars, IInv, Typed, Ticking, Watching, Starting, Idle, ChildRuns, Recorded, Heard, Listed,
     OnRecord, DayOf, Since, scheduled_start, Stretch, in_window

----------------------------------------------------------------------------
(* The theorems                                                            *)

LEMMA NextKeeps == IInv /\ [Next]_vars => IInv'
<1> SUFFICES ASSUME IInv, [Next]_vars PROVE IInv'
    OBVIOUS
<1>1. CASE Advance
  BY <1>1, AdvanceKeeps
<1>2. CASE Sleep \/ Wake
  BY <1>2, SleepWakeKeeps
<1>3. CASE PowerLoss
  BY <1>3, PowerLossKeeps
<1>4. CASE Boot
  BY <1>4, BootKeeps
<1>5. CASE Around
  BY <1>5, AroundKeeps
<1>6. CASE ReplaceJob \/ MarkRaises
  BY <1>6, CutKeeps
<1>7. CASE TickBegins
  BY <1>7, TickBeginsKeeps
<1>8. CASE WatchdogStep
  BY <1>8, ReadsKeep, NoRecordKeeps, KickstartKeeps, RecordStartKeeps DEF WatchdogStep
<1>9. CASE check_alerts \/ CheckFails \/ RunTask \/ MarkTask \/ TickEnds
  BY <1>9, CheckKeeps, RunTaskKeeps, MarkTaskKeeps, TickEndsKeeps
<1>10. CASE UNCHANGED vars
  BY <1>10, StutterKeeps
<1> QED
  BY <1>1, <1>2, <1>3, <1>4, <1>5, <1>6, <1>7, <1>8, <1>9, <1>10 DEF Next, Around, TickStep

\* Every state the operator's tick, the machine, launchd, the owner and the bot
\* can reach satisfies IInv, whatever the tasks and however many days.
THEOREM Inductive == Spec => []IInv
  BY InitHolds, NextKeeps, PTL DEF Spec

\* No other step counts an attempt.
LEMMA OnlyKickstart ==
  ASSUME IInv, [Next]_vars, kicks' > kicks
  PROVE  kickstart
<1>1. kicks \in Nat
  BY DEF IInv, Typed
<1>2. kicks' = kicks \/ kicks' = 0 \/ kickstart
  <2>1. CASE Advance \/ Boot
    BY <2>1 DEF Advance, Boot
  <2>2. CASE Around
    BY <2>2, AroundLeaves
  <2>3. CASE Sleep \/ Wake \/ PowerLoss \/ ReplaceJob \/ TickBegins
    BY <2>3 DEF Sleep, Wake, PowerLoss, ReplaceJob, TickBegins, history
  <2>4. CASE TickStep
    BY <2>4 DEF TickStep, WatchdogStep, ReadHeartbeat, WatchdogRaises, bot_process_running,
       agent_loaded, NoStart, RecordStart, RecordRaises, check_alerts, CheckFails, RunTask,
       MarkTask, MarkRaises, TickEnds, history
  <2>5. CASE UNCHANGED vars
    BY <2>5 DEF vars
  <2> QED
    BY <2>1, <2>2, <2>3, <2>4, <2>5 DEF Next, Around
<1> QED
  BY <1>1, <1>2

\* No other step runs a task.
LEMMA OnlyRunTask ==
  ASSUME IInv, [Next]_vars, NEW t \in Tasks, runs'[t] > runs[t]
  PROVE  RunTask
<1>1. runs[t] \in Nat
  BY DEF IInv, Typed
<1>2. runs' = runs \/ runs' = [u \in Tasks |-> 0] \/ RunTask
  <2>1. CASE Advance \/ Boot \/ TickBegins
    BY <2>1 DEF Advance, Boot, TickBegins
  <2>2. CASE Around
    BY <2>2, AroundLeaves
  <2>3. CASE Sleep \/ Wake \/ PowerLoss \/ ReplaceJob
    BY <2>3 DEF Sleep, Wake, PowerLoss, ReplaceJob, history
  <2>4. CASE TickStep
    BY <2>4 DEF TickStep, WatchdogStep, ReadHeartbeat, WatchdogRaises, bot_process_running,
       agent_loaded, kickstart, NoStart, RecordStart, RecordRaises, check_alerts, CheckFails,
       MarkTask, MarkRaises, TickEnds, history
  <2>5. CASE UNCHANGED vars
    BY <2>5 DEF vars
  <2> QED
    BY <2>1, <2>2, <2>3, <2>4, <2>5 DEF Next, Around
<1> QED
  BY <1>1, <1>2

\* watchdog: within a boot or morning the bot is started again only if no attempt
\* so far is on record, whatever could not be read, wherever the power went and
\* whichever writes failed.
THEOREM NoRetryOnRecord == Spec => RetriedIfLost
<1>1. IInv /\ [Next]_vars => [kicks' > kicks => kicks = lost]_vars
  BY OnlyKickstart, UnrecordedAndAllowed
<1> QED
  BY Inductive, <1>1, PTL DEF Spec, RetriedIfLost

\* dispatch: a task runs again, on the day its tick began, only if its last run
\* never got on record.
THEOREM NoRerunOnRecord == Spec => RerunIfLost
<1>1. IInv /\ [Next]_vars
      => [\A t \in Tasks : runs'[t] > runs[t] => runs[t] = 0 \/ t \in torn]_vars
  BY OnlyRunTask, DueIsUnrecorded
<1> QED
  BY Inductive, <1>1, PTL DEF Spec, RerunIfLost

\* watchdog: a bot that ran since the boot and the morning and was stopped is
\* not started by a tick that begins afterwards.
THEOREM OwnerObeyed == Spec => StoppedStays
<1>1. IInv /\ [Next]_vars => [kicks' > kicks => ~seen.spared]_vars
  BY OnlyKickstart, UnrecordedAndAllowed
<1> QED
  BY Inductive, <1>1, PTL DEF Spec, StoppedStays
=============================================================================
