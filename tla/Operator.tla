------------------------------ MODULE Operator ------------------------------
(***************************************************************************)
(* operator/watchdog.py, operator/dispatch.py, scripts/operator_tick.py    *)
(* and scripts/alerts_check.py, with what they watch: the machine, launchd *)
(* (scripts/install_launchd.py says with which rules) and the bot's        *)
(* process and heartbeat.                                                  *)
(*                                                                         *)
(* Time is cut into the stretches of a day that the code tells apart.      *)
(* Every day is a trading day.  The operator's tick begins at least once   *)
(* in each stretch the machine is on, unless one is still under way.  What *)
(* the watchdog does has timeouts and is over within the stretch; the      *)
(* health check and the tasks are child processes without one, so time may *)
(* pass, and the machine sleep, while they run.                            *)
(***************************************************************************)
EXTENDS Integers

CONSTANTS
  Tasks,
  At,         \* task -> the stretch it is scheduled in
  Watchdog,   \* settings.operator.watchdog
  Horizon,    \* bound: the last stretch of a behaviour
  MaxUpsets   \* bound: how often a database call of a tick raises or the owner installs
              \* or removes the agents

\* The stretches begin at midnight, 06:30, 07:00, 09:30, 15:45, 16:00 and 20:30.
DayLength == 7
SCHEDULED_START == 1
WINDOW_START == 2
OPEN == 3
WINDOW_END == 4
CLOSE == 5
LATE_WINDOW == 1
Never == -1

ASSUME HorizonAssumption == Horizon \in Nat
ASSUME UpsetsAssumption == MaxUpsets \in Nat
ASSUME WatchdogAssumption == Watchdog \in BOOLEAN
ASSUME TasksAssumption == At \in [Tasks -> 0 .. DayLength - 1]

VARIABLES
  now,
  power,      \* the machine: on, asleep, off
  boot,       \* when it booted
  bot_agent,  \* the bot's agent: none, file (the plist is written), loaded
  job_agent,  \* the operator's agent
  script,     \* what install_launchd.py does next, or nothing
  calendar,   \* launchd's calendar start of the day is still to come
  bot,        \* none, launched, waiting, setup, running; crashed: launchd will start it again
  heartbeat,  \* bot_state: when, and whether waiting for the open
  started_at, \* bot_state "watchdog"
  done,       \* bot_state "operator_done": tasks of a day
  alerted,    \* bot_state "alerts_seen": an alert on the heartbeat was sent today
  pc,         \* where the operator's tick is
  ticked,     \* a tick has begun in this stretch
  began,      \* when the tick under way began: its idea of now; of the last one, the day
  seen,       \* what the tick has read: heartbeat, boot time, process, agent; and, as
              \* history, whether the bot stood stopped when it began
  mine,       \* its copy of the tasks done
  task,       \* the task it is running
  kicks,      \* history: attempts since the bot should last have started
  lost,       \* history: those of them that never got on record
  stopped,    \* history: the bot has run since then and was stopped by the owner
  runs,       \* history: task -> runs on the day of the last tick
  torn,       \* history: tasks whose last run that day never got on record
  upsets      \* history: what MaxUpsets bounds

agents == << bot_agent, job_agent, script >>
machine == << now, power, boot, calendar >>
process == << bot, heartbeat >>
operator == << pc, ticked, began, seen, mine, task >>
records == << started_at, done, alerted >>
history == << kicks, lost, stopped, runs, torn, upsets >>
vars == << now, power, boot, calendar, bot_agent, job_agent, script, bot, heartbeat,
           pc, ticked, began, seen, mine, task, started_at, done, alerted,
           kicks, lost, stopped, runs, torn, upsets >>

Moments == 0 .. Horizon
NoTask == "none"
Unread == [heartbeat |-> Never, boot |-> Never, process |-> TRUE, agent |-> FALSE, spared |-> FALSE]

Stretch == now % DayLength
DayOf(moment) == moment - (moment % DayLength)
scheduled_start == (now - Stretch) + SCHEDULED_START
in_window == WINDOW_START <= Stretch /\ Stretch < WINDOW_END
MarketOpen == OPEN <= Stretch /\ Stretch < CLOSE
Running == bot \in {"launched", "waiting", "setup", "running"}
Idle == pc = "idle"
ChildRuns == pc \in {"health", "mark"}
Upset == upsets < MaxUpsets /\ upsets' = upsets + 1

\* Mutant: the boot alone counts, as it did before 2026-10-29.
SinceOf_Boot(booted) == booted

\* The later of this morning's scheduled start and the boot, if it is known.
SinceOf(booted) == IF booted > scheduled_start THEN booted ELSE scheduled_start

\* When the bot should last have started.
Since == IF boot > scheduled_start THEN boot ELSE scheduled_start

Init ==
  /\ now = 0 /\ power = "on" /\ boot = 0 /\ calendar = FALSE
  /\ bot_agent = "loaded" /\ job_agent = "loaded" /\ script = "none"
  /\ bot = "none" /\ heartbeat = [ts |-> Never, waiting |-> FALSE]
  /\ pc = "idle" /\ ticked = FALSE /\ began = 0 /\ seen = Unread /\ mine = {} /\ task = NoTask
  /\ started_at = Never /\ done = [day |-> 0, tasks |-> {}] /\ alerted = FALSE
  /\ kicks = 0 /\ lost = 0 /\ stopped = FALSE
  /\ runs = [t \in Tasks |-> 0] /\ torn = {} /\ upsets = 0

----------------------------------------------------------------------------
(* Time and the machine                                                    *)

\* A bot that waits or trades writes a heartbeat every minute or more often.
Beaten == power = "on" /\ bot \in {"waiting", "running"} => heartbeat.ts = now

Advance ==
  /\ Idle \/ ChildRuns
  /\ now + 1 \in Moments
  /\ power = "on" /\ Idle /\ job_agent = "loaded" => ticked
  /\ Beaten
  /\ now' = now + 1 /\ ticked' = FALSE
  /\ LET stretch == now' % DayLength
     IN  /\ alerted' = (alerted /\ stretch # 0)  \* kept by day
         /\ IF stretch = SCHEDULED_START
            THEN kicks' = 0 /\ lost' = 0 /\ stopped' = FALSE /\ calendar' = TRUE
            ELSE UNCHANGED << kicks, lost, stopped >> /\ calendar' = (calendar /\ stretch # 0)
  /\ UNCHANGED << power, boot, agents, process, pc, began, seen, mine, task, started_at, done,
                  runs, torn, upsets >>

Sleep ==
  /\ power = "on" /\ (Idle \/ ChildRuns) /\ power' = "asleep"
  /\ UNCHANGED << now, boot, calendar, agents, process, operator, records, history >>

Wake ==
  /\ power = "asleep" /\ power' = "on"
  /\ UNCHANGED << now, boot, calendar, agents, process, operator, records, history >>

\* A tick ends where it is: what it has done and not recorded never is.
TickCut ==
  /\ pc' = "idle" /\ began' = DayOf(began) /\ seen' = Unread /\ mine' = {} /\ task' = NoTask
  /\ lost' = (IF pc \in {"started", "failed"} THEN lost + 1 ELSE lost)
  /\ torn' = (IF pc = "mark" THEN torn \cup {task} ELSE torn)

PowerLoss ==
  /\ power # "off" /\ power' = "off"
  /\ bot' = "none" /\ ticked' = FALSE /\ script' = "none"
  /\ TickCut
  /\ boot' = now  \* the time it went; Boot is later
  /\ UNCHANGED << now, calendar, bot_agent, job_agent, heartbeat, records,
                  kicks, stopped, runs, upsets >>

Loaded(agent) == IF agent = "none" THEN "none" ELSE "loaded"

\* Agents are loaded at login.  KeepAlive implies RunAtLoad, so launchd then
\* starts the bot; that it may not is what the watchdog is for.
Boot ==
  /\ power = "off" /\ now > boot
  /\ power' = "on" /\ boot' = now
  /\ bot_agent' = Loaded(bot_agent) /\ job_agent' = Loaded(job_agent)
  /\ bot' \in IF bot_agent' = "loaded" THEN {"launched", "none"} ELSE {"none"}
  /\ IF now > scheduled_start THEN kicks' = 0 /\ lost' = 0 /\ stopped' = FALSE
                              ELSE UNCHANGED << kicks, lost, stopped >>
  /\ UNCHANGED << now, calendar, script, heartbeat, operator, records, runs,
                  torn, upsets >>

----------------------------------------------------------------------------
(* launchd, the owner and the bot                                          *)

\* On time, late or never.
CalendarStart ==
  /\ power = "on" /\ bot_agent = "loaded" /\ calendar
  /\ calendar' = FALSE
  /\ bot' = IF Running THEN bot ELSE "launched"
  /\ UNCHANGED << now, power, boot, agents, heartbeat, operator, records, history >>

Relaunch ==
  /\ power = "on" /\ bot_agent = "loaded" /\ bot = "crashed"
  /\ bot' = "launched"
  /\ UNCHANGED << machine, agents, heartbeat, operator, records, history >>

Stopped == stopped' = (heartbeat.ts >= Since)

\* pkill: the bot exits cleanly, unless it has not set its signal handlers yet.
OwnerStops ==
  /\ power = "on" /\ Running
  /\ bot' \in IF bot = "launched" THEN {"none", "crashed"} ELSE {"none"}
  /\ Stopped
  /\ UNCHANGED << machine, agents, heartbeat, operator, records, kicks, lost, runs, torn, upsets >>

\* install and remove unload the agents one by one, the bot's first, and what
\* runs under an agent ends with it.
BootOutBot ==
  /\ power = "on" /\ script = "none"
  /\ bot' = "none"
  /\ Stopped /\ Upset
  /\ UNCHANGED << machine, job_agent, heartbeat, operator, records, kicks, lost,
                  runs, torn >>

OwnerInstalls == BootOutBot /\ bot_agent' = "file" /\ script' = "load bot"
OwnerRemoves == BootOutBot /\ bot_agent' = "none" /\ script' = "remove job"

\* Loading an agent may fail; the plist is there for the next login.
InstallBot ==
  /\ power = "on" /\ script = "load bot" /\ script' = "install job"
  /\ \/ bot_agent' = "loaded" /\ bot' = "launched"
     \/ UNCHANGED << bot_agent, bot >>
  /\ UNCHANGED << machine, job_agent, heartbeat, operator, records, history >>

ReplaceJob ==
  /\ power = "on" /\ script' = "none"
  /\ \/ script = "install job" /\ job_agent' \in {"loaded", "file"}
     \/ script = "remove job" /\ job_agent' = "none"
  /\ TickCut
  /\ UNCHANGED << machine, bot_agent, process, ticked, records, kicks, stopped, runs, upsets >>

_wait_until == heartbeat' = [ts |-> now, waiting |-> TRUE]

\* run: a bot started while the market is closed waits for the open.
run ==
  /\ power = "on" /\ bot = "launched"
  /\ IF MarketOpen THEN bot' = "setup" /\ UNCHANGED heartbeat
                   ELSE bot' = "waiting" /\ _wait_until
  /\ UNCHANGED << machine, agents, operator, records, history >>

Waits ==
  /\ power = "on" /\ bot = "waiting"
  /\ IF MarketOpen THEN bot' = "setup" /\ UNCHANGED heartbeat
                   ELSE bot' = bot /\ _wait_until
  /\ UNCHANGED << machine, agents, operator, records, history >>

_tick ==
  /\ power = "on" /\ bot \in {"setup", "running"} /\ MarketOpen
  /\ bot' = "running"
  /\ heartbeat' = [ts |-> now, waiting |-> FALSE]
  /\ UNCHANGED << machine, agents, operator, records, history >>

EndsItsDay ==
  /\ power = "on" /\ bot \in {"setup", "running"} /\ ~MarketOpen
  /\ bot' = "none"
  /\ UNCHANGED << machine, agents, heartbeat, operator, records, history >>

BotCrashes ==
  /\ power = "on" /\ Running
  /\ bot' = "crashed"
  /\ UNCHANGED << machine, agents, heartbeat, operator, records, history >>

----------------------------------------------------------------------------
(* The operator's tick                                                     *)

\* Its day and what is done are read first; when the database cannot be opened or
\* read the tick is over.
TickBegins ==
  /\ power = "on" /\ job_agent = "loaded" /\ Idle
  /\ ticked' = TRUE
  /\ UNCHANGED << machine, agents, process, task, records, kicks, lost, stopped >>
  /\ \/ /\ began' = now /\ seen' = [Unread EXCEPT !.spared = stopped /\ in_window]
        /\ mine' = (IF done.day = DayOf(now) THEN done.tasks ELSE {})
        /\ pc' = IF Watchdog /\ in_window THEN "watchdog" ELSE "health"
        /\ IF DayOf(began) = DayOf(now) THEN UNCHANGED << runs, torn >>
                                       ELSE runs' = [t \in Tasks |-> 0] /\ torn' = {}
        /\ UNCHANGED upsets
     \/ Upset /\ UNCHANGED << began, seen, mine, pc, runs, torn >>

\* An answer that cannot be had is the one that starts nothing.
ProbeBoot == {boot, Never}
ProbeProcess == {Running, TRUE}
ProbeAgent == {bot_agent = "loaded", FALSE}

\* The boot time with the heartbeat: it cannot change while the tick lives.
ReadHeartbeat ==
  /\ pc = "watchdog" /\ pc' = "process"
  /\ \E b \in ProbeBoot : seen' = [seen EXCEPT !.heartbeat = heartbeat.ts, !.boot = b]
  /\ UNCHANGED << machine, agents, process, ticked, began, mine, task, records, history >>

\* A read that raises ends the watchdog's part.
WatchdogRaises ==
  /\ pc = "watchdog" /\ pc' = "health" /\ seen' = Unread
  /\ Upset
  /\ UNCHANGED << machine, agents, process, ticked, began, mine, task, records, kicks, lost,
                  stopped, runs, torn >>

bot_process_running ==
  /\ pc = "process" /\ pc' = "agent"
  /\ \E p \in ProbeProcess : seen' = [seen EXCEPT !.process = p]
  /\ UNCHANGED << machine, agents, process, ticked, began, mine, task, records, history >>

agent_loaded ==
  /\ pc = "agent" /\ pc' = "kick"
  /\ \E a \in ProbeAgent : seen' = [seen EXCEPT !.agent = a]
  /\ UNCHANGED << machine, agents, process, ticked, began, mine, task, records, history >>

\* Mutant: a start that failed is tried again.
AlreadyTried_IfRan(since) == heartbeat.ts >= since

AlreadyTried(since) == started_at >= since

\* Mutant: only this morning's start counts.
HasRun_Always(since) == FALSE

HasRun(since) == seen.heartbeat >= since

decide ==
  /\ in_window /\ seen.agent /\ ~seen.process
  /\ LET since == SinceOf(seen.boot) IN ~HasRun(since) /\ ~AlreadyTried(since)

\* A job that runs is left alone, one that is not loaded is not found.  When
\* launchctl fails or its answer is lost (pc "failed"), the job may have been started.
kickstart ==
  /\ pc = "kick" /\ decide
  /\ \/ /\ bot_agent = "loaded" /\ pc' \in {"started", "failed"}
        /\ bot' = IF Running THEN bot ELSE "launched"
     \/ pc' = "failed" /\ bot' = bot
  /\ kicks' = kicks + 1
  /\ UNCHANGED << machine, agents, heartbeat, ticked, began, seen, mine, task, records,
                  lost, stopped, runs, torn, upsets >>

NoStart ==
  /\ pc = "kick" /\ ~decide
  /\ pc' = "health" /\ seen' = Unread
  /\ UNCHANGED << machine, agents, process, ticked, began, mine, task, records, history >>

\* The health check is skipped after a start that went well.
RecordStart ==
  /\ pc \in {"started", "failed"}
  /\ started_at' = began
  /\ pc' = (IF pc = "started" THEN "tasks" ELSE "health") /\ seen' = Unread
  /\ UNCHANGED << machine, agents, process, ticked, began, mine, task, done, alerted, history >>

\* The write raises, after the start: the tick goes on without its message.
RecordRaises ==
  /\ pc \in {"started", "failed"}
  /\ pc' = "health" /\ seen' = Unread
  /\ lost' = lost + 1 /\ Upset
  /\ UNCHANGED << machine, agents, process, ticked, began, mine, task, records, kicks, stopped,
                  runs, torn >>

\* None ever, or a stale one that is not from a wait for the open.
Alert == MarketOpen /\ (heartbeat.ts = Never \/ (now - heartbeat.ts > 1 /\ ~heartbeat.waiting))

check_alerts ==
  /\ pc = "health" /\ power = "on" /\ pc' = "tasks"
  /\ alerted' = (alerted \/ Alert)
  /\ UNCHANGED << machine, agents, process, ticked, began, seen, mine, task, started_at, done,
                  history >>

CheckFails ==
  /\ pc = "health" /\ power = "on" /\ pc' = "tasks"
  /\ UNCHANGED << machine, agents, process, ticked, began, seen, mine, task, records, history >>

Due(t) == LET at == began % DayLength IN At[t] <= at /\ at <= At[t] + LATE_WINDOW
\* Mutant: a task is due whatever has been done.
due_tasks_Again == {t \in Tasks : Due(t)}

\* At the time the tick began, however long it has been running.
due_tasks == {t \in Tasks \ mine : Due(t)}

RunTask ==
  /\ pc = "tasks"
  /\ \E t \in due_tasks : task' = t /\ runs' = [runs EXCEPT ![t] = @ + 1]
  /\ pc' = "mark"
  /\ UNCHANGED << machine, agents, process, ticked, began, seen, mine, records, kicks, lost,
                  stopped, torn, upsets >>

\* The task has ended, well or not.
MarkTask ==
  /\ pc = "mark" /\ power = "on"
  /\ mine' = mine \cup {task} /\ done' = [day |-> DayOf(began), tasks |-> mine']
  /\ torn' = torn \ {task}
  /\ task' = NoTask /\ pc' = "tasks"
  /\ UNCHANGED << machine, agents, process, ticked, began, seen, started_at, alerted, kicks, lost,
                  stopped, runs, upsets >>

\* The write raises, and nothing catches it.
MarkRaises ==
  /\ pc = "mark" /\ power = "on"
  /\ TickCut /\ Upset
  /\ UNCHANGED << machine, agents, process, ticked, records, kicks, stopped, runs >>

TickEnds ==
  /\ pc = "tasks" /\ due_tasks = {}
  /\ pc' = "idle" /\ began' = DayOf(began) /\ mine' = {}
  /\ UNCHANGED << machine, agents, process, ticked, seen, task, records, history >>

WatchdogStep ==
  \/ ReadHeartbeat \/ WatchdogRaises \/ bot_process_running \/ agent_loaded
  \/ kickstart \/ NoStart \/ RecordStart \/ RecordRaises

TickStep ==
  \/ WatchdogStep
  \/ check_alerts \/ CheckFails \/ RunTask \/ MarkTask \/ MarkRaises \/ TickEnds

Next ==
  \/ Advance \/ Sleep \/ Wake \/ PowerLoss \/ Boot
  \/ CalendarStart \/ Relaunch
  \/ OwnerStops \/ OwnerInstalls \/ OwnerRemoves \/ InstallBot \/ ReplaceJob
  \/ run \/ Waits \/ _tick \/ EndsItsDay \/ BotCrashes
  \/ TickBegins \/ TickStep

Spec == Init /\ [][Next]_vars

\* launchd runs the tick at its interval while none is under way, and what the
\* watchdog does has a timeout.  The health check and the tasks have none.
Fairness == WF_vars(TickBegins) /\ WF_vars(WatchdogStep)

FairSpec == Spec /\ Fairness

----------------------------------------------------------------------------
(* Properties                                                              *)

\* The watchdog tries again, in one boot or morning, only if no attempt got on
\* record, though the heartbeat, the boot time, the process and the agent are
\* read one by one while they change and an answer may be missing.
RetriedIfLost == [][kicks' > kicks => kicks = lost]_vars

\* operator/watchdog.py, head: "the watchdog tries at most once per boot or
\* morning in case it never does."
StartedOnce == kicks <= 1

\* A bot that has run since the boot or the morning and was then stopped by the
\* owner is not started by a tick that begins afterwards.
StoppedStays == [][kicks' > kicks => ~seen.spared]_vars

\* A task runs again, on the day its tick began, only if the record of its last
\* run was lost: with the power, with the agent, or to the database.
RerunIfLost == [][\A t \in Tasks : runs'[t] > runs[t] => runs[t] = 0 \/ t \in torn]_vars

\* scripts/operator_tick.py, head: "Marks each task done for the day in bot_state
\* so nothing runs twice."
RunOnce == \A t \in Tasks : runs[t] <= 1

Missed ==
  /\ power = "on" /\ bot_agent = "loaded" /\ job_agent = "loaded" /\ in_window /\ bot = "none"
  /\ heartbeat.ts < Since /\ started_at < Since

Misread == pc = "kick" /\ (seen.boot # boot \/ ~seen.agent \/ seen.process)

\* A start that did not happen is made up for in the same stretch of the day, by
\* the next tick if none is under way, unless the machine or an agent goes away,
\* an answer is missing, or the tick is cut short or cannot use the database.
Recovered ==
  \A u \in 0 .. MaxUpsets :
    Watchdog /\ Missed /\ Idle /\ ~ticked /\ script = "none" /\ upsets = u ~>
      \/ Running \/ heartbeat.ts >= Since \/ started_at >= Since
      \/ power # "on" \/ bot_agent # "loaded" \/ job_agent # "loaded"
      \/ Misread \/ upsets > u

\* docs/features/14-operator.md, alerts: "`heartbeat stale` | No tick for 90
\* seconds | Market hours only": a check well into market hours alerts when the
\* bot has not ticked, unless it is still waiting.
DeadBotNoticed ==
  [][check_alerts /\ MarketOpen /\ Stretch > OPEN /\ now - heartbeat.ts > 1 /\ bot # "waiting"
      => alerted']_vars
=============================================================================
