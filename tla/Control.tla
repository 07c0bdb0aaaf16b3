------------------------------ MODULE Control ------------------------------
(***************************************************************************)
(* The control decision of one tick (internal/control): which intent is in *)
(* effect (manual override, schedule period, grace minute, off) and what   *)
(* each kind of actuator is told.  Pure operators; ControlLoop runs them.  *)
(*                                                                         *)
(* Time is counted in ticks of a clock that starts at midnight of the      *)
(* first day in UTC; a zone is an offset in minutes.  A channel stands for *)
(* an actuator type together with its sensor type (heater/temperature,     *)
(* humidifier/humidity); values, targets and deadbands are integers.       *)
(***************************************************************************)
EXTENDS Integers, Sequences, FiniteSets, FiniteSetsExt

CONSTANTS
    Channels,
    TicksPerMinute, MinutesPerDay, DaysPerWeek,
    StaleThreshold,   \* age from which a reading no longer counts
    NoTarget, NoPeriod

ASSUME ControlAssumption ==
    /\ TicksPerMinute \in Nat \ {0}
    /\ MinutesPerDay \in Nat \ {0}
    /\ DaysPerWeek \in Nat \ {0}
    /\ StaleThreshold \in Nat

-----------------------------------------------------------------------------
(* Effective state.  A config cfg is what the room's cache entry holds:      *)
(*   manual   [active, until, mode, targets]; until = 0 stands for NULL      *)
(*   periods  sequence of [days, start, end, mode, targets]                  *)
(*   zone     offset of the user's timezone, in minutes                      *)
(*   deadband one per channel                                                *)
(*   hw       the devices that have an actuator of each channel              *)

LocalMinute(cfg, now) == now \div TicksPerMinute + cfg.zone
MinuteOfDay(cfg, now) == LocalMinute(cfg, now) % MinutesPerDay
DayOfWeek(cfg, now)   == (LocalMinute(cfg, now) \div MinutesPerDay) % DaysPerWeek

Overriding(cfg, now) == cfg.manual.active /\ now < cfg.manual.until

\* Periods of the active schedule that cover now: start inclusive, end exclusive.
Matching(cfg, now) ==
    {i \in DOMAIN cfg.periods :
        LET p == cfg.periods[i]
        IN  /\ DayOfWeek(cfg, now) \in p.days
            /\ p.start <= MinuteOfDay(cfg, now)
            /\ MinuteOfDay(cfg, now) < p.end}

\* Mutant: the minute a period ends in is no longer part of its grace period.
InGraceTooLate(cfg, lap, now) ==
    /\ lap # NoPeriod
    /\ DayOfWeek(cfg, now) \in lap.days
    /\ MinuteOfDay(cfg, now) - lap.end > 0
    /\ MinuteOfDay(cfg, now) - lap.end <= 1

\* Less than one minute since the end, on a day of the period.
InGrace(cfg, lap, now) ==
    /\ lap # NoPeriod
    /\ DayOfWeek(cfg, now) \in lap.days
    /\ MinuteOfDay(cfg, now) - lap.end >= 0
    /\ MinuteOfDay(cfg, now) - lap.end < 1

NoTargets == [k \in Channels |-> NoTarget]

\* Manual override, else the first matching period, else the grace period of the
\* last active period lap, else off.
resolveEffectiveState(cfg, lap, now) ==
    LET FromPeriod(p, source) ==
            [mode |-> p.mode, targets |-> p.targets, source |-> source, period |-> p]
    IN  CASE Overriding(cfg, now) ->
               [mode |-> cfg.manual.mode, targets |-> cfg.manual.targets,
                source |-> "manual_override", period |-> NoPeriod]
          [] ~Overriding(cfg, now) /\ Matching(cfg, now) # {} ->
               FromPeriod(cfg.periods[Min(Matching(cfg, now))], "schedule")
          [] ~Overriding(cfg, now) /\ Matching(cfg, now) = {} /\ InGrace(cfg, lap, now) ->
               FromPeriod(lap, "grace_period")
          [] OTHER ->
               [mode |-> "OFF", targets |-> NoTargets, source |-> "none",
                period |-> NoPeriod]

-----------------------------------------------------------------------------
(* Bang-bang decision.  readings is a function from any finite index set to   *)
(* [val, ts].                                                                *)

IsFresh(r, now) == now - r.ts <= StaleThreshold

\* Mutant: readings are averaged whatever their age.
freshAverageIgnoresAge(readings, now) ==
    [sum |-> MapThenSumSet(LAMBDA i : readings[i].val, DOMAIN readings),
     count |-> Cardinality(DOMAIN readings)]

\* Sum and count of the fresh readings; their quotient is the average.
freshAverage(readings, now) ==
    LET fresh == {i \in DOMAIN readings : IsFresh(readings[i], now)}
    IN  [sum |-> MapThenSumSet(LAMBDA i : readings[i].val, fresh),
         count |-> Cardinality(fresh)]

\* avg below target - deadband, above target + deadband (multiplied by count).
Below(avg, target, deadband) == avg.sum < (target - deadband) * avg.count
Above(avg, target, deadband) == avg.sum > (target + deadband) * avg.count

\* The state commanded to a channel in AUTO: off without target or fresh readings,
\* the last commanded state within the deadband.
evaluateOrOff(target, avg, deadband, current) ==
    /\ target # NoTarget
    /\ avg.count > 0
    /\ \/ Below(avg, target, deadband)
       \/ ~Above(avg, target, deadband) /\ current

\* Channels that have an actuator in the room.
Present(cfg) == {k \in Channels : cfg.hw[k] # {}}

\* One tick: the command of every channel present, never suppressed.  period is
\* what the scheduler remembers as last active period.
Evaluate(cfg, readings, states, lap, now) ==
    LET es == resolveEffectiveState(cfg, lap, now)
    IN  [source |-> es.source,
         period |-> es.period,
         cmd |-> [k \in Present(cfg) |->
                     /\ es.mode # "OFF"
                     /\ evaluateOrOff(es.targets[k], freshAverage(readings[k], now),
                                      cfg.deadband[k], states[k])]]
=============================================================================
