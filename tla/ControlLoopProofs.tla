------------------------- MODULE ControlLoopProofs -------------------------
(***************************************************************************)
(* Proofs about ControlLoop, for any channels, devices, sensor values,     *)
(* configs, thresholds and bounds.                                         *)
(***************************************************************************)
EXTENDS ControlLoop, FiniteSetTheorems, SequenceTheorems, TLAPS

USE DEF loopVars, entryVars, readingVars, commandVars, tickVars, Actuators

-----------------------------------------------------------------------------
(* Types *)

\* What one tick commands is a Boolean for every channel present.
LEMMA EvaluateType ==
    ASSUME NEW c, NEW rs, NEW st, NEW l, NEW t
    PROVE  /\ DOMAIN Evaluate(c, rs, st, l, t).cmd = Present(c)
           /\ \A k \in Present(c) : Evaluate(c, rs, st, l, t).cmd[k] \in BOOLEAN
  BY DEF Evaluate, Present

\* A tick that reaches only actuators of the config tells each of them a Boolean.
LEMMA CommandType ==
    ASSUME NEW c \in Configs, NEW rs, NEW st, NEW l, NEW t,
           NEW k \in Channels, NEW h \in Hw, h \in c.hw[k]
    PROVE  Evaluate(c, rs, st, l, t).cmd[k] \in BOOLEAN
  <1>1. k \in Present(c)
    BY DEF Present
  <1> QED
    BY <1>1, EvaluateType

\* What the log holds are readings, stamped with a number.
LEMMA LogType ==
    ASSUME TypeOK, NEW k \in Channels, NEW i \in 1 .. Len(log[k])
    PROVE  log[k][i] \in Reading /\ log[k][i].ts \in Nat
  <1>1. log[k] \in Seq(Reading)
    BY DEF TypeOK
  <1>2. log[k][i] \in Reading
    BY <1>1, ElementOfSeq
  <1> QED
    BY <1>2 DEF Reading

\* The readings that Process appends are readings.
LEMMA ProcessLog ==
    ASSUME TypeOK, NEW m \in Messages, Process(m)
    PROVE  /\ log' \in [Channels -> Seq(Reading)]
           /\ \A k \in Channels :
                IF k \in DOMAIN m
                THEN /\ log'[k] = Append(log[k], [val |-> m[k], ts |-> now])
                     /\ [val |-> m[k], ts |-> now] \in Reading
                ELSE log'[k] = log[k]
  <1>1. PICK S \in SUBSET Channels : m \in [S -> Values]
    BY DEF Messages
  <1>2. \A k \in DOMAIN m : [val |-> m[k], ts |-> now] \in Reading
    BY <1>1 DEF TypeOK, Reading
  <1> QED
    BY <1>1, <1>2 DEF Process, TypeOK

\* Types are preserved by every step.
LEMMA TypeStep == TypeOK /\ [Next]_vars => TypeOK'
  <1> SUFFICES ASSUME TypeOK, [Next]_vars PROVE TypeOK'
    OBVIOUS
  <1> USE ControlLoopAssumption
  <1>1. CASE Advance
    <2>1. now' = now + 1 /\ now' \in Nat
      BY <1>1 DEF Advance, TypeOK
    <2>2. ASSUME NEW l \in Loops
          PROVE  /\ loop'[l] \in Loop
                 /\ loop'[l].on => now' < loop'[l].nextTick /\ loop'[l].due < loop'[l].nextTick
      <3>1. loop[l] \in Loop /\ (loop[l].on => now < loop[l].nextTick
                                             /\ loop[l].due < loop[l].nextTick)
        BY DEF TypeOK
      <3>2. CASE loop[l].on /\ loop[l].nextTick = now + 1
        <4>1. loop'[l] = Fire(loop[l])
          BY <1>1, <3>2 DEF Advance
        <4>2. loop[l].on \in BOOLEAN /\ loop[l].nextTick \in Nat /\ loop[l].due \in Nat
          BY <3>1 DEF Loop
        <4> DEFINE lp == loop[l]
                   nt == lp.nextTick + TickInterval
                   du == IF lp.due = 0 THEN lp.nextTick ELSE lp.due
        <4>5. nt \in Nat /\ du \in Nat /\ du \in {lp.nextTick, lp.due}
          BY <4>2
        <4>6. Fire(lp) = [lp EXCEPT !.due = du, !.nextTick = nt]
          BY <3>1 DEF Fire, Loop
        <4>7. lp \in [on : BOOLEAN, nextTick : Nat, due : Nat]
          BY <3>1 DEF Loop
        <4> HIDE DEF nt, du
        <4>8. /\ [lp EXCEPT !.due = du, !.nextTick = nt]
                     \in [on : BOOLEAN, nextTick : Nat, due : Nat]
              /\ [lp EXCEPT !.due = du, !.nextTick = nt].nextTick = nt
              /\ [lp EXCEPT !.due = du, !.nextTick = nt].due = du
          BY <4>5, <4>7
        <4>3. /\ loop'[l] \in [on : BOOLEAN, nextTick : Nat, due : Nat]
              /\ loop'[l].nextTick = loop[l].nextTick + TickInterval
              /\ loop'[l].due \in {loop[l].nextTick, loop[l].due}
          BY <4>1, <4>5, <4>6, <4>8 DEF nt
        <4>4. now \in Nat /\ TickInterval > 0 /\ TickInterval \in Nat
          BY DEF TypeOK
        <4> QED
          BY <2>1, <3>1, <3>2, <4>2, <4>3, <4>4 DEF Loop
      <3>3. CASE ~(loop[l].on /\ loop[l].nextTick = now + 1)
        <4>1. loop'[l] = loop[l]
          BY <1>1, <3>3 DEF Advance
        <4> QED
          BY <2>1, <3>1, <3>3, <4>1 DEF Loop, TypeOK
      <3> QED
        BY <3>2, <3>3
    <2>3. loop' \in [Loops -> Loop]
      BY <1>1, <2>2 DEF Advance
    <2> QED
      BY <1>1, <2>1, <2>2, <2>3 DEF Advance, TypeOK
  <1>2. ASSUME NEW m \in Messages, Process(m) PROVE TypeOK'
    <2>1. log' \in [Channels -> Seq(Reading)]
      BY <1>2, ProcessLog
    <2>2. \A k \in Channels : head'[k] <= Len(log'[k])
      BY <1>2, <2>1 DEF Process, trimStale, TypeOK
    <2>3. head' \in [Channels -> Nat] /\ lastAt' \in [Channels -> Nat]
      BY <1>2 DEF Process, TypeOK
    <2> QED
      BY <1>2, <2>1, <2>2, <2>3 DEF Process, TypeOK
  <1>3. ASSUME NEW c \in Configs, ReloadRoom(c) PROVE TypeOK'
    BY <1>3 DEF ReloadRoom, Trouble, TypeOK
  <1>4. ASSUME NEW p \in pending, Install(p) PROVE TypeOK'
    <2>0. run' = [l \in Loops |-> [run[l] EXCEPT !.stale = run[l].busy]]
      BY <1>4 DEF Install
    <2>1. ASSUME NEW l \in Loops
          PROVE  run'[l] \in Run /\ run'[l].todo = run[l].todo
      <3>1. run[l] \in Run
        BY DEF TypeOK
      <3>2. run'[l] = [run[l] EXCEPT !.stale = run[l].busy]
        BY <2>0
      <3> QED
        BY <3>1, <3>2 DEF Run
    <2>2. run' \in [Loops -> Run]
      BY <2>0, <2>1
    <2> QED
      BY <1>4, <2>1, <2>2 DEF Install, TypeOK
  <1>5. ASSUME NEW l \in Loops, tick(l) PROVE TypeOK'
    <2> DEFINE todo == {a \in Actuators : a[2] \in cfg.hw[a[1]]}
               rs   == [k \in Channels |-> Window(k)]
    <2>1. /\ run' = [run EXCEPT ![l] = [busy |-> TRUE, due |-> loop[l].due, stale |-> FALSE,
                                       todo |-> todo]]
          /\ result' = [result EXCEPT ![l] = Evaluate(cfg, rs, states, lap, loop[l].due)]
          /\ loop' = [loop EXCEPT ![l].due = 0]
      BY <1>5 DEF tick
    <2>2. \A a \in todo : Evaluate(cfg, rs, states, lap, loop[l].due).cmd[a[1]] \in BOOLEAN
      <3> SUFFICES ASSUME NEW a \in todo
                   PROVE  Evaluate(cfg, rs, states, lap, loop[l].due).cmd[a[1]] \in BOOLEAN
        OBVIOUS
      <3>1. a[1] \in Channels /\ a[2] \in Hw /\ a[2] \in cfg.hw[a[1]] /\ cfg \in Configs
        BY DEF TypeOK
      <3> HIDE DEF rs
      <3> QED
        BY <3>1, CommandType
    <2>3. loop' \in [Loops -> Loop] /\ run' \in [Loops -> Run] /\ DOMAIN result' = Loops
      BY <2>1 DEF TypeOK, Loop, Run
    <2>4. ASSUME NEW j \in Loops
          PROVE  /\ loop'[j].on => now < loop'[j].nextTick /\ loop'[j].due < loop'[j].nextTick
                 /\ \A a \in run'[j].todo : result'[j].cmd[a[1]] \in BOOLEAN
      BY <2>1, <2>2 DEF TypeOK, Loop
    <2> QED
      BY <1>5, <2>3, <2>4 DEF tick, TypeOK
  <1>6. ASSUME NEW l \in Loops, NEW a \in run[l].todo, Publish(l, a) PROVE TypeOK'
    <2>1. a \in Actuators /\ result[l].cmd[a[1]] \in BOOLEAN /\ a[1] \in Channels
      BY DEF TypeOK, Run
    <2>0. run' = [run EXCEPT ![l].todo = @ \ {a}]
      BY <1>6 DEF Publish
    <2>2. run' \in [Loops -> Run] /\ \A j \in Loops : run'[j].todo \subseteq run[j].todo
      <3>1. run \in [Loops -> Run] /\ run[l] \in Run
        BY DEF TypeOK
      <3>2. [run[l] EXCEPT !.todo = @ \ {a}] \in Run
        BY <3>1 DEF Run
      <3>3. run' = [run EXCEPT ![l] = [run[l] EXCEPT !.todo = @ \ {a}]]
        BY <2>0, <3>1
      <3>4. run'[l].todo \subseteq run[l].todo
        BY <3>1, <3>3 DEF Run
      <3> QED
        BY <3>1, <3>2, <3>3, <3>4
    <2>3. states' \in [Channels -> BOOLEAN] /\ dev' \in [Actuators -> BOOLEAN]
      BY <1>6, <2>1 DEF Publish, Remember, TypeOK
    <2>4. late' \subseteq [to : Actuators, on : BOOLEAN] /\ shaken' \subseteq Actuators
          /\ troubles' \in Nat
      <3>1. [to |-> a, on |-> result[l].cmd[a[1]]] \in [to : Actuators, on : BOOLEAN]
        BY <2>1
      <3>2. late' \subseteq late \cup {[to |-> a, on |-> result[l].cmd[a[1]]]}
        BY <1>6 DEF Publish
      <3>3. shaken' \subseteq shaken \cup {a}
        BY <1>6 DEF Publish
      <3>4. troubles' \in {troubles, troubles + 1}
        BY <1>6 DEF Publish, Trouble
      <3> HIDE DEF Actuators
      <3> QED
        BY <2>1, <3>1, <3>2, <3>3, <3>4 DEF TypeOK
    <2> QED
      <3>1. /\ now' = now /\ up' = up /\ loop' = loop /\ cur' = cur /\ result' = result
            /\ cfg' = cfg /\ pending' = pending /\ log' = log /\ head' = head
            /\ lastAt' = lastAt /\ lastDue' = lastDue
        BY <1>6 DEF Publish
      <3>2. \A j \in Loops : \A b \in run'[j].todo : result'[j].cmd[b[1]] \in BOOLEAN
        BY <2>2, <3>1 DEF TypeOK
      <3> QED
        BY <2>2, <2>3, <2>4, <3>1, <3>2 DEF TypeOK
  <1>7. ASSUME NEW l \in Loops, FinishTick(l) PROVE TypeOK'
    <2>1. lastDue' \in Nat /\ run' \in [Loops -> Run] /\ DOMAIN result' = Loops
      BY <1>7 DEF FinishTick, TypeOK, Run, NoRun
    <2>2. \A j \in Loops : \A a \in run'[j].todo : result'[j].cmd[a[1]] \in BOOLEAN
      BY <1>7 DEF FinishTick, TypeOK, NoRun
    <2> QED
      BY <1>7, <2>1, <2>2 DEF FinishTick, TypeOK
  <1>8. ASSUME NEW l \in Loops, Exit(l) PROVE TypeOK'
    BY <1>8 DEF Exit, TypeOK, NoLoop, Loop
  <1>9. ASSUME NEW c \in late, Deliver(c) PROVE TypeOK'
    BY <1>9 DEF Deliver, TypeOK
  <1>10. CASE AddRoom
    <2> DEFINE new == NewLoop(now + TickInterval)
    <2>1. loop' = [loop EXCEPT ![cur + 1] = new] /\ cur' = cur + 1 /\ cur' \in Loops
      BY <1>10 DEF AddRoom
    <2>2. new \in Loop /\ now < new.nextTick /\ new.due < new.nextTick
      BY DEF NewLoop, Loop, TypeOK
    <2> HIDE DEF new
    <2>3. loop' \in [Loops -> Loop]
      BY <2>1, <2>2 DEF TypeOK
    <2>4. \A l \in Loops : loop'[l].on => now < loop'[l].nextTick
                                           /\ loop'[l].due < loop'[l].nextTick
      BY <2>1, <2>2 DEF TypeOK
    <2> QED
      BY <1>10, <2>1, <2>3, <2>4 DEF AddRoom, Trouble, TypeOK
  <1>11. CASE Crash
    <2>1. loop' = [l \in Loops |-> NoLoop] /\ run' = [l \in Loops |-> NoRun]
          /\ result' = [l \in Loops |-> NoResult]
      BY <1>11 DEF Crash
    <2>2. NoLoop \in Loop /\ NoRun \in Run /\ NoLoop.on = FALSE /\ NoRun.todo = {}
      BY DEF NoLoop, Loop, NoRun, Run
    <2>3. loop' \in [Loops -> Loop] /\ run' \in [Loops -> Run] /\ DOMAIN result' = Loops
      BY <2>1, <2>2
    <2>4. \A l \in Loops : ~loop'[l].on /\ run'[l].todo = {}
      BY <2>1, <2>2
    <2>5. /\ now' = now /\ cur' = cur /\ cfg' = cfg /\ lastDue' = lastDue
          /\ log' = log /\ head' = head /\ lastAt' = lastAt
          /\ states' = states /\ dev' = dev /\ late' = late /\ shaken' = shaken
          /\ pending' = {} /\ troubles' = troubles + 1
      BY <1>11 DEF Crash, Trouble
    <2>6. /\ \A l \in Loops : loop'[l].on => now' < loop'[l].nextTick
                                             /\ loop'[l].due < loop'[l].nextTick
          /\ \A l \in Loops : \A a \in run'[l].todo : result'[l].cmd[a[1]] \in BOOLEAN
      BY <2>4
    <2> HIDE DEF Actuators
    <2>10. up' \in BOOLEAN
      BY <1>11 DEF Crash
    <2>7. /\ now' \in Nat /\ cur' \in Loops /\ cfg' \in Configs
          /\ lastDue' \in Nat /\ troubles' \in Nat /\ pending' = {}
      BY <2>5 DEF TypeOK
    <2>8. /\ log' \in [Channels -> Seq(Reading)] /\ head' \in [Channels -> Nat]
          /\ \A k \in Channels : head'[k] <= Len(log'[k])
          /\ lastAt' \in [Channels -> Nat]
      BY <2>5 DEF TypeOK
    <2>9. /\ states' \in [Channels -> BOOLEAN] /\ dev' \in [Actuators -> BOOLEAN]
          /\ late' \subseteq [to : Actuators, on : BOOLEAN] /\ shaken' \subseteq Actuators
      BY <2>5 DEF TypeOK
    <2> QED
      BY <2>3, <2>5, <2>6, <2>7, <2>8, <2>9, <2>10 DEF TypeOK
  <1>12. CASE Start
    <2>1. PICK first \in FirstTick(now) :
            loop' = [l \in Loops |-> IF l = 0 THEN NewLoop(first) ELSE NoLoop]
      BY <1>12 DEF Start
    <2>2. first \in Nat /\ now < first /\ 0 < first
      BY DEF FirstTick, TypeOK
    <2>3. loop' \in [Loops -> Loop] /\ cur' \in Loops
          /\ \A l \in Loops : loop'[l].on => now < loop'[l].nextTick
                                              /\ loop'[l].due < loop'[l].nextTick
      BY <1>12, <2>1, <2>2 DEF Start, NewLoop, NoLoop, Loop, Loops
    <2> QED
      BY <1>12, <2>3 DEF Start, TypeOK
  <1>13. CASE UNCHANGED vars
    BY <1>13 DEF vars, TypeOK
  <1> QED
    BY <1>1, <1>2, <1>3, <1>4, <1>5, <1>6, <1>7, <1>8, <1>9, <1>10, <1>11, <1>12, <1>13
       DEF Next

LEMMA TypeInit == Init => TypeOK
  <1> SUFFICES ASSUME Init PROVE TypeOK
    OBVIOUS
  <1> USE ControlLoopAssumption
  <1>1. PICK first \in FirstTick(0) :
          loop = [l \in Loops |-> IF l = 0 THEN NewLoop(first) ELSE NoLoop]
    BY DEF Init
  <1>2. first \in Nat /\ 0 < first
    BY DEF FirstTick
  <1>3. loop \in [Loops -> Loop] /\ cur \in Loops
        /\ \A l \in Loops : loop[l].on => 0 < loop[l].nextTick /\ loop[l].due < loop[l].nextTick
    BY <1>1, <1>2 DEF Init, NewLoop, NoLoop, Loop, Loops
  <1> QED
    BY <1>3 DEF Init, TypeOK, NoRun, Run

\* The state of the control loop is well-formed, whatever is published, reloaded, replaced
\* or lost in a crash; no ticker is overdue and no window begins after its end.
THEOREM LoopTypesHold == Spec => []TypeOK
  BY TypeInit, TypeStep, PTL DEF Spec
-----------------------------------------------------------------------------
(* The sliding window *)

\* Readings are in chronological order and no newer than the channel's last one.
Chronological ==
    \A k \in Channels :
        /\ lastAt[k] <= now
        /\ \A i \in 1 .. Len(log[k]) : log[k][i].ts <= lastAt[k]
        /\ \A i, j \in 1 .. Len(log[k]) : i <= j => log[k][i].ts <= log[k][j].ts

\* What was trimmed is stale and what was kept was not when it was looked at.
\* Chronological is needed to see that trimStale may stop at the first fresh reading.
WindowInv == TypeOK /\ Chronological /\ WindowExact

LEMMA ChronologicalStep == TypeOK /\ Chronological /\ [Next]_vars => Chronological'
  <1> SUFFICES ASSUME TypeOK, Chronological, [Next]_vars PROVE Chronological'
    OBVIOUS
  <1> USE ControlLoopAssumption
  <1>1. CASE Advance
    BY <1>1 DEF Advance, TypeOK, Chronological, Reading
  <1>2. ASSUME NEW m \in Messages, Process(m) PROVE Chronological'
    <2> SUFFICES ASSUME NEW k \in Channels
                 PROVE  /\ lastAt'[k] <= now
                        /\ \A i \in 1 .. Len(log'[k]) : log'[k][i].ts <= lastAt'[k]
                        /\ \A i, j \in 1 .. Len(log'[k]) :
                              i <= j => log'[k][i].ts <= log'[k][j].ts
      BY <1>2 DEF Process, Chronological
    <2>1. CASE k \in DOMAIN m
      <3> DEFINE r == [val |-> m[k], ts |-> now]
      <3>1. log'[k] = Append(log[k], r) /\ r \in Reading /\ r.ts = now
        BY <1>2, <2>1, ProcessLog
      <3>2. log[k] \in Seq(Reading) /\ lastAt'[k] = now
        BY <1>2, <2>1 DEF TypeOK, Process
      <3> HIDE DEF r
      <3>3. /\ Len(log'[k]) = Len(log[k]) + 1
            /\ \A i \in 1 .. Len(log[k]) : log'[k][i] = log[k][i]
            /\ log'[k][Len(log[k]) + 1] = r
        BY <3>1, <3>2
      <3>4. \A i \in 1 .. Len(log[k]) : log[k][i].ts \in Nat
        BY LogType
      <3>5. \A i \in 1 .. Len(log'[k]) : log'[k][i].ts \in Nat /\ log'[k][i].ts <= now
        BY <3>1, <3>2, <3>3, <3>4 DEF Chronological, TypeOK
      <3>6. ASSUME NEW i \in 1 .. Len(log'[k]), NEW j \in 1 .. Len(log'[k]), i <= j
            PROVE  log'[k][i].ts <= log'[k][j].ts
        <4>1. CASE j = Len(log[k]) + 1
          BY <3>1, <3>3, <3>5, <4>1
        <4>2. CASE j # Len(log[k]) + 1
          <5>1. i \in 1 .. Len(log[k]) /\ j \in 1 .. Len(log[k])
            BY <3>2, <3>3, <3>6, <4>2
          <5>2. log[k][i].ts <= log[k][j].ts
            BY <3>6, <5>1 DEF Chronological
          <5> QED
            BY <3>3, <5>1, <5>2
        <4> QED
          BY <4>1, <4>2
      <3>7. lastAt'[k] <= now
        BY <3>2 DEF TypeOK
      <3> QED
        BY <3>2, <3>5, <3>6, <3>7
    <2>2. CASE k \notin DOMAIN m
      <3>1. log'[k] = log[k]
        BY <1>2, <2>2, ProcessLog
      <3>2. lastAt'[k] = lastAt[k]
        BY <1>2, <2>2 DEF Process
      <3> QED
        BY <3>1, <3>2 DEF Chronological
    <2> QED
      BY <2>1, <2>2
  <1>3. ASSUME UNCHANGED <<now, log, head, lastAt>> PROVE Chronological'
    BY <1>3 DEF Chronological
  <1>4. ASSUME NEW l \in Loops,
               \/ tick(l) \/ FinishTick(l) \/ Exit(l)
               \/ \E a \in run[l].todo : Publish(l, a)
        PROVE  Chronological'
    BY <1>3, <1>4 DEF tick, FinishTick, Exit, Publish
  <1>5. CASE \/ \E c \in Configs : ReloadRoom(c)
             \/ \E p \in pending : Install(p)
             \/ \E c \in late : Deliver(c)
             \/ AddRoom \/ Crash \/ UNCHANGED vars
    BY <1>3, <1>5 DEF ReloadRoom, Install, Deliver, AddRoom, Crash, vars
  <1>6. CASE Start
    BY <1>6 DEF Start, Chronological
  <1> QED
    BY <1>1, <1>2, <1>4, <1>5, <1>6 DEF Next

LEMMA WindowStep ==
    TypeOK /\ Chronological /\ WindowExact /\ [Next]_vars => WindowExact'
  <1> SUFFICES ASSUME TypeOK, Chronological, WindowExact, [Next]_vars PROVE WindowExact'
    OBVIOUS
  <1> USE ControlAssumption, ControlLoopAssumption
  <1>0. \A k \in Channels : \A i \in 1 .. Len(log[k]) : log[k][i].ts \in Nat
    BY LogType
  <1>1. CASE Advance
    BY <1>0, <1>1 DEF Advance, TypeOK, WindowExact, IsFresh
  <1>2. ASSUME NEW m \in Messages, Process(m) PROVE WindowExact'
    <2> SUFFICES ASSUME NEW k \in Channels, NEW i \in 1 .. Len(log'[k])
                 PROVE  IF i <= head'[k] THEN ~IsFresh(log'[k][i], now)
                        ELSE IsFresh(log'[k][i], log'[k][Len(log'[k])].ts)
      BY <1>2 DEF Process, WindowExact
    <2>1. CASE k \in DOMAIN m
      <3> DEFINE r == [val |-> m[k], ts |-> now]
      <3>1. log'[k] = Append(log[k], r) /\ r \in Reading /\ r.ts = now
        BY <1>2, <2>1, ProcessLog
      <3>2. log[k] \in Seq(Reading) /\ head[k] \in Nat /\ head[k] <= Len(log[k])
        BY DEF TypeOK
      <3>3. trimStale(log'[k], head[k], now, head'[k]) /\ head'[k] \in Nat
        BY <1>2, <2>1 DEF Process
      <3> HIDE DEF r
      <3>4. /\ Len(log'[k]) = Len(log[k]) + 1
            /\ \A j \in 1 .. Len(log[k]) : log'[k][j] = log[k][j]
            /\ log'[k][Len(log[k]) + 1] = r
        BY <3>1, <3>2
      <3>5. CASE i <= head[k]
        <4>1. ~IsFresh(log[k][i], now) /\ log'[k][i] = log[k][i]
          BY <3>2, <3>4, <3>5 DEF WindowExact
        <4>2. i <= head'[k]
          BY <3>2, <3>3, <3>5 DEF trimStale
        <4> QED
          BY <4>1, <4>2
      <3>6. CASE head[k] < i /\ i <= head'[k]
        <4>1. log'[k][i].ts < now - StaleThreshold
          BY <3>2, <3>3, <3>6 DEF trimStale
        <4>2. log'[k][i].ts \in Nat
          BY <1>0, <3>1, <3>4 DEF TypeOK
        <4> QED
          BY <3>6, <4>1, <4>2 DEF IsFresh, TypeOK
      <3>7. CASE head'[k] < i
        <4> DEFINE f == head'[k] + 1
        <4>1. f \in 1 .. Len(log'[k]) /\ f <= i /\ log'[k][f].ts >= now - StaleThreshold
          BY <3>3, <3>4, <3>7 DEF trimStale
        <4>2. log'[k][f].ts <= log'[k][i].ts /\ log'[k][i].ts \in Nat /\ log'[k][f].ts \in Nat
          <5>1. \A j \in 1 .. Len(log'[k]) : log'[k][j].ts \in Nat
            BY <1>0, <3>1, <3>2, <3>4 DEF TypeOK
          <5>2. i = Len(log'[k]) => \A j \in 1 .. Len(log'[k]) : log'[k][j].ts <= log'[k][i].ts
            BY <1>0, <3>1, <3>2, <3>4 DEF Chronological, TypeOK
          <5>3. i # Len(log'[k]) => i \in 1 .. Len(log[k]) /\ f \in 1 .. Len(log[k])
            BY <3>2, <3>4, <4>1
          <5> HIDE DEF f
          <5> QED
            BY <3>4, <4>1, <5>1, <5>2, <5>3 DEF Chronological
        <4>3. log'[k][Len(log'[k])].ts = now
          BY <3>1, <3>4
        <4> HIDE DEF f
        <4>4. now - log'[k][i].ts <= StaleThreshold
          BY <4>1, <4>2 DEF TypeOK
        <4>5. ~(i <= head'[k])
          BY <3>3, <3>7
        <4> QED
          BY <4>3, <4>4, <4>5 DEF IsFresh
      <3> QED
        BY <3>2, <3>3, <3>5, <3>6, <3>7
    <2>2. CASE k \notin DOMAIN m
      <3>1. log'[k] = log[k] /\ head'[k] = head[k]
        BY <1>2, <2>2, ProcessLog DEF Process
      <3> QED
        BY <3>1 DEF WindowExact
    <2> QED
      BY <2>1, <2>2
  <1>3. ASSUME UNCHANGED <<now, log, head, lastAt>> PROVE WindowExact'
    BY <1>3 DEF WindowExact, IsFresh
  <1>4. ASSUME NEW l \in Loops,
               \/ tick(l) \/ FinishTick(l) \/ Exit(l)
               \/ \E a \in run[l].todo : Publish(l, a)
        PROVE  WindowExact'
    BY <1>3, <1>4 DEF tick, FinishTick, Exit, Publish
  <1>5. CASE \/ \E c \in Configs : ReloadRoom(c)
             \/ \E p \in pending : Install(p)
             \/ \E c \in late : Deliver(c)
             \/ AddRoom \/ Crash \/ UNCHANGED vars
    BY <1>3, <1>5 DEF ReloadRoom, Install, Deliver, AddRoom, Crash, vars
  <1>6. CASE Start
    BY <1>6 DEF Start, WindowExact, IsFresh
  <1> QED
    BY <1>1, <1>2, <1>4, <1>5, <1>6 DEF Next

LEMMA WindowInvHolds == Spec => []WindowInv
  <1>1. Init => WindowInv
    <2>1. Init => Chronological /\ WindowExact
      BY DEF Init, Chronological, WindowExact
    <2> QED
      BY <2>1, TypeInit DEF WindowInv
  <1>2. WindowInv /\ [Next]_vars => WindowInv'
    BY TypeStep, ChronologicalStep, WindowStep DEF WindowInv
  <1> QED
    BY <1>1, <1>2, PTL DEF Spec

\* trimStale and freshAverage agree on staleness: no reading that still counts is
\* ever trimmed, and none that was stale at the last message is kept.
THEOREM WindowIsExact == Spec => []WindowExact
  <1>1. WindowInv => WindowExact
    BY DEF WindowInv
  <1> QED
    BY <1>1, WindowInvHolds, PTL
-----------------------------------------------------------------------------
(* Loss of sensors *)

\* Only loops up to the registered one run ticks; nothing runs when the process is down.
RunsExist ==
    /\ ~up => pending = {} /\ bridge = NoPeriod /\ \A l \in Loops : ~loop[l].on
    /\ \A l \in Loops : ~loop[l].on => ~run[l].busy
    /\ \A l \in Loops : ~run[l].busy => run[l].todo = {}
    /\ \A l \in Loops : l > cur => ~loop[l].on
    /\ up => loop[cur].on

\* The registered loop takes the firings of its ticker in order.
InOrder ==
    /\ lastDue <= now
    /\ loop[cur].on => lastDue < loop[cur].nextTick
    /\ loop[cur].due # 0 => lastDue < loop[cur].due /\ loop[cur].due <= now
    /\ run[cur].busy =>
         /\ lastDue <= run[cur].due /\ run[cur].due <= now
         /\ run[cur].due < loop[cur].nextTick
         /\ loop[cur].due # 0 => run[cur].due < loop[cur].due

\* The channel still had a reading that counts at the time due.
Heard(k, due) == due - lastAt[k] <= StaleThreshold

\* What the registered loop's tick has still to switch on had a fresh reading.
OnWasHeard ==
    \A a \in run[cur].todo : result[cur].cmd[a[1]] => Heard(a[1], run[cur].due)

\* The tick misses no actuator of the room: whoever it need not tell any more has been
\* told, or is excepted.
TickReaches ==
    run[cur].busy => \A k \in Channels : \A h \in cfg.hw[k] :
        \/ <<k, h>> \in run[cur].todo \cup shaken
        \/ dev[<<k, h>>] => Heard(k, run[cur].due)

\* The inductive invariant behind SensorLossTurnsOff.
OnInv == TypeOK /\ Chronological /\ RunsExist /\ InOrder /\ OnWasHeard /\ TickReaches
         /\ SensorLossTurnsOff

\* A channel is told to be on only if one of its readings in the window is fresh.
LEMMA OnMeansFresh ==
    ASSUME NEW c, NEW rs, NEW st, NEW l, NEW t, NEW k \in Present(c),
           Evaluate(c, rs, st, l, t).cmd[k]
    PROVE  \E i \in DOMAIN rs[k] : IsFresh(rs[k][i], t)
  <1> DEFINE es    == resolveEffectiveState(c, l, t)
             fresh == {i \in DOMAIN rs[k] : IsFresh(rs[k][i], t)}
  <1>1. evaluateOrOff(es.targets[k], freshAverage(rs[k], t), c.deadband[k], st[k])
    BY DEF Evaluate
  <1> HIDE DEF es
  <1>2. freshAverage(rs[k], t).count > 0
    BY <1>1 DEF evaluateOrOff
  <1>3. Cardinality(fresh) > 0
    BY <1>2 DEF freshAverage
  <1>4. fresh # {}
    BY <1>3, FS_EmptySet
  <1> QED
    BY <1>4


\* A tick that evaluates the entry switches on only channels that were heard of.
LEMMA TickOnHeard ==
    ASSUME TypeOK, Chronological, NEW l \in Loops, tick(l), NEW a \in run'[l].todo,
           result'[l].cmd[a[1]]
    PROVE  Heard(a[1], loop[l].due)
  <1> USE ControlAssumption
  <1> DEFINE rs  == [k \in Channels |-> Window(k)]
             k   == a[1]
             due == loop[l].due
  <1>1. /\ result'[l] = Evaluate(cfg, rs, states, lap, due)
        /\ a \in {b \in Actuators : b[2] \in cfg.hw[b[1]]}
    BY DEF tick, TypeOK
  <1>2. k \in Channels /\ k \in Present(cfg)
    BY <1>1 DEF Present
  <1>3. PICK i \in DOMAIN rs[k] : IsFresh(rs[k][i], due)
    BY <1>1, <1>2, OnMeansFresh
  <1>4. i \in 1 .. Len(log[k]) /\ rs[k][i] = log[k][i]
    BY <1>2, <1>3 DEF Window, TypeOK
  <1>5. log[k][i].ts \in Nat /\ log[k][i].ts <= lastAt[k]
    BY <1>2, <1>4, LogType DEF Chronological
  <1>6. due - log[k][i].ts <= StaleThreshold
    BY <1>3, <1>4 DEF IsFresh
  <1>7. lastAt[k] \in Nat /\ due \in Nat
    BY <1>2 DEF TypeOK, Loop
  <1> QED
    BY <1>5, <1>6, <1>7 DEF Heard

LEMMA RunsStep == TypeOK /\ RunsExist /\ [Next]_vars => RunsExist'
  <1> SUFFICES ASSUME TypeOK, RunsExist, [Next]_vars PROVE RunsExist'
    OBVIOUS
  <1> USE ControlLoopAssumption
  <1>1. CASE Advance
    <2>1. \A l \in Loops : loop'[l].on = loop[l].on
      BY <1>1 DEF Advance, Fire, TypeOK, Loop
    <2> QED
      BY <1>1, <2>1 DEF Advance, RunsExist, TypeOK
  <1>2. CASE \/ \E m \in Messages : Process(m)
             \/ \E c \in Configs : ReloadRoom(c)
             \/ \E c \in late : Deliver(c)
             \/ UNCHANGED vars
    BY <1>2 DEF Process, ReloadRoom, Deliver, vars, RunsExist
  <1>3. ASSUME NEW p \in pending, Install(p) PROVE RunsExist'
    <2>1. \A l \in Loops : run'[l].busy = run[l].busy /\ run'[l].todo = run[l].todo
      BY <1>3 DEF Install, TypeOK, Run
    <2> QED
      BY <1>3, <2>1 DEF Install, RunsExist
  <1>4. ASSUME NEW l \in Loops, tick(l) PROVE RunsExist'
    <2>1. \A j \in Loops : loop'[j].on = loop[j].on
      BY <1>4 DEF tick, TypeOK, Loop
    <2>2. \A j \in Loops : j # l => run'[j] = run[j]
      BY <1>4 DEF tick, TypeOK
    <2>3. run'[l].busy /\ loop[l].on
      BY <1>4 DEF tick, TypeOK
    <2> QED
      BY <1>4, <2>1, <2>2, <2>3 DEF tick, RunsExist, TypeOK
  <1>5. ASSUME NEW l \in Loops, NEW a \in run[l].todo, Publish(l, a) PROVE RunsExist'
    <2>1. \A j \in Loops : run'[j].busy = run[j].busy /\ run'[j].todo \subseteq run[j].todo
      BY <1>5 DEF Publish, TypeOK, Run
    <2> QED
      BY <1>5, <2>1 DEF Publish, RunsExist
  <1>6. ASSUME NEW l \in Loops, FinishTick(l) PROVE RunsExist'
    BY <1>6 DEF FinishTick, RunsExist, TypeOK, NoRun
  <1>7. ASSUME NEW l \in Loops, Exit(l) PROVE RunsExist'
    BY <1>7 DEF Exit, RunsExist, TypeOK, NoLoop
  <1>8. CASE AddRoom
    BY <1>8 DEF AddRoom, RunsExist, TypeOK, NewLoop, Loops
  <1>9. CASE Crash
    BY <1>9 DEF Crash, RunsExist, NoLoop, NoRun
  <1>10. CASE Start
    <2>1. PICK first \in FirstTick(now) :
            loop' = [l \in Loops |-> IF l = 0 THEN NewLoop(first) ELSE NoLoop]
      BY <1>10 DEF Start
    <2>2. 0 \in Loops /\ \A l \in Loops : l # 0 => l > 0
      BY DEF Loops
    <2> QED
      BY <1>10, <2>1, <2>2 DEF Start, RunsExist, NewLoop, NoLoop
  <1> QED
    BY <1>1, <1>2, <1>3, <1>4, <1>5, <1>6, <1>7, <1>8, <1>9, <1>10 DEF Next

LEMMA OrderStep == TypeOK /\ RunsExist /\ InOrder /\ [Next]_vars => InOrder'
  <1> SUFFICES ASSUME TypeOK, RunsExist, InOrder, [Next]_vars PROVE InOrder'
    OBVIOUS
  <1> USE ControlLoopAssumption
  <1>0. /\ cur \in Loops /\ now \in Nat /\ lastDue \in Nat /\ run[cur].due \in Nat
        /\ loop[cur] \in Loop /\ loop[cur].nextTick \in Nat /\ loop[cur].due \in Nat
        /\ loop[cur].on => now < loop[cur].nextTick
    BY DEF TypeOK, Loop, Run
  <1>1. CASE Advance
    <2>1. now' = now + 1 /\ UNCHANGED <<cur, run, lastDue>>
      BY <1>1 DEF Advance
    <2>2. loop'[cur] = IF loop[cur].on /\ loop[cur].nextTick = now + 1
                       THEN Fire(loop[cur]) ELSE loop[cur]
      BY <1>0, <1>1 DEF Advance
    <2>3. CASE loop[cur].on /\ loop[cur].nextTick = now + 1
      <3>1. /\ loop'[cur].nextTick = loop[cur].nextTick + TickInterval
            /\ loop'[cur].due = IF loop[cur].due = 0 THEN loop[cur].nextTick ELSE loop[cur].due
        BY <1>0, <2>2, <2>3 DEF Fire, Loop
      <3> QED
        BY <1>0, <2>1, <2>3, <3>1 DEF InOrder
    <2>4. CASE ~(loop[cur].on /\ loop[cur].nextTick = now + 1)
      BY <1>0, <2>1, <2>2, <2>4 DEF InOrder
    <2> QED
      BY <2>3, <2>4
  <1>2. CASE \/ \E m \in Messages : Process(m)
             \/ \E c \in Configs : ReloadRoom(c)
             \/ \E c \in late : Deliver(c)
             \/ UNCHANGED vars
    BY <1>2 DEF Process, ReloadRoom, Deliver, vars, InOrder
  <1>3. ASSUME NEW p \in pending, Install(p) PROVE InOrder'
    <2>1. run'[cur].busy = run[cur].busy /\ run'[cur].due = run[cur].due
      BY <1>3 DEF Install, TypeOK, Run
    <2> QED
      BY <1>3, <2>1 DEF Install, InOrder
  <1>4. ASSUME NEW l \in Loops, tick(l) PROVE InOrder'
    <2>1. CASE l = cur
      <3>1. /\ loop[cur].on /\ loop[cur].due # 0
            /\ loop'[cur].due = 0 /\ loop'[cur].nextTick = loop[cur].nextTick
            /\ loop'[cur].on /\ run'[cur].due = loop[cur].due
            /\ UNCHANGED <<now, cur, lastDue>>
        BY <1>0, <1>4, <2>1 DEF tick, TypeOK, Loop
      <3> QED
        BY <1>0, <2>1, <3>1 DEF InOrder, TypeOK
    <2>2. CASE l # cur
      <3>1. loop'[cur] = loop[cur] /\ run'[cur] = run[cur] /\ UNCHANGED <<now, cur, lastDue>>
        BY <1>4, <2>2 DEF tick, TypeOK
      <3> QED
        BY <3>1 DEF InOrder
    <2> QED
      BY <2>1, <2>2
  <1>5. ASSUME NEW l \in Loops, NEW a \in run[l].todo, Publish(l, a) PROVE InOrder'
    <2>1. run'[cur].busy = run[cur].busy /\ run'[cur].due = run[cur].due
      BY <1>5 DEF Publish, TypeOK, Run
    <2> QED
      BY <1>5, <2>1 DEF Publish, InOrder
  <1>6. ASSUME NEW l \in Loops, FinishTick(l) PROVE InOrder'
    <2>1. UNCHANGED <<now, loop, cur>>
      BY <1>6 DEF FinishTick
    <2>2. CASE l = cur
      <3>1. run[cur].busy /\ ~run'[cur].busy /\ lastDue' = run[cur].due /\ loop[cur].on
        BY <1>0, <1>6, <2>2 DEF FinishTick, TypeOK, NoRun, RunsExist
      <3> QED
        BY <1>0, <2>1, <3>1 DEF InOrder
    <2>3. CASE l # cur
      <3>1. run'[cur] = run[cur] /\ lastDue' = lastDue
        BY <1>6, <2>3 DEF FinishTick, TypeOK
      <3> QED
        BY <2>1, <3>1 DEF InOrder
    <2> QED
      BY <2>2, <2>3
  <1>7. ASSUME NEW l \in Loops, Exit(l) PROVE InOrder'
    <2>1. loop'[cur] = loop[cur] /\ UNCHANGED <<now, cur, run, lastDue>>
      BY <1>7 DEF Exit, TypeOK
    <2> QED
      BY <2>1 DEF InOrder
  <1>8. CASE AddRoom
    <2>1. /\ cur' = cur + 1 /\ cur' \in Loops /\ cur' > cur
          /\ loop'[cur'] = NewLoop(now + TickInterval) /\ UNCHANGED <<now, run, lastDue>>
      BY <1>8 DEF AddRoom, TypeOK, Loops
    <2>2. ~run[cur'].busy
      BY <2>1 DEF RunsExist
    <2> QED
      BY <1>0, <2>1, <2>2 DEF InOrder, NewLoop
  <1>9. CASE Crash
    BY <1>0, <1>9 DEF Crash, InOrder, NoLoop, NoRun
  <1>10. CASE Start
    <2>1. PICK first \in FirstTick(now) :
            loop' = [l \in Loops |-> IF l = 0 THEN NewLoop(first) ELSE NoLoop]
      BY <1>10 DEF Start
    <2>0. first \in Nat /\ 0 < first
      BY <1>0 DEF FirstTick
    <2>4. 0 \in Loops
      BY DEF Loops
    <2>2. /\ cur' = 0 /\ 0 \in Loops /\ loop'[0] = NewLoop(first)
          /\ lastDue' = 0 /\ UNCHANGED <<now, run>> /\ first \in Nat /\ 0 < first
      BY <1>10, <2>0, <2>1, <2>4 DEF Start
    <2>3. ~run[0].busy
      BY <1>10, <2>2 DEF Start, RunsExist
    <2> QED
      BY <1>0, <2>2, <2>3 DEF InOrder, NewLoop
  <1> QED
    BY <1>1, <1>2, <1>3, <1>4, <1>5, <1>6, <1>7, <1>8, <1>9, <1>10 DEF Next

\* Where lastAt, the commands and the registered tick stay, nothing changes.
LEMMA OnKept ==
    ASSUME OnInv, UNCHANGED <<up, cur, cfg, lastAt, dev, shaken, lastDue>>,
           run'[cur].busy = run[cur].busy, run'[cur].todo = run[cur].todo,
           run'[cur].due = run[cur].due, result'[cur] = result[cur]
    PROVE  OnWasHeard' /\ TickReaches' /\ SensorLossTurnsOff'
  BY DEF OnInv, OnWasHeard, TickReaches, SensorLossTurnsOff, Heard

LEMMA OnStep == OnInv /\ [Next]_vars => OnWasHeard' /\ TickReaches' /\ SensorLossTurnsOff'
  <1> SUFFICES ASSUME OnInv, [Next]_vars
               PROVE  OnWasHeard' /\ TickReaches' /\ SensorLossTurnsOff'
    OBVIOUS
  <1> USE ControlAssumption, ControlLoopAssumption
  <1>0. /\ TypeOK /\ Chronological /\ RunsExist /\ InOrder /\ OnWasHeard /\ TickReaches
        /\ SensorLossTurnsOff
        /\ cur \in Loops /\ now \in Nat /\ lastDue \in Nat /\ run[cur].due \in Nat
        /\ \A k \in Channels : lastAt[k] \in Nat /\ lastAt[k] <= now
    BY DEF OnInv, TypeOK, Run, Chronological
  <1>1. CASE \/ Advance
             \/ \E c \in Configs : ReloadRoom(c)
             \/ \E l \in Loops : Exit(l)
             \/ UNCHANGED vars
    BY <1>1, OnKept DEF Advance, ReloadRoom, Exit, vars
  <1>2. ASSUME NEW m \in Messages, Process(m)
        PROVE  OnWasHeard' /\ TickReaches' /\ SensorLossTurnsOff'
    <2>1. \A k \in Channels : lastAt'[k] \in Nat /\ lastAt[k] <= lastAt'[k]
      BY <1>0, <1>2 DEF Process
    <2>2. \A k \in Channels : \A d \in Nat : Heard(k, d) => Heard(k, d)'
      BY <1>0, <2>1 DEF Heard
    <2>3. UNCHANGED <<up, loop, cur, run, result, cfg, dev, shaken, lastDue>>
      BY <1>2 DEF Process
    <2>4. \A k \in Channels :
            /\ run[cur].due - lastAt[k] <= StaleThreshold
                 => run[cur].due - lastAt'[k] <= StaleThreshold
            /\ lastDue - lastAt[k] <= StaleThreshold => lastDue - lastAt'[k] <= StaleThreshold
      BY <1>0, <2>1
    <2>5. \A a \in run[cur].todo : a[1] \in Channels
      BY <1>0 DEF TypeOK, Run
    <2>6. OnWasHeard'
      <3> SUFFICES ASSUME NEW a \in run[cur].todo, result[cur].cmd[a[1]]
                   PROVE  run[cur].due - lastAt'[a[1]] <= StaleThreshold
        BY <2>3 DEF OnWasHeard, Heard
      <3> QED
        BY <1>0, <2>4, <2>5 DEF OnWasHeard, Heard
    <2>7. TickReaches'
      <3> SUFFICES ASSUME run[cur].busy, NEW k \in Channels, NEW h \in cfg.hw[k],
                          <<k, h>> \notin run[cur].todo \cup shaken, dev[<<k, h>>]
                   PROVE  run[cur].due - lastAt'[k] <= StaleThreshold
        BY <2>3 DEF TickReaches, Heard
      <3> QED
        BY <1>0, <2>4 DEF TickReaches, Heard
    <2>8. SensorLossTurnsOff'
      <3> SUFFICES ASSUME up, NEW k \in Channels, NEW h \in cfg.hw[k],
                          <<k, h>> \notin shaken, dev[<<k, h>>]
                   PROVE  lastDue - lastAt'[k] <= StaleThreshold
        BY <2>3 DEF SensorLossTurnsOff
      <3> QED
        BY <1>0, <2>4 DEF SensorLossTurnsOff
    <2> QED
      BY <2>6, <2>7, <2>8
  <1>3. ASSUME NEW p \in pending, Install(p)
        PROVE  OnWasHeard' /\ TickReaches' /\ SensorLossTurnsOff'
    <2>1. /\ run'[cur].busy = run[cur].busy /\ run'[cur].due = run[cur].due
          /\ run'[cur].todo = run[cur].todo
      BY <1>0, <1>3 DEF Install, TypeOK, Run
    <2>2. UNCHANGED <<up, cur, result, lastAt, dev, lastDue>> /\ cfg' = p.cfg
      BY <1>3 DEF Install
    <2>3. ASSUME NEW k \in Channels, NEW h \in cfg'.hw[k], <<k, h>> \notin shaken'
          PROVE  h \in cfg.hw[k] /\ <<k, h>> \notin shaken
      <3>1. h \in Hw
        BY <1>0, <2>2 DEF TypeOK
      <3> QED
        BY <1>3, <2>2, <2>3, <3>1 DEF Install
    <2>4. OnWasHeard'
      BY <1>0, <2>1, <2>2 DEF OnWasHeard, Heard
    <2>5. TickReaches'
      BY <1>0, <2>1, <2>2, <2>3 DEF TickReaches, Heard
    <2>6. SensorLossTurnsOff'
      BY <1>0, <2>2, <2>3 DEF SensorLossTurnsOff
    <2> QED
      BY <2>4, <2>5, <2>6
  <1>4. ASSUME NEW l \in Loops, tick(l)
        PROVE  OnWasHeard' /\ TickReaches' /\ SensorLossTurnsOff'
    <2>1. UNCHANGED <<up, cur, cfg, lastAt, dev, shaken, lastDue>>
      BY <1>4 DEF tick
    <2>2. CASE l # cur
      <3>1. run'[cur] = run[cur] /\ result'[cur] = result[cur]
        BY <1>0, <1>4, <2>2 DEF tick, TypeOK
      <3> QED
        BY <2>1, <3>1, OnKept
    <2>3. CASE l = cur
      <3>1. /\ run'[cur].todo = {a \in Actuators : a[2] \in cfg.hw[a[1]]}
            /\ run'[cur].due = loop[cur].due
        BY <1>0, <1>4, <2>3 DEF tick, TypeOK
      <3>2. OnWasHeard'
        <4> SUFFICES ASSUME NEW a \in run'[cur].todo, result'[cur].cmd[a[1]]
                     PROVE  Heard(a[1], loop[cur].due)
          BY <2>1, <3>1 DEF OnWasHeard, Heard
        <4> QED
          BY <1>0, <1>4, <2>3, TickOnHeard
      <3>3. TickReaches'
        <4> SUFFICES ASSUME NEW k \in Channels, NEW h \in cfg.hw[k]
                     PROVE  <<k, h>> \in run'[cur].todo
          BY <2>1 DEF TickReaches
        <4>1. h \in Hw
          BY <1>0 DEF TypeOK
        <4> QED
          BY <3>1, <4>1
      <3>4. SensorLossTurnsOff'
        BY <1>0, <2>1 DEF SensorLossTurnsOff
      <3> QED
        BY <3>2, <3>3, <3>4
    <2> QED
      BY <2>2, <2>3
  <1>5. ASSUME NEW l \in Loops, NEW a \in run[l].todo, Publish(l, a)
        PROVE  OnWasHeard' /\ TickReaches' /\ SensorLossTurnsOff'
    <2>1. a \in Actuators /\ a = <<a[1], a[2]>> /\ a[1] \in Channels
      BY <1>0 DEF TypeOK, Run
    <2>2. /\ UNCHANGED <<up, cur, result, cfg, lastAt, lastDue>>
          /\ run' = [run EXCEPT ![l].todo = @ \ {a}]
      BY <1>5 DEF Publish
    <2>3. /\ run'[cur].busy = run[cur].busy /\ run'[cur].due = run[cur].due
          /\ run'[cur].todo \subseteq run[cur].todo
          /\ run[cur].todo \subseteq run'[cur].todo \cup {a}
          /\ l # cur => run'[cur].todo = run[cur].todo
      BY <1>0, <2>2 DEF TypeOK, Run
    <2>4. OnWasHeard'
      BY <1>0, <2>2, <2>3 DEF OnWasHeard, Heard
    <2>5. CASE a \in shaken' /\ shaken' = shaken \cup {a} /\ \A b \in Actuators : b # a => dev'[b] = dev[b]
      <3>1. ASSUME NEW k \in Channels, NEW h \in cfg.hw[k], <<k, h>> \notin shaken'
            PROVE  <<k, h>> # a /\ dev'[<<k, h>>] = dev[<<k, h>>] /\ <<k, h>> \notin shaken
        <4>1. <<k, h>> \in Actuators
          BY <1>0 DEF TypeOK
        <4> QED
          BY <2>5, <3>1, <4>1
      <3>2. TickReaches'
        BY <1>0, <2>2, <2>3, <3>1 DEF TickReaches, Heard
      <3>3. SensorLossTurnsOff'
        BY <1>0, <2>2, <3>1 DEF SensorLossTurnsOff
      <3> QED
        BY <2>4, <3>2, <3>3
    <2>6. CASE /\ l = cur /\ shaken' = shaken \ {a}
               /\ dev' = [dev EXCEPT ![a] = result[l].cmd[a[1]]]
      <3>1. run[cur].busy /\ lastDue <= run[cur].due
        BY <1>0, <2>6 DEF RunsExist, InOrder
      <3>2. dev'[a] => Heard(a[1], run[cur].due)
        BY <1>0, <2>1, <2>6 DEF OnWasHeard, TypeOK
      <3>3. dev'[a] => Heard(a[1], lastDue)
        BY <1>0, <2>1, <3>1, <3>2 DEF Heard
      <3>4. ASSUME NEW k \in Channels, NEW h \in cfg.hw[k], <<k, h>> # a
            PROVE  /\ dev'[<<k, h>>] = dev[<<k, h>>]
                   /\ <<k, h>> \in shaken' <=> <<k, h>> \in shaken
                   /\ <<k, h>> \in run'[cur].todo <=> <<k, h>> \in run[cur].todo
        <4>1. <<k, h>> \in Actuators
          BY <1>0 DEF TypeOK
        <4> QED
          BY <1>0, <2>3, <2>6, <3>4, <4>1 DEF TypeOK
      <3>5. TickReaches'
        <4> SUFFICES ASSUME NEW k \in Channels, NEW h \in cfg.hw[k], run[cur].busy
                     PROVE  \/ <<k, h>> \in run'[cur].todo \cup shaken'
                            \/ dev'[<<k, h>>] => Heard(k, run[cur].due)
          BY <2>2, <2>3 DEF TickReaches, Heard
        <4>1. CASE <<k, h>> = a
          BY <2>1, <3>2, <4>1
        <4>2. CASE <<k, h>> # a
          BY <1>0, <3>4, <4>2 DEF TickReaches
        <4> QED
          BY <4>1, <4>2
      <3>6. SensorLossTurnsOff'
        <4> SUFFICES ASSUME up, NEW k \in Channels, NEW h \in cfg.hw[k], dev'[<<k, h>>]
                     PROVE  Heard(k, lastDue) \/ <<k, h>> \in shaken'
          BY <2>2 DEF SensorLossTurnsOff, Heard
        <4>1. CASE <<k, h>> = a
          BY <2>1, <3>3, <4>1
        <4>2. CASE <<k, h>> # a
          BY <1>0, <3>4, <4>2 DEF SensorLossTurnsOff, Heard
        <4> QED
          BY <4>1, <4>2
      <3> QED
        BY <2>4, <3>5, <3>6
    <2> QED
      BY <1>0, <1>5, <2>1, <2>5, <2>6 DEF Publish, TypeOK
  <1>6. ASSUME NEW l \in Loops, FinishTick(l)
        PROVE  OnWasHeard' /\ TickReaches' /\ SensorLossTurnsOff'
    <2>1. UNCHANGED <<up, cur, cfg, lastAt, dev, shaken>>
      BY <1>6 DEF FinishTick
    <2>2. CASE l # cur
      <3>1. run'[cur] = run[cur] /\ result'[cur] = result[cur] /\ lastDue' = lastDue
        BY <1>0, <1>6, <2>2 DEF FinishTick, TypeOK
      <3> QED
        BY <2>1, <3>1, OnKept
    <2>3. CASE l = cur
      <3>1. /\ run[cur].busy /\ run[cur].todo = {} /\ lastDue' = run[cur].due
            /\ run'[cur] = NoRun
        BY <1>0, <1>6, <2>3 DEF FinishTick, TypeOK
      <3>2. OnWasHeard' /\ TickReaches'
        BY <2>1, <3>1 DEF OnWasHeard, TickReaches, NoRun
      <3>3. SensorLossTurnsOff'
        BY <1>0, <2>1, <3>1 DEF SensorLossTurnsOff, TickReaches, Heard
      <3> QED
        BY <3>2, <3>3
    <2> QED
      BY <2>2, <2>3
  <1>7. ASSUME NEW c \in late, Deliver(c)
        PROVE  OnWasHeard' /\ TickReaches' /\ SensorLossTurnsOff'
    <2>1. /\ UNCHANGED <<up, cur, run, result, cfg, lastAt, lastDue>>
          /\ shaken' = shaken \cup {c.to} /\ dev' = [dev EXCEPT ![c.to] = c.on]
      BY <1>7 DEF Deliver
    <2>2. ASSUME NEW k \in Channels, NEW h \in cfg.hw[k], <<k, h>> \notin shaken'
          PROVE  dev'[<<k, h>>] = dev[<<k, h>>] /\ <<k, h>> \notin shaken
      BY <2>1, <2>2
    <2> QED
      BY <1>0, <2>1, <2>2 DEF OnWasHeard, TickReaches, SensorLossTurnsOff, Heard
  <1>8. CASE AddRoom
    <2>1. /\ cur' = cur + 1 /\ cur' \in Loops /\ cur' > cur
          /\ UNCHANGED <<up, run, result, cfg, lastAt, dev, shaken, lastDue>>
      BY <1>0, <1>8 DEF AddRoom, Loops
    <2>2. ~run[cur'].busy /\ run[cur'].todo = {}
      BY <1>0, <2>1 DEF RunsExist
    <2>3. OnWasHeard' /\ TickReaches'
      BY <2>1, <2>2 DEF OnWasHeard, TickReaches
    <2>4. SensorLossTurnsOff'
      BY <1>0, <2>1 DEF SensorLossTurnsOff
    <2> QED
      BY <2>3, <2>4
  <1>9. CASE Crash
    BY <1>0, <1>9 DEF Crash, OnWasHeard, TickReaches, SensorLossTurnsOff, NoRun
  <1>10. CASE Start
    <2>1. cur' = 0 /\ 0 \in Loops /\ UNCHANGED <<run, result>> /\ shaken' = Actuators
          /\ cfg' \in Configs
      BY <1>10 DEF Start, Loops
    <2>2. ~run[0].busy /\ run[0].todo = {}
      BY <1>0, <1>10, <2>1 DEF Start, RunsExist
    <2>3. OnWasHeard' /\ TickReaches'
      BY <2>1, <2>2 DEF OnWasHeard, TickReaches
    <2>4. SensorLossTurnsOff'
      BY <2>1 DEF SensorLossTurnsOff
    <2> QED
      BY <2>3, <2>4
  <1> QED
    BY <1>1, <1>2, <1>3, <1>4, <1>5, <1>6, <1>7, <1>8, <1>9, <1>10 DEF Next

\* In any process, with any number of loops, reloads, late commands, failed publishes and
\* crashes: the tick that is due once the sensors of a channel have been silent for a
\* threshold switches its actuators off, all but those it is excused for.
THEOREM SensorLossIsSafe == Spec => []SensorLossTurnsOff
  <1>1. Init => OnInv
    <2> SUFFICES ASSUME Init PROVE OnInv
      OBVIOUS
    <2>1. PICK first \in FirstTick(0) :
            loop = [l \in Loops |-> IF l = 0 THEN NewLoop(first) ELSE NoLoop]
      BY DEF Init
    <2>2. first \in Nat /\ 0 < first /\ 0 \in Loops /\ \A l \in Loops : l # 0 => l > 0
      BY ControlLoopAssumption DEF FirstTick, Loops
    <2>3. Chronological
      BY DEF Init, Chronological
    <2>4. RunsExist
      BY <2>1, <2>2 DEF Init, RunsExist, NewLoop, NoLoop, NoRun
    <2>5. InOrder
      BY <2>1, <2>2 DEF Init, InOrder, NewLoop, NoRun
    <2>6. OnWasHeard /\ TickReaches
      BY <2>2 DEF Init, OnWasHeard, TickReaches, NoRun
    <2>7. SensorLossTurnsOff
      BY ControlLoopAssumption DEF Init, SensorLossTurnsOff
    <2> QED
      BY <2>3, <2>4, <2>5, <2>6, <2>7, TypeInit DEF OnInv
  <1>2. OnInv /\ [Next]_vars => OnInv'
    BY TypeStep, ChronologicalStep, RunsStep, OrderStep, OnStep DEF OnInv
  <1>3. OnInv => SensorLossTurnsOff
    BY DEF OnInv
  <1> QED
    BY <1>1, <1>2, <1>3, PTL DEF Spec
-----------------------------------------------------------------------------
(* What a tick remembers: ActuatorStates is what the process last sent, and if nothing *)
(* interfered with the last tick, LastActivePeriod is its period, in every entry.      *)

Remembers ==
    /\ states = sent
    /\ bridge # NoPeriod =>
         /\ lap = bridge
         /\ \A p \in pending : p.lap = bridge
         /\ \A l \in Loops \ {cur} : ~loop[l].on

RememberInv == TypeOK /\ RunsExist /\ Remembers

LEMMA RemembersInit == Init => RememberInv
  <1> SUFFICES ASSUME Init PROVE RememberInv
    OBVIOUS
  <1>1. PICK first \in FirstTick(0) :
          loop = [l \in Loops |-> IF l = 0 THEN NewLoop(first) ELSE NoLoop]
    BY DEF Init
  <1>2. 0 \in Loops /\ \A l \in Loops : l # 0 => l > 0
    BY ControlLoopAssumption DEF Loops
  <1>3. RunsExist
    BY <1>1, <1>2 DEF Init, RunsExist, NewLoop, NoLoop, NoRun
  <1>4. Remembers
    BY DEF Init, Remembers
  <1> QED
    BY <1>3, <1>4, TypeInit DEF RememberInv

LEMMA RemembersStep == RememberInv /\ [Next]_vars => RememberInv'
  <1> SUFFICES ASSUME RememberInv, [Next]_vars PROVE Remembers'
    BY TypeStep, RunsStep DEF RememberInv
  <1>0. TypeOK /\ RunsExist /\ Remembers
    BY DEF RememberInv
  <1>1. ASSUME UNCHANGED <<states, sent, bridge, lap, pending, cur>>,
               \A l \in Loops : loop'[l].on = loop[l].on
        PROVE  Remembers'
    BY <1>0, <1>1 DEF Remembers
  <1>2. CASE Advance
    <2>1. \A l \in Loops : loop'[l].on = loop[l].on
      BY <1>0, <1>2 DEF Advance, Fire, TypeOK, Loop
    <2> QED
      BY <1>1, <1>2, <2>1 DEF Advance
  <1>3. CASE \/ \E m \in Messages : Process(m)
             \/ \E c \in late : Deliver(c)
             \/ UNCHANGED vars
    BY <1>1, <1>3 DEF Process, Deliver, vars
  <1>4. ASSUME NEW c \in Configs, ReloadRoom(c) PROVE Remembers'
    BY <1>0, <1>4 DEF ReloadRoom, Remembers
  <1>5. ASSUME NEW p \in pending, Install(p) PROVE Remembers'
    BY <1>0, <1>5 DEF Install, Remembers
  <1>6. ASSUME NEW l \in Loops, tick(l) PROVE Remembers'
    <2>1. \A j \in Loops : loop'[j].on = loop[j].on
      BY <1>0, <1>6 DEF tick, TypeOK, Loop
    <2> QED
      BY <1>1, <1>6, <2>1 DEF tick
  <1>7. ASSUME NEW l \in Loops, NEW a \in run[l].todo, Publish(l, a) PROVE Remembers'
    BY <1>0, <1>7 DEF Publish, Remember, Remembers
  <1>8. ASSUME NEW l \in Loops, FinishTick(l) PROVE Remembers'
    <2>1. UNCHANGED <<states, sent, loop, cur, pending>>
      BY <1>8 DEF FinishTick
    <2>2. CASE l # cur
      <3>1. run[l].busy /\ loop[l].on
        BY <1>0, <1>8 DEF FinishTick, RunsExist
      <3>2. bridge = NoPeriod /\ bridge' = bridge
        BY <1>0, <1>8, <2>2, <3>1 DEF FinishTick, Remembers
      <3> QED
        BY <1>0, <2>1, <3>2 DEF Remembers
    <2>3. CASE l = cur
      <3> SUFFICES ASSUME bridge' # NoPeriod
                   PROVE  /\ lap' = bridge' /\ pending = {}
                          /\ \A j \in Loops \ {cur} : ~loop[j].on
        BY <1>0, <2>1 DEF Remembers
      <3> QED
        BY <1>8, <2>3 DEF FinishTick, NotePeriod
    <2> QED
      BY <2>2, <2>3
  <1>9. ASSUME NEW l \in Loops, Exit(l) PROVE Remembers'
    BY <1>0, <1>9 DEF Exit, Remembers, TypeOK, NoLoop
  <1>10. CASE AddRoom \/ Crash
    BY <1>0, <1>10 DEF AddRoom, Crash, Remembers
  <1>11. CASE Start
    <2>1. pending = {} /\ UNCHANGED <<pending, bridge>> /\ states' = sent' /\ lap' = NoPeriod
          /\ cur' = 0
      BY <1>0, <1>11 DEF Start, RunsExist
    <2>2. bridge = NoPeriod
      BY <1>0, <1>11 DEF Start, RunsExist
    <2> QED
      BY <2>1, <2>2 DEF Remembers
  <1> QED
    BY <1>2, <1>3, <1>4, <1>5, <1>6, <1>7, <1>8, <1>9, <1>10, <1>11 DEF Next

\* Within the deadband the command of a channel is its remembered state.
LEMMA WithinDeadband ==
    ASSUME NEW c, NEW rs, NEW st, NEW l, NEW t, NEW k \in Present(c), st[k] \in BOOLEAN,
           resolveEffectiveState(c, l, t).mode # "OFF",
           resolveEffectiveState(c, l, t).targets[k] # NoTarget,
           freshAverage(rs[k], t).count > 0,
           ~Below(freshAverage(rs[k], t), resolveEffectiveState(c, l, t).targets[k],
                  c.deadband[k]),
           ~Above(freshAverage(rs[k], t), resolveEffectiveState(c, l, t).targets[k],
                  c.deadband[k])
    PROVE  Evaluate(c, rs, st, l, t).cmd[k] = st[k]
  <1> DEFINE es  == resolveEffectiveState(c, l, t)
             avg == freshAverage(rs[k], t)
  <1>1. Evaluate(c, rs, st, l, t).cmd[k]
          = (es.mode # "OFF" /\ evaluateOrOff(es.targets[k], avg, c.deadband[k], st[k]))
    BY DEF Evaluate
  <1> HIDE DEF es, avg
  <1>2. evaluateOrOff(es.targets[k], avg, c.deadband[k], st[k]) = st[k]
    BY DEF es, avg, evaluateOrOff
  <1> QED
    BY <1>1, <1>2 DEF es

\* A channel within its deadband is told again what the process last told some device
\* of it, also after publishes that failed, reloads and replaced loops.
THEOREM DeadbandHolds == Spec => DeadbandResends
  <1> DEFINE Kept(l, k) ==
               LET res == result'[l]
                   es  == resolveEffectiveState(cfg, lap, loop[l].due)
                   avg == freshAverage(Window(k), loop[l].due)
               IN  /\ tick(l)
                   /\ k \in DOMAIN res.cmd
                   /\ es.mode # "OFF" /\ es.targets[k] # NoTarget /\ avg.count > 0
                   /\ ~Below(avg, es.targets[k], cfg.deadband[k])
                   /\ ~Above(avg, es.targets[k], cfg.deadband[k])
                   => res.cmd[k] = sent[k]
  <1>1. RememberInv /\ [Next]_vars => [\A l \in Loops, k \in Channels : Kept(l, k)]_vars
    <2> SUFFICES ASSUME RememberInv, NEW l \in Loops, NEW k \in Channels PROVE Kept(l, k)
      OBVIOUS
    <2> DEFINE due == loop[l].due
               rs  == [j \in Channels |-> Window(j)]
               res == Evaluate(cfg, rs, states, lap, due)
               es  == resolveEffectiveState(cfg, lap, due)
               avg == freshAverage(Window(k), due)
    <2>1. SUFFICES ASSUME tick(l), k \in DOMAIN result'[l].cmd,
                          es.mode # "OFF", es.targets[k] # NoTarget, avg.count > 0,
                          ~Below(avg, es.targets[k], cfg.deadband[k]),
                          ~Above(avg, es.targets[k], cfg.deadband[k])
                   PROVE  result'[l].cmd[k] = sent[k]
      OBVIOUS
    <2>2. result'[l] = res
      BY <2>1 DEF tick, RememberInv, TypeOK
    <2>3. k \in Present(cfg)
      BY <2>1, <2>2, EvaluateType
    <2>4. rs[k] = Window(k) /\ states[k] \in BOOLEAN
      BY DEF RememberInv, TypeOK
    <2>5. res.cmd[k] = states[k]
      BY <2>1, <2>3, <2>4, WithinDeadband
    <2> QED
      BY <2>2, <2>5 DEF RememberInv, Remembers
  <1> QED
    BY <1>1, RemembersInit, RemembersStep, PTL DEF Spec, DeadbandResends

\* The tick due in the minute its period ends is controlled, unless a reload or a
\* replaced loop interfered with the tick before: by an override, by the next period or
\* by the grace period of this one.
THEOREM GraceHolds == Spec => GraceBridges
  <1> DEFINE Bridged(l) == /\ tick(l)
                           /\ bridge # NoPeriod
                           /\ MinuteOfDay(cfg, loop[l].due) = bridge.end
                           /\ DayOfWeek(cfg, loop[l].due) \in bridge.days
                           => result'[l].source # "none"
  <1>1. RememberInv /\ [Next]_vars => [\A l \in Loops : Bridged(l)]_vars
    <2> SUFFICES ASSUME RememberInv, NEW l \in Loops, tick(l), bridge # NoPeriod,
                        MinuteOfDay(cfg, loop[l].due) = bridge.end,
                        DayOfWeek(cfg, loop[l].due) \in bridge.days
                 PROVE  result'[l].source # "none"
      OBVIOUS
    <2> DEFINE due == loop[l].due
               es  == resolveEffectiveState(cfg, lap, due)
    <2>1. lap = bridge
      BY DEF RememberInv, Remembers
    <2>2. MinuteOfDay(cfg, due) \in Int
      <3>1. due \in Int /\ cfg.zone \in Int
        BY ControlLoopAssumption DEF RememberInv, TypeOK, Loop
      <3> HIDE DEF due
      <3>2. LocalMinute(cfg, due) \in Int
        BY <3>1, ControlAssumption DEF LocalMinute
      <3> QED
        BY <3>2, ControlAssumption DEF MinuteOfDay
    <2>3. InGrace(cfg, lap, due)
      BY <2>1, <2>2 DEF InGrace
    <2>4. es.source # "none"
      <3> HIDE DEF due
      <3> QED
        BY <2>3 DEF resolveEffectiveState
    <2>5. result'[l].source = es.source
      BY DEF tick, Evaluate, RememberInv, TypeOK
    <2> QED
      BY <2>4, <2>5
  <1> QED
    BY <1>1, RemembersInit, RemembersStep, PTL DEF Spec, GraceBridges
=============================================================================
