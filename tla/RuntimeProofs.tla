--------------------------- MODULE RuntimeProofs ---------------------------
(* What is proved of Runtime, for any number of processes, clients, calls, *)
(* upgrades, crashes, signals and timeouts.                                *)
EXTENDS Runtime, TLAPS

USE DEF daemonVars, clientVars, workVars, history

LEMMA InitTypes == Init => TypeOK
BY ProcessesAreNumbered, LimitsAreNatural DEF Init, TypeOK, Rest, Task, Step, Goal, Builds

LEMMA DaemonTypes ==
    ASSUME TypeOK, NEW p \in Process,
           DaemonStep(p) \/ Signal(p) \/ Crash(p)
    PROVE  TypeOK'
<1>. USE ProcessesAreNumbered, LimitsAreNatural DEF TypeOK, Builds
<1>1. CASE Prepare(p) BY <1>1 DEF Prepare, Mishap
<1>2. CASE Bind(p) BY <1>2 DEF Bind
<1>3. CASE TimerStep(p)
  <2>1. CASE timer[p] = "armed" BY <1>3, <2>1 DEF TimerStep
  <2>2. CASE timer[p] = "fired" /\ listener[p] = "open" BY <1>3, <2>2 DEF TimerStep
  <2>3. CASE timer[p] = "fired" /\ listener[p] # "open" BY <1>3, <2>3 DEF TimerStep
  <2>4. CASE timer[p] = "closing"
    <3>1. mishaps' \subseteq Mishap
      <4>1. mishaps' = mishaps \union
                        (IF path \in {p, None} THEN {} ELSE {"path removed late"})
        BY <1>3, <2>4 DEF TimerStep
      <4>2. "path removed late" \in Mishap BY DEF Mishap
      <4>3. mishaps \subseteq Mishap OBVIOUS
      <4>. QED BY <4>1, <4>2, <4>3
    <3>2. /\ path' = None
          /\ listener' = [listener EXCEPT ![p] = "none"]
          /\ timer' = [timer EXCEPT ![p] = "off"]
          /\ UNCHANGED <<stopping, disk, at, build, lock, clientVars, workVars, lost,
                         astray, failed, stoppers, setbacks>>
      BY <1>3, <2>4 DEF TimerStep
    <3>. QED BY <3>1, <3>2
  <2>. QED BY <1>3, <2>1, <2>2, <2>3, <2>4 DEF TimerStep
<1>4. CASE Leave(p) BY <1>4 DEF Leave, CloseOwn
<1>5. CASE Cleanup(p) BY <1>5 DEF Cleanup
<1>6. CASE Exit(p) BY <1>6 DEF Exit, End
<1>7. CASE Signal(p)
  <2>1. setbacks' \in 0..MaxEvents
    <3>1. disk \in Nat /\ setbacks \in Nat /\ disk + setbacks < MaxEvents
          /\ setbacks' = setbacks + 1
      BY <1>7 DEF Signal, Setback
    <3>. QED BY <3>1
  <2>2. listener' \in [Process -> {"none", "open", "taken"}] /\ path' \in Process \union {None}
    BY <1>7 DEF Signal, CloseOwn
  <2>. QED BY <1>7, <2>1, <2>2 DEF Signal
<1>8. CASE Crash(p) BY <1>8 DEF Crash, End, Setback
<1>. QED BY <1>1, <1>2, <1>3, <1>4, <1>5, <1>6, <1>7, <1>8 DEF DaemonStep

LEMMA OneMore ==
    ASSUME NEW f \in [Client -> [Calls -> Nat]], NEW c \in Client, NEW n
    PROVE  [f EXCEPT ![c][n] = @ + 1] \in [Client -> [Calls -> Nat]]
<1>1. \A m \in Calls : f[c][m] + 1 \in Nat OBVIOUS
<1>2. [f[c] EXCEPT ![n] = @ + 1] \in [Calls -> Nat]
  <2>1. CASE n \in Calls BY <1>1, <2>1
  <2>2. CASE n \notin Calls BY <2>2
  <2>. QED BY <2>1, <2>2
<1>. QED BY <1>2

LEMMA WorkTypes ==
    ASSUME TypeOK, Upgrade \/ \E j \in jobs : Execute(j)
    PROVE  TypeOK'
<1>1. CASE Upgrade
  BY <1>1, LimitsAreNatural DEF Upgrade, TypeOK, Builds
<1>2. ASSUME NEW j \in jobs, Execute(j) PROVE TypeOK'
  <2>1. j \in Job BY <1>2 DEF TypeOK
  <2>2. jobs' \subseteq Job
    <3>1. [j EXCEPT !.done = TRUE] \in Job BY <2>1 DEF Job
    <3>. QED BY <1>2, <3>1 DEF Execute, TypeOK
  <2>3. effects' \in [Client -> [Calls -> Nat]]
    <3>1. effects \in [Client -> [Calls -> Nat]] /\ j.client \in Client
      BY <2>1 DEF TypeOK, Job
    <3>. QED BY <1>2, <3>1, OneMore DEF Execute
  <2>. QED BY <1>2, <2>2, <2>3 DEF Execute, TypeOK
<1>. QED BY <1>1, <1>2

(* The steps of a client only move its task along. *)
LEMMA TurnTypes ==
    ASSUME TypeOK, NEW c \in Client, NEW g \in Goal, NEW s \in Step, Turn(c, g, s)
    PROVE  task' \in [Client -> Task]
<1>1. task \in [Client -> Task] BY DEF TypeOK
<1>2. task' = [task EXCEPT ![c] = [[@ EXCEPT !.goal = g] EXCEPT !.step = s]]
  BY <1>1 DEF Turn, Task
<1>3. \A r \in Task : [[r EXCEPT !.goal = g] EXCEPT !.step = s] \in Task
  BY DEF Task
<1>. QED BY <1>1, <1>2, <1>3

LEMMA TaskTypes ==
    ASSUME TypeOK, NEW c \in Client,
           \/ \E s \in Step : Goto(c, s)
           \/ Finish(c) \/ Checked(c) \/ Found(c)
    PROVE  task' \in [Client -> Task]
<1>. USE DEF Task, Goto, Finish, Checked, Found, Rest, Step, Goal
<1>1. task \in [Client -> Task] BY DEF TypeOK
<1>2. CASE \E s \in Step : Goto(c, s) BY <1>1, <1>2
<1>3. CASE Finish(c) BY <1>1, <1>3
<1>4. CASE Checked(c)
  <2>1. CASE task[c].answered
    <3>1. Finish(c) BY <1>4, <2>1, Zenon
    <3>. QED BY <1>3, <3>1
  <2>2. CASE ~ task[c].answered
    <3>1. Turn(c, "call", "send") BY <1>4, <2>2, Zenon
    <3>. QED BY <3>1, TurnTypes
  <2>. QED BY <2>1, <2>2
<1>5. CASE Found(c) BY <1>1, <1>5
<1>. QED BY <1>2, <1>3, <1>4, <1>5

LEMMA GiveTypes ==
    ASSUME TypeOK, NEW c \in Client, NEW why, Fail(c, why),
           why \in {"running", "stale", "timeout", "unavailable"}
    PROVE  /\ task' \in [Client -> Task]
           /\ failed' \in [Client -> {None, "running", "stale", "timeout", "unavailable"}]
<1>1. task' \in [Client -> Task] BY TaskTypes DEF Fail
<1>2. failed \in [Client -> {None, "running", "stale", "timeout", "unavailable"}]
  BY DEF TypeOK
<1>. QED BY <1>1, <1>2 DEF Fail

LEMMA RetryTypes ==
    ASSUME TypeOK, NEW c \in Client, Retry(c)
    PROVE  /\ task' \in [Client -> Task]
           /\ failed' \in [Client -> {None, "running", "stale", "timeout", "unavailable"}]
<1>1. task \in [Client -> Task]
      /\ failed \in [Client -> {None, "running", "stale", "timeout", "unavailable"}]
  BY DEF TypeOK
<1>2. CASE task[c].again
  <2>1. Fail(c, "unavailable") BY <1>2, Zenon DEF Retry
  <2>. QED BY <2>1, GiveTypes
<1>3. CASE ~ task[c].again
  <2>1. /\ task' = [task EXCEPT ![c] = [[@ EXCEPT !.again = TRUE] EXCEPT !.step = "launch"]]
        /\ failed' = failed
    BY <1>1, <1>3 DEF Retry, Task
  <2>2. \A r \in Task : [[r EXCEPT !.again = TRUE] EXCEPT !.step = "launch"] \in Task
    BY DEF Task, Step
  <2>. QED BY <1>1, <2>1, <2>2
<1>. QED BY <1>2, <1>3

LEMMA NoAnswerTypes ==
    ASSUME TypeOK, NoAnswer \/ Setback \/ UNCHANGED setbacks
    PROVE  setbacks' \in 0..MaxEvents
<1>1. disk \in Nat /\ setbacks \in 0..MaxEvents /\ MaxEvents \in Nat
  BY LimitsAreNatural DEF TypeOK, Builds
<1>. QED BY <1>1 DEF NoAnswer, Setback

LEMMA ClientTypes ==
    ASSUME TypeOK, NEW c \in Client,
           \/ Serve(c) \/ TimeOut(c)
           \/ \E g \in Goal \ {"guard"} : Begin(c, g)
    PROVE  TypeOK'
<1>. USE DEF Step, Goal
<1>1. CASE Check(c)
  <2>1. task' \in [Client -> Task]
    BY <1>1, TaskTypes, TurnTypes DEF Check, CheckSilence
  <2>2. setbacks' \in 0..MaxEvents
    BY <1>1, NoAnswerTypes DEF Check, CheckSilence
  <2>. QED BY <1>1, <2>1, <2>2 DEF Check, CheckSilence, TypeOK
<1>2. CASE Ask(c)
  <2>1. task' \in [Client -> Task] BY <1>2, TaskTypes DEF Ask
  <2>2. setbacks' \in 0..MaxEvents BY <1>2, NoAnswerTypes DEF Ask
  <2>3. <<c, task[c].goal>> \in Client \X Goal BY DEF TypeOK, Task
  <2>. QED BY <1>2, <2>1, <2>2, <2>3 DEF Ask, TypeOK
<1>3. CASE Vanish(c)
  <2>1. task' \in [Client -> Task] BY <1>3, TaskTypes DEF Vanish
  <2>2. setbacks' \in 0..MaxEvents BY <1>3, NoAnswerTypes DEF Vanish
  <2>. QED BY <1>3, <2>1, <2>2 DEF Vanish, TypeOK
<1>4. CASE AwaitExit(c)
  <2>1. task' \in [Client -> Task] BY <1>4, TaskTypes DEF AwaitExit
  <2>. QED BY <1>4, <2>1 DEF AwaitExit, TypeOK
<1>5. CASE Launch(c)
  <2>1. task' \in [Client -> Task] BY <1>5, TaskTypes DEF Launch
  <2>2. setbacks' \in 0..MaxEvents BY <1>5, NoAnswerTypes DEF Launch
  <2>3. /\ at' \in [Process -> {"gone", "starting", "binding", "serving", "leaving",
                                "draining"}]
        /\ mine' \in [Client -> Process \union {None}]
    <3>1. CASE UNCHANGED <<at, mine>> BY <3>1 DEF TypeOK
    <3>2. ASSUME NEW p \in Unused, at' = [at EXCEPT ![p] = "starting"],
                 mine' = [mine EXCEPT ![c] = p]
          PROVE  <2>3
      <4>1. p \in Process BY <3>2 DEF Unused
      <4>. QED BY <3>2, <4>1 DEF TypeOK
    <3>. QED BY <1>5, <3>1, <3>2 DEF Launch
  <2>. QED BY <1>5, <2>1, <2>2, <2>3 DEF Launch, TypeOK
<1>6. CASE AwaitReady(c)
  <2>1. task' \in [Client -> Task] BY <1>6, TaskTypes DEF AwaitReady
  <2>. QED BY <1>6, <2>1 DEF AwaitReady, TypeOK
<1>7. CASE Identify(c)
  <2>1. task' \in [Client -> Task] BY <1>7, TaskTypes, GiveTypes DEF Identify
  <2>2. failed' \in [Client -> {None, "running", "stale", "timeout", "unavailable"}]
    BY <1>7, GiveTypes DEF Identify, TypeOK
  <2>3. setbacks' \in 0..MaxEvents BY <1>7, NoAnswerTypes DEF Identify
  <2>. QED BY <1>7, <2>1, <2>2, <2>3 DEF Identify, TypeOK
<1>8. CASE Send(c)
  <2>1. task' \in [Client -> Task] BY <1>8, TaskTypes, RetryTypes DEF Send
  <2>2. failed' \in [Client -> {None, "running", "stale", "timeout", "unavailable"}]
    BY <1>8, RetryTypes DEF Send, TypeOK
  <2>3. jobs' \subseteq Job /\ conn' \in [Client -> Process \union {None}]
        /\ astray' \in [Client -> Nat]
    <3>1. CASE UNCHANGED <<jobs, conn, astray>> BY <3>1 DEF TypeOK
    <3>2. ASSUME NEW p \in Process,
                 jobs' = jobs \union {[client |-> c, call |-> calls[c], on |-> p,
                                       done |-> FALSE]},
                 conn' = [conn EXCEPT ![c] = p],
                 astray' = [astray EXCEPT ![c] = IF build[p] = own[c] THEN @ ELSE @ + 1]
          PROVE  <2>3
      <4>1. [client |-> c, call |-> calls[c], on |-> p, done |-> FALSE] \in Job
        BY DEF TypeOK, Job
      <4>2. (IF build[p] = own[c] THEN astray[c] ELSE astray[c] + 1) \in Nat
        BY DEF TypeOK
      <4>. QED BY <3>2, <4>1, <4>2 DEF TypeOK
    <3>. QED BY <1>8, <3>1, <3>2 DEF Send
  <2>. QED BY <1>8, <2>1, <2>2, <2>3 DEF Send, TypeOK
<1>9. CASE Reply(c)
  <2>1. task' \in [Client -> Task]
    <3>1. CASE Finish(c) BY <3>1, TaskTypes
    <3>2. CASE task' = [task EXCEPT ![c].answered = TRUE, ![c].step = "check"]
      <4>1. task \in [Client -> Task] BY DEF TypeOK
      <4>2. task' = [task EXCEPT ![c] = [[@ EXCEPT !.answered = TRUE]
                                            EXCEPT !.step = "check"]]
        BY <3>2, <4>1 DEF Task
      <4>3. \A r \in Task : [[r EXCEPT !.answered = TRUE] EXCEPT !.step = "check"]
                              \in Task
        BY DEF Task
      <4>. QED BY <4>1, <4>2, <4>3
    <3>. QED BY <1>9, <3>1, <3>2, Zenon DEF Reply
  <2>. QED BY <1>9, <2>1 DEF Reply, TypeOK
<1>10. CASE Disconnect(c)
  <2>1. <<c, calls[c]>> \in Client \X (0..MaxCalls) BY DEF TypeOK
  <2>. QED BY <1>10, <2>1, RetryTypes DEF Disconnect, TypeOK
<1>11. CASE GiveUp(c)
  <2>1. setbacks' \in 0..MaxEvents BY <1>11, NoAnswerTypes DEF GiveUp
  <2>. QED BY <1>11, <2>1, GiveTypes DEF GiveUp, TypeOK
<1>12. CASE TimeOut(c)
  <2>1. setbacks' \in 0..MaxEvents BY <1>12, NoAnswerTypes DEF TimeOut
  <2>. QED BY <1>12, <2>1, GiveTypes DEF TimeOut, TypeOK
<1>13. ASSUME NEW g \in Goal \ {"guard"}, Begin(c, g) PROVE TypeOK'
  <2>1. task' \in [Client -> Task] BY <1>13, TurnTypes DEF Begin
  <2>2. calls' \in [Client -> 0..MaxCalls]
    <3>1. calls[c] < MaxCalls /\ calls' = [calls EXCEPT ![c] = @ + 1]
      BY <1>13, Zenon DEF Begin
    <3>2. calls \in [Client -> 0..MaxCalls] /\ MaxCalls \in Nat
      BY LimitsAreNatural DEF TypeOK
    <3>3. calls[c] + 1 \in 0..MaxCalls BY <3>1, <3>2
    <3>. QED BY <3>1, <3>2, <3>3
  <2>. QED BY <1>13, <2>1, <2>2 DEF Begin, TypeOK
<1>. QED BY <1>1, <1>2, <1>3, <1>4, <1>5, <1>6, <1>7, <1>8, <1>9, <1>10, <1>11,
            <1>12, <1>13 DEF Serve
(* Every variable keeps its type, whatever fails.                          *)
THEOREM TypeCorrect == Spec => []TypeOK
<1>1. TypeOK /\ [Next]_vars => TypeOK'
  <2>1. TypeOK /\ UNCHANGED vars => TypeOK'
    BY DEF TypeOK, vars
  <2>. QED BY <2>1, DaemonTypes, WorkTypes, ClientTypes DEF Next
<1>. QED BY <1>1, InitTypes, PTL DEF Spec

-----------------------------------------------------------------------------
(* The lock belongs to the process between its preparation and its clean-up, *)
(* and a thread that closes a listener belongs to a process that stops.      *)
LockFollows ==
    /\ \A p \in Process : at[p] \in {"binding", "serving", "leaving"} <=> lock = p
    /\ \A p \in Process : timer[p] \in {"fired", "closing"} => p \in stopping

Reached == LockFollows /\ OneDaemonIsReached

LEMMA DaemonReached ==
    ASSUME TypeOK, Reached, NEW q \in Process,
           DaemonStep(q) \/ Signal(q) \/ Crash(q)
    PROVE  Reached'
<1>. USE ProcessesAreNumbered DEF Reached, LockFollows, OneDaemonIsReached
<1>0. /\ at \in [Process -> {"gone", "starting", "binding", "serving", "leaving",
                            "draining"}]
      /\ timer \in [Process -> {"off", "armed", "fired", "closing"}]
      /\ lock \in Process \union {None} /\ path \in Process \union {None}
      /\ stopping \subseteq Process
  BY DEF TypeOK
<1>1. CASE Prepare(q)
  <2>1. CASE lock = None /\ ~ Someone
    <3>1. /\ at' = [at EXCEPT ![q] = "binding"] /\ lock' = q
          /\ \A p \in Process : at[p] \notin {"binding", "serving", "leaving"}
          /\ UNCHANGED <<stopping, timer>>
      BY <1>0, <1>1, <2>1 DEF Prepare
    <3>. QED BY <1>0, <3>1
  <2>2. CASE ~ (lock = None /\ ~ Someone)
    <3>1. /\ at' = [at EXCEPT ![q] = "gone"] /\ at[q] = "starting"
          /\ mishaps \subseteq mishaps'
          /\ UNCHANGED <<lock, path, stopping, timer>>
      BY <1>0, <1>1, <2>2 DEF Prepare
    <3>. QED BY <1>0, <3>1
  <2>. QED BY <1>0, <2>1, <2>2
<1>2. CASE Bind(q) BY <1>0, <1>2 DEF Bind
<1>3. CASE TimerStep(q) BY <1>0, <1>3 DEF TimerStep
<1>4. CASE Leave(q) BY <1>0, <1>4 DEF Leave, CloseOwn
<1>5. CASE Cleanup(q) BY <1>0, <1>5 DEF Cleanup
<1>6. CASE Exit(q)
  <2>1. /\ at[q] = "draining" /\ at' = [at EXCEPT ![q] = "gone"]
        /\ stopping' = stopping \ {q} /\ timer' = [timer EXCEPT ![q] = "off"]
        /\ UNCHANGED <<lock, path, mishaps>>
    BY <1>0, <1>6 DEF Exit, End
  <2>. QED BY <1>0, <2>1
<1>7. CASE Signal(q) BY <1>0, <1>7 DEF Signal, CloseOwn
<1>8. CASE Crash(q)
  <2>1. /\ at' = [at EXCEPT ![q] = "gone"]
        /\ stopping' = stopping \ {q} /\ timer' = [timer EXCEPT ![q] = "off"]
        /\ lock' = IF lock = q THEN None ELSE lock
        /\ UNCHANGED <<path, mishaps>>
    BY <1>0, <1>8 DEF Crash, End
  <2>2. \A p \in Process : at'[p] \in {"binding", "serving", "leaving"} <=> lock' = p
    BY <1>0, <2>1
  <2>. QED BY <1>0, <2>1, <2>2
<1>. QED BY <1>1, <1>2, <1>3, <1>4, <1>5, <1>6, <1>7, <1>8 DEF DaemonStep

LEMMA ClientReached ==
    ASSUME TypeOK, Reached, NEW c \in Client,
           \/ Serve(c) \/ TimeOut(c)
           \/ \E g \in Goal \ {"guard"} : Begin(c, g)
    PROVE  Reached'
<1>. USE ProcessesAreNumbered DEF Reached, LockFollows, OneDaemonIsReached
<1>0. /\ at \in [Process -> {"gone", "starting", "binding", "serving", "leaving",
                            "draining"}]
      /\ timer \in [Process -> {"off", "armed", "fired", "closing"}]
      /\ lock \in Process \union {None} /\ path \in Process \union {None}
      /\ stopping \subseteq Process
  BY DEF TypeOK
<1>1. CASE Ask(c)
  <2>1. \A p \in Process : timer'[p] \in {"fired", "closing"} => timer[p] = timer'[p]
    BY <1>0, <1>1 DEF Ask
  <2>2. UNCHANGED <<at, lock, path, stopping, mishaps>> BY <1>0, <1>1 DEF Ask
  <2>. QED BY <1>0, <2>1, <2>2
<1>2. CASE Launch(c)
  <2>1. UNCHANGED <<lock, path, stopping, timer, mishaps>> BY <1>0, <1>2 DEF Launch
  <2>2. \/ at' = at
        \/ \E p \in Process : at[p] = "gone" /\ at' = [at EXCEPT ![p] = "starting"]
    BY <1>0, <1>2 DEF Launch, Unused
  <2>. QED BY <1>0, <2>1, <2>2
<1>3. ASSUME UNCHANGED daemonVars, UNCHANGED mishaps PROVE Reached'
  BY <1>0, <1>3
<1>. QED BY <1>1, <1>2, <1>3, Zenon
     DEF Serve, TimeOut, Begin, Check, Vanish, AwaitExit, AwaitReady, Identify, Send,
         Reply, Disconnect, GiveUp

LEMMA ReachedStays == TypeOK /\ Reached /\ [Next]_vars => Reached'
<1>1. Reached /\ (Upgrade \/ \E j \in jobs : Execute(j)) => Reached'
    BY DEF Upgrade, Execute, Reached, LockFollows, OneDaemonIsReached
<1>2. Reached /\ UNCHANGED vars => Reached'
    BY DEF Reached, LockFollows, OneDaemonIsReached, vars
<1>. QED BY <1>1, <1>2, DaemonReached, ClientReached DEF Next

(* At any time one daemon answers at most, and it can be reached unless a   *)
(* late stop() has removed its path.                                        *)
THEOREM DaemonIsReached == Spec => []OneDaemonIsReached
<1>1. Init => Reached
  BY ProcessesAreNumbered DEF Init, Reached, LockFollows, OneDaemonIsReached
<1>2. TypeOK /\ Reached /\ [Next]_vars => Reached' BY ReachedStays
<1>3. Reached => OneDaemonIsReached BY DEF Reached
<1>. QED BY <1>1, <1>2, <1>3, TypeCorrect, PTL DEF Spec

-----------------------------------------------------------------------------
(* A call that was sent once and whose connection was not lost is not sent   *)
(* again: before it is sent nothing of it exists, and afterwards its client  *)
(* is done with sending.                                                     *)
Path(t) ==
    /\ t.step \in {"idle", "send", "wait"} => ~ t.answered
    /\ t.step \in {"launch", "ready"} /\ t.goal = "call" => ~ t.answered
    /\ t.step \in {"ask", "vanish", "exit"} => t.goal # "call"

Unsent(c, n) ==
    \/ n > calls[c]
    \/ n = calls[c] /\ task[c].step \notin {"idle", "wait"} /\ ~ task[c].answered

Of(c, n) == {j \in jobs : j.client = c /\ j.call = n}

Once(c, n) ==
    /\ effects[c][n] \in {0, 1}
    /\ \A i, j \in Of(c, n) : i = j
    /\ \A j \in Of(c, n) : ~ j.done => effects[c][n] = 0

SentOnce ==
    /\ \A c \in Client : Path(task[c])
    /\ \A c \in Client, n \in Calls :
          <<c, n>> \notin lost =>
             /\ Once(c, n)
             /\ Unsent(c, n) => effects[c][n] = 0 /\ Of(c, n) = {}

(* What the steps of a client do to its task.                              *)
LEMMA GotoSteps ==
    ASSUME TypeOK, NEW c \in Client, NEW s \in Step, Goto(c, s)
    PROVE  /\ task'[c].step = s /\ task'[c].goal = task[c].goal
           /\ task'[c].answered = task[c].answered /\ task'[c].again = task[c].again
           /\ \A d \in Client \ {c} : task'[d] = task[d]
BY DEF TypeOK, Goto, Task

LEMMA TurnSteps ==
    ASSUME TypeOK, NEW c \in Client, NEW g \in Goal, NEW s \in Step, Turn(c, g, s)
    PROVE  /\ task'[c].step = s /\ task'[c].goal = g
           /\ task'[c].answered = task[c].answered /\ task'[c].again = task[c].again
           /\ \A d \in Client \ {c} : task'[d] = task[d]
BY DEF TypeOK, Turn, Task

LEMMA FinishSteps ==
    ASSUME TypeOK, NEW c \in Client, Finish(c)
    PROVE  task'[c] = Rest /\ \A d \in Client \ {c} : task'[d] = task[d]
BY DEF TypeOK, Finish

(* Moving a task, and nothing else: what was sent remains sent.            *)
LEMMA TaskMoves ==
    ASSUME TypeOK, SentOnce, NEW c \in Client,
           \A d \in Client \ {c} : task'[d] = task[d],
           Path(task'[c]),
           \/ task'[c].step \in {"idle", "wait"}
           \/ task'[c].answered
           \/ /\ ~ task[c].answered
              /\ task[c].step \notin {"idle", "wait"} \/ <<c, calls[c]>> \in lost',
           lost \subseteq lost', UNCHANGED <<calls, jobs, effects>>
    PROVE  SentOnce'
BY DEF SentOnce, Once, Unsent, Of, Calls

LEMMA FinishMoves ==
    ASSUME TypeOK, SentOnce, NEW c \in Client, Finish(c),
           lost \subseteq lost', UNCHANGED <<calls, effects, jobs>>
    PROVE  SentOnce'
<1>1. /\ task'[c].step = "idle" /\ ~ task'[c].answered /\ task'[c].goal = "call"
      /\ \A d \in Client \ {c} : task'[d] = task[d]
  BY FinishSteps DEF Rest
<1>2. Path(task'[c]) BY <1>1, Zenon DEF Path
<1>. QED BY <1>1, <1>2, TaskMoves

LEMMA CheckedMoves ==
    ASSUME TypeOK, SentOnce, NEW c \in Client, Checked(c),
           task[c].step \notin {"idle", "wait"},
           UNCHANGED <<calls, jobs, effects, lost>>
    PROVE  SentOnce'
<1>1. CASE task[c].answered
  <2>1. Finish(c) BY <1>1, Zenon DEF Checked
  <2>. QED BY <2>1, FinishMoves
<1>2. CASE ~ task[c].answered
  <2>1. Turn(c, "call", "send") BY <1>2, Zenon DEF Checked
  <2>2. /\ task'[c].step = "send" /\ task'[c].answered = task[c].answered
        /\ \A d \in Client \ {c} : task'[d] = task[d]
    BY <2>1, TurnSteps DEF Step, Goal
  <2>3. Path(task'[c]) BY <1>2, <2>2 DEF Path
  <2>. QED BY <1>2, <2>2, <2>3, TaskMoves
<1>. QED BY <1>1, <1>2

LEMMA RetryMoves ==
    ASSUME TypeOK, SentOnce, NEW c \in Client, Retry(c),
           task[c].step \in {"send", "wait"},
           task[c].step = "wait" => <<c, calls[c]>> \in lost',
           lost \subseteq lost', UNCHANGED <<calls, jobs, effects>>
    PROVE  SentOnce'
<1>1. CASE task[c].again
  <2>1. Finish(c) BY <1>1, Zenon DEF Retry, Fail
  <2>. QED BY <2>1, FinishMoves
<1>2. CASE ~ task[c].again
  <2>1. task' = [task EXCEPT ![c].again = TRUE, ![c].step = "launch"]
    BY <1>2, Zenon DEF Retry
  <2>2. /\ task'[c].step = "launch" /\ task'[c].answered = task[c].answered
        /\ \A d \in Client \ {c} : task'[d] = task[d]
    BY <2>1 DEF TypeOK, Task
  <2>3. ~ task[c].answered BY DEF SentOnce, Path
  <2>4. Path(task'[c]) BY <2>2, <2>3 DEF Path
  <2>. QED BY <2>2, <2>3, <2>4, TaskMoves
<1>. QED BY <1>1, <1>2

LEMMA GotoMoves ==
    ASSUME TypeOK, SentOnce, NEW c \in Client, NEW s \in Step, Goto(c, s),
           task[c].step \notin {"idle", "wait"},
           s \in {"ask", "vanish", "exit"} => task[c].goal # "call",
           s = "send" => ~ task[c].answered,
           s \in {"launch", "ready"} /\ task[c].goal = "call" => ~ task[c].answered,
           s \notin {"idle", "wait"},
           UNCHANGED <<calls, jobs, effects, lost>>
    PROVE  SentOnce'
<1>1. Path(task'[c]) BY GotoSteps DEF Path
<1>. QED BY <1>1, GotoSteps, TaskMoves

LEMMA SilentSteps ==
    ASSUME TypeOK, SentOnce, NEW c \in Client,
           \/ Check(c) \/ Ask(c) \/ Vanish(c) \/ AwaitExit(c) \/ Launch(c)
           \/ AwaitReady(c) \/ Identify(c) \/ GiveUp(c) \/ TimeOut(c)
    PROVE  SentOnce'
<1>0. Path(task[c]) BY DEF SentOnce
<1>. USE DEF Step, At
<1>1. CASE Check(c)
  <2>1. CASE Checked(c) BY <1>1, <2>1, CheckedMoves DEF Check, CheckSilence
  <2>2. CASE Turn(c, "guard", "ask")
    <3>1. Path(task'[c]) BY <2>2, TurnSteps DEF Path, Goal
    <3>2. ~ task[c].answered \/ task'[c].answered BY <2>2, TurnSteps DEF Goal
    <3>. QED BY <1>1, <2>2, <3>1, <3>2, TurnSteps, TaskMoves DEF Check, CheckSilence, Goal
  <2>. QED BY <1>1, <2>1, <2>2 DEF Check, CheckSilence
<1>2. CASE Ask(c)
  BY <1>0, <1>2, GotoMoves DEF Ask, Path
<1>3. CASE Vanish(c)
  BY <1>0, <1>3, GotoMoves DEF Vanish, Path
<1>4. CASE AwaitExit(c)
  BY <1>0, <1>4, GotoMoves, FinishMoves DEF AwaitExit, Path
<1>5. CASE Launch(c)
  BY <1>0, <1>5, GotoMoves DEF Launch, Found, Path
<1>6. CASE AwaitReady(c)
  BY <1>0, <1>6, GotoMoves DEF AwaitReady, Found, Path
<1>7. CASE Identify(c)
  BY <1>7, CheckedMoves, FinishMoves DEF Identify, Fail
<1>8. CASE GiveUp(c)
  BY <1>8, FinishMoves DEF GiveUp, Fail
<1>9. CASE TimeOut(c)
  BY <1>9, FinishMoves DEF TimeOut, Fail
<1>. QED BY <1>1, <1>2, <1>3, <1>4, <1>5, <1>6, <1>7, <1>8, <1>9

(* Jobs that only go away, or that are carried out for the first time.      *)
LEMMA JobsEnd ==
    ASSUME SentOnce, jobs' \subseteq jobs, UNCHANGED <<task, calls, effects, lost>>
    PROVE  SentOnce'
BY DEF SentOnce, Once, Unsent, Of

LEMMA DaemonSends ==
    ASSUME SentOnce, NEW p \in Process, DaemonStep(p) \/ Signal(p) \/ Crash(p)
    PROVE  SentOnce'
<1>1. jobs' \subseteq jobs /\ UNCHANGED <<task, calls, effects, lost>>
  BY DEF DaemonStep, Prepare, Bind, TimerStep, Leave, Cleanup, Exit, End, Signal,
         Crash, clientVars, workVars, history
<1>. QED BY <1>1, JobsEnd

LEMMA ExecuteSends ==
    ASSUME TypeOK, SentOnce, NEW j \in jobs, Execute(j)
    PROVE  SentOnce'
<1>0. /\ j \in Job /\ ~ j.done
      /\ UNCHANGED <<task, calls, lost>>
      /\ \A d \in Client, n \in Calls : effects[d][n] \in Nat
  BY DEF TypeOK, Execute, clientVars, history
<1>1. PICK k : /\ k = [j EXCEPT !.done = TRUE]
               /\ jobs' = (jobs \ {j}) \union {k}
  BY DEF Execute
<1>2. k.client = j.client /\ k.call = j.call /\ k.done
  BY <1>0, <1>1 DEF Job
<1>3. \A d \in Client, n \in Calls :
        effects'[d][n] = IF d = j.client /\ n = j.call THEN effects[d][n] + 1
                         ELSE effects[d][n]
  BY <1>0 DEF TypeOK, Execute, Job
<1>4. \A d, n : Of(d, n) = {} <=> Of(d, n)' = {}
  BY <1>0, <1>1, <1>2 DEF Of
<1>5. ASSUME NEW d \in Client, NEW n \in Calls, <<d, n>> \notin lost
      PROVE  Once(d, n)' /\ (Unsent(d, n)' => effects'[d][n] = 0 /\ Of(d, n)' = {})
  <2>0. Once(d, n) /\ (Unsent(d, n) => effects[d][n] = 0 /\ Of(d, n) = {})
    BY <1>5 DEF SentOnce
  <2>1. CASE d = j.client /\ n = j.call
    <3>1. j \in Of(d, n) /\ k \in Of(d, n)' BY <1>0, <1>1, <1>2, <2>1 DEF Of
    <3>2. effects[d][n] = 0 BY <1>0, <2>0, <3>1 DEF Once
    <3>3. Of(d, n)' = {k} BY <1>1, <1>2, <2>0, <2>1, <3>1 DEF Once, Of
    <3>4. effects'[d][n] = 1 BY <1>3, <2>1, <3>2
    <3>5. Once(d, n)' BY <1>2, <3>3, <3>4 DEF Once
    <3>6. ~ Unsent(d, n) BY <2>0, <3>1
    <3>. QED BY <1>0, <3>5, <3>6 DEF Unsent
  <2>2. CASE ~ (d = j.client /\ n = j.call)
    <3>1. Of(d, n)' = Of(d, n) BY <1>1, <1>2, <2>2 DEF Of
    <3>2. effects'[d][n] = effects[d][n] BY <1>3, <2>2
    <3>. QED BY <1>0, <2>0, <3>1, <3>2 DEF Once, Unsent
  <2>. QED BY <2>1, <2>2
<1>. QED BY <1>0, <1>5 DEF SentOnce

LEMMA BeginSends ==
    ASSUME TypeOK, SentOnce, NEW c \in Client, NEW g \in Goal \ {"guard"}, Begin(c, g)
    PROVE  SentOnce'
<1>0. /\ At(c, "idle") /\ calls[c] < MaxCalls
      /\ calls' = [calls EXCEPT ![c] = @ + 1]
      /\ UNCHANGED <<jobs, effects, lost>>
  BY Zenon DEF Begin, workVars
<1>1. PICK s \in {"launch", "ask", "send", "check"} :
        Turn(c, g, s) /\ (s = "ask" => g # "call")
  <2>1. Turn(c, g, CASE g = "start" -> "launch"
                     [] g \in {"stop", "restart"} -> "ask"
                     [] g = "call" /\ c \in verified -> "send"
                     [] OTHER -> "check")
    BY Zenon DEF Begin
  <2>. QED BY <2>1 DEF Goal
<1>2. ~ task[c].answered BY <1>0 DEF SentOnce, Path, At
<1>3. /\ task'[c].step = s /\ task'[c].goal = g /\ ~ task'[c].answered
      /\ \A d \in Client \ {c} : task'[d] = task[d]
  BY <1>1, <1>2, TurnSteps DEF Step
<1>4. Path(task'[c]) BY <1>1, <1>3 DEF Path
<1>5. calls[c] \in Nat /\ \A d \in Client : calls'[d] = IF d = c THEN calls[c] + 1
                                                      ELSE calls[d]
  BY <1>0, LimitsAreNatural DEF TypeOK
<1>6. \A d \in Client, n \in Calls : Unsent(d, n)' => Unsent(d, n)
  BY <1>0, <1>3, <1>5, LimitsAreNatural DEF Unsent, Calls
<1>7. \A d \in Client : \A n : Once(d, n) => Once(d, n)' BY <1>0 DEF Once, Of
<1>8. \A d \in Client : Path(task'[d]) BY <1>3, <1>4 DEF SentOnce
<1>. QED BY <1>0, <1>6, <1>7, <1>8 DEF SentOnce, Of

LEMMA SendSends ==
    ASSUME TypeOK, SentOnce, NEW c \in Client, Send(c)
    PROVE  SentOnce'
<1>0. At(c, "send") /\ UNCHANGED <<calls, effects, lost>>
  BY DEF Send, daemonVars
<1>1. CASE UNCHANGED jobs /\ Retry(c) BY <1>0, <1>1, RetryMoves DEF At
<1>2. ASSUME NEW p \in Process, Goto(c, "wait"),
             jobs' = jobs \union {[client |-> c, call |-> calls[c], on |-> p,
                                   done |-> FALSE]}
      PROVE  SentOnce'
  <2>1. /\ task'[c].step = "wait" /\ task'[c].answered = task[c].answered
        /\ \A d \in Client \ {c} : task'[d] = task[d]
    BY <1>2, GotoSteps DEF Step
  <2>2. ~ task[c].answered /\ Path(task'[c])
    BY <1>0, <2>1 DEF SentOnce, Path, At
  <2>3. PICK k : k.client = c /\ k.call = calls[c] /\ ~ k.done
                 /\ jobs' = jobs \union {k}
    BY <1>2
  <2>4. ASSUME NEW d \in Client, NEW n \in Calls, <<d, n>> \notin lost
        PROVE  Once(d, n)' /\ (Unsent(d, n)' => effects'[d][n] = 0 /\ Of(d, n)' = {})
    <3>0. Once(d, n) /\ (Unsent(d, n) => effects[d][n] = 0 /\ Of(d, n) = {})
      BY <2>4 DEF SentOnce
    <3>1. CASE d = c /\ n = calls[c]
      <4>1. effects[d][n] = 0 /\ Of(d, n) = {}
        BY <1>0, <2>2, <3>0, <3>1 DEF Unsent, At
      <4>2. Of(d, n)' = {k} BY <2>3, <3>1, <4>1 DEF Of
      <4>3. ~ Unsent(d, n)'
        BY <1>0, <2>1, <3>1 DEF Unsent, TypeOK, Calls
      <4>. QED BY <1>0, <4>1, <4>2, <4>3 DEF Once
    <3>2. CASE ~ (d = c /\ n = calls[c])
      <4>1. Of(d, n)' = Of(d, n) BY <2>3, <3>2 DEF Of
      <4>2. Unsent(d, n)' => Unsent(d, n) BY <1>0, <2>1, <3>2 DEF Unsent
      <4>. QED BY <1>0, <3>0, <4>1, <4>2 DEF Once
    <3>. QED BY <3>1, <3>2
  <2>. QED BY <1>0, <2>1, <2>2, <2>4 DEF SentOnce
<1>. QED BY <1>1, <1>2 DEF Send

LEMMA ReplySends ==
    ASSUME TypeOK, SentOnce, NEW c \in Client, Reply(c)
    PROVE  SentOnce'
<1>0. /\ At(c, "wait") /\ UNCHANGED <<calls, effects, lost>> /\ jobs' \subseteq jobs
  BY DEF Reply, history
<1>1. /\ task'[c].step = "idle" \/ task'[c].answered
      /\ Path(task'[c])
      /\ \A d \in Client \ {c} : task'[d] = task[d]
  <2>1. CASE Finish(c)
    <3>1. /\ task'[c].step = "idle" /\ ~ task'[c].answered
          /\ \A d \in Client \ {c} : task'[d] = task[d]
      BY <2>1, FinishSteps DEF Rest
    <3>. QED BY <3>1, Zenon DEF Path
  <2>2. CASE ~ Finish(c)
    <3>1. task' = [task EXCEPT ![c].answered = TRUE, ![c].step = "check"]
      BY <2>2, Zenon DEF Reply
    <3>2. /\ task'[c].step = "check" /\ task'[c].answered
          /\ \A d \in Client \ {c} : task'[d] = task[d]
      BY <3>1 DEF TypeOK, Task
    <3>. QED BY <3>2 DEF Path
  <2>. QED BY <2>1, <2>2
<1>. QED BY <1>0, <1>1 DEF SentOnce, Once, Unsent, Of

LEMMA DisconnectSends ==
    ASSUME TypeOK, SentOnce, NEW c \in Client, Disconnect(c)
    PROVE  SentOnce'
BY RetryMoves DEF Disconnect, At, workVars

(* An operation is carried out again only after the connection of its call  *)
(* was lost.                                                                *)
THEOREM RepeatsNeedALoss == Spec => []RepeatsFollowALoss
<1>1. Init => SentOnce
  BY DEF Init, SentOnce, Path, Once, Unsent, Of, Rest
<1>2. TypeOK /\ SentOnce /\ [Next]_vars => SentOnce'
  <2>. SUFFICES ASSUME TypeOK, SentOnce, [Next]_vars PROVE SentOnce'
    OBVIOUS
  <2>1. CASE Upgrade
    BY <2>1, JobsEnd DEF Upgrade, clientVars, workVars, history
  <2>2. CASE UNCHANGED vars
    BY <2>2, JobsEnd DEF vars, clientVars, workVars, history
  <2>3. ASSUME NEW c \in Client, Serve(c) PROVE SentOnce'
    BY <2>3, SilentSteps, SendSends, ReplySends, DisconnectSends DEF Serve
  <2>. QED BY <2>1, <2>2, <2>3, SilentSteps, BeginSends, DaemonSends, ExecuteSends
           DEF Next
<1>3. SentOnce => RepeatsFollowALoss
  BY DEF SentOnce, Once, RepeatsFollowALoss
<1>. QED BY <1>1, <1>2, <1>3, TypeCorrect, PTL DEF Spec

-----------------------------------------------------------------------------
(* A client that nobody disturbs.  What it relies on: a daemon is asked to   *)
(* stop by itself alone and while it waits for that, so that a daemon which  *)
(* answers goes on answering at every other step, and the race for the lock  *)
(* is lost to a daemon that will answer or is about to.                      *)

RestOf(c) ==
    /\ At(c, "idle") => task[c] = Rest
    /\ calls[c] = 0 => /\ At(c, "idle") /\ c \notin verified
                       /\ astray[c] = 0 /\ failed[c] = None
    /\ task[c].step \in {"ask", "vanish", "exit"}
          => task[c].goal \in {"guard", "stop", "restart"}
    /\ At(c, "vanish") => <<c, task[c].goal>> \in stoppers
    /\ c \in verified => ~ At(c, "check") /\ task[c].goal # "guard"
    /\ task[c].goal = "guard"
          => task[c].step \in {"ask", "vanish", "exit", "launch", "ready", "identify"}
    /\ task[c].step \in {"check", "send", "wait"} => task[c].goal = "call"
    /\ At(c, "check") /\ ~ task[c].answered => ~ task[c].again

\* With nothing wrong: daemons stop for the client only, and only when it waits.
Waits(c) ==
    /\ \A p \in stopping : at[p] \in {"serving", "leaving", "draining"}
    /\ \A p \in Process : timer[p] = "armed" => At(c, "vanish") /\ Answers(p)
    /\ At(c, "ready") => Someone \/ \E p \in Process : at[p] \in {"starting", "binding"}
    /\ At(c, "identify") => Someone
    /\ At(c, "send") /\ task[c].again => Someone
    /\ At(c, "wait") => conn[c] \in Process /\ Answers(conn[c])
    /\ failed[c] # "unavailable"

\* While the client's code is on disk, a daemon launched since has it as well.
Fresh(c) ==
    /\ failed[c] = "stale" => own[c] # disk
    /\ task[c].goal = "guard" /\ own[c] = disk =>
          /\ \A p \in Process : at[p] = "binding" => build[p] = own[c]
          /\ \A p \in Process : Answers(p) /\ build[p] # own[c]
                                   => task[c].step \in {"ask", "vanish"}

\* With no other client the only process is the one it has launched.
Alone(c) == \A d \in Client \ {c} : calls[d] = 0
OwnsAll(c) ==
    /\ failed[c] # "running"
    /\ \A p \in Process : at[p] # "gone" => p = mine[c]
    /\ \A p \in Process : at[p] \in {"starting", "binding"} => At(c, "ready")
    /\ \A p \in stopping : task[c].step \in {"vanish", "exit"}
    /\ At(c, "vanish") => \A p \in Process : Answers(p) => timer[p] = "armed"
    /\ At(c, "exit") => ~ Someone

\* After an operation with other code somebody answers, or the guard is at work.
Matches(c) == \E p \in Process : Answers(p) /\ build[p] = own[c]
Obeys(c) == <<c, "restart">> \notin stoppers /\ <<c, "stop">> \notin stoppers
Refuses(c) ==
    /\ astray[c] \in {0, 1}
    /\ c \in verified => Matches(c)
    /\ astray[c] = 1 =>
          /\ Someone \/ (task[c].goal = "guard"
                           /\ task[c].step \in {"vanish", "exit", "launch", "ready"})
          /\ task[c].goal = "call" => task[c].step \notin {"launch", "ready"}
          /\ At(c, "send") => Matches(c)

CalmOf(c) ==
    /\ own[c] <= disk
    /\ setbacks = 0 => Fresh(c)
    /\ ~ Disturbed(c) => Waits(c)
    /\ ~ Disturbed(c) /\ Alone(c) => OwnsAll(c)
    /\ ~ Disturbed(c) /\ Obeys(c) => Refuses(c)

Leaving == \A p \in Process : at[p] \in {"leaving", "draining"} => p \in stopping

CalmInv == Leaving /\ \A c \in Client : RestOf(c) /\ CalmOf(c)

ClientStep(c) ==
    Serve(c) \/ TimeOut(c) \/ \E g \in Goal \ {"guard"} : Begin(c, g)

LEMMA OthersStay ==
    ASSUME TypeOK, NEW d \in Client, ClientStep(d)
    PROVE  \A c \in Client \ {d} : task'[c] = task[c]
<1>. DEFINE Others == \A c \in Client \ {d} : task'[c] = task[c]
<1>1. ASSUME \/ \E s : Goto(d, s)
             \/ \E g, s : Turn(d, g, s)
             \/ Finish(d) \/ Checked(d) \/ Found(d) \/ Retry(d)
             \/ \E why : Fail(d, why)
      PROVE  Others
  BY <1>1 DEF TypeOK, Goto, Turn, Finish, Checked, Found, Retry, Fail
<1>2. CASE Check(d) BY <1>1, <1>2, Zenon DEF Check, CheckSilence
<1>3. CASE Ask(d) BY <1>1, <1>3, Zenon DEF Ask
<1>4. CASE Vanish(d) BY <1>1, <1>4, Zenon DEF Vanish
<1>5. CASE AwaitExit(d) BY <1>1, <1>5, Zenon DEF AwaitExit
<1>6. CASE Launch(d) BY <1>1, <1>6, Zenon DEF Launch
<1>7. CASE AwaitReady(d) BY <1>1, <1>7, Zenon DEF AwaitReady
<1>8. CASE Identify(d) BY <1>1, <1>8, Zenon DEF Identify
<1>9. CASE Send(d) BY <1>1, <1>9, Zenon DEF Send
<1>10. CASE Reply(d)
  <2>1. CASE Finish(d) BY <1>1, <2>1
  <2>2. CASE task' = [task EXCEPT ![d].answered = TRUE, ![d].step = "check"]
    BY <2>2 DEF TypeOK
  <2>. QED BY <1>10, <2>1, <2>2, Zenon DEF Reply
<1>11. CASE Disconnect(d) BY <1>1, <1>11, Zenon DEF Disconnect
<1>12. CASE GiveUp(d) BY <1>1, <1>12, Zenon DEF GiveUp
<1>13. CASE TimeOut(d) BY <1>1, <1>13, Zenon DEF TimeOut
<1>14. CASE \E g \in Goal \ {"guard"} : Begin(d, g) BY <1>1, <1>14, Zenon DEF Begin
<1>. QED BY <1>2, <1>3, <1>4, <1>5, <1>6, <1>7, <1>8, <1>9, <1>10, <1>11, <1>12,
            <1>13, <1>14, Zenon DEF ClientStep, Serve

\* What a step of one client leaves to the others, and to the daemons.
Reaches(d) ==
    /\ UNCHANGED <<disk, build, lock, path, stopping, listener, mishaps>>
    /\ stoppers \subseteq stoppers' /\ \A s \in stoppers' \ stoppers : s[1] = d
    /\ setbacks' \in {setbacks, setbacks + 1}
    /\ Ask(d) \/ UNCHANGED timer
    /\ Launch(d) \/ UNCHANGED at
    /\ \A p \in Process : at'[p] = at[p] \/ (at[p] = "gone" /\ at'[p] = "starting")
    /\ \A c \in Client \ {d} :
          /\ own'[c] = own[c] /\ calls'[c] = calls[c] /\ mine'[c] = mine[c]
          /\ conn'[c] = conn[c] /\ failed'[c] = failed[c]
          /\ astray'[c] = astray[c] /\ (c \in verified' <=> c \in verified)
    /\ calls'[d] \in {calls[d], calls[d] + 1}

LEMMA ClientReach ==
    ASSUME TypeOK, NEW d \in Client, ClientStep(d)
    PROVE  Reaches(d)
<1>. USE DEF TypeOK, NoAnswer, Setback, daemonVars, workVars, history, Reaches
<1>2. CASE Check(d) BY <1>2 DEF Check, CheckSilence
<1>3. CASE Ask(d) BY <1>3 DEF Ask
<1>4. CASE Vanish(d) BY <1>4 DEF Vanish
<1>5. CASE AwaitExit(d) BY <1>5 DEF AwaitExit
<1>6. CASE Launch(d) BY <1>6 DEF Launch, Unused
<1>7. CASE AwaitReady(d) BY <1>7 DEF AwaitReady
<1>8. CASE Identify(d) BY <1>8 DEF Identify, Fail
<1>9. CASE Send(d) BY <1>9 DEF Send, Retry, Fail
<1>10. CASE Reply(d) BY <1>10 DEF Reply
<1>11. CASE Disconnect(d) BY <1>11 DEF Disconnect, Retry, Fail
<1>12. CASE GiveUp(d) BY <1>12 DEF GiveUp, Fail
<1>13. CASE TimeOut(d) BY <1>13 DEF TimeOut, Fail
<1>14. CASE \E g \in Goal \ {"guard"} : Begin(d, g) BY <1>14 DEF Begin
<1>. HIDE DEF TypeOK, NoAnswer, Setback, daemonVars, workVars, history, Reaches
<1>. QED
  BY <1>2, <1>3, <1>4, <1>5, <1>6, <1>7, <1>8, <1>9, <1>10, <1>11, <1>12,
            <1>13, <1>14, Zenon DEF ClientStep, Serve

\* What a step of a daemon does to those that answer, as long as nothing went
\* wrong.
LEMMA DaemonReach ==
    ASSUME TypeOK, Reached, NEW q \in Process, DaemonStep(q)
    PROVE  /\ UNCHANGED <<disk, clientVars, lost, astray, failed, stoppers, setbacks>>
           /\ mishaps \subseteq mishaps'
           /\ \A p \in Process :
                 /\ at'[p] = "binding" =>
                       (at[p] = "binding" /\ build'[p] = build[p]) \/ build'[p] = disk
                 /\ Answers(p)' => /\ build'[p] = build[p]
                                   /\ Answers(p) \/ at[p] = "binding"
                 /\ at'[p] # "gone" => at[p] # "gone"
                 /\ at'[p] \in {"starting", "binding"} => at[p] \in {"starting", "binding"}
                 /\ p \in stopping' => p \in stopping \/ timer[p] = "armed"
                 /\ timer'[p] = "armed" => timer[p] = "armed"
                 /\ timer[p] = "armed" => timer'[p] = "armed" \/ ~ Answers(p)'
<1>. USE ProcessesAreNumbered DEF Answers
<1>0. /\ at \in [Process -> {"gone", "starting", "binding", "serving", "leaving",
                            "draining"}]
      /\ timer \in [Process -> {"off", "armed", "fired", "closing"}]
      /\ lock \in Process \union {None} /\ path \in Process \union {None}
      /\ stopping \subseteq Process /\ build \in [Process -> Builds]
  BY DEF TypeOK
<1>. USE DEF history
<1>1. CASE Prepare(q) BY <1>0, <1>1 DEF Prepare
<1>2. CASE Bind(q) BY <1>0, <1>2 DEF Bind
<1>3. CASE TimerStep(q) BY <1>0, <1>3 DEF TimerStep
<1>4. CASE Leave(q) BY <1>0, <1>4 DEF Leave, CloseOwn
<1>5. CASE Cleanup(q) BY <1>0, <1>5 DEF Cleanup
<1>6. CASE Exit(q) BY <1>0, <1>6 DEF Exit, End
<1>. QED BY <1>1, <1>2, <1>3, <1>4, <1>5, <1>6, Zenon DEF DaemonStep

\* A step of a daemon, for a client that nothing disturbs: one that answers goes
\* on answering unless it was asked to stop.
LEMMA DaemonAnswers ==
    ASSUME TypeOK, Reached, Leaving, NEW c \in Client, Waits(c),
           NEW q \in Process, DaemonStep(q), mishaps = {}, mishaps' = {}
    PROVE  /\ \A p \in Process : Answers(p) => \/ Answers(p)' /\ timer'[p] = timer[p]
                                               \/ timer[p] = "armed" /\ timer'[p] # "armed"
           /\ \A p \in stopping' : at'[p] \in {"serving", "leaving", "draining"}
           /\ (\E p \in Process : at[p] \in {"starting", "binding"}) =>
                 \/ \E p \in Process : Answers(p)'
                 \/ \E p \in Process : at'[p] \in {"starting", "binding"}
                 \/ \E p \in Process : timer[p] = "armed"
<1>. USE ProcessesAreNumbered DEF Answers
<1>0. /\ at \in [Process -> {"gone", "starting", "binding", "serving", "leaving",
                            "draining"}]
      /\ timer \in [Process -> {"off", "armed", "fired", "closing"}]
      /\ lock \in Process \union {None} /\ path \in Process \union {None}
      /\ stopping \subseteq Process
  BY DEF TypeOK
<1>1. /\ \A p \in Process : at[p] \in {"binding", "serving", "leaving"} <=> lock = p
      /\ \A p \in Process : timer[p] \in {"fired", "closing"} => p \in stopping
      /\ \A p \in Process : at[p] = "serving" /\ p \notin stopping => path = p
      /\ \A p \in stopping : at[p] \in {"serving", "leaving", "draining"}
      /\ \A p \in Process : at[p] \in {"leaving", "draining"} => p \in stopping
      /\ \A p \in Process : timer[p] = "armed" => Answers(p)
  BY DEF Reached, LockFollows, OneDaemonIsReached, Waits, Leaving
<1>2. CASE Prepare(q)
  <2>1. CASE lock = None /\ ~ Someone
    <3>1. /\ at' = [at EXCEPT ![q] = "binding"] /\ UNCHANGED <<stopping, timer>>
          /\ at[q] = "starting" /\ \A p \in Process : ~ Answers(p)
      BY <1>0, <1>2, <2>1 DEF Prepare, Someone
    <3>. QED BY <1>0, <1>1, <3>1
  <2>2. CASE ~ (lock = None /\ ~ Someone)
    <3>1. /\ at' = [at EXCEPT ![q] = "gone"] /\ at[q] = "starting"
          /\ lock \notin stopping /\ UNCHANGED <<path, stopping, timer>>
      BY <1>0, <1>2, <2>2 DEF Prepare
    <3>2. CASE Someone BY <1>0, <1>1, <3>1, <3>2 DEF Someone
    <3>3. CASE lock # None
      <4>1. lock \in Process /\ at[lock] \in {"binding", "serving", "leaving"}
        BY <1>0, <1>1, <3>3
      <4>. QED BY <1>0, <1>1, <3>1, <4>1
    <3>. QED BY <2>2, <3>2, <3>3
  <2>. QED BY <2>1, <2>2
<1>3. CASE Bind(q)
  <2>1. /\ at[q] = "binding" /\ at' = [at EXCEPT ![q] = "serving"] /\ path' = q
        /\ UNCHANGED <<stopping, timer>>
    BY <1>3 DEF Bind
  <2>. QED BY <1>0, <1>1, <2>1
<1>4. CASE TimerStep(q)
  <2>1. at' = at BY <1>4 DEF TimerStep
  <2>2. CASE timer[q] = "armed"
    BY <1>0, <1>1, <1>4, <2>1, <2>2 DEF TimerStep
  <2>3. CASE timer[q] # "armed"
    <3>1. /\ stopping' = stopping /\ q \in stopping
          /\ path' = path \/ (path' = None /\ path \in {q, None})
          /\ \A p \in Process \ {q} : timer'[p] = timer[p]
      BY <1>0, <1>1, <1>4, <2>3 DEF TimerStep
    <3>. QED BY <1>0, <1>1, <2>1, <3>1
  <2>. QED BY <2>2, <2>3
<1>5. CASE Leave(q)
  <2>1. /\ at[q] = "serving" /\ q \in stopping /\ at' = [at EXCEPT ![q] = "leaving"]
        /\ UNCHANGED <<stopping, timer>>
    BY <1>5 DEF Leave
  <2>. QED BY <1>0, <1>1, <2>1
<1>6. CASE Cleanup(q)
  <2>1. /\ at[q] = "leaving" /\ at' = [at EXCEPT ![q] = "draining"]
        /\ UNCHANGED <<stopping, timer>>
    BY <1>6 DEF Cleanup
  <2>. QED BY <1>0, <1>1, <2>1
<1>7. CASE Exit(q)
  <2>1. /\ at[q] = "draining" /\ at' = [at EXCEPT ![q] = "gone"]
        /\ stopping' = stopping \ {q} /\ timer' = [timer EXCEPT ![q] = "off"]
        /\ path' = path
    BY <1>7 DEF Exit, End
  <2>. QED BY <1>0, <1>1, <2>1
<1>. QED BY <1>2, <1>3, <1>4, <1>5, <1>6, <1>7, Zenon DEF DaemonStep

LEMMA DaemonLeaves ==
    ASSUME TypeOK, Leaving, NEW q \in Process, DaemonStep(q)
    PROVE  Leaving'
<1>. USE DEF TypeOK, Leaving
<1>1. CASE Prepare(q) BY <1>1 DEF Prepare
<1>2. CASE Bind(q) BY <1>2 DEF Bind
<1>3. CASE TimerStep(q) BY <1>3 DEF TimerStep
<1>4. CASE Leave(q) BY <1>4 DEF Leave
<1>5. CASE Cleanup(q) BY <1>5 DEF Cleanup
<1>6. CASE Exit(q) BY <1>6 DEF Exit, End
<1>. HIDE DEF TypeOK, Leaving
<1>. QED BY <1>1, <1>2, <1>3, <1>4, <1>5, <1>6, Zenon DEF DaemonStep

LEMMA DaemonCalm ==
    ASSUME TypeOK, Reached, CalmInv, NEW q \in Process, DaemonStep(q)
    PROVE  CalmInv'
<1>1. Leaving' BY DaemonLeaves DEF CalmInv
<1>2. /\ UNCHANGED <<disk, clientVars, lost, astray, failed, stoppers, setbacks>>
      /\ mishaps \subseteq mishaps'
  BY DaemonReach
<1>3. ASSUME NEW c \in Client PROVE RestOf(c)' /\ own'[c] <= disk'
  BY <1>2, <1>3 DEF CalmInv, RestOf, CalmOf, clientVars, At
<1>4. ASSUME NEW c \in Client, setbacks = 0 PROVE Fresh(c)'
  BY <1>2, <1>4, DaemonReach DEF CalmInv, CalmOf, Fresh, clientVars
<1>. SUFFICES ASSUME NEW c \in Client, ~ Disturbed(c)'
              PROVE  Waits(c)' /\ (Alone(c) => OwnsAll(c)') /\ (Obeys(c) => Refuses(c)')
  BY <1>1, <1>2, <1>3, <1>4 DEF CalmInv, CalmOf, Alone, Obeys, clientVars
<1>5. /\ Waits(c) /\ mishaps = {} /\ mishaps' = {} /\ RestOf(c) /\ Leaving
      /\ Alone(c) => OwnsAll(c)
      /\ Obeys(c) => Refuses(c)
  BY <1>2 DEF CalmInv, CalmOf, Disturbed
<1>6. /\ \A p \in Process : Answers(p) => \/ Answers(p)' /\ timer'[p] = timer[p]
                                          \/ timer[p] = "armed" /\ timer'[p] # "armed"
      /\ \A p \in stopping' : at'[p] \in {"serving", "leaving", "draining"}
      /\ (\E p \in Process : at[p] \in {"starting", "binding"}) =>
            \/ \E p \in Process : Answers(p)'
            \/ \E p \in Process : at'[p] \in {"starting", "binding"}
            \/ \E p \in Process : timer[p] = "armed"
  BY <1>5, DaemonAnswers
<1>7. \A p \in Process :
         /\ Answers(p)' => build'[p] = build[p] /\ (Answers(p) \/ at[p] = "binding")
         /\ at'[p] # "gone" => at[p] # "gone"
         /\ at'[p] \in {"starting", "binding"} => at[p] \in {"starting", "binding"}
         /\ p \in stopping' => p \in stopping \/ timer[p] = "armed"
         /\ timer'[p] = "armed" => timer[p] = "armed"
         /\ timer[p] = "armed" => timer'[p] = "armed" \/ ~ Answers(p)'
  BY DaemonReach
<1>8. \A p \in Process : timer[p] = "armed" => At(c, "vanish") BY <1>5 DEF Waits
<1>9. /\ UNCHANGED <<task, conn, failed, own, mine, verified, astray, stoppers>>
      /\ stopping' \subseteq Process
  <2>1. stopping' \subseteq Process BY DaemonTypes DEF TypeOK
  <2>. QED BY <1>2, <2>1 DEF clientVars
<1>. HIDE DEF Answers
<1>10. Waits(c)'
  BY <1>5, <1>6, <1>7, <1>8, <1>9 DEF Waits, Someone, At
<1>11. ASSUME Alone(c) PROVE OwnsAll(c)'
  BY <1>5, <1>6, <1>7, <1>8, <1>9, <1>11 DEF OwnsAll, Someone, At
<1>12. ASSUME Obeys(c) PROVE Refuses(c)'
  <2>1. Refuses(c) BY <1>5, <1>12
  <2>2. At(c, "vanish") => task[c].goal = "guard"
    BY <1>5, <1>12 DEF RestOf, Obeys, At
  <2>3. Matches(c) => Matches(c)' \/ At(c, "vanish")
    BY <1>6, <1>7, <1>8, <1>9 DEF Matches
  <2>4. Someone => Someone' \/ At(c, "vanish") BY <1>6, <1>8 DEF Someone
  <2>5. c \in verified => ~ At(c, "vanish") BY <1>5, <2>2 DEF RestOf
  <2>. QED BY <1>9, <2>1, <2>2, <2>3, <2>4, <2>5 DEF Refuses, At
<1>. QED BY <1>10, <1>11, <1>12

\* A step of another client.
LEMMA OthersCalm ==
    ASSUME TypeOK, Reached, CalmInv, NEW d \in Client, ClientStep(d),
           NEW c \in Client \ {d}
    PROVE  RestOf(c)' /\ CalmOf(c)'
<1>1. /\ UNCHANGED <<disk, build, lock, path, stopping, listener, mishaps>>
      /\ stoppers \subseteq stoppers' /\ \A s \in stoppers' \ stoppers : s[1] = d
      /\ setbacks' \in {setbacks, setbacks + 1}
      /\ Ask(d) \/ UNCHANGED timer
      /\ \A p \in Process : at'[p] = at[p] \/ (at[p] = "gone" /\ at'[p] = "starting")
      /\ own'[c] = own[c] /\ calls'[c] = calls[c] /\ mine'[c] = mine[c]
      /\ conn'[c] = conn[c] /\ failed'[c] = failed[c]
      /\ astray'[c] = astray[c] /\ (c \in verified' <=> c \in verified)
      /\ calls'[d] \in {calls[d], calls[d] + 1}
  BY ClientReach, Zenon DEF Reaches
<1>2. task'[c] = task[c] BY OthersStay
<1>3. RestOf(c) /\ CalmOf(c) /\ RestOf(d) /\ Leaving BY DEF CalmInv
<1>4. RestOf(c)' BY <1>1, <1>2, <1>3 DEF RestOf, At
<1>5. setbacks' = 0 => setbacks = 0 BY <1>1, LimitsAreNatural DEF TypeOK
<1>6. stopping \subseteq Process /\ conn[c] \in Process \union {None} BY DEF TypeOK
<1>7. \A p \in Process : Answers(p)' <=> Answers(p) BY <1>1 DEF Answers
<1>8. setbacks' = 0 => Fresh(c)'
  BY <1>1, <1>2, <1>3, <1>5, <1>7 DEF CalmOf, Fresh
<1>. HIDE DEF Answers
<1>. SUFFICES ASSUME ~ Disturbed(c)'
              PROVE  Waits(c)' /\ (Alone(c)' => OwnsAll(c)') /\ (Obeys(c)' => Refuses(c)')
  BY <1>1, <1>3, <1>4, <1>8 DEF CalmOf
<1>9. ~ Disturbed(c)
  <2>1. setbacks \in Nat BY LimitsAreNatural DEF TypeOK
  <2>. QED BY <1>1, <2>1 DEF Disturbed
<1>10. UNCHANGED timer
  <2>1. CASE Ask(d)
    <3>1. CASE stoppers' = stoppers \union {<<d, task[d].goal>>}
      <4>1. <<d, task[d].goal>> \in stoppers' /\ <<d, task[d].goal>>[1] = d BY <3>1
      <4>. QED BY <4>1 DEF Disturbed
    <3>2. CASE stoppers' # stoppers \union {<<d, task[d].goal>>}
      BY <2>1, <3>2 DEF Ask
    <3>. QED BY <3>1, <3>2
  <2>. QED BY <1>1, <2>1
<1>11. Waits(c)'
  BY <1>1, <1>2, <1>3, <1>6, <1>7, <1>9, <1>10 DEF CalmOf, Waits, Someone, At
<1>12. ASSUME Alone(c)' PROVE OwnsAll(c)'
  <2>1. \A e \in Client \ {c} : calls[e] = 0
    <3>1. \A e \in Client \ {d} : calls'[e] = calls[e] BY ClientReach, Zenon DEF Reaches
    <3>2. calls[d] \in Nat BY LimitsAreNatural DEF TypeOK
    <3>. QED BY <1>1, <1>12, <3>1, <3>2 DEF Alone
  <2>2. At(d, "idle") /\ calls'[d] = 0
    <3>1. calls[d] = 0 /\ d \in Client \ {c} BY <2>1
    <3>2. calls'[d] = 0 BY <1>12, <3>1 DEF Alone
    <3>. QED BY <1>3, <3>1, <3>2 DEF RestOf
  <2>3. CASE \E g \in Goal \ {"guard"} : Begin(d, g)
    <3>1. calls' = [calls EXCEPT ![d] = @ + 1] BY <2>3, Zenon DEF Begin
    <3>2. calls \in [Client -> 0..MaxCalls] BY DEF TypeOK
    <3>3. calls'[d] = calls[d] + 1 BY <3>1, <3>2
    <3>. QED BY <2>1, <2>2, <3>3
  <2>4. CASE Serve(d) \/ TimeOut(d)
    BY <2>2, <2>4 DEF Serve, TimeOut, Check, Ask, Vanish, AwaitExit, Launch, AwaitReady,
       Identify, Send, Reply, Disconnect, GiveUp, Hopeless, At
  <2>. QED BY <2>3, <2>4 DEF ClientStep
<1>13. ASSUME Obeys(c)' PROVE Refuses(c)'
  <2>1. Refuses(c) BY <1>1, <1>3, <1>9, <1>13 DEF CalmOf, Obeys
  <2>2. Matches(c)' <=> Matches(c) BY <1>1, <1>7 DEF Matches
  <2>3. Someone' <=> Someone BY <1>7 DEF Someone
  <2>. QED BY <1>1, <1>2, <2>1, <2>2, <2>3 DEF Refuses, At
<1>. QED BY <1>11, <1>12, <1>13


LEMMA OneAnswers ==
    ASSUME TypeOK, Reached
    PROVE  /\ \A p, q \in Process : Answers(p) /\ Answers(q) => p = q
           /\ \A p, q \in Process : Answers(p) => at[q] # "binding"
           /\ mishaps = {} => \A p \in Process :
                                 at[p] = "serving" /\ p \notin stopping => Answers(p)
<1>1. at \in [Process -> {"gone", "starting", "binding", "serving", "leaving", "draining"}]
  BY DEF TypeOK
<1>. QED BY <1>1 DEF Answers, Reached, LockFollows, OneDaemonIsReached

\* A step of the client itself: what it may rely on before.
Before(c) ==
    /\ RestOf(c) /\ Leaving' /\ own[c] <= disk /\ disk' = disk
    /\ \A p \in Process : Answers(p)' <=> Answers(p)
    /\ UNCHANGED <<build, stopping, mishaps>>
    /\ Ask(c) \/ UNCHANGED timer
    /\ Launch(c) \/ UNCHANGED at
    /\ setbacks' = 0 => Fresh(c) /\ setbacks = 0
    /\ ~ Disturbed(c)' => Waits(c) /\ setbacks = 0 /\ setbacks' = 0 /\ mishaps = {}
    /\ ~ Disturbed(c)' /\ Alone(c)' => OwnsAll(c)
    /\ ~ Disturbed(c)' /\ Obeys(c)' => Refuses(c)

LEMMA CalmBefore ==
    ASSUME TypeOK, Reached, CalmInv, NEW c \in Client, ClientStep(c)
    PROVE  Before(c)
<1>1. /\ UNCHANGED <<disk, build, lock, path, stopping, listener, mishaps>>
      /\ stoppers \subseteq stoppers'
      /\ setbacks' \in {setbacks, setbacks + 1}
      /\ Ask(c) \/ UNCHANGED timer
      /\ Launch(c) \/ UNCHANGED at
      /\ \A p \in Process : at'[p] = at[p] \/ (at[p] = "gone" /\ at'[p] = "starting")
      /\ \A d \in Client \ {c} : calls'[d] = calls[d]
  BY ClientReach, Zenon DEF Reaches
<1>2. RestOf(c) /\ CalmOf(c) /\ Leaving BY DEF CalmInv
<1>3. setbacks \in Nat BY LimitsAreNatural DEF TypeOK
<1>4. setbacks' = 0 => setbacks = 0 BY <1>1, <1>3
<1>5. ~ Disturbed(c)' => ~ Disturbed(c) /\ setbacks = 0 /\ setbacks' = 0 /\ mishaps = {}
  BY <1>1, <1>3, <1>4 DEF Disturbed
<1>6. Alone(c)' => Alone(c) BY <1>1 DEF Alone
<1>7. Obeys(c)' => Obeys(c) BY <1>1 DEF Obeys
<1>8. \A p \in Process : Answers(p)' <=> Answers(p) BY <1>1 DEF Answers
<1>9. Leaving' BY <1>1, <1>2 DEF Leaving
<1>10. disk \in Nat /\ own[c] <= disk BY <1>2 DEF TypeOK, Builds, CalmOf
<1>. QED BY <1>1, <1>2, <1>4, <1>5, <1>6, <1>7, <1>8, <1>9, <1>10 DEF CalmOf, Before

LEMMA BeginCalm ==
    ASSUME TypeOK, Reached, CalmInv, NEW c \in Client,
           NEW g \in Goal \ {"guard"}, Begin(c, g)
    PROVE  RestOf(c)' /\ CalmOf(c)'
<1>0. ClientStep(c) BY DEF ClientStep
<1>1. /\ At(c, "idle") /\ calls' = [calls EXCEPT ![c] = @ + 1]
      /\ own' = [own EXCEPT ![c] = IF calls[c] = 0 THEN disk ELSE @]
      /\ failed' = [failed EXCEPT ![c] = None]
      /\ UNCHANGED <<daemonVars, verified, mine, conn, astray, stoppers, mishaps, setbacks>>
  BY Zenon DEF Begin, history
<1>2. PICK s \in {"launch", "ask", "send", "check"} :
         /\ Turn(c, g, s)
         /\ s = "ask" => g \in {"stop", "restart"}
         /\ s = "check" => g = "call" /\ c \notin verified
         /\ s = "send" => g = "call" /\ c \in verified
         /\ s = "launch" => g = "start"
  <2>1. Turn(c, g, CASE g = "start" -> "launch"
                     [] g \in {"stop", "restart"} -> "ask"
                     [] g = "call" /\ c \in verified -> "send"
                     [] OTHER -> "check")
    BY Zenon DEF Begin
  <2>. QED BY <2>1 DEF Goal
<1>3. Before(c) BY <1>0, CalmBefore
<1>. USE DEF Before
<1>4. task[c] = Rest BY <1>1, <1>3 DEF RestOf
<1>5. /\ task'[c].step = s /\ task'[c].goal = g
      /\ ~ task'[c].answered /\ ~ task'[c].again
  BY <1>2, <1>4, TurnSteps DEF Step, Rest
<1>6. /\ calls'[c] # 0 /\ own'[c] <= disk /\ failed'[c] = None
      /\ calls[c] = 0 \/ own'[c] = own[c]
      /\ disk \in Nat
      /\ None \notin {"running", "stale", "unavailable"}
  BY <1>1, <1>3, LimitsAreNatural, NoneIsNoFailure DEF TypeOK, Builds
<1>. HIDE DEF Answers
<1>7. RestOf(c)' BY <1>1, <1>2, <1>3, <1>5, <1>6 DEF RestOf, At
<1>8. ASSUME setbacks' = 0 PROVE Fresh(c)' BY <1>5, <1>6 DEF Fresh
<1>9. ASSUME ~ Disturbed(c)' PROVE Waits(c)'
  BY <1>1, <1>2, <1>3, <1>5, <1>6, <1>9 DEF Waits, At, Someone
<1>10. ASSUME ~ Disturbed(c)', Alone(c)' PROVE OwnsAll(c)'
  BY <1>1, <1>2, <1>3, <1>4, <1>5, <1>6, <1>10 DEF OwnsAll, At, Someone, Rest
<1>11. ASSUME ~ Disturbed(c)', Obeys(c)' PROVE Refuses(c)'
  BY <1>1, <1>2, <1>3, <1>4, <1>5, <1>6, <1>11
     DEF RestOf, Refuses, Matches, At, Someone, Rest
<1>. QED BY <1>3, <1>6, <1>7, <1>8, <1>9, <1>10, <1>11 DEF CalmOf

LEMMA CheckCalm ==
    ASSUME TypeOK, Reached, CalmInv, NEW c \in Client, Check(c)
    PROVE  RestOf(c)' /\ CalmOf(c)'
<1>1. Before(c) BY CalmBefore DEF ClientStep, Serve
<1>. USE DEF Before
<1>2. /\ At(c, "check") /\ task[c].goal = "call" /\ c \notin verified
      /\ task[c].answered \/ ~ task[c].again
      /\ UNCHANGED <<at, timer, own, calls, mine, conn, astray, failed, stoppers>>
      /\ \A d : d # c => (d \in verified' <=> d \in verified)
  BY <1>1 DEF Check, CheckSilence, RestOf, At
<1>3. \/ /\ Someone /\ Matches(c) /\ verified' = verified \union {c} /\ Checked(c)
      \/ /\ Someone /\ Turn(c, "guard", "ask") /\ verified' = verified
      \/ /\ Checked(c) /\ verified' = verified
         /\ setbacks' = 0 => ~ Someone
  <2>1. CASE CheckSilence(c)
    <3>1. setbacks \in Nat BY LimitsAreNatural DEF TypeOK
    <3>. QED BY <2>1, <3>1 DEF CheckSilence, NoAnswer, Setback
  <2>2. CASE ~ CheckSilence(c) BY <2>2 DEF Check, Someone, Matches
  <2>. QED BY <2>1, <2>2
<1>4. Checked(c) => \/ task'[c] = Rest
                    \/ /\ task'[c].step = "send" /\ task'[c].goal = "call"
                       /\ ~ task'[c].again
  <2>1. CASE task[c].answered BY <2>1, FinishSteps DEF Checked
  <2>2. CASE ~ task[c].answered
    BY <1>2, <2>2, TurnSteps, Zenon DEF Checked, Goal, Step
  <2>. QED BY <2>1, <2>2
<1>5. Turn(c, "guard", "ask") => task'[c].step = "ask" /\ task'[c].goal = "guard"
  BY TurnSteps DEF Goal, Step
<1>6. Someone => \A q \in Process : at[q] # "binding" BY OneAnswers DEF Someone
<1>. HIDE DEF Answers
<1>10. RestOf(c)' BY <1>1, <1>2, <1>3, <1>4, <1>5 DEF RestOf, At, Rest
<1>11. ASSUME setbacks' = 0 PROVE Fresh(c)' 
  BY <1>1, <1>2, <1>3, <1>4, <1>5, <1>6, <1>11 DEF Fresh, Rest
<1>12. ASSUME ~ Disturbed(c)' PROVE Waits(c)' 
  BY <1>1, <1>2, <1>3, <1>4, <1>5, <1>12 DEF Waits, Rest, At, Someone
<1>13. ASSUME ~ Disturbed(c)', Alone(c)' PROVE OwnsAll(c)' 
  BY <1>1, <1>2, <1>3, <1>4, <1>5, <1>13 DEF OwnsAll, Rest, At, Someone
<1>14. ASSUME ~ Disturbed(c)', Obeys(c)' PROVE Refuses(c)' 
  BY <1>1, <1>2, <1>3, <1>4, <1>5, <1>14 DEF Refuses, Rest, At, Someone, Matches
<1>. QED BY <1>1, <1>2, <1>10, <1>11, <1>12, <1>13, <1>14 DEF CalmOf

LEMMA AskCalm ==
    ASSUME TypeOK, Reached, CalmInv, NEW c \in Client, Ask(c)
    PROVE  RestOf(c)' /\ CalmOf(c)'
<1>1. Before(c) BY CalmBefore DEF ClientStep, Serve
<1>. USE DEF Before
<1>2. /\ At(c, "ask") /\ task[c].goal \in {"guard", "stop", "restart"}
      /\ UNCHANGED <<at, own, calls, verified, mine, conn, astray, failed>>
  BY <1>1 DEF Ask, RestOf, At
<1>3. \/ /\ Someone /\ task'[c].step = "vanish"
         /\ <<c, task[c].goal>> \in stoppers'
         /\ \A p \in Process : /\ timer'[p] = "armed" => timer[p] = "armed" \/ Answers(p)
                               /\ timer[p] = "armed" => timer'[p] = "armed"
                               /\ Answers(p) => timer'[p] = "armed"
      \/ /\ task'[c].step = "exit" /\ UNCHANGED <<timer, stoppers>>
         /\ setbacks' = 0 => ~ Someone
  <2>1. ASSUME NEW p \in Process, Answers(p), timer' = [timer EXCEPT ![p] = "armed"],
               stoppers' = stoppers \union {<<c, task[c].goal>>}, Goto(c, "vanish")
        PROVE  <1>3
    <3>1. task'[c].step = "vanish" BY <2>1, GotoSteps DEF Step
    <3>2. \A q \in Process : Answers(q) => q = p BY <2>1, OneAnswers
    <3>3. timer \in [Process -> {"off", "armed", "fired", "closing"}] BY DEF TypeOK
    <3>. HIDE DEF Answers
    <3>. QED BY <2>1, <3>1, <3>2, <3>3 DEF Someone
  <2>2. CASE NoAnswer /\ Goto(c, "exit") /\ UNCHANGED <<timer, stoppers>>
    <3>1. setbacks \in Nat BY LimitsAreNatural DEF TypeOK
    <3>2. task'[c].step = "exit" BY <2>2, GotoSteps DEF Step
    <3>. QED BY <2>2, <3>1, <3>2 DEF NoAnswer, Setback
  <2>. QED BY <2>1, <2>2 DEF Ask
<1>4. task'[c].goal = task[c].goal
  BY GotoSteps DEF Ask, Step
<1>. HIDE DEF Answers
<1>5. \A p \in Process : Answers(p)' <=> Answers(p) BY <1>1
<1>6. \A p \in Process : /\ timer'[p] = "armed" => timer[p] = "armed" \/ Answers(p)
                         /\ task'[c].step = "vanish" /\ Answers(p) => timer'[p] = "armed"
  <2>1. CASE task'[c].step = "vanish" BY <1>3, <2>1
  <2>2. CASE task'[c].step # "vanish"
    <3>1. timer' = timer BY <1>3, <2>2
    <3>. QED BY <2>2, <3>1
  <2>. QED BY <2>1, <2>2
<1>7. ASSUME NEW p \in Process, timer[p] # "armed", timer'[p] = "armed"
      PROVE  task'[c].step = "vanish"
  BY <1>3, <1>7
<1>10. RestOf(c)' BY <1>1, <1>2, <1>3, <1>4 DEF RestOf, At, Rest
<1>11. ASSUME setbacks' = 0 PROVE Fresh(c)' 
  BY <1>1, <1>2, <1>3, <1>4, <1>11 DEF Fresh, Someone, At
<1>12. ASSUME ~ Disturbed(c)' PROVE Waits(c)' 
  <2>1. Waits(c) /\ \A p \in Process : timer[p] # "armed"
    BY <1>1, <1>2, <1>12 DEF Waits, At
  <2>2. task'[c].step \in {"vanish", "exit"} BY <1>3
  <2>3. \A p \in Process : timer'[p] = "armed" => At(c, "vanish")' /\ Answers(p)'
    BY <1>5, <1>6, <1>7, <2>1 DEF At
  <2>. QED BY <1>1, <1>2, <2>1, <2>2, <2>3 DEF Waits, At
<1>13. ASSUME ~ Disturbed(c)', Alone(c)' PROVE OwnsAll(c)' 
  <2>1. OwnsAll(c) BY <1>1, <1>13
  <2>2. task'[c].step \in {"vanish", "exit"} BY <1>3
  <2>3. At(c, "vanish")' => \A p \in Process : Answers(p)' => timer'[p] = "armed"
    BY <1>5, <1>6 DEF At
  <2>4. At(c, "exit")' => ~ Someone' BY <1>1, <1>3, <1>13 DEF At, Someone
  <2>. QED BY <1>1, <1>2, <2>1, <2>2, <2>3, <2>4 DEF OwnsAll, At
<1>14. ASSUME ~ Disturbed(c)', Obeys(c)' PROVE Refuses(c)' 
  BY <1>1, <1>2, <1>3, <1>4, <1>14 DEF Refuses, Obeys, At, Someone, Matches, RestOf
<1>. QED BY <1>1, <1>2, <1>10, <1>11, <1>12, <1>13, <1>14 DEF CalmOf

LEMMA VanishCalm ==
    ASSUME TypeOK, Reached, CalmInv, NEW c \in Client, Vanish(c)
    PROVE  RestOf(c)' /\ CalmOf(c)'
<1>1. Before(c) BY CalmBefore DEF ClientStep, Serve
<1>. USE DEF Before
<1>2. /\ At(c, "vanish") /\ task[c].goal \in {"guard", "stop", "restart"}
      /\ UNCHANGED <<at, timer, own, calls, verified, mine, conn, astray, failed, stoppers>>
  BY <1>1 DEF Vanish, RestOf, At
<1>3. task'[c].step = "exit" /\ task'[c].goal = task[c].goal
  BY GotoSteps DEF Vanish, Step
<1>4. setbacks' = 0 => ~ Someone
  <2>1. setbacks \in Nat BY LimitsAreNatural DEF TypeOK
  <2>. QED BY <2>1 DEF Vanish, NoAnswer, Setback
<1>. HIDE DEF Answers
<1>10. RestOf(c)' BY <1>1, <1>2, <1>3 DEF RestOf, At
<1>11. ASSUME setbacks' = 0 PROVE Fresh(c)' 
  BY <1>1, <1>2, <1>3, <1>4, <1>11 DEF Fresh, Someone, At
<1>12. ASSUME ~ Disturbed(c)' PROVE Waits(c)' 
  BY <1>1, <1>2, <1>3, <1>4, <1>12 DEF Waits, At, Someone
<1>13. ASSUME ~ Disturbed(c)', Alone(c)' PROVE OwnsAll(c)' 
  BY <1>1, <1>2, <1>3, <1>4, <1>13 DEF OwnsAll, At, Someone
<1>14. ASSUME ~ Disturbed(c)', Obeys(c)' PROVE Refuses(c)' 
  BY <1>1, <1>2, <1>3, <1>4, <1>14 DEF Refuses, At, Someone, Matches
<1>. QED BY <1>1, <1>2, <1>10, <1>11, <1>12, <1>13, <1>14 DEF CalmOf

LEMMA AwaitExitCalm ==
    ASSUME TypeOK, Reached, CalmInv, NEW c \in Client, AwaitExit(c)
    PROVE  RestOf(c)' /\ CalmOf(c)'
<1>1. Before(c) BY CalmBefore DEF ClientStep, Serve
<1>. USE DEF Before
<1>2. /\ At(c, "exit") /\ task[c].goal \in {"guard", "stop", "restart"}
      /\ UNCHANGED <<at, timer, own, calls, verified, conn, astray, failed, stoppers>>
      /\ mine[c] # None => at[mine[c]] = "gone"
      /\ mine'[c] = None
  BY <1>1 DEF AwaitExit, RestOf, At, TypeOK
<1>3. \/ task'[c] = Rest /\ task[c].goal = "stop"
      \/ task'[c].step = "launch" /\ task'[c].goal = task[c].goal
  BY GotoSteps, FinishSteps DEF AwaitExit, Step
<1>. HIDE DEF Answers
<1>10. RestOf(c)' BY <1>1, <1>2, <1>3 DEF RestOf, At, Rest
<1>11. ASSUME setbacks' = 0 PROVE Fresh(c)' 
  BY <1>1, <1>2, <1>3, <1>11 DEF Fresh, At, Rest
<1>12. ASSUME ~ Disturbed(c)' PROVE Waits(c)' 
  BY <1>1, <1>2, <1>3, <1>12 DEF Waits, At, Rest
<1>13. ASSUME ~ Disturbed(c)', Alone(c)' PROVE OwnsAll(c)' 
  <2>1. \A p \in Process : at[p] = "gone"
    BY <1>1, <1>2, <1>13, ProcessesAreNumbered DEF OwnsAll
  <2>2. stopping = {} BY <1>1, <1>13, <2>1 DEF Waits, TypeOK
  <2>. QED BY <1>1, <1>2, <1>3, <1>13, <2>1, <2>2 DEF OwnsAll, At, Rest, Someone
<1>14. ASSUME ~ Disturbed(c)', Obeys(c)' PROVE Refuses(c)' 
  BY <1>1, <1>2, <1>3, <1>14 DEF Refuses, At, Someone, Matches, Rest
<1>. QED BY <1>1, <1>2, <1>10, <1>11, <1>12, <1>13, <1>14 DEF CalmOf

LEMMA LaunchCalm ==
    ASSUME TypeOK, Reached, CalmInv, NEW c \in Client, Launch(c)
    PROVE  RestOf(c)' /\ CalmOf(c)'
<1>1. Before(c) BY CalmBefore DEF ClientStep, Serve
<1>. USE DEF Before
<1>2. /\ At(c, "launch")
      /\ UNCHANGED <<timer, own, calls, verified, conn, astray, failed, stoppers>>
  BY <1>1 DEF Launch
<1>3. \/ /\ Someone /\ task'[c].step = IF task[c].goal = "call" THEN "send" ELSE "identify"
         /\ UNCHANGED <<at, mine>>
      \/ /\ setbacks' = 0 => ~ Someone
         /\ task'[c].step = "ready" /\ mine'[c] \in Process
         /\ at[mine'[c]] = "gone" /\ at' = [at EXCEPT ![mine'[c]] = "starting"]
  <2>1. CASE Someone /\ Found(c) /\ UNCHANGED <<at, mine>>
    BY <2>1, GotoSteps DEF Found, Step
  <2>2. ASSUME NoAnswer, NEW p \in Unused, at' = [at EXCEPT ![p] = "starting"],
               mine' = [mine EXCEPT ![c] = p], Goto(c, "ready")
        PROVE  <1>3
    <3>1. setbacks \in Nat BY LimitsAreNatural DEF TypeOK
    <3>2. task'[c].step = "ready" BY <2>2, GotoSteps DEF Step
    <3>3. mine'[c] = p /\ p \in Process /\ at[p] = "gone" BY <2>2 DEF TypeOK, Unused
    <3>4. setbacks' = 0 => ~ Someone BY <2>2, <3>1 DEF NoAnswer, Setback
    <3>5. at' = [at EXCEPT ![mine'[c]] = "starting"] BY <2>2, <3>3, Zenon
    <3>. QED BY <3>2, <3>3, <3>4, <3>5
  <2>. QED BY <2>1, <2>2 DEF Launch
<1>4. task'[c].goal = task[c].goal
  BY GotoSteps DEF Launch, Found, Step
<1>5. at \in [Process -> {"gone", "starting", "binding", "serving", "leaving", "draining"}]
      /\ stopping \subseteq Process
  BY DEF TypeOK
<1>. HIDE DEF Answers
<1>10. RestOf(c)'
  BY <1>1, <1>2, <1>3, <1>4 DEF RestOf, At
<1>11. ASSUME setbacks' = 0 PROVE Fresh(c)'
  BY <1>1, <1>2, <1>3, <1>4, <1>5, <1>11 DEF Fresh, At
<1>12. ASSUME ~ Disturbed(c)' PROVE Waits(c)'
  BY <1>1, <1>2, <1>3, <1>4, <1>5, <1>12 DEF Waits, At, Someone
<1>13. ASSUME ~ Disturbed(c)', Alone(c)' PROVE OwnsAll(c)'
  <2>1. OwnsAll(c) /\ Waits(c) /\ mishaps = {} BY <1>1, <1>13
  <2>2. stopping = {} BY <1>2, <1>5, <2>1 DEF OwnsAll, At
  <2>3. CASE Someone /\ UNCHANGED <<at, mine>>
    BY <1>1, <1>2, <1>3, <2>1, <2>2, <2>3 DEF OwnsAll, At
  <2>4. CASE ~ Someone
    <3>1. \A p \in Process : at[p] = "gone"
      <4>1. \A p \in Process : at[p] \notin {"starting", "binding"}
        BY <1>2, <2>1 DEF OwnsAll, At
      <4>2. \A p \in Process : at[p] \notin {"leaving", "draining"}
        BY <2>2 DEF CalmInv, Leaving
      <4>3. \A p \in Process : at[p] # "serving"
        BY <2>1, <2>2, <2>4, OneAnswers DEF Someone
      <4>. QED BY <1>5, <4>1, <4>2, <4>3
    <3>. QED BY <1>1, <1>2, <1>3, <1>5, <2>1, <2>2, <2>4, <3>1 DEF OwnsAll, At
  <2>. QED BY <1>1, <1>3, <1>13, <2>3, <2>4
<1>14. ASSUME ~ Disturbed(c)', Obeys(c)' PROVE Refuses(c)'
  BY <1>1, <1>2, <1>3, <1>4, <1>14 DEF Refuses, At, Someone, Matches, RestOf
<1>. QED BY <1>1, <1>2, <1>10, <1>11, <1>12, <1>13, <1>14 DEF CalmOf

LEMMA AwaitReadyCalm ==
    ASSUME TypeOK, Reached, CalmInv, NEW c \in Client, AwaitReady(c)
    PROVE  RestOf(c)' /\ CalmOf(c)'
<1>1. Before(c) BY CalmBefore DEF ClientStep, Serve
<1>. USE DEF Before
<1>2. /\ At(c, "ready") /\ Someone
      /\ UNCHANGED <<at, timer, own, calls, verified, mine, conn, astray, failed, stoppers>>
  BY <1>1 DEF AwaitReady
<1>3. /\ task'[c].step = IF task[c].goal = "call" THEN "send" ELSE "identify"
      /\ task'[c].goal = task[c].goal
  BY GotoSteps DEF AwaitReady, Found, Step
<1>4. Someone => \E p \in Process : Answers(p) /\ at[p] = "serving"
  BY DEF Someone, Answers
<1>. HIDE DEF Answers
<1>10. RestOf(c)'
  BY <1>1, <1>2, <1>3, <1>1 DEF RestOf, At
<1>11. ASSUME setbacks' = 0 PROVE Fresh(c)'
  BY <1>1, <1>2, <1>3, <1>11 DEF Fresh, At
<1>12. ASSUME ~ Disturbed(c)' PROVE Waits(c)'
  BY <1>1, <1>2, <1>3, <1>12 DEF Waits, At, Someone
<1>13. ASSUME ~ Disturbed(c)', Alone(c)' PROVE OwnsAll(c)'
  BY <1>1, <1>2, <1>3, <1>4, <1>13 DEF OwnsAll, At, Someone
<1>14. ASSUME ~ Disturbed(c)', Obeys(c)' PROVE Refuses(c)'
  BY <1>1, <1>2, <1>3, <1>14 DEF Refuses, At, Someone, Matches
<1>. QED BY <1>1, <1>2, <1>10, <1>11, <1>12, <1>13, <1>14 DEF CalmOf

LEMMA IdentifyCalm ==
    ASSUME TypeOK, Reached, CalmInv, NEW c \in Client, Identify(c)
    PROVE  RestOf(c)' /\ CalmOf(c)'
<1>1. Before(c) BY CalmBefore DEF ClientStep, Serve
<1>. USE DEF Before
<1>2. /\ At(c, "identify")
      /\ UNCHANGED <<at, timer, own, calls, mine, conn, astray, stoppers>>
      /\ failed \in [Client -> {None, "running", "stale", "timeout", "unavailable"}]
      /\ verified \subseteq Client
  BY <1>1 DEF Identify, TypeOK
<1>3. \/ /\ Someone /\ task'[c] = Rest /\ UNCHANGED <<verified, failed>>
      \/ /\ Someone /\ Matches(c) /\ verified' = verified \union {c} /\ failed' = failed
         /\ \/ task'[c] = Rest
            \/ task'[c].step = "send" /\ task'[c].goal = "call"
      \/ /\ task'[c] = Rest /\ failed'[c] = "stale" /\ verified' = verified
         /\ task[c].goal = "guard"
         /\ \E p \in Process : Answers(p) /\ build[p] # own[c]
      \/ /\ task'[c] = Rest /\ failed'[c] = "unavailable" /\ verified' = verified
         /\ setbacks' = 0 => ~ Someone
  <2>1. ASSUME NEW p \in Process, Answers(p), task[c].goal # "guard", Finish(c),
               UNCHANGED <<verified, failed>>
        PROVE  <1>3
    BY <2>1, FinishSteps DEF Someone
  <2>2. ASSUME NEW p \in Process, Answers(p), build[p] = own[c],
               verified' = verified \union {c}, Checked(c), failed' = failed
        PROVE  <1>3
    <3>1. Someone /\ Matches(c) BY <2>2 DEF Someone, Matches
    <3>2. CASE task[c].answered
      <4>1. task'[c] = Rest BY <2>2, <3>2, FinishSteps DEF Checked
      <4>. QED BY <2>2, <3>1, <4>1
    <3>3. CASE ~ task[c].answered
      <4>1. Turn(c, "call", "send") BY <2>2, <3>3, Zenon DEF Checked
      <4>2. task'[c].step = "send" /\ task'[c].goal = "call"
        BY <4>1, TurnSteps DEF Goal, Step
      <4>. QED BY <2>2, <3>1, <4>2
    <3>. QED BY <3>2, <3>3
  <2>3. ASSUME NEW p \in Process, Answers(p), task[c].goal = "guard", build[p] # own[c],
               Fail(c, "stale"), verified' = verified
        PROVE  <1>3
    <3>1. task'[c] = Rest /\ failed'[c] = "stale"
      BY <1>2, <2>3, FinishSteps DEF Fail
    <3>. QED BY <2>3, <3>1
  <2>4. CASE NoAnswer /\ Fail(c, "unavailable") /\ verified' = verified
    <3>1. setbacks \in Nat BY LimitsAreNatural DEF TypeOK
    <3>2. task'[c] = Rest /\ failed'[c] = "unavailable"
      BY <1>2, <2>4, FinishSteps DEF Fail
    <3>. QED BY <2>4, <3>1, <3>2 DEF NoAnswer, Setback
  <2>. QED BY <2>1, <2>2, <2>3, <2>4 DEF Identify
<1>. HIDE DEF Answers
<1>10. RestOf(c)'
  BY <1>1, <1>2, <1>3, <1>1 DEF RestOf, At, Rest
<1>11. ASSUME setbacks' = 0 PROVE Fresh(c)'
  BY <1>1, <1>2, <1>3, <1>11 DEF Fresh, At, Rest
<1>12. ASSUME ~ Disturbed(c)' PROVE Waits(c)'
  BY <1>1, <1>2, <1>3, <1>12 DEF Waits, At, Someone, Rest
<1>13. ASSUME ~ Disturbed(c)', Alone(c)' PROVE OwnsAll(c)'
  BY <1>1, <1>2, <1>3, <1>13 DEF OwnsAll, At, Someone, Rest, Waits
<1>14. ASSUME ~ Disturbed(c)', Obeys(c)' PROVE Refuses(c)'
  <2>1. Refuses(c) /\ Someone BY <1>1, <1>2, <1>14 DEF Waits, At
  <2>. QED BY <1>1, <1>2, <1>3, <2>1 DEF Refuses, At, Someone, Matches, Rest
<1>. QED BY <1>1, <1>2, <1>10, <1>11, <1>12, <1>13, <1>14 DEF CalmOf

LEMMA RetrySteps ==
    ASSUME TypeOK, NEW c \in Client, Retry(c)
    PROVE  IF task[c].again
           THEN task'[c] = Rest /\ failed'[c] = "unavailable"
           ELSE /\ task'[c].step = "launch" /\ task'[c].goal = task[c].goal
                /\ failed' = failed
<1>1. failed \in [Client -> {None, "running", "stale", "timeout", "unavailable"}]
  BY DEF TypeOK
<1>2. CASE task[c].again BY <1>1, <1>2, FinishSteps DEF Retry, Fail
<1>3. CASE ~ task[c].again BY <1>3 DEF Retry, TypeOK, Task
<1>. QED BY <1>2, <1>3

LEMMA SendCalm ==
    ASSUME TypeOK, Reached, CalmInv, NEW c \in Client, Send(c)
    PROVE  RestOf(c)' /\ CalmOf(c)'
<1>1. Before(c) BY CalmBefore DEF ClientStep, Serve
<1>. USE DEF Before
<1>2. /\ At(c, "send") /\ task[c].goal # "guard"
      /\ UNCHANGED <<at, timer, own, calls, verified, mine, stoppers>>
      /\ calls[c] # 0 /\ astray[c] \in Nat
  BY <1>1 DEF Send, RestOf, At, TypeOK
<1>3. \/ /\ task'[c].step = "wait" /\ task'[c].goal = task[c].goal /\ failed' = failed
         /\ conn'[c] \in Process /\ Answers(conn'[c])
         /\ astray'[c] = IF build[conn'[c]] = own[c] THEN astray[c] ELSE astray[c] + 1
      \/ /\ ~ Someone /\ UNCHANGED <<conn, astray>>
         /\ IF task[c].again
            THEN task'[c] = Rest /\ failed'[c] = "unavailable"
            ELSE /\ task'[c].step = "launch" /\ task'[c].goal = task[c].goal
                 /\ failed' = failed
  <2>1. ASSUME NEW p \in Process, Answers(p), conn' = [conn EXCEPT ![c] = p],
               astray' = [astray EXCEPT ![c] = IF build[p] = own[c] THEN @ ELSE @ + 1],
               Goto(c, "wait"), failed' = failed
        PROVE  <1>3
    <3>1. conn'[c] = p BY <2>1 DEF TypeOK
    <3>2. astray'[c] = IF build[p] = own[c] THEN astray[c] ELSE astray[c] + 1
      BY <2>1 DEF TypeOK
    <3>3. task'[c].step = "wait" /\ task'[c].goal = task[c].goal
      BY <2>1, GotoSteps DEF Step
    <3>. HIDE DEF Answers
    <3>. QED BY <2>1, <3>1, <3>2, <3>3
  <2>2. CASE ~ Someone /\ Retry(c) /\ UNCHANGED <<jobs, conn, astray>>
    BY <2>2, RetrySteps
  <2>. QED BY <2>1, <2>2 DEF Send
<1>4. \A p, q \in Process : Answers(p) /\ Answers(q) => p = q BY OneAnswers
<1>. HIDE DEF Answers
<1>10. RestOf(c)'
  BY <1>1, <1>2, <1>3, NoneIsNoFailure DEF RestOf, At, Rest
<1>11. ASSUME setbacks' = 0 PROVE Fresh(c)'
  BY <1>1, <1>2, <1>3, <1>11 DEF Fresh, At, Rest
<1>12. ASSUME ~ Disturbed(c)' PROVE Waits(c)'
  BY <1>1, <1>2, <1>3, <1>12 DEF Waits, At, Someone, Rest
<1>13. ASSUME ~ Disturbed(c)', Alone(c)' PROVE OwnsAll(c)'
  BY <1>1, <1>2, <1>3, <1>13 DEF OwnsAll, At, Someone, Rest
<1>14. ASSUME ~ Disturbed(c)', Obeys(c)' PROVE Refuses(c)'
  <2>1. Refuses(c) BY <1>1, <1>14
  <2>2. CASE task'[c].step = "wait" /\ Answers(conn'[c]) /\ conn'[c] \in Process
    <3>1. Someone BY <2>2 DEF Someone
    <3>2. Matches(c) => astray'[c] = astray[c] BY <1>2, <1>3, <1>4, <2>2 DEF Matches, Rest
    <3>3. astray'[c] \in {0, 1}
      BY <1>2, <1>3, <2>1, <2>2, <3>2 DEF Refuses, At, Rest
    <3>. QED BY <1>1, <1>2, <2>1, <2>2, <3>1, <3>3 DEF Refuses, Someone, At, Matches
  <2>3. CASE ~ Someone /\ astray' = astray
    BY <1>1, <1>2, <2>1, <2>3, <1>3 DEF Refuses, Someone, At, Matches, Rest
  <2>. QED BY <1>3, <2>2, <2>3
<1>. QED BY <1>1, <1>2, <1>10, <1>11, <1>12, <1>13, <1>14 DEF CalmOf

LEMMA ReplyCalm ==
    ASSUME TypeOK, Reached, CalmInv, NEW c \in Client, Reply(c)
    PROVE  RestOf(c)' /\ CalmOf(c)'
<1>1. Before(c) BY CalmBefore DEF ClientStep, Serve
<1>. USE DEF Before
<1>2. /\ At(c, "wait") /\ task[c].goal # "guard"
      /\ UNCHANGED <<at, timer, own, calls, verified, mine, astray, failed, stoppers>>
  BY <1>1 DEF Reply, RestOf, At
<1>3. IF c \in verified THEN task'[c] = Rest
      ELSE /\ task'[c].step = "check" /\ task'[c].goal = task[c].goal
           /\ task'[c].answered
  <2>1. CASE c \in verified BY <2>1, FinishSteps DEF Reply
  <2>2. CASE c \notin verified BY <2>2 DEF Reply, TypeOK, Task
  <2>. QED BY <2>1, <2>2
<1>. HIDE DEF Answers
<1>10. RestOf(c)'
  BY <1>1, <1>2, <1>3, NoneIsNoFailure DEF RestOf, At, Rest
<1>11. ASSUME setbacks' = 0 PROVE Fresh(c)'
  BY <1>1, <1>2, <1>3, <1>11 DEF Fresh, At, Rest
<1>12. ASSUME ~ Disturbed(c)' PROVE Waits(c)'
  BY <1>1, <1>2, <1>3, <1>12 DEF Waits, At, Someone, Rest
<1>13. ASSUME ~ Disturbed(c)', Alone(c)' PROVE OwnsAll(c)'
  BY <1>1, <1>2, <1>3, <1>13 DEF OwnsAll, At, Someone, Rest
<1>14. ASSUME ~ Disturbed(c)', Obeys(c)' PROVE Refuses(c)'
  BY <1>1, <1>2, <1>3, <1>14 DEF Refuses, At, Someone, Rest, Matches
<1>. QED BY <1>1, <1>2, <1>10, <1>11, <1>12, <1>13, <1>14 DEF CalmOf

LEMMA DisconnectCalm ==
    ASSUME TypeOK, Reached, CalmInv, NEW c \in Client, Disconnect(c)
    PROVE  RestOf(c)' /\ CalmOf(c)'
<1>1. Before(c) BY CalmBefore DEF ClientStep, Serve
<1>. USE DEF Before
<1>2. /\ At(c, "wait") /\ task[c].goal # "guard" /\ calls[c] # 0
      /\ at[conn[c]] = "gone"
      /\ UNCHANGED <<at, timer, own, calls, verified, mine, astray, stoppers>>
  BY <1>1 DEF Disconnect, RestOf, At
<1>3. IF task[c].again
      THEN task'[c] = Rest /\ failed'[c] = "unavailable"
      ELSE /\ task'[c].step = "launch" /\ task'[c].goal = task[c].goal
           /\ failed' = failed
  BY RetrySteps DEF Disconnect
<1>4. Disturbed(c)' BY <1>1, <1>2 DEF Waits, At, Answers
<1>. HIDE DEF Answers
<1>10. RestOf(c)'
  BY <1>1, <1>2, <1>3, NoneIsNoFailure DEF RestOf, At, Rest
<1>11. ASSUME setbacks' = 0 PROVE Fresh(c)'
  BY <1>1, <1>2, <1>3, <1>11 DEF Fresh, At, Rest
<1>12. ASSUME ~ Disturbed(c)' PROVE Waits(c)' BY <1>4, <1>12
<1>13. ASSUME ~ Disturbed(c)', Alone(c)' PROVE OwnsAll(c)' BY <1>4, <1>13
<1>14. ASSUME ~ Disturbed(c)', Obeys(c)' PROVE Refuses(c)' BY <1>4, <1>14
<1>. QED BY <1>1, <1>2, <1>10, <1>11, <1>12, <1>13, <1>14 DEF CalmOf

LEMMA TimeOutCalm ==
    ASSUME TypeOK, Reached, CalmInv, NEW c \in Client, TimeOut(c)
    PROVE  RestOf(c)' /\ CalmOf(c)'
<1>1. Before(c) BY CalmBefore DEF ClientStep, Serve
<1>. USE DEF Before
<1>2. /\ At(c, "wait") /\ calls[c] # 0
      /\ UNCHANGED <<at, timer, own, calls, verified, mine, astray, stoppers>>
  BY <1>1 DEF TimeOut, RestOf, At
<1>3. task'[c] = Rest BY FinishSteps DEF TimeOut, Fail
<1>4. setbacks' > 0
  <2>1. setbacks \in Nat BY LimitsAreNatural DEF TypeOK
  <2>. QED BY <2>1 DEF TimeOut, Setback
<1>. HIDE DEF Answers
<1>10. RestOf(c)'
  BY <1>1, <1>2, <1>3, NoneIsNoFailure DEF RestOf, At, Rest
<1>11. ASSUME setbacks' = 0 PROVE Fresh(c)' BY <1>4, <1>11
<1>12. ASSUME ~ Disturbed(c)' PROVE Waits(c)' BY <1>4, <1>12 DEF Disturbed
<1>13. ASSUME ~ Disturbed(c)', Alone(c)' PROVE OwnsAll(c)' BY <1>4, <1>13 DEF Disturbed
<1>14. ASSUME ~ Disturbed(c)', Obeys(c)' PROVE Refuses(c)' BY <1>4, <1>14 DEF Disturbed
<1>. QED BY <1>1, <1>2, <1>10, <1>11, <1>12, <1>13, <1>14 DEF CalmOf

LEMMA GiveUpCalm ==
    ASSUME TypeOK, Reached, CalmInv, NEW c \in Client, GiveUp(c)
    PROVE  RestOf(c)' /\ CalmOf(c)'
<1>1. Before(c) BY CalmBefore DEF ClientStep, Serve
<1>. USE DEF Before
<1>2. /\ task[c].step \in {"ask", "vanish", "exit", "launch", "ready"} /\ calls[c] # 0
      /\ UNCHANGED <<at, timer, own, calls, verified, conn, astray, stoppers>>
  BY <1>1 DEF GiveUp, Hopeless, RestOf, At
<1>3. /\ task'[c] = Rest
      /\ failed'[c] = IF task[c].step \in {"vanish", "exit"} THEN "running"
                      ELSE "unavailable"
  BY FinishSteps DEF GiveUp, Fail, TypeOK
<1>4. setbacks' = 0 => Hopeless(c)
  <2>1. setbacks \in Nat BY LimitsAreNatural DEF TypeOK
  <2>. QED BY <2>1 DEF GiveUp, Setback
<1>5. /\ at \in [Process -> {"gone", "starting", "binding", "serving", "leaving", "draining"}]
      /\ stopping \subseteq Process /\ mine[c] \in Process \union {None}
  BY DEF TypeOK
<1>6. ASSUME ~ Disturbed(c)' PROVE Waits(c) /\ Hopeless(c) /\ Someone
  <2>1. Waits(c) /\ Hopeless(c) /\ mishaps = {} BY <1>1, <1>4, <1>6
  <2>2. ~ At(c, "ready") BY <1>5, <2>1 DEF Waits, Hopeless, Settled, At, Someone
  <2>3. ASSUME At(c, "exit"), mine[c] # None, at[mine[c]] # "gone", Settled PROVE Someone
    <3>1. mine[c] \in Process /\ at[mine[c]] = "serving" /\ mine[c] \notin stopping
      BY <1>5, <2>3 DEF Settled
    <3>. QED BY <2>1, <3>1, OneAnswers DEF Someone
  <2>. QED BY <2>1, <2>2, <2>3 DEF Hopeless
<1>. HIDE DEF Answers
<1>10. RestOf(c)'
  BY <1>1, <1>2, <1>3, NoneIsNoFailure DEF RestOf, At, Rest
<1>11. ASSUME setbacks' = 0 PROVE Fresh(c)'
  BY <1>1, <1>2, <1>3, <1>11 DEF Fresh, At, Rest
<1>12. ASSUME ~ Disturbed(c)' PROVE Waits(c)'
  <2>1. Waits(c) /\ Settled /\ task[c].step \in {"vanish", "exit"}
    BY <1>6, <1>12 DEF Hopeless, At, Waits, Someone
  <2>2. \A p \in Process : timer[p] # "armed" BY <2>1 DEF Settled, Waits, Answers
  <2>. QED BY <1>1, <1>2, <1>3, <2>1, <2>2 DEF Waits, At, Someone, Rest
<1>13. ASSUME ~ Disturbed(c)', Alone(c)' PROVE OwnsAll(c)'
  <2>1. OwnsAll(c) /\ Hopeless(c) /\ Someone BY <1>1, <1>6, <1>13
  <2>2. At(c, "vanish") BY <2>1 DEF Hopeless, OwnsAll
  <2>3. PICK p \in Process : Answers(p) /\ timer[p] = "armed"
    BY <2>1, <2>2 DEF OwnsAll, Someone
  <2>. QED BY <2>1, <2>3 DEF Hopeless, Settled, Answers
<1>14. ASSUME ~ Disturbed(c)', Obeys(c)' PROVE Refuses(c)'
  BY <1>1, <1>2, <1>3, <1>6, <1>14 DEF Refuses, At, Someone, Rest, Matches
<1>. QED BY <1>1, <1>2, <1>10, <1>11, <1>12, <1>13, <1>14 DEF CalmOf

\* An operation is carried out, the tree is replaced, a process is signalled or
\* dies.
LEMMA OutsideCalm ==
    ASSUME TypeOK, CalmInv,
           \/ Upgrade \/ \E j \in jobs : Execute(j)
           \/ \E p \in Process : Signal(p) \/ Crash(p)
    PROVE  CalmInv'
<1>0. disk \in Nat /\ setbacks \in Nat /\ \A c \in Client : own[c] \in Nat
  BY LimitsAreNatural DEF TypeOK, Builds
<1>1. CASE \E j \in jobs : Execute(j)
  <2>1. UNCHANGED <<daemonVars, clientVars, history>> BY <1>1 DEF Execute
  <2>. QED BY <2>1 DEF CalmInv, RestOf, CalmOf, Fresh, Waits, OwnsAll, Refuses, Leaving,
       Alone, Obeys, Disturbed, At, Someone, Matches, Answers
<1>2. CASE Upgrade
  <2>1. /\ disk' = disk + 1
        /\ UNCHANGED <<at, build, lock, path, stopping, listener, timer, clientVars,
                       workVars, history>>
    BY <1>2 DEF Upgrade
  <2>2. \A c \in Client : own[c] <= disk /\ own'[c] # disk' /\ own'[c] <= disk'
    BY <1>0, <2>1 DEF CalmInv, CalmOf
  <2>3. \A c \in Client : Fresh(c)' BY <2>2 DEF Fresh
  <2>. QED BY <2>1, <2>2, <2>3 DEF CalmInv, RestOf, CalmOf, Waits, OwnsAll, Refuses, Leaving,
       Alone, Obeys, Disturbed, At, Someone, Matches, Answers
<1>3. ASSUME NEW p \in Process, Signal(p) \/ Crash(p) PROVE CalmInv'
  <2>1. setbacks' > 0 BY <1>0, <1>3 DEF Signal, Crash, Setback
  <2>2. UNCHANGED <<disk, clientVars, astray, failed, stoppers>>
    BY <1>3 DEF Signal, Crash
  <2>3. Leaving'
    <3>1. CASE Signal(p) BY <3>1 DEF Signal, CalmInv, Leaving
    <3>2. CASE Crash(p) BY <3>2 DEF Crash, End, CalmInv, Leaving, TypeOK
    <3>. QED BY <1>3, <3>1, <3>2
  <2>4. \A c \in Client : RestOf(c)' BY <2>2 DEF CalmInv, RestOf, At
  <2>5. \A c \in Client : own'[c] <= disk' BY <2>2 DEF CalmInv, CalmOf
  <2>6. \A c \in Client : Disturbed(c)' BY <2>1 DEF Disturbed
  <2>. QED BY <1>0, <2>1, <2>3, <2>4, <2>5, <2>6 DEF CalmInv, CalmOf
<1>. QED BY <1>1, <1>2, <1>3

LEMMA CalmStays == TypeOK /\ Reached /\ CalmInv /\ [Next]_vars => CalmInv'
<1>. SUFFICES ASSUME TypeOK, Reached, CalmInv, [Next]_vars PROVE CalmInv'
  OBVIOUS
<1>1. ASSUME NEW c \in Client, ClientStep(c) PROVE CalmInv'
  <2>1. RestOf(c)' /\ CalmOf(c)'
    BY <1>1, BeginCalm, CheckCalm, AskCalm, VanishCalm, AwaitExitCalm, LaunchCalm,
       AwaitReadyCalm, IdentifyCalm, SendCalm, ReplyCalm, DisconnectCalm, TimeOutCalm,
       GiveUpCalm, Zenon DEF ClientStep, Serve
  <2>2. Leaving' BY <1>1, CalmBefore DEF Before
  <2>3. \A d \in Client \ {c} : RestOf(d)' /\ CalmOf(d)' BY <1>1, OthersCalm
  <2>. QED BY <2>1, <2>2, <2>3 DEF CalmInv
<1>2. CASE UNCHANGED vars
  BY <1>2 DEF vars, CalmInv, RestOf, CalmOf, Fresh, Waits, OwnsAll, Refuses, Leaving,
     Alone, Obeys, Disturbed, At, Someone, Matches, Answers
<1>3. CASE \E p \in Process : DaemonStep(p) BY <1>3, DaemonCalm
<1>4. CASE \/ Upgrade \/ \E j \in jobs : Execute(j)
          \/ \E p \in Process : Signal(p) \/ Crash(p)
  BY <1>4, OutsideCalm
<1>. QED BY <1>1, <1>2, <1>3, <1>4, Zenon DEF Next, ClientStep

LEMMA CalmStarts == Init => CalmInv
<1>. SUFFICES ASSUME Init PROVE CalmInv
  OBVIOUS
<1>1. /\ disk = 0 /\ setbacks = 0 /\ stopping = {} /\ stoppers = {} /\ verified = {}
      /\ \A p \in Process : at[p] = "gone" /\ timer[p] = "off"
      /\ \A c \in Client : /\ task[c] = Rest /\ own[c] = 0 /\ calls[c] = 0
                           /\ astray[c] = 0 /\ failed[c] = None
  BY DEF Init
<1>2. ~ Someone BY <1>1 DEF Someone, Answers
<1>. QED BY <1>1, <1>2, NoneIsNoFailure DEF CalmInv, Leaving, RestOf, CalmOf, Fresh, Waits,
            OwnsAll, Refuses, At, Rest, Answers

LEMMA CalmAlways == Spec => [](TypeOK /\ CalmInv)
<1>1. Init => Reached
  BY ProcessesAreNumbered DEF Init, Reached, LockFollows, OneDaemonIsReached
<1>2. TypeOK /\ Reached /\ [Next]_vars => Reached' BY ReachedStays
<1>. QED BY <1>1, <1>2, CalmStarts, CalmStays, TypeCorrect, PTL DEF Spec

(* Left alone, a client is served: no call of it fails as unavailable, it is *)
(* refused only while its code differs from that on disk, and its stop fails *)
(* only if another client has begun a call.                                  *)
THEOREM FailuresExcused == Spec => []FailuresAreExcused
<1>1. TypeOK /\ CalmInv => FailuresAreExcused
  <2>. SUFFICES ASSUME TypeOK, CalmInv, NEW c \in Client
                PROVE  /\ failed[c] = "unavailable" => Disturbed(c)
                       /\ failed[c] = "stale" => own[c] # disk \/ setbacks > 0
                       /\ failed[c] = "running" =>
                             Disturbed(c) \/ \E d \in Client \ {c} : calls[d] > 0
    BY DEF FailuresAreExcused
  <2>1. setbacks \in Nat /\ \A d \in Client : calls[d] \in Nat
    BY LimitsAreNatural DEF TypeOK
  <2>2. CalmOf(c) BY DEF CalmInv
  <2>3. failed[c] = "unavailable" => Disturbed(c) BY <2>2 DEF CalmOf, Waits
  <2>4. failed[c] = "stale" => own[c] # disk \/ setbacks > 0
    BY <2>1, <2>2 DEF CalmOf, Fresh
  <2>5. failed[c] = "running" => Disturbed(c) \/ \E d \in Client \ {c} : calls[d] > 0
    BY <2>1, <2>2 DEF CalmOf, OwnsAll, Alone
  <2>. QED BY <2>3, <2>4, <2>5
<1>. QED BY <1>1, CalmAlways, PTL

(* A client that nobody disturbs sends at most one operation to a daemon with *)
(* other code before it finds that out, unless it stops or restarts a daemon. *)
THEOREM StaleCodeRefused == Spec => []StaleCodeIsRefused
<1>1. CalmInv => StaleCodeIsRefused
  <2>1. \A c \in Client : astray[c] \in {0, 1} => ~ (astray[c] > 1) OBVIOUS
  <2>. QED BY <2>1 DEF CalmInv, CalmOf, Refuses, Obeys, StaleCodeIsRefused
<1>. QED BY <1>1, CalmAlways, PTL
=============================================================================
