------------------------------ MODULE Runtime ------------------------------
(***************************************************************************)
(* The background service as its clients meet it: processes that compete   *)
(* for one lock and one socket path, and clients that start them, stop     *)
(* them, check which code they run, send a call and repeat it once.        *)
(*                                                                         *)
(* A process that is gone may stand for a new one, as soon as no client    *)
(* holds its handle.  The deadlines of the clients (5 s) are longer than   *)
(* what a daemon does without being waited for, so a client gives up only  *)
(* when nothing is under way any more; being slower is a setback.          *)
(***************************************************************************)
EXTENDS Naturals, FiniteSets, Functions

CONSTANTS
    Process,      \* process slots, numbered so that a launch takes the lowest
    Client,       \* foreground processes, each with one thread
    None,
    MaxCalls,     \* calls and lifecycle commands of one client
    MaxTotal,     \* and of all clients together
    MaxEvents     \* replacements of the source tree, and setbacks: crashes,
                  \* signals, timeouts of something that works, failed launches

ASSUME ProcessesAreNumbered == Process \subseteq Nat /\ None \notin Process
ASSUME LimitsAreNatural == {MaxCalls, MaxTotal, MaxEvents} \subseteq Nat
ASSUME NoneIsNoFailure == None \notin {"running", "stale", "timeout", "unavailable"}

VARIABLES
    disk,      \* build of the source tree on disk
    at,        \* how far a process has come
    build,     \* build a process has loaded
    lock,      \* holder of the singleton lock
    path,      \* process whose socket the endpoint's path names
    stopping,  \* processes whose stop event is set
    listener,  \* who still has to close a process's listener
    timer,     \* the thread that runs stop() after an acknowledged shutdown
    task,      \* what a client is doing: its step, what it wants the daemon for,
               \* whether it repeats its call, whether the call was answered
    own,       \* build a client has loaded
    calls,     \* calls and commands a client has begun
    verified,  \* clients that have found their own build in the daemon
    mine,      \* process a client has launched
    conn,      \* process a client's call was sent to
    jobs,      \* calls a daemon has accepted and not answered
    effects,   \* history: how often the operation of a call was carried out
    lost,      \* history: calls whose connection was lost
    astray,    \* history: calls of a client that went to another build
    failed,    \* history: how the last call or command of a client failed
    stoppers,  \* history: who has asked a daemon to stop, and what for
    mishaps,   \* history: what else went wrong, see Mishap
    setbacks   \* crashes, signals and timeouts so far

daemonVars == <<disk, at, build, lock, path, stopping, listener, timer>>
clientVars == <<task, own, calls, verified, mine, conn>>
workVars   == <<jobs, effects>>
history    == <<lost, astray, failed, stoppers, mishaps, setbacks>>
vars       == <<daemonVars, clientVars, workVars, history>>

Builds == 0..MaxEvents
Calls  == 1..MaxCalls
Step   == {"idle", "check", "ask", "vanish", "exit", "launch", "ready",
           "identify", "send", "wait"}
Goal   == {"call", "guard", "start", "stop", "restart"}
Mishap == {"lock lost to a stopping daemon", "path removed late"}
Rest   == [step |-> "idle", goal |-> "call", again |-> FALSE, answered |-> FALSE]
Task   == [step : Step, goal : Goal, again : BOOLEAN, answered : BOOLEAN]
Job    == [client : Client, call : 0..MaxCalls, on : Process, done : BOOLEAN]

TypeOK ==
    /\ disk \in Builds
    /\ at \in [Process -> {"gone", "starting", "binding", "serving", "leaving",
                           "draining"}]
    /\ build \in [Process -> Builds]
    /\ lock \in Process \union {None}
    /\ path \in Process \union {None}
    /\ stopping \subseteq Process
    /\ listener \in [Process -> {"none", "open", "taken"}]
    /\ timer \in [Process -> {"off", "armed", "fired", "closing"}]
    /\ task \in [Client -> Task]
    /\ own \in [Client -> Builds]
    /\ calls \in [Client -> 0..MaxCalls]
    /\ verified \subseteq Client
    /\ stoppers \subseteq Client \X Goal
    /\ mine \in [Client -> Process \union {None}]
    /\ conn \in [Client -> Process \union {None}]
    /\ jobs \subseteq Job
    /\ effects \in [Client -> [Calls -> Nat]]
    /\ lost \subseteq Client \X (0..MaxCalls)
    /\ astray \in [Client -> Nat]
    /\ failed \in [Client -> {None, "running", "stale", "timeout", "unavailable"}]
    /\ mishaps \subseteq Mishap
    /\ setbacks \in 0..MaxEvents

Init ==
    /\ disk = 0
    /\ at = [p \in Process |-> "gone"]
    /\ build = [p \in Process |-> 0]
    /\ lock = None
    \* A daemon that died before may have left its socket behind.
    /\ path \in {None} \union {p \in Process : \A q \in Process : q <= p}
    /\ stopping = {}
    /\ listener = [p \in Process |-> "none"]
    /\ timer = [p \in Process |-> "off"]
    /\ task = [c \in Client |-> Rest]
    /\ own = [c \in Client |-> 0]
    /\ calls = [c \in Client |-> 0]
    /\ verified = {}
    /\ mine = [c \in Client |-> None]
    /\ conn = [c \in Client |-> None]
    /\ jobs = {}
    /\ effects = [c \in Client |-> [n \in Calls |-> 0]]
    /\ lost = {}
    /\ astray = [c \in Client |-> 0]
    /\ failed = [c \in Client |-> None]
    /\ stoppers = {} /\ mishaps = {}
    /\ setbacks = 0

-----------------------------------------------------------------------------
(* The daemon *)

\* A request that arrives now is handled.  Between the stop event and the end
\* of the process a connection may still be made, and is dropped unread.
Answers(p) == path = p /\ at[p] = "serving" /\ p \notin stopping

Someone == \E p \in Process : Answers(p)

Setback == disk + setbacks < MaxEvents /\ setbacks' = setbacks + 1

\* End of the interpreter: threads of requests and timers die with it.
End(p) ==
    /\ at' = [at EXCEPT ![p] = "gone"]
    /\ stopping' = stopping \ {p}
    /\ listener' = [listener EXCEPT ![p] = "none"]
    /\ timer' = [timer EXCEPT ![p] = "off"]
    /\ jobs' = {j \in jobs : j.on # p}

\* The modules are loaded; the service tries the lock once and does not wait.
\* Its holder removes a socket that nobody answers on.
Prepare(p) ==
    /\ at[p] = "starting"
    /\ build' = [build EXCEPT ![p] = disk]
    /\ IF lock = None /\ ~ Someone
       THEN /\ lock' = p
            /\ path' = None
            /\ at' = [at EXCEPT ![p] = "binding"]
            /\ UNCHANGED mishaps
       ELSE /\ at' = [at EXCEPT ![p] = "gone"]
            /\ mishaps' = mishaps \union
                 (IF lock \in stopping THEN {"lock lost to a stopping daemon"} ELSE {})
            /\ UNCHANGED <<lock, path>>
    /\ UNCHANGED <<disk, stopping, listener, timer, clientVars, workVars, lost,
                   astray, failed, stoppers, setbacks>>

\* Only now does the service report that it is ready and start its lanes.
Bind(p) ==
    /\ at[p] = "binding"
    /\ path' = p
    /\ listener' = [listener EXCEPT ![p] = "open"]
    /\ at' = [at EXCEPT ![p] = "serving"]
    /\ UNCHANGED <<disk, build, lock, stopping, timer, clientVars, workVars, history>>

\* stop() on the timer's thread: the event, the listener out of its field under
\* the lock, and then, outside of it, the close that removes the path by name.
TimerStep(p) ==
    /\ \/ /\ timer[p] = "armed"
          /\ stopping' = stopping \union {p}
          /\ timer' = [timer EXCEPT ![p] = "fired"]
          /\ UNCHANGED <<listener, path, mishaps>>
       \/ /\ timer[p] = "fired"
          /\ IF listener[p] = "open"
             THEN /\ listener' = [listener EXCEPT ![p] = "taken"]
                  /\ timer' = [timer EXCEPT ![p] = "closing"]
             ELSE timer' = [timer EXCEPT ![p] = "off"] /\ UNCHANGED listener
          /\ UNCHANGED <<stopping, path, mishaps>>
       \/ /\ timer[p] = "closing"
          /\ path' = None
          /\ mishaps' = mishaps \union
               (IF path \in {p, None} THEN {} ELSE {"path removed late"})
          /\ listener' = [listener EXCEPT ![p] = "none"]
          /\ timer' = [timer EXCEPT ![p] = "off"]
          /\ UNCHANGED stopping
    /\ UNCHANGED <<disk, at, build, lock, clientVars, workVars, lost, astray,
                   failed, stoppers, setbacks>>

\* close() on the main thread: whoever took the listener out closes it.
CloseOwn(p) ==
    IF listener[p] = "open"
    THEN listener' = [listener EXCEPT ![p] = "none"] /\ path' = None
    ELSE UNCHANGED <<listener, path>>

\* SIGTERM or SIGINT: the handler runs stop() on the main thread.
Signal(p) ==
    /\ at[p] \in {"binding", "serving"}
    /\ p \notin stopping
    /\ Setback
    /\ stopping' = stopping \union {p}
    /\ CloseOwn(p)
    /\ UNCHANGED <<disk, at, build, lock, timer, clientVars, workVars, lost, astray,
                   failed, stoppers, mishaps>>

\* Mutant of Leave: the lock is released before the path is removed.
LeaveUnlocked(p) ==
    /\ at[p] = "serving"
    /\ p \in stopping
    /\ CloseOwn(p)
    /\ at' = [at EXCEPT ![p] = "leaving"]
    /\ lock' = None
    /\ UNCHANGED <<disk, build, stopping, timer, clientVars, workVars, history>>

\* The accept loop sees the event within 0.1 s.
Leave(p) ==
    /\ at[p] = "serving"
    /\ p \in stopping
    /\ CloseOwn(p)
    /\ at' = [at EXCEPT ![p] = "leaving"]
    /\ UNCHANGED <<disk, build, lock, stopping, timer, clientVars, workVars, history>>

\* The path is removed before the lock is released: nobody binds in between.
Cleanup(p) ==
    /\ at[p] = "leaving"
    /\ path' = None
    /\ lock' = None
    /\ at' = [at EXCEPT ![p] = "draining"]
    /\ UNCHANGED <<disk, build, stopping, listener, timer, clientVars, workVars,
                   history>>

\* run_forever has waited for the maintenance thread and returns.
Exit(p) ==
    /\ at[p] = "draining"
    /\ End(p)
    /\ UNCHANGED <<disk, build, lock, path, clientVars, effects, history>>

\* The kernel releases the lock of a process that dies; its socket stays.
Crash(p) ==
    /\ at[p] # "gone"
    /\ Setback
    /\ End(p)
    /\ lock' = IF lock = p THEN None ELSE lock
    /\ UNCHANGED <<disk, build, path, clientVars, effects, lost, astray, failed,
                   stoppers, mishaps>>

\* A request's thread carries the operation out.
Execute(j) ==
    /\ ~ j.done
    /\ jobs' = (jobs \ {j}) \union {[j EXCEPT !.done = TRUE]}
    /\ effects' = [effects EXCEPT ![j.client][j.call] = @ + 1]
    /\ UNCHANGED <<daemonVars, clientVars, history>>

Upgrade ==
    /\ disk + setbacks < MaxEvents
    /\ disk' = disk + 1
    /\ UNCHANGED <<at, build, lock, path, stopping, listener, timer, clientVars,
                   workVars, history>>

-----------------------------------------------------------------------------
(* The clients *)

\* A probe finds nobody, or what it finds is slower than the probe waits.
NoAnswer ==
    \/ ~ Someone /\ UNCHANGED setbacks
    \/ Someone /\ Setback

At(c, step)      == task[c].step = step
Goto(c, step)    == task' = [task EXCEPT ![c].step = step]
Turn(c, g, step) == task' = [task EXCEPT ![c].goal = g, ![c].step = step]
Finish(c)        == task' = [task EXCEPT ![c] = Rest]
Fail(c, why)     == Finish(c) /\ failed' = [failed EXCEPT ![c] = why]

\* A call of the object API, or a lifecycle command; the first one loads the
\* code that is on disk.
Begin(c, g) ==
    /\ At(c, "idle")
    /\ calls[c] < MaxCalls
    /\ FoldFunction(+, 0, calls) < MaxTotal
    /\ calls' = [calls EXCEPT ![c] = @ + 1]
    /\ own' = [own EXCEPT ![c] = IF calls[c] = 0 THEN disk ELSE @]
    /\ Turn(c, g, CASE g = "start" -> "launch"
                     [] g \in {"stop", "restart"} -> "ask"
                     [] g = "call" /\ c \in verified -> "send"
                     [] OTHER -> "check")
    /\ failed' = [failed EXCEPT ![c] = None]
    /\ UNCHANGED <<daemonVars, verified, mine, conn, workVars, lost, astray,
                   stoppers, mishaps, setbacks>>

\* The check precedes the call, and follows it when it could not be made before.
Checked(c) ==
    IF task[c].answered THEN Finish(c) ELSE Turn(c, "call", "send")

\* Mutant of CheckSilence: a daemon yet to be started counts as checked.
CheckSilenceTrusts(c) ==
    NoAnswer /\ Checked(c) /\ verified' = verified \union {c}

\* Nobody to check is no reason to refuse: the call will start the daemon.
CheckSilence(c) ==
    NoAnswer /\ Checked(c) /\ UNCHANGED verified

Check(c) ==
    /\ At(c, "check")
    /\ \/ \E p \in Process :
            /\ Answers(p)
            /\ IF build[p] = own[c]
               THEN verified' = verified \union {c} /\ Checked(c)
               ELSE Turn(c, "guard", "ask") /\ UNCHANGED verified
            /\ UNCHANGED setbacks
       \/ CheckSilence(c)
    /\ UNCHANGED <<daemonVars, own, calls, mine, conn, workVars, lost, astray, failed,
                   stoppers, mishaps>>

\* stop() pings and then asks for the shutdown, which is acknowledged first.
Ask(c) ==
    /\ At(c, "ask")
    /\ \/ \E p \in Process :
            /\ Answers(p)
            /\ timer' = [timer EXCEPT ![p] = "armed"]
            /\ stoppers' = stoppers \union {<<c, task[c].goal>>}
            /\ Goto(c, "vanish")
            /\ UNCHANGED setbacks
       \/ NoAnswer /\ Goto(c, "exit") /\ UNCHANGED <<timer, stoppers>>
    /\ UNCHANGED <<disk, at, build, lock, path, stopping, listener, own, calls,
                   verified, mine, conn, workVars, lost, astray, failed, mishaps>>

Vanish(c) ==
    /\ At(c, "vanish")
    /\ NoAnswer
    /\ Goto(c, "exit")
    /\ UNCHANGED <<daemonVars, own, calls, verified, mine, conn, workVars, lost,
                   astray, failed, stoppers, mishaps>>

\* The client also waits for the process, if it is one it has launched.
AwaitExit(c) ==
    /\ At(c, "exit")
    /\ mine[c] # None => at[mine[c]] = "gone"
    /\ mine' = [mine EXCEPT ![c] = None]
    /\ IF task[c].goal = "stop" THEN Finish(c) ELSE Goto(c, "launch")
    /\ UNCHANGED <<daemonVars, own, calls, verified, conn, workVars, history>>

\* Somebody answers, whoever has launched it.
Found(c) == Goto(c, IF task[c].goal = "call" THEN "send" ELSE "identify")

Unused == {p \in Process : at[p] = "gone" /\ path # p
                           /\ \A c \in Client : p \notin {mine[c], conn[c]}}

Launch(c) ==
    /\ At(c, "launch")
    /\ \/ Someone /\ Found(c) /\ UNCHANGED <<at, mine, setbacks>>
       \/ /\ NoAnswer
          /\ \E p \in Unused :
                /\ \A q \in Unused : p <= q
                /\ at' = [at EXCEPT ![p] = "starting"]
                /\ mine' = [mine EXCEPT ![c] = p]
          /\ Goto(c, "ready")
    /\ UNCHANGED <<disk, build, lock, path, stopping, listener, timer, own, calls,
                   verified, conn, workVars, lost, astray, failed, stoppers, mishaps>>

\* The endpoint decides and not the fate of the child that was launched.
AwaitReady(c) ==
    /\ At(c, "ready")
    /\ Someone
    /\ Found(c)
    /\ UNCHANGED <<daemonVars, own, calls, verified, mine, conn, workVars, history>>

\* The status after a start; a guard refuses to go on with other code.
Identify(c) ==
    /\ At(c, "identify")
    /\ \/ \E p \in Process :
            /\ Answers(p)
            /\ IF task[c].goal # "guard" THEN Finish(c) /\ UNCHANGED <<verified, failed>>
               ELSE IF build[p] = own[c]
               THEN /\ verified' = verified \union {c}
                    /\ Checked(c)
                    /\ UNCHANGED failed
               ELSE Fail(c, "stale") /\ UNCHANGED verified
            /\ UNCHANGED setbacks
       \/ NoAnswer /\ Fail(c, "unavailable") /\ UNCHANGED verified
    /\ UNCHANGED <<daemonVars, own, calls, mine, conn, workVars, lost, astray,
                   stoppers, mishaps>>

\* Once, a call that could not be delivered starts a daemon and is sent again.
Retry(c) ==
    IF task[c].again THEN Fail(c, "unavailable")
    ELSE /\ task' = [task EXCEPT ![c].again = TRUE, ![c].step = "launch"]
         /\ UNCHANGED failed

Send(c) ==
    /\ At(c, "send")
    /\ \/ \E p \in Process :
            /\ Answers(p)
            /\ jobs' = jobs \union {[client |-> c, call |-> calls[c], on |-> p,
                                     done |-> FALSE]}
            /\ conn' = [conn EXCEPT ![c] = p]
            /\ astray' = [astray EXCEPT ![c] = IF build[p] = own[c] THEN @ ELSE @ + 1]
            /\ Goto(c, "wait")
            /\ UNCHANGED failed
       \/ ~ Someone /\ Retry(c) /\ UNCHANGED <<jobs, conn, astray>>
    /\ UNCHANGED <<daemonVars, own, calls, verified, mine, effects, lost, stoppers,
                   mishaps, setbacks>>

Reply(c) ==
    /\ At(c, "wait")
    /\ \E j \in jobs :
         /\ j.client = c /\ j.call = calls[c] /\ j.on = conn[c] /\ j.done
         /\ jobs' = jobs \ {j}
    /\ conn' = [conn EXCEPT ![c] = None]
    /\ IF c \in verified THEN Finish(c)
       ELSE task' = [task EXCEPT ![c].answered = TRUE, ![c].step = "check"]
    /\ UNCHANGED <<daemonVars, own, calls, verified, mine, effects, history>>

\* The connection ends without an answer: the daemon may or may not have acted.
Disconnect(c) ==
    /\ At(c, "wait")
    /\ at[conn[c]] = "gone"
    /\ lost' = lost \union {<<c, calls[c]>>}
    /\ conn' = [conn EXCEPT ![c] = None]
    /\ Retry(c)
    /\ UNCHANGED <<daemonVars, own, calls, verified, mine, workVars, astray, stoppers,
                   mishaps, setbacks>>

\* Mutant of TimeOut: a timeout is taken for a lost daemon.
TimeOutRetries(c) ==
    /\ At(c, "wait")
    /\ Setback
    /\ conn' = [conn EXCEPT ![c] = None]
    /\ Retry(c)
    /\ UNCHANGED <<daemonVars, own, calls, verified, mine, workVars, lost, astray,
                   stoppers, mishaps>>

\* A request that takes too long is not sent again; the daemon goes on with it.
TimeOut(c) ==
    /\ At(c, "wait")
    /\ Setback
    /\ conn' = [conn EXCEPT ![c] = None]
    /\ Fail(c, "timeout")
    /\ UNCHANGED <<daemonVars, own, calls, verified, mine, workVars, lost, astray,
                   stoppers, mishaps>>

\* Nothing will happen any more unless a client makes it happen.
Settled ==
    \A p \in Process :
       \/ at[p] = "gone"
       \/ at[p] = "serving" /\ p \notin stopping /\ timer[p] = "off"

\* Mutants of Hopeless: the end of the client's own child counts as failure, and
\* a start without a deadline.
HopelessWithChild(c) ==
    \/ Settled /\ At(c, "vanish") /\ Someone
    \/ At(c, "ready") /\ at[mine[c]] = "gone"

HopelessStopOnly(c) ==
    /\ Settled
    /\ \/ At(c, "vanish") /\ Someone
       \/ At(c, "exit") /\ mine[c] # None /\ at[mine[c]] # "gone"

Hopeless(c) ==
    /\ Settled
    /\ \/ At(c, "vanish") /\ Someone
       \/ At(c, "exit") /\ mine[c] # None /\ at[mine[c]] # "gone"
       \/ At(c, "ready") /\ ~ Someone

\* The deadline, or the operating system refuses to launch.
GiveUp(c) ==
    /\ \/ Hopeless(c) /\ UNCHANGED setbacks
       \/ task[c].step \in {"ask", "vanish", "exit", "launch", "ready"} /\ Setback
    /\ Fail(c, IF task[c].step \in {"vanish", "exit"} THEN "running" ELSE "unavailable")
    /\ mine' = [mine EXCEPT ![c] =
                  IF At(c, "ready") /\ @ # None /\ at[@] = "gone" THEN None ELSE @]
    /\ UNCHANGED <<daemonVars, own, calls, verified, conn, workVars, lost, astray,
                   stoppers, mishaps>>

-----------------------------------------------------------------------------
DaemonStep(p) ==
    \/ Prepare(p) \/ Bind(p) \/ TimerStep(p)
    \/ Leave(p) \/ Cleanup(p) \/ Exit(p)

Serve(c) ==
    \/ Check(c) \/ Ask(c) \/ Vanish(c) \/ AwaitExit(c) \/ Launch(c) \/ AwaitReady(c)
    \/ Identify(c) \/ Send(c) \/ Reply(c) \/ Disconnect(c) \/ GiveUp(c)

Next ==
    \/ \E p \in Process : DaemonStep(p) \/ Signal(p) \/ Crash(p)
    \/ \E j \in jobs : Execute(j)
    \/ Upgrade
    \/ \E c \in Client :
          \/ Serve(c) \/ TimeOut(c)
          \/ \E g \in Goal \ {"guard"} : Begin(c, g)

\* The operating system runs every process, and a client's waits are bounded.
Fairness ==
    /\ \A p \in Process : WF_vars(DaemonStep(p))
    /\ WF_vars(\E j \in jobs : Execute(j))
    /\ \A c \in Client : WF_vars(Serve(c))

Spec == Init /\ [][Next]_vars /\ Fairness

-----------------------------------------------------------------------------
(* What another client, the operator or the machine may have done to c. *)
Disturbed(c) ==
    \/ setbacks > 0
    \/ mishaps # {}
    \/ \E s \in stoppers : s[1] # c

(* One daemon at a time answers and runs the maintenance lanes, and it can   *)
(* be reached: no start, stop or crash leaves a daemon that holds the lock   *)
(* behind a path that names nothing, unless a late stop() has removed it     *)
(* (runtime/ipc_platform.py, serve_forever, _prepare and _cleanup).          *)
OneDaemonIsReached ==
    \A p \in Process :
       at[p] = "serving" /\ p \notin stopping =>
          /\ \A q \in Process \ {p} : at[q] = "serving" => q \in stopping
          /\ path = p \/ "path removed late" \in mishaps

(* An operation is carried out twice only if the connection of its call was  *)
(* lost: neither a timeout nor a refused connection makes a client repeat    *)
(* what a daemon may be doing (RuntimeClient.call).                          *)
RepeatsFollowALoss ==
    \A c \in Client, n \in Calls :
       effects[c][n] > 1 => <<c, n>> \in lost

(* A client whose code the daemon does not share learns it after at most one *)
(* operation, unless it restarts the daemon by a command itself              *)
(* (runtime/proxies.py, _ensure_runtime_generation and _runtime_call).       *)
StaleCodeIsRefused ==
    \A c \in Client :
       astray[c] > 1 => Disturbed(c) \/ <<c, "restart">> \in stoppers
                                     \/ <<c, "stop">> \in stoppers

(* Left alone, a client is served: a lost race for the lock, a stale socket  *)
(* or the restart of a daemon with older code fails no call.  A client is    *)
(* refused only when its own code is no longer that on disk, and a stop      *)
(* fails only if another client can have started a daemon meanwhile.         *)
FailuresAreExcused ==
    \A c \in Client :
       /\ failed[c] = "unavailable" => Disturbed(c)
       /\ failed[c] = "stale" => own[c] # disk \/ setbacks > 0
       /\ failed[c] = "running" => \/ Disturbed(c)
                                  \/ \E d \in Client \ {c} : calls[d] > 0

(* Every call and command ends, with an answer or an error.                  *)
CallsReturn ==
    \A c \in Client : ~ At(c, "idle") ~> At(c, "idle")
=============================================================================
