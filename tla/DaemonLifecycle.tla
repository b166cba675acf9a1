-------------------------- MODULE DaemonLifecycle --------------------------
(***************************************************************************)
(* Daemon processes that want one configuration file and one address, and  *)
(* the commands that attach to, start, stop and restart them.              *)
(*                                                                         *)
(* bootstrap.Start takes the lock of the configuration and then the        *)
(* address; Daemon.Close gives the address back at once and the lock only  *)
(* after the handlers have finished, telemetry has stopped and the Share   *)
(* runtime has stopped.  Package daemonlifecycle knows a daemon only by    *)
(* its status endpoint, which can also be too slow to answer.              *)
(***************************************************************************)
EXTENDS Naturals

CONSTANTS
    Process,        \* daemon processes that can be started
    Command,        \* command invocations, each runs once
    MaxHandlers,    \* bound on the requests a daemon serves at a time
    None

ASSUME LifecycleAssumption == MaxHandlers \in Nat \ {0} /\ None \notin Process

VARIABLES
    phase,          \* where each daemon process is in Start, serve and Close
    closing,        \* daemons whose Close was called for
    lock, address,  \* owner of the configuration lock and of the address
    handlers,       \* requests Shutdown waits for, per daemon
    detached,       \* requests on hijacked connections, per daemon
    cmd             \* the commands

daemons == <<phase, closing, lock, address, handlers, detached>>
vars == <<daemons, cmd>>

Op == {"attach", "down", "restart"}
Idle == [at |-> "idle", op |-> "attach", child |-> None, result |-> "none"]

Init ==
    /\ phase = [p \in Process |-> "unborn"]
    /\ closing = {}
    /\ lock = None /\ address = None
    /\ handlers = [p \in Process |-> 0]
    /\ detached = [p \in Process |-> FALSE]
    /\ cmd = [c \in Command |-> Idle]

-----------------------------------------------------------------------------
(* The daemon process.                                                     *)

(* The OS takes back what a process held.                                  *)
exit(p) ==
    /\ phase' = [phase EXCEPT ![p] = "exited"]
    /\ lock' = IF lock = p THEN None ELSE lock
    /\ address' = IF address = p THEN None ELSE address
    /\ handlers' = [handlers EXCEPT ![p] = 0]
    /\ detached' = [detached EXCEPT ![p] = FALSE]
    /\ closing' = closing \ {p}

(* OpenOrCreate does not wait for the lock: a second daemon is refused.    *)
OpenStore(p) ==
    /\ phase[p] = "starting"
    /\ IF lock = None
       THEN /\ lock' = p
            /\ phase' = [phase EXCEPT ![p] = "opened"]
            /\ UNCHANGED <<closing, address, handlers, detached>>
       ELSE exit(p)

(* Start binds the address last; a failure closes the store it opened.     *)
Listen(p) ==
    /\ phase[p] = "opened"
    /\ IF address = None
       THEN /\ address' = p
            /\ phase' = [phase EXCEPT ![p] = "serving"]
            /\ UNCHANGED <<closing, lock, handlers, detached>>
       ELSE exit(p)

StartFails(p) ==
    /\ phase[p] \in {"starting", "opened"}
    /\ exit(p)

(* Mutant: connections that are already open bring new requests while the  *)
(* daemon drains.                                                          *)
RequestStartsDraining(p) ==
    /\ phase[p] \in {"serving", "draining"}
    /\ handlers[p] < MaxHandlers
    /\ handlers' = [handlers EXCEPT ![p] = @ + 1]
    /\ UNCHANGED <<phase, closing, lock, address, detached>>

RequestStarts(p) ==
    /\ phase[p] = "serving"
    /\ handlers[p] < MaxHandlers
    /\ handlers' = [handlers EXCEPT ![p] = @ + 1]
    /\ UNCHANGED <<phase, closing, lock, address, detached>>

RequestEnds(p) ==
    /\ handlers[p] > 0
    /\ handlers' = [handlers EXCEPT ![p] = @ - 1]
    /\ UNCHANGED <<phase, closing, lock, address, detached>>

(* A Responses WebSocket hijacks its connection, and Shutdown no longer    *)
(* knows of it.                                                            *)
Hijack(p) ==
    /\ handlers[p] > 0 /\ ~ detached[p]
    /\ handlers' = [handlers EXCEPT ![p] = @ - 1]
    /\ detached' = [detached EXCEPT ![p] = TRUE]
    /\ UNCHANGED <<phase, closing, lock, address>>

DetachedEnds(p) ==
    /\ detached[p]
    /\ detached' = [detached EXCEPT ![p] = FALSE]
    /\ UNCHANGED <<phase, closing, lock, address, handlers>>

(* A signal, or a Serve that failed, lets runDaemon run its deferred Close.*)
Interrupted(p) ==
    /\ phase[p] = "serving"
    /\ closing' = closing \cup {p}
    /\ UNCHANGED <<phase, lock, address, handlers, detached>>

(* Shutdown closes the listener first.                                     *)
CloseListener(p) ==
    /\ phase[p] = "serving" /\ p \in closing
    /\ phase' = [phase EXCEPT ![p] = "draining"]
    /\ address' = None
    /\ UNCHANGED <<closing, lock, handlers, detached>>

(* Mutant: cleanup does not wait for the handlers.                         *)
DrainedAtOnce(p) ==
    /\ phase[p] = "draining"
    /\ phase' = [phase EXCEPT ![p] = "cleaning"]
    /\ UNCHANGED <<closing, lock, address, handlers, detached>>

(* Shutdown returns when no handler is active.                             *)
Drained(p) ==
    /\ phase[p] = "draining"
    /\ handlers[p] = 0
    /\ phase' = [phase EXCEPT ![p] = "cleaning"]
    /\ UNCHANGED <<closing, lock, address, handlers, detached>>

(* Telemetry and the Share runtime are stopped, then the store is closed.  *)
CloseStore(p) ==
    /\ phase[p] = "cleaning"
    /\ phase' = [phase EXCEPT ![p] = "closed"]
    /\ lock' = None
    /\ UNCHANGED <<closing, address, handlers, detached>>

(* runDaemon returns once Close has.                                       *)
ProcessStops(p) ==
    /\ phase[p] = "closed"
    /\ exit(p)

Crash(p) ==
    /\ phase[p] \notin {"unborn", "exited"}
    /\ exit(p)

-----------------------------------------------------------------------------
(* The commands.                                                           *)

(* FetchStatus finds a daemon only while one owns the address; whether the *)
(* answer arrives within the client's timeout is another matter.           *)
reachable == address # None

ended(c, result) == cmd' = [cmd EXCEPT ![c].at = "done", ![c].result = result]

Invoke(c, op) ==
    /\ cmd[c].at = "idle"
    /\ cmd' = [cmd EXCEPT ![c].op = op,
                          ![c].at = IF op = "attach" THEN "probe" ELSE "downProbe"]
    /\ UNCHANGED daemons

(* The operator runs swobu daemon in the foreground.                       *)
Foreground(p) ==
    /\ phase[p] = "unborn"
    /\ phase' = [phase EXCEPT ![p] = "starting"]
    /\ UNCHANGED <<closing, lock, address, handlers, detached, cmd>>

(* AttachOrStart attaches to whatever answers, if it speaks the protocol.  *)
Attach(c) ==
    /\ cmd[c].at \in {"probe", "wait"}
    /\ reachable
    /\ \E result \in {"ready", "incompatible"} : ended(c, result)
    /\ UNCHANGED daemons

(* No answer: a child is started with the same configuration and address.  *)
Spawn(c) ==
    /\ cmd[c].at = "probe"
    /\ \/ \E p \in Process :
             /\ phase[p] = "unborn"
             /\ phase' = [phase EXCEPT ![p] = "starting"]
             /\ cmd' = [cmd EXCEPT ![c].at = "wait", ![c].child = p]
       \/ ended(c, "failed") /\ UNCHANGED phase
    /\ UNCHANGED <<closing, lock, address, handlers, detached>>

(* waitForDaemonReadiness: the child's exit, or the readiness timeout.     *)
ChildExited(c) ==
    /\ cmd[c].at = "wait"
    /\ phase[cmd[c].child] = "exited"
    /\ ended(c, "failed")
    /\ UNCHANGED daemons

ReadinessTimesOut(c) ==
    /\ cmd[c].at = "wait"
    /\ ended(c, "timeout")
    /\ UNCHANGED daemons

(* Down reports success, and Restart goes on to AttachOrStart.             *)
downReturns(c, result) ==
    IF cmd[c].op = "restart" THEN cmd' = [cmd EXCEPT ![c].at = "probe"]
    ELSE ended(c, result)

DownProbe(c) ==
    /\ cmd[c].at = "downProbe"
    /\ \/ reachable /\ cmd' = [cmd EXCEPT ![c].at = "post"]
       \/ downReturns(c, "already_stopped")
    /\ UNCHANGED daemons

(* The handler answers and closes the daemon in another goroutine.         *)
PostDown(c) ==
    /\ cmd[c].at = "post"
    /\ reachable
    /\ closing' = closing \cup {address}
    /\ cmd' = [cmd EXCEPT ![c].at = "downWait"]
    /\ UNCHANGED <<phase, lock, address, handlers, detached>>

(* No answer to the POST, whether or not it arrived: a second probe        *)
(* decides.  A refusal is an error too.                                    *)
PostFails(c) ==
    /\ cmd[c].at = "post"
    /\ \/ downReturns(c, "already_stopped")
       \/ reachable /\ ended(c, "failed")
    /\ closing' \in {closing, closing \cup ({address} \ {None})}
    /\ UNCHANGED <<phase, lock, address, handlers, detached>>

(* A status that does not answer in time, or by the deadline of the wait,  *)
(* counts as stopped.                                                      *)
DownObserved(c) ==
    /\ cmd[c].at = "downWait"
    /\ downReturns(c, "stopped")
    /\ UNCHANGED daemons

DownTimesOut(c) ==
    /\ cmd[c].at = "downWait"
    /\ reachable
    /\ ended(c, "failed")
    /\ UNCHANGED daemons

-----------------------------------------------------------------------------
(* Start, serve and Close: one thread of control, at one step at a time.   *)
Serves(p) ==
    OpenStore(p) \/ Listen(p) \/ CloseListener(p)
       \/ Drained(p) \/ CloseStore(p) \/ ProcessStops(p)

Environment(p) ==
    StartFails(p) \/ RequestStarts(p) \/ RequestEnds(p) \/ Hijack(p) \/ DetachedEnds(p)
       \/ Interrupted(p) \/ Crash(p)

Runs(c) ==
    Attach(c) \/ Spawn(c) \/ ChildExited(c) \/ ReadinessTimesOut(c)
       \/ DownProbe(c) \/ PostDown(c) \/ PostFails(c) \/ DownObserved(c) \/ DownTimesOut(c)

Next ==
    \/ \E p \in Process : Serves(p) /\ UNCHANGED cmd
    \/ \E p \in Process : Environment(p) /\ UNCHANGED cmd
    \/ \E p \in Process : Foreground(p)
    \/ \E c \in Command, op \in Op : Invoke(c, op)
    \/ \E c \in Command : Runs(c)

(* A process keeps running, and a handler that the daemon waits for ends.  *)
Fairness ==
    \A p \in Process : /\ WF_vars(Serves(p) /\ UNCHANGED cmd)
                       /\ WF_vars(RequestEnds(p) /\ UNCHANGED cmd)

Spec == Init /\ [][Next]_vars /\ Fairness

-----------------------------------------------------------------------------
Phase == {"unborn", "starting", "opened", "serving", "draining", "cleaning", "closed", "exited"}

Invocation ==
    [at : {"idle", "probe", "wait", "downProbe", "post", "downWait", "done"}, op : Op,
     child : Process \cup {None},
     result : {"none", "ready", "incompatible", "failed", "timeout", "already_stopped", "stopped"}]

TypeOK ==
    /\ phase \in [Process -> Phase]
    /\ closing \subseteq Process
    /\ lock \in Process \cup {None} /\ address \in Process \cup {None}
    /\ handlers \in [Process -> 0 .. MaxHandlers]
    /\ detached \in [Process -> BOOLEAN]
    /\ cmd \in [Command -> Invocation]

(* "Only one daemon can use a configuration file at a time": however many  *)
(* daemons commands start on a wrong guess, a daemon that answers on the   *)
(* address or still runs a handler owns the configuration, from before the *)
(* address is taken until the last handler is done.                        *)
ConfigExclusive ==
    /\ TypeOK
    /\ \A p \in Process :
          /\ phase[p] \in {"opened", "serving", "draining", "cleaning"} <=> lock = p
          /\ phase[p] = "serving" <=> address = p
          /\ handlers[p] > 0 => lock = p

(* A daemon that was told to stop, by a command or by a signal, exits once *)
(* its handlers end, however many requests clients still send, and its     *)
(* configuration is free for the next one.                                 *)
ShutdownCompletes ==
    \A p \in Process : p \in closing ~> phase[p] = "exited" /\ lock # p

(* Daemon says of Close that "Cleanup therefore never overlaps an          *)
(* in-flight request": no request of any kind is left when it starts.      *)
CleanupAfterRequests ==
    \A p \in Process : phase[p] \in {"cleaning", "closed"} => handlers[p] = 0 /\ ~ detached[p]
=============================================================================
