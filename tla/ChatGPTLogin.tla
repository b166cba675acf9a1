---------------------------- MODULE ChatGPTLogin ----------------------------
(***************************************************************************)
(* The ChatGPT login service: login sessions started by the operator, the  *)
(* OAuth callback server shared by the browser sessions, session polls     *)
(* that exchange an authorization code outside the lock, the eviction      *)
(* ticker and the idle timer that gives the callback port back.            *)
(*                                                                         *)
(* Every action is one critical section of the service's mutex.  Time is   *)
(* counted in eviction-ticker units; a session's age stops once it is past *)
(* its time to live.                                                       *)
(***************************************************************************)
EXTENDS Naturals, FiniteSets

CONSTANTS
    Session,    \* session ids
    SessionTTL, \* authSessionTTL
    EvictEvery, \* SessionEvictEvery
    IdleTTL,    \* CallbackIdleTTL
    MaxCodes    \* bound: authorization codes delivered to one session

ASSUME LoginAssumption ==
    /\ IsFiniteSet(Session)
    /\ SessionTTL \in Nat
    /\ EvictEvery \in Nat \ {0}
    /\ IdleTTL \in Nat \ {0}
    /\ MaxCodes \in Nat

VARIABLES
    session,    \* sessionRecord of every id, and where its Start is
    server,     \* the callback server listens
    count,      \* callbackActiveCount
    timers,     \* running idle timers; ref: held by callbackIdleTimer
    sinceEvict, \* time since the eviction ticker fired
    exchanging, \* token exchanges in flight, per session
    delivered,  \* authorization codes delivered, per session
    exchanged   \* token exchanges begun, per session

callback == <<server, count, timers>>
tokens == <<exchanging, delivered, exchanged>>
loginVars == <<session, callback, sinceEvict, tokens>>

Absent == [at |-> "absent", mode |-> "device", state |-> "pending", terminal |-> FALSE,
           code |-> FALSE, age |-> 0]

Known == {s \in Session : session[s].at = "known"}
Waiting(s) == session[s].at = "known" /\ session[s].mode = "browser" /\ ~session[s].terminal
Building == {s \in Session : session[s].at = "building"}

LoginInit ==
    /\ session = [s \in Session |-> Absent]
    /\ server = FALSE
    /\ count = 0
    /\ timers = {}
    /\ sinceEvict = 0
    /\ exchanging = [s \in Session |-> 0]
    /\ delivered = [s \in Session |-> 0]
    /\ exchanged = [s \in Session |-> 0]

(* time.Timer.Stop: a timer whose function is already waiting for the lock *)
(* still runs it.                                                          *)
Stop(ts) == {t \in ts : ~t.ref} \cup {[left |-> 0, ref |-> FALSE] : t \in {u \in ts : u.ref /\ u.left = 0}}

scheduleCallbackShutdown(ts) == Stop(ts) \cup {[left |-> IdleTTL, ref |-> TRUE]}

ScheduledIfIdle(n, ts) == IF n = 0 THEN scheduleCallbackShutdown(ts) ELSE ts

Decremented(n) == IF n > 0 THEN n - 1 ELSE n

(* Mutant: a terminal session is counted down again.                        *)
setTerminalStateRepeated(s, state) ==
    LET browser == session[s].mode = "browser"
        n == IF browser THEN Decremented(count) ELSE count
    IN /\ session' = [session EXCEPT ![s].state = state, ![s].terminal = TRUE]
       /\ count' = n
       /\ timers' = IF browser THEN ScheduledIfIdle(n, timers) ELSE timers

setTerminalState(s, state) ==
    LET counted == session[s].mode = "browser" /\ ~session[s].terminal
        n == IF counted THEN Decremented(count) ELSE count
    IN /\ session' = [session EXCEPT ![s].state = state, ![s].terminal = TRUE]
       /\ count' = n
       /\ timers' = IF counted THEN ScheduledIfIdle(n, timers) ELSE timers

(* Mutant: only terminal sessions are evicted.                              *)
ExpiredTerminal(r) == r.at = "known" /\ r.age > SessionTTL /\ r.terminal

Expired(r) == r.at = "known" /\ r.age > SessionTTL

(* callbackActiveCount after the expired sessions of ss are removed.       *)
Evicted(n, ss) ==
    LET gone == Cardinality({s \in Session : Expired(ss[s]) /\ ss[s].mode = "browser" /\ ~ss[s].terminal})
    IN IF n >= gone THEN n - gone ELSE 0

Purged(ss) == [s \in Session |-> IF Expired(ss[s]) THEN [Absent EXCEPT !.at = "evicted"] ELSE ss[s]]

evictExpired(n, ss, ts) ==
    /\ session' = Purged(ss)
    /\ count' = Evicted(n, ss)
    /\ timers' = ScheduledIfIdle(Evicted(n, ss), ts)

----------------------------------------------------------------------------
(* Start: a browser session first makes sure that the callback server      *)
(* listens; the authorize URL or the device code is obtained outside the   *)
(* lock, and only then is the session registered and counted.              *)

StartBrowser(s) ==
    /\ session[s].at = "absent"
    /\ \/ /\ server' = TRUE
          /\ session' = [session EXCEPT ![s].at = "building", ![s].mode = "browser"]
       \/ /\ ~server                                 \* both callback ports are busy
          /\ server' = server
          /\ session' = [session EXCEPT ![s].at = "refused"]
    /\ UNCHANGED <<count, timers, sinceEvict, tokens>>

closeCallbackServerIfIdle ==
    IF count > 0 \/ ~server
    THEN UNCHANGED callback
    ELSE server' = FALSE /\ timers' = Stop(timers) /\ count' = count

BuildFails(s) ==
    /\ session[s].at = "building"
    /\ session' = [session EXCEPT ![s] = [Absent EXCEPT !.at = "refused"]]
    /\ closeCallbackServerIfIdle
    /\ UNCHANGED <<sinceEvict, tokens>>

Registered(s, mode) == [session EXCEPT ![s].at = "known", ![s].mode = mode]

RegisterBrowser(s) ==
    /\ session[s].at = "building"
    /\ evictExpired(count + 1, Registered(s, "browser"), Stop(timers))
    /\ UNCHANGED <<server, sinceEvict, tokens>>

RegisterDevice(s) ==
    /\ session[s].at = "absent"
    /\ evictExpired(count, Registered(s, "device"), timers)
    /\ UNCHANGED <<server, sinceEvict, tokens>>

(* Cancel: also of a session that is already terminal.                     *)
Cancel(s) ==
    /\ s \in Known
    /\ setTerminalState(s, "canceled")
    /\ UNCHANGED <<server, sinceEvict, tokens>>

(* Mutant: the callback of a terminal session is accepted.                  *)
AcceptsAny(s) == s \in Known

Accepts(s) == s \in Known /\ ~session[s].terminal

(* The browser returns with a code, or with an error or without a code.    *)
HandleCallback(s, ok) ==
    /\ server /\ session[s].mode = "browser"
    /\ Accepts(s)
    /\ \/ /\ ok /\ delivered[s] < MaxCodes
          /\ session' = [session EXCEPT ![s].code = TRUE, ![s].state = "pending"]
          /\ delivered' = [delivered EXCEPT ![s] = @ + 1]
          /\ UNCHANGED <<callback, sinceEvict, exchanging, exchanged>>
       \/ /\ ~ok
          /\ setTerminalState(s, "failed")
          /\ UNCHANGED <<server, sinceEvict, tokens>>

----------------------------------------------------------------------------
(* Session: what a poll of s does under its first lock.  Expiry, the       *)
(* device poll and the exchange guard follow one another.                  *)

PollExpires(s) ==
    /\ s \in Known /\ session[s].age > SessionTTL
    /\ setTerminalState(s, "expired")
    /\ UNCHANGED <<server, sinceEvict, tokens>>

CanPoll(s) == s \in Known /\ session[s].age <= SessionTTL /\ session[s].state = "pending"

PollDeviceFails(s) ==
    /\ CanPoll(s) /\ session[s].mode = "device"
    /\ setTerminalState(s, "failed")
    /\ UNCHANGED <<server, sinceEvict, tokens>>

(* Mutant: the code is cleared only after the exchange.                     *)
TakenLate(s) == session

Taken(s) == [session EXCEPT ![s].code = FALSE]

(* A code is at hand, delivered by the callback or by this device poll:    *)
(* it is taken under the lock and exchanged outside it.                    *)
PollExchanges(s) ==
    /\ CanPoll(s)
    /\ \/ /\ session[s].mode = "browser" /\ session[s].code
          /\ delivered' = delivered
       \/ /\ session[s].mode = "device" /\ delivered[s] < MaxCodes
          /\ delivered' = [delivered EXCEPT ![s] = @ + 1]
    /\ session' = Taken(s)
    /\ exchanging' = [exchanging EXCEPT ![s] = @ + 1]
    /\ exchanged' = [exchanged EXCEPT ![s] = @ + 1]
    /\ UNCHANGED <<callback, sinceEvict>>

(* exchangeAndPersist returned; the session may be canceled or evicted by  *)
(* now, and a credential has been stored all the same.                     *)
ExchangeReturns(s, ok) ==
    /\ exchanging[s] > 0
    /\ exchanging' = [exchanging EXCEPT ![s] = @ - 1]
    /\ IF s \in Known
       THEN setTerminalState(s, IF ok THEN "succeeded" ELSE "failed")
       ELSE UNCHANGED <<session, count, timers>>
    /\ UNCHANGED <<server, sinceEvict, delivered, exchanged>>

----------------------------------------------------------------------------
(* Time.  A due ticker or timer runs before the next unit passes.          *)

Due == sinceEvict >= EvictEvery \/ \E t \in timers : t.left = 0

Minute ==
    /\ ~Due
    /\ sinceEvict' = sinceEvict + 1
    /\ timers' = {[t EXCEPT !.left = @ - 1] : t \in timers}
    /\ session' = [s \in Session |->
                     IF session[s].at = "known" /\ session[s].age <= SessionTTL
                     THEN [session[s] EXCEPT !.age = @ + 1] ELSE session[s]]
    /\ UNCHANGED <<server, count, tokens>>

EvictTick ==
    /\ sinceEvict >= EvictEvery
    /\ sinceEvict' = 0
    /\ evictExpired(count, session, timers)
    /\ UNCHANGED <<server, tokens>>

StaysOpen == count > 0 \/ ~server

(* Mutant: the idle timer starts itself again instead of closing.           *)
IdleTimerRepeats ==
    \E t \in timers :
        /\ t.left = 0
        /\ timers' = scheduleCallbackShutdown(timers \ {t})
        /\ UNCHANGED <<server, session, count, sinceEvict, tokens>>

(* The idle timer's function; it clears callbackIdleTimer even when that   *)
(* holds a newer timer, which then runs on unreferenced.                   *)
IdleTimerFires ==
    \E t \in timers :
        /\ t.left = 0
        /\ IF StaysOpen
           THEN timers' = timers \ {t} /\ server' = server
           ELSE /\ timers' = {[u EXCEPT !.ref = FALSE] : u \in timers \ {t}}
                /\ server' = FALSE
        /\ UNCHANGED <<session, count, sinceEvict, tokens>>

LoginNext ==
    \/ Minute \/ EvictTick \/ IdleTimerFires
    \/ \E s \in Session :
          \/ StartBrowser(s) \/ BuildFails(s) \/ RegisterBrowser(s) \/ RegisterDevice(s)
          \/ Cancel(s) \/ PollExpires(s) \/ PollDeviceFails(s) \/ PollExchanges(s)
          \/ \E ok \in BOOLEAN : HandleCallback(s, ok) \/ ExchangeReturns(s, ok)

LoginSpec == LoginInit /\ [][LoginNext]_loginVars

(* Time passes, tickers and timers run, and calls in flight return.        *)
LoginFairness ==
    /\ WF_loginVars(Minute) /\ WF_loginVars(EvictTick) /\ WF_loginVars(IdleTimerFires)
    /\ \A s \in Session : WF_loginVars(BuildFails(s) \/ RegisterBrowser(s))
    /\ \A s \in Session : WF_loginVars(\E ok \in BOOLEAN : ExchangeReturns(s, ok))

FairLoginSpec == LoginSpec /\ LoginFairness

----------------------------------------------------------------------------
(* Properties.                                                             *)

LoginTypeOK ==
    /\ session \in [Session -> [at : {"absent", "building", "known", "evicted", "refused"},
                                mode : {"browser", "device"},
                                state : {"pending", "succeeded", "failed", "expired", "canceled"},
                                terminal : BOOLEAN, code : BOOLEAN, age : 0..(SessionTTL + 1)]]
    /\ server \in BOOLEAN
    /\ count \in Nat
    /\ timers \subseteq [left : 0..IdleTTL, ref : BOOLEAN]
    /\ sinceEvict \in 0..EvictEvery
    /\ exchanging \in [Session -> 0..MaxCodes]
    /\ delivered \in [Session -> 0..MaxCodes]
    /\ exchanged \in [Session -> Nat]

(* callbackActiveCount is the number of registered browser sessions that   *)
(* are not terminal, whichever of cancel, callback, poll, exchange and     *)
(* eviction ended the others, and in whatever order.                       *)
CountMatchesWaiting == count = Cardinality({s \in Session : Waiting(s)})

(* A callback server nobody waits for is on its way out: a start is still  *)
(* under way, or an idle timer is running, so the port is never leaked     *)
(* with nothing left to close it.                                          *)
IdleServerIsTimed == (server /\ count = 0 /\ Building = {}) => timers # {}

(* The callback server's reference count and idle timer, together.         *)
CallbackServerInv == LoginTypeOK /\ CountMatchesWaiting /\ IdleServerIsTimed

(* An authorization code is exchanged at most once, however polls of the   *)
(* same session overlap: the poll takes the code under the lock.           *)
CodeExchangedOnce == \A s \in Session : exchanged[s] <= delivered[s]

(* A terminal session never becomes pending again and starts no exchange:  *)
(* a late callback is ignored.                                             *)
NoRevival ==
    [][\A s \in Session : (session[s].terminal /\ session'[s].at = "known") =>
          session'[s].state # "pending" /\ exchanged'[s] = exchanged[s]]_loginVars

(* Every registered session ends: it becomes terminal or is evicted.       *)
SessionsSettle == \A s \in Session : Waiting(s) ~> ~Waiting(s)

(* Cancel: "explicit user cancel can promptly release the callback port    *)
(* once no other pending browser sessions remain": a callback server that  *)
(* no browser session waits for is closed, unless another session starts.  *)
Unneeded == server /\ count = 0 /\ Building = {}

PortReleased == Unneeded ~> ~Unneeded

=============================================================================
