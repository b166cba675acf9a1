--------------------------- MODULE RouteRecovery ---------------------------
(***************************************************************************)
(* What an exchange promises about the provider calls it makes, whatever   *)
(* the providers answer: candidates of the route are called in route       *)
(* order, none of the ones that were suppressed when it started, at most   *)
(* two calls of a candidate for one answer, and no other candidate once    *)
(* a tool round has had effects.  The comments on advanceProviderExecution *)
(* and providerCallAttempt in internal/exchange state it.                  *)
(***************************************************************************)
EXTENDS Integers

CONSTANT Candidates    \* positions in the route plan

VARIABLES
    allowed,   \* the candidates that were not suppressed at the start
    at,        \* the candidate called last, 0 before the first call
    tries,     \* calls of that candidate for the answer now sought
    effects,   \* a tool round has begun
    outcome    \* running, answered or failed

vars == <<allowed, at, tries, effects, outcome>>

Init ==
    /\ allowed \subseteq Candidates
    /\ at = 0
    /\ tries = 0
    /\ effects = FALSE
    /\ outcome = "running"

\* Fall back to a later candidate
Advance(c) ==
    /\ outcome = "running" /\ ~effects
    /\ c \in allowed /\ c > at
    /\ at' = c /\ tries' = 1
    /\ UNCHANGED <<allowed, effects, outcome>>

\* Call the same candidate in another form, or with the tool results
Repeat ==
    /\ outcome = "running"
    /\ at \in allowed /\ tries < 2
    /\ tries' = tries + 1
    /\ UNCHANGED <<allowed, at, effects, outcome>>

\* The answer asks for tools: the next call belongs to another answer
ToolRound ==
    /\ outcome = "running"
    /\ at \in allowed /\ tries > 0
    /\ tries' = 0
    /\ effects' = TRUE
    /\ UNCHANGED <<allowed, at, outcome>>

Answer ==
    /\ outcome = "running" /\ tries > 0
    /\ outcome' = "answered"
    /\ UNCHANGED <<allowed, at, tries, effects>>

GiveUp ==
    /\ outcome = "running"
    /\ outcome' = "failed"
    /\ UNCHANGED <<allowed, at, tries, effects>>

Next == (\E c \in Candidates : Advance(c)) \/ Repeat \/ ToolRound \/ Answer \/ GiveUp

Spec == Init /\ [][Next]_vars
=============================================================================
