----------------------------- MODULE MCTargets -----------------------------
(***************************************************************************)
(* The two keepers of target generations, for TLC: the routing document    *)
(* issues them and the backoff ledger remembers their failures.  They      *)
(* share nothing but the name (targetID, targetVersion), so `part` picks   *)
(* the one a behaviour is about and the other stays where it starts.       *)
(***************************************************************************)
EXTENDS TargetBackoff, RoutingConfig, TLC

CONSTANTS w1, g1, x1, x2, plain, slashed, other, broken

VARIABLE part

\* The ledger: two runners of one workspace that call one generation
OneWorkspace == {w1}
OneGeneration == {g1}
TwoExchanges == {x1, x2}
ServesW1 == [x \in Exchange |-> w1]

\* A Retry-After of three seconds outlasts the second window
HintValues == {3}

\* The document: two effective settings and three drafts of them, one refused
MCDraft == {plain, slashed, other, broken}
MCSettings == {"a", "b"}
MCFinalize ==
    (plain :> "a") @@ (slashed :> "a") @@ (other :> "b") @@ (broken :> Refused)
MCEncoded == ("a" :> plain) @@ ("b" :> other)

\* Runners of one workspace and all names are interchangeable.  Target ids and
\* runners never meet in one behaviour: they are the same model values, so that
\* one permutation serves both.
Interchangeable ==
    Permutations(Exchange) \cup Permutations(Slug) \cup Permutations(Route)

TargetsInit == part \in {"ledger", "document"} /\ Init /\ RoutingInit

TargetsNext ==
    \/ part = "ledger" /\ Next /\ UNCHANGED <<part, routingVars>>
    \/ part = "document" /\ RoutingNext /\ UNCHANGED <<part, vars>>

TargetsSpec == TargetsInit /\ [][TargetsNext]_<<part, vars, routingVars>>
=============================================================================
