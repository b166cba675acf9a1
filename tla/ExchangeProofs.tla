--------------------------- MODULE ExchangeProofs ---------------------------
(***************************************************************************)
(* The reducer's invariants and its refinement of RouteRecovery, for every *)
(* length of the route, every backoff snapshot, every budget of the MCP    *)
(* Run and every set of provider failures.                                 *)
(*                                                                         *)
(* None of the invariants is inductive by itself.  The inductive one says  *)
(* how the attempts of a candidate in a round follow each other (Trail),   *)
(* what each phase leaves behind (Shape) and what pays for each reduction  *)
(* (Charged).  First come the calls to the providers and what they do to   *)
(* it; then each action is shown to keep it and to be a step of the kind   *)
(* Moved names, from which the theorems follow.                            *)
(***************************************************************************)
EXTENDS Exchange, FiniteSetTheorems, WellFoundedInduction, TLAPS

Same(a, cand, round) == a.cand = cand /\ a.round = round

Count(t) == candidateRoundDispatchCount(t.attempts, Last(t).cand, Last(t).round)

\* The attempts in their order: along the route, round after round, the first
\* of a candidate in a round in its preferred form, at most two of them, and
\* none after the one that was handed off.
Trail(t) ==
    /\ \A i \in DOMAIN t.attempts :
          /\ t.attempts[i].cand \in Route \ input.backoff
          /\ t.attempts[i].round <= t.round
          /\ (\A j \in 1 .. i - 1 : ~ Same(t.attempts[j], t.attempts[i].cand, t.attempts[i].round))
                => t.attempts[i].choice = "preferred"
    /\ \A i, j \in DOMAIN t.attempts :
          i < j => /\ t.attempts[i].cand <= t.attempts[j].cand
                   /\ t.attempts[i].round <= t.attempts[j].round
                   /\ t.attempts[i].status = "handoffReady" => t.attempts[i].round < t.attempts[j].round
    /\ t.attempts # << >> => Count(t) \in 1 .. 2

\* What each phase finds.
Shape(t) ==
    /\ t.phase \in {"starting", "loadingExplicit", "loadingRebased", "preparingMCP"} =>
          t.attempts = << >> /\ t.round = 0 /\ t.mcp = NoRun
    /\ t.phase \in {"calling", "resolving", "callingMCP", "completed"} => t.attempts # << >>
    /\ \A i \in DOMAIN t.attempts :
          t.attempts[i].status = "calling" => i = Len(t.attempts) /\ t.phase = "calling"
    /\ t.phase = "calling" => Last(t).status = "calling" /\ Last(t).round = t.round
    /\ t.phase = "resolving" =>
          Last(t).status = "failed" /\ Last(t).round = t.round /\ t.round = 0
    /\ t.phase = "callingMCP" =>
          /\ Last(t).status = "handoffReady" /\ Last(t).round < t.round
          /\ t.mcp \in Run /\ t.batch \in Batch
          /\ t.batch.cand = Last(t).cand
          /\ t.batch.next < t.batch.size
    /\ t.phase = "completed" => Last(t).status = "handoffReady" /\ Last(t).round = t.round
    /\ t.round > 0 => t.attempts # << >>
    /\ t.round > 0 /\ t.phase = "calling" => t.handle <= Last(t).cand

\* How many reductions n each phase can have taken, by candidate and tries in
\* the first round and by the budget spent after it.
Charged(t, n) ==
    /\ t.mcp.rounds <= MaxRemoteRounds
    /\ t.mcp.calls <= MaxRemoteCalls
    /\ t.phase = "starting" => n = 0
    /\ t.phase \in {"loadingExplicit", "loadingRebased"} => n <= 1
    /\ t.phase = "preparingMCP" => n <= 2
    /\ t.phase = "calling" /\ t.round = 0 =>
          t.mcp.rounds = 0 /\ t.mcp.calls = 0 /\ n <= 4 * Last(t).cand + 2 * Count(t) - 3
    /\ t.phase = "resolving" =>
          t.mcp.rounds = 0 /\ t.mcp.calls = 0 /\ n <= 4 * Last(t).cand + 2 * Count(t) - 2
    /\ t.phase = "callingMCP" /\ ~ t.batch.started =>
          /\ t.mcp.rounds = t.round - 1
          /\ n <= 2 + 4 * input.length + 3 * t.mcp.rounds + t.mcp.calls
    /\ t.phase = "callingMCP" /\ t.batch.started =>
          /\ t.mcp.rounds = t.round
          /\ n <= 4 * input.length + 3 * t.mcp.rounds + t.mcp.calls - t.batch.size + t.batch.next
    /\ t.phase = "calling" /\ t.round > 0 =>
          /\ t.mcp.rounds = t.round
          /\ n <= 4 * input.length + 3 * t.mcp.rounds + t.mcp.calls + (IF Last(t).native THEN 0 ELSE 1)
    /\ Ended(t) => n <= 4 + 4 * input.length + 3 * t.mcp.rounds + t.mcp.calls

\* What holds of the state after n reductions.
RInv(t, n) ==
    t \in StateRecord /\ t.problem # "invariant" /\ Trail(t) /\ Shape(t) /\ Charged(t, n)

IInv == /\ input \in Input /\ input.backoff \subseteq Route
        /\ sessions \in {"none", "open", "closed"}
        /\ steps \in Nat
        /\ RInv(s, steps)
        /\ AdoptedRunClosed

-----------------------------------------------------------------------------
\* Least and greatest elements

LEMMA LeastExists ==
    ASSUME NEW T \in SUBSET Nat, T # {}
    PROVE  Min(T) \in T /\ \A y \in T : Min(T) <= y
<1> DEFINE R == {ss \in Nat \X Nat : ss[1] < ss[2]}
<1>1. IsWellFoundedOn(R, Nat)  BY Zenon, NatLessThanWellFounded DEF OpToRel
<1>2. PICK x \in T : \A y \in T : ~ (<<y, x>> \in R)  BY Zenon, <1>1, WFMin
<1>3. ASSUME NEW y \in T  PROVE x <= y
  <2>1. x \in Nat /\ y \in Nat  BY Zenon
  <2>2. y < x => <<y, x>> \in R  BY Zenon, <2>1
  <2> QED  BY <2>1, <2>2, <1>2
<1> QED  BY Zenon, <1>3 DEF Min

LEMMA GreatestExists ==
    ASSUME NEW T \in SUBSET Nat, T # {}, NEW n \in Nat, \A y \in T : y <= n
    PROVE  Max(T) \in T /\ \A y \in T : y <= Max(T)
<1> DEFINE U == {u \in Nat : n - u \in T}
<1>1. ASSUME NEW y \in T  PROVE n - y \in U
  <2>1. y \in Nat /\ y <= n  BY Zenon
  <2>2. n - y \in Nat /\ n - (n - y) = y  BY <2>1
  <2> QED  BY Zenon, <2>2
<1>2. U \in SUBSET Nat /\ U # {}  BY Zenon, <1>1
<1> HIDE DEF U
<1>3. Min(U) \in U /\ \A y \in U : Min(U) <= y  BY Zenon, <1>2, LeastExists
<1>4. Min(U) \in Nat /\ n - Min(U) \in T  BY Zenon, <1>3 DEF U
<1>5. ASSUME NEW y \in T  PROVE y <= n - Min(U)
  <2>1. Min(U) <= n - y  BY Zenon, <1>1, <1>3
  <2>2. y \in Nat  BY Zenon
  <2> QED  BY <2>1, <2>2, <1>4
<1> QED  BY Zenon, <1>4, <1>5 DEF Max

-----------------------------------------------------------------------------
\* How many calls a candidate has had in a round

LEMMA CountType ==
    ASSUME NEW q \in Seq(Attempt), NEW c, NEW r
    PROVE  /\ IsFiniteSet({i \in DOMAIN q : Same(q[i], c, r)})
           /\ candidateRoundDispatchCount(q, c, r) = Cardinality({i \in DOMAIN q : Same(q[i], c, r)})
           /\ candidateRoundDispatchCount(q, c, r) \in Nat
<1> DEFINE S == {i \in DOMAIN q : Same(q[i], c, r)}
<1>1. IsFiniteSet(1 .. Len(q))  BY FS_Interval
<1>2. S \in SUBSET (1 .. Len(q))  OBVIOUS
<1>3. IsFiniteSet(S)  BY Zenon, <1>1, <1>2, FS_Subset
<1>4. Cardinality(S) \in Nat  BY Zenon, <1>3, FS_CardinalityType
<1>5. candidateRoundDispatchCount(q, c, r) = Cardinality(S)
  BY Zenon DEF candidateRoundDispatchCount, Same
<1> QED  BY Zenon, <1>3, <1>4, <1>5

LEMMA CountAppend ==
    ASSUME NEW q \in Seq(Attempt), NEW a \in Attempt, NEW c, NEW r
    PROVE  candidateRoundDispatchCount(Append(q, a), c, r) =
             candidateRoundDispatchCount(q, c, r) + (IF Same(a, c, r) THEN 1 ELSE 0)
<1> DEFINE S == {i \in DOMAIN q : Same(q[i], c, r)}
           T == {i \in DOMAIN Append(q, a) : Same(Append(q, a)[i], c, r)}
           n == Len(q) + 1
<1>1. T = S \cup (IF Same(a, c, r) THEN {n} ELSE {})
  <2>1. DOMAIN Append(q, a) = 1 .. n /\ DOMAIN q = 1 .. Len(q) /\ Len(q) \in Nat  OBVIOUS
  <2>2. \A i \in 1 .. Len(q) : Append(q, a)[i] = q[i]  OBVIOUS
  <2>3. Append(q, a)[n] = a  OBVIOUS
  <2>4. ASSUME NEW i  PROVE i \in T <=> i \in S \cup (IF Same(a, c, r) THEN {n} ELSE {})
    <3>1. CASE i = n  BY <3>1, <2>1, <2>3
    <3>2. CASE i # n  BY <3>2, <2>1, <2>2
    <3> QED  BY Zenon, <3>1, <3>2
  <2> QED  BY Zenon, <2>4
<1>2. n \notin S  OBVIOUS
<1>3. IsFiniteSet(S) /\ candidateRoundDispatchCount(q, c, r) = Cardinality(S) /\ Cardinality(S) \in Nat
  BY CountType
<1>4. candidateRoundDispatchCount(Append(q, a), c, r) = Cardinality(T)
  BY Zenon DEF candidateRoundDispatchCount, Same
<1> HIDE DEF S, T, n
<1>5. CASE Same(a, c, r)
  <2>1. T = S \cup {n}  BY Zenon, <1>1, <1>5
  <2>2. Cardinality(T) = Cardinality(S) + 1  BY Zenon, <2>1, <1>2, <1>3, FS_AddElement
  <2> QED  BY Zenon, <2>2, <1>3, <1>4, <1>5
<1>6. CASE ~ Same(a, c, r)
  <2>1. T = S  BY Zenon, <1>1, <1>6
  <2> QED  BY <2>1, <1>3, <1>4, <1>6
<1> QED  BY Zenon, <1>5, <1>6

LEMMA CountSame ==
    ASSUME NEW q \in Seq(Attempt), NEW p \in Seq(Attempt), Len(q) = Len(p),
           \A i \in 1 .. Len(q) : q[i].cand = p[i].cand /\ q[i].round = p[i].round,
           NEW c, NEW r
    PROVE  candidateRoundDispatchCount(q, c, r) = candidateRoundDispatchCount(p, c, r)
<1>1. {i \in DOMAIN q : q[i].cand = c /\ q[i].round = r} = {i \in DOMAIN p : p[i].cand = c /\ p[i].round = r}
  OBVIOUS
<1> QED  BY Zenon, <1>1 DEF candidateRoundDispatchCount

LEMMA CountNone ==
    ASSUME NEW q \in Seq(Attempt), NEW c, NEW r, \A i \in DOMAIN q : ~ Same(q[i], c, r)
    PROVE  candidateRoundDispatchCount(q, c, r) = 0
<1>1. {i \in DOMAIN q : Same(q[i], c, r)} = {}  BY Zenon
<1> QED  BY <1>1, CountType, FS_EmptySet

\* A candidate called less than twice in a round was called by the last
\* attempt only, when that one is its own.
LEMMA CountOne ==
    ASSUME NEW q \in Seq(Attempt), NEW c, NEW r, q # << >>, Same(q[Len(q)], c, r),
           candidateRoundDispatchCount(q, c, r) < 2
    PROVE  /\ candidateRoundDispatchCount(q, c, r) = 1
           /\ \A j \in 1 .. Len(q) - 1 : ~ Same(q[j], c, r)
<1> DEFINE S == {i \in DOMAIN q : Same(q[i], c, r)}
<1>1. IsFiniteSet(S) /\ candidateRoundDispatchCount(q, c, r) = Cardinality(S) /\ Cardinality(S) \in Nat
  BY ZenonT(60), CountType
<1>2. Len(q) \in S  OBVIOUS
<1> HIDE DEF S
<1>3. {Len(q)} \in SUBSET S /\ Cardinality({Len(q)}) = 1  BY Zenon, <1>2, FS_Singleton
<1>4. 1 <= Cardinality(S)  BY Zenon, <1>1, <1>3, FS_Subset
<1>5. Cardinality(S) = 1  BY <1>1, <1>4
<1>6. S = {Len(q)}  BY Zenon, <1>1, <1>3, <1>5, FS_Subset
<1> QED  BY <1>1, <1>5, <1>6 DEF S

-----------------------------------------------------------------------------
\* Choosing the next provider call

LEMMA RouteFacts ==
    ASSUME input \in Input
    PROVE  /\ input.length \in Nat
           /\ Route \subseteq Candidate
           /\ Candidate \subseteq Nat \ {0}
           /\ \A c \in Route : c \in Nat /\ c <= input.length
BY ExchangeAssumption DEF Route, Input, Candidate

LEMMA FirstFromFacts ==
    ASSUME input \in Input, NEW n \in Nat, FirstFrom(n) # NoSelection
    PROVE  \E c \in Route \ input.backoff : c >= n /\ FirstFrom(n) = [cand |-> c, choice |-> "preferred"]
<1> DEFINE E == EligibleFrom(n)
<1>1. E \in SUBSET Nat  BY Zenon, RouteFacts DEF EligibleFrom
<1>2. E # {}  BY Zenon DEF FirstFrom
<1>3. Min(E) \in E  BY Zenon, <1>1, <1>2, LeastExists
<1>4. Min(E) \in Route \ input.backoff /\ Min(E) >= n  BY Zenon, <1>3 DEF EligibleFrom
<1>5. FirstFrom(n) = [cand |-> Min(E), choice |-> "preferred"]  BY Zenon, <1>2 DEF FirstFrom
<1> QED  BY Zenon, <1>4, <1>5

LEMMA StopsAtFacts ==
    ASSUME input \in Input, NEW c \in Route \ input.backoff, NEW prep \in Preparation
    PROVE  /\ StopsAt(c, prep) \in Route \ input.backoff
           /\ c <= StopsAt(c, prep)
           /\ "unavailable" \notin Prepared => StopsAt(c, prep) = c
<1> DEFINE W == Walk(c)
           T == {d \in W : prep.outcome[d] # "unavailable"}
           V == T \cup {Max(W)}
<1>1. \A d \in W : d \in Route \ input.backoff /\ d \in Nat /\ c <= d /\ d <= input.length
  BY RouteFacts DEF Walk, EligibleFrom
<1>2. c \in W  BY Zenon DEF Walk
<1> HIDE DEF W
<1>3. W \in SUBSET Nat /\ W # {}  BY Zenon, <1>1, <1>2
<1>4. Max(W) \in W  BY Zenon, <1>1, <1>3, RouteFacts, GreatestExists
<1>5. V \in SUBSET Nat /\ V # {} /\ V \in SUBSET W  BY Zenon, <1>3, <1>4
<1>6. "unavailable" \notin Prepared => c \in V
  <2>1. c \in Candidate  BY Zenon, RouteFacts
  <2>2. prep.outcome[c] \in Prepared  BY Zenon, <2>1 DEF Preparation
  <2> QED  BY Zenon, <2>2, <1>2
<1>7. StopsAt(c, prep) = Min(V)  BY Zenon DEF StopsAt, W
<1> HIDE DEF V
<1>8. Min(V) \in V /\ \A y \in V : Min(V) <= y  BY Zenon, <1>5, LeastExists
<1>9. Min(V) \in W  BY Zenon, <1>5, <1>8
<1>10. "unavailable" \notin Prepared => Min(V) = c
  <2>1. "unavailable" \notin Prepared => Min(V) <= c  BY Zenon, <1>6, <1>8
  <2> QED  BY <2>1, <1>1, <1>2, <1>9
<1> QED  BY Zenon, <1>1, <1>7, <1>9, <1>10

LEMMA LaterOfTwo ==
    ASSUME NEW m \in 0 .. MaxCandidates, NEW n \in 0 .. MaxCandidates
    PROVE  Max({m, n}) \in 0 .. MaxCandidates
<1>1. m \in Nat /\ n \in Nat /\ MaxCandidates \in Nat  BY ExchangeAssumption
<1>2. {m, n} \in SUBSET Nat /\ {m, n} # {} /\ \A y \in {m, n} : y <= MaxCandidates  BY <1>1
<1>3. Max({m, n}) \in {m, n}  BY Zenon, <1>1, <1>2, GreatestExists
<1> QED  BY Zenon, <1>3

-----------------------------------------------------------------------------
\* Issuing a provider call

\* No call is outstanding, and none of this round was handed off.
Quiet(t) ==
    /\ Trail(t)
    /\ \A i \in DOMAIN t.attempts :
          /\ t.attempts[i].status # "calling"
          /\ t.attempts[i].status = "handoffReady" => t.attempts[i].round < t.round
    /\ t.round > 0 => t.attempts # << >>

\* The call is the candidate's first in this round, in its preferred form, or
\* its second, in another.
Legal(t, cand, choice) ==
    /\ cand \in Route \ input.backoff
    /\ t.attempts # << >> => Last(t).cand <= cand
    /\ t.round > 0 => t.handle <= cand
    /\ \/ /\ choice = "preferred"
          /\ \A i \in DOMAIN t.attempts : ~ Same(t.attempts[i], cand, t.round)
       \/ /\ choice \in {"fullHistory", "reprojected"}
          /\ t.attempts # << >>
          /\ Same(Last(t), cand, t.round)
          /\ Count(t) < 2

\* u is t with the call issued.
Issued(t, u, cand, choice) ==
    /\ u \in StateRecord
    /\ u.phase = "calling"
    /\ \E a \in Attempt :
          /\ u.attempts = Append(t.attempts, a)
          /\ Same(a, cand, t.round)
          /\ a.choice = choice
          /\ a.status = "calling"
          /\ a.native => t.handle = cand /\ choice # "fullHistory"
    /\ u.problem = t.problem
    /\ u.round = t.round
    /\ u.handle = t.handle
    /\ u.mcp = t.mcp

\* u is t, given up.
Stopped(t, u) ==
    /\ u \in StateRecord
    /\ u.phase = "failed"
    /\ u.problem # "invariant"
    /\ u.attempts = t.attempts
    /\ u.round = t.round
    /\ u.mcp = t.mcp

LEMMA Begin ==
    ASSUME input \in Input, NEW t \in StateRecord, Trail(t), NEW cand, NEW choice,
           Legal(t, cand, choice), NEW prep \in Preparation
    PROVE  Issued(t, beginProviderCallAttempt(t, cand, choice, prep), cand, choice)
<1> DEFINE q == t.attempts
           a == [cand |-> cand, choice |-> choice, round |-> t.round,
                 native |-> t.handle = cand /\ choice # "fullHistory" /\ prep.replays,
                 factReads |-> prep.factReads, status |-> "calling", failure |-> NoFailure]
           u == [t EXCEPT !.phase = "calling", !.attempts = Append(q, a)]
<1>1. q \in Seq(Attempt) /\ t.round \in Nat  BY Zenon DEF StateRecord
<1>2. ~ \E i \in DOMAIN q : Same(q[i], cand, t.round) /\ q[i].choice = choice
  <2>1. CASE choice = "preferred"  BY Zenon, <2>1 DEF Legal
  <2>2. CASE choice # "preferred"
    <3>1. q # << >> /\ Same(q[Len(q)], cand, t.round)  BY Zenon, <2>2 DEF Legal, Last
    <3>2. candidateRoundDispatchCount(q, cand, t.round) < 2
      BY Zenon, <2>2, <3>1 DEF Legal, Last, Count, Same
    <3>3. \A j \in 1 .. Len(q) - 1 : ~ Same(q[j], cand, t.round)  BY Zenon, <1>1, <3>1, <3>2, CountOne
    <3>4. Len(q) \in DOMAIN q /\ DOMAIN q = 1 .. Len(q)  BY <1>1, <3>1
    <3>5. q[Len(q)].choice = "preferred"  BY Zenon, <3>1, <3>3, <3>4 DEF Trail, Same
    <3>6. \A i \in DOMAIN q : i = Len(q) \/ i \in 1 .. Len(q) - 1  BY <3>4, <1>1
    <3> QED  BY Zenon, <2>2, <3>3, <3>5, <3>6
  <2> QED  BY Zenon, <2>1, <2>2
<1>3. a \in Attempt
  BY Zenon, <1>1, RouteFacts DEF Legal, Attempt, Choice, Preparation
<1>4. beginProviderCallAttempt(t, cand, choice, prep) = u
  BY Zenon, <1>2 DEF beginProviderCallAttempt, Same
<1> HIDE DEF a
<1>5. u \in StateRecord
  <2>1. Append(q, a) \in Seq(Attempt)  BY <1>1, <1>3
  <2> QED  BY Zenon, <2>1 DEF StateRecord
<1>6. /\ u.phase = "calling" /\ u.attempts = Append(q, a) /\ u.problem = t.problem
      /\ u.round = t.round /\ u.handle = t.handle /\ u.mcp = t.mcp
  BY Zenon DEF StateRecord
<1> HIDE DEF u
<1>7. /\ Same(a, cand, t.round) /\ a.choice = choice /\ a.status = "calling"
      /\ a.native => t.handle = cand /\ choice # "fullHistory"
  BY Zenon DEF a, Same
<1> QED  BY Zenon, <1>3, <1>4, <1>5, <1>6, <1>7 DEF Issued

\* Issuing a legal call keeps the order of the attempts.
LEMMA IssuedKeeps ==
    ASSUME input \in Input, NEW t \in StateRecord, Quiet(t), NEW u, NEW cand, NEW choice,
           Legal(t, cand, choice), Issued(t, u, cand, choice)
    PROVE  /\ u \in StateRecord /\ Trail(u) /\ Shape(u)
           /\ u.attempts # << >>
           /\ Last(u).cand = cand
           /\ Count(u) = IF choice = "preferred" THEN 1 ELSE 2
           /\ Last(u).native => t.handle = cand /\ choice # "fullHistory"
<1> DEFINE q == t.attempts
           n == Len(q) + 1
<1>1. PICK a \in Attempt :
          /\ u.attempts = Append(q, a) /\ Same(a, cand, t.round) /\ a.choice = choice
          /\ a.status = "calling"
          /\ a.native => t.handle = cand /\ choice # "fullHistory"
  BY Zenon DEF Issued
<1> DEFINE p == Append(q, a)
<1>2. /\ q \in Seq(Attempt) /\ t.round \in Nat /\ Len(q) \in Nat /\ DOMAIN q = 1 .. Len(q)
  BY DEF StateRecord
<1>3. /\ p \in Seq(Attempt) /\ Len(p) = n /\ DOMAIN p = 1 .. n /\ p[n] = a /\ p # << >>
      /\ \A i \in DOMAIN q : i < n /\ p[i] = q[i]
      /\ \A i \in DOMAIN p : i = n \/ i \in DOMAIN q
  BY <1>2
<1>4. u \in StateRecord /\ u.attempts = p /\ u.round = t.round /\ u.phase = "calling" /\ u.handle = t.handle
  BY Zenon, <1>1 DEF Issued
<1> HIDE DEF p
<1>5. Last(u) = a  BY Zenon, <1>3, <1>4 DEF Last
<1>6. a.cand = cand /\ a.round = t.round  BY Zenon, <1>1 DEF Same
<1>7. cand \in Nat /\ cand \in Route \ input.backoff  BY Zenon, RouteFacts DEF Legal
<1>8. \A i \in DOMAIN q : /\ q[i].cand \in Nat /\ q[i].cand <= cand
                          /\ q[i].round \in Nat /\ q[i].round <= t.round
  <2>1. \A i \in DOMAIN q : q[i] \in Attempt  BY <1>2
  <2>2. \A i \in DOMAIN q : q[i].cand \in Nat /\ q[i].round \in Nat  BY Zenon, <2>1, RouteFacts DEF Attempt
  <2>3. q # << >> => q[Len(q)].cand <= cand /\ Len(q) \in DOMAIN q  BY <1>2 DEF Legal, Last
  <2>4. \A i \in DOMAIN q : q[i].cand <= q[Len(q)].cand
    <3>1. \A i \in DOMAIN q : i = Len(q) \/ (i < Len(q) /\ Len(q) \in DOMAIN q)  BY <1>2
    <3> QED  BY <3>1, <2>2 DEF Quiet, Trail
  <2>5. \A i \in DOMAIN q : q[i].round <= t.round  BY Zenon DEF Quiet, Trail
  <2>6. \A i \in DOMAIN q : Len(q) \in DOMAIN q /\ q # << >>  BY <1>2
  <2> QED  BY <2>2, <2>3, <2>4, <2>5, <2>6, <1>7
<1>9. Count(u) = candidateRoundDispatchCount(q, cand, t.round) + 1
  <2>1. Count(u) = candidateRoundDispatchCount(p, cand, t.round)  BY Zenon, <1>4, <1>5, <1>6 DEF Count
  <2> QED  BY Zenon, <2>1, <1>1, <1>2, CountAppend DEF p
<1>10. Count(u) = IF choice = "preferred" THEN 1 ELSE 2
  <2>1. CASE choice = "preferred"
    <3>1. \A i \in DOMAIN q : ~ Same(q[i], cand, t.round)  BY Zenon, <2>1 DEF Legal
    <3>2. candidateRoundDispatchCount(q, cand, t.round) = 0  BY Zenon, <1>2, <3>1, CountNone
    <3> QED  BY <2>1, <3>2, <1>9
  <2>2. CASE choice # "preferred"
    <3>1. q # << >> /\ Same(q[Len(q)], cand, t.round)  BY Zenon, <2>2 DEF Legal, Last
    <3>2. candidateRoundDispatchCount(q, cand, t.round) < 2
      BY Zenon, <2>2, <3>1 DEF Legal, Last, Count, Same
    <3>3. candidateRoundDispatchCount(q, cand, t.round) = 1  BY Zenon, <1>2, <3>1, <3>2, CountOne
    <3> QED  BY <2>2, <3>3, <1>9
  <2> QED  BY Zenon, <2>1, <2>2
<1>11. Trail(u)
  <2>1. ASSUME NEW i \in DOMAIN p
        PROVE  /\ p[i].cand \in Route \ input.backoff
               /\ p[i].round <= t.round
               /\ (\A j \in 1 .. i - 1 : ~ Same(p[j], p[i].cand, p[i].round)) => p[i].choice = "preferred"
    <3>1. CASE i = n
      <4>1. choice # "preferred" => q # << >> /\ Same(q[Len(q)], cand, t.round)  BY Zenon DEF Legal, Last
      <4>2. q # << >> => Len(q) \in 1 .. i - 1 /\ p[Len(q)] = q[Len(q)]  BY <3>1, <1>2, <1>3
      <4> QED  BY <3>1, <4>1, <4>2, <1>1, <1>2, <1>3, <1>6, <1>7
    <3>2. CASE i \in DOMAIN q
      <4>1. \A j \in 1 .. i - 1 : j \in DOMAIN q /\ p[j] = q[j]  BY <3>2, <1>2, <1>3
      <4>2. p[i] = q[i]  BY Zenon, <3>2, <1>3
      <4> QED  BY Zenon, <3>2, <4>1, <4>2 DEF Quiet, Trail
    <3> QED  BY Zenon, <3>1, <3>2, <1>3
  <2>2. ASSUME NEW i \in DOMAIN p, NEW j \in DOMAIN p, i < j
        PROVE  /\ p[i].cand <= p[j].cand
               /\ p[i].round <= p[j].round
               /\ p[i].status = "handoffReady" => p[i].round < p[j].round
    <3>1. i \in DOMAIN q /\ p[i] = q[i]  BY <2>2, <1>2, <1>3
    <3>2. CASE j = n
      <4>1. p[j].cand = cand /\ p[j].round = t.round  BY Zenon, <3>2, <1>3, <1>6
      <4> QED  BY Zenon, <3>1, <4>1, <1>8 DEF Quiet
    <3>3. CASE j \in DOMAIN q
      <4>1. p[j] = q[j]  BY Zenon, <3>3, <1>3
      <4> QED  BY Zenon, <3>1, <3>3, <4>1, <2>2 DEF Quiet, Trail
    <3> QED  BY Zenon, <3>2, <3>3, <1>3
  <2> QED  BY <2>1, <2>2, <1>4, <1>10 DEF Trail
<1>12. Shape(u)
  <2>1. \A i \in DOMAIN p : p[i].status = "calling" => i = Len(p)
    BY Zenon, <1>3 DEF Quiet
  <2>2. t.round > 0 => u.handle <= cand  BY Zenon, <1>4 DEF Legal
  <2> QED  BY Zenon, <2>1, <2>2, <1>1, <1>3, <1>4, <1>5, <1>6 DEF Shape
<1> QED  BY Zenon, <1>1, <1>3, <1>4, <1>5, <1>6, <1>10, <1>11, <1>12

\* The attempts in numbers: their candidates come no later than the last one.
LEMMA AttemptFacts ==
    ASSUME input \in Input, NEW t \in StateRecord, Trail(t)
    PROVE  /\ t.attempts \in Seq(Attempt) /\ Len(t.attempts) \in Nat
           /\ DOMAIN t.attempts = 1 .. Len(t.attempts)
           /\ \A i \in DOMAIN t.attempts :
                 /\ t.attempts[i] \in Attempt
                 /\ t.attempts[i].cand \in Nat /\ t.attempts[i].round \in Nat
                 /\ t.attempts[i].cand <= Last(t).cand
           /\ t.attempts # << >> =>
                 /\ Len(t.attempts) \in DOMAIN t.attempts
                 /\ Last(t) \in Attempt /\ Last(t).cand \in Nat /\ Last(t).round \in Nat
                 /\ Last(t).cand \in Route \ input.backoff /\ Last(t).cand <= input.length
                 /\ Count(t) \in 1 .. 2
<1> DEFINE q == t.attempts
<1>1. q \in Seq(Attempt)  BY Zenon DEF StateRecord
<1>2. Len(q) \in Nat /\ DOMAIN q = 1 .. Len(q) /\ (q # << >> => Len(q) \in DOMAIN q)  BY <1>1
<1>3. \A i \in DOMAIN q : q[i] \in Attempt  BY <1>1
<1>4. \A i \in DOMAIN q : q[i].cand \in Nat /\ q[i].round \in Nat  BY Zenon, <1>3, RouteFacts DEF Attempt
<1>5. \A i \in DOMAIN q : q[i].cand <= q[Len(q)].cand
  <2>1. \A i \in DOMAIN q : i = Len(q) \/ (i < Len(q) /\ Len(q) \in DOMAIN q)  BY <1>2
  <2> QED  BY <2>1, <1>4 DEF Trail
<1>6. q # << >> => Last(t).cand \in Route \ input.backoff /\ Last(t).cand <= input.length
  BY Zenon, <1>2, RouteFacts DEF Trail, Last
<1>7. q # << >> => Count(t) \in 1 .. 2  BY Zenon DEF Trail
<1> QED  BY Zenon, <1>1, <1>2, <1>3, <1>4, <1>5, <1>6, <1>7 DEF Last

\* A candidate after the last one is a legal choice in any round.
LEMMA LaterIsLegal ==
    ASSUME input \in Input, NEW t \in StateRecord, Quiet(t),
           NEW c \in Route \ input.backoff,
           t.attempts # << >> => Last(t).cand < c,
           t.round > 0 => t.handle <= c
    PROVE  Legal(t, c, "preferred")
<1>1. Trail(t)  BY Zenon DEF Quiet
<1>2. c \in Nat  BY Zenon, RouteFacts
<1>3. ASSUME NEW i \in DOMAIN t.attempts  PROVE ~ Same(t.attempts[i], c, t.round)
  <2>1. t.attempts # << >>  BY <1>1, <1>3, AttemptFacts
  <2>2. t.attempts[i].cand <= Last(t).cand /\ t.attempts[i].cand \in Nat /\ Last(t).cand \in Nat
    BY Zenon, <1>1, <1>3, <2>1, AttemptFacts
  <2> QED  BY <1>2, <2>1, <2>2 DEF Same
<1>4. t.attempts # << >> => Last(t).cand <= c  BY <1>1, <1>2, AttemptFacts
<1> QED  BY Zenon, <1>3, <1>4 DEF Legal

LEMMA AdvanceFrom ==
    ASSUME input \in Input, NEW t \in StateRecord, Quiet(t), t.problem # "invariant",
           NEW cand, NEW choice, Legal(t, cand, choice), NEW prep \in Preparation,
           NEW u, u = advanceProviderExecutionFrom(t, [cand |-> cand, choice |-> choice], prep)
    PROVE  \/ Stopped(t, u)
           \/ Issued(t, u, cand, choice)
           \/ \E c \in Nat : /\ c > cand /\ Legal(t, c, "preferred") /\ Issued(t, u, c, "preferred")
                             /\ "unavailable" \in Prepared
<1> DEFINE stop == StopsAt(cand, prep)
           v == [t EXCEPT !.evaluated = Max({t.evaluated, stop})]
           ch == IF stop = cand THEN choice ELSE "preferred"
<1>1. /\ stop \in Route \ input.backoff /\ cand <= stop
      /\ "unavailable" \notin Prepared => stop = cand
  BY Zenon, StopsAtFacts DEF Legal
<1>2. stop \in Nat /\ cand \in Nat /\ stop \in 0 .. MaxCandidates
  BY <1>1, RouteFacts DEF Legal, Candidate
<1> HIDE DEF stop
<1>3. Max({t.evaluated, stop}) \in 0 .. MaxCandidates
  <2>1. t.evaluated \in 0 .. MaxCandidates  BY Zenon DEF StateRecord
  <2> QED  BY Zenon, <1>2, <2>1, LaterOfTwo
<1>4. /\ v \in StateRecord /\ v.attempts = t.attempts /\ v.round = t.round /\ v.handle = t.handle
      /\ v.mcp = t.mcp /\ v.problem = t.problem
  BY Zenon, <1>3 DEF StateRecord
<1>5. u = IF prep.outcome[stop] = "ok" THEN beginProviderCallAttempt(v, stop, ch, prep)
          ELSE Fail(v, "preparation")
  BY Zenon DEF advanceProviderExecutionFrom, stop
<1> HIDE DEF v
<1>6. CASE prep.outcome[stop] # "ok"
  <2>1. u = Fail(v, "preparation")  BY Zenon, <1>5, <1>6
  <2> QED  BY Zenon, <2>1, <1>4 DEF Fail, Stopped, StateRecord
<1>7. CASE prep.outcome[stop] = "ok"
  <2>1. Legal(t, stop, ch)
    <3>1. CASE stop = cand  BY Zenon, <3>1
    <3>2. CASE stop # cand
      <4>1. Last(t).cand <= cand \/ t.attempts = << >>  BY Zenon DEF Legal
      <4>2. t.round > 0 => t.handle <= cand  BY Zenon DEF Legal
      <4>3. t.handle \in Nat  BY ExchangeAssumption DEF StateRecord
      <4>4. t.attempts # << >> => Last(t).cand \in Nat  BY Zenon, AttemptFacts DEF Quiet
      <4>5. t.attempts # << >> => Last(t).cand < stop  BY <3>2, <4>1, <4>4, <1>1, <1>2
      <4>6. t.round > 0 => t.handle <= stop  BY <4>2, <4>3, <1>1, <1>2
      <4>7. Legal(t, stop, "preferred")  BY Zenon, <1>1, <4>5, <4>6, LaterIsLegal
      <4> QED  BY Zenon, <3>2, <4>7
    <3> QED  BY Zenon, <3>1, <3>2
  <2>2. Legal(v, stop, ch) /\ Trail(v)
    BY Zenon, <2>1, <1>4 DEF Legal, Last, Count, Quiet, Trail
  <2>3. Issued(v, u, stop, ch)  BY Zenon, <2>2, <1>4, <1>5, <1>7, Begin
  <2>4. Issued(t, u, stop, ch)  BY Zenon, <2>3, <1>4 DEF Issued
  <2> QED  BY <2>1, <2>4, <1>1, <1>2
<1> QED  BY Zenon, <1>6, <1>7

\* Why a call follows the last one: it is the exchange's first, the last
\* candidate in full history because a native reference was rejected, or a
\* later candidate because the last failure admits it.
Follows(t, cand, choice) ==
    \/ t.attempts = << >> /\ choice = "preferred"
    \/ t.attempts # << >> /\ cand = Last(t).cand /\ choice = "fullHistory" /\ Last(t).native
    \/ /\ t.attempts # << >> /\ cand > Last(t).cand /\ choice = "preferred"
       /\ \/ Last(t).round = 0 /\ providerFailureAdvancesCandidate(Last(t).failure)
          \/ "unavailable" \in Prepared /\ Last(t).native

LEMMA Advance ==
    ASSUME input \in Input, NEW t \in StateRecord, Quiet(t), t.problem # "invariant",
           t.attempts # << >> => Last(t).round = t.round,
           t.attempts # << >> /\ t.round > 0 => t.handle <= Last(t).cand,
           NEW prep \in Preparation,
           NEW u, u = advanceProviderExecution(t, prep)
    PROVE  \/ Stopped(t, u)
           \/ \E c \in Nat, ch \in Choice :
                 Legal(t, c, ch) /\ Issued(t, u, c, ch) /\ Follows(t, c, ch)
<1> DEFINE sel == selectNextProviderCall(t)
<1>1. /\ t.attempts # << >> => /\ Last(t).cand \in Nat
                               /\ Last(t).cand \in Route \ input.backoff
      /\ t.handle \in Nat /\ t.round \in Nat
  BY AttemptFacts, ExchangeAssumption DEF Quiet, StateRecord
<1>2. CASE sel = NoSelection
  <2>1. u = terminateProviderExecution(t)  BY Zenon, <1>2 DEF advanceProviderExecution
  <2>2. input.length \in 0 .. MaxCandidates  BY ExchangeAssumption DEF Input, Candidate
  <2>3. [t EXCEPT !.evaluated = input.length] \in StateRecord  BY Zenon, <2>2 DEF StateRecord
  <2>4. ASSUME NEW v \in StateRecord, NEW problem \in {"noAvailableTarget", "provider"},
               v.attempts = t.attempts, v.round = t.round, v.mcp = t.mcp, u = Fail(v, problem)
        PROVE  Stopped(t, u)
    <3>1. u \in StateRecord /\ u.phase = "failed" /\ u.problem = problem
      BY Zenon, <2>4 DEF Fail, StateRecord
    <3>2. u.attempts = v.attempts /\ u.round = v.round /\ u.mcp = v.mcp  BY Zenon, <2>4 DEF Fail, StateRecord
    <3> QED  BY Zenon, <2>4, <3>1, <3>2 DEF Stopped
  <2>5. CASE t.attempts = << >>
    <3>1. u = Fail([t EXCEPT !.evaluated = input.length], "noAvailableTarget")
      BY Zenon, <2>1, <2>5 DEF terminateProviderExecution
    <3> QED  BY Zenon, <2>3, <2>4, <3>1 DEF StateRecord
  <2>6. CASE t.attempts # << >>
    <3>1. u = Fail(t, "provider")  BY Zenon, <2>1, <2>6 DEF terminateProviderExecution
    <3> QED  BY Zenon, <2>4, <3>1
  <2> QED  BY Zenon, <2>5, <2>6
<1>3. CASE sel # NoSelection
  <2> DEFINE Goal == \E c \in Nat, ch \in Choice :
                        Legal(t, c, ch) /\ Issued(t, u, c, ch) /\ Follows(t, c, ch)
  <2>1. u = advanceProviderExecutionFrom(t, sel, prep)  BY Zenon, <1>3 DEF advanceProviderExecution
  <2>2. ASSUME NEW c \in Nat, NEW ch \in Choice, sel = [cand |-> c, choice |-> ch],
               Legal(t, c, ch), Follows(t, c, ch),
               \A d \in Nat : "unavailable" \in Prepared /\ d > c => Follows(t, d, "preferred")
        PROVE  Stopped(t, u) \/ Goal
    <3>1. u = advanceProviderExecutionFrom(t, [cand |-> c, choice |-> ch], prep)  BY Zenon, <2>1, <2>2
    <3>2. "preferred" \in Choice  BY Zenon DEF Choice
    <3>3. \/ Stopped(t, u) \/ Issued(t, u, c, ch)
          \/ \E d \in Nat : /\ d > c /\ Legal(t, d, "preferred") /\ Issued(t, u, d, "preferred")
                            /\ "unavailable" \in Prepared
      BY Zenon, <2>2, <3>1, AdvanceFrom
    <3> QED  BY Zenon, <2>2, <3>2, <3>3
  <2>3. CASE t.attempts = << >>
    <3>1. sel = FirstFrom(1)  BY Zenon, <2>3 DEF selectNextProviderCall
    <3>2. PICK c \in Route \ input.backoff : sel = [cand |-> c, choice |-> "preferred"]
      BY Zenon, <1>3, <3>1, FirstFromFacts
    <3>3. c \in Nat /\ "preferred" \in Choice  BY Zenon, RouteFacts DEF Choice
    <3>4. t.round = 0  BY <2>3, <1>1 DEF Quiet
    <3>5. Legal(t, c, "preferred")  BY <2>3, <3>4, LaterIsLegal
    <3>6. \A d \in Nat : Follows(t, d, "preferred")  BY Zenon, <2>3 DEF Follows
    <3> QED  BY Zenon, <2>2, <3>2, <3>3, <3>5, <3>6
  <2>4. CASE t.attempts # << >> /\ sameTargetAlternative(t)
    <3>1. sel = [cand |-> Last(t).cand, choice |-> "fullHistory"]  BY Zenon, <2>4 DEF selectNextProviderCall
    <3>2. Last(t).native /\ Count(t) < 2
      BY Zenon, <2>4 DEF sameTargetAlternative, nativeReferenceFailureAdmitsFullHistory, Count
    <3>3. Legal(t, Last(t).cand, "fullHistory")  BY <2>4, <3>2, <1>1 DEF Legal, Same
    <3>4. Follows(t, Last(t).cand, "fullHistory")  BY Zenon, <2>4, <3>2 DEF Follows
    <3>5. \A d \in Nat : "unavailable" \in Prepared /\ d > Last(t).cand => Follows(t, d, "preferred")
      BY Zenon, <2>4, <3>2 DEF Follows
    <3>6. "fullHistory" \in Choice  BY Zenon DEF Choice
    <3> QED  BY Zenon, <2>2, <2>4, <3>1, <3>3, <3>4, <3>5, <3>6, <1>1
  <2>5. CASE t.attempts # << >> /\ ~ sameTargetAlternative(t)
    <3>1. /\ providerRecoveryPermitted(Last(t)) /\ providerFailureAdvancesCandidate(Last(t).failure)
          /\ sel = FirstFrom(Last(t).cand + 1)
      BY Zenon, <2>5, <1>3 DEF selectNextProviderCall
    <3>2. PICK c \in Route \ input.backoff :
              c >= Last(t).cand + 1 /\ sel = [cand |-> c, choice |-> "preferred"]
      <4>1. Last(t).cand + 1 \in Nat  BY <2>5, <1>1
      <4> QED  BY Zenon, <1>3, <3>1, <4>1, FirstFromFacts
    <3>3. c \in Nat /\ "preferred" \in Choice /\ c > Last(t).cand  BY <2>5, <3>2, <1>1, RouteFacts DEF Choice
    <3>4. t.round > 0 => t.handle <= c  BY <2>5, <3>3, <1>1
    <3>5. Legal(t, c, "preferred")  BY Zenon, <3>3, <3>4, LaterIsLegal
    <3>6. Last(t).round = 0  BY Zenon, <3>1 DEF providerRecoveryPermitted
    <3>7. \A d \in Nat : d >= c => Follows(t, d, "preferred")
      <4>1. \A d \in Nat : d >= c => d > Last(t).cand  BY <2>5, <3>3, <1>1
      <4> QED  BY Zenon, <2>5, <3>1, <3>6, <4>1 DEF Follows
    <3> QED  BY <2>2, <3>2, <3>3, <3>5, <3>7
  <2> QED  BY Zenon, <2>3, <2>4, <2>5
<1> QED  BY Zenon, <1>2, <1>3

-----------------------------------------------------------------------------
\* Settling the outstanding call

LEMMA Settled ==
    ASSUME input \in Input, NEW t \in StateRecord, Trail(t), Shape(t), t.phase = "calling",
           NEW u \in StateRecord, NEW b \in Attempt,
           u.attempts = [t.attempts EXCEPT ![Len(t.attempts)] = b],
           Same(b, Last(t).cand, Last(t).round), b.choice = Last(t).choice, b.status # "calling",
           u.round \in {t.round, t.round + 1}
    PROVE  /\ Trail(u)
           /\ u.attempts # << >> /\ Len(u.attempts) = Len(t.attempts)
           /\ Last(u) = b
           /\ Count(u) = Count(t)
           /\ \A i \in DOMAIN u.attempts :
                 /\ u.attempts[i].status # "calling"
                 /\ i = Len(t.attempts) \/ u.attempts[i] = t.attempts[i]
                 /\ u.attempts[i].status = "handoffReady" =>
                       i = Len(t.attempts) \/ u.attempts[i].round < t.round
<1> DEFINE q == t.attempts
           n == Len(q)
<1> DEFINE p == [q EXCEPT ![n] = b]
<1>1. /\ q \in Seq(Attempt) /\ n \in Nat /\ DOMAIN q = 1 .. n /\ q # << >> /\ n \in DOMAIN q
      /\ t.round \in Nat /\ u.round >= t.round
      /\ \A i \in DOMAIN q : q[i].round \in Nat
  BY AttemptFacts DEF Shape, StateRecord
<1>2. /\ p \in Seq(Attempt) /\ Len(p) = n /\ DOMAIN p = 1 .. n /\ p[n] = b /\ p # << >>
      /\ \A i \in DOMAIN p : i = n \/ p[i] = q[i]
  BY <1>1
<1> HIDE DEF p
<1>3. \A i \in DOMAIN p : /\ p[i].cand = q[i].cand /\ p[i].round = q[i].round
                          /\ p[i].choice = q[i].choice
  BY Zenon, <1>2 DEF Same, Last
<1>4. \A c, r : candidateRoundDispatchCount(p, c, r) = candidateRoundDispatchCount(q, c, r)
  <2>1. \A i \in 1 .. Len(p) : p[i].cand = q[i].cand /\ p[i].round = q[i].round  BY Zenon, <1>2, <1>3
  <2> QED  BY Zenon, <2>1, <1>1, <1>2, CountSame
<1>5. u.attempts = p  BY Zenon DEF p
<1>6. Last(u) = b  BY Zenon, <1>2, <1>5 DEF Last
<1>7. Count(u) = Count(t)  BY <1>4, <1>5, <1>6 DEF Count, Same
<1>8. \A i \in DOMAIN p : i # n => p[i].status # "calling" /\ p[i] = q[i] /\ i < n
  BY <1>1, <1>2 DEF Shape
<1>9. ASSUME NEW i \in DOMAIN p, p[i].status = "handoffReady", i # n  PROVE p[i].round < t.round
  <2>1. q[i].status = "handoffReady" /\ i \in DOMAIN q /\ i < n  BY Zenon, <1>1, <1>2, <1>8, <1>9
  <2>2. q[i].round < q[n].round  BY Zenon, <2>1, <1>1 DEF Trail
  <2>3. q[n].round = t.round  BY Zenon DEF Shape, Last
  <2> QED  BY Zenon, <2>2, <2>3, <1>3, <1>9
<1>10. Trail(u)
  <2>1. ASSUME NEW i \in DOMAIN p
        PROVE  /\ p[i].cand \in Route \ input.backoff
               /\ p[i].round <= u.round
               /\ (\A j \in 1 .. i - 1 : ~ Same(p[j], p[i].cand, p[i].round)) => p[i].choice = "preferred"
    <3>1. i \in DOMAIN q  BY Zenon, <1>1, <1>2
    <3>2. q[i].cand \in Route \ input.backoff /\ q[i].round <= t.round  BY Zenon, <3>1 DEF Trail
    <3>3. \A j \in 1 .. i - 1 : j \in DOMAIN p  BY <1>1, <1>2
    <3>4. (\A j \in 1 .. i - 1 : ~ Same(q[j], q[i].cand, q[i].round)) => q[i].choice = "preferred"
      BY Zenon, <3>1 DEF Trail
    <3>5. \A j \in 1 .. i - 1 : Same(q[j], q[i].cand, q[i].round) <=> Same(p[j], p[i].cand, p[i].round)
      BY Zenon, <3>3, <1>3 DEF Same
    <3>6. p[i].round <= u.round  BY <3>1, <3>2, <1>1, <1>3 DEF StateRecord
    <3> QED  BY Zenon, <3>2, <3>4, <3>5, <3>6, <1>3
  <2>2. ASSUME NEW i \in DOMAIN p, NEW j \in DOMAIN p, i < j
        PROVE  /\ p[i].cand <= p[j].cand
               /\ p[i].round <= p[j].round
               /\ p[i].status = "handoffReady" => p[i].round < p[j].round
    <3>1. i \in DOMAIN q /\ j \in DOMAIN q /\ i # n  BY <2>2, <1>1, <1>2
    <3>2. p[i] = q[i] /\ p[j].cand = q[j].cand /\ p[j].round = q[j].round  BY Zenon, <3>1, <1>2, <1>3
    <3> QED  BY Zenon, <2>2, <3>1, <3>2 DEF Trail
  <2>3. Count(u) \in 1 .. 2  BY Zenon, <1>1, <1>7 DEF Trail
  <2> QED  BY ONLY Zenon, <2>1, <2>2, <2>3, <1>5 DEF Trail
<1> QED  BY Zenon, <1>2, <1>5, <1>6, <1>7, <1>8, <1>9, <1>10

AttemptFailure == Failure \cup [exec : {"mayHaveOccurred"}, cause : Cause]

LEMMA FailAttempt ==
    ASSUME input \in Input, NEW t \in StateRecord, Trail(t), Shape(t), t.phase = "calling",
           NEW f \in AttemptFailure, NEW u, u = failProviderCallAttempt(t, f)
    PROVE  /\ u \in StateRecord /\ Quiet(u)
           /\ u.attempts # << >> /\ Len(u.attempts) = Len(t.attempts)
           /\ Count(u) = Count(t)
           /\ Last(u).cand = Last(t).cand /\ Last(u).round = t.round /\ Last(u).native = Last(t).native
           /\ Last(u).status = "failed" /\ Last(u).failure = f
           /\ u.problem = t.problem /\ u.round = t.round /\ u.handle = t.handle /\ u.mcp = t.mcp
           /\ u.batch = t.batch /\ u.phase = t.phase
           /\ \A i \in DOMAIN u.attempts : i = Len(t.attempts) \/ u.attempts[i] = t.attempts[i]
<1> DEFINE q == t.attempts
           b == [Last(t) EXCEPT !.status = "failed", !.failure = f]
           p == [q EXCEPT ![Len(q)] = b]
<1>1. q \in Seq(Attempt) /\ Len(q) \in DOMAIN q /\ Last(t) \in Attempt  BY Zenon, AttemptFacts DEF Shape
<1>2. b \in Attempt  BY Zenon, <1>1 DEF Attempt, AttemptFailure
<1>3. u = [t EXCEPT !.attempts = p]
  BY Zenon, <1>1 DEF failProviderCallAttempt, StateRecord, Last, Attempt
<1>4. /\ Same(b, Last(t).cand, Last(t).round) /\ b.choice = Last(t).choice /\ b.native = Last(t).native
      /\ b.status = "failed" /\ b.failure = f
  BY Zenon, <1>1 DEF Attempt, Same
<1> HIDE DEF b
<1>5. p \in Seq(Attempt)  BY <1>1, <1>2
<1>6. /\ u \in StateRecord /\ u.attempts = p /\ u.problem = t.problem /\ u.round = t.round
      /\ u.handle = t.handle /\ u.mcp = t.mcp /\ u.batch = t.batch /\ u.phase = t.phase
  <2> HIDE DEF p
  <2> QED  BY Zenon, <1>3, <1>5 DEF StateRecord
<1>7. /\ Trail(u) /\ u.attempts # << >> /\ Len(u.attempts) = Len(t.attempts)
      /\ Last(u) = b /\ Count(u) = Count(t)
      /\ \A i \in DOMAIN u.attempts :
            /\ u.attempts[i].status # "calling"
            /\ i = Len(t.attempts) \/ u.attempts[i] = t.attempts[i]
            /\ u.attempts[i].status = "handoffReady" =>
                  i = Len(t.attempts) \/ u.attempts[i].round < t.round
  BY <1>2, <1>4, <1>6, Settled
<1>8. \A i \in DOMAIN u.attempts : u.attempts[i].status = "handoffReady" => u.attempts[i].round < u.round
  BY Zenon, <1>4, <1>6, <1>7 DEF Last
<1>9. Quiet(u)  BY Zenon, <1>7, <1>8 DEF Quiet
<1>10. Last(t).round = t.round  BY Zenon DEF Shape
<1> QED  BY Zenon, <1>4, <1>6, <1>7, <1>9, <1>10 DEF Same

LEMMA CompleteAttempt ==
    ASSUME input \in Input, NEW t \in StateRecord, Trail(t), Shape(t), t.phase = "calling",
           NEW u, u = completeProviderCallAttempt(t)
    PROVE  /\ u \in StateRecord /\ Trail(u)
           /\ u.attempts # << >> /\ Len(u.attempts) = Len(t.attempts)
           /\ Count(u) = Count(t)
           /\ Last(u).cand = Last(t).cand /\ Last(u).round = t.round
           /\ Last(u).status = "handoffReady"
           /\ u.problem = t.problem /\ u.round = t.round /\ u.handle = t.handle /\ u.mcp = t.mcp
           /\ \A i \in DOMAIN u.attempts : /\ u.attempts[i].status # "calling"
                                           /\ i = Len(t.attempts) \/ u.attempts[i] = t.attempts[i]
<1> DEFINE q == t.attempts
           b == [Last(t) EXCEPT !.status = "handoffReady"]
           p == [q EXCEPT ![Len(q)] = b]
<1>1. q \in Seq(Attempt) /\ Len(q) \in DOMAIN q /\ Last(t) \in Attempt  BY Zenon, AttemptFacts DEF Shape
<1>2. b \in Attempt  BY Zenon, <1>1 DEF Attempt
<1>3. u = [t EXCEPT !.attempts = p]
  BY Zenon, <1>1 DEF completeProviderCallAttempt, StateRecord, Last, Attempt
<1>4. /\ Same(b, Last(t).cand, Last(t).round) /\ b.choice = Last(t).choice
      /\ b.status = "handoffReady"
  BY Zenon, <1>1 DEF Attempt, Same
<1> HIDE DEF b
<1>5. p \in Seq(Attempt)  BY <1>1, <1>2
<1>6. /\ u \in StateRecord /\ u.attempts = p /\ u.problem = t.problem /\ u.round = t.round
      /\ u.handle = t.handle /\ u.mcp = t.mcp
  <2> HIDE DEF p
  <2> QED  BY Zenon, <1>3, <1>5 DEF StateRecord
<1>7. /\ Trail(u) /\ u.attempts # << >> /\ Len(u.attempts) = Len(t.attempts)
      /\ Last(u) = b /\ Count(u) = Count(t)
      /\ \A i \in DOMAIN u.attempts : /\ u.attempts[i].status # "calling"
                                      /\ i = Len(t.attempts) \/ u.attempts[i] = t.attempts[i]
  BY <1>2, <1>4, <1>6, Settled
<1>8. Last(t).round = t.round  BY Zenon DEF Shape
<1> QED  BY Zenon, <1>4, <1>6, <1>7, <1>8 DEF Same

-----------------------------------------------------------------------------
\* The record after a step

\* The reductions taken when the next call is chosen.
Funded(t, n) ==
    /\ t.mcp.rounds <= MaxRemoteRounds /\ t.mcp.calls <= MaxRemoteCalls
    /\ t.round = 0 => t.mcp.rounds = 0 /\ t.mcp.calls = 0
    /\ t.round = 0 /\ t.attempts = << >> => n <= 2
    /\ t.round = 0 /\ t.attempts # << >> => n <= 4 * Last(t).cand + 2 * Count(t) - 2
    /\ t.round > 0 => /\ t.mcp.rounds = t.round
                      /\ n <= 4 * input.length + 3 * t.mcp.rounds + t.mcp.calls
                                 + (IF Last(t).native THEN 0 ELSE 1)

LEMMA RunFacts ==
    ASSUME NEW t \in StateRecord
    PROVE  t.mcp.rounds \in Nat /\ t.mcp.calls \in Nat /\ t.round \in Nat
<1>1. t.mcp \in Run \cup {NoRun} /\ t.round \in Nat  BY Zenon DEF StateRecord
<1>2. CASE t.mcp \in Run  BY Zenon, <1>1, <1>2 DEF Run
<1>3. CASE t.mcp = NoRun
  <2>1. t.mcp.rounds = 0 /\ t.mcp.calls = 0  BY <1>3 DEF NoRun
  <2> QED  BY <1>1, <2>1
<1> QED  BY Zenon, <1>1, <1>2, <1>3

LEMMA StoppedKeeps ==
    ASSUME input \in Input, NEW t \in StateRecord, Quiet(t), NEW n \in Nat, Funded(t, n),
           NEW u, Stopped(t, u)
    PROVE  RInv(u, n + 1)
<1>1. /\ u \in StateRecord /\ u.phase = "failed" /\ u.problem # "invariant"
      /\ u.attempts = t.attempts /\ u.round = t.round /\ u.mcp = t.mcp
  BY Zenon DEF Stopped
<1>2. Trail(u)  BY Zenon, <1>1 DEF Quiet, Trail, Count, Last
<1>3. Shape(u)  BY Zenon, <1>1 DEF Quiet, Shape
<1> DEFINE L == input.length
           r == t.mcp.rounds
           k == t.mcp.calls
<1>4. r \in Nat /\ k \in Nat /\ t.round \in Nat /\ L \in Nat  BY Zenon, RunFacts, RouteFacts
<1>5. n + 1 <= 4 + 4 * L + 3 * r + k
  <2>1. CASE t.round = 0 /\ t.attempts = << >>
    <3>1. n <= 2  BY Zenon, <2>1 DEF Funded
    <3> HIDE DEF L, r, k
    <3> QED  BY <3>1, <1>4
  <2>2. CASE t.round = 0 /\ t.attempts # << >>
    <3> DEFINE c == Last(t).cand
               m == Count(t)
    <3>1. c \in Nat /\ c <= L /\ m \in 1 .. 2  BY Zenon, <2>2, AttemptFacts DEF Quiet
    <3>2. n <= 4 * c + 2 * m - 2  BY Zenon, <2>2 DEF Funded
    <3> HIDE DEF L, r, k, c, m
    <3> QED  BY <3>1, <3>2, <1>4
  <2>3. CASE t.round > 0
    <3>1. n <= 4 * L + 3 * r + k + (IF Last(t).native THEN 0 ELSE 1)  BY Zenon, <2>3 DEF Funded
    <3> HIDE DEF L, r, k
    <3> QED  BY <3>1, <1>4
  <2> QED  BY <2>1, <2>2, <2>3, <1>4
<1>6. Charged(u, n + 1)  BY Zenon, <1>1, <1>5, <1>4 DEF Charged, Ended, Funded
<1> QED  BY Zenon, <1>1, <1>2, <1>3, <1>6 DEF RInv

\* A call of a tool round may only repeat the candidate in full history, which
\* the last one then was not; in the first round anything legal is paid for.
Paid(t, cand, choice) ==
    \/ t.attempts = << >>
    \/ t.round = 0
    \/ cand = Last(t).cand /\ choice = "fullHistory" /\ Last(t).native
    \/ cand > Last(t).cand /\ Last(t).native

LEMMA IssuedPaid ==
    ASSUME input \in Input, NEW t \in StateRecord, Quiet(t), t.problem # "invariant",
           t.attempts # << >> /\ t.round > 0 => t.handle <= Last(t).cand,
           NEW n \in Nat, Funded(t, n),
           NEW u, NEW c, NEW ch,
           Legal(t, c, ch), Issued(t, u, c, ch), Paid(t, c, ch)
    PROVE  RInv(u, n + 1)
<1>1. /\ u \in StateRecord /\ Trail(u) /\ Shape(u) /\ u.attempts # << >>
      /\ Last(u).cand = c
      /\ Count(u) = IF ch = "preferred" THEN 1 ELSE 2
      /\ Last(u).native => t.handle = c /\ ch # "fullHistory"
  BY Zenon, IssuedKeeps
<1>2. u.phase = "calling" /\ u.problem = t.problem /\ u.round = t.round /\ u.mcp = t.mcp  BY Zenon DEF Issued
<1> DEFINE L == input.length
           r == t.mcp.rounds
           k == t.mcp.calls
           m == Count(u)
<1>3. r \in Nat /\ k \in Nat /\ t.round \in Nat /\ L \in Nat /\ c \in Nat \ {0} /\ c <= L
  BY Zenon, RunFacts, RouteFacts DEF Legal
<1>4. ASSUME t.round = 0  PROVE n + 1 <= 4 * c + 2 * m - 3
  <2>1. CASE t.attempts = << >>
    <3>1. n <= 2 /\ m = 1  BY Zenon, <2>1, <1>1, <1>4 DEF Funded, Legal
    <3> HIDE DEF m
    <3> QED  BY <3>1, <1>3
  <2>2. CASE t.attempts # << >>
    <3> DEFINE d == Last(t).cand
               j == Count(t)
    <3>1. d \in Nat /\ d <= c /\ j \in 1 .. 2  BY Zenon, <2>2, AttemptFacts DEF Quiet, Legal
    <3>2. n <= 4 * d + 2 * j - 2  BY Zenon, <1>4, <2>2 DEF Funded
    <3>3. CASE ch = "preferred"
      <4>1. \A i \in DOMAIN t.attempts : ~ Same(t.attempts[i], c, t.round)  BY Zenon, <3>3 DEF Legal
      <4>2. Last(t).round = 0
        <5>1. Last(t).round <= t.round /\ Last(t).round \in Nat
          BY Zenon, <2>2, AttemptFacts DEF Quiet, Trail, Last
        <5> QED  BY <5>1, <1>4
      <4>3. d # c  BY Zenon, <2>2, <4>1, <4>2, <1>4, AttemptFacts DEF Quiet, Same, Last
      <4>4. m = 1  BY Zenon, <3>3, <1>1
      <4> HIDE DEF d, j, m
      <4> QED  BY <3>1, <3>2, <4>3, <4>4, <1>3
    <3>4. CASE ch # "preferred"
      <4>1. d = c /\ j < 2 /\ m = 2  BY Zenon, <3>4, <1>1 DEF Legal, Same
      <4> HIDE DEF d, j, m
      <4> QED  BY <3>1, <3>2, <4>1, <1>3
    <3> QED  BY Zenon, <3>3, <3>4
  <2> QED  BY Zenon, <2>1, <2>2
<1>5. ASSUME t.round > 0
      PROVE  r = t.round /\ n + 1 <= 4 * L + 3 * r + k + (IF Last(u).native THEN 0 ELSE 1)
  <2>1. t.attempts # << >> /\ Last(t).cand \in Nat /\ t.handle \in Nat
    <3>1. t.attempts # << >>  BY Zenon, <1>5 DEF Quiet
    <3>2. Last(t).cand \in Nat  BY Zenon, <3>1, AttemptFacts DEF Quiet
    <3>3. t.handle \in 0 .. MaxCandidates  BY Zenon DEF StateRecord
    <3>4. t.handle \in Nat  BY ONLY <3>3, ExchangeAssumption
    <3> QED  BY Zenon, <3>1, <3>2, <3>4
  <2>2. Last(t).native  BY <1>5, <2>1 DEF Paid
  <2>3. n <= 4 * L + 3 * r + k /\ r = t.round
    <3>1. n <= 4 * L + 3 * r + k + (IF Last(t).native THEN 0 ELSE 1) /\ r = t.round  BY Zenon, <1>5 DEF Funded
    <3> HIDE DEF L, r, k
    <3> QED  BY <3>1, <2>2, <1>3
  <2>4. ~ Last(u).native
    <3>1. CASE c = Last(t).cand /\ ch = "fullHistory"  BY Zenon, <3>1, <1>1
    <3>2. CASE c > Last(t).cand
      <4>1. t.handle <= Last(t).cand  BY Zenon, <1>5, <2>1
      <4> QED  BY <3>2, <4>1, <2>1, <1>1, <1>3
    <3> QED  BY <3>1, <3>2, <1>5, <2>1 DEF Paid
  <2> HIDE DEF L, r, k
  <2> QED  BY <2>3, <2>4, <1>3
<1>6. Charged(u, n + 1)
  <2>1. r <= MaxRemoteRounds /\ k <= MaxRemoteCalls /\ (t.round = 0 => r = 0 /\ k = 0)  BY Zenon DEF Funded
  <2>2. t.round = 0 \/ t.round > 0  BY <1>3
  <2> QED  BY Zenon, <2>1, <2>2, <1>1, <1>2, <1>4, <1>5 DEF Charged, Ended
<1> QED  BY Zenon, <1>1, <1>2, <1>6 DEF RInv

-----------------------------------------------------------------------------
\* The steps

LEMMA InputKept ==
    ASSUME IInv, input' = input, NEW u, NEW n, RInv(u, n)
    PROVE  RInv(u, n)'
<1>1. Route' = Route  BY Zenon DEF Route
<1>2. Trail(u)'  BY Zenon, <1>1 DEF RInv, Trail
<1>3. Charged(u, n)'  BY Zenon, <1>1 DEF RInv, Charged
<1> QED  BY Zenon, <1>2, <1>3 DEF RInv

LEMMA ReducedKeeps ==
    ASSUME IInv, NEW u, Reduced(u), RInv(u, steps + 1)
    PROVE  IInv'
<1>1. input' = input /\ s' = u /\ steps' = steps + 1 /\ steps \in Nat  BY Zenon DEF Reduced, IInv
<1>2. RInv(s, steps)'
  <2>1. PICK n : n = steps + 1  BY Zenon
  <2>2. RInv(u, n)'  BY Zenon, <1>1, <2>1, InputKept
  <2>3. RInv(s, steps)' <=> RInv(u, n)'  BY <1>1, <2>1 DEF RInv, Trail, Charged, Route
  <2> QED  BY Zenon, <2>2, <2>3
<1>3. u.problem # "invariant"  BY Zenon DEF RInv
<1>4. sessions' \in {"none", "open", "closed"}  BY Zenon DEF Reduced, IInv
<1>5. AdoptedRunClosed'  BY Zenon, <1>1, <1>3 DEF Reduced, AdoptedRunClosed, Ended
<1> QED  BY <1>1, <1>2, <1>4, <1>5 DEF IInv, Route

\* u has the calls of t; only the last may have been settled meanwhile.
SameCalls(t, u) ==
    /\ Len(u.attempts) = Len(t.attempts)
    /\ \A i \in DOMAIN u.attempts :
          /\ Same(u.attempts[i], t.attempts[i].cand, t.attempts[i].round)
          /\ i = Len(t.attempts) \/ u.attempts[i] = t.attempts[i]

\* What a reduction does to the calls: nothing, a tool round after the last of
\* them, or one more.  Only what the last call v ended with moves to another
\* candidate.
Moved(t, u) ==
    \/ SameCalls(t, u) /\ u.round = t.round /\ (u.phase = "completed" => t.phase = "calling")
    \/ SameCalls(t, u) /\ u.round = t.round + 1 /\ t.phase = "calling" /\ u.phase = "callingMCP"
    \/ \E v \in StateRecord, c \in Nat, ch \in Choice :
          /\ SameCalls(t, v) /\ v.round = t.round
          /\ Quiet(v) /\ Legal(v, c, ch) /\ Issued(v, u, c, ch)
          /\ v.attempts # << >> /\ c # Last(v).cand =>
                 /\ Last(v).round = t.round
                 /\ \/ "unavailable" \in Prepared
                    \/ Last(v).round = 0 /\ providerFailureAdvancesCandidate(Last(v).failure)

LEMMA SameCallsReflexive ==
    ASSUME NEW t, NEW u, u.attempts = t.attempts
    PROVE  SameCalls(t, u)
BY Zenon DEF SameCalls, Same

\* Giving up before the first call, or in a tool round.
LEMMA Halt ==
    ASSUME IInv, NEW u, Stopped(s, u),
           s.phase \in {"starting", "loadingExplicit", "loadingRebased", "preparingMCP", "callingMCP"}
    PROVE  RInv(u, steps + 1) /\ Moved(s, u)
<1>1. /\ u \in StateRecord /\ u.phase = "failed" /\ u.problem # "invariant"
      /\ u.attempts = s.attempts /\ u.round = s.round /\ u.mcp = s.mcp
  BY Zenon DEF Stopped
<1>2. s \in StateRecord /\ Trail(s) /\ Shape(s) /\ Charged(s, steps) /\ steps \in Nat /\ input \in Input
  BY Zenon DEF IInv, RInv
<1>3. Trail(u)  BY Zenon, <1>1, <1>2 DEF Trail, Count, Last
<1>4. Shape(u)  BY Zenon, <1>1, <1>2 DEF Shape
<1> DEFINE L == input.length
           r == s.mcp.rounds
           k == s.mcp.calls
<1>5. r \in Nat /\ k \in Nat /\ L \in Nat  BY Zenon, <1>2, RunFacts, RouteFacts
<1>6. steps + 1 <= 4 + 4 * L + 3 * r + k
  <2>1. CASE s.phase # "callingMCP"
    <3>1. steps <= 2  BY <2>1, <1>2 DEF Charged
    <3> HIDE DEF L, r, k
    <3> QED  BY <3>1, <1>2, <1>5
  <2>2. CASE s.phase = "callingMCP" /\ ~ s.batch.started
    <3>1. steps <= 2 + 4 * L + 3 * r + k  BY Zenon, <2>2, <1>2 DEF Charged
    <3> HIDE DEF L, r, k
    <3> QED  BY <3>1, <1>2, <1>5
  <2>3. CASE s.phase = "callingMCP" /\ s.batch.started
    <3> DEFINE m == s.batch.size
               j == s.batch.next
    <3>1. m \in Nat /\ j \in Nat /\ j < m  BY Zenon, <2>3, <1>2 DEF Shape, Batch
    <3>2. steps <= 4 * L + 3 * r + k - m + j  BY Zenon, <2>3, <1>2 DEF Charged
    <3> HIDE DEF L, r, k, m, j
    <3> QED  BY <3>1, <3>2, <1>2, <1>5
  <2> QED  BY Zenon, <2>1, <2>2, <2>3
<1>7. Charged(u, steps + 1)  BY Zenon, <1>1, <1>2, <1>6 DEF Charged, Ended
<1>8. Moved(s, u)  BY Zenon, <1>1, SameCallsReflexive DEF Moved
<1> QED  BY Zenon, <1>1, <1>3, <1>4, <1>7, <1>8 DEF RInv

LEMMA FailType ==
    ASSUME NEW v \in StateRecord
    PROVE  /\ Fail(v, "request") \in StateRecord
           /\ Fail(v, "mcp") \in StateRecord
           /\ Fail(v, "preparation") \in StateRecord
           /\ Fail(v, "budget") \in StateRecord
           /\ Fail(v, "handoff") \in StateRecord
<1>1. Fail(v, "request") \in StateRecord  BY Zenon DEF Fail, StateRecord
<1>2. Fail(v, "mcp") \in StateRecord  BY Zenon DEF Fail, StateRecord
<1>3. Fail(v, "preparation") \in StateRecord  BY Zenon DEF Fail, StateRecord
<1>4. Fail(v, "budget") \in StateRecord  BY Zenon DEF Fail, StateRecord
<1>5. Fail(v, "handoff") \in StateRecord  BY Zenon DEF Fail, StateRecord
<1> QED  BY Zenon, <1>1, <1>2, <1>3, <1>4, <1>5

LEMMA FailStops ==
    ASSUME NEW t \in StateRecord, NEW v \in StateRecord, v.attempts = t.attempts, v.round = t.round,
           v.mcp = t.mcp,
           NEW problem \in {"request", "mcp", "preparation", "budget"},
           NEW u, u = Fail(v, problem)
    PROVE  Stopped(t, u)
<1>1. u.phase = "failed" /\ u.problem = problem  BY Zenon DEF Fail, StateRecord
<1>2. u.attempts = v.attempts /\ u.round = v.round /\ u.mcp = v.mcp  BY Zenon DEF Fail, StateRecord
<1>4. u \in StateRecord  BY Zenon, FailType
<1> QED  BY Zenon, <1>1, <1>2, <1>4 DEF Stopped

\* A step of the phases before the first call.
LEMMA EarlyStep ==
    ASSUME IInv, s.phase \in {"starting", "loadingExplicit", "loadingRebased"},
           NEW u \in StateRecord, u.problem = s.problem,
           u.attempts = s.attempts, u.round = s.round, u.mcp = s.mcp,
           \/ u.phase = "preparingMCP"
           \/ s.phase = "starting" /\ u.phase \in {"loadingExplicit", "loadingRebased"}
    PROVE  RInv(u, steps + 1) /\ Moved(s, u)
<1>1. /\ s \in StateRecord /\ Trail(s) /\ Shape(s) /\ Charged(s, steps) /\ steps \in Nat
      /\ s.problem # "invariant"
  BY Zenon DEF IInv, RInv
<1>2. Trail(u)  BY Zenon, <1>1 DEF Trail, Count, Last
<1>3. Shape(u)  BY Zenon, <1>1 DEF Shape
<1>4. steps <= 1 /\ (s.phase = "starting" => steps = 0)  BY <1>1 DEF Charged
<1>5. Charged(u, steps + 1)  BY <1>1, <1>4 DEF Charged, Ended
<1>6. Moved(s, u)  BY Zenon, SameCallsReflexive DEF Moved
<1> QED  BY Zenon, <1>1, <1>2, <1>3, <1>5, <1>6 DEF RInv

LEMMA StartingStep ==
    ASSUME IInv, NEW reference \in {"none", "empty", "explicit", "rebased"}, NEW accepted \in BOOLEAN,
           reduceStarting(reference, accepted)
    PROVE  IInv' /\ Moved(s, s')
<1>1. s \in StateRecord /\ s.phase = "starting"  BY Zenon DEF IInv, RInv, reduceStarting
<1>2. PICK u : /\ Reduced(u)
               /\ \/ u = Fail(s, "request")
                  \/ \E phase \in {"loadingExplicit", "loadingRebased", "preparingMCP"} :
                        u = [s EXCEPT !.phase = phase]
  BY Zenon DEF reduceStarting, preparingMCP
<1>3. RInv(u, steps + 1) /\ Moved(s, u)
  <2>1. CASE u = Fail(s, "request")  BY Zenon, <2>1, <1>1, FailStops, Halt
  <2>2. ASSUME NEW phase \in {"loadingExplicit", "loadingRebased", "preparingMCP"},
               u = [s EXCEPT !.phase = phase]
        PROVE  RInv(u, steps + 1) /\ Moved(s, u)
    <3>1. /\ u \in StateRecord /\ u.phase = phase /\ u.problem = s.problem
          /\ u.attempts = s.attempts /\ u.round = s.round /\ u.mcp = s.mcp
      BY Zenon, <2>2, <1>1 DEF StateRecord
    <3> QED  BY Zenon, <3>1, <1>1, EarlyStep
  <2> QED  BY <2>1, <2>2, <1>2
<1> QED  BY Zenon, <1>2, <1>3, ReducedKeeps DEF Reduced

LEMMA LoadingStep ==
    ASSUME IInv, NEW loaded \in {"error", "miss", "found"}, NEW accepted \in BOOLEAN,
           reduceLoadingCheckpoint(loaded, accepted)
    PROVE  IInv' /\ Moved(s, s')
<1>1. s \in StateRecord /\ s.phase \in {"loadingExplicit", "loadingRebased"}
  BY Zenon DEF IInv, RInv, reduceLoadingCheckpoint
<1>2. PICK u : /\ Reduced(u)
               /\ \/ u = Fail(s, "request")
                  \/ \E b \in BOOLEAN : u = [preparingMCP(s) EXCEPT !.resumed = b]
  <2>1. PICK b \in BOOLEAN : b = (loaded = "found")  BY Zenon
  <2> QED  BY <2>1, Zenon DEF reduceLoadingCheckpoint
<1>3. RInv(u, steps + 1) /\ Moved(s, u)
  <2>1. CASE u = Fail(s, "request")  BY Zenon, <2>1, <1>1, FailStops, Halt
  <2>2. ASSUME NEW b \in BOOLEAN, u = [preparingMCP(s) EXCEPT !.resumed = b]
        PROVE  RInv(u, steps + 1) /\ Moved(s, u)
    <3> DEFINE v == preparingMCP(s)
    <3>1. /\ v \in StateRecord /\ v.phase = "preparingMCP" /\ v.problem = s.problem
          /\ v.attempts = s.attempts /\ v.round = s.round /\ v.mcp = s.mcp
      BY Zenon, <1>1 DEF StateRecord, preparingMCP
    <3> HIDE DEF v
    <3>2. u = [v EXCEPT !.resumed = b]  BY Zenon, <2>2 DEF v
    <3>3. u \in StateRecord  BY Zenon, <3>1, <3>2 DEF StateRecord
    <3>4. /\ u.phase = v.phase /\ u.problem = v.problem
          /\ u.attempts = v.attempts /\ u.round = v.round /\ u.mcp = v.mcp
      BY Zenon, <3>1, <3>2 DEF StateRecord
    <3> QED  BY <3>1, <3>3, <3>4, <1>1, EarlyStep
  <2> QED  BY Zenon, <2>1, <2>2, <1>2
<1> QED  BY Zenon, <1>2, <1>3, ReducedKeeps DEF Reduced

\* Choosing the next call, once the last one is settled.
LEMMA Onward ==
    ASSUME IInv, NEW t \in StateRecord, SameCalls(s, t), t.round = s.round, Quiet(t),
           t.problem # "invariant",
           t.attempts # << >> => Last(t).round = t.round,
           t.attempts # << >> /\ t.round > 0 => t.handle <= Last(t).cand,
           Funded(t, steps),
           NEW prep \in Preparation, NEW u, u = advanceProviderExecution(t, prep)
    PROVE  RInv(u, steps + 1) /\ Moved(s, u) /\ u.mcp = t.mcp
<1>1. input \in Input /\ steps \in Nat  BY Zenon DEF IInv
<1>2. \/ Stopped(t, u)
      \/ \E c \in Nat, ch \in Choice :
            Legal(t, c, ch) /\ Issued(t, u, c, ch) /\ Follows(t, c, ch)
  BY Zenon, <1>1, Advance
<1>3. CASE Stopped(t, u)
  <2>1. RInv(u, steps + 1)  BY Zenon, <1>1, <1>3, StoppedKeeps
  <2>2. u.attempts = t.attempts /\ u.round = t.round /\ u.phase = "failed" /\ u.mcp = t.mcp
    BY Zenon, <1>3 DEF Stopped
  <2>3. Moved(s, u)  BY Zenon, <2>2 DEF Moved, SameCalls
  <2> QED  BY Zenon, <2>1, <2>2, <2>3
<1>4. ASSUME NEW c \in Nat, NEW ch \in Choice, Legal(t, c, ch), Issued(t, u, c, ch), Follows(t, c, ch)
      PROVE  RInv(u, steps + 1) /\ Moved(s, u) /\ u.mcp = t.mcp
  <2>1. Paid(t, c, ch)  BY Zenon, <1>4 DEF Paid, Follows
  <2>2. RInv(u, steps + 1)  BY <1>1, <1>4, <2>1, IssuedPaid
  <2>3. t.attempts # << >> => Last(t).cand \in Nat  BY Zenon, <1>1, AttemptFacts DEF Quiet
  <2>4. t.attempts # << >> /\ c # Last(t).cand =>
           /\ Last(t).round = s.round
           /\ \/ "unavailable" \in Prepared
              \/ Last(t).round = 0 /\ providerFailureAdvancesCandidate(Last(t).failure)
    BY Zenon, <1>4 DEF Follows
  <2>5. Moved(s, u)  BY Zenon, <1>4, <2>4 DEF Moved
  <2>6. u.mcp = t.mcp  BY Zenon, <1>4 DEF Issued
  <2> QED  BY Zenon, <2>2, <2>5, <2>6
<1> QED  BY Zenon, <1>2, <1>3, <1>4

LEMMA PreparingStep ==
    ASSUME IInv, NEW opened, NEW finalized \in BOOLEAN, NEW handle \in 0 .. MaxCandidates,
           NEW prep \in Preparation, reducePreparingMCP(opened, finalized, handle, prep)
    PROVE  IInv' /\ Moved(s, s')
<1> DEFINE run == IF opened = "noSource" THEN NoRun
                  ELSE [NoRun EXCEPT !.open = TRUE, !.callable = (opened = "callable")]
           t == [s EXCEPT !.mcp = run, !.handle = handle]
<1>1. s \in StateRecord /\ Trail(s) /\ Shape(s) /\ Charged(s, steps) /\ s.phase = "preparingMCP"
      /\ s.problem # "invariant" /\ steps \in Nat /\ input \in Input
  BY Zenon DEF IInv, RInv, reducePreparingMCP
<1>2. s.attempts = << >> /\ s.round = 0 /\ s.mcp = NoRun /\ steps <= 2  BY Zenon, <1>1 DEF Shape, Charged
<1>3. /\ \/ s' = Fail(s, "mcp") \/ s' = Fail(s, "request")
         \/ opened # "error" /\ s' = advanceProviderExecution(t, prep)
      /\ sessions' = CASE opened \in {"error", "noSource"} -> "none"
                       [] Ended(s') /\ s'.mcp.open -> "closed"
                       [] OTHER -> "open"
      /\ steps' = steps + 1 /\ input' = input
  BY Zenon DEF reducePreparingMCP
<1>4. /\ run \in Run \cup {NoRun} /\ run.rounds = 0 /\ run.calls = 0
      /\ opened = "noSource" => run = NoRun
  <2>1. (opened = "callable") \in BOOLEAN  BY Zenon
  <2> QED  BY Zenon, <2>1 DEF Run, NoRun
<1> HIDE DEF run
<1>5. /\ t \in StateRecord /\ t.attempts = s.attempts /\ t.round = s.round /\ t.problem = s.problem
      /\ t.mcp = run
  BY Zenon, <1>1, <1>4 DEF StateRecord
<1> HIDE DEF t
<1>6. /\ RInv(s', steps + 1) /\ Moved(s, s') /\ (s'.mcp = NoRun \/ s'.mcp = run)
      /\ opened = "error" => s'.mcp = NoRun
  <2>1. CASE s' = Fail(s, "mcp") \/ s' = Fail(s, "request")
    <3>1. Stopped(s, s')  BY Zenon, <2>1, <1>1, FailStops
    <3>2. s'.mcp = NoRun  BY Zenon, <3>1, <1>2 DEF Stopped
    <3> QED  BY Zenon, <3>1, <3>2, <1>1, Halt
  <2>2. CASE opened # "error" /\ s' = advanceProviderExecution(t, prep)
    <3>1. SameCalls(s, t)  BY Zenon, <1>5, SameCallsReflexive
    <3>2. Quiet(t)  BY <1>1, <1>2, <1>5 DEF Quiet, Trail
    <3>3. Funded(t, steps)  BY <1>1, <1>2, <1>4, <1>5, ExchangeAssumption DEF Funded
    <3>4. RInv(s', steps + 1) /\ Moved(s, s') /\ s'.mcp = run
      BY <2>2, <3>1, <3>2, <3>3, <1>1, <1>2, <1>5, Onward
    <3> QED  BY Zenon, <2>2, <3>4
  <2> QED  BY Zenon, <2>1, <2>2, <1>3
<1>7. RInv(s, steps)'
  <2>1. PICK u, n : u = s' /\ n = steps'  BY Zenon
  <2>2. RInv(u, n)'  BY <2>1, <1>3, <1>6, InputKept
  <2>3. RInv(s, steps)' <=> RInv(u, n)'  BY <2>1 DEF RInv, Trail, Charged, Route
  <2> QED  BY Zenon, <2>2, <2>3
<1>8. sessions' \in {"none", "open", "closed"}  BY Zenon, <1>3
<1>9. AdoptedRunClosed'
  <2>1. ~ NoRun.open  BY Zenon DEF NoRun
  <2>2. s'.mcp.open => opened \notin {"error", "noSource"}  BY Zenon, <2>1, <1>4, <1>6
  <2> QED  BY Zenon, <2>2, <1>3 DEF AdoptedRunClosed, Ended
<1> QED  BY <1>1, <1>3, <1>6, <1>7, <1>8, <1>9 DEF IInv, Route

\* What a call costs: the reductions before and after it.
LEMMA CallingBound ==
    ASSUME IInv, s.phase = "calling"
    PROVE  /\ s.mcp.rounds = s.round
           /\ steps + 1 <= 2 + 4 * input.length + 3 * s.mcp.rounds + s.mcp.calls
           /\ Funded(s, steps)
           /\ s.round = 0 => steps + 1 <= 4 * Last(s).cand + 2 * Count(s) - 2
<1>1. s \in StateRecord /\ Trail(s) /\ Shape(s) /\ Charged(s, steps) /\ steps \in Nat /\ input \in Input
  BY Zenon DEF IInv, RInv
<1> DEFINE L == input.length
           r == s.mcp.rounds
           k == s.mcp.calls
           c == Last(s).cand
           m == Count(s)
<1>2. r \in Nat /\ k \in Nat /\ L \in Nat /\ s.round \in Nat  BY Zenon, <1>1, RunFacts, RouteFacts
<1>3. s.attempts # << >> /\ c \in Nat /\ c <= L /\ m \in 1 .. 2  BY Zenon, <1>1, AttemptFacts DEF Shape
<1>4. s.round = 0 => r = 0 /\ k = 0 /\ steps <= 4 * c + 2 * m - 3  BY Zenon, <1>1 DEF Charged
<1>5. s.round > 0 => r = s.round /\ steps <= 4 * L + 3 * r + k + (IF Last(s).native THEN 0 ELSE 1)
  BY Zenon, <1>1 DEF Charged
<1>6. r <= MaxRemoteRounds /\ k <= MaxRemoteCalls  BY Zenon, <1>1 DEF Charged
<1>7. /\ r = s.round /\ steps + 1 <= 2 + 4 * L + 3 * r + k
      /\ s.round = 0 => steps + 1 <= 4 * c + 2 * m - 2 /\ steps <= 4 * c + 2 * m - 2
  <2> HIDE DEF L, r, k, c, m
  <2>1. CASE s.round = 0  BY <2>1, <1>1, <1>2, <1>3, <1>4
  <2>2. CASE s.round > 0  BY <2>2, <1>1, <1>2, <1>5
  <2> QED  BY <2>1, <2>2, <1>2
<1>8. Funded(s, steps)  BY <1>3, <1>4, <1>5, <1>6, <1>7 DEF Funded
<1> QED  BY Zenon, <1>7, <1>8

\* The state in which the next call is chosen after a failure.
LEMMA FailureSettles ==
    ASSUME IInv, s.phase = "calling", NEW f \in AttemptFailure,
           NEW t, t = failProviderCallAttempt(s, f)
    PROVE  /\ t \in StateRecord /\ SameCalls(s, t) /\ t.round = s.round /\ Quiet(t)
           /\ t.problem # "invariant"
           /\ t.attempts # << >>
           /\ Last(t).round = t.round /\ Last(t).cand = Last(s).cand /\ Last(t).status = "failed"
           /\ Count(t) = Count(s)
           /\ t.round > 0 => t.handle <= Last(t).cand
           /\ t.mcp = s.mcp
           /\ Funded(t, steps)
<1>1. /\ s \in StateRecord /\ Trail(s) /\ Shape(s) /\ steps \in Nat /\ input \in Input
      /\ s.problem # "invariant"
  BY Zenon DEF IInv, RInv
<1>2. /\ t \in StateRecord /\ Quiet(t)
      /\ t.attempts # << >> /\ Len(t.attempts) = Len(s.attempts) /\ Count(t) = Count(s)
      /\ Last(t).cand = Last(s).cand /\ Last(t).round = s.round /\ Last(t).native = Last(s).native
      /\ Last(t).status = "failed"
      /\ t.problem = s.problem /\ t.round = s.round /\ t.handle = s.handle /\ t.mcp = s.mcp
      /\ \A i \in DOMAIN t.attempts : i = Len(s.attempts) \/ t.attempts[i] = s.attempts[i]
  BY <1>1, FailAttempt
<1>3. Last(s).round = s.round /\ s.attempts # << >> /\ (s.round > 0 => s.handle <= Last(s).cand)
  BY Zenon, <1>1 DEF Shape
<1>4. SameCalls(s, t)  BY <1>2, <1>3 DEF SameCalls, Same, Last
<1>5. Funded(s, steps)  BY Zenon, CallingBound
<1>6. Funded(t, steps)  BY <1>2, <1>3, <1>5 DEF Funded
<1> QED  BY <1>1, <1>2, <1>3, <1>4, <1>6

LEMMA ProviderFailureStep ==
    ASSUME IInv, NEW f \in Failure, NEW prep \in Preparation, reduceProviderFailure(f, prep)
    PROVE  IInv' /\ Moved(s, s')
<1> DEFINE t == failProviderCallAttempt(s, f)
<1>1. s.phase = "calling" /\ f \in AttemptFailure  BY Zenon DEF reduceProviderFailure, AttemptFailure
<1>2. /\ t \in StateRecord /\ SameCalls(s, t) /\ t.round = s.round /\ Quiet(t)
      /\ t.problem # "invariant" /\ t.attempts # << >>
      /\ Last(t).round = t.round /\ Last(t).cand = Last(s).cand /\ Last(t).status = "failed"
      /\ Count(t) = Count(s)
      /\ t.round > 0 => t.handle <= Last(t).cand
      /\ t.mcp = s.mcp
      /\ Funded(t, steps)
  BY Zenon, <1>1, FailureSettles
<1>3. \/ /\ targetFactCharacterizationAdmitted(Last(s), f)
         /\ Reduced([t EXCEPT !.phase = "resolving"])
      \/ Reduced(advanceProviderExecution(t, prep))
  BY Zenon DEF reduceProviderFailure
<1> HIDE DEF t
<1>4. CASE Reduced(advanceProviderExecution(t, prep))
  <2>1. PICK u : u = advanceProviderExecution(t, prep) /\ Reduced(u)  BY Zenon, <1>4
  <2>2. RInv(u, steps + 1) /\ Moved(s, u)  BY <2>1, <1>2, Onward
  <2> QED  BY <2>1, <2>2, ReducedKeeps DEF Reduced
<1>5. CASE /\ targetFactCharacterizationAdmitted(Last(s), f)
           /\ Reduced([t EXCEPT !.phase = "resolving"])
  <2>1. PICK u : u = [t EXCEPT !.phase = "resolving"] /\ Reduced(u)  BY Zenon, <1>5
  <2>2. /\ u \in StateRecord /\ u.phase = "resolving" /\ u.attempts = t.attempts /\ u.round = t.round
        /\ u.problem = t.problem /\ u.mcp = t.mcp /\ u.handle = t.handle
    BY Zenon, <2>1, <1>2 DEF StateRecord
  <2>3. s.round = 0
    <3>1. Last(s).round = s.round /\ s.attempts # << >>  BY Zenon, <1>1 DEF IInv, RInv, Shape
    <3>2. Last(s) \in Attempt  BY Zenon, <3>1, AttemptFacts DEF IInv, RInv
    <3> QED
      BY Zenon, <1>5, <3>1, <3>2 DEF targetFactCharacterizationAdmitted, providerRecoveryPermitted, Attempt
  <2>4. Last(u) = Last(t) /\ Count(u) = Count(t)  BY Zenon, <2>2 DEF Last, Count
  <2>5. Trail(u)  BY Zenon, <2>2, <2>4, <1>2 DEF Quiet, Trail
  <2>6. Shape(u)  BY <2>2, <2>3, <2>4, <1>2 DEF Shape, Quiet
  <2>7. Charged(u, steps + 1)
    <3>1. steps + 1 <= 4 * Last(s).cand + 2 * Count(s) - 2  BY Zenon, <1>1, <2>3, CallingBound
    <3>2. u.mcp.rounds = 0 /\ u.mcp.calls = 0  BY Zenon, <2>2, <2>3, <1>2 DEF Funded
    <3> QED  BY <2>2, <2>3, <2>4, <3>1, <3>2, <1>2, ExchangeAssumption DEF Charged, Ended
  <2>8. RInv(u, steps + 1)  BY Zenon, <2>2, <2>5, <2>6, <2>7, <1>2 DEF RInv
  <2>9. Moved(s, u)  BY Zenon, <2>2, <1>2 DEF Moved, SameCalls
  <2> QED  BY Zenon, <2>1, <2>8, <2>9, ReducedKeeps DEF Reduced
<1> QED  BY <1>3, <1>4, <1>5

LEMMA UnusableIngressStep ==
    ASSUME IInv, NEW cause \in IngressCause, NEW prep \in Preparation,
           reduceUnusableIngress(cause, prep)
    PROVE  IInv' /\ Moved(s, s')
<1> DEFINE f == [exec |-> "mayHaveOccurred", cause |-> cause]
<1>1. s.phase = "calling" /\ f \in AttemptFailure
  BY Zenon, ExchangeAssumption DEF reduceUnusableIngress, AttemptFailure
<1>2. PICK u : Reduced(u) /\ u = advanceProviderExecution(failProviderCallAttempt(s, f), prep)
  BY Zenon DEF reduceUnusableIngress
<1> HIDE DEF f
<1>3. PICK t : t = failProviderCallAttempt(s, f)  BY Zenon
<1>4. /\ t \in StateRecord /\ SameCalls(s, t) /\ t.round = s.round /\ Quiet(t)
      /\ t.problem # "invariant" /\ t.attempts # << >> /\ Last(t).round = t.round
      /\ t.round > 0 => t.handle <= Last(t).cand
      /\ Funded(t, steps)
  BY <1>1, <1>3, FailureSettles
<1>5. RInv(u, steps + 1) /\ Moved(s, u)  BY <1>2, <1>3, <1>4, Onward
<1> QED  BY Zenon, <1>2, <1>5, ReducedKeeps DEF Reduced

LEMMA IngressStep ==
    ASSUME IInv, NEW calls \in 0 .. MaxBatch, NEW handoff \in {"ok", "error"},
           reduceIngress(calls, handoff)
    PROVE  IInv' /\ Moved(s, s')
<1> DEFINE t == completeProviderCallAttempt(s)
           batch == [cand |-> Last(s).cand, size |-> calls, next |-> 0, started |-> FALSE]
<1>1. s.phase = "calling" /\ (calls = 0 \/ s.mcp.callable)  BY Zenon DEF reduceIngress
<1>2. /\ s \in StateRecord /\ Trail(s) /\ Shape(s) /\ steps \in Nat /\ input \in Input
      /\ s.problem # "invariant" /\ calls \in Nat
  BY ExchangeAssumption DEF IInv, RInv
<1>3. /\ t \in StateRecord /\ Trail(t)
      /\ t.attempts # << >> /\ Len(t.attempts) = Len(s.attempts)
      /\ Last(t).cand = Last(s).cand /\ Last(t).round = s.round
      /\ Last(t).status = "handoffReady"
      /\ t.problem = s.problem /\ t.round = s.round /\ t.mcp = s.mcp
      /\ \A i \in DOMAIN t.attempts : /\ t.attempts[i].status # "calling"
                                      /\ i = Len(s.attempts) \/ t.attempts[i] = s.attempts[i]
  BY <1>1, <1>2, CompleteAttempt
<1>4. PICK u : /\ Reduced(u)
               /\ \/ u = Fail(t, "handoff")
                  \/ u = [t EXCEPT !.phase = "completed"]
                  \/ calls > 0 /\ u = [t EXCEPT !.phase = "callingMCP", !.round = @ + 1, !.batch = batch]
  BY Zenon DEF reduceIngress
<1> HIDE DEF t
<1>5. Last(s).round = s.round /\ s.attempts # << >>  BY Zenon, <1>1, <1>2 DEF Shape
<1>6. SameCalls(s, t)  BY Zenon, <1>3, <1>5 DEF SameCalls, Same, Last
<1>7. /\ s.mcp.rounds = s.round
      /\ steps + 1 <= 2 + 4 * input.length + 3 * s.mcp.rounds + s.mcp.calls
      /\ s.mcp.rounds <= MaxRemoteRounds /\ s.mcp.calls <= MaxRemoteCalls
  BY Zenon, <1>1, CallingBound DEF Funded
<1>8. /\ s.mcp.rounds \in Nat /\ s.mcp.calls \in Nat /\ s.round \in Nat /\ input.length \in Nat
  BY Zenon, <1>2, RunFacts, RouteFacts
<1>9. steps + 1 <= 4 + 4 * input.length + 3 * s.mcp.rounds + s.mcp.calls
  <2> DEFINE L == input.length
             r == s.mcp.rounds
             k == s.mcp.calls
  <2>1. steps + 1 <= 2 + 4 * L + 3 * r + k /\ r \in Nat /\ k \in Nat /\ L \in Nat  BY Zenon, <1>7, <1>8
  <2> HIDE DEF L, r, k
  <2>2. steps + 1 <= 4 + 4 * L + 3 * r + k  BY <2>1, <1>2
  <2> QED  BY Zenon, <2>2 DEF L, r, k
<1>10. ASSUME u.phase \in {"failed", "completed"}, u \in StateRecord, u.attempts = t.attempts,
              u.round = t.round, u.mcp = t.mcp, u.problem # "invariant"
       PROVE  RInv(u, steps + 1) /\ Moved(s, u)
  <2>1. Last(u) = Last(t) /\ Count(u) = Count(t)  BY Zenon, <1>10 DEF Last, Count
  <2>2. Trail(u)  BY Zenon, <1>3, <1>10, <2>1 DEF Trail
  <2>3. Shape(u)
    <3>1. /\ Last(u).status = "handoffReady" /\ Last(u).round = u.round /\ u.attempts # << >>
          /\ \A i \in DOMAIN u.attempts : u.attempts[i].status # "calling"
      BY Zenon, <1>3, <1>10, <2>1
    <3> QED  BY ONLY Zenon, <3>1, <1>10 DEF Shape
  <2>4. Charged(u, steps + 1)  BY <1>3, <1>7, <1>9, <1>10 DEF Charged, Ended
  <2>5. Moved(s, u)  BY <1>1, <1>3, <1>6, <1>10 DEF Moved, SameCalls
  <2> QED  BY <1>10, <2>2, <2>3, <2>4, <2>5 DEF RInv
<1>11. CASE u = Fail(t, "handoff")
  <2>1. u \in StateRecord  BY Zenon, <1>3, <1>11, FailType
  <2>2. /\ u.phase = "failed" /\ u.problem = "handoff" /\ u.attempts = t.attempts
        /\ u.round = t.round /\ u.mcp = t.mcp
    BY Zenon, <1>3, <1>11 DEF Fail, StateRecord
  <2> QED  BY Zenon, <2>1, <2>2, <1>4, <1>10, ReducedKeeps DEF Reduced
<1>12. CASE u = [t EXCEPT !.phase = "completed"]
  <2>1. u \in StateRecord  BY <1>3, <1>12 DEF StateRecord
  <2>2. /\ u.phase = "completed" /\ u.problem = t.problem /\ u.attempts = t.attempts
        /\ u.round = t.round /\ u.mcp = t.mcp
    BY <1>3, <1>12 DEF StateRecord
  <2> QED  BY Zenon, <2>1, <2>2, <1>2, <1>3, <1>4, <1>10, ReducedKeeps DEF Reduced
<1>13. CASE calls > 0 /\ u = [t EXCEPT !.phase = "callingMCP", !.round = @ + 1, !.batch = batch]
  <2>1. Last(s).cand \in Candidate /\ Last(s).cand \in Nat
    BY <1>2, <1>5, AttemptFacts, RouteFacts
  <2>2. batch \in Batch /\ batch.cand = Last(s).cand /\ batch.next < batch.size /\ ~ batch.started
    BY <1>2, <1>13, <2>1 DEF Batch
  <2> HIDE DEF batch
  <2>3. u \in StateRecord
    <3>1. t.round + 1 \in Nat /\ batch \in Batch \cup {NoBatch}  BY <1>3, <1>8, <2>2
    <3> QED  BY Zenon, <1>3, <1>13, <3>1 DEF StateRecord
  <2>4. /\ u.phase = "callingMCP" /\ u.problem = t.problem /\ u.attempts = t.attempts
        /\ u.round = t.round + 1 /\ u.mcp = t.mcp /\ u.batch = batch
    BY <1>3, <1>13 DEF StateRecord
  <2>5. s.mcp \in Run
    <3>1. s.mcp.callable /\ s.mcp \in Run \cup {NoRun}  BY <1>1, <1>2, <1>13 DEF StateRecord
    <3> QED  BY <3>1 DEF NoRun
  <2>6. Last(u) = Last(t) /\ Count(u) = Count(t)  BY Zenon, <2>4 DEF Last, Count
  <2>7. Trail(u)
    <3>1. \A i \in DOMAIN t.attempts : t.attempts[i].round <= u.round
      <4>1. \A i \in DOMAIN t.attempts : t.attempts[i].round \in Nat /\ t.attempts[i].round <= t.round
        BY <1>2, <1>3, AttemptFacts DEF Trail
      <4> QED  BY <4>1, <2>4, <1>3, <1>8
    <3> QED  BY <2>4, <2>6, <3>1, <1>3 DEF Trail
  <2>8. Shape(u)
    <3>1. Last(t).round < u.round  BY <2>4, <1>3, <1>8
    <3>2. /\ Last(u).status = "handoffReady" /\ Last(u).round < u.round /\ u.attempts # << >>
          /\ u.mcp \in Run /\ u.batch \in Batch /\ u.batch.cand = Last(u).cand
          /\ u.batch.next < u.batch.size
          /\ \A i \in DOMAIN u.attempts : u.attempts[i].status # "calling"
      BY <2>2, <2>4, <2>5, <2>6, <3>1, <1>3
    <3> QED  BY ONLY <3>2, <2>4 DEF Shape
  <2>9. Charged(u, steps + 1)
    <3>1. u.mcp.rounds = u.round - 1  BY <2>4, <1>3, <1>7, <1>8
    <3> QED  BY <2>2, <2>4, <3>1, <1>3, <1>7 DEF Charged, Ended
  <2>10. RInv(u, steps + 1)  BY ZenonT(60), <2>3, <2>4, <2>7, <2>8, <2>9, <1>2, <1>3 DEF RInv
  <2>11. Moved(s, u)  BY <2>4, <1>1, <1>3, <1>6 DEF Moved, SameCalls
  <2> QED  BY <2>10, <2>11, <1>4, ReducedKeeps DEF Reduced
<1> QED  BY <1>4, <1>11, <1>12, <1>13

LEMMA ResolvingStep ==
    ASSUME IInv, NEW changed \in BOOLEAN, NEW prep \in Preparation,
           reduceResolvingTargetFacts(changed, prep)
    PROVE  IInv' /\ Moved(s, s')
<1> DEFINE cand == Last(s).cand
<1>1. /\ s \in StateRecord /\ Trail(s) /\ Shape(s) /\ Charged(s, steps) /\ steps \in Nat
      /\ input \in Input /\ s.problem # "invariant" /\ s.phase = "resolving"
  BY Zenon DEF IInv, RInv, reduceResolvingTargetFacts
<1>2. /\ s.attempts # << >> /\ Last(s).status = "failed" /\ Last(s).round = s.round /\ s.round = 0
  BY Zenon, <1>1 DEF Shape
<1>3. cand \in Nat /\ cand \in Route \ input.backoff /\ s.handle \in Nat
  BY <1>1, <1>2, AttemptFacts, ExchangeAssumption DEF StateRecord
<1>4. Quiet(s)
  <2>1. ASSUME NEW i \in DOMAIN s.attempts, s.attempts[i].status = "handoffReady"
        PROVE  s.attempts[i].round < s.round
    <3>1. /\ DOMAIN s.attempts = 1 .. Len(s.attempts) /\ Len(s.attempts) \in Nat
          /\ Len(s.attempts) \in DOMAIN s.attempts
      BY Zenon, <1>1, <1>2, AttemptFacts
    <3>2. i # Len(s.attempts)  BY Zenon, <2>1, <1>2 DEF Last
    <3>3. i < Len(s.attempts)  BY <3>1, <3>2
    <3> QED  BY Zenon, <2>1, <3>1, <3>3, <1>1, <1>2 DEF Trail, Last
  <2> QED  BY Zenon, <2>1, <1>1, <1>2 DEF Quiet, Shape
<1>5. SameCalls(s, s)  BY Zenon, SameCallsReflexive
<1>6. Funded(s, steps)  BY <1>1, <1>2, ExchangeAssumption DEF Funded, Charged
<1>7. PICK u : /\ Reduced(u)
               /\ \/ u = advanceProviderExecution(s, prep)
                  \/ /\ Count(s) < 2
                     /\ u = advanceProviderExecutionFrom(s, [cand |-> cand, choice |-> "reprojected"], prep)
  BY Zenon DEF reduceResolvingTargetFacts, Count
<1>8. CASE u = advanceProviderExecution(s, prep)
  <2>1. RInv(u, steps + 1) /\ Moved(s, u)  BY <1>1, <1>2, <1>4, <1>5, <1>6, <1>8, Onward
  <2> QED  BY Zenon, <2>1, <1>7, ReducedKeeps DEF Reduced
<1>9. CASE /\ Count(s) < 2
           /\ u = advanceProviderExecutionFrom(s, [cand |-> cand, choice |-> "reprojected"], prep)
  <2>1. Legal(s, cand, "reprojected")  BY <1>2, <1>3, <1>9 DEF Legal, Same
  <2>2. \/ Stopped(s, u)
        \/ Issued(s, u, cand, "reprojected")
        \/ \E c \in Nat : /\ c > cand /\ Legal(s, c, "preferred") /\ Issued(s, u, c, "preferred")
                          /\ "unavailable" \in Prepared
    BY Zenon, <1>1, <1>4, <1>9, <2>1, AdvanceFrom
  <2>3. ASSUME Stopped(s, u)  PROVE RInv(u, steps + 1) /\ Moved(s, u)
    <3>1. RInv(u, steps + 1)  BY Zenon, <1>1, <1>4, <1>6, <2>3, StoppedKeeps
    <3>2. Moved(s, u)  BY Zenon, <2>3, SameCallsReflexive DEF Moved, Stopped
    <3> QED  BY Zenon, <3>1, <3>2
  <2>4. ASSUME NEW c \in Nat, NEW ch \in Choice, Legal(s, c, ch), Issued(s, u, c, ch),
               c # cand => "unavailable" \in Prepared
        PROVE  RInv(u, steps + 1) /\ Moved(s, u)
    <3>1. Paid(s, c, ch)  BY Zenon, <1>2 DEF Paid
    <3>2. RInv(u, steps + 1)  BY <1>1, <1>2, <1>4, <1>6, <2>4, <3>1, IssuedPaid
    <3>3. Moved(s, u)  BY Zenon, <1>1, <1>2, <1>4, <1>5, <2>4 DEF Moved
    <3> QED  BY Zenon, <3>2, <3>3
  <2>5. "reprojected" \in Choice /\ "preferred" \in Choice  BY Zenon DEF Choice
  <2>6. RInv(u, steps + 1) /\ Moved(s, u)
    <3> HIDE DEF cand
    <3> QED  BY Zenon, <1>3, <2>1, <2>2, <2>3, <2>4, <2>5
  <2> QED  BY Zenon, <2>6, <1>7, ReducedKeeps DEF Reduced
<1> QED  BY Zenon, <1>7, <1>8, <1>9

LEMMA BatchStartedStep ==
    ASSUME IInv, reduceBatchStarted
    PROVE  IInv' /\ Moved(s, s')
<1>1. /\ s \in StateRecord /\ Trail(s) /\ Shape(s) /\ Charged(s, steps) /\ steps \in Nat
      /\ input \in Input /\ s.problem # "invariant" /\ s.phase = "callingMCP" /\ ~ s.batch.started
  BY Zenon DEF IInv, RInv, reduceBatchStarted
<1> DEFINE size == s.batch.size
           run == BeginBatch(s.mcp, size)
           v == [s EXCEPT !.mcp = run]
<1>2. PICK u : /\ Reduced(u)
               /\ \/ u = Fail(s, "budget")
                  \/ withinBudget(s.mcp, size) /\ u = [v EXCEPT !.batch.started = TRUE]
  BY Zenon DEF reduceBatchStarted
<1>3. CASE u = Fail(s, "budget")
  <2>1. Stopped(s, u)  BY Zenon, <1>1, <1>3, FailStops
  <2>2. RInv(u, steps + 1) /\ Moved(s, u)  BY Zenon, <2>1, <1>1, Halt
  <2> QED  BY Zenon, <2>2, <1>2, ReducedKeeps DEF Reduced
<1>4. CASE withinBudget(s.mcp, size) /\ u = [v EXCEPT !.batch.started = TRUE]
  <2>1. /\ s.mcp \in Run /\ s.batch \in Batch /\ s.batch.cand = Last(s).cand /\ s.batch.next < size
        /\ Last(s).status = "handoffReady" /\ Last(s).round < s.round /\ s.attempts # << >>
        /\ \A i \in DOMAIN s.attempts : s.attempts[i].status # "calling"
    BY Zenon, <1>1 DEF Shape
  <2> DEFINE L == input.length
             r == s.mcp.rounds
             k == s.mcp.calls
             m == size
             j == s.batch.next
  <2>2. /\ r \in Nat /\ k \in Nat /\ L \in Nat /\ s.round \in Nat /\ m \in Nat /\ j \in Nat
        /\ MaxRemoteRounds \in Nat /\ MaxRemoteCalls \in Nat
    BY Zenon, <1>1, <2>1, RunFacts, RouteFacts, ExchangeAssumption DEF Batch
  <2>3. run \in Run /\ run.rounds = r + 1 /\ run.calls = k + m
    <3>1. run.rounds = r + 1 /\ run.calls = k + m  BY Zenon, <2>1 DEF BeginBatch, Run
    <3>2. r + 1 \in Nat /\ k + m \in Nat  BY <2>2
    <3>3. run = [s.mcp EXCEPT !.rounds = r + 1, !.calls = k + m]  BY Zenon, <2>1 DEF BeginBatch, Run
    <3> QED  BY Zenon, <2>1, <3>1, <3>2, <3>3 DEF Run
  <2> HIDE DEF run
  <2>4. /\ v \in StateRecord /\ v.mcp = run /\ v.phase = s.phase /\ v.problem = s.problem
        /\ v.attempts = s.attempts /\ v.round = s.round /\ v.batch = s.batch
    BY Zenon, <1>1, <2>3 DEF StateRecord
  <2> HIDE DEF v
  <2>5. /\ u.batch = [s.batch EXCEPT !.started = TRUE] /\ u.mcp = run /\ u.phase = s.phase
        /\ u.problem = s.problem /\ u.attempts = s.attempts /\ u.round = s.round
    BY Zenon, <1>4, <2>4 DEF StateRecord
  <2>6. /\ u.batch \in Batch /\ u.batch.cand = s.batch.cand /\ u.batch.size = m /\ u.batch.next = j
        /\ u.batch.started
    BY Zenon, <2>1, <2>5 DEF Batch
  <2>7. u \in StateRecord
    <3>1. u = [v EXCEPT !.batch = [s.batch EXCEPT !.started = TRUE]]  BY Zenon, <1>4, <2>4 DEF StateRecord
    <3>2. [s.batch EXCEPT !.started = TRUE] \in Batch  BY Zenon, <2>5, <2>6
    <3> QED  BY Zenon, <2>4, <3>1, <3>2 DEF StateRecord
  <2>8. Last(u) = Last(s) /\ Count(u) = Count(s)  BY Zenon, <2>5 DEF Last, Count
  <2>9. Trail(u)  BY Zenon, <2>5, <2>8, <1>1 DEF Trail
  <2>10. Shape(u)
    <3>1. /\ u.mcp \in Run /\ u.batch.cand = Last(u).cand /\ u.batch.next < u.batch.size
          /\ Last(u).status = "handoffReady" /\ Last(u).round < u.round /\ u.attempts # << >>
          /\ \A i \in DOMAIN u.attempts : u.attempts[i].status # "calling"
          /\ u.phase = "callingMCP"
      BY <2>1, <2>3, <2>5, <2>6, <2>8, <1>1
    <3> QED  BY ONLY Zenon, <3>1, <2>6 DEF Shape
  <2>11. Charged(u, steps + 1)
    <3>1. steps <= 2 + 4 * L + 3 * r + k /\ r = s.round - 1  BY Zenon, <1>1 DEF Charged
    <3>2. r < MaxRemoteRounds /\ k + m <= MaxRemoteCalls  BY Zenon, <1>4 DEF withinBudget
    <3>3. /\ steps + 1 <= 4 * L + 3 * (r + 1) + (k + m) - m + j /\ r + 1 = s.round
          /\ r + 1 <= MaxRemoteRounds
      <4> HIDE DEF L, r, k, m, j
      <4> QED  BY <3>1, <3>2, <2>2, <1>1
    <3> QED  BY Zenon, <3>2, <3>3, <2>3, <2>5, <2>6, <1>1 DEF Charged, Ended
  <2>12. RInv(u, steps + 1)  BY Zenon, <2>5, <2>7, <2>9, <2>10, <2>11, <1>1 DEF RInv
  <2>13. Moved(s, u)  BY <2>5, <1>1, SameCallsReflexive DEF Moved
  <2> QED  BY Zenon, <2>12, <2>13, <1>2, ReducedKeeps DEF Reduced
<1> QED  BY Zenon, <1>2, <1>3, <1>4

LEMMA ToolReturnedStep ==
    ASSUME IInv, NEW returned \in {"ok", "error"}, NEW handle \in 0 .. MaxCandidates,
           NEW prep \in Preparation, reduceToolReturned(returned, handle, prep)
    PROVE  IInv' /\ Moved(s, s')
<1> DEFINE cand == s.batch.cand
           m == s.batch.size
           j == s.batch.next
           t == [s EXCEPT !.batch = NoBatch, !.handle = handle]
           L == input.length
           r == s.mcp.rounds
           k == s.mcp.calls
<1>1. /\ s \in StateRecord /\ Trail(s) /\ Shape(s) /\ Charged(s, steps) /\ steps \in Nat
      /\ input \in Input /\ s.problem # "invariant" /\ s.phase = "callingMCP" /\ s.batch.started
      /\ handle \in {0, cand}
  BY Zenon DEF IInv, RInv, reduceToolReturned
<1>2. PICK u : /\ Reduced(u)
               /\ \/ u = Fail(s, "mcp")
                  \/ j + 1 < m /\ u = [s EXCEPT !.batch.next = j + 1]
                  \/ u = Fail(t, "preparation")
                  \/ ~ (j + 1 < m) /\ u = beginProviderCallAttempt(t, cand, "preferred", prep)
  BY Zenon DEF reduceToolReturned
<1>3. /\ s.mcp \in Run /\ s.batch \in Batch /\ cand = Last(s).cand /\ j < m
      /\ Last(s).status = "handoffReady" /\ Last(s).round < s.round /\ s.attempts # << >>
      /\ \A i \in DOMAIN s.attempts : s.attempts[i].status # "calling"
  BY Zenon, <1>1 DEF Shape
<1>4. /\ r \in Nat /\ k \in Nat /\ L \in Nat /\ s.round \in Nat /\ m \in Nat /\ j \in Nat
  BY Zenon, <1>1, <1>3, RunFacts, RouteFacts DEF Batch
<1>5. /\ steps <= 4 * L + 3 * r + k - m + j /\ r = s.round
      /\ r <= MaxRemoteRounds /\ k <= MaxRemoteCalls
  BY Zenon, <1>1 DEF Charged
<1>6. /\ t \in StateRecord /\ t.attempts = s.attempts /\ t.round = s.round /\ t.mcp = s.mcp
      /\ t.problem = s.problem /\ t.handle = handle
  BY Zenon, <1>1 DEF StateRecord
<1> HIDE DEF t
<1>7. CASE u = Fail(s, "mcp") \/ u = Fail(t, "preparation")
  <2>1. Stopped(s, u)  BY Zenon, <1>1, <1>6, <1>7, FailStops
  <2>2. RInv(u, steps + 1) /\ Moved(s, u)  BY Zenon, <2>1, <1>1, Halt
  <2> QED  BY Zenon, <2>2, <1>2, ReducedKeeps DEF Reduced
<1>8. CASE j + 1 < m /\ u = [s EXCEPT !.batch.next = j + 1]
  <2> DEFINE batch == [s.batch EXCEPT !.next = j + 1]
  <2>1. /\ batch \in Batch /\ batch.cand = cand /\ batch.size = m /\ batch.next = j + 1
        /\ batch.started
    BY <1>1, <1>3, <1>4 DEF Batch
  <2>2. u = [s EXCEPT !.batch = batch]  BY Zenon, <1>1, <1>3, <1>8 DEF StateRecord, Batch
  <2> HIDE DEF batch
  <2>3. /\ u \in StateRecord /\ u.batch = batch /\ u.mcp = s.mcp /\ u.phase = s.phase
        /\ u.problem = s.problem /\ u.attempts = s.attempts /\ u.round = s.round
    BY Zenon, <1>1, <2>1, <2>2 DEF StateRecord
  <2>4. Last(u) = Last(s) /\ Count(u) = Count(s)  BY Zenon, <2>3 DEF Last, Count
  <2>5. Trail(u)  BY Zenon, <2>3, <2>4, <1>1 DEF Trail
  <2>6. Shape(u)
    <3>1. /\ u.mcp \in Run /\ u.batch \in Batch /\ u.batch.cand = Last(u).cand
          /\ u.batch.next < u.batch.size
          /\ Last(u).status = "handoffReady" /\ Last(u).round < u.round /\ u.attempts # << >>
          /\ \A i \in DOMAIN u.attempts : u.attempts[i].status # "calling"
          /\ u.phase = "callingMCP"
      BY <2>1, <2>3, <2>4, <1>1, <1>3, <1>8
    <3> QED  BY ONLY Zenon, <3>1 DEF Shape
  <2>7. steps + 1 <= 4 * L + 3 * r + k - m + (j + 1)
    <3> HIDE DEF L, r, k, m, j
    <3> QED  BY <1>1, <1>4, <1>5
  <2>8. Charged(u, steps + 1)  BY <2>1, <2>3, <2>7, <1>1, <1>5 DEF Charged, Ended
  <2>9. RInv(u, steps + 1)  BY <2>3, <2>5, <2>6, <2>8, <1>1 DEF RInv
  <2>10. Moved(s, u)  BY <2>3, <1>1, SameCallsReflexive DEF Moved
  <2> QED  BY Zenon, <2>9, <2>10, <1>2, ReducedKeeps DEF Reduced
<1>9. CASE ~ (j + 1 < m) /\ u = beginProviderCallAttempt(t, cand, "preferred", prep)
  <2>1. cand \in Route \ input.backoff /\ cand \in Nat /\ Last(s).round \in Nat
    BY Zenon, <1>1, <1>3, AttemptFacts
  <2>2. Last(t) = Last(s) /\ Count(t) = Count(s)  BY Zenon, <1>6 DEF Last, Count
  <2>3. \A i \in DOMAIN s.attempts : s.attempts[i].round < s.round
    <3>1. \A i \in DOMAIN s.attempts : s.attempts[i].round \in Nat /\ s.attempts[i].round <= Last(s).round
      <4>1. \A i \in DOMAIN s.attempts :
               /\ i = Len(s.attempts) \/ (i < Len(s.attempts) /\ Len(s.attempts) \in DOMAIN s.attempts)
               /\ s.attempts[i].round \in Nat
        BY <1>1, AttemptFacts
      <4> QED  BY <4>1, <1>1, <2>1 DEF Trail, Last
    <3> QED  BY <3>1, <2>1, <1>3, <1>4
  <2>4. Trail(t)  BY Zenon, <1>1, <1>6, <2>2 DEF Trail
  <2>5. Quiet(t)  BY Zenon, <2>3, <2>4, <1>3, <1>6 DEF Quiet
  <2>6. Legal(t, cand, "preferred")
    <3>1. \A i \in DOMAIN t.attempts : ~ Same(t.attempts[i], cand, t.round)
      <4>1. \A i \in DOMAIN s.attempts : s.attempts[i].round \in Nat  BY Zenon, <1>1, AttemptFacts
      <4> QED  BY <2>3, <4>1, <1>4, <1>6 DEF Same
    <3>2. t.handle <= cand  BY <1>1, <1>6, <2>1
    <3>3. Last(t).cand <= cand  BY <2>1, <2>2, <1>3
    <3> QED  BY Zenon, <3>1, <3>2, <3>3, <2>1 DEF Legal
  <2>7. Issued(t, u, cand, "preferred")  BY <1>1, <1>6, <1>9, <2>4, <2>6, Begin
  <2>8. u \in StateRecord /\ Trail(u) /\ Shape(u)  BY <1>1, <1>6, <2>5, <2>6, <2>7, IssuedKeeps
  <2>9. u.phase = "calling" /\ u.problem = s.problem /\ u.round = s.round /\ u.mcp = s.mcp
    BY Zenon, <2>7, <1>6 DEF Issued
  <2>10. s.round > 0  BY <1>3, <1>4, <2>1
  <2>11. steps + 1 <= 4 * L + 3 * r + k + (IF Last(u).native THEN 0 ELSE 1)
    <3> DEFINE b == IF Last(u).native THEN 0 ELSE 1
    <3>1. b \in {0, 1}  BY Zenon
    <3> HIDE DEF L, r, k, m, j, b
    <3>2. j < m  BY Zenon, <1>3
    <3>3. steps + 1 <= 4 * L + 3 * r + k  BY <1>1, <1>4, <1>5, <3>2
    <3>4. steps + 1 <= 4 * L + 3 * r + k + b  BY <1>1, <1>4, <3>1, <3>3
    <3> QED  BY Zenon, <3>4 DEF b
  <2>12. Charged(u, steps + 1)  BY <2>9, <2>10, <2>11, <1>5 DEF Charged, Ended
  <2>13. RInv(u, steps + 1)  BY Zenon, <2>8, <2>9, <2>12, <1>1 DEF RInv
  <2>14. SameCalls(s, t)  BY Zenon, <1>6, SameCallsReflexive
  <2>15. "preferred" \in Choice /\ cand = Last(t).cand  BY Zenon, <1>3, <2>2 DEF Choice
  <2>16. Moved(s, u)  BY <1>6, <2>1, <2>5, <2>6, <2>7, <2>14, <2>15 DEF Moved
  <2> QED  BY Zenon, <2>13, <2>16, <1>2, ReducedKeeps DEF Reduced
<1> QED  BY <1>2, <1>7, <1>8, <1>9

LEMMA NextKeeps ==
    ASSUME IInv, Next
    PROVE  IInv' /\ Moved(s, s')
<1>1. CASE \E accepted \in BOOLEAN :
             \/ \E reference \in {"none", "empty", "explicit", "rebased"} :
                   reduceStarting(reference, accepted)
             \/ \E loaded \in {"error", "miss", "found"} :
                   reduceLoadingCheckpoint(loaded, accepted)
  BY Zenon, <1>1, StartingStep, LoadingStep
<1>2. CASE reduceBatchStarted  BY Zenon, <1>2, BatchStartedStep
<1>3. CASE \E calls \in 0 .. MaxBatch, handoff \in {"ok", "error"} : reduceIngress(calls, handoff)
  BY Zenon, <1>3, IngressStep
<1>4. ASSUME NEW prep \in Preparation,
             \/ \E opened \in {"error", "noSource", "uncallable", "callable"},
                   finalized \in BOOLEAN, handle \in 0 .. MaxCandidates :
                   reducePreparingMCP(opened, finalized, handle, prep)
             \/ \E f \in Failure : reduceProviderFailure(f, prep)
             \/ \E cause \in IngressCause : reduceUnusableIngress(cause, prep)
             \/ \E changed \in BOOLEAN : reduceResolvingTargetFacts(changed, prep)
             \/ \E returned \in {"ok", "error"}, handle \in 0 .. MaxCandidates :
                   reduceToolReturned(returned, handle, prep)
      PROVE  IInv' /\ Moved(s, s')
  <2>1. CASE \E opened \in {"error", "noSource", "uncallable", "callable"},
                finalized \in BOOLEAN, handle \in 0 .. MaxCandidates :
                reducePreparingMCP(opened, finalized, handle, prep)
    BY Zenon, <2>1, PreparingStep
  <2>2. CASE \E f \in Failure : reduceProviderFailure(f, prep)  BY Zenon, <2>2, ProviderFailureStep
  <2>3. CASE \E cause \in IngressCause : reduceUnusableIngress(cause, prep)
    BY Zenon, <2>3, UnusableIngressStep
  <2>4. CASE \E changed \in BOOLEAN : reduceResolvingTargetFacts(changed, prep)
    BY Zenon, <2>4, ResolvingStep
  <2>5. CASE \E returned \in {"ok", "error"}, handle \in 0 .. MaxCandidates :
                reduceToolReturned(returned, handle, prep)
    BY Zenon, <2>5, ToolReturnedStep
  <2> QED  BY <1>4, <2>1, <2>2, <2>3, <2>4, <2>5
<1> QED  BY Zenon, <1>1, <1>2, <1>3, <1>4 DEF Next

LEMMA InitHolds == Init => IInv
<1> SUFFICES ASSUME Init PROVE IInv  BY Zenon
<1>1. /\ s.phase = "starting" /\ s.problem = "none" /\ s.attempts = << >> /\ s.round = 0
      /\ s.mcp = NoRun /\ steps = 0
  BY Zenon DEF Init
<1>2. s \in StateRecord  BY ExchangeAssumption DEF Init, StateRecord
<1>3. Trail(s)  BY <1>1 DEF Trail
<1>4. Shape(s)  BY <1>1 DEF Shape
<1>5. Charged(s, steps)
  <2>1. s.mcp.rounds = 0 /\ s.mcp.calls = 0  BY <1>1 DEF NoRun
  <2> QED  BY <1>1, <2>1, ExchangeAssumption DEF Charged, Ended
<1>6. AdoptedRunClosed  BY Zenon, <1>1 DEF AdoptedRunClosed, Ended
<1>7. input \in Input /\ input.backoff \subseteq Route /\ sessions = "none"  BY Zenon DEF Init, Route
<1> QED  BY <1>1, <1>2, <1>3, <1>4, <1>5, <1>6, <1>7 DEF IInv, RInv

LEMMA StutterKeeps == IInv /\ UNCHANGED vars => IInv'
<1> SUFFICES ASSUME IInv, UNCHANGED vars PROVE IInv'  BY Zenon
<1>1. input' = input /\ s' = s /\ sessions' = sessions /\ steps' = steps  BY Zenon DEF vars
<1>2. RInv(s, steps)'
  <2>1. Trail(s)' <=> Trail(s)  BY Zenon, <1>1 DEF Trail, Route
  <2>2. Charged(s, steps)' <=> Charged(s, steps)  BY <1>1 DEF Charged
  <2>3. s \in StateRecord /\ s.problem # "invariant" /\ Trail(s) /\ Shape(s) /\ Charged(s, steps)
    BY Zenon DEF IInv, RInv
  <2> QED  BY Zenon, <1>1, <2>1, <2>2, <2>3 DEF RInv
<1>3. AdoptedRunClosed'  BY Zenon, <1>1 DEF IInv, AdoptedRunClosed
<1> QED  BY Zenon, <1>1, <1>2, <1>3 DEF IInv, Route

LEMMA Invariance == Spec => []IInv
<1>1. IInv /\ [Next]_vars => IInv'  BY Zenon, NextKeeps, StutterKeeps
<1> QED  BY InitHolds, <1>1, PTL DEF Spec

LEMMA InvariantSuffices == IInv => ReducerInv /\ EndsAccounted
<1> SUFFICES ASSUME IInv PROVE ReducerInv /\ EndsAccounted  BY Zenon
<1>1. /\ s \in StateRecord /\ Trail(s) /\ Shape(s) /\ Charged(s, steps) /\ steps \in Nat
      /\ input \in Input /\ s.problem # "invariant" /\ AdoptedRunClosed
  BY Zenon DEF IInv, RInv
<1>2. TypeOK  BY Zenon, <1>1 DEF TypeOK, IInv
<1>3. AttemptsSettled
  <2>1. ASSUME NEW i \in DOMAIN s.attempts, NEW j \in DOMAIN s.attempts,
               s.attempts[i].status = "handoffReady", j > i
        PROVE  s.attempts[j].round > s.attempts[i].round
    <3>1. i < j  BY Zenon, <2>1, <1>1, AttemptFacts
    <3>2. s.attempts[i].round < s.attempts[j].round  BY Zenon, <2>1, <3>1, <1>1 DEF Trail
    <3> QED  BY Zenon, <3>2, <1>1, AttemptFacts
  <2> QED  BY Zenon, <2>1, <1>1 DEF Shape, AttemptsSettled
<1>4. TransitionsBounded
  <2> DEFINE L == input.length
             r == s.mcp.rounds
             k == s.mcp.calls
  <2>1. r \in Nat /\ k \in Nat /\ L \in Nat /\ s.round \in Nat  BY Zenon, <1>1, RunFacts, RouteFacts
  <2>2. r <= MaxRemoteRounds /\ k <= MaxRemoteCalls  BY Zenon, <1>1 DEF Charged
  <2>3. steps <= 4 + 4 * L + 3 * r + k
    <3>1. CASE s.phase \in {"starting", "loadingExplicit", "loadingRebased", "preparingMCP"}
      <4>1. steps <= 2  BY <3>1, <1>1 DEF Charged
      <4> HIDE DEF L, r, k
      <4> QED  BY <4>1, <1>1, <2>1
    <3>2. CASE s.phase = "calling"
      <4>1. steps + 1 <= 2 + 4 * L + 3 * r + k  BY Zenon, <3>2, CallingBound
      <4> HIDE DEF L, r, k
      <4> QED  BY <4>1, <1>1, <2>1
    <3>3. CASE s.phase = "resolving"
      <4> DEFINE c == Last(s).cand
                 m == Count(s)
      <4>1. c \in Nat /\ c <= L /\ m \in 1 .. 2  BY Zenon, <3>3, <1>1, AttemptFacts DEF Shape
      <4>2. steps <= 4 * c + 2 * m - 2  BY Zenon, <3>3, <1>1 DEF Charged
      <4> HIDE DEF L, r, k, c, m
      <4> QED  BY <4>1, <4>2, <1>1, <2>1
    <3>4. CASE s.phase = "callingMCP"
      <4> DEFINE m == s.batch.size
                 j == s.batch.next
      <4>1. m \in Nat /\ j \in Nat /\ j < m  BY Zenon, <3>4, <1>1 DEF Shape, Batch
      <4>2. \/ steps <= 2 + 4 * L + 3 * r + k
            \/ steps <= 4 * L + 3 * r + k - m + j
        BY Zenon, <3>4, <1>1 DEF Charged
      <4> HIDE DEF L, r, k, m, j
      <4> QED  BY <4>1, <4>2, <1>1, <2>1
    <3>5. CASE s.phase \in {"completed", "failed"}  BY Zenon, <3>5, <1>1 DEF Charged, Ended
    <3> QED  BY <3>1, <3>2, <3>3, <3>4, <3>5, <1>1 DEF StateRecord
  <2> QED  BY Zenon, <2>2, <2>3 DEF TransitionsBounded
<1>5. DuplicateExecutionReported
  <2> SUFFICES ASSUME ~ summarizeRoutingEvidence.possibleDuplicateExecution,
                      NEW i \in DOMAIN s.attempts, NEW j \in DOMAIN s.attempts,
                      mayHaveExecuted(s.attempts[i]), mayHaveExecuted(s.attempts[j]),
                      s.attempts[i].round = s.attempts[j].round
               PROVE  i = j
    BY Zenon DEF DuplicateExecutionReported
  <2>1. \A l \in 1 .. Len(s.attempts) - 1 : s.attempts[l].failure.exec # "mayHaveOccurred"
    BY Zenon DEF summarizeRoutingEvidence
  <2>2. ASSUME NEW a \in DOMAIN s.attempts, NEW b \in DOMAIN s.attempts, a < b,
               mayHaveExecuted(s.attempts[a])
        PROVE  s.attempts[a].round < s.attempts[b].round
    <3>1. a \in 1 .. Len(s.attempts) - 1  BY <2>2, <1>1, AttemptFacts
    <3>2. s.attempts[a].status = "handoffReady"  BY Zenon, <2>1, <2>2, <3>1 DEF mayHaveExecuted
    <3> QED  BY Zenon, <2>2, <3>2, <1>1 DEF Trail
  <2>3. s.attempts[i].round \in Nat /\ i \in Nat /\ j \in Nat  BY <1>1, AttemptFacts
  <2>4. ~ (i < j) /\ ~ (j < i)  BY <2>2, <2>3
  <2> QED  BY <2>3, <2>4
<1> QED  BY Zenon, <1>1, <1>2, <1>3, <1>4, <1>5 DEF ReducerInv, OperationsNeverRepeat, EndsAccounted

-----------------------------------------------------------------------------
\* In every state the reducer's loop can reach, no provider operation was
\* issued twice, at most the last call is outstanding, an exchange completed
\* with the last call of its last round, and the reductions are bounded by
\* the route and the budget spent: for every route, budget and failure.
THEOREM ReducerCorrect == Spec => []ReducerInv
BY Invariance, InvariantSuffices, PTL

\* However an exchange ends, its evidence reports two calls that may both have
\* executed for one answer, and the MCP Run its state owned is closed.
THEOREM EndsAreAccounted == Spec => []EndsAccounted
BY Invariance, InvariantSuffices, PTL

-----------------------------------------------------------------------------
\* FallbackJustified of the state t
Justified(t) ==
    \A i \in 1 .. Len(t.attempts) - 1 :
        t.attempts[i + 1].cand # t.attempts[i].cand =>
            /\ t.attempts[i].failure.cause \in {"unavailable", "rejected", "refInvalid"}
            /\ t.attempts[i].round = 0

LEMMA SameCallsJustified ==
    ASSUME NEW t \in StateRecord, NEW u \in StateRecord, SameCalls(t, u), Justified(t)
    PROVE  Justified(u)
<1> DEFINE q == t.attempts
           p == u.attempts
<1>1. p \in Seq(Attempt) /\ Len(p) \in Nat /\ DOMAIN p = 1 .. Len(p) /\ Len(p) = Len(q)
  BY DEF StateRecord, SameCalls
<1>2. \A i \in 1 .. Len(p) : p[i].cand = q[i].cand /\ (i = Len(q) \/ p[i] = q[i])
  BY Zenon, <1>1 DEF SameCalls, Same
<1>3. \A i \in 1 .. Len(p) - 1 : i \in 1 .. Len(p) /\ i + 1 \in 1 .. Len(p) /\ i # Len(q)
  BY <1>1
<1> HIDE DEF p, q
<1>4. \A i \in 1 .. Len(p) - 1 : p[i] = q[i] /\ p[i + 1].cand = q[i + 1].cand  BY Zenon, <1>2, <1>3
<1>5. Len(p) - 1 = Len(q) - 1  BY Zenon, <1>1
<1> QED  BY Zenon, <1>4, <1>5 DEF Justified, p, q

LEMMA MovedJustified ==
    ASSUME "unavailable" \notin Prepared, NEW t \in StateRecord, NEW u \in StateRecord,
           Justified(t), Moved(t, u)
    PROVE  Justified(u)
<1>1. CASE SameCalls(t, u)  BY Zenon, <1>1, SameCallsJustified
<1>2. ASSUME NEW v \in StateRecord, NEW c \in Nat, NEW ch \in Choice,
             SameCalls(t, v), Issued(v, u, c, ch),
             v.attempts # << >> /\ c # Last(v).cand =>
                 /\ Last(v).round = 0
                 /\ providerFailureAdvancesCandidate(Last(v).failure)
      PROVE  Justified(u)
  <2> DEFINE q == v.attempts
             n == Len(q)
  <2>1. PICK a \in Attempt : u.attempts = Append(q, a) /\ a.cand = c  BY Zenon, <1>2 DEF Issued, Same
  <2> DEFINE p == Append(q, a)
  <2>2. q \in Seq(Attempt) /\ n \in Nat  BY DEF StateRecord
  <2>3. /\ Len(p) = n + 1 /\ p[n + 1] = a
        /\ \A i \in 1 .. n : p[i] = q[i]
    BY <2>2
  <2>4. Justified(v)  BY Zenon, <1>2, SameCallsJustified
  <2>5. ASSUME NEW i \in 1 .. Len(p) - 1, p[i + 1].cand # p[i].cand
        PROVE  p[i].failure.cause \in {"unavailable", "rejected", "refInvalid"} /\ p[i].round = 0
    <3>1. p[i] = q[i] /\ i \in 1 .. n  BY <2>2, <2>3
    <3>2. CASE i = n
      <4>1. p[i] = Last(v) /\ q # << >> /\ c # Last(v).cand  BY <2>1, <2>2, <2>3, <2>5, <3>1, <3>2 DEF Last
      <4> QED  BY Zenon, <1>2, <4>1 DEF providerFailureAdvancesCandidate, Rejected
    <3>3. CASE i # n
      <4>1. i \in 1 .. n - 1 /\ i + 1 \in 1 .. n  BY <2>2, <3>1, <3>3
      <4> QED  BY <2>3, <2>4, <2>5, <3>1, <4>1 DEF Justified
    <3> QED  BY Zenon, <3>2, <3>3
  <2> HIDE DEF p
  <2> QED  BY Zenon, <2>1, <2>5 DEF Justified, p
<1> QED  BY Zenon, <1>1, <1>2 DEF Moved

\* The exchange only moves to another candidate after a failure that allows it,
\* and never once a tool round began: for every route and every failure.  No
\* codec and no resolver reports a candidate unavailable while it is being
\* prepared, hence the assumption.
THEOREM FallbackIsJustified ==
    ASSUME "unavailable" \notin Prepared
    PROVE  Spec => []FallbackJustified
<1>1. Init => Justified(s)  BY DEF Init, Justified
<1>2. IInv /\ IInv' /\ Justified(s) /\ [Next]_vars => Justified(s)'
  <2> SUFFICES ASSUME IInv, IInv', Justified(s), [Next]_vars PROVE Justified(s')
    BY Zenon DEF Justified
  <2>1. s \in StateRecord /\ s' \in StateRecord  BY Zenon DEF IInv, RInv, StateRecord
  <2>2. CASE Next  BY <2>1, <2>2, NextKeeps, MovedJustified
  <2>3. CASE UNCHANGED vars  BY Zenon, <2>3 DEF vars
  <2> QED  BY Zenon, <2>2, <2>3
<1>3. Justified(s) => FallbackJustified  BY Zenon DEF Justified, FallbackJustified
<1> QED  BY Invariance, <1>1, <1>2, <1>3, PTL DEF Spec

-----------------------------------------------------------------------------
\* The refinement

LEMMA SameCallsCounts ==
    ASSUME input \in Input, NEW t \in StateRecord, NEW u \in StateRecord, Trail(t), SameCalls(t, u)
    PROVE  /\ u.attempts = << >> <=> t.attempts = << >>
           /\ t.attempts # << >> => Last(u).cand = Last(t).cand /\ Last(u).round = Last(t).round
           /\ \A c, r : candidateRoundDispatchCount(u.attempts, c, r) = candidateRoundDispatchCount(t.attempts, c, r)
<1> DEFINE q == t.attempts
           p == u.attempts
<1>1. /\ p \in Seq(Attempt) /\ DOMAIN p = 1 .. Len(p) /\ Len(p) = Len(q) /\ Len(p) \in Nat
      /\ q \in Seq(Attempt)
  BY DEF StateRecord, SameCalls
<1>2. \A i \in 1 .. Len(p) : p[i].cand = q[i].cand /\ p[i].round = q[i].round
  BY Zenon, <1>1 DEF SameCalls, Same
<1>3. p = << >> <=> q = << >>  BY <1>1
<1>4. q # << >> => Len(p) \in 1 .. Len(p)  BY <1>1
<1>5. \A c, r : candidateRoundDispatchCount(p, c, r) = candidateRoundDispatchCount(q, c, r)
  BY Zenon, <1>1, <1>2, CountSame
<1> QED  BY <1>1, <1>2, <1>3, <1>4, <1>5 DEF Last

LEMMA RunningStep == Next => ~ Ended(s) /\ input' = input
<1> SUFFICES ASSUME Next PROVE s.phase \notin {"completed", "failed"} /\ input' = input
  BY Zenon DEF Ended
<1>1. ASSUME NEW reference, NEW accepted, reduceStarting(reference, accepted)
      PROVE  s.phase = "starting" /\ input' = input
  BY Zenon, <1>1 DEF reduceStarting, Reduced
<1>2. ASSUME NEW loaded, NEW accepted, reduceLoadingCheckpoint(loaded, accepted)
      PROVE  s.phase \in {"loadingExplicit", "loadingRebased"} /\ input' = input
  BY Zenon, <1>2 DEF reduceLoadingCheckpoint, Reduced
<1>3. reduceBatchStarted => s.phase = "callingMCP" /\ input' = input  BY Zenon DEF reduceBatchStarted, Reduced
<1>4. ASSUME NEW calls, NEW handoff, reduceIngress(calls, handoff)  PROVE s.phase = "calling" /\ input' = input
  BY Zenon, <1>4 DEF reduceIngress, Reduced
<1>5. ASSUME NEW opened, NEW finalized, NEW handle, NEW prep,
             reducePreparingMCP(opened, finalized, handle, prep)
      PROVE  s.phase = "preparingMCP" /\ input' = input
  BY Zenon, <1>5 DEF reducePreparingMCP, Reduced
<1>6. ASSUME NEW f, NEW prep, reduceProviderFailure(f, prep)  PROVE s.phase = "calling" /\ input' = input
  BY Zenon, <1>6 DEF reduceProviderFailure, Reduced
<1>7. ASSUME NEW cause, NEW prep, reduceUnusableIngress(cause, prep)  PROVE s.phase = "calling" /\ input' = input
  BY Zenon, <1>7 DEF reduceUnusableIngress, Reduced
<1>8. ASSUME NEW changed, NEW prep, reduceResolvingTargetFacts(changed, prep)
      PROVE  s.phase = "resolving" /\ input' = input
  BY Zenon, <1>8 DEF reduceResolvingTargetFacts, Reduced
<1>9. ASSUME NEW returned, NEW handle, NEW prep, reduceToolReturned(returned, handle, prep)
      PROVE  s.phase = "callingMCP" /\ input' = input
  BY Zenon, <1>9 DEF reduceToolReturned, Reduced
<1>10. s.phase \in {"starting", "loadingExplicit", "loadingRebased", "callingMCP", "calling",
                    "preparingMCP", "resolving"}
       /\ input' = input
  BY <1>1, <1>2, <1>3, <1>4, <1>5, <1>6, <1>7, <1>8, <1>9 DEF Next
<1> QED  BY Zenon, <1>10

\* The variables of RouteRecovery, of the record t
at(t) == IF t.attempts = << >> THEN 0 ELSE Last(t).cand
tries(t) == IF t.attempts = << >> THEN 0
            ELSE candidateRoundDispatchCount(t.attempts, Last(t).cand, t.round)
outcome(t) == CASE t.phase = "completed" -> "answered"
                [] t.phase = "failed" -> "failed"
                [] OTHER -> "running"

LEMMA MovedRecovers ==
    ASSUME "unavailable" \notin Prepared, IInv, IInv', input' = input, ~ Ended(s), Moved(s, s')
    PROVE  \/ \E c \in Candidate : Recovery!Advance(c)
           \/ Recovery!Repeat \/ Recovery!ToolRound \/ Recovery!Answer \/ Recovery!GiveUp
           \/ UNCHANGED Recovery!vars
<1>1. /\ s \in StateRecord /\ Trail(s) /\ Shape(s) /\ input \in Input /\ s.round \in Nat
  BY Zenon DEF IInv, RInv, StateRecord
<1>2. s' \in StateRecord  BY Zenon DEF IInv, RInv, StateRecord
<1>3. (Route \ input.backoff)' = Route \ input.backoff  BY Zenon DEF Route
<1>4. outcome(s) = "running"  BY Zenon DEF outcome, Ended
<1>5. s.attempts # << >> => at(s) = Last(s).cand /\ at(s) \in Route \ input.backoff
  BY Zenon, <1>1, AttemptFacts DEF at
<1>6. s.phase = "calling" => s.attempts # << >> /\ tries(s) \in 1 .. 2
  <2>1. s.phase = "calling" => s.attempts # << >> /\ Last(s).round = s.round  BY Zenon, <1>1 DEF Shape
  <2> QED  BY Zenon, <2>1, <1>1, AttemptFacts DEF tries, Count
<1>7. CASE SameCalls(s, s') /\ s'.round = s.round /\ (s'.phase = "completed" => s.phase = "calling")
  <2>1. at(s') = at(s) /\ tries(s') = tries(s)
    BY <1>1, <1>2, <1>7, SameCallsCounts DEF at, tries
  <2>2. CASE s'.phase = "completed"
    <3>1. outcome(s') = "answered"  BY Zenon, <2>2 DEF outcome
    <3>2. tries(s) > 0  BY <2>2, <1>6, <1>7
    <3>3. Recovery!Answer  BY Zenon, <2>1, <3>1, <3>2, <1>3, <1>4, <1>7 DEF Recovery!Answer, at, tries, outcome
    <3> QED  BY Zenon, <3>3
  <2>3. CASE s'.phase = "failed"
    <3>1. outcome(s') = "failed"  BY Zenon, <2>3 DEF outcome
    <3>2. Recovery!GiveUp  BY Zenon, <2>1, <3>1, <1>3, <1>4, <1>7 DEF Recovery!GiveUp, at, tries, outcome
    <3> QED  BY Zenon, <3>2
  <2>4. CASE s'.phase \notin {"completed", "failed"}
    <3>1. outcome(s') = "running"  BY Zenon, <2>4 DEF outcome
    <3>2. UNCHANGED Recovery!vars  BY Zenon, <2>1, <3>1, <1>3, <1>4, <1>7 DEF Recovery!vars, at, tries, outcome
    <3> QED  BY Zenon, <3>2
  <2> QED  BY Zenon, <2>2, <2>3, <2>4
<1>8. CASE SameCalls(s, s') /\ s'.round = s.round + 1 /\ s.phase = "calling" /\ s'.phase = "callingMCP"
  <2>1. at(s') = at(s) /\ s'.attempts # << >> /\ Last(s').cand = Last(s).cand
    BY <1>1, <1>2, <1>6, <1>8, SameCallsCounts DEF at
  <2>2. tries(s') = 0
    <3>1. \A i \in DOMAIN s.attempts : s.attempts[i].round \in Nat /\ s.attempts[i].round <= s.round
      BY Zenon, <1>1, AttemptFacts DEF Trail
    <3>2. \A i \in DOMAIN s.attempts : ~ Same(s.attempts[i], Last(s).cand, s.round + 1)
      BY <3>1, <1>1 DEF Same
    <3>3. candidateRoundDispatchCount(s.attempts, Last(s).cand, s.round + 1) = 0
      BY <3>2, <1>1, CountNone DEF StateRecord
    <3>4. candidateRoundDispatchCount(s'.attempts, Last(s).cand, s.round + 1) = 0
      BY <3>3, <1>1, <1>2, <1>8, SameCallsCounts
    <3> QED  BY Zenon, <2>1, <3>4, <1>8 DEF tries
  <2>3. outcome(s') = "running" /\ tries(s) > 0  BY <1>6, <1>8 DEF outcome
  <2>4. s'.round > 0  BY <1>1, <1>8
  <2>5. at(s) \in Route \ input.backoff  BY Zenon, <1>5, <1>6, <1>8
  <2>6. Recovery!ToolRound
    BY Zenon, <2>1, <2>2, <2>3, <2>4, <2>5, <1>3, <1>4 DEF Recovery!ToolRound, at, tries, outcome
  <2> QED  BY Zenon, <2>6
<1>9. ASSUME NEW v \in StateRecord, NEW c \in Nat, NEW ch \in Choice,
             SameCalls(s, v), v.round = s.round, Quiet(v), Legal(v, c, ch), Issued(v, s', c, ch),
             v.attempts # << >> /\ c # Last(v).cand =>
                 Last(v).round = s.round /\ Last(v).round = 0
      PROVE  (\E d \in Candidate : Recovery!Advance(d)) \/ Recovery!Repeat
  <2>1. PICK u : u = s'  BY Zenon
  <2>2. /\ u.attempts # << >> /\ Last(u).cand = c /\ Count(u) = IF ch = "preferred" THEN 1 ELSE 2
        /\ Shape(u)
    <3>1. input \in Input /\ v \in StateRecord /\ Quiet(v) /\ Legal(v, c, ch) /\ Issued(v, u, c, ch)
      BY Zenon, <1>1, <1>9, <2>1
    <3> QED  BY Zenon, <3>1, IssuedKeeps
  <2>3. u.round = s.round /\ u.phase = "calling" /\ outcome(s') = "running"
    BY Zenon, <1>9, <2>1 DEF Issued, outcome
  <2>4. Last(u).round = u.round  BY Zenon, <2>2, <2>3 DEF Shape
  <2>5. at(s') = c /\ tries(s') = IF ch = "preferred" THEN 1 ELSE 2
    BY ZenonT(60), <2>1, <2>2, <2>4 DEF at, tries, Count
  <2>6. c \in Route \ input.backoff /\ c \in Candidate /\ c > 0
    <3>1. c \in Route \ input.backoff  BY Zenon, <1>9 DEF Legal
    <3>2. Route \subseteq Candidate /\ Candidate \subseteq Nat \ {0}  BY Zenon, <1>1, RouteFacts
    <3>3. c \in Candidate /\ c \in Nat /\ c # 0  BY Zenon, <3>1, <3>2
    <3> QED  BY ONLY <3>1, <3>3
  <2>7. /\ v.attempts = << >> <=> s.attempts = << >>
        /\ s.attempts # << >> => Last(v).cand = Last(s).cand /\ Last(v).round = Last(s).round
        /\ candidateRoundDispatchCount(v.attempts, c, s.round) = candidateRoundDispatchCount(s.attempts, c, s.round)
    <3>1. input \in Input /\ s \in StateRecord /\ v \in StateRecord /\ Trail(s) /\ SameCalls(s, v)
      BY Zenon, <1>1, <1>9
    <3> QED  BY ONLY <3>1, SameCallsCounts
  <2>8. ASSUME s.round = 0, c > at(s), ch = "preferred"  PROVE Recovery!Advance(c)
    BY <2>1, <2>3, <2>5, <2>6, <2>8, <1>3, <1>4 DEF Recovery!Advance, at, tries, outcome
  <2>9. CASE s.attempts = << >>
    <3>1. s.round = 0  BY <2>9, <1>1 DEF Shape
    <3>2. ch = "preferred"  BY Zenon, <2>7, <2>9, <1>9 DEF Legal
    <3>3. c > at(s)  BY <2>6, <2>9 DEF at
    <3> QED  BY ZenonT(60), <2>6, <2>8, <3>1, <3>2, <3>3
  <2>10. CASE s.attempts # << >> /\ c # Last(s).cand
    <3>1. s.round = 0  BY Zenon, <2>7, <2>10, <1>9
    <3>2. ch = "preferred"  BY Zenon, <2>7, <2>10, <1>9 DEF Legal, Same
    <3>3. Last(v).cand <= c  BY Zenon, <2>7, <2>10, <1>9 DEF Legal
    <3>4. Last(s).cand \in Nat  BY <2>10, <1>1, AttemptFacts
    <3>5. Last(s).cand <= c /\ c \in Nat  BY <2>6, <2>7, <2>10, <3>3 DEF Candidate
    <3>6. c > Last(s).cand  BY <2>10, <3>4, <3>5
    <3>7. at(s) = Last(s).cand  BY Zenon, <2>10 DEF at
    <3> QED  BY <2>6, <2>8, <3>1, <3>2, <3>6, <3>7
  <2>11. CASE s.attempts # << >> /\ c = Last(s).cand
    <3> DEFINE q == v.attempts
    <3>1. tries(s) = candidateRoundDispatchCount(q, c, s.round)  BY <2>7, <2>11 DEF tries
    <3>2. q \in Seq(Attempt) /\ q # << >>  BY <1>9, <2>7, <2>11 DEF StateRecord
    <3>3. CASE ch = "preferred"
      <4>1. \A i \in DOMAIN q : ~ Same(q[i], c, s.round)  BY Zenon, <3>3, <1>9 DEF Legal
      <4>2. tries(s) = 0  BY Zenon, <3>1, <3>2, <4>1, CountNone
      <4> QED  BY <4>2, <3>3, <2>1, <2>3, <2>5, <2>6, <2>11, <1>3, <1>4
             DEF Recovery!Repeat, at, tries, outcome
    <3>4. CASE ch # "preferred"
      <4>1. Same(q[Len(q)], c, s.round) /\ Count(v) < 2  BY Zenon, <3>4, <1>9 DEF Legal, Last
      <4>2. candidateRoundDispatchCount(q, c, s.round) < 2  BY Zenon, <4>1 DEF Count, Last, Same
      <4>3. tries(s) = 1  BY Zenon, <3>1, <3>2, <4>1, <4>2, CountOne
      <4> QED  BY <4>3, <3>4, <2>1, <2>3, <2>5, <2>6, <2>11, <1>3, <1>4
             DEF Recovery!Repeat, at, tries, outcome
    <3> QED  BY <3>3, <3>4
  <2> QED  BY Zenon, <2>9, <2>10, <2>11
<1> QED  BY Zenon, <1>7, <1>8, <1>9 DEF Moved

\* What RouteRecovery promises holds of every exchange: candidates in route
\* order, none suppressed, at most two calls of one for an answer, no other
\* once a tool round began.  No codec and no resolver reports a candidate
\* unavailable while it is being prepared, hence the assumption.
THEOREM RecoveryImplemented ==
    ASSUME "unavailable" \notin Prepared
    PROVE  Spec => RefinesRouteRecovery
<1>1. Init => Recovery!Init
  <2> SUFFICES ASSUME Init PROVE Recovery!Init  BY Zenon
  <2>1. s.attempts = << >> /\ s.round = 0 /\ s.phase = "starting"  BY Zenon DEF Init
  <2>2. input \in Input  BY Zenon DEF Init
  <2> QED  BY <2>1, <2>2, RouteFacts DEF Recovery!Init
<1>2. IInv /\ IInv' /\ [Next]_vars => [Recovery!Next]_Recovery!vars
  <2> SUFFICES ASSUME IInv, IInv', [Next]_vars PROVE [Recovery!Next]_Recovery!vars  BY Zenon
  <2>1. CASE Next
    <3>1. Moved(s, s') /\ ~ Ended(s) /\ input' = input  BY Zenon, <2>1, NextKeeps, RunningStep
    <3>3. \/ \E c \in Candidate : Recovery!Advance(c)
          \/ Recovery!Repeat \/ Recovery!ToolRound \/ Recovery!Answer \/ Recovery!GiveUp
          \/ UNCHANGED Recovery!vars
      BY Zenon, <3>1, MovedRecovers
    <3> QED  BY Zenon, <3>3 DEF Recovery!Next
  <2>2. CASE UNCHANGED vars
    <3>1. s' = s /\ input' = input  BY Zenon, <2>2 DEF vars
    <3> QED  BY Zenon, <3>1 DEF Recovery!vars, Route
  <2> QED  BY Zenon, <2>1, <2>2
<1> QED  BY Invariance, <1>1, <1>2, PTL DEF Spec, RefinesRouteRecovery, Recovery!Spec
=============================================================================
