----------------------------- MODULE ClientProofs -----------------------------
(***************************************************************************)
(* The retry budget, the backoff and the hand-over of a shutdown from the  *)
(* session to the reconnect loop, for every limit, backoff and counter     *)
(* width.  The client with its races and negotiations implements the loop  *)
(* with one-step attempts, so what is proved of the loop holds of it.      *)
(***************************************************************************)
EXTENDS ClientConnect, WellFoundedInduction, TLAPS

\* The arithmetic of the loop stays within its types.
LEMMA Arithmetic ==
    /\ 0 \in 0 .. U32Max
    /\ InitialBackoff \in Nat
    /\ \A n \in 0 .. U32Max : saturating_add(n) \in 0 .. U32Max
BY ReconnectAssumption DEF saturating_add

\* The cap of the backoff.
LEMMA CapType == TypeOK => config.max_backoff \in MaxBackoffs /\ config.max_backoff \in Nat
BY ReconnectAssumption DEF TypeOK, Configs

\* The initial values are well-typed.
LEMMA TypeInit == Init => TypeOK
BY Arithmetic DEF Init, TypeOK, Places

\* The client's variables are well-typed; attempt never leaves u32 because
\* run_with_reconnect adds with saturation.
THEOREM TypeCorrect == Spec => []TypeOK
<1>1. Init => TypeOK
  BY TypeInit
<1>2. TypeOK /\ [Next]_vars => TypeOK'
  <2> SUFFICES ASSUME TypeOK, [Next]_vars PROVE TypeOK'
    OBVIOUS
  <2> USE DEF TypeOK, Places
  <2>1. CASE Interrupt
    BY <2>1 DEF Interrupt, Broadcast, OuterSubscribed, InnerSubscribed
  <2>2. CASE StdioEnds
    BY <2>2 DEF StdioEnds, Broadcast, OuterSubscribed, InnerSubscribed
  <2>3. CASE StdioAborted \/ LinkDies
    BY <2>3 DEF StdioAborted, LinkDies
  <2>4. CASE Subscribe \/ Connected \/ ConnectFails
    BY <2>4, Arithmetic DEF Subscribe, Connected, ConnectFails
  <2>5. CASE HelloAccepted \/ HelloFails \/ SubscribeSession
    BY <2>5 DEF HelloAccepted, HelloFails, SubscribeSession
  <2>6. CASE SessionShutdown \/ SessionLost \/ LoopShutdown
    BY <2>6 DEF SessionShutdown, SessionLost, LoopShutdown
  <2>7. CASE Retry
    BY <2>7, Arithmetic DEF Retry
  <2>8. CASE SleepEnds
    <3>1. next_backoff(backoff) \in Nat
      BY CapType DEF next_backoff
    <3> QED
      BY <2>8, <3>1, Arithmetic DEF SleepEnds
  <2>9. CASE Terminated \/ UNCHANGED vars
    BY <2>9 DEF Terminated, vars
  <2> QED
    BY <2>1, <2>2, <2>3, <2>4, <2>5, <2>6, <2>7, <2>8, <2>9 DEF Next
<1> QED
  BY <1>1, <1>2, PTL DEF Spec

-----------------------------------------------------------------------------
(* attempt counts the failed rounds of a streak, redials the reconnects:   *)
(* they agree while a round is under way and attempt is one ahead between  *)
(* the failure of a round and the end of its sleep.  A limited client      *)
(* never gets near the saturation of attempt.                              *)

Streak ==
    Limited =>
        /\ pc \notin {"sleeping", "gave_up", "stopped"} =>
              attempt = redials /\ redials <= config.max_retries
        /\ pc = "sleeping" => attempt = redials + 1 /\ redials < config.max_retries
        /\ pc = "gave_up" => redials = config.max_retries
        /\ pc = "stopped" => redials <= config.max_retries

\* A session's receiver holds a message only during the session.
Receivers == inner => outer /\ pc = "session"

\* The limit of a limited client lies below the width of its counter.
LEMMA LimitBelowWidth ==
    TypeOK /\ Limited => config.max_retries \in Nat /\ config.max_retries < U32Max
<1> SUFFICES ASSUME config \in Configs, config.max_retries # NoLimit
             PROVE  config.max_retries \in Nat /\ config.max_retries < U32Max
  BY DEF TypeOK, Limited
<1>1. config.max_retries \in RetryLimits
  BY DEF Configs
<1>2. config.max_retries \in 0 .. (U32Max - 1)
  BY <1>1, ReconnectAssumption
<1> QED
  BY <1>2, ReconnectAssumption

\* The configuration is fixed.
LEMMA ConfigFixed == [Next]_vars => config' = config
BY DEF Next, vars, Interrupt, StdioEnds, StdioAborted, LinkDies, Subscribe,
       Connected, ConnectFails, HelloAccepted, HelloFails, SubscribeSession,
       SessionShutdown, SessionLost, Retry, SleepEnds, LoopShutdown, Terminated

\* Every step keeps the counters of a streak in step.
LEMMA StreakInductive == TypeOK /\ Streak /\ [Next]_vars => Streak'
<1> SUFFICES ASSUME TypeOK, Streak, [Next]_vars, Limited' PROVE Streak'
  BY DEF Streak
<1>0. config' = config
  BY ConfigFixed
<1>1. Limited
  BY <1>0 DEF Limited
<1>2. config.max_retries \in Nat /\ config.max_retries < U32Max
  BY <1>1, LimitBelowWidth
<1> DEFINE M == config.max_retries
           Counted(p, a, r) ==
              /\ p \notin {"sleeping", "gave_up", "stopped"} => a = r /\ r <= M
              /\ p = "sleeping" => a = r + 1 /\ r < M
              /\ p = "gave_up" => r = M
              /\ p = "stopped" => r <= M
<1>3. Counted(pc, attempt, redials)
  BY <1>1 DEF Streak
<1>4. pc \in Places /\ attempt \in Nat /\ redials \in Nat /\ U32Max \in Nat
  BY ReconnectAssumption DEF TypeOK
<1> SUFFICES Counted(pc', attempt', redials')
  BY <1>0, <1>1 DEF Streak
<1> HIDE DEF M
<1> USE <1>2, <1>3, <1>4 DEF Places
<1>5. CASE Interrupt \/ StdioEnds \/ StdioAborted \/ LinkDies
  BY <1>5 DEF Interrupt, StdioEnds, StdioAborted, LinkDies
<1>6. CASE Subscribe \/ Connected \/ ConnectFails
  BY <1>6 DEF Subscribe, Connected, ConnectFails, M
<1>7. CASE HelloAccepted \/ HelloFails \/ SubscribeSession
  BY <1>7 DEF HelloAccepted, HelloFails, SubscribeSession
<1>8. CASE SessionShutdown \/ SessionLost \/ LoopShutdown
  BY <1>8 DEF SessionShutdown, SessionLost, LoopShutdown, M
<1>9. CASE Retry
  BY <1>9, <1>1 DEF Retry, saturating_add, M
<1>10. CASE SleepEnds
  BY <1>10 DEF SleepEnds, saturating_add, M
<1>11. CASE Terminated \/ UNCHANGED vars
  BY <1>11 DEF Terminated, vars
<1> QED
  BY <1>5, <1>6, <1>7, <1>8, <1>9, <1>10, <1>11 DEF Next

\* A limited client makes exactly max_retries reconnect attempts before it
\* gives up, and never more (run_with_reconnect).
THEOREM RetriesCountedAlways == Spec => []RetriesCounted
<1>1. Init => Streak
  BY TypeInit, LimitBelowWidth DEF Init, Streak
<1>2. TypeOK /\ Streak => RetriesCounted
  BY LimitBelowWidth DEF TypeOK, Places, Streak, RetriesCounted
<1> QED
  BY <1>1, <1>2, TypeCorrect, StreakInductive, PTL DEF Spec

\* Every step keeps the two receivers in step.
LEMMA ReceiversInductive == TypeOK /\ Receivers /\ [Next]_vars => Receivers'
<1> SUFFICES ASSUME TypeOK, Receivers, [Next]_vars PROVE Receivers'
  OBVIOUS
<1> USE DEF TypeOK, Places, Receivers
<1>1. CASE Interrupt \/ StdioEnds
  BY <1>1 DEF Interrupt, StdioEnds, Broadcast, OuterSubscribed, InnerSubscribed,
              Exited
<1>2. CASE StdioAborted \/ LinkDies
  BY <1>2 DEF StdioAborted, LinkDies
<1>3. CASE Subscribe \/ Connected \/ ConnectFails
  BY <1>3 DEF Subscribe, Connected, ConnectFails
<1>4. CASE HelloAccepted \/ HelloFails \/ SubscribeSession
  BY <1>4 DEF HelloAccepted, HelloFails, SubscribeSession
<1>5. CASE SessionShutdown \/ SessionLost \/ LoopShutdown
  BY <1>5 DEF SessionShutdown, SessionLost, LoopShutdown
<1>6. CASE Retry \/ SleepEnds
  BY <1>6 DEF Retry, SleepEnds
<1>7. CASE Terminated \/ UNCHANGED vars
  BY <1>7 DEF Terminated, vars
<1> QED
  BY <1>1, <1>2, <1>3, <1>4, <1>5, <1>6, <1>7 DEF Next

\* A shutdown that loses the session's select! is still pending in the loop.
THEOREM LoopSeesSessionShutdownAlways == Spec => []LoopSeesSessionShutdown
<1>1. Init => Receivers
  BY DEF Init, Receivers
<1>2. Receivers => LoopSeesSessionShutdown
  BY DEF Receivers, LoopSeesSessionShutdown
<1> QED
  BY <1>1, <1>2, TypeCorrect, ReceiversInductive, PTL DEF Spec

-----------------------------------------------------------------------------
(* The doubled backoff.  That its recursive definition has a solution is   *)
(* shown from its beginnings, which exist up to every length and agree.    *)

Less == {p \in Nat \X Nat : p[1] < p[2]}

\* Induction, for a set of numbers.
LEMMA SetInduction ==
    ASSUME NEW T \in SUBSET Nat, 0 \in T, \A n \in T : n + 1 \in T
    PROVE  T = Nat
<1> SUFFICES ASSUME Nat \ T # {} PROVE FALSE
  OBVIOUS
<1>1. IsWellFoundedOn(Less, Nat)
  <2>1. OpToRel(<, Nat) = Less
    BY Zenon DEF OpToRel, Less
  <2> QED
    BY <2>1, NatLessThanWellFounded, Zenon
<1>2. PICK n \in Nat \ T : \A m \in Nat \ T : ~ (<<m, n>> \in Less)
  BY <1>1, WFMin
<1>3. \A m \in Nat \ T : ~ (m < n)
  BY <1>2 DEF Less
<1>4. n \in Nat /\ n # 0
  BY <1>2
<1>5. n - 1 \in Nat /\ n - 1 < n /\ (n - 1) + 1 = n
  BY <1>4
<1>6. n - 1 \in T
  BY <1>3, <1>5
<1> QED
  BY <1>2, <1>5, <1>6

\* f is the doubled backoff up to n.
Beginning(n, f) ==
    /\ f \in [0 .. n -> Nat]
    /\ f[0] = InitialBackoff
    /\ \A i \in 0 .. n : i < n => f[i + 1] = 2 * f[i]

\* There is one up to every length.
LEMMA BeginningExists == \A n \in Nat : \E f : Beginning(n, f)
<1> DEFINE T == {n \in Nat : \E f : Beginning(n, f)}
<1>1. 0 \in T
  <2> DEFINE f == [i \in 0 .. 0 |-> InitialBackoff]
  <2>1. Beginning(0, f)
    BY ReconnectAssumption DEF Beginning
  <2> QED
    BY <2>1
<1>2. ASSUME NEW n \in T PROVE n + 1 \in T
  <2>1. PICK f : Beginning(n, f)
    BY <1>2
  <2> DEFINE g == [i \in 0 .. (n + 1) |-> IF i <= n THEN f[i] ELSE 2 * f[n]]
  <2>2. n \in Nat /\ f \in [0 .. n -> Nat] /\ f[n] \in Nat
    BY <2>1 DEF Beginning
  <2>3. g \in [0 .. (n + 1) -> Nat]
    BY <2>2
  <2>4. g[0] = InitialBackoff
    BY <2>1, <2>2 DEF Beginning
  <2>5. ASSUME NEW i \in 0 .. (n + 1), i < n + 1 PROVE g[i + 1] = 2 * g[i]
    <3>1. CASE i < n
      BY <2>1, <2>2, <2>5, <3>1 DEF Beginning
    <3>2. CASE i = n
      BY <2>2, <3>2
    <3> QED
      BY <2>2, <2>5, <3>1, <3>2
  <2>6. Beginning(n + 1, g)
    BY <2>3, <2>4, <2>5 DEF Beginning
  <2> QED
    BY <2>2, <2>6
<1> HIDE DEF T
<1>3. T \in SUBSET Nat
  BY DEF T
<1>4. T = Nat
  BY <1>1, <1>2, <1>3, SetInduction
<1> QED
  BY <1>4 DEF T

\* Two of them agree as far as both go.
LEMMA BeginningsAgree ==
    ASSUME NEW n \in Nat, NEW f, Beginning(n, f), NEW g, Beginning(n + 1, g)
    PROVE  f[n] = g[n]
<1> DEFINE T == {i \in Nat : i <= n => f[i] = g[i]}
<1>1. 0 \in T
  BY DEF Beginning
<1>2. ASSUME NEW i \in T PROVE i + 1 \in T
  BY <1>2 DEF Beginning
<1> HIDE DEF T
<1>3. T \in SUBSET Nat
  BY DEF T
<1>4. T = Nat
  BY <1>1, <1>2, <1>3, SetInduction
<1> QED
  BY <1>4 DEF T

\* What the recursive definition of Doubled gives.
LEMMA DoubledIs ==
    /\ \A k \in Nat : Doubled[k] \in Nat
    /\ Doubled[0] = InitialBackoff
    /\ \A k \in Nat : Doubled[k + 1] = 2 * Doubled[k]
<1> DEFINE first(n) == CHOOSE f : Beginning(n, f)
           F == [n \in Nat |-> first(n)[n]]
<1>1. \A n \in Nat : Beginning(n, first(n))
  BY BeginningExists, Zenon
<1> HIDE DEF first
<1>2. \A n \in Nat : F[n] = first(n)[n] /\ F[n] \in Nat
  BY <1>1 DEF Beginning
<1>3. F[0] = InitialBackoff
  BY <1>1, <1>2 DEF Beginning
<1>4. ASSUME NEW n \in Nat PROVE F[n + 1] = 2 * F[n]
  <2>1. n + 1 \in Nat /\ Beginning(n, first(n)) /\ Beginning(n + 1, first(n + 1))
    BY <1>1
  <2>2. first(n)[n] = first(n + 1)[n]
    BY <2>1, BeginningsAgree
  <2>3. first(n + 1)[n + 1] = 2 * first(n + 1)[n]
    BY <2>1 DEF Beginning
  <2> QED
    BY <1>2, <2>1, <2>2, <2>3
<1>5. F = [k \in Nat |-> IF k = 0 THEN InitialBackoff ELSE 2 * F[k - 1]]
  <2>1. \A k \in Nat : F[k] = IF k = 0 THEN InitialBackoff ELSE 2 * F[k - 1]
    <3> TAKE k \in Nat
    <3>1. CASE k = 0
      BY <1>3, <3>1
    <3>2. CASE k # 0
      <4>1. k - 1 \in Nat /\ (k - 1) + 1 = k
        BY <3>2
      <4>2. F[(k - 1) + 1] = 2 * F[k - 1]
        BY <1>4, <4>1
      <4> QED
        BY <3>2, <4>1, <4>2
    <3> QED
      BY <3>1, <3>2
  <2>2. DOMAIN F = Nat /\ F = [k \in Nat |-> F[k]]
    OBVIOUS
  <2> QED
    BY <2>1, <2>2
<1> HIDE DEF F
<1>6. Doubled = [k \in Nat |-> IF k = 0 THEN InitialBackoff ELSE 2 * Doubled[k - 1]]
  BY <1>5, Zenon DEF Doubled
<1>7. Doubled[0] = InitialBackoff
  BY <1>6
<1>8. \A k \in Nat : Doubled[k + 1] = 2 * Doubled[k]
  BY <1>6
<1> DEFINE T == {k \in Nat : Doubled[k] \in Nat}
<1>9. 0 \in T /\ \A k \in T : k + 1 \in T
  BY <1>7, <1>8, ReconnectAssumption
<1> HIDE DEF T
<1>10. T \in SUBSET Nat
  BY DEF T
<1>11. T = Nat
  BY <1>9, <1>10, SetInduction
<1> QED
  BY <1>7, <1>8, <1>11 DEF T

\* The k-th sleep after the first: the doubled backoff up to the cap.
Capped(k) == IF Doubled[k] < config.max_backoff THEN Doubled[k] ELSE config.max_backoff

\* Doubling the capped backoff is capping the doubled one, and it stands still once
\* attempt does (next_backoff, saturating_add).
LEMMA CappedSteps ==
    ASSUME TypeOK
    PROVE  /\ next_backoff(InitialBackoff) = Capped(1)
           /\ \A k \in Nat : next_backoff(Capped(k)) = Capped(k + 1)
           /\ Capped(U32Max) = Capped(U32Max - 1)
<1> DEFINE cap == config.max_backoff
<1>1. /\ InitialBackoff \in Nat /\ U32Max \in Nat /\ U32Max - 1 \in Nat
      /\ cap \in MaxBackoffs /\ cap \in Nat
  BY ReconnectAssumption, CapType
<1>2. Doubled[1] = 2 * InitialBackoff
  <2>1. Doubled[0 + 1] = 2 * Doubled[0]
    BY DoubledIs
  <2> QED
    BY <2>1, DoubledIs
<1>3. next_backoff(InitialBackoff) = Capped(1)
  BY <1>1, <1>2 DEF next_backoff, Capped
<1>4. ASSUME NEW k \in Nat PROVE next_backoff(Capped(k)) = Capped(k + 1)
  <2>1. Doubled[k] \in Nat /\ Doubled[k + 1] = 2 * Doubled[k]
    BY DoubledIs
  <2> QED
    BY <1>1, <2>1 DEF next_backoff, Capped
<1>5. Capped(U32Max) = Capped(U32Max - 1)
  <2>1. Doubled[U32Max - 1] \in Nat /\ Doubled[U32Max] = 2 * Doubled[U32Max - 1]
    <3>1. Doubled[(U32Max - 1) + 1] = 2 * Doubled[U32Max - 1] /\ Doubled[U32Max - 1] \in Nat
      BY <1>1, DoubledIs
    <3>2. (U32Max - 1) + 1 = U32Max
      BY <1>1
    <3> QED
      BY <3>1, <3>2
  <2>2. CASE Doubled[U32Max - 1] >= cap
    BY <1>1, <2>1, <2>2 DEF Capped
  <2>3. CASE InitialBackoff = 0
    <3> DEFINE T == {k \in Nat : Doubled[k] = 0}
    <3>1. 0 \in T /\ \A k \in T : k + 1 \in T
      BY <2>3, DoubledIs
    <3> HIDE DEF T
    <3>2. T \in SUBSET Nat
      BY DEF T
    <3>3. T = Nat
      BY <3>1, <3>2, SetInduction
    <3>4. Doubled[U32Max] = 0 /\ Doubled[U32Max - 1] = 0
      BY <1>1, <3>3 DEF T
    <3> QED
      BY <3>4 DEF Capped
  <2> QED
    BY <1>1, <2>2, <2>3, ReconnectAssumption
<1> QED
  BY <1>3, <1>4, <1>5

\* Between the failure of a round and the end of its sleep attempt is one ahead of
\* the doublings; otherwise they are even.
Paced ==
    /\ pc = "sleeping" =>
         /\ attempt >= 1
         /\ backoff = IF attempt = 1 THEN InitialBackoff ELSE Capped(attempt - 1)
    /\ pc \notin {"sleeping"} \cup Exited =>
         backoff = IF attempt = 0 THEN InitialBackoff ELSE Capped(attempt)

\* Every step keeps attempt and backoff in step.
LEMMA PacedInductive == TypeOK /\ Paced /\ [Next]_vars => Paced'
<1> SUFFICES ASSUME TypeOK, Paced, [Next]_vars PROVE Paced'
  OBVIOUS
<1>1. attempt \in Nat /\ attempt <= U32Max /\ U32Max \in Nat /\ U32Max > 1
  BY ReconnectAssumption DEF TypeOK
<1>0. config' = config
  BY ConfigFixed
<1>2. ASSUME UNCHANGED <<attempt, backoff>>,
             \/ pc' = pc
             \/ pc' \in Exited
             \/ pc \notin {"sleeping"} \cup Exited /\ pc' \notin {"sleeping"} \cup Exited
      PROVE  Paced'
  BY <1>0, <1>2 DEF Paced, Capped, Exited
<1>3. CASE Interrupt \/ StdioEnds \/ StdioAborted \/ LinkDies \/ Terminated \/ UNCHANGED vars
  BY <1>2, <1>3 DEF Interrupt, StdioEnds, StdioAborted, LinkDies, Terminated, vars
<1>4. CASE Subscribe \/ ConnectFails \/ HelloAccepted \/ HelloFails
  BY <1>2, <1>4 DEF Subscribe, ConnectFails, HelloAccepted, HelloFails, Exited
<1>5. CASE SubscribeSession \/ SessionShutdown \/ SessionLost \/ LoopShutdown
  BY <1>2, <1>5 DEF SubscribeSession, SessionShutdown, SessionLost, LoopShutdown, Exited
<1>6. CASE Connected
  BY <1>6 DEF Connected, Paced
<1>7. CASE Retry
  <2>1. /\ backoff' = backoff /\ pc' \in {"sleeping"} \cup Exited
        /\ attempt' = IF attempt = U32Max THEN U32Max ELSE attempt + 1
        /\ backoff = IF attempt = 0 THEN InitialBackoff ELSE Capped(attempt)
    BY <1>7 DEF Retry, saturating_add, Paced, Exited
  <2>2. attempt' >= 1 /\ (attempt = 0 <=> attempt' = 1)
    BY <1>1, <2>1
  <2>3. attempt # 0 => Capped(attempt' - 1) = Capped(attempt)
    <3>1. CASE attempt = U32Max
      BY <2>1, <3>1, CappedSteps
    <3>2. CASE attempt # U32Max
      <4>1. attempt' - 1 = attempt
        BY <1>1, <2>1, <3>2
      <4> QED
        BY <4>1
    <3> QED
      BY <3>1, <3>2
  <2>4. backoff' = IF attempt' = 1 THEN InitialBackoff ELSE Capped(attempt' - 1)
    BY <2>1, <2>2, <2>3
  <2> QED
    BY <1>0, <2>1, <2>2, <2>4 DEF Paced, Capped
<1>8. CASE SleepEnds
  <2>1. /\ pc' = "subscribe" /\ attempt' = attempt /\ attempt >= 1
        /\ backoff' = next_backoff(backoff)
        /\ backoff = IF attempt = 1 THEN InitialBackoff ELSE Capped(attempt - 1)
    BY <1>8 DEF SleepEnds, Paced
  <2>2. backoff' = Capped(attempt)
    <3>1. CASE attempt = 1
      BY <2>1, <3>1, CappedSteps
    <3>2. CASE attempt # 1
      <4>1. attempt - 1 \in Nat /\ (attempt - 1) + 1 = attempt
        BY <1>1, <2>1
      <4>2. next_backoff(Capped(attempt - 1)) = Capped((attempt - 1) + 1)
        BY <4>1, CappedSteps
      <4> QED
        BY <2>1, <3>2, <4>1, <4>2
    <3> QED
      BY <3>1, <3>2
  <2> QED
    BY <1>0, <1>1, <2>1, <2>2 DEF Paced, Capped
<1> QED
  BY <1>3, <1>4, <1>5, <1>6, <1>7, <1>8 DEF Next

\* For every initial backoff, cap and width of attempt, the first sleep of a streak is
\* the initial backoff, whatever the cap, and the k-th one the initial backoff doubled
\* k - 1 times, up to the cap (run_with_reconnect, next_backoff).
THEOREM BackoffFollowsStreakAlways == Spec => []BackoffFollowsStreak
<1>1. Init => Paced
  BY DEF Init, Paced
<1>2. Paced => BackoffFollowsStreak
  BY DoubledIs DEF Paced, BackoffFollowsStreak, Capped
<1> QED
  BY <1>1, <1>2, TypeInit, TypeCorrect, PacedInductive, PTL DEF Spec

-----------------------------------------------------------------------------
(* The attempts of ClientConnect.                                          *)

\* Every step of an attempt is a step of the loop, or leaves the loop alone.
LEMMA StepRefines == ConnectNext => Next \/ UNCHANGED vars
<1>1. LoopStep => Next
  BY DEF LoopStep, Next
<1>2. Cancelled => Next
  BY DEF Cancelled, Next
<1>3. Direct => Next \/ UNCHANGED vars
  BY DEF Direct, StartRace, Delay, RaceLost, Handshake, CandidateLost, CandidateWins, Next
<1>4. Proxied => Next \/ UNCHANGED vars
  BY DEF Proxied, ProxyReached, MethodChosen, AuthAccepted, Associated, Advance,
         ProxiedConnect, AttemptFails, ProxyRevokes, Next
<1> QED
  BY <1>1, <1>2, <1>3, <1>4 DEF ConnectNext

\* Whatever the addresses, the endpoints and the proxy do, the client is seen to
\* behave as the reconnect loop of run_with_reconnect does.
THEOREM ConnectImplementsReconnect == ConnectSpec => Spec
<1>1. ConnectInit => Init
  BY DEF ConnectInit
<1>2. [ConnectNext]_allVars => [Next]_vars
  BY StepRefines DEF allVars
<1> QED
  BY <1>1, <1>2, PTL DEF ConnectSpec, Spec

\* The retries of a client that races addresses or goes through a proxy are
\* counted exactly (run_with_reconnect).
THEOREM ConnectRetriesCounted == ConnectSpec => []RetriesCounted
BY ConnectImplementsReconnect, RetriesCountedAlways, PTL

\* Its sleeps follow its streak of failures.
THEOREM ConnectBackoffFollowsStreak == ConnectSpec => []BackoffFollowsStreak
BY ConnectImplementsReconnect, BackoffFollowsStreakAlways, PTL

\* A shutdown pending in its session is pending in its loop.
THEOREM ConnectLoopSeesSessionShutdown == ConnectSpec => []LoopSeesSessionShutdown
BY ConnectImplementsReconnect, LoopSeesSessionShutdownAlways, PTL

\* Attempts, endpoints and the negotiation stay within their states.
THEOREM ConnectTypeCorrect == ConnectSpec => []ConnectTypeOK
<1> DEFINE Own == /\ pool \subseteq Families
                  /\ race \in [Candidates -> RaceStates]
                  /\ now \in 0 .. Len(Family) - 1
                  /\ creds \in BOOLEAN
                  /\ step \in Steps
                  /\ control \in {"none", "open", "revoked"}
<1>1. Len(Family) \in Nat \ {0} /\ \A i \in Candidates : Family[i] \in Families
  BY ConnectAssumption DEF Candidates
<1>2. ConnectInit => Own
  BY <1>1 DEF ConnectInit, NoRace, RaceStates, Steps, Candidates
<1>3. Own /\ [ConnectNext]_allVars => Own'
  <2> SUFFICES ASSUME Own, [ConnectNext]_allVars PROVE Own'
    OBVIOUS
  <2> USE DEF NoRace, RaceStates, Steps
  <2>1. CASE LoopStep \/ Cancelled
    BY <2>1, <1>1 DEF LoopStep, Cancelled
  <2>2. CASE Direct
    <3>1. CASE StartRace
      BY <3>1, <1>1 DEF StartRace, Families
    <3>2. CASE Delay
      BY <3>2, <1>1 DEF Delay
    <3>3. CASE RaceLost
      BY <3>3, <1>1 DEF RaceLost
    <3>4. CASE \E i \in Candidates : Handshake(i) \/ CandidateLost(i) \/ CandidateWins(i)
      BY <3>4, <1>1 DEF Handshake, CandidateLost, CandidateWins
    <3> QED
      BY <2>2, <3>1, <3>2, <3>3, <3>4 DEF Direct
  <2>3. CASE Proxied
    BY <2>3 DEF Proxied, ProxyReached, MethodChosen, AuthAccepted, Associated, Advance,
                ProxiedConnect, AttemptFails, ProxyRevokes
  <2>4. CASE UNCHANGED allVars
    BY <2>4 DEF allVars, connectVars
  <2> QED
    BY <2>1, <2>2, <2>3, <2>4 DEF ConnectNext
<1>4. TypeOK /\ Own => ConnectTypeOK
  BY DEF ConnectTypeOK
<1> QED
  BY <1>2, <1>3, <1>4, ConnectImplementsReconnect, TypeCorrect, PTL DEF ConnectSpec
=============================================================================
