-------------------------- MODULE RegistrarProofs --------------------------
(***************************************************************************)
(* What holds of Registrar for every number of goroutines and of faults.   *)
(***************************************************************************)
EXTENDS Registrar, FiniteSetTheorems, TLAPS

\* The types of the variables that the two invariants read.
Shapes ==
  /\ gateway \in {"unknown", "known", "blocked"}
  /\ ticker \in Loop \cup {None}
  /\ closed \subseteq Loop
  /\ loop \in [Loop -> {"none", "wait", "tick", "sent", "ok", "403", "404"}]
  /\ call \in [Call -> {"none", "sent", "accepted", "refused", "start"}]
  /\ timers \in Nat

IInv == Shapes /\ NoTickerLeaks /\ NeverSilent

LEMMA InitEstablishes == Init => IInv
BY DEF Init, IInv, Shapes, NoTickerLeaks, NeverSilent

\* The steps of the gateway leave the service alone, but for the answers they send.
LEMMA GatewayKeeps ==
  ASSUME IInv, GatewayRestarts \/ GatewayBlocks
  PROVE  IInv'
BY DEF GatewayRestarts, GatewayBlocks, Fault, local, IInv, Shapes, NoTickerLeaks, NeverSilent

\* register: NeverSilent is the invariant at stake, a call ends only with a timer
\* armed, a refusal recorded or a ticker started.
LEMMA CallKeeps ==
  ASSUME IInv, NEW c \in Call, Registering(c) \/ RegisterFails(c)
  PROVE  IInv'
<1> USE RegistrarAssumption DEF IInv, Shapes
<1>1. CASE TimerFires(c)
  BY <1>1 DEF TimerFires, local, NoTickerLeaks, NeverSilent
<1>2. CASE Check(c)
  BY <1>2 DEF Check, local, NoTickerLeaks, NeverSilent
<1>3. CASE AnswerRegister(c)
  BY <1>3 DEF AnswerRegister, Fault, local, NoTickerLeaks, NeverSilent
<1>4. CASE RegisterRefused(c)
  BY <1>4 DEF RegisterRefused, local, NoTickerLeaks, NeverSilent
<1>5. CASE RegisterAccepted(c)
  BY <1>5 DEF RegisterAccepted, NoTickerLeaks, NeverSilent
<1>6. CASE StartHeartbeat(c)
  <2>1. PICK l \in Loop : /\ Unused(l)
                          /\ ticker' = l
                          /\ closed' = Closed
                          /\ loop' = [loop EXCEPT ![l] = "wait"]
    BY <1>6 DEF StartHeartbeat
  <2>2. Shapes'
    BY <1>6, <2>1 DEF StartHeartbeat, Closed
  <2>3. NoTickerLeaks'
    BY <2>1 DEF Closed, NoTickerLeaks
  <2>4. NeverSilent'
    BY <2>1 DEF NeverSilent
  <2> QED
    BY <2>2, <2>3, <2>4
<1>7. CASE RegisterFails(c)
  BY <1>7 DEF RegisterFails, Retry, Fault, local, NoTickerLeaks, NeverSilent
<1> QED
  BY <1>1, <1>2, <1>3, <1>4, <1>5, <1>6, <1>7 DEF Registering

\* The goroutines of the tickers: an answer that stops the heartbeats closes the
\* current ticker, which is the only one not closed.
LEMMA LoopKeeps ==
  ASSUME IInv, NEW l \in Loop, Beating(l) \/ HeartbeatFails(l)
  PROVE  IInv'
<1> USE RegistrarAssumption DEF IInv, Shapes
<1>1. CASE Tick(l) \/ Heartbeat(l)
  BY <1>1 DEF Tick, Heartbeat, NoTickerLeaks, NeverSilent
<1>2. CASE LoopEnds(l)
  BY <1>2 DEF LoopEnds, NoTickerLeaks, NeverSilent
<1>3. CASE AnswerHeartbeat(l)
  <2>1. loop' \in [Loop -> {"none", "wait", "tick", "sent", "ok", "403", "404"}]
    BY <1>3 DEF AnswerHeartbeat
  <2>2. \A k \in Loop : loop'[k] # "none" => loop[k] # "none"
    BY <1>3 DEF AnswerHeartbeat
  <2> QED
    BY <1>3, <2>1, <2>2 DEF AnswerHeartbeat, NoTickerLeaks, NeverSilent
<1>4. CASE HeartbeatGoesOn(l)
  BY <1>4 DEF HeartbeatGoesOn, NoTickerLeaks, NeverSilent
<1>5. CASE HeartbeatForbidden(l)
  BY <1>5 DEF HeartbeatForbidden, Closed, NoTickerLeaks, NeverSilent
<1>6. CASE HeartbeatUnknown(l)
  BY <1>6 DEF HeartbeatUnknown, Closed, NoTickerLeaks, NeverSilent
<1>7. CASE HeartbeatFails(l)
  BY <1>7 DEF HeartbeatFails, Fault, NoTickerLeaks, NeverSilent
<1> QED
  BY <1>1, <1>2, <1>3, <1>4, <1>5, <1>6, <1>7 DEF Beating

LEMMA Invariance == Spec => []IInv
<1>1. Init => IInv
  BY InitEstablishes
<1>2. IInv /\ [Next]_vars => IInv'
  <2> SUFFICES ASSUME IInv, [Next]_vars
               PROVE  IInv'
    OBVIOUS
  <2>1. CASE Next
    BY <2>1, GatewayKeeps, CallKeeps, LoopKeeps DEF Next
  <2>2. CASE UNCHANGED vars
    BY <2>2 DEF vars, local, IInv, Shapes, NoTickerLeaks, NeverSilent
  <2> QED
    BY <2>1, <2>2
<1> QED
  BY <1>1, <1>2, PTL DEF Spec

\* However many registrations and late answers cross, only the current ticker runs:
\* startHeartbeat and the answers 403 and 404 leave none behind unstopped.
THEOREM OneTicker == Spec => []NoTickerLeaks
<1>1. IInv => NoTickerLeaks
  BY DEF IInv
<1> QED
  BY <1>1, Invariance, PTL

\* The service is never without heartbeats and without a registration to come,
\* unless the gateway refused it: every way out of register and of heartbeat arms a
\* timer, starts a ticker or is an answer of the gateway that ends it.
THEOREM RegistrationGoesOn == Spec => []NeverSilent
<1>1. IInv => NeverSilent
  BY DEF IInv
<1> QED
  BY <1>1, Invariance, PTL

----------------------------------------------------------------------------
(***************************************************************************)
(* RegistrationsNeverMultiply.  Timers, calls and tickers that can still   *)
(* be told 404 are tokens: every step moves one token or drops some.  The  *)
(* step that would make one is HeartbeatUnknown, which arms a timer; it    *)
(* does not because the ticker it answers is stopped with it, being either *)
(* the current one or closed already (NoTickerLeaks).  The bound on timers *)
(* in TypeOK follows from the number of tokens.                            *)
(***************************************************************************)
Calling == {c \in Call : call[c] # "none"}
Talking == {l \in Loop : loop[l] \in {"tick", "sent", "ok", "403", "404"}
                         \/ (loop[l] = "wait" /\ l \notin closed)}
Checks == IF check = "done" THEN 0 ELSE 1

Tokens ==
  /\ IInv
  /\ check \in {"early", "due", "done"}
  /\ IsFiniteSet(Calling) /\ IsFiniteSet(Talking)
  /\ RegistrationsNeverMultiply

LEMMA ChainsParts == Chains = timers + Checks + Cardinality(Calling) + Cardinality(Talking)
  BY DEF Chains, Checks, Calling, Talking

\* What one goroutine more or less does to their number.
LEMMA OneMore ==
  ASSUME NEW S, NEW T, NEW x, IsFiniteSet(S), T \subseteq S \cup {x}
  PROVE  IsFiniteSet(T) /\ Cardinality(T) <= Cardinality(S) + 1
<1>1. IsFiniteSet(S \cup {x}) /\ Cardinality(S \cup {x}) <= Cardinality(S) + 1
  <2>1. Cardinality(S) \in Nat
    BY FS_CardinalityType
  <2> QED
    BY <2>1, FS_AddElement
<1>2. IsFiniteSet(T) /\ Cardinality(T) <= Cardinality(S \cup {x})
  BY <1>1, FS_Subset
<1>3. Cardinality(S) \in Nat /\ Cardinality(T) \in Nat /\ Cardinality(S \cup {x}) \in Nat
  BY <1>1, <1>2, FS_CardinalityType
<1> QED
  BY <1>1, <1>2, <1>3

LEMMA OneLess ==
  ASSUME NEW S, NEW T, NEW x, IsFiniteSet(S), x \in S, T \subseteq S \ {x}
  PROVE  IsFiniteSet(T) /\ Cardinality(T) <= Cardinality(S) - 1
<1>1. IsFiniteSet(S \ {x}) /\ Cardinality(S \ {x}) = Cardinality(S) - 1
  BY FS_RemoveElement
<1>2. IsFiniteSet(T) /\ Cardinality(T) <= Cardinality(S \ {x})
  BY <1>1, FS_Subset
<1> QED
  BY <1>1, <1>2

LEMMA NoMore ==
  ASSUME NEW S, NEW T, IsFiniteSet(S), T \subseteq S
  PROVE  IsFiniteSet(T) /\ Cardinality(T) <= Cardinality(S)
  BY FS_Subset

\* One timer is armed at the start, and the check at 15 s counts for another.
LEMMA TokensInit == Init => Tokens
<1> SUFFICES ASSUME Init PROVE Tokens
  OBVIOUS
<1>1. Calling = {} /\ Talking = {}
  BY DEF Init, Calling, Talking
<1>2. timers = 1 /\ Checks = 1
  BY DEF Init, Checks
<1>3. Chains = 2
  BY <1>1, <1>2, ChainsParts, FS_EmptySet
<1> QED
  BY <1>1, <1>3, FS_EmptySet, InitEstablishes DEF Tokens, RegistrationsNeverMultiply, Init

\* The bound on the tokens is kept when none of them is made, whatever moved.
LEMMA TokensCount ==
  ASSUME Tokens, IInv', (check \in {"early", "due", "done"})',
         IsFiniteSet(Calling'), IsFiniteSet(Talking'),
         timers' + Checks' + Cardinality(Calling') + Cardinality(Talking')
           <= timers + Checks + Cardinality(Calling) + Cardinality(Talking)
  PROVE  Tokens'
<1>1. Chains' = timers' + Checks' + Cardinality(Calling') + Cardinality(Talking')
  BY DEF Chains, Checks, Calling, Talking
<1>2. /\ timers \in Nat /\ Checks \in Nat
      /\ Cardinality(Calling) \in Nat /\ Cardinality(Talking) \in Nat
  BY FS_CardinalityType DEF Tokens, IInv, Shapes, Checks
<1>3. /\ timers' \in Nat /\ Checks' \in Nat
      /\ Cardinality(Calling') \in Nat /\ Cardinality(Talking') \in Nat
  BY FS_CardinalityType DEF IInv, Shapes, Checks
<1>4. Chains' <= 2
  BY <1>1, <1>2, <1>3, ChainsParts DEF Tokens, RegistrationsNeverMultiply
<1> QED
  BY <1>4 DEF Tokens, RegistrationsNeverMultiply

LEMMA TokensCall ==
  ASSUME Tokens, IInv', NEW c \in Call, Registering(c) \/ RegisterFails(c)
  PROVE  Tokens'
<1> USE DEF Calling, Talking, Checks
<1>a. /\ timers \in Nat /\ Checks \in Nat
      /\ Cardinality(Calling) \in Nat /\ Cardinality(Talking) \in Nat
      /\ IsFiniteSet(Calling) /\ IsFiniteSet(Talking)
      /\ check \in {"early", "due", "done"}
      /\ call \in [Call -> {"none", "sent", "accepted", "refused", "start"}]
      /\ loop \in [Loop -> {"none", "wait", "tick", "sent", "ok", "403", "404"}]
  BY FS_CardinalityType DEF Tokens, IInv, Shapes
<1>1. CASE TimerFires(c)
  <2>1. /\ Calling' \subseteq Calling \cup {c} /\ Talking' = Talking
        /\ timers' = timers - 1 /\ Checks' = Checks /\ check' \in {"early", "due", "done"}
    BY <1>a, <1>1 DEF TimerFires, local
  <2>2. IsFiniteSet(Calling') /\ Cardinality(Calling') <= Cardinality(Calling) + 1
    BY <1>a, <2>1, OneMore
  <2>3. Cardinality(Calling') \in Nat
    BY <2>2, FS_CardinalityType
  <2> HIDE DEF Calling, Talking, Checks
  <2> QED
    BY <1>a, <2>1, <2>2, <2>3, TokensCount
<1>2. CASE Check(c)
  <2>1. /\ Calling' \subseteq Calling \cup {c} /\ Talking' = Talking
        /\ timers' = timers /\ Checks = 1 /\ Checks' = 0 /\ check' = "done"
    BY <1>a, <1>2 DEF Check, local
  <2>2. IsFiniteSet(Calling') /\ Cardinality(Calling') <= Cardinality(Calling) + 1
    BY <1>a, <2>1, OneMore
  <2>3. Cardinality(Calling') \in Nat
    BY <2>2, FS_CardinalityType
  <2> HIDE DEF Calling, Talking, Checks
  <2> QED
    BY <1>a, <2>1, <2>2, <2>3, TokensCount
<1>3. CASE AnswerRegister(c) \/ RegisterAccepted(c)
  <2>1. Calling' = Calling /\ Talking' = Talking /\ timers' = timers /\ check' = check
    BY <1>a, <1>3 DEF AnswerRegister, RegisterAccepted, local
  <2>2. Checks' = Checks
    BY <2>1
  <2> HIDE DEF Calling, Talking, Checks
  <2> QED
    BY <1>a, <2>1, <2>2, TokensCount
<1>4. CASE RegisterRefused(c) \/ RegisterFails(c)
  <2>1. /\ Calling' \subseteq Calling \ {c} /\ c \in Calling /\ Talking' = Talking
        /\ timers' \in {timers, timers + 1} /\ check' = check
    BY <1>a, <1>4 DEF RegisterRefused, RegisterFails, Retry, local
  <2>2. IsFiniteSet(Calling') /\ Cardinality(Calling') <= Cardinality(Calling) - 1
    BY <1>a, <2>1, OneLess
  <2>3. Cardinality(Calling') \in Nat /\ Checks' = Checks
    BY <2>1, <2>2, FS_CardinalityType
  <2> HIDE DEF Calling, Talking, Checks
  <2> QED
    BY <1>a, <2>1, <2>2, <2>3, TokensCount
<1>5. CASE StartHeartbeat(c)
  <2>1. PICK l \in Loop : /\ loop[l] = "none"
                          /\ closed' = Closed
                          /\ loop' = [loop EXCEPT ![l] = "wait"]
    BY <1>5 DEF StartHeartbeat, Unused
  <2>2. /\ Calling' \subseteq Calling \ {c} /\ c \in Calling
        /\ timers' = timers /\ check' = check
    BY <1>a, <1>5 DEF StartHeartbeat
  <2>3. Talking' \subseteq Talking \cup {l}
    BY <1>a, <2>1 DEF Closed
  <2>4. IsFiniteSet(Calling') /\ Cardinality(Calling') <= Cardinality(Calling) - 1
    BY <1>a, <2>2, OneLess
  <2>5. IsFiniteSet(Talking') /\ Cardinality(Talking') <= Cardinality(Talking) + 1
    BY <1>a, <2>3, OneMore
  <2>6. /\ Cardinality(Calling') \in Nat /\ Cardinality(Talking') \in Nat
        /\ Checks' = Checks
    BY <2>2, <2>4, <2>5, FS_CardinalityType
  <2> HIDE DEF Calling, Talking, Checks
  <2> QED
    BY <1>a, <2>2, <2>4, <2>5, <2>6, TokensCount
<1> QED
  BY <1>1, <1>2, <1>3, <1>4, <1>5 DEF Registering

LEMMA TokensLoop ==
  ASSUME Tokens, IInv', NEW l \in Loop, Beating(l) \/ HeartbeatFails(l)
  PROVE  Tokens'
<1>a. /\ timers \in Nat /\ Checks \in Nat
      /\ Cardinality(Calling) \in Nat /\ Cardinality(Talking) \in Nat
      /\ IsFiniteSet(Calling) /\ IsFiniteSet(Talking)
      /\ check \in {"early", "due", "done"}
      /\ loop \in [Loop -> {"none", "wait", "tick", "sent", "ok", "403", "404"}]
      /\ NoTickerLeaks
  BY FS_CardinalityType DEF Tokens, IInv, Shapes, Checks
<1>b. Calling' = Calling /\ Checks' = Checks /\ check' = check
  BY DEF Beating, Tick, Heartbeat, LoopEnds, AnswerHeartbeat, HeartbeatGoesOn, HeartbeatForbidden,
         HeartbeatUnknown, HeartbeatFails, Calling, Checks
<1>1. CASE HeartbeatUnknown(l)
  <2>1. timers' = timers + 1 /\ l \in Talking
    BY <1>1 DEF HeartbeatUnknown, Talking
  <2>2. l \in closed'
    BY <1>a, <1>1, RegistrarAssumption DEF HeartbeatUnknown, NoTickerLeaks, Closed
  <2>3. Talking' \subseteq Talking \ {l}
    BY <1>a, <1>1, <2>2 DEF HeartbeatUnknown, Closed, Talking
  <2>4. IsFiniteSet(Talking') /\ Cardinality(Talking') <= Cardinality(Talking) - 1
    BY <1>a, <2>1, <2>3, OneLess
  <2>5. Cardinality(Talking') \in Nat
    BY <2>4, FS_CardinalityType
  <2> QED
    BY <1>a, <1>b, <2>1, <2>4, <2>5, TokensCount
<1>2. CASE ~HeartbeatUnknown(l)
  <2>1. ASSUME Tick(l) \/ Heartbeat(l) PROVE Talking' \subseteq Talking
    BY <1>a, <2>1 DEF Tick, Heartbeat, Talking
  <2>2. ASSUME LoopEnds(l) PROVE Talking' \subseteq Talking
    BY <1>a, <2>2 DEF LoopEnds, Talking
  <2>3. ASSUME AnswerHeartbeat(l) PROVE Talking' \subseteq Talking
    BY <1>a, <2>3 DEF AnswerHeartbeat, Talking
  <2>4. ASSUME HeartbeatGoesOn(l) \/ HeartbeatFails(l) PROVE Talking' \subseteq Talking
    BY <1>a, <2>4 DEF HeartbeatGoesOn, HeartbeatFails, Talking
  <2>5. ASSUME HeartbeatForbidden(l) PROVE Talking' \subseteq Talking
    BY <1>a, <2>5 DEF HeartbeatForbidden, Closed, Talking
  <2>6. timers' = timers /\ Talking' \subseteq Talking
    <3>1. timers' = timers
      BY <1>2 DEF Beating, Tick, Heartbeat, LoopEnds, AnswerHeartbeat, HeartbeatGoesOn,
                  HeartbeatForbidden, HeartbeatFails
    <3>2. Talking' \subseteq Talking
      BY <1>2, <2>1, <2>2, <2>3, <2>4, <2>5 DEF Beating
    <3> QED
      BY <3>1, <3>2
  <2>7. IsFiniteSet(Talking') /\ Cardinality(Talking') <= Cardinality(Talking)
    BY <1>a, <2>6, NoMore
  <2>8. Cardinality(Talking') \in Nat
    BY <2>7, FS_CardinalityType
  <2> QED
    BY <1>a, <1>b, <2>6, <2>7, <2>8, TokensCount
<1> QED
  BY <1>1, <1>2

LEMMA TokensKept == Spec => []Tokens
<1>1. Tokens /\ IInv' /\ [Next]_vars => Tokens'
  <2> SUFFICES ASSUME Tokens, IInv', [Next]_vars PROVE Tokens'
    OBVIOUS
  <2>1. CASE GatewayRestarts \/ GatewayBlocks \/ UNCHANGED vars
    BY <2>1 DEF GatewayRestarts, GatewayBlocks, Fault, local, vars, Tokens, Calling, Talking,
                RegistrationsNeverMultiply, Chains
  <2> QED
    BY <2>1, TokensCall, TokensLoop DEF Next
<1> QED
  BY <1>1, TokensInit, Invariance, PTL DEF Spec

\* Every 404 and every network error arms a timer, whatever answers cross: there are
\* never more than two registrations under way, due, or still to be told 404.
THEOREM TwoChainsAtMost == Spec => []RegistrationsNeverMultiply
<1>1. Tokens => RegistrationsNeverMultiply
  BY DEF Tokens
<1> QED
  BY <1>1, TokensKept, PTL

\* Every variable keeps its type, the number of armed timers included.
THEOREM RegistrarTypes == Spec => []TypeOK
<1>1. Init => TypeOK
  <2>1. 0 \in 0..MaxFaults /\ 1 \in 0..2
    BY RegistrarAssumption
  <2> QED
    BY <2>1 DEF Init, TypeOK
<1>2. Tokens => timers \in 0..2
  <2> SUFFICES ASSUME Tokens PROVE timers \in 0..2
    OBVIOUS
  <2>1. /\ timers \in Nat /\ Checks \in Nat
        /\ Cardinality(Calling) \in Nat /\ Cardinality(Talking) \in Nat
    BY FS_CardinalityType DEF Tokens, IInv, Shapes, Checks
  <2> QED
    BY <2>1, ChainsParts DEF Tokens, RegistrationsNeverMultiply
<1>3. TypeOK /\ Tokens' /\ [Next]_vars => TypeOK'
  <2> SUFFICES ASSUME TypeOK, Tokens', [Next]_vars PROVE TypeOK'
    OBVIOUS
  <2>1. timers' \in 0..2 /\ Shapes' /\ check' \in {"early", "due", "done"}
    <3>1. Shapes' /\ check' \in {"early", "due", "done"}
      BY DEF Tokens, IInv
    <3>2. (timers \in 0..2)'
      BY <1>2, PTL
    <3> QED
      BY <3>1, <3>2
  <2>2. faults' \in 0..MaxFaults
    BY RegistrarAssumption
    DEF TypeOK, Next, Registering, Beating, GatewayRestarts, GatewayBlocks, Fault,
        AnswerRegister, AnswerHeartbeat, TimerFires, Check, RegisterFails, RegisterRefused,
        RegisterAccepted, StartHeartbeat, Tick, Heartbeat, LoopEnds, HeartbeatFails, HeartbeatGoesOn,
        HeartbeatForbidden, HeartbeatUnknown, vars
  <2>3. registeredID' \in BOOLEAN /\ gaveUp' \in BOOLEAN
    BY DEF TypeOK, Next, Registering, Beating, GatewayRestarts, GatewayBlocks, local,
        AnswerRegister, AnswerHeartbeat, TimerFires, Check, RegisterFails, RegisterRefused,
        RegisterAccepted, StartHeartbeat, Tick, Heartbeat, LoopEnds, HeartbeatFails, HeartbeatGoesOn,
        HeartbeatForbidden, HeartbeatUnknown, vars
  <2> QED
    BY <2>1, <2>2, <2>3 DEF TypeOK, Shapes
<1> QED
  BY <1>1, <1>3, TokensKept, PTL DEF Spec
=============================================================================
