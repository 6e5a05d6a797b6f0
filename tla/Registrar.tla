----------------------------- MODULE Registrar -----------------------------
(***************************************************************************)
(* Registration of the service with the gateway:                           *)
(* StartServiceRegistration of internal/platform/registrar.go.             *)
(*                                                                         *)
(* Timers call register, each in a goroutine of its own, and every         *)
(* registration starts a ticker whose goroutine sends the heartbeats.      *)
(* The registered id and the current ticker are shared under a mutex that  *)
(* is released while a request is on its way: answers are handled late, by *)
(* goroutines whose ticker may have been replaced.                         *)
(*                                                                         *)
(* The service is configured (a key or a secret, and an endpoint): without *)
(* that register returns at once.  The id is one value, and the metrics of *)
(* a heartbeat are left out.  Of durations the model keeps the order that  *)
(* the constants of the start impose: the first registration, begun at     *)
(* 2 s, is over at 10 s by the time-out of its client, the check comes at  *)
(* 15 s, and no retry (17 s) and no heartbeat (32 s) comes before it.      *)
(***************************************************************************)
EXTENDS Integers, FiniteSets

CONSTANTS
  Call,        \* BOUND: goroutines running register at the same time
  Loop,        \* BOUND: goroutines of tickers at the same time
  None,        \* ticker == nil
  MaxFaults    \* BOUND: network errors, refusals and restarts of the gateway

ASSUME RegistrarAssumption ==
  /\ None \notin Loop
  /\ MaxFaults \in Nat

VARIABLES
  gateway,       \* what the gateway holds of the service
  faults,        \* faults so far
  registeredID,  \* registeredID # ""
  ticker,        \* the current ticker, named by its goroutine
  closed,        \* the goroutines whose channel stop is closed
  loop,          \* what each goroutine of a ticker is doing
  call,          \* what each goroutine of register is doing
  timers,        \* armed timers that will call register
  check,         \* the check at 15 s of the start
  gaveUp         \* HISTORY: the last registration was refused, or a heartbeat got
                 \* a 403 after it

local == <<registeredID, ticker, closed, loop>>
vars == <<gateway, faults, local, call, timers, check, gaveUp>>

TypeOK ==
  /\ gateway \in {"unknown", "known", "blocked"}
  /\ faults \in 0..MaxFaults
  /\ registeredID \in BOOLEAN
  /\ ticker \in Loop \cup {None}
  /\ closed \subseteq Loop
  /\ loop \in [Loop -> {"none", "wait", "tick", "sent", "ok", "403", "404"}]
  /\ call \in [Call -> {"none", "sent", "accepted", "refused", "start"}]
  /\ timers \in 0..2
  /\ check \in {"early", "due", "done"}
  /\ gaveUp \in BOOLEAN

Init ==
  /\ gateway \in {"unknown", "known", "blocked"}
  /\ faults = 0
  /\ registeredID = FALSE
  /\ ticker = None /\ closed = {}
  /\ loop = [l \in Loop |-> "none"]
  /\ call = [c \in Call |-> "none"]
  /\ timers = 1 /\ check = "early"
  /\ gaveUp = FALSE

----------------------------------------------------------------------------
(* stopHeartbeat (a plausible bug: the ticker is forgotten, not stopped). *)
Forgotten == closed
Closed == IF ticker = None THEN closed ELSE closed \cup {ticker}

Unused(l) == loop[l] = "none"

(* The gateway.  A fault is a fault of the network or of the gateway. *)

Fault == faults < MaxFaults /\ faults' = faults + 1

\* It restarts and has forgotten the service.
GatewayRestarts ==
  /\ gateway = "known" /\ Fault
  /\ gateway' = "unknown"
  /\ UNCHANGED <<local, call, timers, check, gaveUp>>

\* An administrator revokes the key of the service.
GatewayBlocks ==
  /\ gateway # "blocked"
  /\ gateway' = "blocked"
  /\ UNCHANGED <<faults, local, call, timers, check, gaveUp>>

\* The last alternative is an answer that is not the gateway's verdict: another
\* status than 2xx, or a 200 whose body is lost (the error of Decode is ignored).
AnswerRegister(c) ==
  /\ call[c] = "sent"
  /\ \/ /\ gateway # "blocked"
        /\ gateway' = "known"
        /\ call' = [call EXCEPT ![c] = "accepted"]
        /\ UNCHANGED faults
     \/ /\ gateway = "blocked"
        /\ call' = [call EXCEPT ![c] = "refused"]
        /\ UNCHANGED <<gateway, faults>>
     \/ /\ Fault
        /\ gateway' \in {gateway} \cup (IF gateway = "blocked" THEN {} ELSE {"known"})
        /\ call' = [call EXCEPT ![c] = "refused"]
  /\ UNCHANGED <<local, timers, check, gaveUp>>

AnswerHeartbeat(l) ==
  /\ loop[l] = "sent"
  /\ loop' = [loop EXCEPT ![l] = CASE gateway = "known" -> "ok"
                                   [] gateway = "unknown" -> "404"
                                   [] gateway = "blocked" -> "403"]
  /\ UNCHANGED <<gateway, faults, registeredID, ticker, closed, call, timers, check, gaveUp>>

----------------------------------------------------------------------------
(* register *)

TimerFires(c) ==
  /\ timers > 0 /\ check # "due"
  /\ call[c] = "none"
  /\ timers' = timers - 1
  /\ call' = [call EXCEPT ![c] = "sent"]
  /\ check' = IF check = "early" THEN "due" ELSE check
  /\ UNCHANGED <<gateway, faults, local, gaveUp>>

\* The second timer of the start: register again unless it has succeeded.
Check(c) ==
  /\ check = "due"
  /\ \A other \in Call : call[other] = "none"
  /\ check' = "done"
  /\ call' = IF registeredID THEN call ELSE [call EXCEPT ![c] = "sent"]
  /\ UNCHANGED <<gateway, faults, local, timers, gaveUp>>

\* A network error arms a new timer (a plausible bug: it does not).
NoRetry == timers
Retry == timers + 1

RegisterFails(c) ==
  /\ call[c] \in {"sent", "accepted", "refused"}
  /\ Fault
  /\ call' = [call EXCEPT ![c] = "none"]
  /\ timers' = Retry
  /\ UNCHANGED <<gateway, local, check, gaveUp>>

RegisterRefused(c) ==
  /\ call[c] = "refused"
  /\ call' = [call EXCEPT ![c] = "none"]
  /\ gaveUp' = TRUE
  /\ UNCHANGED <<gateway, faults, local, timers, check>>

RegisterAccepted(c) ==
  /\ call[c] = "accepted"
  /\ registeredID' = TRUE
  /\ call' = [call EXCEPT ![c] = "start"]
  /\ gaveUp' = FALSE
  /\ UNCHANGED <<gateway, faults, ticker, closed, loop, timers, check>>

StartHeartbeat(c) ==
  /\ call[c] = "start"
  /\ \E l \in Loop :
       /\ Unused(l)
       /\ ticker' = l
       /\ closed' = Closed
       /\ loop' = [loop EXCEPT ![l] = "wait"]
  /\ call' = [call EXCEPT ![c] = "none"]
  /\ UNCHANGED <<gateway, faults, registeredID, timers, check, gaveUp>>

----------------------------------------------------------------------------
(* The goroutine of a ticker, and heartbeat *)

\* Once a ticker is stopped nothing is received from it.
Tick(l) ==
  /\ loop[l] = "wait" /\ l \notin closed /\ check = "done"
  /\ loop' = [loop EXCEPT ![l] = "tick"]
  /\ UNCHANGED <<gateway, faults, registeredID, ticker, closed, call, timers, check, gaveUp>>

\* The id is read under the mutex; the ticker may have been stopped since the tick.
Heartbeat(l) ==
  /\ loop[l] = "tick"
  /\ loop' = [loop EXCEPT ![l] = IF registeredID THEN "sent" ELSE "wait"]
  /\ UNCHANGED <<gateway, faults, registeredID, ticker, closed, call, timers, check, gaveUp>>

LoopEnds(l) ==
  /\ loop[l] = "wait" /\ l \in closed
  /\ loop' = [loop EXCEPT ![l] = "none"]
  /\ closed' = closed \ {l}
  /\ UNCHANGED <<gateway, faults, registeredID, ticker, call, timers, check, gaveUp>>

HeartbeatFails(l) ==
  /\ loop[l] \in {"sent", "ok", "403", "404"}
  /\ Fault
  /\ loop' = [loop EXCEPT ![l] = "wait"]
  /\ UNCHANGED <<gateway, registeredID, ticker, closed, call, timers, check, gaveUp>>

\* The answers that stop the heartbeats (a plausible bug: 403 is not one).
OnlyUnknown == {"404"}
StopsOn == {"403", "404"}

HeartbeatGoesOn(l) ==
  /\ loop[l] \in {"ok", "403", "404"} \ StopsOn
  /\ loop' = [loop EXCEPT ![l] = "wait"]
  /\ UNCHANGED <<gateway, faults, registeredID, ticker, closed, call, timers, check, gaveUp>>

\* What stops is the CURRENT ticker, be it l or one started since l's request.
HeartbeatForbidden(l) ==
  /\ loop[l] = "403" /\ "403" \in StopsOn
  /\ closed' = Closed
  /\ ticker' = None
  /\ loop' = [loop EXCEPT ![l] = "wait"]
  /\ gaveUp' = TRUE
  /\ UNCHANGED <<gateway, faults, registeredID, call, timers, check>>

HeartbeatUnknown(l) ==
  /\ loop[l] = "404" /\ "404" \in StopsOn
  /\ registeredID' = FALSE
  /\ closed' = Closed
  /\ ticker' = None
  /\ loop' = [loop EXCEPT ![l] = "wait"]
  /\ timers' = timers + 1
  /\ UNCHANGED <<gateway, faults, call, check, gaveUp>>

----------------------------------------------------------------------------
Registering(c) ==
  TimerFires(c) \/ Check(c) \/ AnswerRegister(c)
  \/ RegisterRefused(c) \/ RegisterAccepted(c) \/ StartHeartbeat(c)
Beating(l) ==
  Tick(l) \/ Heartbeat(l) \/ LoopEnds(l) \/ AnswerHeartbeat(l)
  \/ HeartbeatGoesOn(l) \/ HeartbeatForbidden(l) \/ HeartbeatUnknown(l)

Next ==
  \/ GatewayRestarts \/ GatewayBlocks
  \/ \E c \in Call : Registering(c) \/ RegisterFails(c)
  \/ \E l \in Loop : Beating(l) \/ HeartbeatFails(l)

Spec == Init /\ [][Next]_vars

\* Timers fire, goroutines run, and a request gets an answer or a time-out of
\* 5 or 8 s: a call of register and a loop never stay where they are for ever.
FairSpec ==
  /\ Spec
  /\ \A c \in Call : WF_vars(Registering(c))
  /\ \A l \in Loop : WF_vars(Beating(l))

----------------------------------------------------------------------------
(* Properties *)

\* Only the current ticker runs: whatever registrations and late answers cross,
\* no ticker and its goroutine are left behind unstopped (startHeartbeat).
NoTickerLeaks == \A l \in Loop : loop[l] # "none" /\ l \notin closed => ticker = l

\* The service never falls silent by accident: without heartbeats, and unless the
\* gateway turned it away, a registration is under way or due (register and the
\* answers 403 and 404 of heartbeat).
NeverSilent ==
  (ticker = None /\ ~gaveUp) => timers > 0 \/ \E c \in Call : call[c] # "none"

\* Every 404 and every network error arms a timer, and the start arms two: yet
\* registrations never multiply, because a ticker that is told 404 has stopped.
\* Timers, calls and tickers that can still be told 404 are two at most.
Chains ==
  timers + (IF check = "done" THEN 0 ELSE 1)
    + Cardinality({c \in Call : call[c] # "none"})
    + Cardinality({l \in Loop : loop[l] \in {"tick", "sent", "ok", "403", "404"}
                                 \/ (loop[l] = "wait" /\ l \notin closed)})
RegistrationsNeverMultiply == Chains <= 2

Connected == gateway = "known" /\ registeredID /\ ticker # None

\* Once the faults are over the service ends registered and sending heartbeats,
\* unless the last thing the gateway did was to turn it away: a restart of the
\* gateway and lost answers are always recovered from (404 and network errors).
EndsConnectedUnlessRefused == <>[](Connected \/ gaveUp)

\* "Sur 404 (gateway redemarre) il se re-enregistre" (header of the file): a service
\* that is told 404 ends registered and sending heartbeats again, unless it is blocked.
UnknownIsReregistered ==
  (\E l \in Loop : loop[l] = "404") ~> (Connected \/ gateway = "blocked")

\* A blocked service ends sending no heartbeat ("sur 403 il arrete les heartbeats",
\* header of the file), whatever tickers and registrations were crossing.
BlockedFallsSilent ==
  (gateway = "blocked") ~> [](\A l \in Loop : loop[l] # "sent")
=============================================================================
