-------------------------- MODULE DmArchiveProofs --------------------------
(***************************************************************************)
(* Theorems about DmArchive, for every value of its constants.             *)
(***************************************************************************)
EXTENDS DmArchive, FiniteSetTheorems, TLAPS

(* The values of req[r]. *)
RequestState == [pc : Pcs, mode : Modes, num : Nat, ids : SUBSET Msg,
             log : Log \cup {None}, peer : User \cup {None}, seen : SUBSET User]

(* A handler that has returned has well-typed local variables. *)
LEMMA IdleIsRequest == Idle \in RequestState
  BY DEF Idle, RequestState, Pcs, Modes

(* Live is finite, and its cardinality is at most MaxMsg. *)
LEMMA LiveFinite ==
  ASSUME TypeOK
  PROVE  IsFiniteSet(Live) /\ Cardinality(Live) \in 0..MaxMsg /\ Live \subseteq Msg
<1>1. Live \subseteq Msg
  BY ConstantsAssumption DEF TypeOK, Live, Msg
<1>2. IsFiniteSet(Msg) /\ Cardinality(Msg) = MaxMsg
  BY FS_Interval, ConstantsAssumption DEF Msg
<1>3. IsFiniteSet(Live) /\ Cardinality(Live) <= MaxMsg
  BY <1>1, <1>2, FS_Subset
<1> QED
  BY <1>1, <1>3, FS_CardinalityType

(* What a handler's local variables hold at each of its statements: without *)
(* it the types of the keys it writes could not be established.             *)
Confirming == {"readConfirms", "register", "tally", "dropRows", "dropKeys"}

LocalOK ==
  \A r \in Request :
    /\ req[r].pc = "setStats" => req[r].num \in 0..MaxMsg
    /\ req[r].pc = "key" => req[r].log \in Log
    /\ req[r].pc \in Confirming => req[r].log \in Log /\ req[r].peer \in User

TypeInv == TypeOK /\ LocalOK

(* Before any request, no handler has local variables. *)
LEMMA TypeInvInit == Init => TypeInv
  BY ConstantsAssumption, IdleIsRequest
  DEF Init, TypeInv, TypeOK, LocalOK, Confirming, RequestState, NoStats, Idle

(* Every action keeps the types and the shape of the local variables. *)
LEMMA TypeInvNext == TypeInv /\ [Next]_vars => TypeInv'
  <1> SUFFICES ASSUME TypeOK, LocalOK, [Next]_vars PROVE TypeInv'
    BY DEF TypeInv
  <1> USE ConstantsAssumption
  <1>a. Idle \in RequestState /\ req \in [Request -> RequestState]
    BY IdleIsRequest DEF TypeOK, RequestState
  <1>b. /\ Cardinality(Live) \in 0..MaxMsg
        /\ Cardinality(Live) \in Nat
        /\ Cardinality(Live) > PurgeKeep => Cardinality(Live) - PurgeKeep \in Nat
    BY LiveFinite
  <1>1. ASSUME NEW r \in Request, Create(r) PROVE TypeInv'
    <2>1. req' \in [Request -> RequestState]
      BY <1>a, <1>b, <1>1 DEF Create, Begin, Idle, RequestState, Pcs, Modes
    <2>2. TypeOK'
      BY <1>a, <1>b, <1>1, <2>1 DEF Create, Begin, Idle, TypeOK, LocalOK,
         Confirming, RequestState, NoStats, redisBatches, tables
    <2>3. LocalOK'
      BY <1>a, <1>b, <1>1, <2>1 DEF Create, Begin, Idle, LocalOK, Confirming,
         RequestState, At
    <2> QED
      BY <2>2, <2>3 DEF TypeInv
  <1>2. ASSUME NEW r \in Request, ViewStart(r) PROVE TypeInv'
    <2>1. req' \in [Request -> RequestState]
      BY <1>a, <1>b, <1>2 DEF ViewStart, Begin, Idle, RequestState, Pcs, Modes
    <2>2. TypeOK'
      BY <1>a, <1>b, <1>2, <2>1 DEF ViewStart, Begin, Idle, TypeOK, LocalOK,
         Confirming, RequestState, NoStats, redisBatches, tables
    <2>3. LocalOK'
      BY <1>a, <1>b, <1>2, <2>1 DEF ViewStart, Begin, Idle, LocalOK, Confirming,
         RequestState, At
    <2> QED
      BY <2>2, <2>3 DEF TypeInv
  <1>3. ASSUME NEW r \in Request, AgeStart(r) PROVE TypeInv'
    <2>1. req' \in [Request -> RequestState]
      BY <1>a, <1>b, <1>3 DEF AgeStart, Begin, Idle, RequestState, Pcs, Modes
    <2>2. TypeOK'
      BY <1>a, <1>b, <1>3, <2>1 DEF AgeStart, Begin, Idle, TypeOK, LocalOK,
         Confirming, RequestState, NoStats, redisBatches, tables
    <2>3. LocalOK'
      BY <1>a, <1>b, <1>3, <2>1 DEF AgeStart, Begin, Idle, LocalOK, Confirming,
         RequestState, At
    <2> QED
      BY <2>2, <2>3 DEF TypeInv
  <1>4. ASSUME NEW r \in Request, PurgeStart(r) PROVE TypeInv'
    <2>1. req' \in [Request -> RequestState]
      BY <1>a, <1>b, <1>4 DEF PurgeStart, Begin, Idle, RequestState, Pcs, Modes
    <2>2. TypeOK'
      BY <1>a, <1>b, <1>4, <2>1 DEF PurgeStart, Begin, Idle, TypeOK, LocalOK,
         Confirming, RequestState, NoStats, redisBatches, tables
    <2>3. LocalOK'
      BY <1>a, <1>b, <1>4, <2>1 DEF PurgeStart, Begin, Idle, LocalOK, Confirming,
         RequestState, At
    <2> QED
      BY <2>2, <2>3 DEF TypeInv
  <1>5. ASSUME NEW r \in Request, NEW u \in User, NEW l \in Log, ConfirmStart(r, u, l) PROVE TypeInv'
    <2>1. req' \in [Request -> RequestState]
      BY <1>a, <1>5 DEF ConfirmStart, Idle, RequestState, Pcs, Modes, TypeOK
    <2>2. TypeOK'
      BY <1>a, <1>b, <1>5, <2>1 DEF ConfirmStart, Idle, TypeOK, LocalOK, Confirming,
         RequestState, NoStats, redisBatches, tables
    <2>3. LocalOK'
      BY <1>a, <1>b, <1>5, <2>1 DEF ConfirmStart, Idle, LocalOK, Confirming,
         RequestState, At
    <2> QED
      BY <2>2, <2>3 DEF TypeInv
  <1>6. ASSUME NEW r \in Request, DropStats(r) PROVE TypeInv'
    <2>1. req' \in [Request -> RequestState]
      BY <1>a, <1>b, <1>6 DEF DropStats, Goto, RequestState, Pcs, Modes
    <2>2. TypeOK'
      BY <1>a, <1>b, <1>6, <2>1 DEF DropStats, Goto, TypeOK, LocalOK, Confirming,
         RequestState, NoStats, redisBatches, tables
    <2>3. LocalOK'
      BY <1>a, <1>b, <1>6, <2>1 DEF DropStats, Goto, Idle, LocalOK, Confirming,
         RequestState, At
    <2> QED
      BY <2>2, <2>3 DEF TypeInv
  <1>7. ASSUME NEW r \in Request, StatsHit(r) PROVE TypeInv'
    <2>1. req' \in [Request -> RequestState]
      BY <1>a, <1>b, <1>7 DEF StatsHit, Return, RequestState, Pcs, Modes
    <2>2. TypeOK'
      BY <1>a, <1>b, <1>7, <2>1 DEF StatsHit, Return, TypeOK, LocalOK, Confirming,
         RequestState, NoStats, redisBatches, tables
    <2>3. LocalOK'
      BY <1>a, <1>b, <1>7, <2>1 DEF StatsHit, Return, Idle, LocalOK, Confirming,
         RequestState, At
    <2> QED
      BY <2>2, <2>3 DEF TypeInv
  <1>8a. ASSUME NEW r \in Request, StatsMiss(r) PROVE TypeInv'
    <2>1. req' \in [Request -> RequestState]
      BY <1>a, <1>b, <1>8a DEF StatsMiss, Goto, RequestState, Pcs, Modes
    <2>2. TypeOK'
      BY <1>a, <1>b, <1>8a, <2>1 DEF StatsMiss, Goto, TypeOK, LocalOK, Confirming,
         RequestState, NoStats, redisBatches, tables
    <2>3. LocalOK'
      BY <1>a, <1>b, <1>8a, <2>1 DEF StatsMiss, Goto, Idle, LocalOK, Confirming,
         RequestState, At
    <2> QED
      BY <2>2, <2>3 DEF TypeInv
  <1>8. ASSUME NEW r \in Request, StatsCount(r) PROVE TypeInv'
    <2>1. req' \in [Request -> RequestState]
      <3>1. [req[r] EXCEPT !.pc = "setStats", !.num = Cardinality(Live)] \in RequestState
        BY <1>a, <1>b DEF RequestState, Pcs
      <3> QED
        BY <1>a, <1>8, <3>1 DEF StatsCount
    <2>2. TypeOK'
      BY <1>a, <1>b, <1>8, <2>1 DEF StatsCount, TypeOK, LocalOK, Confirming,
         RequestState, NoStats, redisBatches, tables
    <2>3. LocalOK'
      BY <1>a, <1>b, <1>8, <2>1 DEF StatsCount, Idle, LocalOK, Confirming,
         RequestState, At
    <2> QED
      BY <2>2, <2>3 DEF TypeInv
  <1>9. ASSUME NEW r \in Request, SetStats(r) PROVE TypeInv'
    <2>1. req' \in [Request -> RequestState]
      BY <1>a, <1>b, <1>9 DEF SetStats, Return, Goto, At, RequestState, Pcs, Modes
    <2>2. TypeOK'
      BY <1>a, <1>b, <1>9, <2>1 DEF SetStats, Return, Goto, At, TypeOK, LocalOK,
         Confirming, RequestState, NoStats, redisBatches, tables
    <2>3. LocalOK'
      BY <1>a, <1>b, <1>9, <2>1 DEF SetStats, Return, Goto, At, Idle, LocalOK,
         Confirming, RequestState, At
    <2> QED
      BY <2>2, <2>3 DEF TypeInv
  <1>10. ASSUME NEW r \in Request, Quota(r) PROVE TypeInv'
    <2>1. req' \in [Request -> RequestState]
      BY <1>a, <1>b, <1>10 DEF Quota, OverQuota, Excess, Return, RequestState, Pcs,
         Modes
    <2>2. TypeOK'
      BY <1>a, <1>b, <1>10, <2>1 DEF Quota, OverQuota, Excess, Return, TypeOK,
         LocalOK, Confirming, RequestState, NoStats, redisBatches, tables
    <2>3. LocalOK'
      BY <1>a, <1>b, <1>10, <2>1 DEF Quota, OverQuota, Excess, Return, Idle,
         LocalOK, Confirming, RequestState, At
    <2> QED
      BY <2>2, <2>3 DEF TypeInv
  <1>11. ASSUME NEW r \in Request, Select(r) PROVE TypeInv'
    <2>1. req' \in [Request -> RequestState]
      BY <1>a, <1>b, <1>11, LiveFinite DEF Select, Return, OldestOf, RequestState,
         Pcs, Modes
    <2>2. TypeOK'
      BY <1>a, <1>b, <1>11, <2>1 DEF Select, Return, OldestOf, TypeOK, LocalOK,
         Confirming, RequestState, NoStats, redisBatches, tables
    <2>3. LocalOK'
      BY <1>a, <1>b, <1>11, <2>1 DEF Select, Return, OldestOf, Idle, LocalOK,
         Confirming, RequestState, At
    <2> QED
      BY <2>2, <2>3 DEF TypeInv
  <1>12. ASSUME NEW r \in Request, WriteLog(r) PROVE TypeInv'
    <2>1. req' \in [Request -> RequestState]
      <3>1. PICK l \in Log : req' = [req EXCEPT ![r].pc = "key", ![r].log = l]
        BY <1>12 DEF WriteLog
      <3>2. [req[r] EXCEPT !.pc = "key", !.log = l] \in RequestState
        BY <1>a DEF RequestState, Pcs
      <3> QED
        BY <1>a, <3>1, <3>2
    <2>2. TypeOK'
      BY <1>a, <1>b, <1>12, <2>1 DEF WriteLog, TypeOK, LocalOK, Confirming,
         RequestState, NoStats, redisBatches, tables
    <2>3. LocalOK'
      BY <1>a, <1>b, <1>12, <2>1 DEF WriteLog, Idle, LocalOK, Confirming,
         RequestState, At
    <2> QED
      BY <2>2, <2>3 DEF TypeInv
  <1>13. ASSUME NEW r \in Request, WriteBatch(r) PROVE TypeInv'
    <2>1. req' \in [Request -> RequestState]
      BY <1>a, <1>b, <1>13 DEF WriteBatch, Return, At, RequestState, Pcs, Modes
    <2>2. TypeOK'
      BY <1>a, <1>b, <1>13, <2>1 DEF WriteBatch, Return, At, TypeOK, LocalOK,
         Confirming, RequestState, NoStats, redisBatches, tables
    <2>3. LocalOK'
      BY <1>a, <1>b, <1>13, <2>1 DEF WriteBatch, Return, At, Idle, LocalOK,
         Confirming, RequestState, At
    <2> QED
      BY <2>2, <2>3 DEF TypeInv
  <1>14. ASSUME NEW r \in Request, ReadConfirms(r) PROVE TypeInv'
    <2>1. req' \in [Request -> RequestState]
      <3> DEFINE l == req[r].log
                 known == IF confirmTTL[l] > 0 THEN confirms[l] ELSE {}
      <3>1. known \in SUBSET User
        BY <1>a, <1>14 DEF ReadConfirms, At, LocalOK, Confirming, TypeOK
      <3>2. [req[r] EXCEPT !.pc = "register", !.seen = known] \in RequestState
        BY <1>a, <3>1 DEF RequestState, Pcs
      <3> QED
        BY <1>a, <1>14, <3>2 DEF ReadConfirms
    <2>2. TypeOK'
      BY <1>a, <1>b, <1>14, <2>1 DEF ReadConfirms, At, TypeOK, LocalOK, Confirming,
         RequestState, NoStats, redisBatches, tables
    <2>3. LocalOK'
      BY <1>a, <1>b, <1>14, <2>1 DEF ReadConfirms, At, Idle, LocalOK, Confirming,
         RequestState, At
    <2> QED
      BY <2>2, <2>3 DEF TypeInv
  <1>15. ASSUME NEW r \in Request, Register(r) PROVE TypeInv'
    <2>1. req' \in [Request -> RequestState]
      <3> DEFINE all == req[r].seen \cup {req[r].peer}
      <3>1. all \in SUBSET User
        BY <1>a, <1>15 DEF Register, At, LocalOK, Confirming, RequestState
      <3>2. [req[r] EXCEPT !.pc = "tally", !.seen = all] \in RequestState
        BY <1>a, <3>1 DEF RequestState, Pcs
      <3> QED
        BY <1>a, <1>15, <3>2 DEF Register
    <2>2. TypeOK'
      BY <1>a, <1>b, <1>15, <2>1 DEF Register, FreshLife, At, TypeOK, LocalOK,
         Confirming, RequestState, NoStats, redisBatches, tables
    <2>3. LocalOK'
      BY <1>a, <1>b, <1>15, <2>1 DEF Register, FreshLife, At, Idle, LocalOK,
         Confirming, RequestState, At
    <2> QED
      BY <2>2, <2>3 DEF TypeInv
  <1>16. ASSUME NEW r \in Request, Tally(r) PROVE TypeInv'
    <2>1. req' \in [Request -> RequestState]
      BY <1>a, <1>b, <1>16 DEF Tally, Goto, Return, At, RequestState, Pcs, Modes
    <2>2. TypeOK'
      BY <1>a, <1>b, <1>16, <2>1 DEF Tally, Goto, Return, At, TypeOK, LocalOK,
         Confirming, RequestState, NoStats, redisBatches, tables
    <2>3. LocalOK'
      BY <1>a, <1>b, <1>16, <2>1 DEF Tally, Goto, Return, At, Idle, LocalOK,
         Confirming, RequestState, At
    <2> QED
      BY <2>2, <2>3 DEF TypeInv
  <1>17. ASSUME NEW r \in Request, DropRows(r) PROVE TypeInv'
    <2>1. req' \in [Request -> RequestState]
      BY <1>a, <1>b, <1>17 DEF DropRows, Goto, At, RequestState, Pcs, Modes
    <2>2. TypeOK'
      BY <1>a, <1>b, <1>17, <2>1 DEF DropRows, Goto, At, TypeOK, LocalOK,
         Confirming, RequestState, NoStats, redisBatches, tables
    <2>3. LocalOK'
      BY <1>a, <1>b, <1>17, <2>1 DEF DropRows, Goto, At, Idle, LocalOK, Confirming,
         RequestState, At
    <2> QED
      BY <2>2, <2>3 DEF TypeInv
  <1>18. ASSUME NEW r \in Request, DropKeys(r) PROVE TypeInv'
    <2>1. req' \in [Request -> RequestState]
      BY <1>a, <1>b, <1>18 DEF DropKeys, Return, At, RequestState, Pcs, Modes
    <2>2. TypeOK'
      BY <1>a, <1>b, <1>18, <2>1 DEF DropKeys, Return, At, TypeOK, LocalOK,
         Confirming, RequestState, NoStats, redisBatches, tables
    <2>3. LocalOK'
      BY <1>a, <1>b, <1>18, <2>1 DEF DropKeys, Return, At, Idle, LocalOK,
         Confirming, RequestState, At
    <2> QED
      BY <2>2, <2>3 DEF TypeInv
  <1>19. ASSUME NEW r \in Request, Fail(r) PROVE TypeInv'
    <2>1. req' \in [Request -> RequestState]
      BY <1>a, <1>b, <1>19 DEF Fail, Return, RequestState, Pcs, Modes
    <2>2. TypeOK'
      BY <1>a, <1>b, <1>19, <2>1 DEF Fail, Return, TypeOK, LocalOK, Confirming,
         RequestState, NoStats, redisBatches, tables
    <2>3. LocalOK'
      BY <1>a, <1>b, <1>19, <2>1 DEF Fail, Return, Idle, LocalOK, Confirming,
         RequestState, At
    <2> QED
      BY <2>2, <2>3 DEF TypeInv
  <1>20. ASSUME NEW m \in Msg, SoftDelete(m) PROVE TypeInv'
    BY <1>20 DEF SoftDelete, TypeInv, TypeOK, LocalOK, Live, Sooner, NoStats,
       redisBatches, tables
  <1>21. ASSUME NEW u \in User, Leave(u) PROVE TypeInv'
    BY <1>21 DEF Leave, TypeInv, TypeOK, LocalOK, Live, Sooner, NoStats,
       redisBatches, tables
  <1>22. ASSUME Tick PROVE TypeInv'
    BY <1>22 DEF Tick, TypeInv, TypeOK, LocalOK, Live, Sooner, NoStats,
       redisBatches, tables
  <1>23. ASSUME StatsExpire PROVE TypeInv'
    BY <1>23 DEF StatsExpire, TypeInv, TypeOK, LocalOK, Live, Sooner, NoStats,
       redisBatches, tables
  <1>24. CASE UNCHANGED vars
    BY <1>24 DEF vars, TypeInv, TypeOK, LocalOK
  <1> QED
    BY <1>1, <1>2, <1>3, <1>4, <1>5, <1>6, <1>7, <1>8, <1>8a, <1>9, <1>10, <1>11,
       <1>12, <1>13, <1>14, <1>15, <1>16, <1>17, <1>18, <1>19, <1>20, <1>21,
       <1>22, <1>23, <1>24 DEF Next, Step

(* Every local variable of a handler and every key and table keeps its type. *)
THEOREM TypeCorrect == Spec => []TypeOK
<1>1. Spec => []TypeInv
  BY TypeInvInit, TypeInvNext, PTL DEF Spec
<1> QED
  BY <1>1, PTL DEF TypeInv

----------------------------------------------------------------------------
(***************************************************************************)
(* NoHoles.  A batch is a set of messages older than every live message    *)
(* outside it; this survives new messages (they are younger), logical      *)
(* deletions and the removal of other batches, so a batch may be deleted   *)
(* long after it was selected and still takes the oldest end.              *)
(***************************************************************************)
Oldest(S) == S \subseteq 1..lastId /\ \A m \in Live \ S, k \in S : k < m

OldestInv ==
  /\ \A l \in Log : Oldest(batch[l])
  /\ \A r \in Request : Oldest(req[r].ids)
  /\ NoHoles

(* LIMIT n of an ascending order returns an oldest set. *)
LEMMA OldestOfIsOldest ==
  ASSUME TypeOK, NEW n \in Nat
  PROVE  Oldest(OldestOf(n))
<1> DEFINE Below(m) == {k \in Live : k < m}
<1>1. /\ IsFiniteSet(Live) /\ Live \subseteq 1..lastId /\ lastId \in Nat
  BY LiveFinite, ConstantsAssumption DEF TypeOK, Live
<1>2. ASSUME NEW m \in Live \ OldestOf(n), NEW k \in OldestOf(n), ~(k < m)
      PROVE  FALSE
  <2>1. m \in Int /\ k \in Int /\ k \in Live /\ m < k
    BY <1>1, <1>2 DEF OldestOf
  <2>2. Below(m) \subseteq Below(k) /\ Below(k) \subseteq Live
    <3>1. ASSUME NEW x \in Below(m) PROVE x \in Below(k)
      <4>1. x \in Int /\ x \in Live /\ x < m
        BY <1>1
      <4> QED
        BY <2>1, <4>1
    <3> QED
      BY <3>1
  <2>3. Cardinality(Below(m)) <= Cardinality(Below(k))
    BY <1>1, <2>2, FS_Subset
  <2>4. Cardinality(Below(m)) \in Nat /\ Cardinality(Below(k)) \in Nat
    BY <1>1, <2>2, FS_Subset, FS_CardinalityType
  <2>5. Cardinality(Below(k)) < n /\ ~(Cardinality(Below(m)) < n)
    BY <1>2 DEF OldestOf
  <2> QED
    BY <2>3, <2>4, <2>5
<1> QED
  BY <1>1, <1>2 DEF Oldest, OldestOf

(* Which steps change the tables of messages, and how. *)
LEMMA TablesFrame ==
  ASSUME [Next]_vars
  PROVE  \/ \E r \in Request : Create(r)
         \/ \E r \in Request : DropRows(r)
         \/ \E m \in Msg : SoftDelete(m)
         \/ UNCHANGED <<rows, softDeleted, lastId>>
<1>1. ASSUME NEW r \in Request, ViewStart(r) \/ AgeStart(r) \/ PurgeStart(r) \/ Fail(r)
      PROVE  UNCHANGED <<rows, softDeleted, lastId>>
  BY <1>1 DEF tables, ViewStart, AgeStart, PurgeStart, Fail
<1>2. ASSUME NEW r \in Request, NEW u \in User, NEW l \in Log, ConfirmStart(r, u, l)
      PROVE  UNCHANGED <<rows, softDeleted, lastId>>
  BY <1>2 DEF tables, ConfirmStart
<1>3. ASSUME NEW r \in Request, Step(r)
      PROVE  DropRows(r) \/ UNCHANGED <<rows, softDeleted, lastId>>
  BY <1>3 DEF Step, tables, DropStats, StatsHit, StatsMiss, StatsCount, SetStats, Quota, Select, WriteLog,
              WriteBatch, ReadConfirms, Register, Tally, DropKeys
<1>4. ASSUME (\E u \in User : Leave(u)) \/ Tick \/ StatsExpire \/ UNCHANGED vars
      PROVE  UNCHANGED <<rows, softDeleted, lastId>>
  BY <1>4 DEF tables, Leave, Tick, StatsExpire, vars
<1> QED
  BY <1>1, <1>2, <1>3, <1>4 DEF Next

(* A batch is only ever written by archiveOldMessages, with what it selected. *)
LEMMA BatchFrame ==
  ASSUME TypeInv, [Next]_vars, NEW l \in Log
  PROVE  batch'[l] = batch[l] \/ \E r \in Request : WriteBatch(r) /\ l = req[r].log
                                                   /\ batch'[l] = req[r].ids
<1>1. batch \in [Log -> SUBSET Msg]
  BY DEF TypeInv, TypeOK
<1>2. ASSUME NEW r \in Request, WriteBatch(r)
      PROVE  batch'[l] = batch[l] \/ (l = req[r].log /\ batch'[l] = req[r].ids)
  BY <1>1, <1>2 DEF WriteBatch
<1>3. (\E r \in Request : WriteBatch(r)) \/ batch' = batch
  BY DEF Next, Step, vars, redisBatches, Create, ViewStart, AgeStart, PurgeStart,
         ConfirmStart, DropStats, StatsHit, StatsMiss, StatsCount, SetStats, Quota, Select, WriteLog,
         ReadConfirms, Register, Tally, DropRows, DropKeys, Fail, SoftDelete, Leave, Tick,
         StatsExpire
<1> QED
  BY <1>2, <1>3

(* A handler's list of messages is kept, dropped, selected or read from a key. *)
LEMMA IdsFrame ==
  ASSUME TypeInv, [Next]_vars, NEW r \in Request
  PROVE  \/ req'[r].ids = req[r].ids
         \/ req'[r].ids = {}
         \/ \E n \in Nat : req'[r].ids = OldestOf(n)
         \/ \E l \in Log : req'[r].ids = batch[l]
<1>1. req \in [Request -> RequestState]
  BY DEF TypeInv, TypeOK, RequestState
<1>2. CASE UNCHANGED req
  BY <1>2
<1>3. ASSUME NEW s \in Request,
             \/ Create(s) \/ ViewStart(s) \/ AgeStart(s) \/ PurgeStart(s)
             \/ WriteBatch(s) \/ DropKeys(s) \/ Fail(s)
      PROVE  req'[r].ids = req[r].ids \/ req'[r].ids = {}
  <2>1. ASSUME NEW pc, NEW mode, NEW num, Begin(s, pc, mode, num)
        PROVE  req'[r].ids = req[r].ids \/ req'[r].ids = {}
    BY <1>1, <2>1 DEF Begin, Idle, RequestState
  <2>2. ASSUME Return(s)
        PROVE  req'[r].ids = req[r].ids \/ req'[r].ids = {}
    BY <1>1, <2>2 DEF Return, Idle, RequestState
  <2>3. CASE WriteBatch(s) \/ DropKeys(s) \/ Fail(s)
    BY <2>2, <2>3 DEF WriteBatch, DropKeys, Fail
  <2>4. CASE Create(s) \/ ViewStart(s) \/ AgeStart(s) \/ PurgeStart(s)
    BY <2>1, <2>4 DEF Create, ViewStart, AgeStart, PurgeStart
  <2> QED
    BY <1>3, <2>3, <2>4
<1>4. ASSUME NEW s \in Request,
             \/ DropStats(s) \/ StatsHit(s) \/ StatsMiss(s) \/ StatsCount(s) \/ SetStats(s) \/ Quota(s)
             \/ WriteLog(s) \/ ReadConfirms(s) \/ Register(s) \/ Tally(s) \/ DropRows(s)
      PROVE  req'[r].ids = req[r].ids \/ req'[r].ids = {}
  BY <1>1, <1>4 DEF DropStats, StatsHit, StatsMiss, StatsCount, SetStats, Quota, WriteLog,
                   ReadConfirms, Register, Tally, DropRows, Goto, Return, Idle, RequestState
<1>5. ASSUME NEW s \in Request, Select(s)
      PROVE  \/ req'[r].ids = req[r].ids
             \/ req'[r].ids = {}
             \/ req'[r].ids = OldestOf(req[s].num) /\ req[s].num \in Nat
  BY <1>1, <1>5 DEF Select, Return, Idle, RequestState
<1>6. ASSUME NEW s \in Request, NEW u \in User, NEW l \in Log, ConfirmStart(s, u, l)
      PROVE  req'[r].ids = req[r].ids \/ req'[r].ids = batch[l]
  BY <1>1, <1>6 DEF ConfirmStart, Idle, RequestState
<1>7. ASSUME (\E m \in Msg : SoftDelete(m)) \/ (\E u \in User : Leave(u)) \/ Tick \/ StatsExpire
      PROVE  UNCHANGED req
  BY <1>7 DEF SoftDelete, Leave, Tick, StatsExpire
<1> QED
  BY <1>2, <1>3, <1>4, <1>5, <1>6, <1>7 DEF Next, Step, vars

(* Every step keeps an oldest set oldest. *)
LEMMA OldestKept ==
  ASSUME TypeOK, [Next]_vars, NEW S, Oldest(S)
  PROVE  Oldest(S)'
<1>0. lastId \in Nat /\ rows \subseteq 1..lastId /\ softDeleted \subseteq rows
  BY ConstantsAssumption DEF TypeOK
<1>1. ASSUME NEW r \in Request, Create(r) PROVE Oldest(S)'
  BY <1>0, <1>1 DEF Create, Oldest, Live
<1>2. ASSUME NEW r \in Request, DropRows(r) PROVE Oldest(S)'
  BY <1>0, <1>2 DEF DropRows, Oldest, Live
<1>3. ASSUME NEW m \in Msg, SoftDelete(m) PROVE Oldest(S)'
  BY <1>0, <1>3 DEF SoftDelete, Oldest, Live
<1>4. CASE UNCHANGED <<rows, softDeleted, lastId>>
  BY <1>4 DEF Oldest, Live
<1> QED
  BY <1>1, <1>2, <1>3, <1>4, TablesFrame

(* The three parts of OldestInv hold each other up. *)
LEMMA OldestInvNext == TypeInv /\ OldestInv /\ [Next]_vars => OldestInv'
  <1> SUFFICES ASSUME TypeInv, OldestInv, [Next]_vars PROVE OldestInv'
    OBVIOUS
  <1>0. TypeOK /\ lastId \in Nat /\ rows \subseteq 1..lastId
    BY ConstantsAssumption DEF TypeInv, TypeOK
  <1>1. ASSUME NEW l \in Log PROVE Oldest(batch[l])'
    <2>1. Oldest(batch'[l])
      BY BatchFrame DEF OldestInv
    <2>2. \A S : Oldest(S) => Oldest(S)'
      BY <1>0, OldestKept
    <2> QED
      BY <2>1, <2>2 DEF Oldest, Live
  <1>2. ASSUME NEW r \in Request PROVE Oldest(req[r].ids)'
    <2>1. Oldest({})
      BY DEF Oldest
    <2>2. Oldest(req'[r].ids)
      BY <1>0, <2>1, IdsFrame, OldestOfIsOldest DEF OldestInv
    <2>3. \A S : Oldest(S) => Oldest(S)'
      BY <1>0, OldestKept
    <2> QED
      BY <2>2, <2>3 DEF Oldest, Live
  <1>3. NoHoles'
    <2>1. ASSUME NEW r \in Request, Create(r) PROVE NoHoles'
      BY <1>0, <2>1 DEF Create, NoHoles, OldestInv, Removed, Live, TypeOK
    <2>2. ASSUME NEW r \in Request, DropRows(r) PROVE NoHoles'
      <3>1. Oldest(req[r].ids)
        BY DEF OldestInv
      <3> QED
        BY <1>0, <2>2, <3>1 DEF DropRows, NoHoles, OldestInv, Oldest, Removed, Live
    <2>3. ASSUME NEW m \in Msg, SoftDelete(m) PROVE NoHoles'
      BY <2>3 DEF SoftDelete, NoHoles, OldestInv, Removed, Live
    <2>4. CASE UNCHANGED <<rows, softDeleted, lastId>>
      BY <2>4 DEF NoHoles, OldestInv, Removed, Live
    <2> QED
      BY <2>1, <2>2, <2>3, <2>4, TablesFrame
  <1> QED
    BY <1>1, <1>2, <1>3 DEF OldestInv

(* The conversation is only ever shortened from its oldest end, whatever     *)
(* batches overlap, whoever confirms, leaves or deletes, whatever fails.     *)
THEOREM HistoryHasNoHoles == Spec => []NoHoles
<1>1. Init => OldestInv
  BY DEF Init, OldestInv, Oldest, NoHoles, Removed, Live, Idle
<1>2. Spec => []TypeInv
  BY TypeInvInit, TypeInvNext, PTL DEF Spec
<1>3. Spec => []OldestInv
  BY <1>1, <1>2, OldestInvNext, PTL DEF Spec
<1> QED
  BY <1>3, PTL DEF OldestInv

----------------------------------------------------------------------------
(***************************************************************************)
(* RemovalConfirmedByAll, while nobody leaves the conversation.  What a    *)
(* confirming handler has read is always a part of what was registered, so *)
(* the list it counts names only users who confirmed THIS batch; and the   *)
(* identifiers of logs are fresh, so a batch is written once and no        *)
(* confirmation of one batch can count for another.                        *)
(***************************************************************************)
KeysInv ==
  \A l \in Log :
    /\ l \notin logged => batch[l] = {}
    /\ batch[l] = {} => batchTTL[l] = 0 /\ registered[l] = {}
    /\ confirms[l] \subseteq registered[l]

HandlersInv ==
  \A r \in Request :
    /\ req[r].pc = "log" => req[r].ids # {}
    /\ req[r].pc = "key" =>
         /\ req[r].ids # {} /\ req[r].log \in logged /\ batch[req[r].log] = {}
         /\ \A s \in Request : req[s].pc = "key" /\ req[s].log = req[r].log => s = r
    /\ req[r].pc \in Confirming =>
         req[r].ids = batch[req[r].log] /\ batch[req[r].log] # {}
    /\ req[r].pc \in {"register", "tally"} => req[r].seen \subseteq registered[req[r].log]
    /\ req[r].pc = "dropRows" => registered[req[r].log] = User

ConfirmInv ==
  /\ members = User
  /\ KeysInv
  /\ HandlersInv

(* Only all the users together outnumber the participants. *)
LEMMA EnoughIsAll ==
  ASSUME members = User, NEW who \in SUBSET User, EnoughConfirms(who)
  PROVE  who = User
<1>1. Cardinality(who) <= Cardinality(User) /\ (Cardinality(who) = Cardinality(User) => who = User)
  BY FS_Subset, ConstantsAssumption
<1>2. Cardinality(who) \in Nat /\ Cardinality(User) \in Nat
  BY FS_Subset, FS_CardinalityType, ConstantsAssumption
<1> QED
  BY <1>1, <1>2 DEF EnoughConfirms

(* Nothing is confirmed or offered at first. *)
LEMMA ConfirmInvInit == Init => ConfirmInv
  BY DEF Init, ConfirmInv, KeysInv, HandlersInv, Confirming, Idle

(* A handler disturbs nobody when it returns, or moves to a statement          *)
(* HandlersInv says nothing of, or to the deletion of a batch all confirmed.   *)
LEMMA MoveKeepsHandlers ==
  ASSUME NEW r \in Request, HandlersInv, UNCHANGED <<batch, registered, logged>>,
         \A s \in Request : s # r => req'[s] = req[s],
         req'[r].pc \notin {"log", "key"} \cup (Confirming \ {"dropRows"}),
         req'[r].pc = "dropRows" =>
           /\ req'[r].ids = batch[req'[r].log] /\ batch[req'[r].log] # {}
           /\ registered[req'[r].log] = User
  PROVE  HandlersInv'
  BY DEF HandlersInv, Confirming

(* In particular when it returns. *)
LEMMA ReturnKeepsHandlers ==
  ASSUME NEW r \in Request, Return(r), req \in [Request -> RequestState], HandlersInv,
         UNCHANGED <<batch, registered, logged>>
  PROVE  HandlersInv'
<1>1. req'[r].pc = "idle" /\ \A s \in Request : s # r => req'[s] = req[s]
  BY DEF Return, Idle
<1> QED
  BY <1>1, MoveKeepsHandlers DEF Confirming

(* Every action but Leave keeps what is known of the confirmations. *)
LEMMA ConfirmInvNext ==
  ASSUME ~MayLeave, TypeInv, ConfirmInv, [Next]_vars
  PROVE  ConfirmInv'
  <1> USE ConstantsAssumption
  <1>a. /\ req \in [Request -> RequestState]
        /\ members = User
        /\ batch \in [Log -> SUBSET Msg] /\ registered \in [Log -> SUBSET User]
        /\ confirms \in [Log -> SUBSET User]
        /\ batchTTL \in [Log -> 0..KeyTTL] /\ confirmTTL \in [Log -> 0..KeyTTL]
    BY DEF TypeInv, TypeOK, RequestState, ConfirmInv
  <1>1. ASSUME NEW r \in Request, Create(r) PROVE ConfirmInv'
    <2>1. members' = User /\ KeysInv'
      BY <1>a, <1>1 DEF Create, ConfirmInv, KeysInv, HandlersInv, Confirming,
             TypeInv, LocalOK, At, redisBatches, tables, RequestState
    <2>2. HandlersInv'
      BY <1>a, <1>1 DEF Create, Begin, Idle, ConfirmInv, KeysInv, HandlersInv,
             Confirming, TypeInv, LocalOK, redisBatches, tables, RequestState
    <2> QED
      BY <2>1, <2>2 DEF ConfirmInv
  <1>2. ASSUME NEW r \in Request, ViewStart(r) PROVE ConfirmInv'
    <2>1. members' = User /\ KeysInv'
      BY <1>a, <1>2 DEF ViewStart, ConfirmInv, KeysInv, HandlersInv,
             Confirming, TypeInv, LocalOK, At, redisBatches, tables, RequestState
    <2>2. HandlersInv'
      BY <1>a, <1>2 DEF ViewStart, Begin, Idle, ConfirmInv, KeysInv,
             HandlersInv, Confirming, TypeInv, LocalOK, redisBatches, tables,
             RequestState
    <2> QED
      BY <2>1, <2>2 DEF ConfirmInv
  <1>3. ASSUME NEW r \in Request, AgeStart(r) PROVE ConfirmInv'
    <2>1. members' = User /\ KeysInv'
      BY <1>a, <1>3 DEF AgeStart, ConfirmInv, KeysInv, HandlersInv,
             Confirming, TypeInv, LocalOK, At, redisBatches, tables, RequestState
    <2>2. HandlersInv'
      BY <1>a, <1>3 DEF AgeStart, Begin, Idle, ConfirmInv, KeysInv,
             HandlersInv, Confirming, TypeInv, LocalOK, redisBatches, tables,
             RequestState
    <2> QED
      BY <2>1, <2>2 DEF ConfirmInv
  <1>4. ASSUME NEW r \in Request, PurgeStart(r) PROVE ConfirmInv'
    <2>1. members' = User /\ KeysInv'
      BY <1>a, <1>4 DEF PurgeStart, ConfirmInv, KeysInv, HandlersInv,
             Confirming, TypeInv, LocalOK, At, redisBatches, tables, RequestState
    <2>2. HandlersInv'
      BY <1>a, <1>4 DEF PurgeStart, Begin, Idle, ConfirmInv, KeysInv,
             HandlersInv, Confirming, TypeInv, LocalOK, redisBatches, tables,
             RequestState
    <2> QED
      BY <2>1, <2>2 DEF ConfirmInv
  <1>5. ASSUME NEW r \in Request, NEW u \in User, NEW l \in Log, ConfirmStart(r, u, l) PROVE ConfirmInv'
    <2>1. members' = User /\ KeysInv'
      BY <1>a, <1>5 DEF ConfirmStart, ConfirmInv, KeysInv, HandlersInv,
             Confirming, TypeInv, LocalOK, At, redisBatches, tables, RequestState
    <2>2. HandlersInv'
      BY <1>a, <1>5 DEF ConfirmStart, Idle, Confirmable, ConfirmInv, KeysInv,
             HandlersInv, Confirming, TypeInv, LocalOK, redisBatches, tables,
             RequestState
    <2> QED
      BY <2>1, <2>2 DEF ConfirmInv
  <1>6. ASSUME NEW r \in Request, DropStats(r) PROVE ConfirmInv'
    <2>1. members' = User /\ KeysInv'
      BY <1>a, <1>6 DEF DropStats, ConfirmInv, KeysInv, HandlersInv,
             Confirming, TypeInv, LocalOK, At, redisBatches, tables, RequestState
    <2>2. HandlersInv'
      BY <1>a, <1>6 DEF DropStats, Goto, At, ConfirmInv, KeysInv, HandlersInv,
             Confirming, TypeInv, LocalOK, redisBatches, tables, RequestState
    <2> QED
      BY <2>1, <2>2 DEF ConfirmInv
  <1>7. ASSUME NEW r \in Request, StatsHit(r) PROVE ConfirmInv'
    <2>1. members' = User /\ KeysInv'
      BY <1>a, <1>7 DEF StatsHit, ConfirmInv, KeysInv, HandlersInv,
             Confirming, TypeInv, LocalOK, At, redisBatches, tables, RequestState
    <2>2. HandlersInv'
      <3>1. UNCHANGED <<batch, registered, logged>>
        BY <1>7 DEF StatsHit, redisBatches
      <3>2. CASE Return(r)
        BY <1>a, <3>1, <3>2, ReturnKeepsHandlers DEF ConfirmInv
      <3>3. CASE req' = [req EXCEPT ![r].pc = "quota", ![r].num = statsCache]
        <4>1. req'[r].pc = "quota" /\ \A s \in Request : s # r => req'[s] = req[s]
          BY <1>a, <3>3 DEF RequestState
        <4> QED
          BY <1>a, <3>1, <4>1, MoveKeepsHandlers DEF ConfirmInv, Confirming
      <3> QED
        BY <1>7, <3>2, <3>3 DEF StatsHit
    <2> QED
      BY <2>1, <2>2 DEF ConfirmInv
  <1>8a. ASSUME NEW r \in Request, StatsMiss(r) PROVE ConfirmInv'
    <2>1. members' = User /\ KeysInv'
      BY <1>a, <1>8a DEF StatsMiss, Goto, ConfirmInv, KeysInv, HandlersInv,
             Confirming, TypeInv, LocalOK, At, redisBatches, tables, RequestState
    <2>2. HandlersInv'
      BY <1>a, <1>8a DEF StatsMiss, Goto, At, ConfirmInv, KeysInv, HandlersInv,
             Confirming, TypeInv, LocalOK, redisBatches, tables, RequestState
    <2> QED
      BY <2>1, <2>2 DEF ConfirmInv
  <1>8. ASSUME NEW r \in Request, StatsCount(r) PROVE ConfirmInv'
    <2>1. members' = User /\ KeysInv'
      BY <1>a, <1>8 DEF StatsCount, ConfirmInv, KeysInv, HandlersInv,
             Confirming, TypeInv, LocalOK, At, redisBatches, tables, RequestState
    <2>2. HandlersInv'
      BY <1>a, <1>8 DEF StatsCount, At, ConfirmInv, KeysInv, HandlersInv,
             Confirming, TypeInv, LocalOK, redisBatches, tables, RequestState
    <2> QED
      BY <2>1, <2>2 DEF ConfirmInv
  <1>9. ASSUME NEW r \in Request, SetStats(r) PROVE ConfirmInv'
    <2>1. members' = User /\ KeysInv'
      BY <1>a, <1>9 DEF SetStats, ConfirmInv, KeysInv, HandlersInv,
             Confirming, TypeInv, LocalOK, At, redisBatches, tables, RequestState
    <2>2. HandlersInv'
      BY <1>a, <1>9 DEF SetStats, Return, Idle, Goto, At, ConfirmInv, KeysInv,
             HandlersInv, Confirming, TypeInv, LocalOK, redisBatches, tables,
             RequestState
    <2> QED
      BY <2>1, <2>2 DEF ConfirmInv
  <1>10. ASSUME NEW r \in Request, Quota(r) PROVE ConfirmInv'
    <2>1. members' = User /\ KeysInv'
      BY <1>a, <1>10 DEF Quota, ConfirmInv, KeysInv, HandlersInv, Confirming,
             TypeInv, LocalOK, At, redisBatches, tables, RequestState
    <2>2. HandlersInv'
      <3>1. UNCHANGED <<batch, registered, logged>>
        BY <1>10 DEF Quota, redisBatches
      <3>2. CASE Return(r)
        BY <1>a, <3>1, <3>2, ReturnKeepsHandlers DEF ConfirmInv
      <3>3. ASSUME NEW n, req' = [req EXCEPT ![r].pc = "select", ![r].num = n]
            PROVE  HandlersInv'
        <4>1. req'[r].pc = "select" /\ \A s \in Request : s # r => req'[s] = req[s]
          BY <1>a, <3>3 DEF RequestState
        <4> QED
          BY <1>a, <3>1, <4>1, MoveKeepsHandlers DEF ConfirmInv, Confirming
      <3>4. \/ Return(r)
            \/ \E n : req' = [req EXCEPT ![r].pc = "select", ![r].num = n]
        BY <1>10 DEF Quota
      <3> QED
        BY <3>2, <3>3, <3>4
    <2> QED
      BY <2>1, <2>2 DEF ConfirmInv
  <1>11. ASSUME NEW r \in Request, Select(r) PROVE ConfirmInv'
    <2>1. members' = User /\ KeysInv'
      BY <1>a, <1>11 DEF Select, ConfirmInv, KeysInv, HandlersInv, Confirming,
             TypeInv, LocalOK, At, redisBatches, tables, RequestState
    <2>2. HandlersInv'
      <3>1. UNCHANGED <<batch, registered, logged>>
        BY <1>11 DEF Select, redisBatches
      <3>2. CASE Return(r)
        BY <1>a, <3>1, <3>2, ReturnKeepsHandlers DEF ConfirmInv
      <3>3. ASSUME ~Return(r) PROVE HandlersInv'
        <4>1. /\ req'[r].pc = "log" /\ req'[r].ids # {}
              /\ \A s \in Request : s # r => req'[s] = req[s]
          BY <1>a, <1>11, <3>3 DEF Select, RequestState
        <4> QED
          BY <3>1, <4>1 DEF ConfirmInv, HandlersInv, Confirming
      <3> QED
        BY <3>2, <3>3
    <2> QED
      BY <2>1, <2>2 DEF ConfirmInv
  <1>12. ASSUME NEW r \in Request, WriteLog(r) PROVE ConfirmInv'
    <2>1. members' = User /\ KeysInv'
      BY <1>a, <1>12 DEF WriteLog, ConfirmInv, KeysInv, HandlersInv,
             Confirming, TypeInv, LocalOK, At, redisBatches, tables, RequestState
    <2>2. HandlersInv'
      BY <1>a, <1>12 DEF WriteLog, At, ConfirmInv, KeysInv, HandlersInv,
             Confirming, TypeInv, LocalOK, redisBatches, tables, RequestState
    <2> QED
      BY <2>1, <2>2 DEF ConfirmInv
  <1>13. ASSUME NEW r \in Request, WriteBatch(r) PROVE ConfirmInv'
    <2>1. members' = User /\ KeysInv'
      BY <1>a, <1>13 DEF WriteBatch, ConfirmInv, KeysInv, HandlersInv,
             Confirming, TypeInv, LocalOK, At, redisBatches, tables, RequestState
    <2>2. HandlersInv'
      BY <1>a, <1>13 DEF WriteBatch, Return, Idle, At, ConfirmInv, KeysInv,
             HandlersInv, Confirming, TypeInv, LocalOK, redisBatches, tables,
             RequestState
    <2> QED
      BY <2>1, <2>2 DEF ConfirmInv
  <1>14. ASSUME NEW r \in Request, ReadConfirms(r) PROVE ConfirmInv'
    <2>1. members' = User /\ KeysInv'
      BY <1>a, <1>14 DEF ReadConfirms, ConfirmInv, KeysInv, HandlersInv,
             Confirming, TypeInv, LocalOK, At, redisBatches, tables, RequestState
    <2>2. HandlersInv'
      BY <1>a, <1>14 DEF ReadConfirms, At, ConfirmInv, KeysInv, HandlersInv,
             Confirming, TypeInv, LocalOK, redisBatches, tables, RequestState
    <2> QED
      BY <2>1, <2>2 DEF ConfirmInv
  <1>15. ASSUME NEW r \in Request, Register(r) PROVE ConfirmInv'
    <2>1. members' = User /\ KeysInv'
      BY <1>a, <1>15 DEF Register, ConfirmInv, KeysInv, HandlersInv,
             Confirming, TypeInv, LocalOK, At, redisBatches, tables, RequestState
    <2>2. HandlersInv'
      BY <1>a, <1>15 DEF Register, At, ConfirmInv, KeysInv, HandlersInv,
             Confirming, TypeInv, LocalOK, redisBatches, tables, RequestState
    <2> QED
      BY <2>1, <2>2 DEF ConfirmInv
  <1>16. ASSUME NEW r \in Request, Tally(r) PROVE ConfirmInv'
    <2>1. members' = User /\ KeysInv'
      BY <1>a, <1>16 DEF Tally, ConfirmInv, KeysInv, HandlersInv, Confirming,
             TypeInv, LocalOK, At, redisBatches, tables, RequestState
    <2>2. HandlersInv'
      <3>1. UNCHANGED <<batch, registered, logged>>
        BY <1>16 DEF Tally, redisBatches
      <3>2. CASE Return(r)
        BY <1>a, <3>1, <3>2, ReturnKeepsHandlers DEF ConfirmInv
      <3>3. CASE EnoughConfirms(req[r].seen) /\ Goto(r, "dropRows")
        <4>1. /\ req[r].pc = "tally" /\ req[r].log \in Log
              /\ req[r].seen \subseteq registered[req[r].log]
          BY <1>16 DEF Tally, At, TypeInv, LocalOK, Confirming, ConfirmInv,
             HandlersInv
        <4>2. req[r].seen = User
          BY <1>a, <3>3, EnoughIsAll DEF RequestState
        <4>3. registered[req[r].log] = User
          BY <1>a, <4>1, <4>2
        <4> QED
          <5>1. /\ req'[r] = [req[r] EXCEPT !.pc = "dropRows"]
                /\ \A s \in Request : s # r => req'[s] = req[s]
            BY <1>a, <3>3 DEF Goto
          <5>2. req[r].ids = batch[req[r].log] /\ batch[req[r].log] # {}
            BY <4>1 DEF ConfirmInv, HandlersInv, Confirming
          <5>3. /\ req'[r].pc = "dropRows" /\ req'[r].ids = req[r].ids
                /\ req'[r].log = req[r].log
            BY <1>a, <5>1 DEF RequestState
          <5> QED
            BY <3>1, <4>3, <5>1, <5>2, <5>3, MoveKeepsHandlers DEF ConfirmInv,
               Confirming
      <3> QED
        BY <1>16, <3>2, <3>3 DEF Tally
    <2> QED
      BY <2>1, <2>2 DEF ConfirmInv
  <1>17. ASSUME NEW r \in Request, DropRows(r) PROVE ConfirmInv'
    <2>1. members' = User /\ KeysInv'
      BY <1>a, <1>17 DEF DropRows, ConfirmInv, KeysInv, HandlersInv,
             Confirming, TypeInv, LocalOK, At, redisBatches, tables, RequestState
    <2>2. HandlersInv'
      BY <1>a, <1>17 DEF DropRows, Goto, At, ConfirmInv, KeysInv, HandlersInv,
             Confirming, TypeInv, LocalOK, redisBatches, tables, RequestState
    <2> QED
      BY <2>1, <2>2 DEF ConfirmInv
  <1>18. ASSUME NEW r \in Request, DropKeys(r) PROVE ConfirmInv'
    <2>1. members' = User /\ KeysInv'
      BY <1>a, <1>18 DEF DropKeys, ConfirmInv, KeysInv, HandlersInv,
             Confirming, TypeInv, LocalOK, At, redisBatches, tables, RequestState
    <2>2. HandlersInv'
      BY <1>a, <1>18 DEF DropKeys, Return, Idle, At, ConfirmInv, KeysInv,
             HandlersInv, Confirming, TypeInv, LocalOK, redisBatches, tables,
             RequestState
    <2> QED
      BY <2>1, <2>2 DEF ConfirmInv
  <1>19. ASSUME NEW r \in Request, Fail(r) PROVE ConfirmInv'
    <2>1. members' = User /\ KeysInv'
      BY <1>a, <1>19 DEF Fail, ConfirmInv, KeysInv, HandlersInv, Confirming,
             TypeInv, LocalOK, At, redisBatches, tables, RequestState
    <2>2. HandlersInv'
      BY <1>a, <1>19 DEF Fail, Return, Idle, ConfirmInv, KeysInv, HandlersInv,
             Confirming, TypeInv, LocalOK, redisBatches, tables, RequestState
    <2> QED
      BY <2>1, <2>2 DEF ConfirmInv
  <1>20. ASSUME NEW m \in Msg, SoftDelete(m) PROVE ConfirmInv'
    BY <1>a, <1>20 DEF SoftDelete, ConfirmInv, KeysInv, HandlersInv, redisBatches,
       tables
  <1>21. ASSUME NEW u \in User, Leave(u) PROVE ConfirmInv'
    BY <1>a, <1>21 DEF Leave, ConfirmInv, KeysInv, HandlersInv, redisBatches, tables
  <1>22. ASSUME Tick PROVE ConfirmInv'
    <2>1. UNCHANGED <<members, batch, registered, logged, req>>
      BY <1>22 DEF Tick, tables
    <2>2. ASSUME NEW l \in Log
          PROVE  /\ confirms'[l] \subseteq confirms[l]
                 /\ batchTTL[l] = 0 => batchTTL'[l] = 0
      BY <1>a, <1>22 DEF Tick, Sooner
    <2>3. KeysInv'
      BY <2>1, <2>2 DEF ConfirmInv, KeysInv
    <2> QED
      BY <2>1, <2>3 DEF ConfirmInv, HandlersInv
  <1>23. ASSUME StatsExpire PROVE ConfirmInv'
    BY <1>a, <1>23 DEF StatsExpire, ConfirmInv, KeysInv, HandlersInv, redisBatches,
       tables
  <1>24. CASE UNCHANGED vars
    BY <1>24 DEF vars, ConfirmInv, KeysInv, HandlersInv
  <1> QED
    BY <1>1, <1>2, <1>3, <1>4, <1>5, <1>6, <1>7, <1>8, <1>8a, <1>9, <1>10, <1>11,
       <1>12, <1>13, <1>14, <1>15, <1>16, <1>17, <1>18, <1>19, <1>20, <1>21,
       <1>22, <1>23, <1>24 DEF Next, Step

(* Nobody's confirmation is withdrawn. *)
LEMMA RegisteredGrows ==
  ASSUME TypeInv, [Next]_vars, NEW l \in Log
  PROVE  registered[l] \subseteq registered'[l]
<1>1. registered \in [Log -> SUBSET User]
  BY DEF TypeInv, TypeOK
<1>2. ASSUME NEW r \in Request, Register(r) PROVE registered[l] \subseteq registered'[l]
  BY <1>1, <1>2 DEF Register
<1>3. (\E r \in Request : Register(r)) \/ registered' = registered
  BY DEF Next, Step, vars, redisBatches, Create, ViewStart, AgeStart, PurgeStart,
         ConfirmStart, DropStats, StatsHit, StatsMiss, StatsCount, SetStats, Quota, Select, WriteLog,
         WriteBatch, ReadConfirms, Tally, DropRows, DropKeys, Fail, SoftDelete, Leave, Tick,
         StatsExpire
<1> QED
  BY <1>2, <1>3

(* While nobody leaves, whatever the handlers interleave and whatever fails,   *)
(* a message is deleted only if a batch that holds it was confirmed by every   *)
(* user: what leaves the table was in the batch of a handler about to delete.  *)
THEOREM OnlyConfirmedRemoval == ~MayLeave => (Spec => []RemovalConfirmedByAll)
<1> SUFFICES ASSUME ~MayLeave PROVE Spec => []RemovalConfirmedByAll
  OBVIOUS
<1>1. Init => RemovalConfirmedByAll
  BY DEF Init, RemovalConfirmedByAll, Removed
<1>2. ASSUME TypeInv, ConfirmInv, RemovalConfirmedByAll, [Next]_vars
      PROVE  RemovalConfirmedByAll'
  <2>1. ASSUME NEW m, m \in Removed'
        PROVE  \E l \in Log : m \in batch[l] /\ registered[l] = User
    <3>1. ASSUME NEW r \in Request, Create(r) PROVE m \in Removed
      <4>1. lastId \in Nat
        BY <1>2, ConstantsAssumption DEF TypeInv, TypeOK
      <4> QED
        BY <2>1, <3>1, <4>1 DEF Create, Removed
    <3>2. ASSUME NEW r \in Request, DropRows(r)
          PROVE  \/ m \in Removed
                 \/ \E l \in Log : m \in batch[l] /\ registered[l] = User
      <4>1. /\ req[r].log \in Log /\ req[r].ids = batch[req[r].log]
            /\ registered[req[r].log] = User
        BY <1>2, <3>2 DEF DropRows, At, TypeInv, LocalOK, Confirming, ConfirmInv,
           HandlersInv
      <4>2. m \in Removed \/ m \in req[r].ids
        BY <2>1, <3>2 DEF DropRows, Removed
      <4> QED
        BY <4>1, <4>2
    <3>3. ASSUME NEW k \in Msg, SoftDelete(k) PROVE m \in Removed
      BY <2>1, <3>3 DEF SoftDelete, Removed
    <3>4. CASE UNCHANGED <<rows, softDeleted, lastId>>
      BY <1>2, <2>1, <3>4 DEF Removed, RemovalConfirmedByAll
    <3> QED
      BY <1>2, <3>1, <3>2, <3>3, <3>4, TablesFrame DEF RemovalConfirmedByAll
  <2>2. ASSUME NEW l \in Log, registered[l] = User, batch[l] # {}
        PROVE  batch'[l] = batch[l] /\ registered'[l] = User
    <3>1. ~ \E r \in Request : WriteBatch(r) /\ l = req[r].log
      BY <1>2, <2>2 DEF WriteBatch, At, ConfirmInv, HandlersInv
    <3>2. batch'[l] = batch[l]
      BY <1>2, <3>1, BatchFrame
    <3>3. registered[l] \subseteq registered'[l]
      BY <1>2, RegisteredGrows
    <3>4. registered'[l] \subseteq User
      BY <1>2, TypeInvNext DEF TypeInv, TypeOK
    <3> QED
      BY <2>2, <3>2, <3>3, <3>4
  <2> QED
    BY <2>1, <2>2 DEF RemovalConfirmedByAll
<1>3. Spec => []TypeInv
  BY TypeInvInit, TypeInvNext, PTL DEF Spec
<1>4. Spec => []ConfirmInv
  BY <1>3, ConfirmInvInit, ConfirmInvNext, PTL DEF Spec
<1> QED
  BY <1>1, <1>2, <1>3, <1>4, PTL DEF Spec

----------------------------------------------------------------------------
(***************************************************************************)
(* ConfirmOutlivesBatch, whether or not anyone leaves.  The two keys of a  *)
(* log age together, and each is written with its full life; what has to   *)
(* be known is that a batch is never written under a log that somebody is  *)
(* already confirming or has confirmed (the identifier of the log is       *)
(* fresh), and that a handler which finds its user already registered, and *)
(* so writes nothing, was preceded by a registration that still counts.    *)
(***************************************************************************)
LogsInv ==
  \A l \in Log :
    /\ l \notin logged => batchTTL[l] = 0 /\ registered[l] = {}
    /\ confirms[l] \subseteq registered[l]

LocksInv ==
  \A r \in Request :
    /\ req[r].pc = "key" =>
         /\ req[r].log \in logged
         /\ batchTTL[req[r].log] = 0 /\ registered[req[r].log] = {}
         /\ \A s \in Request \ {r} :
              req[s].pc \in {"key"} \cup Confirming => req[s].log # req[r].log
    /\ req[r].pc \in Confirming => req[r].log \in logged
    /\ req[r].pc = "register" => req[r].seen \subseteq registered[req[r].log]

LivesInv == LogsInv /\ LocksInv /\ ConfirmOutlivesBatch

(* No key exists and no handler runs at first. *)
LEMMA LivesInvInit == Init => LivesInv
  BY DEF Init, LivesInv, LogsInv, LocksInv, ConfirmOutlivesBatch, Confirming, Idle

(* A step of r that writes no key and takes no log, and does not come to rest *)
(* where its local copy of the confirmations matters, disturbs nobody.        *)
Quiet(r) ==
  /\ UNCHANGED <<redisBatches, logged>>
  /\ \A s \in Request : s # r => req'[s] = req[s]
  /\ req'[r].pc # "key" /\ req'[r].pc # "register"
  /\ req'[r].pc \in Confirming => req[r].pc \in Confirming /\ req'[r].log = req[r].log

LEMMA QuietKeepsLives ==
  ASSUME NEW r \in Request, Quiet(r), LivesInv
  PROVE  LivesInv'
<1>1. LogsInv' /\ ConfirmOutlivesBatch'
  BY DEF Quiet, LivesInv, LogsInv, ConfirmOutlivesBatch, redisBatches
<1>2. LocksInv'
  BY DEF Quiet, LivesInv, LocksInv, redisBatches, Confirming
<1> QED
  BY <1>1, <1>2 DEF LivesInv

(* Which steps are quiet. *)
LEMMA QuietSteps ==
  ASSUME TypeInv, NEW r \in Request,
         \/ Create(r) \/ ViewStart(r) \/ AgeStart(r) \/ PurgeStart(r)
         \/ DropStats(r) \/ StatsHit(r) \/ StatsMiss(r) \/ StatsCount(r) \/ SetStats(r) \/ Quota(r)
         \/ Select(r) \/ Tally(r) \/ DropRows(r) \/ Fail(r)
  PROVE  Quiet(r)
<1>1. req \in [Request -> RequestState]
  BY DEF TypeInv, TypeOK, RequestState
<1>2. CASE Create(r) \/ ViewStart(r) \/ AgeStart(r) \/ PurgeStart(r)
  <2>1. ASSUME NEW pc \in {"dropStats", "stats", "select"}, NEW mode, NEW num, Begin(r, pc, mode, num)
        PROVE  /\ \A s \in Request : s # r => req'[s] = req[s]
               /\ req'[r].pc = pc
    BY <1>1, <2>1 DEF Begin, Idle
  <2>2. UNCHANGED <<redisBatches, logged>>
    BY <1>2 DEF Create, ViewStart, AgeStart, PurgeStart
  <2>3. \E pc \in {"dropStats", "stats", "select"} : \E mode, num : Begin(r, pc, mode, num)
    BY <1>2 DEF Create, ViewStart, AgeStart, PurgeStart
  <2> QED
    BY <2>1, <2>2, <2>3 DEF Quiet, Confirming
<1>3. ASSUME Return(r), UNCHANGED <<redisBatches, logged>> PROVE Quiet(r)
  BY <1>1, <1>3 DEF Return, Idle, Quiet, Confirming
<1>4. CASE DropStats(r) \/ StatsHit(r) \/ StatsMiss(r) \/ StatsCount(r) \/ SetStats(r)
  BY <1>1, <1>3, <1>4 DEF DropStats, StatsHit, StatsMiss, StatsCount, SetStats, Goto, Quiet, Confirming,
     RequestState
<1>5. CASE Quota(r)
  BY <1>1, <1>3, <1>5 DEF Quota, Quiet, Confirming, RequestState
<1>6. CASE Select(r)
  BY <1>1, <1>3, <1>6 DEF Select, Quiet, Confirming, RequestState
<1>7. CASE Tally(r) \/ DropRows(r)
  BY <1>1, <1>3, <1>7 DEF Tally, DropRows, Goto, At, Quiet, Confirming, RequestState
<1>8. CASE Fail(r)
  BY <1>3, <1>8 DEF Fail
<1> QED
  BY <1>2, <1>4, <1>5, <1>6, <1>7, <1>8

(* Every action keeps the two lives in order. *)
LEMMA LivesInvNext == TypeInv /\ LivesInv /\ [Next]_vars => LivesInv'
  <1> SUFFICES ASSUME TypeInv, LivesInv, [Next]_vars PROVE LivesInv'
    OBVIOUS
  <1> USE ConstantsAssumption
  <1>a. /\ req \in [Request -> RequestState]
        /\ logged \subseteq Log
        /\ registered \in [Log -> SUBSET User] /\ confirms \in [Log -> SUBSET User]
        /\ batchTTL \in [Log -> 0..KeyTTL] /\ confirmTTL \in [Log -> 0..KeyTTL]
    BY DEF TypeInv, TypeOK, RequestState
  <1>1. ASSUME NEW r \in Request,
               \/ Create(r) \/ ViewStart(r) \/ AgeStart(r) \/ PurgeStart(r)
               \/ DropStats(r) \/ StatsHit(r) \/ StatsMiss(r) \/ StatsCount(r) \/ SetStats(r) \/ Quota(r)
               \/ Select(r) \/ Tally(r) \/ DropRows(r) \/ Fail(r)
        PROVE  LivesInv'
    BY <1>1, QuietSteps, QuietKeepsLives
  <1>2. ASSUME NEW r \in Request, NEW u \in User, NEW l \in Log, ConfirmStart(r, u, l)
        PROVE  LivesInv'
    <2>1. /\ UNCHANGED <<redisBatches, logged>>
          /\ \A s \in Request : s # r => req'[s] = req[s]
          /\ req'[r].pc = "readConfirms" /\ req'[r].log = l
          /\ batchTTL[l] > 0
      BY <1>a, <1>2 DEF ConfirmStart, Confirmable, Idle
    <2>2. l \in logged
      BY <2>1 DEF LivesInv, LogsInv
    <2>3. LogsInv' /\ ConfirmOutlivesBatch'
      BY <2>1 DEF LivesInv, LogsInv, ConfirmOutlivesBatch, redisBatches
    <2>4. LocksInv'
      BY <1>a, <2>1, <2>2 DEF LivesInv, LocksInv, redisBatches, Confirming
    <2> QED
      BY <2>3, <2>4 DEF LivesInv
  <1>3. ASSUME NEW r \in Request, WriteLog(r) PROVE LivesInv'
    <2>1. PICK l \in Log \ logged : /\ logged' = logged \cup {l}
                                    /\ req' = [req EXCEPT ![r].pc = "key", ![r].log = l]
      BY <1>3 DEF WriteLog
    <2>2. /\ l \notin logged /\ logged' = logged \cup {l}
          /\ UNCHANGED redisBatches
          /\ \A s \in Request : s # r => req'[s] = req[s]
          /\ req'[r].pc = "key" /\ req'[r].log = l
      BY <1>a, <1>3, <2>1 DEF WriteLog, RequestState
    <2>3. LogsInv' /\ ConfirmOutlivesBatch'
      BY <2>1, <2>2 DEF LivesInv, LogsInv, ConfirmOutlivesBatch, redisBatches
    <2>4. batchTTL[l] = 0 /\ registered[l] = {}
      BY <2>1 DEF LivesInv, LogsInv
    <2>5. LocksInv'
      <3>1. ASSUME NEW s \in Request, s # r
            PROVE  /\ req'[s] = req[s]
                   /\ req[s].pc \in {"key"} \cup Confirming => req[s].log \in logged /\ req[s].log # l
        BY <2>2, <3>1 DEF LivesInv, LocksInv
      <3>2. ASSUME NEW s \in Request, req'[s].pc = "key"
            PROVE  /\ req'[s].log \in logged'
                   /\ batchTTL'[req'[s].log] = 0 /\ registered'[req'[s].log] = {}
                   /\ \A t \in Request \ {s} :
                        req'[t].pc \in {"key"} \cup Confirming => req'[t].log # req'[s].log
        BY <2>2, <2>4, <3>1, <3>2 DEF LivesInv, LocksInv, redisBatches, Confirming
      <3>3. ASSUME NEW s \in Request
            PROVE  /\ req'[s].pc \in Confirming => req'[s].log \in logged'
                   /\ req'[s].pc = "register" => req'[s].seen \subseteq registered'[req'[s].log]
        BY <2>2, <3>1 DEF LivesInv, LocksInv, redisBatches, Confirming
      <3> QED
        BY <3>2, <3>3 DEF LocksInv
    <2> QED
      BY <2>3, <2>5 DEF LivesInv
  <1>4. ASSUME NEW r \in Request, WriteBatch(r) PROVE LivesInv'
    <2> DEFINE k == req[r].log
    <2>1. /\ k \in Log /\ k \in logged /\ registered[k] = {} /\ batchTTL[k] = 0
          /\ \A s \in Request \ {r} : req[s].pc \in {"key"} \cup Confirming => req[s].log # k
      BY <1>4 DEF WriteBatch, At, TypeInv, LocalOK, LivesInv, LocksInv
    <2>2. /\ UNCHANGED <<confirms, confirmTTL, registered, logged>>
          /\ batchTTL'[k] = KeyTTL
          /\ \A l \in Log : l # k => batchTTL'[l] = batchTTL[l]
      BY <1>a, <1>4, <2>1 DEF WriteBatch
    <2>3. /\ \A s \in Request : s # r => req'[s] = req[s]
          /\ req'[r].pc = "idle"
      BY <1>a, <1>4 DEF WriteBatch, Return, Idle
    <2>4. LogsInv' /\ ConfirmOutlivesBatch'
      BY <2>1, <2>2 DEF LivesInv, LogsInv, ConfirmOutlivesBatch
    <2>5. ASSUME NEW s \in Request, req'[s].pc = "key"
          PROVE  /\ s # r /\ req'[s] = req[s] /\ req[s].log # k
                 /\ req[s].log \in Log
      BY <2>1, <2>3, <2>5 DEF TypeInv, LocalOK
    <2>6. LocksInv'
      BY <2>2, <2>3, <2>5 DEF LivesInv, LocksInv, Confirming
    <2> QED
      BY <2>4, <2>6 DEF LivesInv
  <1>5. ASSUME NEW r \in Request, ReadConfirms(r) PROVE LivesInv'
    <2> DEFINE k == req[r].log
    <2>1. k \in Log /\ k \in logged /\ req[r].pc \in Confirming
      BY <1>5 DEF ReadConfirms, At, TypeInv, LocalOK, LivesInv, LocksInv, Confirming
    <2>2. /\ UNCHANGED <<redisBatches, logged>>
          /\ \A s \in Request : s # r => req'[s] = req[s]
          /\ req'[r].pc = "register" /\ req'[r].log = k
          /\ req'[r].seen = confirms[k] \/ req'[r].seen = {}
      BY <1>a, <1>5 DEF ReadConfirms, RequestState
    <2>3. LogsInv' /\ ConfirmOutlivesBatch'
      BY <2>2 DEF LivesInv, LogsInv, ConfirmOutlivesBatch, redisBatches
    <2>4. req'[r].seen \subseteq registered[k]
      BY <2>1, <2>2 DEF LivesInv, LogsInv
    <2>5. LocksInv'
      BY <2>1, <2>2, <2>4 DEF LivesInv, LocksInv, redisBatches, Confirming
    <2> QED
      BY <2>3, <2>5 DEF LivesInv
  <1>6. ASSUME NEW r \in Request, Register(r) PROVE LivesInv'
    <2> DEFINE k == req[r].log
               u == req[r].peer
    <2>1. /\ k \in Log /\ k \in logged /\ u \in User
          /\ req[r].seen \subseteq registered[k]
          /\ \A s \in Request : req[s].pc = "key" => req[s].log # k
      BY <1>6 DEF Register, At, TypeInv, LocalOK, LivesInv, LocksInv, Confirming
    <2>2. /\ UNCHANGED <<batchTTL, logged>>
          /\ registered'[k] = registered[k] \cup {u}
          /\ \A l \in Log : l # k => /\ registered'[l] = registered[l]
                                     /\ confirms'[l] = confirms[l]
                                     /\ confirmTTL'[l] = confirmTTL[l]
          /\ \/ u \in req[r].seen /\ confirms'[k] = confirms[k]
                                  /\ confirmTTL'[k] = confirmTTL[k]
             \/ confirms'[k] = req[r].seen \cup {u} /\ confirmTTL'[k] = KeyTTL
      BY <1>a, <1>6, <2>1 DEF Register, FreshLife
    <2>3. /\ \A s \in Request : s # r => req'[s] = req[s]
          /\ req'[r].pc = "tally" /\ req'[r].log = k
      BY <1>a, <1>6 DEF Register, RequestState
    <2>4. LogsInv'
      BY <2>1, <2>2 DEF LivesInv, LogsInv
    <2>5. ConfirmOutlivesBatch'
      <3>1. ASSUME NEW l \in Log, l # k
            PROVE  batchTTL'[l] > 0 /\ registered'[l] # {} => confirmTTL'[l] >= batchTTL'[l]
        BY <2>2, <3>1 DEF LivesInv, ConfirmOutlivesBatch
      <3>2. CASE u \in req[r].seen /\ confirmTTL'[k] = confirmTTL[k]
        <4>1. registered[k] # {}
          BY <2>1, <3>2
        <4> QED
          BY <2>1, <2>2, <3>1, <3>2, <4>1 DEF LivesInv, ConfirmOutlivesBatch
      <3>3. CASE confirmTTL'[k] = KeyTTL
        <4>1. batchTTL[k] \in 0..KeyTTL
          BY <1>a, <2>1
        <4> QED
          BY <2>2, <3>1, <3>3, <4>1 DEF ConfirmOutlivesBatch
      <3> QED
        BY <2>2, <3>2, <3>3
    <2>6. LocksInv'
      <3>1. ASSUME NEW s \in Request, req'[s].pc = "register"
            PROVE  /\ req'[s] = req[s]
                   /\ req[s].log \in Log /\ registered[req[s].log] \subseteq registered'[req[s].log]
        BY <2>2, <2>3, <3>1 DEF TypeInv, LocalOK, Confirming
      <3>2. ASSUME NEW s \in Request, req'[s].pc = "key"
            PROVE  /\ s # r /\ req'[s] = req[s]
                   /\ req[s].log \in Log /\ req[s].log # k
                   /\ registered'[req[s].log] = registered[req[s].log]
        BY <2>1, <2>2, <2>3, <3>2 DEF TypeInv, LocalOK
      <3>3. ASSUME NEW s \in Request, req'[s].pc = "key"
            PROVE  /\ req'[s].log \in logged'
                   /\ batchTTL'[req'[s].log] = 0 /\ registered'[req'[s].log] = {}
                   /\ \A t \in Request \ {s} :
                        req'[t].pc \in {"key"} \cup Confirming => req'[t].log # req'[s].log
        BY <2>2, <2>3, <3>2, <3>3 DEF LivesInv, LocksInv
      <3>4. ASSUME NEW s \in Request, req'[s].pc \in Confirming
            PROVE  req'[s].log \in logged'
        BY <2>1, <2>2, <2>3, <3>4 DEF LivesInv, LocksInv
      <3>5. ASSUME NEW s \in Request, req'[s].pc = "register"
            PROVE  req'[s].seen \subseteq registered'[req'[s].log]
        BY <3>1, <3>5 DEF LivesInv, LocksInv
      <3> QED
        BY <3>3, <3>4, <3>5 DEF LocksInv
    <2> QED
      BY <2>4, <2>5, <2>6 DEF LivesInv
  <1>7. ASSUME NEW r \in Request, DropKeys(r) PROVE LivesInv'
    <2> DEFINE k == req[r].log
    <2>1. k \in Log
      BY <1>7 DEF DropKeys, At, TypeInv, LocalOK, Confirming
    <2>2. /\ UNCHANGED <<registered, logged>>
          /\ batchTTL'[k] = 0 /\ confirms'[k] = {}
          /\ \A l \in Log : l # k => /\ batchTTL'[l] = batchTTL[l]
                                     /\ confirms'[l] = confirms[l]
                                     /\ confirmTTL'[l] = confirmTTL[l]
      BY <1>a, <1>7, <2>1 DEF DropKeys
    <2>3. /\ \A s \in Request : s # r => req'[s] = req[s]
          /\ req'[r].pc = "idle"
      BY <1>a, <1>7 DEF DropKeys, Return, Idle
    <2>4. LogsInv' /\ ConfirmOutlivesBatch'
      BY <2>1, <2>2 DEF LivesInv, LogsInv, ConfirmOutlivesBatch
    <2>5. LocksInv'
      <3>1. ASSUME NEW s \in Request, req'[s].pc = "key"
            PROVE  req'[s] = req[s] /\ req[s].log \in Log
                   /\ (batchTTL[req[s].log] = 0 => batchTTL'[req[s].log] = 0)
        BY <2>2, <2>3, <3>1 DEF TypeInv, LocalOK
      <3> QED
        BY <2>2, <2>3, <3>1 DEF LivesInv, LocksInv, Confirming
    <2> QED
      BY <2>4, <2>5 DEF LivesInv
  <1>8. ASSUME (\E m \in Msg : SoftDelete(m)) \/ (\E u \in User : Leave(u)) \/ StatsExpire
               \/ UNCHANGED vars
        PROVE  LivesInv'
    <2>1. UNCHANGED <<redisBatches, logged, req>>
      BY <1>8 DEF SoftDelete, Leave, StatsExpire, vars, redisBatches
    <2> QED
      BY <2>1 DEF LivesInv, LogsInv, LocksInv, ConfirmOutlivesBatch, redisBatches
  <1>9. ASSUME Tick PROVE LivesInv'
    <2>1. UNCHANGED <<registered, logged, req>>
      BY <1>9 DEF Tick
    <2>2. ASSUME NEW l \in Log
          PROVE  /\ batchTTL'[l] = IF batchTTL[l] > 0 THEN batchTTL[l] - 1 ELSE 0
                 /\ confirmTTL'[l] = IF confirmTTL[l] > 0 THEN confirmTTL[l] - 1 ELSE 0
                 /\ confirms'[l] \subseteq confirms[l]
                 /\ batchTTL[l] \in Nat /\ confirmTTL[l] \in Nat
      BY <1>a, <1>9 DEF Tick, Sooner
    <2>3. LogsInv'
      BY <2>1, <2>2 DEF LivesInv, LogsInv
    <2>4. ConfirmOutlivesBatch'
      BY <2>1, <2>2 DEF LivesInv, ConfirmOutlivesBatch
    <2>5. LocksInv'
      <3>1. ASSUME NEW s \in Request, req[s].pc = "key"
            PROVE  req[s].log \in Log
        BY <3>1 DEF TypeInv, LocalOK
      <3> QED
        BY <2>1, <2>2, <3>1 DEF LivesInv, LocksInv
    <2> QED
      BY <2>3, <2>4, <2>5 DEF LivesInv
  <1> QED
    BY <1>1, <1>2, <1>3, <1>4, <1>5, <1>6, <1>7, <1>8, <1>9 DEF Next, Step

(* Whatever fails, whoever leaves and whenever the clock ticks: as long as a  *)
(* batch can be confirmed, the list of those who confirmed it is still there. *)
THEOREM ConfirmationsOutliveBatch == Spec => []ConfirmOutlivesBatch
<1>1. Spec => []TypeInv
  BY TypeInvInit, TypeInvNext, PTL DEF Spec
<1>2. Spec => []LivesInv
  BY <1>1, LivesInvInit, LivesInvNext, PTL DEF Spec
<1> QED
  BY <1>2, PTL DEF LivesInv

----------------------------------------------------------------------------
(***************************************************************************)
(* The refinement: the insertion is an Append, the SET of the batch an     *)
(* Offer, the SET of the confirmations an Ack, the DELETE a Remove, and    *)
(* everything else is invisible.                                           *)
(***************************************************************************)
(* Every step of the archive is a step of the promise, or invisible to it. *)
LEMMA StepSimulation ==
  ASSUME TypeInv, OldestInv, ConfirmInv, [Next]_vars
  PROVE  [Promise!Next]_(Promise!vars)
<1> USE DEF Promise!vars
<1>a. /\ batch \in [Log -> SUBSET Msg] /\ registered \in [Log -> SUBSET User]
  BY DEF TypeInv, TypeOK
<1>1. ASSUME NEW r \in Request, Create(r) PROVE Promise!Next
  BY <1>1 DEF Create, redisBatches, Promise!Next, Promise!Append
<1>2. ASSUME NEW r \in Request, WriteBatch(r) PROVE Promise!Next
  <2> DEFINE l == req[r].log
  <2>1. /\ l \in Log /\ batch[l] = {} /\ registered[l] = {}
        /\ req[r].ids \subseteq 1..lastId
    BY <1>2 DEF WriteBatch, At, TypeInv, LocalOK, ConfirmInv, HandlersInv, KeysInv,
                OldestInv, Oldest
  <2>2. Promise!Offer(l, req[r].ids)
    BY <1>2, <2>1 DEF WriteBatch, tables, Promise!Offer
  <2> QED
    BY <2>1, <2>2 DEF Promise!Next
<1>3. ASSUME NEW r \in Request, Register(r) PROVE Promise!Next
  <2> DEFINE l == req[r].log
             u == req[r].peer
  <2>1. l \in Log /\ u \in User /\ batch[l] # {}
    BY <1>3 DEF Register, At, TypeInv, LocalOK, Confirming, ConfirmInv, HandlersInv
  <2>2. Promise!Ack(l, u)
    BY <1>3, <2>1 DEF Register, tables, Promise!Ack
  <2> QED
    BY <2>1, <2>2 DEF Promise!Next
<1>4. ASSUME NEW r \in Request, DropRows(r) PROVE Promise!Next
  <2> DEFINE l == req[r].log
  <2>1. l \in Log /\ req[r].ids = batch[l] /\ registered[l] = User
    BY <1>4 DEF DropRows, At, TypeInv, LocalOK, Confirming, ConfirmInv, HandlersInv
  <2>2. Promise!Remove(l)
    BY <1>4, <2>1 DEF DropRows, redisBatches, Promise!Remove
  <2> QED
    BY <2>1, <2>2 DEF Promise!Next
<1>5. ASSUME NEW r \in Request, ViewStart(r) \/ AgeStart(r) \/ PurgeStart(r) \/ Fail(r)
      PROVE  UNCHANGED <<lastId, rows, batch, registered>>
  BY <1>5 DEF tables, redisBatches, ViewStart, AgeStart, PurgeStart, Fail
<1>6. ASSUME NEW r \in Request, NEW u \in User, NEW l \in Log, ConfirmStart(r, u, l)
      PROVE  UNCHANGED <<lastId, rows, batch, registered>>
  BY <1>6 DEF tables, redisBatches, ConfirmStart
<1>7. ASSUME NEW r \in Request, Step(r)
      PROVE  \/ WriteBatch(r) \/ Register(r) \/ DropRows(r)
             \/ UNCHANGED <<lastId, rows, batch, registered>>
  BY <1>7 DEF Step, tables, redisBatches, DropStats, StatsHit, StatsMiss, StatsCount, SetStats, Quota,
              Select, WriteLog, ReadConfirms, Tally, DropKeys
<1>8. ASSUME \/ \E m \in Msg : SoftDelete(m)
             \/ \E u \in User : Leave(u)
             \/ Tick \/ StatsExpire \/ UNCHANGED vars
      PROVE  UNCHANGED <<lastId, rows, batch, registered>>
  BY <1>8 DEF tables, redisBatches, SoftDelete, Leave, Tick, StatsExpire, vars
<1> QED
  BY <1>1, <1>2, <1>3, <1>4, <1>5, <1>6, <1>7, <1>8 DEF Next

(* The archive implements ConfirmedRemoval while nobody leaves.              *)
THEOREM ArchiveKeepsPromise == ~MayLeave => (Spec => KeepsPromise)
<1> SUFFICES ASSUME ~MayLeave PROVE Spec => KeepsPromise
  OBVIOUS
<1>1. Init => Promise!Init
  BY DEF Init, Promise!Init
<1>2. Init => OldestInv
  BY DEF Init, OldestInv, Oldest, NoHoles, Removed, Live, Idle
<1>3. Spec => []TypeInv
  BY TypeInvInit, TypeInvNext, PTL DEF Spec
<1>4. Spec => []OldestInv
  BY <1>2, <1>3, OldestInvNext, PTL DEF Spec
<1>5. Spec => []ConfirmInv
  BY <1>3, ConfirmInvInit, ConfirmInvNext, PTL DEF Spec
<1>6. TypeInv /\ OldestInv /\ ConfirmInv /\ [Next]_vars => [Promise!Next]_(Promise!vars)
  BY StepSimulation
<1> QED
  BY <1>1, <1>3, <1>4, <1>5, <1>6, PTL DEF Spec, KeepsPromise, Promise!Spec
=============================================================================
