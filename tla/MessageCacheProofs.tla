------------------------- MODULE MessageCacheProofs -------------------------
(***************************************************************************)
(* What holds of MessageCache for every number of messages and of readers  *)
(* and for all durations.                                                  *)
(***************************************************************************)
EXTENDS MessageCache, FiniteSetTheorems, TLAPS

\* A list has, of each message of S, what a reader must see.
Covers(list, S) == \A m \in S : list[m] # "none" \/ content[m] = "deleted"

\* The version counts messages that raised it, and those are in the table.
Counted ==
  /\ version <= Cardinality(bumped)
  /\ \A m \in bumped : post[m] \in {"expire", "done"} /\ content[m] # "none"
  /\ \A m \in Msg : post[m] = "insert" <=> content[m] = "none"

\* What a reader holds by itself.
ReaderOK ==
  \A r \in Reader :
    /\ read[r].must \subseteq bumped
    /\ read[r].ver = 0 => read[r].must = {}
    /\ read[r].pc = "fill" => Covers(read[r].list, read[r].must)

\* Unless the key was recycled: no list and no reader is ahead of the version;
NotAhead ==
  /\ \A v \in Versions : entry[v].ttl > 0 => v <= version
  /\ \A r \in Reader : Busy(r) => read[r].ver <= version

\* a list and the readers under the current version have to show all that raised it;
Current ==
  version > 0 =>
    /\ entry[version].ttl > 0 => Covers(entry[version].list, bumped)
    /\ \A r \in Reader : Busy(r) /\ read[r].ver = version => read[r].must = bumped

\* the readers of one version must see the same messages;
Agree ==
  \A r, s \in Reader : Busy(r) /\ Busy(s) /\ read[r].ver = read[s].ver
                         => read[r].must = read[s].must

\* and what they would find satisfies them.
Covered ==
  \A r \in Reader : Busy(r) /\ entry[read[r].ver].ttl > 0
                      => Covers(entry[read[r].ver].list, read[r].must)

Fresh == NotAhead /\ Current /\ Agree /\ Covered

IInv == TypeOK /\ Counted /\ ReaderOK /\ (recycled \/ Fresh)

----------------------------------------------------------------------------
LEMMA Initials ==
  /\ 0 \in Versions /\ Versions \subseteq Nat
  /\ Empty \in Lists /\ Absent \in Entries /\ Idle \in Reads
<1>1. 0 \in Versions /\ Versions \subseteq Nat
  BY CacheAssumption, FS_CardinalityType DEF Versions
<1>2. Empty \in Lists
  BY DEF Empty, Lists
<1> QED
  BY <1>1, <1>2, CacheAssumption DEF Absent, Idle, Entries, Reads

LEMMA ReadTypes ==
  ASSUME TypeOK, NEW r \in Reader
  PROVE  /\ read[r] \in Reads
         /\ read[r].ver \in Versions /\ read[r].list \in Lists /\ read[r].must \subseteq Msg
BY DEF TypeOK, Reads

LEMMA InitEstablishes == Init => IInv
<1> SUFFICES ASSUME Init PROVE IInv
  OBVIOUS
<1>1. Cardinality(Msg) \in Nat /\ Cardinality(bumped) = 0
  BY CacheAssumption, FS_CardinalityType, FS_EmptySet DEF Init
<1>2. TypeOK
  <2>1. version \in Versions /\ verTTL \in 0..NoExpiry /\ (version = 0 <=> verTTL = 0)
    BY Initials, CacheAssumption DEF Init, NoExpiry
  <2>2. content \in Lists /\ entry \in [Versions -> Entries] /\ read \in [Reader -> Reads]
    BY Initials DEF Init
  <2>3. since \in [Msg -> 0..Settled]
    BY CacheAssumption DEF Init, Settled
  <2>4. /\ post \in [Msg -> {"insert", "bump", "expire", "done"}]
        /\ bumped \subseteq Msg /\ recycled \in BOOLEAN
    BY DEF Init
  <2> QED
    BY <2>1, <2>2, <2>3, <2>4 DEF TypeOK
<1>3. Counted /\ ReaderOK
  BY <1>1 DEF Init, Counted, ReaderOK, Empty, Idle
<1>4. Fresh
  BY DEF Init, Fresh, NotAhead, Current, Agree, Covered, Absent, Busy, Idle
<1> QED
  BY <1>2, <1>3, <1>4 DEF IInv

\* A change of the table takes nothing away from a list, as what is deleted need not
\* be seen.
LEMMA ChangesKeep ==
  ASSUME IInv, NEW m \in Msg, Insert(m) \/ Edit(m) \/ Delete(m)
  PROVE  IInv'
<1> USE CacheAssumption DEF IInv
<1>1. /\ UNCHANGED <<version, verTTL, entry, read, bumped, recycled>>
      /\ since' = [since EXCEPT ![m] = 0]
      /\ \E c \in {"first", "edited", "deleted"} : content' = [content EXCEPT ![m] = c]
      /\ content[m] # "deleted"
      /\ post' = post \/ (post[m] = "insert" /\ post' = [post EXCEPT ![m] = "bump"])
  BY DEF Insert, Edit, Delete, Write, Counted
<1>2. TypeOK'
  BY <1>1 DEF TypeOK, Lists, Settled
<1>3. Counted'
  BY DEF Insert, Edit, Delete, Write, Counted, TypeOK, Lists
<1>4. \A k \in Msg : content[k] = "deleted" => content'[k] = "deleted"
  BY <1>1 DEF TypeOK, Lists
<1>5. ReaderOK'
  BY <1>1, <1>4 DEF ReaderOK, Covers, TypeOK
<1>6. ASSUME Fresh PROVE Fresh'
  <2>1. NotAhead' /\ Agree'
    BY <1>1, <1>6 DEF Fresh, NotAhead, Agree, Busy
  <2>2. Current'
    BY <1>1, <1>4, <1>6 DEF Fresh, Current, Covers, Busy, TypeOK
  <2>3. Covered'
    BY <1>1, <1>4, <1>6, ReadTypes DEF Fresh, Covered, Covers, Busy
  <2> QED
    BY <2>1, <2>2, <2>3 DEF Fresh
<1> QED
  BY <1>1, <1>2, <1>3, <1>5, <1>6

\* No list and no reader is under the version that a creation makes.
LEMMA BumpKeeps ==
  ASSUME IInv, NEW m \in Msg, Bump(m)
  PROVE  IInv'
<1> USE CacheAssumption DEF IInv
<1>1. /\ m \notin bumped
      /\ IsFiniteSet(bumped) /\ Cardinality(bumped) \in Nat
      /\ Cardinality(bumped') = Cardinality(bumped) + 1
      /\ Cardinality(bumped') <= Cardinality(Msg) /\ Cardinality(Msg) \in Nat
  <2>1. m \notin bumped
    BY DEF Bump, Counted
  <2>2. IsFiniteSet(bumped) /\ Cardinality(bumped) \in Nat
    BY FS_Subset, FS_CardinalityType DEF TypeOK
  <2>3. bumped' = bumped \cup {m} /\ bumped' \subseteq Msg
    BY DEF Bump, TypeOK
  <2>4. Cardinality(bumped') = Cardinality(bumped) + 1
    BY <2>1, <2>2, <2>3, FS_AddElement
  <2>5. Cardinality(bumped') <= Cardinality(Msg) /\ Cardinality(Msg) \in Nat
    BY <2>3, FS_Subset, FS_CardinalityType
  <2> QED
    BY <2>1, <2>2, <2>4, <2>5
<1>2. version \in Nat /\ version' = version + 1 /\ version' <= Cardinality(bumped')
  BY <1>1 DEF Bump, Counted, TypeOK, Versions
<1>3. TypeOK'
  BY <1>1, <1>2 DEF Bump, RaisedTTL, TypeOK, Versions, NoExpiry
<1>4. Counted'
  BY <1>2 DEF Bump, Counted, TypeOK
<1>5. ReaderOK'
  BY DEF Bump, ReaderOK, Covers
<1>6. ASSUME Fresh PROVE Fresh'
  <2>1. UNCHANGED <<content, entry, read>>
    BY DEF Bump
  <2>2. ASSUME NEW v \in Versions, entry[v].ttl > 0 PROVE v <= version' /\ v < version'
    BY <1>2, <1>6, <2>2, Initials DEF Fresh, NotAhead
  <2>3. ASSUME NEW r \in Reader, Busy(r) PROVE read[r].ver <= version' /\ read[r].ver < version'
    <3>1. read[r].ver \in Nat
      BY ReadTypes, Initials
    <3>2. read[r].ver <= version
      BY <1>6, <2>3 DEF Fresh, NotAhead
    <3> QED
      BY <1>2, <3>1, <3>2
  <2>4. version' \in Versions /\ version' \in Nat
    BY <1>3, Initials DEF TypeOK
  <2>5. NotAhead'
    BY <2>1, <2>2, <2>3 DEF NotAhead, Busy
  <2>6. Current'
    BY <2>1, <2>2, <2>3, <2>4 DEF Current, Busy
  <2>7. Agree' /\ Covered'
    BY <1>6, <2>1 DEF Fresh, Agree, Covered, Covers, Busy
  <2> QED
    BY <2>5, <2>6, <2>7 DEF Fresh
<1> QED
  BY <1>3, <1>4, <1>5, <1>6 DEF Bump

LEMMA LossKeeps ==
  ASSUME IInv, NEW m \in Msg, SetExpiry(m) \/ Lose(m)
  PROVE  IInv'
<1>1. TypeOK'
  BY CacheAssumption DEF SetExpiry, Lose, history, IInv, TypeOK, NoExpiry
<1>2. Counted'
  BY DEF SetExpiry, Lose, history, IInv, Counted, TypeOK
<1>3. UNCHANGED <<content, version, entry, read, bumped, recycled>>
  BY DEF SetExpiry, Lose, history
<1>4. ReaderOK'
  BY <1>3 DEF IInv, ReaderOK, Covers
<1>5. Fresh => Fresh'
  <2>1. NotAhead => NotAhead'
    BY <1>3 DEF NotAhead, Busy
  <2>2. Current => Current'
    BY <1>3 DEF Current, Covers, Busy
  <2>3. Agree => Agree'
    BY <1>3 DEF Agree, Busy
  <2>4. Covered => Covered'
    BY <1>3 DEF Covered, Covers, Busy
  <2> QED
    BY <2>1, <2>2, <2>3, <2>4 DEF Fresh
<1> QED
  BY <1>1, <1>2, <1>3, <1>4, <1>5 DEF IInv

----------------------------------------------------------------------------
\* A reader that begins must see what raised the version it found.
LEMMA ReadVersionKeeps ==
  ASSUME IInv, NEW r \in Reader, ReadVersion(r)
  PROVE  IInv'
<1> USE DEF IInv
<1>1. PICK v \in {version, 0} :
        read' = [read EXCEPT ![r] = [Idle EXCEPT !.pc = "lookup", !.ver = v,
                                                 !.must = IF v = 0 THEN {} ELSE bumped]]
  BY DEF ReadVersion
<1>2. /\ UNCHANGED <<content, post, version, verTTL, entry, history>>
      /\ version \in Nat /\ v \in Versions
  BY Initials DEF ReadVersion, TypeOK
<1>3. /\ read'[r] = [pc |-> "lookup", ver |-> v, list |-> Empty, age |-> 0,
                     must |-> IF v = 0 THEN {} ELSE bumped]
      /\ \A s \in Reader \ {r} : read'[s] = read[s]
  BY <1>1 DEF TypeOK, Idle
<1>4. TypeOK'
  <2>1. read'[r] \in Reads
    BY <1>2, <1>3, Initials, CacheAssumption DEF TypeOK, Reads
  <2> QED
    BY <1>1, <1>2, <1>3, <2>1 DEF TypeOK, history
<1>5. Counted' /\ ReaderOK'
  BY <1>2, <1>3 DEF Counted, ReaderOK, Covers, history
<1>6. ASSUME Fresh PROVE Fresh'
  <2>1. NotAhead'
    BY <1>2, <1>3, <1>6 DEF Fresh, NotAhead, Busy, history
  <2>2. Current'
    BY <1>2, <1>3, <1>6 DEF Fresh, Current, Covers, Busy, history
  <2>3. ASSUME NEW s \in Reader \ {r}, Busy(s), read[s].ver = v
        PROVE  read[s].must = read'[r].must
    <3>1. CASE v = 0
      BY <1>3, <2>3, <3>1 DEF ReaderOK
    <3>2. CASE v # 0
      <4>1. v = version /\ version > 0
        BY <1>2, <3>2
      <4> QED
        BY <1>3, <1>6, <2>3, <3>2, <4>1 DEF Fresh, Current
    <3> QED
      BY <3>1, <3>2
  <2>4. Agree'
    <3>1. read'[r].ver = v
      BY <1>3
    <3>2. \A s \in Reader \ {r} : read'[s] = read[s]
      BY <1>3
    <3> QED
      BY <3>1, <3>2, <1>6, <2>3 DEF Fresh, Agree, Busy
  <2>5. Covered'
    BY <1>2, <1>3, <1>6 DEF Fresh, Current, Covered, Covers, Busy, history
  <2> QED
    BY <2>1, <2>2, <2>4, <2>5 DEF Fresh
<1> QED
  BY <1>2, <1>4, <1>5, <1>6 DEF history

\* A list is stored under the version its reader found before it read the table.
LEMMA FillKeeps ==
  ASSUME IInv, NEW r \in Reader, Fill(r)
  PROVE  IInv'
<1> USE DEF IInv
<1> DEFINE v == read[r].ver
<1>1. /\ UNCHANGED <<content, post, version, verTTL, history>>
      /\ v \in Versions /\ version \in Versions /\ Versions \subseteq Nat
      /\ Busy(r) /\ Covers(read[r].list, read[r].must)
  BY ReadTypes, Initials DEF Fill, TypeOK, Busy, ReaderOK
<1>2. /\ entry' = [entry EXCEPT ![v] = [ttl |-> ListTTL, list |-> read[r].list]]
      /\ entry'[v] = [ttl |-> ListTTL, list |-> read[r].list]
      /\ \A u \in Versions \ {v} : entry'[u] = entry[u]
  BY <1>1 DEF Fill, VersionRead, ListLife, TypeOK
<1>3. /\ read' = [read EXCEPT ![r] = [Idle EXCEPT !.pc = "served"]]
      /\ read'[r] = [Idle EXCEPT !.pc = "served"]
      /\ \A s \in Reader \ {r} : read'[s] = read[s]
      /\ ~Busy(r)'
  BY DEF Fill, Answer, TypeOK, Idle, Busy
<1>4. TypeOK'
  <2>1. entry'[v] \in Entries
    <3>1. read[r].list \in Lists /\ ListTTL \in 0..ListTTL
      BY ReadTypes, CacheAssumption
    <3> QED
      BY <1>2, <3>1 DEF Entries
  <2>2. read'[r] \in Reads
    <3>1. [Idle EXCEPT !.pc = "served"] \in Reads
      BY Initials DEF Reads
    <3> QED
      BY <1>3, <3>1
  <2> QED
    BY <1>1, <1>2, <1>3, <2>1, <2>2 DEF TypeOK, history
<1>5. Counted' /\ ReaderOK'
  BY <1>1, <1>3 DEF Counted, ReaderOK, Covers, history, Idle
<1>6. ASSUME Fresh PROVE Fresh'
  <2>1. ASSUME NEW s \in Reader, Busy(s)'
        PROVE  /\ read'[s] = read[s] /\ Busy(s)
               /\ read[s].ver = v => read[s].must = read[r].must
    BY <2>1, <1>1, <1>3, <1>6 DEF Fresh, Agree, Busy
  <2>2. NotAhead'
    BY <1>1, <1>2, <1>6, <2>1 DEF Fresh, NotAhead
  <2>3. Current'
    BY <1>1, <1>2, <1>6, <2>1 DEF Fresh, Current, Covers, history
  <2>4. Agree'
    BY <1>6, <2>1 DEF Fresh, Agree
  <2>5. Covered'
    BY <1>1, <1>2, <1>6, <2>1, ReadTypes DEF Fresh, Covered, Covers
  <2> QED
    BY <2>2, <2>3, <2>4, <2>5 DEF Fresh
<1> QED
  BY <1>1, <1>4, <1>5, <1>6 DEF history

\* The other steps of a reader change its step, or make it leave.
LEMMA ReaderKeeps ==
  ASSUME IInv, NEW r \in Reader, Lookup(r) \/ Select(r) \/ FillFails(r) \/ ReadFails(r)
  PROVE  IInv'
<1> USE DEF IInv
<1>1. /\ UNCHANGED <<content, post, version, verTTL, entry, history>>
      /\ \A s \in Reader \ {r} : read'[s] = read[s]
  BY DEF Lookup, Select, FillFails, ReadFails, Answer, TypeOK
<1>2. \/ read'[r].pc \in {"served", "failed"} /\ read'[r].must = {} /\ read'[r].ver = 0
      \/ /\ read'[r].ver = read[r].ver /\ read'[r].must = read[r].must /\ Busy(r)
         /\ read'[r].pc = "select" \/ (read'[r].pc = "fill" /\ read'[r].list = Visible)
  BY DEF Lookup, Select, FillFails, ReadFails, Answer, TypeOK, Reads, Idle, Busy
<1>3. TypeOK'
  <2>1. Visible \in Lists
    BY DEF Visible, Lists, TypeOK
  <2>2. read' = [read EXCEPT ![r] = read'[r]] /\ read'[r] \in Reads
    BY <2>1, Initials DEF Lookup, Select, FillFails, ReadFails, Answer, TypeOK, Idle, Reads
  <2> QED
    BY <1>1, <2>2 DEF TypeOK, history
<1>4. Covers(Visible, read[r].must)
  BY DEF Covers, Visible, Counted, ReaderOK, TypeOK, Lists
<1>5. Counted' /\ ReaderOK'
  BY <1>1, <1>2, <1>4 DEF Counted, ReaderOK, Covers, history
<1>6. Fresh => Fresh'
  <2>1. \A s \in Reader : Busy(s)' =>
          Busy(s) /\ read'[s].ver = read[s].ver /\ read'[s].must = read[s].must
    BY <1>1, <1>2 DEF Busy
  <2>2. UNCHANGED <<content, version, entry, bumped>>
    BY <1>1 DEF history
  <2>3. NotAhead => NotAhead'
    BY <2>1, <2>2 DEF NotAhead
  <2>4. Current => Current'
    BY <2>1, <2>2 DEF Current, Covers
  <2>5. Agree => Agree'
    BY <2>1 DEF Agree
  <2>6. Covered => Covered'
    BY <2>1, <2>2 DEF Covered, Covers
  <2> QED
    BY <2>3, <2>4, <2>5, <2>6 DEF Fresh
<1> QED
  BY <1>1, <1>3, <1>5, <1>6 DEF history

----------------------------------------------------------------------------
\* Time takes lists away; when it takes the version too, none remains but those of
\* version 0, or the key is recycled.
LEMMA TickKeeps ==
  ASSUME IInv, Tick
  PROVE  IInv'
<1> USE DEF IInv
<1>1. UNCHANGED <<content, post, bumped>> /\ (recycled => recycled')
  BY DEF Tick
<1>2. \A r \in Reader : /\ read'[r].pc = read[r].pc /\ read'[r].ver = read[r].ver
                        /\ read'[r].list = read[r].list /\ read'[r].must = read[r].must
  BY DEF Tick, TypeOK, Reads
<1>3. \A v \in Versions : entry'[v].ttl > 0 =>
        entry[v].ttl > 1 /\ entry[v].ttl > 0 /\ entry'[v].list = entry[v].list
  BY CacheAssumption DEF Tick, Older, Absent, TypeOK, Entries
<1>4. /\ version \in Versions /\ version' \in {version, 0} /\ 0 \in Versions
      /\ Versions \subseteq Nat
  BY Initials DEF Tick, TypeOK
<1>5. TypeOK'
  <2>1. \A v \in Versions : Older(entry[v]) \in Entries
    BY Initials, CacheAssumption DEF Older, Entries, TypeOK
  <2>2. \A r \in Reader : Busy(r) => [read[r] EXCEPT !.age = @ + 1] \in Reads
    <3> SUFFICES ASSUME NEW r \in Reader, Busy(r)
                 PROVE  [read[r] EXCEPT !.age = @ + 1] \in Reads
      OBVIOUS
    <3>1. read[r] \in Reads /\ read[r].age < Slow
      BY ReadTypes DEF Tick
    <3>2. read[r].age \in Nat /\ read[r].age + 1 \in 0..Slow
      BY <3>1, CacheAssumption DEF Reads
    <3> QED
      BY <3>1, <3>2 DEF Reads
  <2>3. verTTL' \in 0..NoExpiry /\ (version' = 0 <=> verTTL' = 0)
    BY CacheAssumption DEF Tick, TypeOK, NoExpiry
  <2>4. since' \in [Msg -> 0..Settled] /\ recycled' \in BOOLEAN
    BY CacheAssumption DEF Tick, TypeOK, Settled
  <2> QED
    BY <1>1, <1>4, <2>1, <2>2, <2>3, <2>4 DEF Tick, TypeOK
<1>6. Counted'
  <2>1. Cardinality(bumped) \in Nat
    BY CacheAssumption, FS_Subset, FS_CardinalityType DEF TypeOK
  <2> QED
    BY <1>1, <1>4, <2>1 DEF Counted
<1>7. ReaderOK'
  BY <1>1, <1>2 DEF ReaderOK, Covers
<1>8. ASSUME Fresh, version' = version PROVE Fresh'
  <2>1. NotAhead' /\ Agree'
    BY <1>2, <1>3, <1>4, <1>8 DEF Fresh, NotAhead, Agree, Busy
  <2>2. Current'
    BY <1>1, <1>2, <1>3, <1>4, <1>8 DEF Fresh, Current, Covers, Busy
  <2>3. Covered'
    BY <1>1, <1>2, <1>3, <1>8, ReadTypes DEF Fresh, Covered, Covers, Busy
  <2> QED
    BY <2>1, <2>2, <2>3 DEF Fresh
<1>9. ASSUME Fresh, version' # version, ~Outlived PROVE Fresh'
  <2>1. version' = 0 /\ \A v \in Versions : entry'[v].ttl > 0 => v = 0
    BY <1>3, <1>4, <1>9 DEF Outlived
  <2>2. \A r \in Reader : Busy(r)' => read'[r].ver = 0 /\ read'[r].must = {}
    BY <1>2, <1>9 DEF Outlived, Busy, ReaderOK
  <2> QED
    <3>1. NotAhead' /\ Current'
      BY <2>1, <2>2, <1>4 DEF NotAhead, Current
    <3>2. Agree' /\ Covered'
      BY <2>2 DEF Agree, Covered, Covers
    <3> QED
      BY <3>1, <3>2 DEF Fresh
<1> QED
  BY <1>1, <1>5, <1>6, <1>7, <1>8, <1>9 DEF Tick

LEMMA Invariance == Spec => []IInv
<1>1. Init => IInv
  BY InitEstablishes
<1>2. IInv /\ [Next]_vars => IInv'
  <2> SUFFICES ASSUME IInv, [Next]_vars
               PROVE  IInv'
    OBVIOUS
  <2>1. CASE Next
    BY <2>1, ChangesKeep, BumpKeeps, LossKeeps, ReadVersionKeeps, FillKeeps, ReaderKeeps, TickKeeps
       DEF Next
  <2>2. CASE UNCHANGED vars
    BY <2>2 DEF vars, history, IInv, TypeOK, Counted, ReaderOK,
                 Fresh, NotAhead, Current, Agree, Covered, Covers, Busy
  <2> QED
    BY <2>1, <2>2
<1> QED
  BY <1>1, <1>2, PTL DEF Spec

----------------------------------------------------------------------------
\* The variables keep their types: no list outlives its time, no version exceeds the
\* number of creations, and the key exists exactly while it has a value.
THEOREM TypeCorrect == Spec => []TypeOK
<1>1. IInv => TypeOK
  BY DEF IInv
<1> QED
  BY <1>1, Invariance, PTL

\* A list is only ever answered from the cache, or as the reader has read it.
LEMMA AnswersFrom ==
  ASSUME TypeOK, [Next]_vars, NEW r \in Reader, Answers(r)
  PROVE  \/ read[r].pc = "lookup" /\ entry[read[r].ver].ttl > 0
         \/ read[r].pc = "fill"
<1>1. CASE \E s \in Reader : Lookup(s) \/ Fill(s) \/ FillFails(s)
  <2>1. PICK s \in Reader : Lookup(s) \/ Fill(s) \/ FillFails(s)
    BY <1>1
  <2>2. s # r => read'[r] = read[r]
    BY <2>1 DEF Lookup, Fill, FillFails, Answer, TypeOK
  <2>3. s = r
    BY <2>2 DEF Answers
  <2> QED
    BY <2>1, <2>3 DEF Lookup, Fill, FillFails, Answers, TypeOK, Reads
<1>2. CASE \E s \in Reader : ReadVersion(s) \/ Select(s) \/ ReadFails(s)
  <2>1. PICK s \in Reader : ReadVersion(s) \/ Select(s) \/ ReadFails(s)
    BY <1>2
  <2>2. s # r => read'[r] = read[r]
    BY <2>1 DEF ReadVersion, Select, ReadFails, TypeOK
  <2>3. s = r
    BY <2>2 DEF Answers
  <2>4. read[r] \in Reads
    BY ReadTypes
  <2>5. ~ReadVersion(r)
    BY DEF ReadVersion, Answers, Idle, TypeOK
  <2>6. ~Select(r)
    BY <2>4 DEF Select, Answers, TypeOK, Reads
  <2>7. ~ReadFails(r)
    BY DEF ReadFails, Answers, Idle, TypeOK
  <2> QED
    BY <2>1, <2>3, <2>5, <2>6, <2>7
<1>3. CASE \E m \in Msg : Insert(m) \/ Bump(m) \/ SetExpiry(m) \/ Lose(m) \/ Edit(m) \/ Delete(m)
  BY <1>3 DEF Insert, Bump, SetExpiry, Lose, Edit, Delete, Write, Answers
<1>4. CASE Tick
  BY <1>4 DEF Tick, Answers, TypeOK
<1>5. CASE UNCHANGED vars
  BY <1>5 DEF vars, Answers
<1> QED
  BY <1>1, <1>2, <1>3, <1>4, <1>5 DEF Next

\* For any number of creations and readers in any order, and whatever fails, a reader
\* that found a version is answered with every message that had raised it.
THEOREM CreationsAreSeen == Spec => BumpedIsSeen
<1> DEFINE Seen == \A r \in Reader : ~recycled /\ Answers(r) => Shown(r)
<1>1. IInv /\ [Next]_vars => Seen
  <2> SUFFICES ASSUME IInv, [Next]_vars, NEW r \in Reader, ~recycled, Answers(r)
               PROVE  Shown(r)
    OBVIOUS
  <2> USE DEF IInv, Shown, Covers
  <2>1. \/ read[r].pc = "lookup" /\ entry[read[r].ver].ttl > 0
        \/ read[r].pc = "fill"
    BY AnswersFrom
  <2>2. CASE read[r].pc = "lookup"
    BY <2>1, <2>2 DEF Fresh, Covered, Busy, AnswerOf
  <2>3. CASE read[r].pc = "fill"
    BY <2>3 DEF ReaderOK, AnswerOf
  <2> QED
    BY <2>1, <2>2, <2>3
<1>2. IInv /\ [Next]_vars => [Seen]_vars
  BY <1>1
<1> QED
  BY <1>2, Invariance, PTL DEF Spec, BumpedIsSeen

----------------------------------------------------------------------------
(***************************************************************************)
(* SettledIsServed: the two ages add up.  What a reader has read lacks     *)
(* only changes younger than its handler, and what is stored lacks only    *)
(* changes younger than the longest handler and the time the list has been *)
(* stored together.                                                        *)
(***************************************************************************)
ReadsAged ==
  \A r \in Reader, m \in Msg :
    read[r].pc = "fill" /\ since[m] > read[r].age => read[r].list[m] = Visible[m]

StoredAged ==
  \A v \in Versions, m \in Msg :
    entry[v].ttl > 0 /\ since[m] > Settled - entry[v].ttl => entry[v].list[m] = Visible[m]

Aged == ReadsAged /\ StoredAged

LEMMA AgedInit == Init => Aged
  BY DEF Init, Aged, ReadsAged, StoredAged, Absent, Idle

\* A change makes its message the youngest of all, and shows nothing of the others.
LEMMA ChangesAge ==
  ASSUME TypeOK, Aged, NEW m \in Msg, Insert(m) \/ Edit(m) \/ Delete(m)
  PROVE  Aged'
<1> USE CacheAssumption
<1>1. /\ UNCHANGED <<entry, read>>
      /\ since' = [since EXCEPT ![m] = 0]
      /\ \E c : content' = [content EXCEPT ![m] = c]
  BY DEF Insert, Edit, Delete, Write
<1>2. since'[m] = 0 /\ \A k \in Msg \ {m} : since'[k] = since[k] /\ Visible'[k] = Visible[k]
  BY <1>1 DEF Visible, TypeOK, Lists
<1>3. /\ \A r \in Reader : read[r].age \in Nat
      /\ \A v \in Versions : entry[v].ttl \in 0..ListTTL
      /\ \A v \in Versions : Settled - entry[v].ttl \in Nat
  BY DEF TypeOK, Reads, Entries, Settled
<1>4. ReadsAged'
  BY <1>1, <1>2, <1>3 DEF Aged, ReadsAged
<1>5. StoredAged'
  BY <1>1, <1>2, <1>3 DEF Aged, StoredAged
<1> QED
  BY <1>4, <1>5 DEF Aged

\* A handler stores a list no older than itself.
LEMMA FillAges ==
  ASSUME TypeOK, Aged, NEW r \in Reader, Fill(r)
  PROVE  Aged'
<1> DEFINE v == read[r].ver
<1>1. /\ UNCHANGED <<content, since>> /\ Visible' = Visible
      /\ entry'[v] = [ttl |-> ListTTL, list |-> read[r].list]
      /\ \A u \in Versions \ {v} : entry'[u] = entry[u]
      /\ read[r].pc = "fill"
  BY ReadTypes DEF Fill, VersionRead, ListLife, TypeOK, Visible, history
<1>2. read'[r].pc = "served" /\ \A s \in Reader \ {r} : read'[s] = read[s]
  BY DEF Fill, Answer, TypeOK, Idle
<1>3. read[r].age \in 0..Slow /\ ListTTL \in Nat /\ Slow \in Nat /\ since \in [Msg -> 0..Settled]
  BY CacheAssumption DEF TypeOK, Reads
<1>4. \A m \in Msg : since[m] > Settled - ListTTL => read[r].list[m] = Visible[m]
  <2>1. ASSUME NEW m \in Msg, since[m] > Settled - ListTTL PROVE since[m] > read[r].age
    <3>1. since[m] \in Nat
      BY <1>3, CacheAssumption DEF Settled
    <3> QED
      BY <1>3, <2>1, <3>1 DEF Settled
  <2> QED
    BY <1>1, <2>1 DEF Aged, ReadsAged
<1>5. ReadsAged'
  BY <1>1, <1>2 DEF Aged, ReadsAged
<1>6. StoredAged'
  BY <1>1, <1>4 DEF Aged, StoredAged
<1> QED
  BY <1>5, <1>6 DEF Aged

\* The other steps of a reader read the table now, or read nothing.
LEMMA ReaderAges ==
  ASSUME TypeOK, Aged, NEW r \in Reader,
         ReadVersion(r) \/ Lookup(r) \/ Select(r) \/ FillFails(r) \/ ReadFails(r)
  PROVE  Aged'
<1>1. UNCHANGED <<content, entry, since>> /\ Visible' = Visible
  BY DEF ReadVersion, Lookup, Select, FillFails, ReadFails, Visible, history
<1>2. /\ \A s \in Reader \ {r} : read'[s] = read[s]
      /\ read'[r].pc # "fill" \/ read'[r].list = Visible
  <2>1. CASE Select(r)
    BY <2>1 DEF Select, TypeOK, Reads
  <2>2. CASE Lookup(r) \/ FillFails(r) \/ ReadFails(r)
    BY <2>2 DEF Lookup, FillFails, ReadFails, Answer, TypeOK, Reads, Idle
  <2>3. CASE ReadVersion(r)
    BY <2>3 DEF ReadVersion, TypeOK, Idle
  <2> QED
    BY <2>1, <2>2, <2>3
<1>3. ReadsAged'
  BY <1>1, <1>2 DEF Aged, ReadsAged
<1>4. StoredAged'
  BY <1>1 DEF Aged, StoredAged
<1> QED
  BY <1>3, <1>4 DEF Aged

\* A tick adds one to both sides.
LEMMA TickAges ==
  ASSUME TypeOK, Aged, Tick
  PROVE  Aged'
<1> USE CacheAssumption
<1>1. Visible' = Visible
  BY DEF Tick, Visible
<1>2. \A m \in Msg : /\ since[m] \in 0..Settled
                     /\ since'[m] = since[m] + 1 \/ (since[m] = Settled /\ since'[m] = Settled)
  <2>1. \A m \in Msg : since[m] \in 0..Settled
    BY DEF TypeOK
  <2>2. \A m \in Msg : since'[m] = IF since[m] < Settled THEN since[m] + 1 ELSE Settled
    BY DEF Tick
  <2>3. Settled \in Nat
    BY DEF Settled
  <2> HIDE DEF Settled
  <2> QED
    BY <2>1, <2>2, <2>3
<1>3. ReadsAged'
  <2> SUFFICES ASSUME NEW r \in Reader, NEW m \in Msg, read'[r].pc = "fill",
                      since'[m] > read'[r].age
               PROVE  read'[r].list[m] = Visible[m]
    BY <1>1 DEF ReadsAged
  <2>1. /\ read[r].pc = "fill" /\ read'[r].list = read[r].list
        /\ read'[r].age = read[r].age + 1 /\ read[r].age \in Nat
    BY DEF Tick, TypeOK, Reads, Busy
  <2>2. since[m] > read[r].age
    BY <1>2, <2>1 DEF Settled
  <2> QED
    BY <2>1, <2>2 DEF Aged, ReadsAged
<1>4. StoredAged'
  <2> SUFFICES ASSUME NEW v \in Versions, NEW m \in Msg, entry'[v].ttl > 0,
                      since'[m] > Settled - entry'[v].ttl
               PROVE  entry'[v].list[m] = Visible[m]
    BY <1>1 DEF StoredAged
  <2>1. /\ entry[v].ttl \in 0..ListTTL /\ entry[v].ttl > 1
        /\ entry'[v].ttl = entry[v].ttl - 1 /\ entry'[v].list = entry[v].list
    BY DEF Tick, Older, Absent, TypeOK, Entries
  <2>2. since[m] > Settled - entry[v].ttl
    BY <1>2, <2>1 DEF Settled
  <2> QED
    BY <2>1, <2>2 DEF Aged, StoredAged
<1> QED
  BY <1>3, <1>4 DEF Aged

LEMMA AgedKept == Spec => []Aged
<1>1. IInv /\ Aged /\ [Next]_vars => Aged'
  <2> SUFFICES ASSUME TypeOK, Aged, [Next]_vars PROVE Aged'
    BY DEF IInv
  <2>1. ASSUME (\E m \in Msg : Bump(m) \/ SetExpiry(m) \/ Lose(m)) \/ UNCHANGED vars
        PROVE  Aged'
    <3>1. UNCHANGED <<content, entry, read, since>>
      BY <2>1 DEF Bump, SetExpiry, Lose, history, vars
    <3> QED
      BY <3>1 DEF Aged, ReadsAged, StoredAged, Visible
  <2> QED
    BY <2>1, ChangesAge, FillAges, ReaderAges, TickAges DEF Next
<1> QED
  BY <1>1, AgedInit, Invariance, PTL DEF Spec

\* Whatever bumps and keys are lost, a change as old as the life of a list and of the
\* handler that stored it is in every answer.
THEOREM ChangesSettle == Spec => SettledIsServed
<1> DEFINE Served == \A r \in Reader : Answers(r) =>
                       \A m \in Msg : since[m] = Settled => AnswerOf(r)[m] = Visible[m]
<1>1. IInv /\ Aged /\ [Next]_vars => Served
  <2> SUFFICES ASSUME IInv, Aged, [Next]_vars, NEW r \in Reader, Answers(r),
                      NEW m \in Msg, since[m] = Settled
               PROVE  AnswerOf(r)[m] = Visible[m]
    OBVIOUS
  <2>1. TypeOK /\ ListTTL \in Nat \ {0} /\ Slow \in Nat
    BY CacheAssumption DEF IInv
  <2>2. CASE read[r].pc = "lookup" /\ entry[read[r].ver].ttl > 0
    <3>1. read[r].ver \in Versions /\ entry[read[r].ver].ttl \in 0..ListTTL
      BY <2>1, ReadTypes DEF TypeOK, Entries
    <3>2. since[m] > Settled - entry[read[r].ver].ttl
      BY <2>1, <2>2, <3>1 DEF Settled
    <3> QED
      BY <2>2, <3>1, <3>2 DEF Aged, StoredAged, AnswerOf
  <2>3. CASE read[r].pc = "fill"
    <3>1. read[r].age \in 0..Slow
      BY <2>1 DEF TypeOK, Reads
    <3>2. since[m] > read[r].age
      BY <2>1, <3>1 DEF Settled
    <3> QED
      BY <2>3, <3>2 DEF Aged, ReadsAged, AnswerOf
  <2> QED
    BY <2>1, <2>2, <2>3, AnswersFrom
<1>2. IInv /\ Aged /\ [Next]_vars => [Served]_vars
  BY <1>1
<1> QED
  BY <1>2, Invariance, AgedKept, PTL DEF Spec, SettledIsServed
=============================================================================
