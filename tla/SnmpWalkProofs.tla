----------------------------- MODULE SnmpWalkProofs -----------------------------
(***************************************************************************)
(* Proofs about the SNMP engine and a station's walk over it, for tables   *)
(* of any size, PDUs of any length, any number of reloads at any point,    *)
(* lost packets and retries.                                               *)
(*                                                                         *)
(* First the engine: a GETNEXT or GETBULK column follows the OID list it   *)
(* took without skipping or repeating.  Then the walk: it is complete and  *)
(* goes upwards; with no reload it is exactly the table.  The invariant of *)
(* the walk is about the answer being put together: up to its first        *)
(* exception it covers every steady OID between where the station is and   *)
(* where the answer has got to.  It speaks of the whole answer and not of  *)
(* one step of it, so that taking any number of var-binds is one step.     *)
(***************************************************************************)
EXTENDS SnmpWalk, WellFoundedInduction, FiniteSetTheorems, TLAPS

\* Everything an OID of the engine's can be: stored, asked for, or 0.
Names == 0..MaxOid

Answered == [oid : Names \cup {NoOid},
             ans : Values \cup {"noSuchObject", "endOfMibView"}, col : Nat]

QueryTypes ==
  /\ cache \in Tables
  /\ kind \in Kinds \cup {"idle"}
  /\ binds \in Seq(Names) /\ nonrep \in Nat
  /\ pairs \in SUBSET Oid
  /\ pos \in Nat \ {0}
  /\ cursor \in Names
  /\ target \in Oid \cup {NoOid}
  /\ rsp \in Seq(Answered)

\* A set of naturals has a least element; so does the part of it beyond t.
LEMMA LeastExists ==
  ASSUME NEW T \in SUBSET Nat, T # {}
  PROVE  \E x \in T : \A y \in T : x <= y
<1>1. PICK x \in T : \A y \in T : <<y, x>> \notin OpToRel(<, Nat)
  BY WFMin, NatLessThanWellFounded, Zenon
<1>2. \A y \in T : ~(y < x)
  BY <1>1, Zenon DEF OpToRel
<1>3. QED BY <1>2

\* NextOid is the first stored OID after t, whenever one follows.
LEMMA NextIsFirst ==
  ASSUME NEW S \in SUBSET Oid, NEW t \in Nat, After(S, t) # {}
  PROVE  /\ NextOid(S, t) \in S /\ NextOid(S, t) > t
         /\ \A p \in S : p > t => NextOid(S, t) <= p
<1>1. After(S, t) \in SUBSET Nat
  <2>1. \A o \in Oid : o \in Nat
    BY AgentQueryAssumption DEF Oid
  <2>2. \A o \in After(S, t) : o \in Oid
    BY DEF After
  <2>3. QED BY <2>1, <2>2
<1>2. \E x \in After(S, t) : \A y \in After(S, t) : x <= y
  BY <1>1, LeastExists
<1>3. QED BY <1>2 DEF NextOid, After

-----------------------------------------------------------------------------
(* Types.                                                                  *)

LEMMA InitTypes == QueryInit => QueryTypes
  BY AgentQueryAssumption
     DEF QueryInit, QueryTypes, Names, Answered, Oid

LEMMA AnswerType ==
  ASSUME QueryTypes, NEW o \in Oid
  PROVE  /\ Answer(o) \in Values \cup {"noSuchObject"}
         /\ BulkOid(o) \in Oid \cup {NoOid}
  BY DEF Answer, BulkOid

LEMMA ReceiveTypes ==
  ASSUME QueryTypes, NEW k \in Kinds, NEW b \in Seq(Names), NEW nr \in Nat, NEW mr,
         Receive(k, b, nr, mr)
  PROVE  QueryTypes'
<1>1. Stored(cache) \in SUBSET Oid
  BY DEF Stored
<1>2. b[1] \in Names
  BY DEF Receive
<1>3. QED BY <1>1, <1>2 DEF QueryTypes, Receive

\* What AnyRequest brings is a request of some kind.
LEMMA RequestIsReceived ==
  ASSUME AnyRequest
  PROVE  \E k \in Kinds, b \in Seq(Names), nr \in Nat, mr \in Nat : Receive(k, b, nr, mr)
<1>1. PICK k \in Kinds, n \in 1..MaxBinds, nr \in 0..MaxBinds, mr \in 0..(MaxRep + 1) :
        \E b \in [1..n -> Asked] : Receive(k, b, nr, mr)
  BY DEF AnyRequest
<1>2. PICK b \in [1..n -> Asked] : Receive(k, b, nr, mr)
  BY <1>1
<1>3. b \in Seq(Names) /\ nr \in Nat /\ mr \in Nat
  BY AgentQueryAssumption DEF Asked, Names
<1>4. QED BY <1>2, <1>3

\* A step that answers a var-bind, whichever way, or moves on without.
LEMMA NextBindTypes ==
  ASSUME QueryTypes, Answering, NextBind
  PROVE  pos' \in Nat \ {0} /\ cursor' \in Names /\ target' = NoOid
  BY DEF QueryTypes, Answering, NextBind

LEMMA PutTypes ==
  ASSUME QueryTypes, NEW o \in Names \cup {NoOid},
         NEW a \in Values \cup {"noSuchObject", "endOfMibView"}, Put(o, a)
  PROVE  rsp' \in Seq(Answered)
  BY DEF QueryTypes, Put, Answered

LEMMA ServeTypes ==
  ASSUME QueryTypes, Serve PROVE QueryTypes'
<1>1. CASE Probe
  <2>1. CASE cursor \in Stored(cache) \ Respelt
    BY <1>1, <2>1 DEF Probe, QueryTypes, Stored, request
  <2>2. CASE cursor \notin Stored(cache) \ Respelt
    <3>1. Put(cursor, "noSuchObject") /\ NextBind /\ Answering
      BY <1>1, <2>2 DEF Probe
    <3>2. rsp' \in Seq(Answered)
      BY <3>1, PutTypes DEF QueryTypes
    <3>3. QED
      BY <1>1, <3>1, <3>2, NextBindTypes DEF Probe, QueryTypes, request
  <2>3. QED BY <2>1, <2>2
<1>2. CASE Successor
  <2>1. pairs \in SUBSET Oid /\ cursor \in Nat /\ After(pairs, cursor) # {}
    BY <1>2, AgentQueryAssumption DEF Successor, QueryTypes, Names
  <2>2. NextOid(pairs, cursor) \in Oid
    BY <2>1, NextIsFirst
  <2>3. QED BY <1>2, <2>2 DEF Successor, QueryTypes, request
<1>3. CASE EndOfMib
  <2>1. rsp' \in Seq(Answered)
    BY <1>3, PutTypes DEF EndOfMib, QueryTypes
  <2>2. QED BY <1>3, <2>1, NextBindTypes DEF EndOfMib, QueryTypes, request
<1>4. CASE EndColumn
  BY <1>4, NextBindTypes DEF EndColumn, QueryTypes, request
<1>5. CASE ReadOnce
  <2>1. Answering /\ target \in Oid /\ binds[pos] \in Names
    BY <1>5 DEF ReadOnce, QueryTypes, Answering
  <2>2. (IF cache[target] \in Values THEN target ELSE binds[pos]) \in Names
    BY <2>1, AgentQueryAssumption DEF Oid, Names
  <2>3. rsp' \in Seq(Answered)
    BY <1>5, <2>1, <2>2, PutTypes, AnswerType DEF ReadOnce
  <2>4. QED BY <1>5, <2>3, NextBindTypes DEF ReadOnce, QueryTypes, request
<1>6. CASE ReadBulk
  <2>1. Answering /\ target \in Oid /\ Oid \subseteq Names
    BY <1>6, AgentQueryAssumption DEF ReadBulk, QueryTypes, Oid, Names
  <2>2. rsp' \in Seq(Answered)
    BY <1>6, <2>1, PutTypes, AnswerType DEF ReadBulk
  <2>3. CASE Repeats
    BY <1>6, <2>1, <2>2, <2>3 DEF ReadBulk, QueryTypes, request
  <2>4. CASE ~Repeats
    BY <1>6, <2>2, <2>4, NextBindTypes DEF ReadBulk, QueryTypes, request
  <2>5. QED BY <2>3, <2>4
<1>7. CASE Reply
  BY <1>7 DEF Reply, QueryTypes, request
<1>8. QED
  BY <1>1, <1>2, <1>3, <1>4, <1>5, <1>6, <1>7 DEF Serve

LEMMA ReloadTypes ==
  ASSUME QueryTypes, AnyReload PROVE QueryTypes'
  BY DEF AnyReload, ReloadWith, QueryTypes, request

(* Every variable of the engine keeps its type.                            *)
THEOREM QueryTypesCorrect == QuerySpec => []QueryTypes
<1>1. QueryTypes /\ [QueryNext]_queryVars => QueryTypes'
  <2> SUFFICES ASSUME QueryTypes, [QueryNext]_queryVars PROVE QueryTypes'
    OBVIOUS
  <2>1. CASE UNCHANGED queryVars
    BY <2>1 DEF queryVars, request, QueryTypes
  <2>2. QED
    BY <2>1, RequestIsReceived, ReceiveTypes, ServeTypes, ReloadTypes DEF QueryNext
<1>2. QED BY <1>1, InitTypes, PTL DEF QuerySpec

-----------------------------------------------------------------------------
(* No OID is skipped.  The column in hand stands at its cursor: at the OID *)
(* asked for, or at the last one it answered; and the target, once it is   *)
(* chosen, is the first OID beyond.                                        *)

ColumnsSoFar == \A i \in 1..Len(rsp) : rsp[i].col <= pos

AtCursor ==
  Answering =>
    IF rsp # <<>> /\ rsp[Len(rsp)].col = pos
      THEN rsp[Len(rsp)].oid \in {cursor, NoOid}
      ELSE cursor = binds[pos]

TargetFirst ==
  Answering /\ kind # "get" /\ target # NoOid =>
    target > cursor /\ \A p \in pairs : p > cursor => target <= p

Following == ColumnsSoFar /\ AtCursor /\ TargetFirst

\* What an answer e owes, over the list S, to where its column stood, b.
Fits(S, e, b) ==
  b # NoOid =>
    /\ e.ans \in Values => e.oid > b /\ After(S, b) \cap 1..(e.oid - 1) = {}
    /\ e.ans = "endOfMibView" => After(S, b) = {}

NoneSkipped ==
  kind # "idle" /\ kind # "get" =>
    \A i \in 1..Len(rsp) : Fits(pairs, rsp[i], Before(i))

LEMMA SameAsNoOidSkipped == NoneSkipped <=> NoOidSkipped
  BY DEF NoneSkipped, NoOidSkipped, Fits

\* An answer that fits where its column stands, in the last place.
LEMMA AppendFits ==
  ASSUME QueryTypes, AtCursor, NoneSkipped, Answering, kind # "get",
         NEW e \in Answered, e.col = pos, rsp' = Append(rsp, e),
         UNCHANGED request, kind' = kind, Fits(pairs, e, cursor)
  PROVE  NoneSkipped'
<1>1. binds' = binds /\ pairs' = pairs
  BY DEF request
<1>2. PICK n \in Nat : n = Len(rsp)
  BY DEF QueryTypes
<1>3. /\ Len(rsp') = n + 1 /\ rsp'[n + 1] = e
      /\ \A i \in 1..n : rsp'[i] = rsp[i]
  BY <1>2 DEF QueryTypes
<1>4. ASSUME NEW i \in 1..n PROVE Fits(pairs', rsp'[i], Before(i)')
  <2>1. Before(i)' = Before(i)
    BY <1>1, <1>3, <1>4 DEF Before
  <2>2. Fits(pairs, rsp[i], Before(i))
    BY <1>2, <1>4 DEF NoneSkipped, Answering
  <2>3. QED BY <1>1, <1>3, <1>4, <2>1, <2>2
<1>5. Before(n + 1)' \in {cursor, NoOid}
  <2>1. CASE rsp # <<>> /\ rsp[n].col = pos
    <3>1. n > 0
      BY <1>2, <2>1 DEF QueryTypes
    <3>2. rsp'[n] = rsp[n]
      BY <1>3, <3>1
    <3>3. Before(n + 1)' = rsp[n].oid
      BY <1>1, <1>3, <2>1, <3>1, <3>2 DEF Before
    <3>4. QED BY <1>2, <2>1, <3>3 DEF AtCursor
  <2>2. CASE ~(rsp # <<>> /\ rsp[n].col = pos)
    <3>1. Before(n + 1)' = binds[pos]
      BY <1>1, <1>2, <1>3, <2>2 DEF Before, QueryTypes
    <3>2. QED BY <1>2, <2>2, <3>1 DEF AtCursor
  <2>3. QED BY <2>1, <2>2
<1>6. Fits(pairs', rsp'[n + 1], Before(n + 1)')
  <2>1. CASE Before(n + 1)' = cursor
    BY <1>1, <1>3, <2>1
  <2>2. CASE Before(n + 1)' = NoOid
    BY <2>2 DEF Fits
  <2>3. QED BY <1>5, <2>1, <2>2
<1>7. QED BY <1>3, <1>4, <1>6 DEF NoneSkipped

\* After NextBind the next column stands at the OID it asks for.
LEMMA NextBindFollows ==
  ASSUME QueryTypes, ColumnsSoFar, Answering, NextBind, UNCHANGED request, kind' = kind,
         \/ rsp' = rsp
         \/ \E e \in Answered : e.col = pos /\ rsp' = Append(rsp, e)
  PROVE  Following'
<1>1. binds' = binds /\ pos' = pos + 1 /\ target' = NoOid
  BY DEF request, NextBind
<1>2. rsp' \in Seq(Answered)
  BY DEF QueryTypes
<1>3. \A i \in 1..Len(rsp') : rsp'[i].col <= pos
  <2>1. CASE rsp' = rsp
    BY <2>1 DEF ColumnsSoFar
  <2>2. CASE \E e \in Answered : e.col = pos /\ rsp' = Append(rsp, e)
    BY <2>2 DEF ColumnsSoFar, QueryTypes
  <2>3. QED BY <2>1, <2>2
<1>4. ColumnsSoFar'
  <2>1. \A i \in 1..Len(rsp') : rsp'[i].col \in Nat
    <3>1. \A i \in 1..Len(rsp') : rsp'[i] \in Answered
      BY <1>2
    <3>2. QED BY <3>1 DEF Answered
  <2>2. QED BY <1>1, <1>3, <2>1 DEF ColumnsSoFar, QueryTypes
<1>5. AtCursor'
  <2>1. Answering' => cursor' = binds'[pos']
    BY <1>1 DEF Answering, NextBind, QueryTypes
  <2>2. ~(rsp' # <<>> /\ rsp'[Len(rsp')].col = pos')
    BY <1>1, <1>2, <1>3 DEF QueryTypes
  <2>3. QED BY <2>1, <2>2 DEF AtCursor
<1>6. TargetFirst'
  BY <1>1 DEF TargetFirst
<1>7. QED BY <1>4, <1>5, <1>6 DEF Following

LEMMA ProbeKeeps ==
  ASSUME QueryTypes, Following, NoneSkipped, Probe
  PROVE  Following' /\ NoneSkipped'
<1>1. kind = "get" /\ kind' = kind /\ Answering /\ UNCHANGED request
  BY DEF Probe
<1>2. NoneSkipped'
  BY <1>1 DEF NoneSkipped
<1>3. CASE cursor \in Stored(cache) \ Respelt
  BY <1>1, <1>2, <1>3
     DEF Probe, Following, ColumnsSoFar, AtCursor, TargetFirst, Answering, request
<1>4. CASE cursor \notin Stored(cache) \ Respelt
  <2>1. PICK e : e = [oid |-> cursor, ans |-> "noSuchObject", col |-> pos]
    OBVIOUS
  <2>2. e \in Answered /\ e.col = pos
    BY <2>1 DEF Answered, QueryTypes
  <2>3. NextBind /\ rsp' = Append(rsp, e)
    BY <1>4, <2>1 DEF Probe, Put
  <2>4. QED BY <1>1, <1>2, <2>2, <2>3, NextBindFollows DEF Following
<1>5. QED BY <1>3, <1>4

LEMMA SuccessorKeeps ==
  ASSUME QueryTypes, Following, NoneSkipped, Successor
  PROVE  Following' /\ NoneSkipped'
<1>1. /\ target' = NextOid(pairs, cursor) /\ Answering /\ After(pairs, cursor) # {}
      /\ UNCHANGED <<kind, request, pos, cursor, rsp>>
  BY DEF Successor
<1>2. pairs \in SUBSET Oid /\ cursor \in Nat
  BY AgentQueryAssumption DEF QueryTypes, Names
<1>3. TargetFirst'
  BY <1>1, <1>2, NextIsFirst DEF TargetFirst, request
<1>4. ColumnsSoFar' /\ AtCursor'
  BY <1>1 DEF Following, ColumnsSoFar, AtCursor, Answering, request
<1>5. NoneSkipped'
  <2>1. \A i : Before(i)' = Before(i)
    BY <1>1 DEF Before, request
  <2>2. QED BY <1>1, <2>1 DEF NoneSkipped, request
<1>6. QED BY <1>3, <1>4, <1>5 DEF Following

LEMMA EndOfMibKeeps ==
  ASSUME QueryTypes, Following, NoneSkipped, EndOfMib
  PROVE  Following' /\ NoneSkipped'
<1>1. /\ Answering /\ kind # "get" /\ After(pairs, cursor) = {} /\ NextBind
      /\ UNCHANGED <<kind, request>>
  BY DEF EndOfMib
<1>2. PICK e : e = [oid |-> cursor, ans |-> "endOfMibView", col |-> pos]
  OBVIOUS
<1>3. e \in Answered /\ e.col = pos /\ rsp' = Append(rsp, e)
  BY <1>2 DEF Answered, QueryTypes, EndOfMib, Put
<1>4. Fits(pairs, e, cursor)
  BY <1>1, <1>2, AgentQueryAssumption DEF Fits, Values
<1>5. NoneSkipped'
  BY <1>1, <1>3, <1>4, AppendFits DEF Following
<1>6. QED BY <1>1, <1>3, <1>5, NextBindFollows DEF Following

LEMMA EndColumnKeeps ==
  ASSUME QueryTypes, Following, NoneSkipped, EndColumn
  PROVE  Following' /\ NoneSkipped'
<1>1. Answering /\ NextBind /\ UNCHANGED <<kind, request, rsp>>
  BY DEF EndColumn
<1>2. \A i : Before(i)' = Before(i)
  BY <1>1 DEF Before, request
<1>3. NoneSkipped'
  BY <1>1, <1>2 DEF NoneSkipped, request
<1>4. QED BY <1>1, <1>3, NextBindFollows DEF Following

\* A value read of the target is the first after the cursor.
LEMMA TargetFits ==
  ASSUME QueryTypes, TargetFirst, Answering, kind # "get", target # NoOid,
         NEW e, e.ans \in Values \cup {"noSuchObject"}, e.ans \in Values => e.oid = target
  PROVE  Fits(pairs, e, cursor)
<1>1. target \in Nat /\ cursor \in Nat /\ pairs \subseteq Nat
  <2>1. \A o \in Oid \cup Names : o \in Nat
    BY AgentQueryAssumption DEF Oid, Names
  <2>2. QED BY <2>1 DEF QueryTypes
<1>2. target > cursor /\ \A p \in pairs : p > cursor => target <= p
  BY DEF TargetFirst
<1>3. After(pairs, cursor) \cap 1..(target - 1) = {}
  BY <1>1, <1>2 DEF After
<1>4. e.ans # "endOfMibView"
  BY AgentQueryAssumption DEF Values
<1>5. QED BY <1>2, <1>3, <1>4 DEF Fits

LEMMA ReadOnceKeeps ==
  ASSUME QueryTypes, Following, NoneSkipped, ReadOnce
  PROVE  Following' /\ NoneSkipped'
<1>1. Answering /\ target \in Oid /\ target # NoOid /\ NextBind /\ UNCHANGED <<kind, request>>
  BY DEF ReadOnce, QueryTypes
<1>2. PICK e : e = [oid |-> IF cache[target] \in Values THEN target ELSE binds[pos],
                    ans |-> Answer(target), col |-> pos]
  OBVIOUS
<1>3. e.oid \in Names
  <2>1. target \in Names /\ binds[pos] \in Names
    BY <1>1, AgentQueryAssumption DEF Oid, Names, QueryTypes, Answering
  <2>2. QED BY <1>2, <2>1
<1>4. e \in Answered /\ e.col = pos /\ rsp' = Append(rsp, e)
  <2>1. e.ans \in Values \cup {"noSuchObject"}
    BY <1>1, <1>2, AnswerType
  <2>2. e \in Answered
    BY <1>2, <1>3, <2>1 DEF Answered, QueryTypes
  <2>3. QED BY <1>2, <2>2 DEF ReadOnce, Put
<1>5. ASSUME kind # "get" PROVE Fits(pairs, e, cursor)
  <2>1. e.ans \in Values \cup {"noSuchObject"}
    BY <1>1, <1>2, AnswerType
  <2>2. e.ans \in Values => e.oid = target
    BY <1>2, AgentQueryAssumption DEF Answer, Values
  <2>3. QED BY <1>1, <1>5, <2>1, <2>2, TargetFits DEF Following
<1>6. NoneSkipped'
  <2>1. CASE kind = "get"
    BY <1>1, <2>1 DEF NoneSkipped
  <2>2. CASE kind # "get"
    BY <1>1, <1>4, <1>5, <2>2, AppendFits DEF Following
  <2>3. QED BY <2>1, <2>2
<1>7. QED BY <1>1, <1>4, <1>6, NextBindFollows DEF Following

LEMMA ReadBulkKeeps ==
  ASSUME QueryTypes, Following, NoneSkipped, ReadBulk
  PROVE  Following' /\ NoneSkipped'
<1>1. /\ Answering /\ kind = "bulk" /\ target \in Oid /\ target # NoOid
      /\ UNCHANGED <<kind, request>>
  BY DEF ReadBulk, QueryTypes
<1>2. PICK e : e = [oid |-> BulkOid(target), ans |-> Answer(target), col |-> pos]
  OBVIOUS
<1>3. e.ans \in Values \cup {"noSuchObject"} /\ e.oid \in {target, NoOid}
  BY <1>1, <1>2, AnswerType DEF BulkOid
<1>4. e \in Answered /\ e.col = pos /\ rsp' = Append(rsp, e)
  <2>1. target \in Names
    BY <1>1, AgentQueryAssumption DEF Oid, Names
  <2>2. e \in Answered
    BY <1>2, <1>3, <2>1 DEF Answered, QueryTypes
  <2>3. QED BY <1>2, <2>2 DEF ReadBulk, Put
<1>5. Fits(pairs, e, cursor)
  <2>1. e.ans \in Values => e.oid = target
    BY <1>2, AgentQueryAssumption DEF Answer, BulkOid, Values
  <2>2. QED BY <1>1, <1>3, <2>1, TargetFits DEF Following
<1>6. NoneSkipped'
  BY <1>1, <1>4, <1>5, AppendFits DEF Following
<1>7. CASE Repeats
  <2>1. /\ cursor' = target /\ target' = NoOid /\ pos' = pos
        /\ binds' = binds /\ pairs' = pairs
    BY <1>7 DEF ReadBulk, request
  <2>2. rsp' # <<>> /\ rsp'[Len(rsp')] = e
    BY <1>4 DEF QueryTypes
  <2>3. AtCursor'
    BY <1>3, <1>4, <2>1, <2>2 DEF AtCursor
  <2>4. ColumnsSoFar'
    <3>1. \A i \in 1..Len(rsp') : rsp'[i].col <= pos
      BY <1>4 DEF ColumnsSoFar, QueryTypes, Following
    <3>2. QED BY <2>1, <3>1 DEF ColumnsSoFar
  <2>5. TargetFirst'
    BY <2>1 DEF TargetFirst
  <2>6. QED BY <1>6, <2>3, <2>4, <2>5 DEF Following
<1>8. CASE ~Repeats
  <2>1. NextBind
    BY <1>8 DEF ReadBulk
  <2>2. QED BY <1>1, <1>4, <1>6, <2>1, NextBindFollows DEF Following
<1>9. QED BY <1>7, <1>8

LEMMA ReceiveFollows ==
  ASSUME NEW k \in Kinds, NEW b \in Seq(Names), NEW nr \in Nat, NEW mr,
         Receive(k, b, nr, mr)
  PROVE  Following' /\ NoneSkipped'
<1>1. rsp' = <<>> /\ target' = NoOid /\ pos' = 1 /\ cursor' = binds'[1]
  BY DEF Receive
<1>2. QED
  BY <1>1 DEF Following, NoneSkipped, ColumnsSoFar, AtCursor, TargetFirst

LEMMA ServeKeeps ==
  ASSUME QueryTypes, Following, NoneSkipped, Serve
  PROVE  Following' /\ NoneSkipped'
<1>1. CASE Reply
  <2>1. kind' = "idle" /\ UNCHANGED <<pos, rsp>>
    BY <1>1 DEF Reply
  <2>2. ColumnsSoFar'
    BY <2>1 DEF Following, ColumnsSoFar
  <2>3. QED
    BY <2>1, <2>2 DEF Following, NoneSkipped, AtCursor, TargetFirst, Answering
<1>2. QED
  BY <1>1, ProbeKeeps, SuccessorKeeps, EndOfMibKeeps, EndColumnKeeps,
     ReadOnceKeeps, ReadBulkKeeps DEF Serve

\* The cache is not part of it.
LEMMA OthersKeep ==
  ASSUME Following, NoneSkipped, UNCHANGED <<kind, request, pos, cursor, target, rsp>>
  PROVE  Following' /\ NoneSkipped'
<1>1. \A i : Before(i)' = Before(i)
  BY DEF Before, request
<1>2. NoneSkipped'
  BY <1>1 DEF NoneSkipped, request
<1>3. Following'
  BY DEF Following, ColumnsSoFar, AtCursor, TargetFirst, Answering, request
<1>4. QED BY <1>2, <1>3

LEMMA InitFollows == QueryInit => Following /\ NoneSkipped
  BY DEF QueryInit, Following, NoneSkipped, ColumnsSoFar, AtCursor, TargetFirst, Answering

(* For any table, PDU, cap and budget, and whatever the listener thread    *)
(* swaps in between two reads: no OID is skipped or repeated.              *)
THEOREM NoOidEverSkipped == QuerySpec => []NoOidSkipped
<1>1. QueryTypes /\ Following /\ NoneSkipped /\ [QueryNext]_queryVars
        => Following' /\ NoneSkipped'
  <2> SUFFICES ASSUME QueryTypes, Following, NoneSkipped, [QueryNext]_queryVars
               PROVE  Following' /\ NoneSkipped'
    OBVIOUS
  <2>1. CASE AnyRequest
    BY <2>1, RequestIsReceived, ReceiveFollows
  <2>2. CASE Serve
    BY <2>2, ServeKeeps
  <2>3. CASE AnyReload \/ UNCHANGED queryVars
    BY <2>3, OthersKeep DEF AnyReload, ReloadWith, queryVars
  <2>4. QED BY <2>1, <2>2, <2>3 DEF QueryNext
<1>2. QED BY <1>1, InitFollows, QueryTypesCorrect, SameAsNoOidSkipped, PTL DEF QuerySpec

-----------------------------------------------------------------------------
(* An undisturbed PDU shows one table.                                     *)

\* While nothing is reloaded the list is that of the cache, and so is a target.
OneTable ==
  ~torn /\ kind # "idle" =>
    pairs = Stored(cache) /\ (target # NoOid => target \in Stored(cache))

GetInHand ==
  kind = "get" /\ Answering => cursor = binds[pos] /\ target \in {NoOid, cursor}

\* What an answer e shows of the table t.
Shows(e, t) ==
  /\ e.oid # NoOid
  /\ e.ans \in Values => e.ans = t[e.oid]
  /\ e.ans = "noSuchObject" /\ kind = "get" => e.oid \notin {o \in Oid : t[o] \in Values} \ Respelt

AllShown == ~torn /\ kind # "idle" => \A i \in 1..Len(rsp) : Shows(rsp[i], cache)

\* What the last PDU was dropped for.
DropExplained ==
  ~torn /\ kind = "idle" /\ sent = "dropped" =>
    \E i \in 1..Len(rsp) : rsp[i].oid \in Unnamed \/ rsp[i].ans \in Mute

LEMMA SameAsUntornConsistent == AllShown /\ DropExplained <=> UntornConsistent
  BY DEF AllShown, DropExplained, UntornConsistent, Shows

\* A step of the dispatcher that adds at most the answer e.
LEMMA AppendShows ==
  ASSUME QueryTypes, AllShown, UNCHANGED <<cache, kind, torn>>, kind # "idle",
         NEW e \in Answered, rsp' = Append(rsp, e), ~torn => Shows(e, cache)
  PROVE  AllShown'
<1>1. ASSUME ~torn, NEW i \in 1..Len(rsp') PROVE Shows(rsp'[i], cache)
  <2>1. CASE i \in 1..Len(rsp)
    BY <1>1, <2>1 DEF AllShown, QueryTypes
  <2>2. CASE i \notin 1..Len(rsp)
    <3>1. rsp'[i] = e
      BY <1>1, <2>2 DEF QueryTypes
    <3>2. QED BY <1>1, <3>1
  <2>3. QED BY <2>1, <2>2
<1>2. QED BY <1>1 DEF AllShown, Shows

LEMMA NextBindHolds ==
  ASSUME QueryTypes, OneTable, NextBind, Answering, UNCHANGED <<cache, kind, request, torn>>
  PROVE  OneTable' /\ GetInHand'
<1>1. target' = NoOid /\ pairs' = pairs /\ binds' = binds
  BY DEF NextBind, request
<1>2. OneTable'
  BY <1>1 DEF OneTable
<1>3. GetInHand'
  BY <1>1 DEF GetInHand, NextBind, Answering, QueryTypes
<1>4. QED BY <1>2, <1>3

LEMMA ServeShows ==
  ASSUME QueryTypes, OneTable, GetInHand, AllShown, Serve
  PROVE  OneTable' /\ GetInHand' /\ AllShown'
<1>1. CASE Probe
  <2>1. UNCHANGED <<cache, kind, request, torn>> /\ Answering /\ kind = "get" /\ target = NoOid
    BY <1>1 DEF Probe
  <2>2. CASE cursor \in Stored(cache) \ Respelt
    <3>1. target' = cursor /\ UNCHANGED <<pos, cursor, rsp>>
      BY <1>1, <2>2 DEF Probe
    <3>2. OneTable'
      BY <2>1, <2>2, <3>1 DEF OneTable, request
    <3>3. GetInHand'
      BY <2>1, <3>1 DEF GetInHand, Answering, request
    <3>4. AllShown'
      BY <2>1, <3>1 DEF AllShown, Shows
    <3>5. QED BY <3>2, <3>3, <3>4
  <2>3. CASE cursor \notin Stored(cache) \ Respelt
    <3>1. PICK e : e = [oid |-> cursor, ans |-> "noSuchObject", col |-> pos]
      OBVIOUS
    <3>2. e \in Answered /\ rsp' = Append(rsp, e) /\ NextBind
      BY <1>1, <2>3, <3>1 DEF Answered, QueryTypes, Probe, Put
    <3>3. Shows(e, cache)
      <4>1. e.oid # NoOid /\ e.ans \notin Values
        BY <3>1, AgentQueryAssumption DEF QueryTypes, Names, Values
      <4>2. cursor \notin {o \in Oid : cache[o] \in Values} \ Respelt
        BY <2>3, AgentQueryAssumption DEF Stored, Values
      <4>3. QED BY <3>1, <4>1, <4>2 DEF Shows
    <3>4. AllShown'
      BY <2>1, <3>2, <3>3, AppendShows DEF Answering
    <3>5. QED BY <2>1, <3>2, <3>4, NextBindHolds
  <2>4. QED BY <2>2, <2>3
<1>2. CASE Successor
  <2>1. /\ UNCHANGED <<cache, kind, request, rsp, pos, cursor, torn>> /\ kind # "get"
        /\ target' = NextOid(pairs, cursor) /\ After(pairs, cursor) # {}
    BY <1>2 DEF Successor
  <2>2. target' \in pairs
    <3>1. pairs \in SUBSET Oid /\ cursor \in Nat
      BY AgentQueryAssumption DEF QueryTypes, Names
    <3>2. QED BY <2>1, <3>1, NextIsFirst
  <2>3. OneTable'
    BY <2>1, <2>2 DEF OneTable, request
  <2>4. GetInHand' /\ AllShown'
    BY <2>1 DEF GetInHand, AllShown, Shows
  <2>5. QED BY <2>3, <2>4
<1>3. CASE EndOfMib
  <2>1. UNCHANGED <<cache, kind, request, torn>> /\ Answering /\ NextBind /\ kind # "get"
    BY <1>3 DEF EndOfMib
  <2>2. PICK e : e = [oid |-> cursor, ans |-> "endOfMibView", col |-> pos]
    OBVIOUS
  <2>3. e \in Answered /\ rsp' = Append(rsp, e)
    BY <1>3, <2>2 DEF Answered, QueryTypes, EndOfMib, Put
  <2>4. Shows(e, cache)
    BY <2>2, AgentQueryAssumption DEF Shows, QueryTypes, Names, Values
  <2>5. AllShown'
    BY <2>1, <2>3, <2>4, AppendShows DEF Answering
  <2>6. QED BY <2>1, <2>5, NextBindHolds
<1>4. CASE EndColumn
  <2>1. UNCHANGED <<cache, kind, request, rsp, torn>> /\ Answering /\ NextBind
    BY <1>4 DEF EndColumn
  <2>2. AllShown'
    BY <2>1 DEF AllShown, Shows
  <2>3. QED BY <2>1, <2>2, NextBindHolds
<1>5. CASE ReadOnce
  <2>1. /\ UNCHANGED <<cache, kind, request, torn>> /\ Answering /\ NextBind
        /\ target \in Oid /\ target # NoOid
    BY <1>5 DEF ReadOnce, QueryTypes
  <2>2. PICK e : e = [oid |-> IF cache[target] \in Values THEN target ELSE binds[pos],
                      ans |-> Answer(target), col |-> pos]
    OBVIOUS
  <2>3. e.oid \in Names /\ e.ans \in Values \cup {"noSuchObject"}
    <3>1. target \in Names /\ binds[pos] \in Names
      BY <2>1, AgentQueryAssumption DEF Oid, Names, QueryTypes, Answering
    <3>2. QED BY <2>1, <2>2, <3>1, AnswerType
  <2>4. e \in Answered /\ rsp' = Append(rsp, e)
    BY <1>5, <2>2, <2>3 DEF Answered, QueryTypes, ReadOnce, Put
  <2>5. Shows(e, cache)
    <3>1. e.oid # NoOid
      BY <2>3, AgentQueryAssumption DEF Names
    <3>2. e.ans \in Values => e.ans = cache[e.oid]
      BY <2>2, AgentQueryAssumption DEF Answer, Values
    <3>3. ASSUME e.ans = "noSuchObject", kind = "get"
          PROVE  e.oid \notin {o \in Oid : cache[o] \in Values} \ Respelt
      <4>1. cache[target] \notin Values
        BY <2>2, <3>3, AgentQueryAssumption DEF Answer, Values
      <4>2. e.oid = target
        BY <2>1, <2>2, <3>3, <4>1 DEF GetInHand
      <4>3. QED BY <4>1, <4>2
    <3>4. QED BY <3>1, <3>2, <3>3 DEF Shows
  <2>6. AllShown'
    BY <2>1, <2>4, <2>5, AppendShows DEF Answering
  <2>7. QED BY <2>1, <2>6, NextBindHolds
<1>6. CASE ReadBulk
  <2>1. /\ UNCHANGED <<cache, kind, request, torn>> /\ Answering /\ kind = "bulk"
        /\ target \in Oid /\ target # NoOid
    BY <1>6 DEF ReadBulk, QueryTypes
  <2>2. PICK e : e = [oid |-> BulkOid(target), ans |-> Answer(target), col |-> pos]
    OBVIOUS
  <2>3. e \in Answered /\ rsp' = Append(rsp, e)
    <3>1. target \in Names
      BY <2>1, AgentQueryAssumption DEF Oid, Names
    <3>2. e.oid \in Names \cup {NoOid} /\ e.ans \in Values \cup {"noSuchObject"}
      BY <2>1, <2>2, <3>1, AnswerType DEF BulkOid
    <3>3. QED BY <1>6, <2>2, <3>2 DEF Answered, QueryTypes, ReadBulk, Put
  <2>4. ~torn => Shows(e, cache)
    <3>1. ~torn => cache[target] # Missing
      BY <2>1 DEF OneTable, Stored
    <3>2. ~torn => e.oid = target
      BY <2>2, <3>1 DEF BulkOid
    <3>3. e.ans \in Values => e.ans = cache[target]
      BY <2>2, AgentQueryAssumption DEF Answer, Values
    <3>4. QED BY <2>1, <3>2, <3>3 DEF Shows
  <2>5. AllShown'
    BY <2>1, <2>3, <2>4, AppendShows
  <2>6. CASE Repeats
    <3>1. target' = NoOid /\ pairs' = pairs
      BY <1>6, <2>6 DEF ReadBulk, request
    <3>2. QED BY <2>1, <2>5, <3>1 DEF OneTable, GetInHand
  <2>7. CASE ~Repeats
    <3>1. NextBind
      BY <1>6, <2>7 DEF ReadBulk
    <3>2. QED BY <2>1, <2>5, <3>1, NextBindHolds
  <2>8. QED BY <2>6, <2>7
<1>7. CASE Reply
  BY <1>7 DEF Reply, OneTable, GetInHand, AllShown
<1>8. QED
  BY <1>1, <1>2, <1>3, <1>4, <1>5, <1>6, <1>7 DEF Serve

\* The packet is dropped at the end, for an answer none of which lacks a name.
LEMMA ServeExplains ==
  ASSUME AllShown, DropExplained, Serve
  PROVE  DropExplained'
<1>1. kind # "idle"
  BY DEF Serve, Answering, Probe, Successor, EndOfMib, EndColumn, ReadOnce, ReadBulk, Reply
<1>2. CASE Reply
  <2>1. UNCHANGED <<rsp, torn>>
    BY <1>2 DEF Reply
  <2>2. sent' = "dropped" => \E i \in 1..Len(rsp) : Unsendable(rsp[i])
    BY <1>2 DEF Reply
  <2>3. ~torn => \A i \in 1..Len(rsp) : rsp[i].oid # NoOid
    BY <1>1 DEF AllShown, Shows
  <2>4. QED BY <2>1, <2>2, <2>3 DEF DropExplained, Unsendable
<1>3. CASE ~Reply
  <2>1. kind' = kind
    BY <1>3 DEF Serve, Probe, Successor, EndOfMib, EndColumn, ReadOnce, ReadBulk
  <2>2. QED BY <1>1, <2>1 DEF DropExplained
<1>4. QED BY <1>2, <1>3

(* A PDU that no reload met is answered from one table, and is dropped     *)
(* only for a name or a value of that table that cannot be encoded.        *)
THEOREM UntornAlwaysConsistent == QuerySpec => []UntornConsistent
<1> DEFINE Inv == OneTable /\ GetInHand /\ AllShown /\ DropExplained
<1>1. QueryInit => Inv
  BY DEF QueryInit, OneTable, GetInHand, AllShown, DropExplained
<1>2. QueryTypes /\ Inv /\ [QueryNext]_queryVars => Inv'
  <2> SUFFICES ASSUME QueryTypes, Inv, [QueryNext]_queryVars PROVE Inv'
    OBVIOUS
  <2>1. CASE AnyRequest
    <3>1. PICK k \in Kinds, b \in Seq(Names), nr \in Nat, mr \in Nat : Receive(k, b, nr, mr)
      BY <2>1, RequestIsReceived
    <3>2. /\ pairs' = Stored(cache) /\ cache' = cache /\ target' = NoOid /\ rsp' = <<>>
          /\ pos' = 1 /\ cursor' = binds'[1] /\ kind' # "idle"
      BY <3>1 DEF Receive, Kinds
    <3>3. QED
      BY <3>2 DEF OneTable, GetInHand, AllShown, Stored, DropExplained
  <2>2. CASE Serve
    BY <2>2, ServeShows, ServeExplains
  <2>3. CASE AnyReload
    <3>1. /\ UNCHANGED <<kind, request, pos, cursor, target, rsp, sent>>
          /\ torn' = (torn \/ kind # "idle")
      BY <2>3 DEF AnyReload, ReloadWith
    <3>2. QED BY <3>1 DEF OneTable, GetInHand, AllShown, DropExplained, Answering, request
  <2>4. CASE UNCHANGED queryVars
    BY <2>4 DEF queryVars, request, OneTable, GetInHand, AllShown, Shows, Answering,
       DropExplained
  <2>5. QED BY <2>1, <2>2, <2>3, <2>4 DEF QueryNext
<1>3. QED BY <1>1, <1>2, QueryTypesCorrect, SameAsUntornConsistent, PTL DEF QuerySpec
-----------------------------------------------------------------------------
(* The byte budget.                                                        *)

\* What the estimate and the real size come to, and where they may stand.
Counted == bytes \in Nat /\ size \in Nat

Overshoot == \/ bytes < MaxBytes + Cost
             \/ \E n \in 0..Len(binds) : n <= nonrep /\ bytes <= n * Cost

Fitting(r) == \A i \in 1..Len(r) : Width(r[i].ans) <= Allowance

\* A repeater chooses a target only while there is budget left; a non-repeater
\* has had one var-bind for each before it.
WithinBudget ==
  /\ Counted
  /\ kind = "bulk" =>
       /\ target # NoOid /\ Repeats => bytes < MaxBytes
       /\ pos <= nonrep => bytes <= (pos - 1) * Cost
       /\ Overshoot
       /\ Fitting(rsp) => size <= bytes

LEMMA WithinIsRespected == WithinBudget => BudgetRespected
  BY DEF WithinBudget, Overshoot, Fitting, BudgetRespected

LEMMA CostType == Cost \in Nat /\ Cost > 0 /\ Allowance \in Nat
  BY AgentQueryAssumption DEF Cost, Allowance

LEMMA WidthType == ASSUME NEW a PROVE Width(a) \in Nat
  BY AgentQueryAssumption DEF Width, Values

LEMMA OneMore == ASSUME NEW n \in Nat, NEW c \in Nat PROVE (n + 1) * c = n * c + c /\ n * c \in Nat
  OBVIOUS

LEMMA FittingPrefix ==
  ASSUME NEW r \in Seq(Answered), NEW e \in Answered, Fitting(Append(r, e))
  PROVE  Fitting(r) /\ Width(e.ans) <= Allowance
<1>1. PICK n \in Nat : n = Len(r)
  OBVIOUS
<1>2. PICK q : q = Append(r, e)
  OBVIOUS
<1>3. Len(q) = n + 1 /\ q[n + 1] = e /\ \A i \in 1..n : q[i] = r[i] /\ i \in 1..(n + 1)
  BY <1>1, <1>2
<1>4. \A i \in 1..(n + 1) : Width(q[i].ans) <= Allowance
  BY <1>2, <1>3 DEF Fitting
<1>5. Width(e.ans) <= Allowance
  BY <1>3, <1>4
<1>6. Fitting(r)
  BY <1>1, <1>3, <1>4 DEF Fitting
<1>7. QED BY <1>5, <1>6

\* A step that leaves the count alone and moves to the next var-bind, or not.
LEMMA CountStands ==
  ASSUME QueryTypes, WithinBudget, UNCHANGED <<kind, request, tally>>,
         rsp' = rsp \/ \E e \in Answered : rsp' = Append(rsp, e),
         pos' = pos \/ pos' = pos + 1,
         target' # NoOid /\ Repeats' /\ kind = "bulk" => bytes < MaxBytes
  PROVE  WithinBudget'
<1>1. UNCHANGED <<binds, nonrep, bytes, size>> /\ bytes \in Nat /\ size \in Nat
      /\ pos \in Nat /\ pos > 0 /\ nonrep \in Nat /\ rsp \in Seq(Answered)
  BY DEF request, tally, WithinBudget, Counted, QueryTypes
<1>2. SUFFICES ASSUME kind = "bulk"
               PROVE  /\ pos' <= nonrep => bytes <= (pos' - 1) * Cost
                      /\ Overshoot' /\ (Fitting(rsp') => size <= bytes)
  BY <1>1 DEF WithinBudget, Counted
<1>3. Overshoot'
  BY <1>1, <1>2 DEF WithinBudget, Overshoot
<1>4. Fitting(rsp') => size <= bytes
  BY <1>1, <1>2, FittingPrefix DEF WithinBudget
<1>5. ASSUME pos' <= nonrep PROVE bytes <= (pos' - 1) * Cost
  <2>1. bytes <= (pos - 1) * Cost
    BY <1>1, <1>2, <1>5 DEF WithinBudget
  <2>2. CASE pos' = pos
    BY <2>1, <2>2
  <2>3. CASE pos' = pos + 1
    <3>1. PICK n \in Nat : n = pos - 1
      BY <1>1
    <3>2. (n + 1) * Cost = n * Cost + Cost /\ n * Cost \in Nat
      BY OneMore, CostType
    <3>3. pos' - 1 = n + 1
      BY <1>1, <2>3, <3>1
    <3>4. bytes <= n * Cost
      BY <2>1, <3>1
    <3>5. bytes <= (n + 1) * Cost
      BY <1>1, <3>2, <3>4, CostType
    <3>6. QED BY <3>3, <3>5
  <2>4. QED BY <2>2, <2>3
<1>6. QED BY <1>3, <1>4, <1>5

\* A value read: a repeater's within the budget, a non-repeater's one more.
LEMMA ReadBulkBudget ==
  ASSUME QueryTypes, WithinBudget, ReadBulk
  PROVE  WithinBudget'
<1>1. /\ kind = "bulk" /\ UNCHANGED <<kind, binds, nonrep>> /\ Answering
      /\ target \in Oid /\ target # NoOid /\ nonrep \in Nat
      /\ pos \in Nat /\ pos > 0 /\ rsp \in Seq(Answered)
  BY DEF ReadBulk, request, QueryTypes
<1>2. PICK c : c = Chars[target]
  OBVIOUS
<1>3. PICK w : w = Width(Answer(target))
  OBVIOUS
<1>4. c \in Nat /\ c <= Longest /\ w \in Nat /\ Longest \in Nat
  BY <1>1, <1>2, <1>3, WidthType, AgentQueryAssumption DEF Oid
<1>5. /\ bytes' = bytes + c + Allowance /\ size' = size + c + w
      /\ bytes \in Nat /\ size \in Nat
  BY <1>2, <1>3 DEF ReadBulk, WithinBudget, Counted
<1>6. Counted' /\ bytes' <= bytes + Cost
  BY <1>4, <1>5, CostType DEF Counted, Cost
<1>7. PICK e : e = [oid |-> BulkOid(target), ans |-> Answer(target), col |-> pos]
  OBVIOUS
<1>8. e \in Answered /\ rsp' = Append(rsp, e) /\ Width(e.ans) = w
  <2>1. target \in Names
    BY <1>1, AgentQueryAssumption DEF Oid, Names
  <2>2. e.oid \in Names \cup {NoOid} /\ e.ans \in Values \cup {"noSuchObject"}
    BY <1>1, <1>7, <2>1, AnswerType DEF BulkOid
  <2>3. e \in Answered
    BY <1>1, <1>7, <2>2 DEF Answered
  <2>4. QED BY <1>3, <1>7, <2>3 DEF ReadBulk, Put
<1>9. Fitting(rsp') => size' <= bytes'
  <2>1. Fitting(rsp') => size <= bytes /\ w <= Allowance
    BY <1>1, <1>8, FittingPrefix DEF WithinBudget
  <2>2. QED BY <1>4, <1>5, <2>1, CostType
<1>10. target' = NoOid /\ pos' \in {pos, pos + 1}
  BY DEF ReadBulk, NextBind
<1>11. CASE pos > nonrep
  <2>1. bytes < MaxBytes
    BY <1>1, <1>11 DEF WithinBudget, Repeats
  <2>2. Overshoot'
    BY <1>5, <1>6, <2>1, CostType, AgentQueryAssumption DEF Overshoot, Counted
  <2>3. ~(pos' <= nonrep')
    BY <1>1, <1>10, <1>11
  <2>4. QED BY <1>1, <1>6, <1>9, <1>10, <2>2, <2>3 DEF WithinBudget
<1>12. CASE pos <= nonrep
  <2>1. pos' = pos + 1
    BY <1>1, <1>12 DEF ReadBulk, Repeats, NextBind
  <2>2. PICK n \in Nat : n = pos - 1
    BY <1>1
  <2>3. (n + 1) * Cost = n * Cost + Cost /\ n * Cost \in Nat /\ n + 1 = pos
    BY <1>1, <2>2, OneMore, CostType
  <2>4. bytes <= n * Cost
    BY <1>1, <1>12, <2>2 DEF WithinBudget
  <2>5. bytes' <= (n + 1) * Cost
    BY <1>5, <1>6, <2>3, <2>4, CostType DEF Counted
  <2>6. bytes' <= pos * Cost
    BY <2>3, <2>5
  <2>7. pos' <= nonrep' => bytes' <= (pos' - 1) * Cost
    <3>1. pos' - 1 = pos
      BY <1>1, <2>1
    <3>2. QED BY <2>6, <3>1
  <2>8. Overshoot'
    <3>1. pos \in 0..Len(binds') /\ pos <= nonrep'
      BY <1>1, <1>12 DEF Answering, QueryTypes
    <3>2. QED BY <2>6, <3>1 DEF Overshoot
  <2>9. QED BY <1>1, <1>6, <1>9, <1>10, <2>7, <2>8 DEF WithinBudget
<1>13. QED BY <1>1, <1>11, <1>12

LEMMA ServeWithinBudget ==
  ASSUME QueryTypes, WithinBudget, Serve
  PROVE  WithinBudget'
<1>1. CASE Probe \/ ReadOnce
  <2>1. kind' = kind /\ kind # "bulk" /\ UNCHANGED tally
    BY <1>1 DEF Probe, ReadOnce
  <2>2. QED BY <2>1 DEF WithinBudget, Counted, tally
<1>2. CASE Reply
  BY <1>2 DEF Reply, WithinBudget, Counted, tally
<1>3. CASE Successor
  <2>1. UNCHANGED <<kind, request, pos, tally, rsp>> /\ ~ColumnFull /\ bytes \in Nat
    BY <1>3 DEF Successor, WithinBudget, Counted
  <2>2. Repeats => bytes < MaxBytes
    BY <2>1, AgentQueryAssumption DEF ColumnFull
  <2>3. QED BY <2>1, <2>2, CountStands DEF Repeats, request
<1>4. CASE EndColumn
  <2>1. UNCHANGED <<kind, request, tally, rsp>> /\ pos' = pos + 1 /\ target' = NoOid
    BY <1>4 DEF EndColumn, NextBind
  <2>2. QED BY <2>1, CountStands
<1>5. CASE EndOfMib
  <2>1. UNCHANGED <<kind, request, tally>> /\ pos' = pos + 1 /\ target' = NoOid
    BY <1>5 DEF EndOfMib, NextBind
  <2>2. \E e \in Answered : rsp' = Append(rsp, e)
    <3>1. PICK e : e = [oid |-> cursor, ans |-> "endOfMibView", col |-> pos]
      OBVIOUS
    <3>2. e \in Answered /\ rsp' = Append(rsp, e)
      BY <1>5, <3>1 DEF Answered, QueryTypes, EndOfMib, Put
    <3>3. QED BY <3>2
  <2>3. QED BY <2>1, <2>2, CountStands
<1>6. QED BY <1>1, <1>2, <1>3, <1>4, <1>5, ReadBulkBudget DEF Serve

(* The estimate passes the budget by less than one var-bind, unless the    *)
(* non-repeaters alone do; and it bounds what the answered values take     *)
(* wherever each takes no more than the estimate allows for it.            *)
THEOREM BudgetAlwaysRespected == QuerySpec => []BudgetRespected
<1>1. QueryInit => WithinBudget
  BY DEF QueryInit, WithinBudget, Counted
<1>2. QueryTypes /\ WithinBudget /\ [QueryNext]_queryVars => WithinBudget'
  <2> SUFFICES ASSUME QueryTypes, WithinBudget, [QueryNext]_queryVars PROVE WithinBudget'
    OBVIOUS
  <2>1. CASE AnyRequest
    <3>1. PICK k \in Kinds, b \in Seq(Names), nr \in Nat, mr \in Nat : Receive(k, b, nr, mr)
      BY <2>1, RequestIsReceived
    <3>2. bytes' = 0 /\ size' = 0 /\ rsp' = <<>> /\ target' = NoOid /\ pos' = 1
      BY <3>1 DEF Receive
    <3>3. Overshoot' /\ 0 <= 0 * Cost
      BY <3>2, CostType, AgentQueryAssumption DEF Overshoot
    <3>4. QED BY <3>2, <3>3 DEF WithinBudget, Counted
  <2>2. CASE Serve
    BY <2>2, ServeWithinBudget
  <2>3. CASE AnyReload \/ UNCHANGED queryVars
    BY <2>3 DEF AnyReload, ReloadWith, queryVars, request, tally, WithinBudget, Counted, Overshoot,
       Fitting, Repeats
  <2>4. QED BY <2>1, <2>2, <2>3 DEF QueryNext
<1>3. QED BY <1>1, <1>2, QueryTypesCorrect, WithinIsRespected, PTL DEF QuerySpec

-----------------------------------------------------------------------------
(* A station's walk.                                                       *)

\* Is rsp[1] to rsp[n] a run of values?
AllGood(n) == \A i \in 1..n : rsp[i].ans \in Good

\* Where the answer has got to after n of them.
Reached(n) == IF n = 0 THEN at ELSE rsp[n].oid

\* Is p among the first n?
Among(p, n) == \E j \in 1..n : rsp[j].oid = p

Upwards == \A n \in 1..Len(rsp) : AllGood(n) => rsp[n].oid \in Oid /\ rsp[n].oid > at

Covers ==
  \A n \in 1..Len(rsp) : AllGood(n) =>
    \A p \in steady : p > at /\ p <= rsp[n].oid => Among(p, n)

EndCovers ==
  \A n \in 0..(Len(rsp) - 1) : AllGood(n) /\ rsp[n + 1].ans = "endOfMibView" =>
    \A p \in steady : p > at => Among(p, n)

\* The answer being made, or made and on its way to the station.
Live == phase = "asking" /\ (kind # "idle" \/ sent = "sent")

WalkTypes ==
  /\ at \in Names /\ tries \in Nat
  /\ steady \in SUBSET Oid
  /\ method \in {"getnext", "bulk"}
  /\ phase \in {"ready", "asking", "done", "stopped", "gaveup"}

\* One request at a time, for the successor of `at`; never an empty answer.
Asking ==
  /\ kind # "idle" => /\ phase = "asking" /\ kind \in {"getnext", "bulk"}
                      /\ binds = <<at>>
                      /\ pos \in {1, 2}
  /\ phase = "asking" => tries > 0
  /\ kind # "idle" /\ rsp = <<>> => pos = 1 /\ bytes = 0 /\ (kind = "bulk" => left > 0)
  /\ Live /\ kind = "idle" => rsp # <<>>

\* Before it is done the column stands where the answer has got to.
AtReach ==
  kind # "idle" /\ pos = 1 /\ AllGood(Len(rsp)) => cursor = Reached(Len(rsp))

SteadyStored ==
  /\ ~Over => steady \subseteq Resolvable(cache)
  /\ Live => steady \subseteq pairs

Collected ==
  /\ steady \cap 1..at \subseteq seen
  /\ phase = "done" => steady \subseteq seen

AnswerOK == Live => Upwards /\ Covers /\ EndCovers

WalkInv ==
  /\ QueryTypes /\ Following /\ NoneSkipped
  /\ WalkTypes /\ Asking /\ AtReach /\ SteadyStored /\ AnswerOK /\ Collected

LEMMA OidsAreNaturals == (\A o \in Oid : o \in Nat /\ o > 0) /\ (\A o \in Names : o \in Nat)
                         /\ Oid \subseteq Names
  BY AgentQueryAssumption DEF Oid, Names

LEMMA WalkStarts == WalkInit => WalkInv
<1> SUFFICES ASSUME WalkInit PROVE WalkInv
  OBVIOUS
<1>1. QueryTypes /\ Following /\ NoneSkipped
  BY InitTypes, InitFollows DEF WalkInit
<1>2. kind = "idle" /\ phase = "ready" /\ at = 0 /\ steady = Resolvable(cache)
  BY DEF WalkInit, QueryInit
<1>3. WalkTypes
  BY <1>2, AgentQueryAssumption DEF WalkInit, WalkTypes, Names, Resolvable
<1>4. Asking /\ AtReach /\ AnswerOK /\ SteadyStored
  BY <1>2 DEF Asking, AtReach, AnswerOK, SteadyStored, Live
<1>5. Collected
  BY <1>2, AgentQueryAssumption DEF Collected, Oid
<1>6. QED BY <1>1, <1>3, <1>4, <1>5 DEF WalkInv
\* One more answer: the first OID after the cursor, the end after it, or an
\* exception.
LEMMA AppendCovers ==
  ASSUME WalkInv, kind # "idle", pos = 1,
         NEW e \in Answered, rsp' = Append(rsp, e), UNCHANGED <<at, steady>>,
         e.ans \in Good => e.oid \in Oid /\ e.oid > cursor
                           /\ \A p \in pairs : p > cursor => e.oid <= p,
         e.ans = "endOfMibView" => \A p \in pairs : ~(p > cursor)
  PROVE  Upwards' /\ Covers' /\ EndCovers'
<1>1. PICK m \in Nat : m = Len(rsp)
  BY DEF WalkInv, QueryTypes
<1>2. /\ Len(rsp') = m + 1 /\ rsp'[m + 1] = e
      /\ \A i \in 1..m : rsp'[i] = rsp[i]
  BY <1>1 DEF WalkInv, QueryTypes
<1>3. \A n \in 0..m : AllGood(n)' <=> AllGood(n)
  BY <1>2 DEF AllGood
<1>4. \A n \in 0..m : \A p : Among(p, n) => Among(p, n)' /\ Among(p, m + 1)'
  BY <1>2 DEF Among
<1>5. AllGood(m + 1)' => AllGood(m) /\ e.ans \in Good
  BY <1>2 DEF AllGood
<1>6. /\ at \in Nat /\ steady \subseteq pairs /\ Upwards /\ Covers /\ EndCovers
      /\ \A o \in Oid : o \in Nat
      /\ \A p \in steady : p \in Nat
      /\ cursor \in Nat
  BY OidsAreNaturals DEF WalkInv, WalkTypes, SteadyStored, AnswerOK, Live, Asking, QueryTypes
<1>7. ASSUME AllGood(m) PROVE /\ cursor >= at
                              /\ \A p \in steady : p > at /\ p <= cursor => Among(p, m)
  <2>1. cursor = Reached(m)
    BY <1>1, <1>7 DEF WalkInv, AtReach
  <2>2. CASE m = 0
    BY <1>6, <2>1, <2>2 DEF Reached
  <2>3. CASE m > 0
    <3>1. m \in 1..Len(rsp) /\ cursor = rsp[m].oid
      BY <1>1, <2>1, <2>3 DEF Reached
    <3>2. cursor \in Oid /\ cursor > at
      BY <1>6, <1>7, <3>1 DEF Upwards
    <3>3. \A p \in steady : p > at /\ p <= cursor => Among(p, m)
      BY <1>6, <1>7, <3>1 DEF Covers
    <3>4. QED BY <1>6, <3>2, <3>3
  <2>4. QED BY <2>2, <2>3
<1>8. ASSUME AllGood(m + 1)'
      PROVE  /\ e.oid \in Oid /\ e.oid > at
             /\ \A p \in steady : p > at /\ p <= e.oid => Among(p, m + 1)'
  <2>1. e.oid \in Nat /\ e.oid \in Oid /\ e.oid > cursor /\ cursor >= at
    BY <1>5, <1>6, <1>7, <1>8
  <2>2. ASSUME NEW p \in steady, p > at, p <= e.oid PROVE Among(p, m + 1)'
    <3>1. CASE p <= cursor
      BY <1>4, <1>5, <1>7, <1>8, <2>2, <3>1
    <3>2. CASE p > cursor
      <4>1. p = e.oid
        BY <1>5, <1>6, <1>8, <2>1, <2>2, <3>2
      <4>2. QED BY <1>2, <4>1 DEF Among
    <3>3. QED BY <1>6, <3>1, <3>2
  <2>3. QED BY <1>6, <2>1, <2>2
<1>9. Upwards'
  <2>1. ASSUME NEW n \in 1..(m + 1), AllGood(n)'
        PROVE  rsp'[n].oid \in Oid /\ rsp'[n].oid > at
    <3>1. CASE n = m + 1
      BY <1>2, <1>8, <2>1, <3>1
    <3>2. CASE n # m + 1
      <4>1. n \in 1..m /\ AllGood(n)
        BY <1>3, <2>1, <3>2
      <4>2. QED BY <1>1, <1>2, <1>6, <4>1 DEF Upwards
    <3>3. QED BY <3>1, <3>2
  <2>2. QED BY <1>2, <2>1 DEF Upwards
<1>10. Covers'
  <2>1. ASSUME NEW n \in 1..(m + 1), AllGood(n)',
               NEW p \in steady, p > at, p <= rsp'[n].oid
        PROVE  Among(p, n)'
    <3>1. CASE n = m + 1
      BY <1>2, <1>8, <2>1, <3>1
    <3>2. CASE n # m + 1
      <4>1. n \in 1..m /\ AllGood(n) /\ rsp'[n] = rsp[n]
        BY <1>2, <1>3, <2>1, <3>2
      <4>2. Among(p, n)
        BY <1>1, <1>6, <2>1, <4>1 DEF Covers
      <4>3. QED BY <1>4, <4>1, <4>2
    <3>3. QED BY <3>1, <3>2
  <2>2. QED BY <1>2, <2>1 DEF Covers
<1>11. EndCovers'
  <2>1. ASSUME NEW n \in 0..m, AllGood(n)', rsp'[n + 1].ans = "endOfMibView",
               NEW p \in steady, p > at
        PROVE  Among(p, n)'
    <3>1. AllGood(n)
      BY <1>3, <2>1
    <3>2. CASE n = m
      <4>1. p <= cursor
        BY <1>2, <1>6, <2>1, <3>2
      <4>2. Among(p, m)
        BY <1>7, <2>1, <3>1, <3>2, <4>1
      <4>3. QED BY <1>4, <3>2, <4>2
    <3>3. CASE n # m
      <4>1. n \in 0..(Len(rsp) - 1) /\ rsp'[n + 1] = rsp[n + 1]
        BY <1>1, <1>2, <2>1, <3>3
      <4>2. Among(p, n)
        BY <1>6, <2>1, <3>1, <4>1 DEF EndCovers
      <4>3. QED BY <1>4, <4>2
    <3>4. QED BY <3>2, <3>3
  <2>2. QED BY <1>2, <2>1 DEF EndCovers
<1>12. QED BY <1>9, <1>10, <1>11
-----------------------------------------------------------------------------
(* The engine's steps.                                                     *)

\* What an engine step of either kind leaves alone.
LEMMA ServeFrame ==
  ASSUME WalkInv, AgentStep
  PROVE  /\ QueryTypes' /\ Following' /\ NoneSkipped' /\ WalkTypes' /\ Collected'
         /\ SteadyStored'
         /\ UNCHANGED <<phase, method, at, tries, steady, seen, cache, request>>
         /\ Live /\ phase = "asking" /\ kind # "idle" /\ kind # "get"
         /\ binds = <<at>> /\ (Answering => pos = 1)
         /\ phase' = "asking" /\ kind' \in {kind, "idle"}
<1>1. /\ UNCHANGED <<phase, method, at, tries, steady, seen>> /\ Serve
      /\ QueryTypes /\ Following /\ NoneSkipped
  BY DEF AgentStep, WalkInv
<1>2. QueryTypes' /\ Following' /\ NoneSkipped'
  BY <1>1, ServeTypes, ServeKeeps
<1>3. kind # "idle" /\ kind' \in {kind, "idle"} /\ UNCHANGED <<cache, request>>
  BY <1>1 DEF Serve, Answering, Probe, Successor, EndOfMib, EndColumn, ReadOnce, ReadBulk, Reply
<1>4. phase = "asking" /\ binds = <<at>> /\ kind # "get" /\ Live
  BY <1>3 DEF WalkInv, Asking, Live
<1>5. Answering => pos = 1
  <2>1. Len(binds) = 1
    BY <1>4
  <2>2. QED BY <2>1 DEF Answering, WalkInv, QueryTypes
<1>6. WalkTypes' /\ Collected'
  BY <1>1 DEF WalkInv, WalkTypes, Collected
<1>7. SteadyStored'
  BY <1>1, <1>3, <1>4 DEF WalkInv, SteadyStored, Resolvable, Over, request
<1>8. QED BY <1>1, <1>2, <1>3, <1>4, <1>5, <1>6, <1>7

LEMMA SameAnswer ==
  ASSUME AnswerOK, Live, UNCHANGED <<rsp, at, steady>>
  PROVE  AnswerOK'
  BY DEF AnswerOK, Upwards, Covers, EndCovers, AllGood, Among

LEMMA SuccessorWalks ==
  ASSUME WalkInv, AgentStep, Successor PROVE WalkInv'
<1>1. UNCHANGED <<kind, request, pos, cursor, left, tally, rsp, sent>>
  BY DEF Successor
<1>2. Asking'
  BY <1>1, ServeFrame DEF WalkInv, Asking, Live, request, tally
<1>3. AtReach'
  <2>1. AllGood(Len(rsp))' <=> AllGood(Len(rsp))
    BY <1>1 DEF AllGood
  <2>2. Reached(Len(rsp))' = Reached(Len(rsp))
    BY <1>1, ServeFrame DEF Reached
  <2>3. QED BY <1>1, <2>1, <2>2 DEF WalkInv, AtReach
<1>4. AnswerOK'
  BY <1>1, ServeFrame, SameAnswer DEF WalkInv
<1>5. QED BY <1>2, <1>3, <1>4, ServeFrame DEF WalkInv

LEMMA EndColumnWalks ==
  ASSUME WalkInv, AgentStep, EndColumn PROVE WalkInv'
<1>1. /\ UNCHANGED <<kind, rsp, sent>> /\ ColumnFull /\ NextBind /\ Answering
  BY DEF EndColumn
<1>2. pos' = 2
  BY <1>1, ServeFrame DEF NextBind
<1>3. rsp # <<>>
  <2>1. SUFFICES ASSUME rsp = <<>> PROVE FALSE
    OBVIOUS
  <2>2. kind = "bulk" /\ (left = 0 \/ bytes >= MaxBytes)
    BY <1>1 DEF ColumnFull, Repeats
  <2>3. left > 0 /\ bytes = 0
    BY <2>1, <2>2 DEF WalkInv, Asking
  <2>4. QED BY <2>2, <2>3, WalkAssumption, AgentQueryAssumption
<1>4. Asking'
  BY <1>1, <1>2, <1>3, ServeFrame DEF WalkInv, Asking, Live, request
<1>5. AtReach'
  BY <1>2 DEF AtReach
<1>6. AnswerOK'
  BY <1>1, ServeFrame, SameAnswer DEF WalkInv
<1>7. QED BY <1>4, <1>5, <1>6, ServeFrame DEF WalkInv

LEMMA ReplyWalks ==
  ASSUME WalkInv, AgentStep, Reply PROVE WalkInv'
<1>1. kind' = "idle" /\ UNCHANGED rsp /\ pos > Len(binds) /\ kind # "idle"
  BY DEF Reply
<1>2. rsp # <<>>
  <2>1. Len(binds) = 1
    BY ServeFrame
  <2>2. QED BY <1>1, <2>1 DEF WalkInv, Asking
<1>3. Asking'
  BY <1>1, <1>2, ServeFrame DEF WalkInv, Asking
<1>4. AtReach'
  BY <1>1 DEF AtReach
<1>5. AnswerOK'
  BY <1>1, ServeFrame, SameAnswer DEF WalkInv
<1>6. QED BY <1>3, <1>4, <1>5, ServeFrame DEF WalkInv

\* A step that appends e and, unless the column goes on, ends it.
LEMMA AppendWalks ==
  ASSUME WalkInv, AgentStep, Answering, kind' = kind,
         NEW e \in Answered, rsp' = Append(rsp, e),
         e.ans \in Good => e.oid \in Oid /\ e.oid > cursor
                           /\ \A p \in pairs : p > cursor => e.oid <= p,
         e.ans = "endOfMibView" => \A p \in pairs : ~(p > cursor),
         pos' = 2 \/ (pos' = 1 /\ (e.ans \in Good => cursor' = e.oid))
  PROVE  WalkInv'
<1>1. Upwards' /\ Covers' /\ EndCovers'
  BY ServeFrame, AppendCovers
<1>2. AnswerOK'
  BY <1>1 DEF AnswerOK
<1>3. PICK m \in Nat : m = Len(rsp)
  BY DEF WalkInv, QueryTypes
<1>4. rsp' # <<>> /\ Len(rsp') = m + 1 /\ rsp'[m + 1] = e
  BY <1>3 DEF WalkInv, QueryTypes
<1>5. Asking'
  BY <1>4, ServeFrame DEF WalkInv, Asking, request
<1>6. AtReach'
  <2>1. SUFFICES ASSUME pos' = 1, AllGood(m + 1)' PROVE cursor' = Reached(m + 1)'
    BY <1>4 DEF AtReach
  <2>2. e.ans \in Good
    BY <1>4, <2>1 DEF AllGood
  <2>3. cursor' = e.oid
    BY <2>1, <2>2
  <2>4. Reached(m + 1)' = rsp'[m + 1].oid
    BY <1>3 DEF Reached
  <2>5. QED BY <1>4, <2>3, <2>4
<1>7. QED BY <1>2, <1>5, <1>6, ServeFrame DEF WalkInv

LEMMA EndOfMibWalks ==
  ASSUME WalkInv, AgentStep, EndOfMib PROVE WalkInv'
<1>1. Answering /\ kind' = kind /\ NextBind /\ After(pairs, cursor) = {}
  BY DEF EndOfMib
<1>2. PICK e : e = [oid |-> cursor, ans |-> "endOfMibView", col |-> pos]
  OBVIOUS
<1>3. e \in Answered /\ rsp' = Append(rsp, e)
  BY <1>2 DEF Answered, WalkInv, QueryTypes, EndOfMib, Put
<1>4. e.ans \notin Good /\ \A p \in pairs : ~(p > cursor)
  BY <1>1, <1>2, AgentQueryAssumption DEF After
<1>5. pos' = 2
  BY <1>1, ServeFrame DEF NextBind
<1>6. QED BY <1>1, <1>3, <1>4, <1>5, AppendWalks

LEMMA ReadOnceWalks ==
  ASSUME WalkInv, AgentStep, ReadOnce PROVE WalkInv'
<1>1. /\ Answering /\ kind' = kind /\ kind # "get" /\ NextBind
      /\ target \in Oid /\ target # NoOid
  BY ServeFrame DEF ReadOnce, WalkInv, QueryTypes
<1>2. PICK e : e = [oid |-> IF cache[target] \in Values THEN target ELSE binds[pos],
                    ans |-> Answer(target), col |-> pos]
  OBVIOUS
<1>3. e \in Answered /\ e.ans \in Values \cup {"noSuchObject"} /\ rsp' = Append(rsp, e)
  <2>1. target \in Names /\ binds[pos] \in Names
    BY <1>1, OidsAreNaturals DEF WalkInv, QueryTypes, Answering
  <2>2. e.ans \in Values \cup {"noSuchObject"}
    BY <1>1, <1>2, AnswerType DEF WalkInv
  <2>3. e \in Answered
    BY <1>2, <2>1, <2>2 DEF Answered, WalkInv, QueryTypes
  <2>4. QED BY <1>2, <2>2, <2>3 DEF ReadOnce, Put
<1>4. e.ans \in Good => e.oid = target
  BY <1>2, AgentQueryAssumption DEF Answer
<1>5. target > cursor /\ \A p \in pairs : p > cursor => target <= p
  BY <1>1 DEF WalkInv, Following, TargetFirst
<1>6. e.ans # "endOfMibView"
  BY <1>3, AgentQueryAssumption DEF Values
<1>7. pos' = 2
  BY <1>1, ServeFrame DEF NextBind
<1>8. QED BY <1>1, <1>3, <1>4, <1>5, <1>6, <1>7, AppendWalks

LEMMA ReadBulkWalks ==
  ASSUME WalkInv, AgentStep, ReadBulk PROVE WalkInv'
<1>1. /\ Answering /\ kind' = kind /\ kind # "get"
      /\ target \in Oid /\ target # NoOid
  BY ServeFrame DEF ReadBulk, WalkInv, QueryTypes
<1>2. PICK e : e = [oid |-> BulkOid(target), ans |-> Answer(target), col |-> pos]
  OBVIOUS
<1>3. e \in Answered /\ e.ans \in Values \cup {"noSuchObject"} /\ rsp' = Append(rsp, e)
  <2>1. e.oid \in Names \cup {NoOid} /\ e.ans \in Values \cup {"noSuchObject"}
    BY <1>1, <1>2, OidsAreNaturals, AnswerType DEF WalkInv, BulkOid
  <2>2. e \in Answered
    BY <1>2, <2>1 DEF Answered, WalkInv, QueryTypes
  <2>3. QED BY <1>2, <2>1, <2>2 DEF ReadBulk, Put
<1>4. e.ans \in Good => e.oid = target
  BY <1>2, AgentQueryAssumption DEF Answer, BulkOid
<1>5. target > cursor /\ \A p \in pairs : p > cursor => target <= p
  BY <1>1 DEF WalkInv, Following, TargetFirst
<1>6. e.ans # "endOfMibView"
  BY <1>3, AgentQueryAssumption DEF Values
<1>7. pos' = 2 \/ (pos' = 1 /\ (e.ans \in Good => cursor' = e.oid))
  <2>1. CASE Repeats
    BY <1>1, <1>4, <2>1, ServeFrame DEF ReadBulk
  <2>2. CASE ~Repeats
    BY <1>1, <2>2, ServeFrame DEF ReadBulk, NextBind
  <2>3. QED BY <2>1, <2>2
<1>8. QED BY <1>1, <1>3, <1>4, <1>5, <1>6, <1>7, AppendWalks

LEMMA AgentStepWalks ==
  ASSUME WalkInv, AgentStep PROVE WalkInv'
<1>1. ~Probe
  BY ServeFrame DEF Probe
<1>2. QED
  BY <1>1, SuccessorWalks, EndOfMibWalks, EndColumnWalks, ReadOnceWalks, ReadBulkWalks,
     ReplyWalks DEF AgentStep, Serve
-----------------------------------------------------------------------------
(* The station's steps.                                                    *)

\* The engine is idle, or told the request is lost.
LEMMA EngineStands ==
  ASSUME WalkInv, UNCHANGED <<cache, kind, request, pos, cursor, left, target, tally, rsp>>
  PROVE  QueryTypes' /\ Following' /\ NoneSkipped'
<1>1. Following' /\ NoneSkipped'
  BY OthersKeep DEF WalkInv
<1>2. QueryTypes'
  BY DEF WalkInv, QueryTypes, request
<1>3. QED BY <1>1, <1>2

LEMMA AskWalks ==
  ASSUME WalkInv, Ask PROVE WalkInv'
<1>1. /\ phase = "ready" /\ UNCHANGED <<method, at, steady, seen>>
      /\ kind = "idle" /\ WalkTypes /\ Collected /\ SteadyStored
  BY DEF Ask, WalkInv, Asking
<1>2. steady \subseteq Resolvable(cache)
  BY <1>1 DEF SteadyStored, Over
<1>3. CASE tries = MaxTries /\ phase' = "gaveup" /\ UNCHANGED <<queryVars, tries>>
  <2>1. QueryTypes' /\ Following' /\ NoneSkipped'
    BY <1>3, EngineStands DEF queryVars
  <2>2. kind' = "idle"
    BY <1>1, <1>3 DEF queryVars
  <2>3. WalkTypes' /\ Collected'
    BY <1>1, <1>3 DEF WalkTypes, Collected
  <2>4. Asking' /\ AtReach' /\ SteadyStored' /\ AnswerOK'
    BY <1>3, <2>2 DEF Asking, AtReach, SteadyStored, AnswerOK, Live, Over
  <2>5. QED BY <2>1, <2>3, <2>4 DEF WalkInv
<1>4. CASE /\ phase' = "asking" /\ tries' = tries + 1 /\ sent' = "dropped"
           /\ UNCHANGED <<cache, kind, request, pos, cursor, left, target, tally, rsp, torn>>
  <2>1. QueryTypes' /\ Following' /\ NoneSkipped'
    BY <1>4, EngineStands
  <2>2. kind' = "idle" /\ ~Live'
    BY <1>1, <1>4 DEF Live
  <2>3. WalkTypes' /\ Collected'
    BY <1>1, <1>4 DEF WalkTypes, Collected
  <2>4. Asking' /\ AtReach' /\ AnswerOK'
    BY <1>1, <1>4, <2>2 DEF Asking, AtReach, AnswerOK, WalkTypes
  <2>5. SteadyStored'
    BY <1>1, <1>2, <1>4, <2>2 DEF SteadyStored, Resolvable
  <2>6. QED BY <2>1, <2>3, <2>4, <2>5 DEF WalkInv
<1>5. CASE /\ phase' = "asking" /\ tries' = tries + 1
           /\ Receive(method, <<at>>, 0, IF method = "bulk" THEN MaxRep ELSE 0)
  <2>1. method \in Kinds /\ <<at>> \in Seq(Names)
    BY <1>1 DEF WalkTypes, Kinds
  <2>2. QueryTypes' /\ Following' /\ NoneSkipped'
    BY <1>5, <2>1, ReceiveTypes, ReceiveFollows DEF WalkInv
  <2>3. /\ kind' = method /\ binds' = <<at>> /\ pairs' = Stored(cache) /\ cache' = cache
        /\ pos' = 1 /\ rsp' = <<>> /\ bytes' = 0 /\ cursor' = at
        /\ left' = Capped(IF method = "bulk" THEN MaxRep ELSE 0)
    BY <1>5 DEF Receive
  <2>4. WalkTypes' /\ Collected'
    BY <1>1, <1>5 DEF WalkTypes, Collected
  <2>5. Asking'
    <3>1. method = "bulk" => left' > 0
      BY <2>3, WalkAssumption, AgentQueryAssumption DEF Capped
    <3>2. QED BY <1>1, <1>5, <2>3, <3>1 DEF Asking, Live, WalkTypes
  <2>6. AtReach'
    BY <1>1, <2>3 DEF AtReach, Reached
  <2>7. AnswerOK'
    <3>1. Upwards' /\ Covers'
      BY <2>3 DEF Upwards, Covers
    <3>2. EndCovers'
      BY <2>3 DEF EndCovers
    <3>3. QED BY <3>1, <3>2 DEF AnswerOK
  <2>8. SteadyStored'
    <3>1. Resolvable(cache) \subseteq Stored(cache)
      BY AgentQueryAssumption DEF Resolvable, Stored
    <3>2. QED BY <1>1, <1>2, <2>3, <3>1 DEF SteadyStored, Resolvable
  <2>9. QED BY <2>2, <2>4, <2>5, <2>6, <2>7, <2>8 DEF WalkInv
<1>6. QED BY <1>3, <1>4, <1>5 DEF Ask

\* What the station has after taking n answers, and the one that stopped it.
LEMMA TakeCollects ==
  ASSUME WalkInv, Take
  PROVE  /\ at' \in Names /\ (at' # at => at' > at)
         /\ (phase' = "ready" => at' > at)
         /\ Collected'
<1>1. PICK n \in 0..Len(rsp) :
        /\ \A i \in 1..n : SubSeq(rsp, 1, n)[i] \in Answered
        /\ \A i \in 1..n : rsp[i].ans \in Good
        /\ seen' = seen \cup Given(SubSeq(rsp, 1, n))
        /\ at' = IF n = 0 THEN at ELSE rsp[n].oid
        /\ IF n = Len(rsp)
             THEN phase' = "ready"
             ELSE /\ rsp[n + 1].ans \notin Good
                  /\ phase' = IF rsp[n + 1].ans = "endOfMibView" THEN "done" ELSE "stopped"
  BY DEF Take, WalkInv, QueryTypes
<1>2. /\ AllGood(n) /\ Live /\ kind = "idle" /\ rsp # <<>> /\ UNCHANGED steady
      /\ Upwards /\ Covers /\ EndCovers /\ Len(rsp) > 0
  BY <1>1 DEF Take, Live, WalkInv, AnswerOK, Asking, AllGood, QueryTypes
<1>3. /\ at \in Nat /\ at \in Names /\ (\A o \in Oid : o \in Nat /\ o \in Names)
      /\ \A p \in steady : p \in Nat /\ p > 0
  BY OidsAreNaturals DEF WalkInv, WalkTypes
<1>4. \A p : Among(p, n) => p \in seen'
  <2>1. SUFFICES ASSUME NEW j \in 1..n PROVE rsp[j].oid \in Given(SubSeq(rsp, 1, n))
    BY <1>1 DEF Among
  <2>2. Len(SubSeq(rsp, 1, n)) = n /\ SubSeq(rsp, 1, n)[j] = rsp[j]
    BY <1>1 DEF WalkInv, QueryTypes
  <2>3. QED BY <1>1, <2>2 DEF Given
<1>5. n > 0 => rsp[n].oid \in Oid /\ rsp[n].oid > at
  BY <1>1, <1>2 DEF Upwards
<1>6. at' \in Names /\ (at' # at => at' > at) /\ (phase' = "ready" => at' > at)
  <2>1. CASE n = 0
    BY <1>1, <1>2, <1>3, <2>1
  <2>2. CASE n > 0
    BY <1>1, <1>3, <1>5, <2>2
  <2>3. QED BY <1>1, <2>1, <2>2
<1>7. \A p \in steady : p <= at => p \in seen'
  BY <1>1, <1>3 DEF WalkInv, Collected
<1>8. steady' \cap 1..at' \subseteq seen'
  <2>1. SUFFICES ASSUME NEW p \in steady, p <= at' PROVE p \in seen'
    BY <1>2, <1>3, <1>6, OidsAreNaturals
  <2>2. CASE p <= at
    BY <1>7, <2>2
  <2>3. CASE p > at
    <3>1. n > 0 /\ at' = rsp[n].oid
      BY <1>1, <1>3, <2>1, <2>3
    <3>2. Among(p, n)
      BY <1>1, <1>2, <2>1, <2>3, <3>1 DEF Covers
    <3>3. QED BY <1>4, <3>2
  <2>4. QED BY <1>3, <2>2, <2>3
<1>9. phase' = "done" => steady' \subseteq seen'
  <2>1. SUFFICES ASSUME phase' = "done", NEW p \in steady PROVE p \in seen'
    BY <1>2
  <2>2. n # Len(rsp) /\ rsp[n + 1].ans = "endOfMibView"
    BY <1>1, <2>1
  <2>3. n \in 0..(Len(rsp) - 1)
    BY <1>1, <1>2, <2>2 DEF WalkInv, QueryTypes
  <2>4. CASE p > at
    <3>1. Among(p, n)
      BY <1>2, <2>2, <2>3, <2>4 DEF EndCovers
    <3>2. QED BY <1>4, <3>1
  <2>5. CASE p <= at
    BY <1>7, <2>5
  <2>6. QED BY <1>3, <2>4, <2>5
<1>10. QED BY <1>6, <1>8, <1>9 DEF Collected

LEMMA TakeWalks ==
  ASSUME WalkInv, Take PROVE WalkInv'
<1>1. /\ phase = "asking" /\ kind = "idle" /\ tries' = 0
      /\ phase' \in {"ready", "done", "stopped"}
      /\ UNCHANGED <<queryVars, method, steady>>
  BY DEF Take
<1>2. QueryTypes' /\ Following' /\ NoneSkipped' /\ kind' = "idle" /\ cache' = cache
  BY <1>1, EngineStands DEF queryVars
<1>3. WalkTypes'
  BY <1>1, TakeCollects DEF WalkInv, WalkTypes
<1>4. Asking' /\ AtReach' /\ AnswerOK'
  BY <1>1, <1>2 DEF Asking, AtReach, AnswerOK, Live
<1>5. SteadyStored'
  BY <1>1, <1>2 DEF WalkInv, SteadyStored, Live, Over, Resolvable
<1>6. QED BY <1>2, <1>3, <1>4, <1>5, TakeCollects DEF WalkInv

LEMMA ExpireWalks ==
  ASSUME WalkInv, Expire PROVE WalkInv'
<1>1. /\ phase = "asking" /\ phase' = "ready" /\ kind = "idle"
      /\ UNCHANGED <<queryVars, method, at, tries, steady, seen>>
  BY DEF Expire
<1>2. QueryTypes' /\ Following' /\ NoneSkipped' /\ kind' = "idle" /\ cache' = cache
  BY <1>1, EngineStands DEF queryVars
<1>3. WalkTypes' /\ Collected'
  BY <1>1 DEF WalkInv, WalkTypes, Collected
<1>4. Asking' /\ AtReach' /\ AnswerOK'
  BY <1>1, <1>2 DEF Asking, AtReach, AnswerOK, Live
<1>5. SteadyStored'
  BY <1>1, <1>2 DEF WalkInv, SteadyStored, Live, Over, Resolvable
<1>6. QED BY <1>2, <1>3, <1>4, <1>5 DEF WalkInv

\* A reload takes from steady what it loses, and leaves the answer alone.
LEMMA ReloadWalks ==
  ASSUME WalkInv, Reload PROVE WalkInv'
<1>1. PICK t \in Tables :
        ReloadWith(t) /\ steady' = IF Over THEN steady ELSE steady \cap Resolvable(t)
  BY DEF Reload
<1>2. /\ cache' = t /\ UNCHANGED <<kind, request, pos, cursor, left, target, tally, rsp, sent>>
      /\ UNCHANGED <<phase, method, at, tries, seen>> /\ steady' \subseteq steady
  BY <1>1 DEF ReloadWith, Reload
<1>3. QueryTypes'
  BY <1>2 DEF WalkInv, QueryTypes, request
<1>4. Following' /\ NoneSkipped'
  BY <1>2, OthersKeep DEF WalkInv
<1>5. WalkTypes' /\ Collected'
  BY <1>2 DEF WalkInv, WalkTypes, Collected
<1>6. Asking'
  BY <1>2 DEF WalkInv, Asking, Live, request, tally
<1>7. AtReach'
  BY <1>2 DEF WalkInv, AtReach, AllGood, Reached
<1>8. SteadyStored'
  BY <1>1, <1>2 DEF WalkInv, SteadyStored, Live, Over, Resolvable, request
<1>9. AnswerOK'
  <2>1. Live' => Live
    BY <1>2 DEF Live
  <2>2. Upwards => Upwards'
    BY <1>2 DEF Upwards, AllGood
  <2>3. Covers => Covers'
    BY <1>2 DEF Covers, AllGood, Among
  <2>4. EndCovers => EndCovers'
    BY <1>2 DEF EndCovers, AllGood, Among
  <2>5. QED BY <2>1, <2>2, <2>3, <2>4 DEF WalkInv, AnswerOK
<1>10. QED BY <1>3, <1>4, <1>5, <1>6, <1>7, <1>8, <1>9 DEF WalkInv

LEMMA StutterWalks ==
  ASSUME WalkInv, UNCHANGED walkVars PROVE WalkInv'
<1>1. /\ UNCHANGED <<cache, kind, request, pos, cursor, left, target, tally, rsp, sent>>
      /\ UNCHANGED <<phase, method, at, tries, steady, seen>>
  BY DEF walkVars, queryVars
<1>2. QueryTypes' /\ Following' /\ NoneSkipped'
  BY <1>1, EngineStands
<1>3. WalkTypes' /\ Collected' /\ SteadyStored'
  BY <1>1 DEF WalkInv, WalkTypes, Collected, SteadyStored, Live, Over, Resolvable, request
<1>4. Asking'
  BY <1>1 DEF WalkInv, Asking, Live, request, tally
<1>5. AtReach'
  BY <1>1 DEF WalkInv, AtReach, AllGood, Reached
<1>6. AnswerOK'
  BY <1>1 DEF WalkInv, AnswerOK, Live, Upwards, Covers, EndCovers, AllGood, Among
<1>7. QED BY <1>2, <1>3, <1>4, <1>5, <1>6 DEF WalkInv

LEMMA WalkInvHolds == WalkSpec => []WalkInv
<1>1. WalkInv /\ [WalkNext]_walkVars => WalkInv'
  BY AskWalks, AgentStepWalks, TakeWalks, ExpireWalks, ReloadWalks, StutterWalks DEF WalkNext
<1>2. QED BY <1>1, WalkStarts, PTL DEF WalkSpec

(* However many OIDs there are, however often the agent reloads and        *)
(* wherever packets are lost: a walk that is done has been given every OID *)
(* that had a value all along, and any other walk those up to where it is. *)
THEOREM WalkAlwaysComplete == WalkSpec => []WalkComplete
<1>1. WalkInv => WalkComplete
  BY DEF WalkInv, Collected, WalkComplete
<1>2. QED BY <1>1, WalkInvHolds, PTL

(* No step takes the station back, and an answer it has taken to the end   *)
(* takes it on: the same OIDs are not walked twice.                        *)
THEOREM WalkAlwaysAdvances == WalkSpec => WalkAdvances
<1>1. WalkInv /\ [WalkNext]_walkVars =>
        [/\ at' # at => at' > at
         /\ phase = "asking" /\ phase' = "ready" /\ tries' = 0 => at' > at]_walkVars
  <2> SUFFICES ASSUME WalkInv, WalkNext
               PROVE  /\ at' # at => at' > at
                      /\ phase = "asking" /\ phase' = "ready" /\ tries' = 0 => at' > at
    OBVIOUS
  <2>1. CASE Take
    BY <2>1, TakeCollects
  <2>2. CASE Expire
    BY <2>2 DEF Expire, WalkInv, Asking
  <2>3. CASE Ask
    BY <2>3 DEF Ask
  <2>4. CASE AgentStep
    BY <2>4, ServeFrame
  <2>5. CASE Reload
    <3>1. UNCHANGED <<at, phase>>
      BY <2>5 DEF Reload
    <3>2. QED BY <3>1
  <2>6. QED BY <2>1, <2>2, <2>3, <2>4, <2>5 DEF WalkNext
<1>2. QED BY <1>1, WalkInvHolds, PTL DEF WalkSpec, WalkAdvances

-----------------------------------------------------------------------------
(* A walk nothing disturbs.                                                *)

\* Every stored OID up to o resolves.
GoodUpTo(o) == \A p \in Stored(cache) : p <= o => cache[p] \in Good

\* What ends a walk after o is the end of the table, or a value that does not
\* resolve.
EndsAfter(o) == After(Stored(cache), o) = {}
StopsAfter(o) == /\ After(Stored(cache), o) # {}
                 /\ cache[NextOid(Stored(cache), o)] \in Bad

ExactRun == \A n \in 1..Len(rsp) : AllGood(n) => rsp[n].oid \in Resolvable(cache)
                                                 /\ GoodUpTo(rsp[n].oid)
ExactEnd ==
  \A n \in 0..(Len(rsp) - 1) : AllGood(n) =>
    /\ rsp[n + 1].ans = "endOfMibView" => EndsAfter(Reached(n))
    /\ rsp[n + 1].ans = "noSuchObject" => StopsAfter(Reached(n))

ExactTable ==
  ~disturbed =>
    /\ steady = Resolvable(cache)
    /\ seen \subseteq Resolvable(cache) /\ GoodUpTo(at)
    /\ phase = "done" => EndsAfter(at)
    /\ phase = "stopped" => StopsAfter(at)
ExactAnswer == ~disturbed /\ Live => pairs = Stored(cache) /\ ExactRun /\ ExactEnd

\* The target is in the list it was chosen from.
TargetRead == kind # "idle" /\ kind # "get" /\ target # NoOid => target \in pairs

ExactInv == ExactTable /\ ExactAnswer /\ TargetRead

LEMMA NextIsThat ==
  ASSUME NEW S \in SUBSET Oid, NEW t \in Nat, NEW x \in S, x > t, \A p \in S : p > t => x <= p
  PROVE  NextOid(S, t) = x /\ After(S, t) # {}
<1>1. After(S, t) # {}
  BY DEF After
<1>2. NextOid(S, t) \in S /\ NextOid(S, t) <= x /\ x <= NextOid(S, t)
  BY <1>1, NextIsFirst
<1>3. QED BY <1>1, <1>2, OidsAreNaturals

\* One more answer, of the undisturbed table.
LEMMA AppendExact ==
  ASSUME WalkInv, ExactInv, ~disturbed, phase = "asking", kind # "idle", pos = 1,
         UNCHANGED <<at, cache, pairs>>,
         NEW e \in Answered, rsp' = Append(rsp, e),
         e.ans \in Good => /\ e.oid \in Resolvable(cache) /\ e.oid > cursor
                           /\ \A p \in pairs : p > cursor => e.oid <= p,
         e.ans = "endOfMibView" => EndsAfter(cursor),
         e.ans = "noSuchObject" => StopsAfter(cursor)
  PROVE  pairs' = Stored(cache)' /\ ExactRun' /\ ExactEnd'
<1>1. PICK m \in Nat : m = Len(rsp)
  BY DEF WalkInv, QueryTypes
<1>2. /\ Len(rsp') = m + 1 /\ rsp'[m + 1] = e
      /\ \A i \in 1..m : rsp'[i] = rsp[i]
  BY <1>1 DEF WalkInv, QueryTypes
<1>3. \A n \in 0..m : (AllGood(n)' <=> AllGood(n)) /\ Reached(n)' = Reached(n)
  BY <1>2 DEF AllGood, Reached
<1>4. AllGood(m + 1)' => AllGood(m) /\ e.ans \in Good
  BY <1>2 DEF AllGood
<1>5. /\ pairs = Stored(cache) /\ ExactRun /\ ExactEnd /\ GoodUpTo(at)
      /\ cursor \in Nat /\ \A p \in pairs : p \in Nat
  BY OidsAreNaturals DEF ExactInv, ExactAnswer, ExactTable, Live, WalkInv, QueryTypes, Stored
<1>6. Stored(cache)' = Stored(cache) /\ Resolvable(cache)' = Resolvable(cache)
      /\ \A o : (GoodUpTo(o)' <=> GoodUpTo(o)) /\ (EndsAfter(o)' <=> EndsAfter(o))
                /\ (StopsAfter(o)' <=> StopsAfter(o))
  BY DEF Stored, Resolvable, GoodUpTo, EndsAfter, StopsAfter
<1>7. ASSUME AllGood(m) PROVE cursor = Reached(m) /\ GoodUpTo(cursor)
  <2>1. cursor = Reached(m)
    BY <1>1, <1>7 DEF WalkInv, AtReach
  <2>2. QED BY <1>1, <1>5, <1>7, <2>1 DEF Reached, ExactRun
<1>8. ASSUME AllGood(m + 1)' PROVE e.oid \in Resolvable(cache) /\ GoodUpTo(e.oid)
  <2>1. /\ e.oid \in Resolvable(cache) /\ e.oid > cursor /\ e.oid \in Nat
        /\ \A p \in pairs : p > cursor => e.oid <= p
    BY <1>4, <1>8, OidsAreNaturals DEF Resolvable
  <2>2. ASSUME NEW p \in Stored(cache), p <= e.oid PROVE cache[p] \in Good
    <3>1. CASE p <= cursor
      BY <1>4, <1>7, <1>8, <2>2, <3>1 DEF GoodUpTo
    <3>2. CASE p > cursor
      BY <1>5, <2>1, <2>2, <3>2 DEF Resolvable
    <3>3. QED BY <1>5, <3>1, <3>2
  <2>3. QED BY <2>1, <2>2 DEF GoodUpTo
<1>9. ExactRun'
  <2>1. ASSUME NEW n \in 1..(m + 1), AllGood(n)'
        PROVE  rsp'[n].oid \in Resolvable(cache) /\ GoodUpTo(rsp'[n].oid)
    <3>1. CASE n = m + 1
      BY <1>2, <1>8, <2>1, <3>1
    <3>2. CASE n # m + 1
      BY <1>1, <1>2, <1>3, <1>5, <2>1, <3>2 DEF ExactRun
    <3>3. QED BY <3>1, <3>2
  <2>2. QED BY <1>2, <1>6, <2>1 DEF ExactRun
<1>10. ExactEnd'
  <2>1. ASSUME NEW n \in 0..m, AllGood(n)'
        PROVE  /\ rsp'[n + 1].ans = "endOfMibView" => EndsAfter(Reached(n))
               /\ rsp'[n + 1].ans = "noSuchObject" => StopsAfter(Reached(n))
    <3>1. CASE n = m
      BY <1>2, <1>3, <1>7, <2>1, <3>1
    <3>2. CASE n # m
      <4>1. n \in 0..(Len(rsp) - 1) /\ rsp'[n + 1] = rsp[n + 1] /\ AllGood(n)
        BY <1>1, <1>2, <1>3, <2>1, <3>2
      <4>2. QED BY <1>5, <2>1, <4>1 DEF ExactEnd
    <3>3. QED BY <3>1, <3>2
  <2>2. QED BY <1>2, <1>3, <1>6, <2>1 DEF ExactEnd
<1>11. QED BY <1>5, <1>6, <1>9, <1>10

\* Whatever else a step of the engine does, what the station has stays exact.
LEMMA ServeExact ==
  ASSUME WalkInv, ExactInv, AgentStep,
         ~disturbed => pairs' = Stored(cache)' /\ ExactRun' /\ ExactEnd', TargetRead'
  PROVE  ExactInv'
<1>1. UNCHANGED <<phase, at, steady, seen, cache, disturbed>>
  BY ServeFrame DEF AgentStep
<1>2. ExactTable'
  BY <1>1 DEF ExactInv, ExactTable, GoodUpTo, EndsAfter, StopsAfter, Stored, Resolvable
<1>3. QED BY <1>1, <1>2 DEF ExactInv, ExactAnswer

LEMMA SameExact ==
  ASSUME WalkInv, ExactInv, AgentStep, UNCHANGED rsp, TargetRead' PROVE ExactInv'
<1>1. UNCHANGED <<at, cache, pairs>> /\ Live
  BY ServeFrame DEF request
<1>2. ~disturbed => pairs = Stored(cache) /\ ExactRun /\ ExactEnd
  BY <1>1 DEF ExactInv, ExactAnswer
<1>3. ~disturbed => pairs' = Stored(cache)' /\ ExactRun' /\ ExactEnd'
  BY <1>1, <1>2 DEF ExactRun, ExactEnd, AllGood, Reached, GoodUpTo, EndsAfter, StopsAfter, Stored,
     Resolvable
<1>4. QED BY <1>3, ServeExact

\* A read answers with the target's value, or stops the walk at it.
LEMMA ReadExact ==
  ASSUME WalkInv, ExactInv, AgentStep, Answering, target # NoOid, target' = NoOid,
         NEW e \in Answered, rsp' = Append(rsp, e), e.ans = Answer(target),
         cache[target] \in Values => e.oid = target
  PROVE  ExactInv'
<1>1. /\ UNCHANGED <<at, cache, pairs>> /\ phase = "asking" /\ pos = 1 /\ Live
      /\ kind # "idle" /\ kind # "get"
  BY ServeFrame DEF request
<1>2. TargetRead'
  BY DEF TargetRead
<1>3. /\ target \in pairs /\ target > cursor /\ \A p \in pairs : p > cursor => target <= p
      /\ pairs \in SUBSET Oid /\ cursor \in Nat /\ cache \in Tables
  BY <1>1, OidsAreNaturals
     DEF ExactInv, TargetRead, WalkInv, Following, TargetFirst, QueryTypes
<1>4. CASE cache[target] \in Values /\ ~disturbed
  <2>1. /\ e.ans = cache[target] /\ e.oid = target /\ target \in Oid
        /\ e.ans # "endOfMibView" /\ e.ans # "noSuchObject"
        /\ e.ans \in Good => target \in Resolvable(cache)
    BY <1>3, <1>4, AgentQueryAssumption DEF Answer, Resolvable, Values
  <2>2. QED BY <1>1, <1>2, <1>3, <1>4, <2>1, AppendExact, ServeExact
<1>5. CASE cache[target] \notin Values /\ ~disturbed
  <2>1. e.ans = "noSuchObject" /\ e.ans \notin Good
    BY <1>5, AgentQueryAssumption DEF Answer
  <2>2. pairs = Stored(cache)
    BY <1>1, <1>5 DEF ExactInv, ExactAnswer
  <2>3. cache[target] \in Bad
    BY <1>3, <1>5, <2>2 DEF Stored, Tables
  <2>4. StopsAfter(cursor)
    BY <1>3, <2>2, <2>3, NextIsThat DEF StopsAfter
  <2>5. QED BY <1>1, <1>2, <1>5, <2>1, <2>4, AppendExact, ServeExact
<1>6. QED BY <1>2, <1>4, <1>5, ServeExact

LEMMA AgentStepExact == ASSUME WalkInv, ExactInv, AgentStep PROVE ExactInv'
<1>1. ~Probe /\ kind # "idle" /\ kind # "get" /\ UNCHANGED <<at, cache, pairs, disturbed>>
  BY ServeFrame DEF Probe, request, AgentStep
<1>2. CASE Successor
  <2>1. /\ target' = NextOid(pairs, cursor) /\ After(pairs, cursor) # {} /\ UNCHANGED rsp
        /\ pairs \in SUBSET Oid /\ cursor \in Nat
    BY <1>2, OidsAreNaturals DEF Successor, WalkInv, QueryTypes
  <2>2. TargetRead'
    BY <1>1, <2>1, NextIsFirst DEF TargetRead
  <2>3. QED BY <2>1, <2>2, SameExact
<1>3. CASE EndColumn \/ Reply
  <2>1. UNCHANGED rsp /\ (target' = NoOid \/ kind' = "idle")
    BY <1>3 DEF EndColumn, Reply, NextBind
  <2>2. QED BY <2>1, SameExact DEF TargetRead
<1>4. CASE EndOfMib
  <2>1. PICK e : e = [oid |-> cursor, ans |-> "endOfMibView", col |-> pos]
    OBVIOUS
  <2>2. e \in Answered /\ rsp' = Append(rsp, e) /\ target' = NoOid /\ Answering
    BY <1>4, <2>1 DEF Answered, WalkInv, QueryTypes, EndOfMib, Put, NextBind
  <2>3. e.ans = "endOfMibView" /\ e.ans \notin Good
    BY <2>1, AgentQueryAssumption
  <2>4. ASSUME ~disturbed PROVE EndsAfter(cursor)
    BY <1>4, <2>4, ServeFrame DEF EndOfMib, EndsAfter, ExactInv, ExactAnswer
  <2>5. ~disturbed => pairs' = Stored(cache)' /\ ExactRun' /\ ExactEnd'
    BY <1>1, <2>2, <2>3, <2>4, ServeFrame, AppendExact
  <2>6. QED BY <2>2, <2>5, ServeExact DEF TargetRead
<1>5. CASE ReadOnce
  <2>1. /\ Answering /\ target \in Oid /\ target # NoOid /\ target' = NoOid
    BY <1>5 DEF ReadOnce, NextBind, WalkInv, QueryTypes
  <2>2. PICK e : e = [oid |-> IF cache[target] \in Values THEN target ELSE binds[pos],
                      ans |-> Answer(target), col |-> pos]
    OBVIOUS
  <2>3. e \in Answered /\ rsp' = Append(rsp, e)
    <3>1. target \in Names /\ binds[pos] \in Names /\ Answer(target) \in Values \cup {"noSuchObject"}
      BY <2>1, OidsAreNaturals, AnswerType DEF WalkInv, QueryTypes, Answering
    <3>2. QED BY <1>5, <2>2, <3>1 DEF Answered, WalkInv, QueryTypes, ReadOnce, Put
  <2>4. QED BY <2>1, <2>2, <2>3, ReadExact
<1>6. CASE ReadBulk
  <2>1. /\ Answering /\ target \in Oid /\ target # NoOid /\ target' = NoOid
    BY <1>6 DEF ReadBulk, NextBind, WalkInv, QueryTypes
  <2>2. PICK e : e = [oid |-> BulkOid(target), ans |-> Answer(target), col |-> pos]
    OBVIOUS
  <2>3. e \in Answered /\ rsp' = Append(rsp, e)
    <3>1. e.oid \in Names \cup {NoOid} /\ e.ans \in Values \cup {"noSuchObject"}
      BY <2>1, <2>2, OidsAreNaturals, AnswerType DEF WalkInv, BulkOid
    <3>2. QED BY <1>6, <2>2, <3>1 DEF Answered, WalkInv, QueryTypes, ReadBulk, Put
  <2>4. cache[target] \in Values => e.oid = target
    BY <2>2, AgentQueryAssumption DEF BulkOid, Values
  <2>5. QED BY <2>1, <2>2, <2>3, <2>4, ReadExact
<1>7. QED BY <1>1, <1>2, <1>3, <1>4, <1>5, <1>6 DEF AgentStep, Serve

\* What was sent could be encoded.
SentEncodes ==
  /\ kind # "idle" => sent = "none"
  /\ sent = "sent" => \A i \in 1..Len(rsp) : ~Unsendable(rsp[i])

LEMMA SentAlwaysEncodes == WalkSpec => []SentEncodes
<1>1. WalkInit => SentEncodes
  BY DEF WalkInit, QueryInit, SentEncodes
<1>2. SentEncodes /\ [WalkNext]_walkVars => SentEncodes'
  <2> SUFFICES ASSUME SentEncodes, [WalkNext]_walkVars PROVE SentEncodes'
    OBVIOUS
  <2>1. ASSUME UNCHANGED <<kind, sent, rsp>> PROVE SentEncodes'
    BY <2>1 DEF SentEncodes
  <2>2. CASE Ask
    <3>1. CASE \E k, b, nr, mr : Receive(k, b, nr, mr)
      <4>1. sent' = "none"
        BY <3>1 DEF Receive
      <4>2. QED BY <4>1 DEF SentEncodes
    <3>2. CASE kind' = "idle" /\ sent' = "dropped"
      BY <3>2 DEF SentEncodes
    <3>3. QED BY <2>1, <2>2, <3>1, <3>2 DEF Ask, queryVars
  <2>3. CASE AgentStep
    <3>1. CASE Reply
      <4>1. /\ kind' = "idle" /\ rsp' = rsp
            /\ sent' = "sent" => \A i \in 1..Len(rsp) : ~Unsendable(rsp[i])
        BY <3>1 DEF Reply
      <4>2. QED BY <4>1 DEF SentEncodes
    <3>2. CASE ~Reply
      <4>1. kind # "idle" /\ UNCHANGED <<kind, sent>>
        BY <2>3, <3>2 DEF AgentStep, Serve, Answering, Probe, Successor, EndOfMib, EndColumn,
           ReadOnce, ReadBulk
      <4>2. QED BY <4>1 DEF SentEncodes
    <3>3. QED BY <3>1, <3>2
  <2>4. CASE Reload
    <3>1. UNCHANGED <<kind, sent, rsp>>
      BY <2>4 DEF Reload, ReloadWith
    <3>2. QED BY <2>1, <3>1
  <2>5. CASE Take \/ Expire \/ UNCHANGED walkVars
    BY <2>1, <2>5 DEF Take, Expire, queryVars, walkVars
  <2>6. QED BY <2>2, <2>3, <2>4, <2>5 DEF WalkNext
<1>3. QED BY <1>1, <1>2, PTL DEF WalkSpec

\* The station takes exactly what the table holds, up to where it stops.
LEMMA TakeExact == ASSUME WalkInv, ExactInv, SentEncodes, Take PROVE ExactInv'
<1>1. PICK n \in 0..Len(rsp) :
        /\ \A i \in 1..n : rsp[i].ans \in Good
        /\ seen' = seen \cup Given(SubSeq(rsp, 1, n))
        /\ at' = IF n = 0 THEN at ELSE rsp[n].oid
        /\ IF n = Len(rsp)
             THEN phase' = "ready"
             ELSE /\ rsp[n + 1].ans \notin Good
                  /\ phase' = IF rsp[n + 1].ans = "endOfMibView" THEN "done" ELSE "stopped"
  BY DEF Take
<1>2. /\ UNCHANGED <<cache, steady, disturbed, kind>> /\ Live /\ kind = "idle"
      /\ phase' \in {"ready", "done", "stopped"}
  BY DEF Take, queryVars, Live
<1>3. ExactAnswer' /\ TargetRead'
  BY <1>2 DEF ExactAnswer, Live, TargetRead
<1>4. ASSUME ~disturbed
      PROVE  /\ seen' \subseteq Resolvable(cache) /\ GoodUpTo(Reached(n))
             /\ phase' = "done" => EndsAfter(Reached(n))
             /\ phase' = "stopped" => StopsAfter(Reached(n))
  <2>1. ExactRun /\ ExactEnd /\ GoodUpTo(at) /\ seen \subseteq Resolvable(cache)
    BY <1>2, <1>4 DEF ExactInv, ExactAnswer, ExactTable
  <2>2. \A j \in 1..n : AllGood(j) /\ j \in 1..Len(rsp)
    BY <1>1 DEF AllGood, WalkInv, QueryTypes
  <2>3. ASSUME NEW o \in Given(SubSeq(rsp, 1, n)) PROVE o \in Resolvable(cache)
    <3>1. Len(SubSeq(rsp, 1, n)) = n /\ \A j \in 1..n : SubSeq(rsp, 1, n)[j] = rsp[j]
      BY <1>1 DEF WalkInv, QueryTypes
    <3>2. PICK j \in 1..n : o = rsp[j].oid
      BY <2>3, <3>1 DEF Given
    <3>3. QED BY <2>1, <2>2, <3>2 DEF ExactRun
  <2>4. GoodUpTo(Reached(n))
    BY <1>1, <2>1, <2>2 DEF Reached, ExactRun
  <2>5. AllGood(n) /\ (n # Len(rsp) => n \in 0..(Len(rsp) - 1))
    BY <1>1 DEF AllGood, WalkInv, QueryTypes
  <2>6. phase' = "done" => n # Len(rsp) /\ rsp[n + 1].ans = "endOfMibView"
    BY <1>1
  <2>7. phase' = "stopped" => n # Len(rsp) /\ rsp[n + 1].ans = "noSuchObject"
    <3>1. SUFFICES ASSUME phase' = "stopped" PROVE n # Len(rsp) /\ rsp[n + 1].ans = "noSuchObject"
      OBVIOUS
    <3>2. /\ n # Len(rsp) /\ rsp[n + 1].ans \notin Good /\ rsp[n + 1].ans # "endOfMibView"
      BY <1>1, <3>1
    <3>3. n + 1 \in 1..Len(rsp)
      BY <1>1, <3>2 DEF WalkInv, QueryTypes
    <3>4. rsp[n + 1] \in Answered /\ ~Unsendable(rsp[n + 1])
      BY <3>3 DEF WalkInv, QueryTypes, SentEncodes, Take
    <3>5. QED BY <3>2, <3>4 DEF Answered, Unsendable, Values
  <2>8. QED BY <1>1, <2>1, <2>3, <2>4, <2>5, <2>6, <2>7 DEF ExactEnd
<1>5. at' = Reached(n)
  BY <1>1 DEF Reached
<1>6. ExactTable'
  BY <1>2, <1>4, <1>5 DEF ExactInv, ExactTable, GoodUpTo, EndsAfter, StopsAfter, Stored, Resolvable
<1>7. QED BY <1>3, <1>6 DEF ExactInv

LEMMA AskExact == ASSUME WalkInv, ExactInv, Ask PROVE ExactInv'
<1>1. /\ UNCHANGED <<cache, at, steady, seen, disturbed>> /\ phase = "ready" /\ kind = "idle"
      /\ phase' \in {"asking", "gaveup"}
  BY DEF Ask, Receive, queryVars, WalkInv, Asking
<1>2. ExactTable'
  BY <1>1 DEF ExactInv, ExactTable, GoodUpTo, Stored, Resolvable
<1>3. CASE ~Live' /\ kind' = "idle"
  BY <1>2, <1>3 DEF ExactInv, ExactAnswer, TargetRead
<1>4. CASE rsp' = <<>> /\ pairs' = Stored(cache) /\ target' = NoOid
  BY <1>1, <1>2, <1>4 DEF ExactInv, ExactAnswer, ExactRun, ExactEnd, TargetRead, Stored
<1>5. QED BY <1>1, <1>3, <1>4 DEF Ask, Receive, queryVars, Live

LEMMA ExactInvHolds == WalkSpec => []ExactInv
<1>1. WalkInit => ExactInv
  BY OidsAreNaturals DEF WalkInit, QueryInit, ExactInv, ExactTable, ExactAnswer, Live, TargetRead,
     GoodUpTo, Stored
<1>2. WalkInv /\ SentEncodes /\ ExactInv /\ [WalkNext]_walkVars => ExactInv'
  <2>1. ASSUME ExactInv, Reload PROVE ExactInv'
    <3>1. disturbed' = TRUE /\ UNCHANGED <<kind, target, pairs>>
      BY <2>1 DEF Reload, ReloadWith, request
    <3>2. QED BY <2>1, <3>1 DEF ExactInv, ExactTable, ExactAnswer, TargetRead
  <2>2. ASSUME ExactInv, Expire PROVE ExactInv'
    <3>1. phase' = "ready" /\ UNCHANGED <<cache, at, steady, seen, disturbed, kind, target, pairs>>
      BY <2>2 DEF Expire, queryVars, request
    <3>2. QED BY <2>2, <3>1 DEF ExactInv, ExactTable, ExactAnswer, TargetRead, Live, GoodUpTo,
               Stored, Resolvable
  <2>3. ASSUME ExactInv, UNCHANGED walkVars PROVE ExactInv'
    <3>1. /\ UNCHANGED <<cache, kind, pairs, target, rsp, sent>>
          /\ UNCHANGED <<phase, at, steady, seen, disturbed>>
      BY <2>3 DEF walkVars, queryVars, request
    <3>2. ExactTable' /\ TargetRead'
      BY <2>3, <3>1 DEF ExactInv, ExactTable, TargetRead, GoodUpTo, EndsAfter, StopsAfter, Stored,
         Resolvable
    <3>3. ExactAnswer'
      BY <2>3, <3>1 DEF ExactInv, ExactAnswer, ExactRun, ExactEnd, AllGood, Reached, Live, GoodUpTo,
         EndsAfter, StopsAfter, Stored, Resolvable
    <3>4. QED BY <3>2, <3>3 DEF ExactInv
  <2>4. QED BY <2>1, <2>2, <2>3, AskExact, AgentStepExact, TakeExact DEF WalkNext
<1>3. QED BY <1>1, <1>2, WalkInvHolds, SentAlwaysEncodes, PTL DEF WalkSpec

(* With no reload since it began, a walk is given the resolvable OIDs of   *)
(* the table and nothing else: all of them if it is done, and if it stops  *)
(* early the next stored value is one that does not resolve.               *)
THEOREM UndisturbedAlwaysExact == WalkSpec => []UndisturbedExact
<1>1. WalkInv /\ ExactInv => UndisturbedExact
  <2> SUFFICES ASSUME WalkInv, ExactInv, ~disturbed
               PROVE  /\ seen \subseteq Resolvable(cache)
                      /\ phase = "done" => Stored(cache) = seen
                      /\ phase = "stopped" => StopsAfter(at)
    BY DEF UndisturbedExact, StopsAfter
  <2>1. /\ steady = Resolvable(cache) /\ seen \subseteq Resolvable(cache) /\ GoodUpTo(at)
        /\ phase = "done" => EndsAfter(at) /\ steady \subseteq seen
        /\ phase = "stopped" => StopsAfter(at)
    BY DEF ExactInv, ExactTable, WalkInv, Collected
  <2>2. Resolvable(cache) \subseteq Stored(cache)
    BY AgentQueryAssumption DEF Resolvable, Stored
  <2>3. ASSUME phase = "done", NEW p \in Stored(cache) PROVE p \in Resolvable(cache)
    <3>1. p \in Oid /\ p \in Nat /\ at \in Nat
      BY OidsAreNaturals DEF Stored, WalkInv, WalkTypes
    <3>2. ~(p > at)
      BY <2>1, <2>3 DEF EndsAfter, After
    <3>3. QED BY <2>1, <3>1, <3>2 DEF GoodUpTo, Resolvable
  <2>4. QED BY <2>1, <2>2, <2>3
<1>2. QED BY <1>1, WalkInvHolds, ExactInvHolds, PTL
=============================================================================
