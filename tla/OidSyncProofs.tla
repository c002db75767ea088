----------------------------- MODULE OidSyncProofs -----------------------------
(***************************************************************************)
(* Proofs about the handlers of OidPush, for any sets of requests, OIDs    *)
(* and row contents, and about the pipeline end to end: the handlers are   *)
(* OidPush's, seen from the agent they are the backend MibStore is proved  *)
(* against, and what the two modules promise separately is what a query is *)
(* answered from.                                                          *)
(***************************************************************************)
EXTENDS OidSync, TLAPS

USE DEF Rows, Table, NoRows, Unread, Blanks, PC, Handlers, Unpushed

(* Rows, and the payloads that set some of their columns.                  *)
LEMMA BlankIsRow == Blank \in Row
  BY DEF Blank, Row

LEMMA NoColumnIsPayload == NoColumn \in Payload
<1>1. NoColumn \in [{} -> Val] /\ {} \in SUBSET Col
  BY DEF NoColumn
<1>2. QED BY <1>1 DEF Payload

LEMMA RowIsPresent == Absent \notin Row
  BY OidPushAssumption DEF Row

LEMMA ReadIsRow ==
  ASSUME BackTypeOK, NEW o \in Oid
  PROVE  Read(o) \in Row
  BY BlankIsRow DEF BackTypeOK, Read

LEMMA LoadedType ==
  ASSUME BackTypeOK, NEW r \in Req, NEW o \in touched[r],
         loaded' = [loaded EXCEPT ![r][o] = Read(o)]
  PROVE  loaded' \in [Req -> [Oid -> Row]]
<1>1. loaded[r] \in [Oid -> Row] /\ o \in Oid
  BY DEF BackTypeOK
<1>2. [loaded[r] EXCEPT ![o] = Read(o)] \in [Oid -> Row]
  BY <1>1, ReadIsRow
<1>3. QED BY <1>2 DEF BackTypeOK

LEMMA AppliedIsRow ==
  ASSUME BackTypeOK, NEW r \in Req, NEW o \in Oid
  PROVE  Applied(r, o) \in Row
<1>1. val[r] \in Payload \cup Row /\ loaded[r][o] \in Row
  BY DEF BackTypeOK
<1>2. ASSUME NEW c \in DOMAIN val[r] PROVE val[r][c] \in Val \cup {Null}
  <2>1. CASE val[r] \in Payload
    <3>1. PICK C \in SUBSET Col : val[r] \in [C -> Val]
      BY <2>1 DEF Payload
    <3>2. QED BY <1>2, <3>1
  <2>2. CASE val[r] \in Row
    BY <1>2, <2>2 DEF Row
  <2>3. QED BY <1>1, <2>1, <2>2
<1>3. QED BY <1>1, <1>2 DEF Applied, Row

LEMMA WrittenIsRow ==
  ASSUME BackTypeOK, NEW r \in Req, NEW o \in Oid
  PROVE  Written(r, o) \in Row
  BY ReadIsRow, AppliedIsRow DEF Written, Row

(* The row holds what the record does when every column is written, or     *)
(* when the record was current.                                            *)
LEMMA WrittenIsApplied ==
  ASSUME BackTypeOK, NEW r \in Req, NEW o \in Oid,
         Changed(r, o) = Col \/ loaded[r][o] = Read(o)
  PROVE  Written(r, o) = Applied(r, o)
<1>1. ASSUME NEW c \in Col PROVE Written(r, o)[c] = Applied(r, o)[c]
  BY <1>1 DEF Written, Changed
<1>2. Written(r, o) \in Row /\ Applied(r, o) \in Row
  BY WrittenIsRow, AppliedIsRow
<1>3. QED BY <1>1, <1>2 DEF Row

(* A request that ends leaves well-typed locals and is idle. *)
LEMMA EndType ==
  ASSUME BackTypeOK, NEW r \in Req, End(r)
  PROVE  /\ pc' \in [Req -> PC] /\ kind' \in [Req -> Handlers \cup {"none"}]
         /\ touched' \in [Req -> SUBSET Oid]
         /\ val' \in [Req -> Payload \cup Row]
         /\ seen' \in [Req -> [Oid -> {"unread", "none", "row", "gone"}]]
         /\ loaded' \in [Req -> [Oid -> Row]]
         /\ held' \in [Req -> SUBSET Oid] /\ snap' \in [Req -> Rows]
         /\ overlap' \in [Req -> SUBSET Oid]
  BY BlankIsRow, NoColumnIsPayload DEF BackTypeOK, End, Goto

LEMMA OvertakeType ==
  ASSUME BackTypeOK, NEW r \in Req, NEW W \in SUBSET Oid, NEW own \in SUBSET Oid,
         Overtake(r, W, own)
  PROVE  overlap' \in [Req -> SUBSET Oid]
  BY DEF BackTypeOK, Overtake

(* A request that arrives finds its session empty. *)
LEMMA BeginType ==
  ASSUME BackTypeOK, NEW r \in Req, NEW k \in Handlers, NEW label \in PC,
         Begin(r, k, label)
  PROVE  /\ pc' \in [Req -> PC] /\ kind' \in [Req -> Handlers \cup {"none"}]
         /\ started' \in Nat
         /\ UNCHANGED <<db, redis, linkUp, seen, loaded, held, snap, overlap, dirty>>
  BY DEF BackTypeOK, Begin, Goto

(* Every handler step keeps every variable in its type. *)
THEOREM BackTypeCorrect == BackSpec => []BackTypeOK
<1>1. BackInit => BackTypeOK
  <2> SUFFICES ASSUME BackInit PROVE BackTypeOK
    OBVIOUS
  <2>1. db \in Rows /\ redis \in Table /\ linkUp \in BOOLEAN /\ started \in Nat
    BY DEF BackInit
  <2>2. pc \in [Req -> PC] /\ kind \in [Req -> Handlers \cup {"none"}]
    BY DEF BackInit
  <2>3. /\ touched \in [Req -> SUBSET Oid] /\ held \in [Req -> SUBSET Oid]
        /\ overlap \in [Req -> SUBSET Oid] /\ dirty \in SUBSET Oid
    BY DEF BackInit
  <2>4. /\ val \in [Req -> Payload \cup Row] /\ snap \in [Req -> Rows]
        /\ loaded \in [Req -> [Oid -> Row]]
        /\ seen \in [Req -> [Oid -> {"unread", "none", "row", "gone"}]]
    BY BlankIsRow, NoColumnIsPayload DEF BackInit
  <2>5. QED BY <2>1, <2>2, <2>3, <2>4 DEF BackTypeOK
<1>2. BackTypeOK /\ [BackNext]_backVars => BackTypeOK'
  <2> SUFFICES ASSUME BackTypeOK, [BackNext]_backVars PROVE BackTypeOK'
    OBVIOUS
  <2>1. ASSUME NEW r \in Req, Arrive(r) PROVE BackTypeOK'
    <3>1. CASE BeginUpsert(r)
      BY <3>1, OidPushAssumption DEF BackTypeOK, BeginUpsert, Begin, Goto
    <3>2. CASE BeginBulk(r)
      <4> PICK items \in SUBSET Oid \ {{}}, v \in Payload :
                 /\ Begin(r, "bulk", IF items \cap Numeric = {} THEN "commit"
                                     ELSE "lookup")
                 /\ touched' = [touched EXCEPT ![r] = items \cap Numeric]
                 /\ val' = [val EXCEPT ![r] = v]
        BY <3>2 DEF BeginBulk
      <4> QED BY BeginType DEF BackTypeOK
    <3>3. CASE BeginSeed(r)
      <4> PICK items \in SUBSET Oid \ {{}}, v \in Payload \cup Row :
                 /\ Begin(r, "seed", "lookup")
                 /\ touched' = [touched EXCEPT ![r] = items]
                 /\ val' = [val EXCEPT ![r] = v]
        BY <3>3 DEF BeginSeed
      <4> QED BY BeginType DEF BackTypeOK
    <3>4. CASE BeginDelete(r)
      BY <3>4 DEF BackTypeOK, BeginDelete, Begin, Goto
    <3>5. CASE BeginStart(r)
      BY <3>5 DEF BackTypeOK, BeginStart, Begin, Goto
    <3>6. CASE BeginLink(r)
      BY <3>6 DEF BackTypeOK, BeginLink, Begin, Goto
    <3>7. CASE BeginBulkDevices(r)
      <4> PICK o \in Oid, v \in Row :
                 /\ Begin(r, "seed", "lookup")
                 /\ touched' = [touched EXCEPT ![r] = {o}]
                 /\ val' = [val EXCEPT ![r] = v]
        BY <3>7 DEF BeginBulkDevices
      <4> QED BY BeginType DEF BackTypeOK
    <3>8. QED BY <2>1, <3>1, <3>2, <3>3, <3>4, <3>5, <3>6, <3>7 DEF Arrive
  <2>2. ASSUME NEW r \in Req, DbStep(r) PROVE BackTypeOK'
    <3>1. CASE Lookup(r)
      <4> PICK o \in touched[r] :
             IF kind[r] = "delete" /\ db[o] = Absent
               THEN End(r)
               ELSE /\ seen' = [seen EXCEPT ![r][o] =
                                   IF db[o] = Absent THEN "none" ELSE "row"]
                    /\ loaded' = [loaded EXCEPT ![r][o] = Read(o)]
                    /\ IF \A x \in touched[r] \ {o} : seen[r][x] # "unread"
                         THEN Goto(r, "commit") ELSE UNCHANGED pc
                    /\ UNCHANGED <<kind, touched, val, held, snap, overlap>>
        BY <3>1 DEF Lookup
      <4>1. UNCHANGED <<db, redis, linkUp, dirty, started>>
        BY <3>1 DEF Lookup
      <4>2. CASE kind[r] = "delete" /\ db[o] = Absent
        BY <4>1, <4>2, EndType DEF BackTypeOK
      <4>3. CASE ~(kind[r] = "delete" /\ db[o] = Absent)
        <5>1. seen' \in [Req -> [Oid -> {"unread", "none", "row", "gone"}]]
          <6> DEFINE s == IF db[o] = Absent THEN "none" ELSE "row"
          <6>1. seen' = [seen EXCEPT ![r] = [seen[r] EXCEPT ![o] = s]]
            BY <4>3
          <6>2. seen[r] \in [Oid -> {"unread", "none", "row", "gone"}]
            BY DEF BackTypeOK
          <6>3. [seen[r] EXCEPT ![o] = s] \in
                  [Oid -> {"unread", "none", "row", "gone"}]
            <7>1. s \in {"unread", "none", "row", "gone"}
              OBVIOUS
            <7>2. QED BY <6>2, <7>1
          <6>4. QED BY <6>1, <6>3 DEF BackTypeOK
        <5>2. pc' \in [Req -> PC]
          BY <4>3 DEF BackTypeOK, Goto
        <5>3. loaded' \in [Req -> [Oid -> Row]]
          BY <4>3, LoadedType
        <5>4. QED BY <4>1, <4>3, <5>1, <5>2, <5>3 DEF BackTypeOK
      <4>4. QED BY <4>2, <4>3
    <3>2. CASE Commit(r)
      <4>1. overlap' \in [Req -> SUBSET Oid]
        <5> DEFINE own == {o \in overlap[r] : Changed(r, o) # Col}
        <5>1. touched[r] \in SUBSET Oid /\ own \in SUBSET Oid
          BY DEF BackTypeOK
        <5>2. Overtake(r, touched[r], own)
          BY <3>2 DEF Commit
        <5>3. QED BY <5>1, <5>2, OvertakeType
      <4>2. db' \in Rows /\ loaded' \in [Req -> [Oid -> Row]]
        BY <3>2, WrittenIsRow, AppliedIsRow DEF BackTypeOK, Commit
      <4>3. held' \in [Req -> SUBSET Oid]
        BY <3>2 DEF BackTypeOK, Commit, LastRecord
      <4>4. seen' \in [Req -> [Oid -> {"unread", "none", "row", "gone"}]]
        BY <3>2 DEF BackTypeOK, Commit
      <4>5. QED BY <3>2, <4>1, <4>2, <4>3, <4>4 DEF BackTypeOK, Commit, Goto
    <3>3. CASE CommitConflict(r)
      BY <3>3, EndType DEF BackTypeOK, CommitConflict
    <3>4. CASE CommitDelete(r)
      <4>1. overlap' \in [Req -> SUBSET Oid]
        <5> DEFINE hit == {o \in touched[r] : seen[r][o] = "row"}
        <5>1. hit \in SUBSET Oid /\ touched[r] \ hit \in SUBSET Oid
          BY DEF BackTypeOK
        <5>2. Overtake(r, hit, touched[r] \ hit)
          BY <3>4 DEF CommitDelete
        <5>3. QED BY <5>1, <5>2, OvertakeType
      <4>2. seen' \in [Req -> [Oid -> {"unread", "none", "row", "gone"}]]
        BY <3>4 DEF BackTypeOK, CommitDelete
      <4>3. QED BY <3>4, <4>1, <4>2 DEF BackTypeOK, CommitDelete, Goto
    <3>5. CASE Refresh(r)
      <4>1. dirty' \in SUBSET Oid
        BY <3>5, OidPushAssumption DEF BackTypeOK, Refresh
      <4>2. CASE End(r)
        BY <3>5, <4>1, <4>2, EndType DEF BackTypeOK, Refresh
      <4>3. CASE ~End(r)
        <5> PICK o \in touched[r] : loaded' = [loaded EXCEPT ![r][o] = Read(o)]
          BY <3>5, <4>3 DEF Refresh
        <5>1. loaded' \in [Req -> [Oid -> Row]]
          BY LoadedType
        <5>2. /\ overlap' = [overlap EXCEPT ![r] = {}] /\ Goto(r, "select")
              /\ UNCHANGED <<db, redis, linkUp, kind, touched, val, seen, held, snap, started>>
          BY <3>5, <4>3 DEF Refresh
        <5>3. QED BY <4>1, <5>1, <5>2 DEF BackTypeOK, Goto
      <4>4. QED BY <4>2, <4>3
    <3>6. CASE PushSelect(r)
      <4>1. snap' \in [Req -> Rows]
        BY <3>6 DEF BackTypeOK, PushSelect
      <4>2. QED BY <3>6, <4>1 DEF BackTypeOK, PushSelect, Goto
    <3>7. CASE LinkCommit(r)
      BY <3>7, EndType DEF BackTypeOK, LinkCommit
    <3>8. QED
      BY <2>2, <3>1, <3>2, <3>3, <3>4, <3>5, <3>6, <3>7 DEF DbStep
  <2>3. ASSUME NEW r \in Req, PushExec(r) PROVE BackTypeOK'
    <3>1. redis' \in Table /\ dirty' \in SUBSET Oid
      BY <2>3 DEF BackTypeOK, PushExec, PushWith, PushedOrDone
    <3>2. CASE kind[r] = "start"
      BY <2>3, <3>1, <3>2, EndType DEF BackTypeOK, PushExec, PushWith, PushedOrDone
    <3>3. CASE kind[r] # "start"
      BY <2>3, <3>1, <3>3 DEF BackTypeOK, PushExec, PushWith, PushedOrDone, Goto
    <3>4. QED BY <3>2, <3>3
  <2>4. ASSUME NEW r \in Req, HDel(r) PROVE BackTypeOK'
    BY <2>4 DEF BackTypeOK, HDel, Goto
  <2>5. ASSUME NEW r \in Req, Notify(r) PROVE BackTypeOK'
    BY <2>5, EndType DEF BackTypeOK, Notify
  <2>6. ASSUME NEW r \in Req, StartContainer(r) PROVE BackTypeOK'
    BY <2>6 DEF BackTypeOK, StartContainer, Goto
  <2>7. ASSUME NEW r \in Req, SyncInterfaces(r) PROVE BackTypeOK'
    BY <2>7, OidPushAssumption DEF BackTypeOK, SyncInterfaces, LinkStatus, Goto
  <2>8. ASSUME NEW r \in Req, Abort(r) PROVE BackTypeOK'
    BY <2>8, EndType DEF BackTypeOK, Abort
  <2>9. CASE UNCHANGED backVars
    BY <2>9 DEF BackTypeOK, backVars
  <2>10. QED
    BY <2>1, <2>2, <2>3, <2>4, <2>5, <2>6, <2>7, <2>8, <2>9 DEF BackNext, Advance
<1>3. QED
  BY <1>1, <1>2, PTL DEF BackSpec

-----------------------------------------------------------------------------
USE DEF BackInv, RedisKeysNumeric, HeldTouched, LoadedCurrent, HeldCurrent,
        SnapCurrent, RemovedGone, DivergenceExplained, Stale

LEMMA BackInvInit == BackInit => BackInv
  BY OidPushAssumption DEF BackInit

(* The step leaves every other handler where it was. *)
Alone(r) ==
  \A q \in Req \ {r} :
    /\ pc'[q] = pc[q] /\ kind'[q] = kind[q] /\ touched'[q] = touched[q]
    /\ val'[q] = val[q] /\ seen'[q] = seen[q] /\ held'[q] = held[q]
    /\ loaded'[q] = loaded[q] /\ snap'[q] = snap[q] /\ overlap'[q] = overlap[q]

(* What the handler itself must satisfy afterwards. *)
OwnHeld(r) ==
  /\ held'[r] \subseteq touched'[r]
  /\ kind'[r] = "upsert" => \E o \in Oid : touched'[r] = {o}
  /\ pc'[r] = "refresh" => kind'[r] = "upsert"
  /\ pc'[r] \in {"idle", "container"} => held'[r] = {}

OwnReads(r) ==
  \A o \in Oid :
    /\ pc'[r] = "idle" => seen'[r][o] = "unread" /\ o \notin overlap'[r]
    /\ seen'[r][o] = "row" => db[o] # Absent
    /\ pc'[r] \in {"lookup", "commit"} =>
         /\ o \in overlap'[r] => seen'[r][o] \in {"row", "gone"}
         /\ seen'[r][o] = "row" /\ o \notin overlap'[r] => loaded'[r][o] = db[o]
    /\ pc'[r] = "select" /\ o \in held'[r] /\ seen'[r][o] = "row"
         /\ o \notin overlap'[r] => loaded'[r][o] = db[o]
    /\ pc'[r] = "exec" /\ o \notin overlap'[r] => snap'[r][o] = db[o]
    /\ pc'[r] # "hdel"

LEMMA EndAlone ==
  ASSUME BackTypeOK, NEW r \in Req, End(r)
  PROVE  Alone(r) /\ OwnHeld(r) /\ OwnReads(r)
  BY DEF BackTypeOK, End, Goto, Alone, OwnHeld, OwnReads

(* A step of one handler that writes neither the database nor Redis keeps   *)
(* the invariant when its own reads are current and, if it gives up a Redis *)
(* write, it has accounted for it in dirty.                                 *)
LEMMA LocalStep ==
  ASSUME BackTypeOK, BackInv, NEW r \in Req, UNCHANGED <<db, redis>>,
         dirty \subseteq dirty', Alone(r), OwnHeld(r), OwnReads(r),
         \/ pc[r] \notin Unpushed
         \/ pc'[r] \in Unpushed /\ touched'[r] = touched[r]
         \/ touched[r] \cap Numeric \subseteq dirty'
  PROVE  BackInv'
<1>1. RedisKeysNumeric'
  OBVIOUS
<1>2. HeldTouched'
  BY DEF Alone, OwnHeld
<1>3. LoadedCurrent' /\ HeldCurrent' /\ SnapCurrent' /\ RemovedGone'
  BY DEF Alone, OwnReads
<1>4. DivergenceExplained'
  <2> SUFFICES ASSUME NEW o \in Numeric, redis[o] # db[o], o \notin dirty'
               PROVE  \E q \in Req : pc'[q] \in Unpushed /\ o \in touched'[q]
    OBVIOUS
  <2>1. PICK q \in Req : pc[q] \in Unpushed /\ o \in touched[q]
    OBVIOUS
  <2>2. CASE q = r
    BY <2>1, <2>2
  <2>3. CASE q # r
    BY <2>1, <2>3 DEF Alone
  <2>4. QED BY <2>2, <2>3
<1>5. QED BY <1>1, <1>2, <1>3, <1>4

LEMMA ArriveStep ==
  ASSUME BackTypeOK, BackInv, NEW r \in Req, Arrive(r)
  PROVE  BackInv'
<1>1. UNCHANGED <<db, redis, dirty>> /\ pc[r] \notin Unpushed
  BY DEF Arrive, BeginUpsert, BeginBulk, BeginSeed, BeginBulkDevices, BeginDelete, BeginStart,
         BeginLink, Begin
<1>2. Alone(r)
  BY DEF BackTypeOK, Arrive, BeginUpsert, BeginBulk, BeginSeed, BeginBulkDevices, BeginDelete,
         BeginStart, BeginLink, Begin, Goto, Alone
<1>3. OwnReads(r)
  BY DEF BackTypeOK, Arrive, BeginUpsert, BeginBulk, BeginSeed, BeginBulkDevices, BeginDelete,
         BeginStart, BeginLink, Begin, Goto, OwnReads
<1>4. OwnHeld(r)
  <2>1. held'[r] = {} /\ pc'[r] # "refresh"
    BY DEF BackTypeOK, Arrive, BeginUpsert, BeginBulk, BeginSeed, BeginBulkDevices, BeginDelete,
           BeginStart, BeginLink, Begin, Goto
  <2>2. kind'[r] = "upsert" => \E o \in Oid : touched'[r] = {o}
    <3>1. CASE BeginUpsert(r)
      BY <3>1, OidPushAssumption DEF BackTypeOK, BeginUpsert
    <3>2. CASE ~BeginUpsert(r)
      BY <3>2 DEF BackTypeOK, Arrive, BeginBulk, BeginSeed, BeginBulkDevices, BeginDelete,
                  BeginStart, BeginLink, Begin
    <3>3. QED BY <3>1, <3>2
  <2>3. QED BY <2>1, <2>2 DEF OwnHeld
<1>5. QED BY <1>1, <1>2, <1>3, <1>4, LocalStep

LEMMA LookupStep ==
  ASSUME BackTypeOK, BackInv, NEW r \in Req, Lookup(r)
  PROVE  BackInv'
<1>1. UNCHANGED <<db, redis, dirty>> /\ pc[r] \notin Unpushed
  BY DEF Lookup
<1>2. CASE End(r)
  BY <1>1, <1>2, EndAlone, LocalStep
<1>3. CASE ~End(r)
  <2>1. Alone(r)
    BY <1>3 DEF BackTypeOK, Lookup, Goto, Alone
  <2>2. /\ pc'[r] \in {"lookup", "commit"}
        /\ UNCHANGED <<kind, touched, held>>
    BY <1>3 DEF BackTypeOK, Lookup, Goto
  <2>3. OwnHeld(r)
    BY <2>2 DEF OwnHeld
  <2>4. OwnReads(r)
    <3>1. PICK o \in touched[r] :
            /\ seen[r][o] = "unread" /\ UNCHANGED overlap
            /\ seen' = [seen EXCEPT ![r][o] = IF db[o] = Absent THEN "none" ELSE "row"]
            /\ loaded' = [loaded EXCEPT ![r][o] = Read(o)]
      BY <1>3 DEF Lookup
    <3>2. o \in Oid /\ pc[r] = "lookup" /\ overlap'[r] = overlap[r]
      BY <3>1 DEF BackTypeOK, Lookup
    <3>3. /\ seen'[r][o] = IF db[o] = Absent THEN "none" ELSE "row"
          /\ loaded'[r][o] = Read(o)
          /\ \A x \in Oid \ {o} : seen'[r][x] = seen[r][x] /\ loaded'[r][x] = loaded[r][x]
      BY <3>1, <3>2 DEF BackTypeOK
    <3>4. QED BY <2>2, <3>1, <3>2, <3>3 DEF OwnReads, Read
  <2>5. QED BY <1>1, <2>1, <2>3, <2>4, LocalStep
<1>4. QED BY <1>2, <1>3

LEMMA RefreshStep ==
  ASSUME BackTypeOK, BackInv, NEW r \in Req, Refresh(r)
  PROVE  BackInv'
<1>1. UNCHANGED <<db, redis>> /\ dirty \subseteq dirty' /\ kind[r] = "upsert"
  BY DEF Refresh
<1>2. PICK o \in Oid : touched[r] = {o}
  BY <1>1
<1>3. CASE seen[r][o] # "row"
  <2>1. End(r) /\ touched[r] \cap Numeric \subseteq dirty'
    BY <1>2, <1>3 DEF Refresh
  <2>2. QED BY <1>1, <2>1, EndAlone, LocalStep
<1>4. CASE seen[r][o] = "row"
  <2>1. /\ loaded' = [loaded EXCEPT ![r][o] = Read(o)]
        /\ overlap' = [overlap EXCEPT ![r] = {}]
        /\ pc' = [pc EXCEPT ![r] = "select"]
        /\ UNCHANGED <<kind, touched, val, seen, held, snap, dirty>>
    BY <1>2, <1>4 DEF Refresh, Goto
  <2>2. Alone(r) /\ OwnHeld(r) /\ pc'[r] = "select" /\ loaded'[r][o] = db[o]
    BY <1>4, <2>1 DEF BackTypeOK, Alone, OwnHeld, Read
  <2>3. held'[r] \subseteq {o}
    BY <1>2, <2>1
  <2>4. OwnReads(r)
    <3>1. seen'[r] = seen[r]
      BY <2>1
    <3>2. QED BY <1>1, <2>2, <2>3, <3>1 DEF OwnReads
  <2>5. QED BY <1>1, <2>1, <2>2, <2>4, LocalStep
<1>5. QED BY <1>3, <1>4

LEMMA SelectStep ==
  ASSUME BackTypeOK, BackInv, NEW r \in Req, PushSelect(r)
  PROVE  BackInv'
<1>1. UNCHANGED <<db, redis, dirty, kind, touched, val, seen, loaded, held>>
  BY DEF PushSelect
<1>2. Alone(r) /\ OwnHeld(r)
  BY DEF BackTypeOK, PushSelect, Goto, Alone, OwnHeld
<1>3. /\ pc'[r] = "exec" /\ pc[r] = "select"
      /\ snap'[r] = [o \in Oid |-> IF Stale(r, o) THEN loaded[r][o] ELSE db[o]]
      /\ overlap'[r] = {o \in overlap[r] : Stale(r, o)}
  BY DEF BackTypeOK, PushSelect, Goto
<1>4. OwnReads(r)
  <2>1. seen'[r] = seen[r] /\ loaded'[r] = loaded[r] /\ db' = db
    BY <1>1
  <2>2. QED BY <1>3, <2>1 DEF OwnReads
<1>5. QED BY <1>1, <1>2, <1>3, <1>4, LocalStep

(* Commits: the rows change, and every handler that may still write what it *)
(* read before is told so in overlap.                                       *)
LEMMA CommitStep ==
  ASSUME BackTypeOK, BackInv, NEW r \in Req, Commit(r)
  PROVE  BackInv'
<1>1. /\ pc[r] = "commit" /\ UNCHANGED <<redis, dirty, kind, touched, val, snap>>
      /\ db' = [o \in Oid |-> IF o \in touched[r] THEN Written(r, o) ELSE db[o]]
  BY DEF Commit
<1>2. /\ pc'[r] \in {"refresh", "select"}
      /\ pc'[r] = "refresh" => kind[r] = "upsert"
      /\ overlap'[r] = {o \in overlap[r] : Changed(r, o) # Col}
      /\ held'[r] \subseteq touched[r]
      /\ \A o \in touched[r] : loaded'[r][o] = Applied(r, o)
      /\ \A o \in Oid \ touched[r] : seen'[r][o] = seen[r][o]
  BY DEF BackTypeOK, Commit, Goto, Overtake, LastRecord
<1>3. \A q \in Req \ {r} :
        /\ pc'[q] = pc[q] /\ held'[q] = held[q] /\ seen'[q] = seen[q]
        /\ loaded'[q] = loaded[q]
        /\ overlap'[q] = overlap[q] \cup (IF pc[q] \in Unpushed THEN touched[r]
                                        ELSE {o \in touched[r] : seen[q][o] = "row"})
  BY DEF BackTypeOK, Commit, Goto, Overtake, LastRecord
<1>10. touched[r] \subseteq Oid /\ \A o \in touched[r] : db'[o] # Absent
  BY <1>1, WrittenIsRow, RowIsPresent DEF BackTypeOK
<1>11. LoadedCurrent'
  <2> SUFFICES ASSUME NEW q \in Req, NEW o \in Oid
               PROVE  /\ pc'[q] = "idle" => seen'[q][o] = "unread" /\ o \notin overlap'[q]
                      /\ seen'[q][o] = "row" => db'[o] # Absent
                      /\ pc'[q] \in {"lookup", "commit"} =>
                           /\ o \in overlap'[q] => seen'[q][o] \in {"row", "gone"}
                           /\ seen'[q][o] = "row" /\ o \notin overlap'[q]
                                => loaded'[q][o] = db'[o]
    OBVIOUS
  <2>1. CASE q = r
    BY <1>1, <1>2, <1>10, <2>1
  <2>2. CASE q # r
    <3>1. seen'[q] = seen[q] /\ loaded'[q] = loaded[q] /\ pc'[q] = pc[q]
      BY <1>3, <2>2
    <3>2. o \notin touched[r] => db'[o] = db[o]
      BY <1>1
    <3>3. CASE pc[q] \in Unpushed
      BY <1>10, <3>1, <3>2, <3>3
    <3>4. CASE pc[q] \notin Unpushed
      <4>1. overlap'[q] = overlap[q] \cup {x \in touched[r] : seen[q][x] = "row"}
        BY <1>3, <2>2, <3>4
      <4>2. QED BY <1>10, <3>1, <3>2, <4>1
    <3>5. QED BY <3>3, <3>4
  <2>3. QED BY <2>1, <2>2
<1>4. RedisKeysNumeric'
  BY <1>1
<1>5. HeldTouched'
  BY <1>1, <1>2, <1>3
<1>6. HeldCurrent'
  <2> SUFFICES ASSUME NEW q \in Req, NEW o \in Oid, pc'[q] = "select",
                      o \in held'[q], seen'[q][o] = "row", o \notin overlap'[q]
               PROVE  loaded'[q][o] = db'[o]
    BY <1>1
  <2>1. CASE q = r
    <3>1. o \in touched[r] /\ CanCommit(r)
      BY <1>2, <2>1 DEF Commit
    <3>2. Changed(r, o) = Col \/ loaded[r][o] = Read(o)
      <4>1. CASE seen[r][o] = "none"
        BY <4>1 DEF Changed
      <4>2. CASE seen[r][o] = "row" /\ o \notin overlap[r]
        BY <1>1, <4>2 DEF Read
      <4>3. QED BY <1>2, <2>1, <3>1, <4>1, <4>2 DEF CanCommit
    <3>3. Written(r, o) = Applied(r, o)
      BY <3>2, WrittenIsApplied
    <3>4. QED BY <1>1, <1>2, <2>1, <3>1, <3>3
  <2>2. CASE q # r
    BY <1>1, <1>3, <2>2
  <2>3. QED BY <2>1, <2>2
<1>7. SnapCurrent' /\ RemovedGone'
  BY <1>1, <1>2, <1>3
<1>8. DivergenceExplained'
  <2> SUFFICES ASSUME NEW o \in Numeric, redis[o] # db'[o], o \notin dirty
               PROVE  \E q \in Req : pc'[q] \in Unpushed /\ o \in touched[q]
    BY <1>1
  <2>1. CASE o \in touched[r]
    BY <1>2, <2>1
  <2>2. CASE o \notin touched[r]
    <3>1. redis[o] # db[o]
      BY <1>1, <2>2, OidPushAssumption
    <3>2. PICK q \in Req : pc[q] \in Unpushed /\ o \in touched[q]
      BY <3>1
    <3>3. pc'[q] = pc[q]
      BY <1>1, <1>3, <3>2
    <3>4. QED BY <3>2, <3>3
  <2>3. QED BY <2>1, <2>2
<1>9. QED BY <1>4, <1>5, <1>6, <1>7, <1>8, <1>11

LEMMA CommitDeleteStep ==
  ASSUME BackTypeOK, BackInv, NEW r \in Req, CommitDelete(r)
  PROVE  BackInv'
<1> DEFINE hit == {o \in touched[r] : seen[r][o] = "row"}
<1>1. /\ pc[r] = "commit" /\ kind[r] = "delete"
      /\ UNCHANGED <<redis, dirty, kind, touched, val, loaded, held, snap>>
      /\ db' = [o \in Oid |-> IF o \in hit THEN Absent ELSE db[o]]
  BY DEF CommitDelete
<1>2. pc'[r] = "hdel" /\ overlap'[r] = touched[r] \ hit
  BY DEF BackTypeOK, CommitDelete, Goto, Overtake
<1>9. \A q \in Req, o \in Oid :
        seen'[q][o] = IF o \in hit /\ seen[q][o] = "row" THEN "gone" ELSE seen[q][o]
  BY DEF CommitDelete
<1>3. \A q \in Req \ {r} :
        /\ pc'[q] = pc[q]
        /\ \A o \in Oid : seen'[q][o] = "row" => seen[q][o] = "row"
        /\ overlap'[q] = overlap[q] \cup (IF pc[q] \in Unpushed THEN hit
                                        ELSE {o \in hit : seen[q][o] = "row"})
  BY <1>9 DEF BackTypeOK, CommitDelete, Goto, Overtake
<1>10. LoadedCurrent'
  BY <1>1, <1>2, <1>3, <1>9
<1>4. RedisKeysNumeric' /\ HeldTouched'
  BY <1>1, <1>2, <1>3
<1>5. HeldCurrent'
  BY <1>1, <1>2, <1>3
<1>6. SnapCurrent' /\ RemovedGone'
  BY <1>1, <1>2, <1>3
<1>7. DivergenceExplained'
  <2> SUFFICES ASSUME NEW o \in Numeric, redis[o] # db'[o], o \notin dirty
               PROVE  \E q \in Req : pc'[q] \in Unpushed /\ o \in touched[q]
    BY <1>1
  <2>1. CASE o \in hit
    BY <1>2, <2>1
  <2>2. CASE o \notin hit
    <3>1. redis[o] # db[o]
      BY <1>1, <2>2, OidPushAssumption
    <3>2. PICK q \in Req : pc[q] \in Unpushed /\ o \in touched[q]
      BY <3>1
    <3>3. pc'[q] = pc[q]
      BY <1>1, <1>3, <3>2
    <3>4. QED BY <3>2, <3>3
  <2>3. QED BY <2>1, <2>2
<1>8. QED BY <1>4, <1>5, <1>6, <1>7, <1>10

LEMMA ExecStep ==
  ASSUME BackTypeOK, BackInv, NEW r \in Req, PushExec(r)
  PROVE  BackInv'
<1>1. /\ pc[r] = "exec" /\ UNCHANGED db
      /\ redis' = [o \in Oid |-> IF o \in Numeric THEN snap[r][o] ELSE Absent]
      /\ dirty' = overlap[r] \cap Numeric
  BY DEF PushExec, PushWith
<1>2. Alone(r) /\ OwnHeld(r) /\ OwnReads(r)
  <2>1. CASE End(r)
    BY <2>1, EndAlone
  <2>2. CASE ~End(r)
    <3>1. /\ pc' = [pc EXCEPT ![r] = "notify"]
          /\ UNCHANGED <<kind, touched, val, seen, loaded, held, snap, overlap>>
      BY <2>2 DEF PushExec, PushedOrDone, Goto
    <3>2. pc'[r] = "notify"
      BY <3>1 DEF BackTypeOK
    <3>3. QED BY <3>1, <3>2 DEF BackTypeOK, Alone, OwnHeld, OwnReads
  <2>3. QED BY <2>1, <2>2
<1>3. RedisKeysNumeric' /\ HeldTouched'
  BY <1>1, <1>2 DEF Alone, OwnHeld
<1>4. LoadedCurrent' /\ HeldCurrent' /\ SnapCurrent' /\ RemovedGone'
  BY <1>1, <1>2 DEF Alone, OwnReads
<1>5. DivergenceExplained'
  BY <1>1, OidPushAssumption
<1>6. QED BY <1>3, <1>4, <1>5

LEMMA HDelStep ==
  ASSUME BackTypeOK, BackInv, NEW r \in Req, HDel(r)
  PROVE  BackInv'
<1>1. /\ pc[r] = "hdel" /\ pc' = [pc EXCEPT ![r] = "notify"]
      /\ UNCHANGED <<db, kind, touched, val, seen, loaded, held, snap, overlap>>
      /\ redis' = [o \in Oid |-> IF o \in touched[r] THEN Absent ELSE redis[o]]
      /\ dirty' = (dirty \ touched[r]) \cup (overlap[r] \cap touched[r] \cap Numeric)
  BY DEF HDel, Goto
<1>2. \A q \in Req : pc'[q] = IF q = r THEN "notify" ELSE pc[q]
  BY <1>1 DEF BackTypeOK
<1>3. RedisKeysNumeric' /\ HeldTouched'
  BY <1>1, <1>2
<1>4. LoadedCurrent' /\ HeldCurrent' /\ SnapCurrent' /\ RemovedGone'
  BY <1>1, <1>2
<1>5. DivergenceExplained'
  <2> SUFFICES ASSUME NEW o \in Numeric, redis'[o] # db[o], o \notin dirty'
               PROVE  \E q \in Req : pc'[q] \in Unpushed /\ o \in touched[q]
    BY <1>1
  <2>1. o \notin touched[r]
    BY <1>1, OidPushAssumption
  <2>2. redis[o] # db[o] /\ o \notin dirty
    BY <1>1, <2>1, OidPushAssumption
  <2>3. PICK q \in Req : pc[q] \in Unpushed /\ o \in touched[q]
    BY <2>2
  <2>4. QED BY <1>2, <2>1, <2>3
<1>6. QED BY <1>3, <1>4, <1>5

LEMMA SyncStep ==
  ASSUME BackTypeOK, BackInv, NEW r \in Req, SyncInterfaces(r)
  PROVE  BackInv'
<1>1. /\ pc[r] = "sync" /\ pc' = [pc EXCEPT ![r] = "link_commit"]
      /\ UNCHANGED <<db, kind, touched, val, seen, loaded, held, snap, overlap>>
      /\ \A o \in Oid \ IfOid : redis'[o] = redis[o]
      /\ dirty' = dirty \cup IfOid
  BY DEF SyncInterfaces, Goto
<1>2. \A q \in Req : pc'[q] = IF q = r THEN "link_commit" ELSE pc[q]
  BY <1>1 DEF BackTypeOK
<1>3. RedisKeysNumeric' /\ HeldTouched'
  BY <1>1, <1>2, OidPushAssumption
<1>4. LoadedCurrent' /\ HeldCurrent' /\ SnapCurrent' /\ RemovedGone'
  BY <1>1, <1>2
<1>5. DivergenceExplained'
  <2> SUFFICES ASSUME NEW o \in Numeric, redis'[o] # db[o], o \notin dirty'
               PROVE  \E q \in Req : pc'[q] \in Unpushed /\ o \in touched[q]
    BY <1>1
  <2>1. redis[o] # db[o] /\ o \notin dirty
    BY <1>1, OidPushAssumption
  <2>2. PICK q \in Req : pc[q] \in Unpushed /\ o \in touched[q]
    BY <2>1
  <2>3. QED BY <1>1, <1>2, <2>2
<1>6. QED BY <1>3, <1>4, <1>5

(* The handlers' last steps, and the steps of an error. *)
LEMMA QuietStep ==
  ASSUME BackTypeOK, BackInv, NEW r \in Req,
         \/ CommitConflict(r) \/ LinkCommit(r) \/ Notify(r) \/ Abort(r)
         \/ StartContainer(r)
  PROVE  BackInv'
<1>1. CASE CommitConflict(r) \/ LinkCommit(r) \/ Notify(r)
  <2>1. End(r) /\ UNCHANGED <<db, redis, dirty>> /\ pc[r] \notin Unpushed
    BY <1>1 DEF CommitConflict, LinkCommit, Notify
  <2>2. QED BY <2>1, EndAlone, LocalStep
<1>2. CASE Abort(r)
  <2>1. /\ End(r) /\ UNCHANGED <<db, redis>> /\ dirty \subseteq dirty'
        /\ pc[r] \in Unpushed => touched[r] \cap Numeric \subseteq dirty'
    BY <1>2 DEF Abort
  <2>2. QED BY <2>1, EndAlone, LocalStep
<1>3. CASE StartContainer(r)
  <2>1. /\ pc[r] = "container" /\ pc'[r] = "select" /\ held'[r] = {}
        /\ UNCHANGED <<db, redis, dirty, kind, touched>>
    BY <1>3 DEF BackTypeOK, StartContainer, Goto
  <2>2. Alone(r) /\ OwnHeld(r) /\ OwnReads(r)
    BY <1>3, <2>1 DEF BackTypeOK, StartContainer, Goto, Alone, OwnHeld, OwnReads
  <2>3. QED BY <2>1, <2>2, LocalStep
<1>4. QED BY <1>1, <1>2, <1>3

LEMMA BackInvStep == BackTypeOK /\ BackInv /\ [BackNext]_backVars => BackInv'
<1> SUFFICES ASSUME BackTypeOK, BackInv, [BackNext]_backVars PROVE BackInv'
  OBVIOUS
<1>1. ASSUME NEW r \in Req, Arrive(r) PROVE BackInv'
  BY <1>1, ArriveStep
<1>2. ASSUME NEW r \in Req, DbStep(r) PROVE BackInv'
  BY <1>2, LookupStep, CommitStep, CommitDeleteStep, RefreshStep, SelectStep,
     QuietStep DEF DbStep
<1>3. ASSUME NEW r \in Req, Advance(r), ~DbStep(r) PROVE BackInv'
  BY <1>3, ExecStep, HDelStep, SyncStep, QuietStep DEF Advance
<1>4. ASSUME NEW r \in Req, Abort(r) PROVE BackInv'
  BY <1>4, QuietStep
<1>5. CASE UNCHANGED backVars
  BY <1>5 DEF backVars
<1>6. QED
  BY <1>1, <1>2, <1>3, <1>4, <1>5 DEF BackNext, Advance

(* Redis and the committed rows only diverge where a handler still has its *)
(* write to make or a write went wrong, for any number of requests, OIDs   *)
(* and contents: the invariant DivergenceExplained.                        *)
THEOREM DivergenceAlwaysExplained == BackSpec => []DivergenceExplained
<1>1. BackInv => DivergenceExplained
  OBVIOUS
<1>2. QED
  BY <1>1, BackInvInit, BackInvStep, BackTypeCorrect, PTL DEF BackSpec

(* No symbolic OID ever reaches the hash: the invariant RedisKeysNumeric.  *)
THEOREM RedisAlwaysNumeric == BackSpec => []RedisKeysNumeric
<1>1. BackInv => RedisKeysNumeric
  OBVIOUS
<1>2. QED
  BY <1>1, BackInvInit, BackInvStep, BackTypeCorrect, PTL DEF BackSpec

HIDE DEF Rows, Table, NoRows, Unread, Blanks, PC, Handlers, Unpushed

-----------------------------------------------------------------------------
(* The pipeline.                                                           *)

LEMMA HandlerAdvances ==
  ASSUME NEW r \in Req, Handler(r) \/ Fail(r)
  PROVE  Arrive(r) \/ Advance(r) \/ Abort(r)
  BY DEF Handler, Database, Push, Remove, Announce, Start, SyncLink, Fail, Advance

(* The pipeline's backend half is OidPush: what is proved of it holds here. *)
THEOREM BackendRefined == Spec => BackSpec
<1>1. Init => BackInit
  BY DEF Init
<1>2. [Next]_vars => [BackNext]_backVars
  <2> SUFFICES ASSUME [Next]_vars PROVE [BackNext]_backVars
    OBVIOUS
  <2>1. CASE \E r \in Req : Handler(r) \/ Fail(r)
    BY <2>1, HandlerAdvances DEF BackNext
  <2>2. CASE Stop \/ AgentStep \/ AgentFault \/ UNCHANGED vars
    BY <2>2 DEF Stop, AgentStep, AgentFault, vars
  <2>3. QED BY <2>1, <2>2 DEF Next
<1>3. QED BY <1>1, <1>2, PTL DEF Spec, BackSpec

LEMMA SilentIsFlag == Spec => [](silent \in BOOLEAN)
<1>1. Init => silent \in BOOLEAN
  BY DEF Init
<1>2. silent \in BOOLEAN /\ [Next]_vars => (silent \in BOOLEAN)'
  BY DEF Next, Handler, Database, Push, Remove, Announce, Start, SyncLink, Fail, Unannounced,
         Stop, AgentStep, AgentFault, vars, agentSide, Agent!Deliver, Agent!Boot,
         Agent!StopAgent, Agent!Listener, Agent!HGetAll, Agent!Swap, Agent!Subscribe,
         Agent!Message, Agent!AgentFault, Agent!HGetAllFails, Agent!ConnectionLost
<1>3. QED BY <1>1, <1>2, PTL DEF Spec
-----------------------------------------------------------------------------
(* The handlers as a backend.                                              *)

\* A step of r that leaves it outside "notify" owes nothing new.
LEMMA NothingOwed ==
  ASSUME NEW r \in Req, pc[r] # "notify", pc' = [pc EXCEPT ![r] = pc'[r]],
         pc'[r] # "notify", pc \in [Req -> PC]
  PROVE  Announcing' = Announcing
  BY DEF Announcing

LEMMA NowOwed ==
  ASSUME NEW r \in Req, pc[r] # "notify", pc' = [pc EXCEPT ![r] = "notify"],
         pc \in [Req -> PC]
  PROVE  r \notin Announcing /\ Announcing' = Announcing \cup {r}
  BY DEF Announcing

LEMMA NoLongerOwed ==
  ASSUME NEW r \in Req, pc[r] = "notify", pc' = [pc EXCEPT ![r] = "idle"],
         pc \in [Req -> PC]
  PROVE  r \in Announcing /\ Announcing' = Announcing \ {r}
  BY DEF Announcing

\* A request that arrives, and a step of the database's, owe nothing.
LEMMA DatabaseOwesNothing ==
  ASSUME BackTypeOK, NEW r \in Req, Arrive(r) \/ DbStep(r)
  PROVE  Announcing' = Announcing /\ redis' = redis
<1>1. ASSUME Arrive(r) PROVE Announcing' = Announcing /\ redis' = redis
  <2> DEFINE Opened(l) == pc[r] = "idle" /\ redis' = redis /\ pc' = [pc EXCEPT ![r] = l]
  <2>1. \E l \in {"lookup", "commit", "container", "sync"} : Opened(l)
    <3>1. CASE BeginUpsert(r) \/ BeginDelete(r)
      BY <3>1 DEF BeginUpsert, BeginDelete, Begin, Goto
    <3>2. CASE BeginBulk(r)
      <4> PICK items \in SUBSET Oid \ {{}} :
             Begin(r, "bulk", IF items \cap Numeric = {} THEN "commit" ELSE "lookup")
        BY <3>2 DEF BeginBulk
      <4> QED BY DEF Begin, Goto
    <3>3. CASE BeginSeed(r) \/ BeginBulkDevices(r)
      <4>1. Begin(r, "seed", "lookup")
        BY <3>3 DEF BeginSeed, BeginBulkDevices
      <4>2. QED BY <4>1 DEF Begin, Goto
    <3>4. CASE BeginStart(r) \/ BeginLink(r)
      BY <3>4 DEF BeginStart, BeginLink, Begin, Goto
    <3>5. QED BY <1>1, <3>1, <3>2, <3>3, <3>4 DEF Arrive
  <2>2. QED BY <2>1, NothingOwed DEF BackTypeOK
<1>2. ASSUME DbStep(r) PROVE Announcing' = Announcing /\ redis' = redis
  <2>1. redis' = redis /\ pc[r] \in {"lookup", "commit", "refresh", "select", "link_commit"}
    BY <1>2 DEF DbStep, Lookup, Commit, CommitConflict, CommitDelete, Refresh, PushSelect,
                LinkCommit
  <2>2. pc' = pc \/ \E l \in {"idle", "commit", "refresh", "select", "exec", "hdel"} :
                      pc' = [pc EXCEPT ![r] = l]
    <3>1. CASE Lookup(r)
      BY <3>1 DEF Lookup, End, Goto
    <3>2. CASE Commit(r)
      BY <3>2 DEF Commit, Goto
    <3>3. CASE CommitConflict(r) \/ LinkCommit(r)
      BY <3>3 DEF CommitConflict, LinkCommit, End, Goto
    <3>4. CASE CommitDelete(r) \/ PushSelect(r)
      BY <3>4 DEF CommitDelete, PushSelect, Goto
    <3>5. CASE Refresh(r)
      BY <3>5 DEF Refresh, End, Goto
    <3>6. QED BY <1>2, <3>1, <3>2, <3>3, <3>4, <3>5 DEF DbStep
  <2>3. CASE pc' = pc
    BY <2>1, <2>3 DEF Announcing
  <2>4. CASE pc' # pc
    <3>1. PICK l \in {"idle", "commit", "refresh", "select", "exec", "hdel"} :
                      pc' = [pc EXCEPT ![r] = l]
      BY <2>2, <2>4
    <3>2. QED BY <2>1, <3>1, NothingOwed DEF BackTypeOK
  <2>5. QED BY <2>3, <2>4
<1>3. QED BY <1>1, <1>2

\* The hash of the one is the table of the other.
LEMMA SameHashes == Agent!Hashes = Table
<1>1. (Row \cup {Up, Down}) \cup {Absent} = Row \cup {Absent, Up, Down}
  OBVIOUS
<1>2. QED BY <1>1 DEF Agent!Hashes, Table

LEMMA QuietWrite ==
  ASSUME BackTypeOK', Unannounced, Announcing' = Announcing
  PROVE  Agent!SilentWrite
<1>1. redis' \in Agent!Hashes
  BY SameHashes DEF BackTypeOK
<1>2. Agent!Rewrite(redis')
  BY DEF Agent!Rewrite, Unannounced
<1>3. silent' = (silent \/ redis' # redis)
  BY DEF Unannounced
<1>4. QED BY <1>1, <1>2, <1>3 DEF Agent!SilentWrite

LEMMA ToldWrite ==
  ASSUME BackTypeOK', UNCHANGED agentSide, NEW r \in Req,
         r \notin Announcing, Announcing' = Announcing \cup {r}
  PROVE  Agent!AnnouncedWrite(r)
<1>1. redis' \in Agent!Hashes
  BY SameHashes DEF BackTypeOK
<1>2. Agent!Rewrite(redis') /\ UNCHANGED silent
  BY DEF Agent!Rewrite, agentSide
<1>3. QED BY <1>1, <1>2 DEF Agent!AnnouncedWrite

LEMMA StepRefined ==
  ASSUME BackTypeOK, BackTypeOK', silent \in BOOLEAN, [Next]_vars
  PROVE  [Agent!StoreNext]_(Agent!storeVars)
<1>1. ASSUME NEW r \in Req, Database(r) PROVE UNCHANGED Agent!storeVars
  BY <1>1, DatabaseOwesNothing DEF Database, agentSide, Agent!storeVars, Agent!agentVars
<1>2. ASSUME NEW r \in Req, Push(r) PROVE Agent!Backend
  <2>1. pc[r] = "exec" /\ pc \in [Req -> PC]
    BY <1>2 DEF Push, PushExec, PushWith, BackTypeOK
  <2>2. CASE kind[r] = "start"
    <3>1. Unannounced /\ pc' = [pc EXCEPT ![r] = "idle"]
      BY <1>2, <2>2 DEF Push, PushExec, PushedOrDone, End, Goto
    <3>2. Announcing' = Announcing
      BY <2>1, <3>1, NothingOwed
    <3>3. QED BY <3>1, <3>2, QuietWrite DEF Agent!Backend
  <2>3. CASE kind[r] # "start"
    <3>1. UNCHANGED agentSide /\ pc' = [pc EXCEPT ![r] = "notify"]
      BY <1>2, <2>3 DEF Push, PushExec, PushedOrDone, Goto
    <3>2. r \notin Announcing /\ Announcing' = Announcing \cup {r}
      BY <2>1, <3>1, NowOwed
    <3>3. QED BY <3>1, <3>2, ToldWrite DEF Agent!Backend
  <2>4. QED BY <2>2, <2>3
<1>3. ASSUME NEW r \in Req, Remove(r) PROVE Agent!Backend
  <2>1. /\ pc[r] = "hdel" /\ pc \in [Req -> PC] /\ UNCHANGED agentSide
        /\ pc' = [pc EXCEPT ![r] = "notify"]
    BY <1>3 DEF Remove, HDel, Goto, BackTypeOK
  <2>2. r \notin Announcing /\ Announcing' = Announcing \cup {r}
    BY <2>1, NowOwed
  <2>3. QED BY <2>1, <2>2, ToldWrite DEF Agent!Backend
<1>4. ASSUME NEW r \in Req, Announce(r) PROVE Agent!Backend
  <2>1. /\ pc[r] = "notify" /\ pc \in [Req -> PC] /\ pc' = [pc EXCEPT ![r] = "idle"]
        /\ Agent!Deliver /\ UNCHANGED <<redis, phase, subscribed, fetched, cache>>
    BY <1>4 DEF Announce, Notify, End, Goto, BackTypeOK
  <2>2. r \in Announcing /\ Announcing' = Announcing \ {r}
    BY <2>1, NoLongerOwed
  <2>3. Agent!Publish(r)
    BY <2>1, <2>2 DEF Agent!Publish
  <2>4. QED BY <2>3 DEF Agent!Backend
<1>5. ASSUME NEW r \in Req, Start(r) PROVE Agent!StartAgent
  <2>1. /\ pc[r] = "container" /\ pc \in [Req -> PC] /\ pc' = [pc EXCEPT ![r] = "select"]
        /\ Agent!Boot /\ redis' = redis
    BY <1>5 DEF Start, StartContainer, Goto, BackTypeOK
  <2>2. Announcing' = Announcing
    BY <2>1, NothingOwed
  <2>3. QED BY <2>1, <2>2 DEF Agent!StartAgent
<1>6. ASSUME NEW r \in Req, SyncLink(r) PROVE Agent!Backend
  <2>1. /\ pc[r] = "sync" /\ pc \in [Req -> PC] /\ Unannounced
        /\ pc' = [pc EXCEPT ![r] = "link_commit"]
    BY <1>6 DEF SyncLink, SyncInterfaces, Goto, BackTypeOK
  <2>2. Announcing' = Announcing
    BY <2>1, NothingOwed
  <2>3. QED BY <2>1, <2>2, QuietWrite DEF Agent!Backend
<1>7. ASSUME NEW r \in Req, Fail(r) PROVE Agent!Backend \/ UNCHANGED Agent!storeVars
  <2>1. /\ Faults /\ pc' = [pc EXCEPT ![r] = "idle"] /\ pc \in [Req -> PC]
        /\ UNCHANGED <<redis, phase, subscribed, inbox, fetched, cache>>
    BY <1>7 DEF Fail, Abort, End, Goto, BackTypeOK
  <2>2. CASE pc[r] = "notify"
    <3>1. r \in Announcing /\ Announcing' = Announcing \ {r}
      BY <2>1, <2>2, NoLongerOwed
    <3>2. silent' = TRUE
      BY <1>7, <2>2 DEF Fail
    <3>3. Agent!Renege(r)
      BY <2>1, <3>1, <3>2 DEF Agent!Renege
    <3>4. QED BY <3>3 DEF Agent!Backend
  <2>3. CASE pc[r] # "notify"
    <3>1. Announcing' = Announcing
      BY <2>1, <2>3, NothingOwed
    <3>2. silent' = silent
      BY <1>7, <2>3 DEF Fail
    <3>3. QED BY <2>1, <3>1, <3>2 DEF Agent!storeVars, Agent!agentVars
  <2>4. QED BY <2>2, <2>3
<1>8. ASSUME UNCHANGED backVars PROVE UNCHANGED <<redis, Announcing>>
  BY <1>8 DEF backVars, Announcing
<1>9. CASE Stop
  BY <1>9 DEF Stop, Agent!StopAgent, Agent!StoreNext
<1>10. CASE AgentStep
  BY <1>10 DEF AgentStep, Agent!StoreNext
<1>11. CASE AgentFault
  BY <1>11 DEF AgentFault, Agent!StoreNext
<1>12. CASE UNCHANGED vars
  BY <1>8, <1>12 DEF vars, agentSide, Agent!storeVars, Agent!agentVars
<1>13. QED
  BY <1>1, <1>2, <1>3, <1>4, <1>5, <1>6, <1>7, <1>9, <1>10, <1>11, <1>12
     DEF Next, Handler, Agent!StoreNext

(* The handlers, with their effect on the agent, implement the backend and *)
(* agent of MibStore.                                                      *)
THEOREM PipelineImplementsMibStore == Spec => AgentSpec
<1>1. Init => Agent!StoreInit
  <2> SUFFICES ASSUME Init PROVE Agent!StoreInit
    OBVIOUS
  <2>2. redis = Agent!Empty /\ pc = [r \in Req |-> "idle"]
    BY DEF Init, BackInit, Agent!Empty, NoRows
  <2>3. Announcing = {}
    BY <2>2 DEF Announcing
  <2>4. fetched = Agent!Empty /\ cache = Agent!Empty
    BY DEF Init, Agent!Empty, NoRows
  <2>5. QED BY <2>2, <2>3, <2>4 DEF Init, Agent!StoreInit
<1>2. BackTypeOK /\ BackTypeOK' /\ silent \in BOOLEAN /\ [Next]_vars
        => [Agent!StoreNext]_(Agent!storeVars)
  BY StepRefined
<1>3. QED
  BY <1>1, <1>2, BackendRefined, BackTypeCorrect, SilentIsFlag, PTL
     DEF Spec, AgentSpec, Agent!StoreSpec

LEMMA StoreAssumption ==
  /\ Numeric \subseteq Oid /\ Absent \notin Row \cup {Up, Down}
  /\ TRUE \in BOOLEAN /\ Faults \in BOOLEAN /\ MaxOps \in Nat
  BY OidPushAssumption, RowIsPresent

(* The agent of MibStore is proved about once, against any backend.        *)
AgentProofs == INSTANCE MibStoreProofs WITH
  Writer <- Req, Key <- Oid, Sortable <- Numeric,
  Entry <- Row \cup {Up, Down}, Missing <- Absent,
  Quietly <- TRUE, MaxInbox <- MaxOps,
  hash <- redis, owed <- Announcing

(* Two instances of one module: each definition is the other's.            *)
LEMMA SameAgent ==
  /\ AgentSpec => AgentProofs!StoreSpec
  /\ AgentProofs!StaleOnlyIfTold => Agent!StaleOnlyIfTold
<1> USE DEF Agent!Empty, AgentProofs!Empty, Agent!Loaded, AgentProofs!Loaded,
        Agent!Boot, AgentProofs!Boot, Agent!Deliver, AgentProofs!Deliver
<1>1. Agent!StoreInit => AgentProofs!StoreInit
  BY DEF Agent!StoreInit, AgentProofs!StoreInit
<1>2. Agent!Backend => AgentProofs!Backend
  <2>1. Agent!SilentWrite => AgentProofs!SilentWrite
    BY Zenon DEF Agent!SilentWrite, AgentProofs!SilentWrite, Agent!Rewrite,
                 AgentProofs!Rewrite, Agent!Hashes, AgentProofs!Hashes
  <2>2. ASSUME NEW r \in Req
        PROVE  /\ Agent!AnnouncedWrite(r) => AgentProofs!AnnouncedWrite(r)
               /\ Agent!Publish(r) => AgentProofs!Publish(r)
               /\ Agent!Renege(r) => AgentProofs!Renege(r)
    BY Zenon DEF Agent!AnnouncedWrite, AgentProofs!AnnouncedWrite, Agent!Publish,
                 AgentProofs!Publish, Agent!Renege, AgentProofs!Renege, Agent!Rewrite,
                 AgentProofs!Rewrite, Agent!Hashes, AgentProofs!Hashes
  <2>3. QED BY <2>1, <2>2 DEF Agent!Backend, AgentProofs!Backend
<1>3. Agent!StartAgent \/ Agent!StopAgent => AgentProofs!StartAgent \/ AgentProofs!StopAgent
  BY Zenon DEF Agent!StartAgent, AgentProofs!StartAgent, Agent!StopAgent,
               AgentProofs!StopAgent
<1>4. Agent!Listener => AgentProofs!Listener
  BY Zenon DEF Agent!Listener, AgentProofs!Listener, Agent!HGetAll, AgentProofs!HGetAll,
               Agent!Swap, AgentProofs!Swap, Agent!Subscribe, AgentProofs!Subscribe,
               Agent!Message, AgentProofs!Message
<1>5. Agent!AgentFault => AgentProofs!AgentFault
  BY Zenon DEF Agent!AgentFault, AgentProofs!AgentFault, Agent!HGetAllFails,
               AgentProofs!HGetAllFails, Agent!ConnectionLost,
               AgentProofs!ConnectionLost
<1>6. UNCHANGED Agent!storeVars => UNCHANGED AgentProofs!storeVars
  BY Zenon DEF Agent!storeVars, AgentProofs!storeVars, Agent!agentVars,
               AgentProofs!agentVars
<1>7. [Agent!StoreNext]_(Agent!storeVars) => [AgentProofs!StoreNext]_(AgentProofs!storeVars)
  BY <1>2, <1>3, <1>4, <1>5, <1>6 DEF Agent!StoreNext, AgentProofs!StoreNext
<1>8. AgentProofs!StaleOnlyIfTold => Agent!StaleOnlyIfTold
  BY DEF Agent!StaleOnlyIfTold, AgentProofs!StaleOnlyIfTold, Agent!View, AgentProofs!View
<1>9. AgentSpec => AgentProofs!StoreSpec
  BY <1>1, <1>7, PTL DEF AgentSpec, Agent!StoreSpec, AgentProofs!StoreSpec
<1>10. QED BY <1>8, <1>9

(* With no request in flight and no message unread a running agent serves  *)
(* the committed row of every OID, unless a push was overtaken or a change *)
(* was never announced: the backend's explanation of every difference      *)
(* between Redis and the rows, and the agent's of every difference between *)
(* its cache and Redis, leave nothing else.                                *)
THEOREM AlwaysServesCommitted == Spec => []ServesCommitted
<1>1. AgentSpec => []Agent!StaleOnlyIfTold
  <2>1. AgentProofs!StoreSpec => []AgentProofs!StaleOnlyIfTold
    BY AgentProofs!StaleAlwaysTold, StoreAssumption
  <2>2. QED BY <2>1, SameAgent, PTL
<1>2. DivergenceExplained /\ Agent!StaleOnlyIfTold => ServesCommitted
  <2> SUFFICES ASSUME DivergenceExplained, Agent!StaleOnlyIfTold, Quiet, phase = "listen",
                      inbox = 0, ~silent, NEW o \in Numeric \ dirty
               PROVE  cache[o] = db[o]
    BY DEF ServesCommitted
  <2>1. Announcing = {}
    BY DEF Announcing, Quiet
  <2>2. cache = Agent!Loaded(redis)
    BY <2>1 DEF Agent!StaleOnlyIfTold, Agent!View
  <2>3. cache[o] = redis[o]
    BY <2>2, OidPushAssumption DEF Agent!Loaded
  <2>4. redis[o] = db[o]
    BY DEF DivergenceExplained, Quiet, Unpushed
  <2>5. QED BY <2>3, <2>4
<1>3. QED
  BY <1>1, <1>2, PipelineImplementsMibStore, BackendRefined, DivergenceAlwaysExplained, PTL
=============================================================================
