------------------------------- MODULE OidPush -------------------------------
(***************************************************************************)
(* The backend half of WebNetLab's OID pipeline, for one device: the       *)
(* request handlers that change OID rows in PostgreSQL and copy them into  *)
(* the Redis hash device:{id}:oids.  The handlers are coroutines of one    *)
(* asyncio loop: another handler runs only at an await, so one action is   *)
(* the code between two awaits that touch shared state.                    *)
(*                                                                         *)
(* A row is what its columns hold.  The session reads it at its lookup and *)
(* its UPDATE names only the columns whose value has changed since.  dirty *)
(* and overlap are history variables: no guard reads them.                 *)
(***************************************************************************)
EXTENDS Naturals, FiniteSets

CONSTANTS
  Req,       \* handler activations (one per HTTP request in flight)
  Oid,       \* OID strings
  Numeric,   \* those is_numeric_oid accepts
  IfOid,     \* the ifAdminStatus / ifOperStatus columns of the device
  Col,       \* columns of an oid_values row that a request sets
  Val, Null, \* what a request sets them to; what an unset column holds
  Absent,    \* no row, or no field in the hash
  Up, Down,  \* the payloads sync_interface_oids writes
  Kinds,     \* which handlers this instance runs
  Faults,    \* may an await raise (database, Redis or Docker error)?
  MaxOps     \* bound: handlers started in one behaviour

Handlers == {"upsert", "bulk", "seed", "delete", "start", "link"}

ASSUME OidPushAssumption ==
  /\ Numeric \subseteq Oid
  /\ IfOid \subseteq Numeric
  /\ {Absent, Up, Down} \cap [Col -> Val \cup {Null}] = {}
  /\ Absent \notin {Up, Down}
  /\ Kinds \subseteq Handlers
  /\ Faults \in BOOLEAN
  /\ MaxOps \in Nat

VARIABLES
  db,       \* committed oid_values rows of the device
  redis,    \* HGETALL device:{id}:oids
  linkUp,   \* does a committed topology link end on the device?
  pc,       \* where each handler is suspended
  kind,     \* which handler it is
  touched,  \* OIDs it writes or deletes
  val,      \* the columns its payload sets
  seen,     \* what _get_oid_record told its session about each row
  loaded,   \* what the session's records hold
  held,     \* the record its local variable keeps in the identity map
  snap,     \* rows its push has selected
  overlap,  \* OIDs other handlers committed behind this handler's reads
  dirty,    \* OIDs whose Redis field was last written from such reads
  started   \* handlers started so far

backVars == <<db, redis, linkUp, pc, kind, touched, val, seen, loaded, held, snap,
              overlap, dirty, started>>

Row      == [Col -> Val \cup {Null}]
Blank    == [c \in Col |-> Null]
Payload  == UNION {[C -> Val] : C \in SUBSET Col}
NoColumn == [c \in {} |-> Null]
Rows     == [Oid -> Row \cup {Absent}]
Table    == [Oid -> Row \cup {Absent, Up, Down}]
NoRows   == [o \in Oid |-> Absent]
Blanks   == [o \in Oid |-> Blank]
Unread   == [o \in Oid |-> "unread"]

PC == {"idle", "lookup", "commit", "refresh", "select", "exec", "hdel",
       "notify", "container", "sync", "link_commit"}

\* The handler has committed its rows and not yet copied them to Redis.
Unpushed == {"refresh", "select", "exec", "hdel"}

BackInit ==
  /\ db = NoRows /\ redis = NoRows /\ linkUp = FALSE
  /\ pc = [r \in Req |-> "idle"]
  /\ kind = [r \in Req |-> "none"]
  /\ touched = [r \in Req |-> {}]
  /\ val = [r \in Req |-> NoColumn]
  /\ seen = [r \in Req |-> Unread]
  /\ loaded = [r \in Req |-> Blanks]
  /\ held = [r \in Req |-> {}]
  /\ snap = [r \in Req |-> NoRows]
  /\ overlap = [r \in Req |-> {}]
  /\ dirty = {} /\ started = 0

Goto(r, label) == pc' = [pc EXCEPT ![r] = label]

\* The handler returns or raises: its session and locals are gone.
End(r) ==
  /\ Goto(r, "idle")
  /\ kind' = [kind EXCEPT ![r] = "none"]
  /\ touched' = [touched EXCEPT ![r] = {}]
  /\ val' = [val EXCEPT ![r] = NoColumn]
  /\ seen' = [seen EXCEPT ![r] = Unread]
  /\ loaded' = [loaded EXCEPT ![r] = Blanks]
  /\ held' = [held EXCEPT ![r] = {}]
  /\ snap' = [snap EXCEPT ![r] = NoRows]
  /\ overlap' = [overlap EXCEPT ![r] = {}]

-----------------------------------------------------------------------------
(* Arrival of a request.                                                   *)

Begin(r, k, label) ==
  /\ k \in Kinds /\ pc[r] = "idle" /\ started < MaxOps
  /\ started' = started + 1
  /\ kind' = [kind EXCEPT ![r] = k]
  /\ Goto(r, label)
  /\ UNCHANGED <<db, redis, linkUp, seen, loaded, held, snap, overlap, dirty>>

\* PUT .../oids/{oid} answers 422 unless the OID is numeric.
BeginUpsert(r) ==
  \E o \in Numeric, v \in Payload :
    /\ Begin(r, "upsert", "lookup")
    /\ touched' = [touched EXCEPT ![r] = {o}]
    /\ val' = [val EXCEPT ![r] = v]

\* POST .../oids/bulk skips the non-numeric items.
BeginBulk(r) ==
  \E items \in SUBSET Oid \ {{}}, v \in Payload :
    /\ Begin(r, "bulk", IF items \cap Numeric = {} THEN "commit" ELSE "lookup")
    /\ touched' = [touched EXCEPT ![r] = items \cap Numeric]
    /\ val' = [val EXCEPT ![r] = v]

\* POST .../seed with a walk or a JSON export: no OID check.  An export sets
\* every column, to null where it has none.
BeginSeed(r) ==
  \E items \in SUBSET Oid \ {{}}, v \in Payload \cup Row :
    /\ Begin(r, "seed", "lookup")
    /\ touched' = [touched EXCEPT ![r] = items]
    /\ val' = [val EXCEPT ![r] = v]

\* POST /devices/bulk-oids, what it does to one of its devices: one OID, not
\* checked either; the commit and the push are those of a seed.
BeginBulkDevices(r) ==
  \E o \in Oid, v \in Row :
    /\ Begin(r, "seed", "lookup")
    /\ touched' = [touched EXCEPT ![r] = {o}]
    /\ val' = [val EXCEPT ![r] = v]

BeginDelete(r) ==
  \E o \in Oid :
    /\ Begin(r, "delete", "lookup")
    /\ touched' = [touched EXCEPT ![r] = {o}]
    /\ UNCHANGED val

\* POST /devices/{id}/start and /restart.
BeginStart(r) == Begin(r, "start", "container") /\ UNCHANGED <<touched, val>>

\* Creating or deleting the one link modelled; the two never overlap.
BeginLink(r) ==
  /\ \A q \in Req : kind[q] # "link"
  /\ Begin(r, "link", "sync")
  /\ UNCHANGED <<touched, val>>

-----------------------------------------------------------------------------
(* Reading and committing rows.                                            *)

\* What a record holds of the row of o; a new one, of no row.
Read(o) == IF db[o] = Absent THEN Blank ELSE db[o]

\* One SELECT of _get_oid_record; DELETE answers 404 when there is no row.
Lookup(r) ==
  /\ pc[r] = "lookup"
  /\ \E o \in touched[r] :
       /\ seen[r][o] = "unread"
       /\ IF kind[r] = "delete" /\ db[o] = Absent
            THEN End(r)
            ELSE /\ seen' = [seen EXCEPT ![r][o] =
                                IF db[o] = Absent THEN "none" ELSE "row"]
                 /\ loaded' = [loaded EXCEPT ![r][o] = Read(o)]
                 /\ IF \A x \in touched[r] \ {o} : seen[r][x] # "unread"
                      THEN Goto(r, "commit") ELSE UNCHANGED pc
                 /\ UNCHANGED <<kind, touched, val, held, snap, overlap>>
  /\ UNCHANGED <<db, redis, linkUp, dirty, started>>

\* UPDATE needs the row that was read (updated_at is always among what it
\* sets), INSERT that there is still none (uq_device_oid).
CanCommit(r) ==
  \A o \in touched[r] :
    \/ seen[r][o] = "row"
    \/ seen[r][o] = "none" /\ db[o] = Absent

\* Only the loop's last record stays strongly referenced.
LastRecord(S) == IF S = {} THEN {{}} ELSE {{o} : o \in S}

\* A commit of W overtakes what other sessions have read of these rows and
\* not yet written to Redis; the committing handler is left with `own`.
Overtake(r, W, own) ==
  overlap' = [q \in Req |->
                IF q = r THEN own
                ELSE IF pc[q] \in Unpushed THEN overlap[q] \cup W
                ELSE overlap[q] \cup {o \in W : seen[q][o] = "row"}]

\* The record with the payload set on it, and the row that its INSERT or
\* UPDATE leaves: an UPDATE sets only the columns that differ from what was
\* loaded.
Applied(r, o) ==
  [c \in Col |-> IF c \in DOMAIN val[r] THEN val[r][c] ELSE loaded[r][o][c]]
Changed(r, o) == {c \in Col : seen[r][o] = "none" \/ Applied(r, o)[c] # loaded[r][o][c]}
Written(r, o) ==
  [c \in Col |-> IF c \in Changed(r, o) THEN Applied(r, o)[c] ELSE Read(o)[c]]

Commit(r) ==
  /\ pc[r] = "commit" /\ kind[r] # "delete" /\ CanCommit(r)
  /\ db' = [o \in Oid |-> IF o \in touched[r] THEN Written(r, o) ELSE db[o]]
  /\ loaded' = [loaded EXCEPT ![r] =
                  [o \in Oid |-> IF o \in touched[r] THEN Applied(r, o) ELSE loaded[r][o]]]
  /\ seen' = [seen EXCEPT ![r] =
                [o \in Oid |-> IF o \in touched[r] THEN "row" ELSE seen[r][o]]]
  /\ \E h \in LastRecord(touched[r]) : held' = [held EXCEPT ![r] = h]
  /\ Overtake(r, touched[r], {o \in overlap[r] : Changed(r, o) # Col})
  /\ Goto(r, IF kind[r] = "upsert" THEN "refresh" ELSE "select")
  /\ UNCHANGED <<redis, linkUp, kind, touched, val, snap, dirty, started>>

\* IntegrityError or StaleDataError: 500, nothing was written.
CommitConflict(r) ==
  /\ pc[r] = "commit" /\ kind[r] # "delete" /\ ~CanCommit(r)
  /\ End(r)
  /\ UNCHANGED <<db, redis, linkUp, dirty, started>>

\* DELETE by primary key: a row somebody else has deleted matches nothing and
\* the handler goes on all the same.
CommitDeleteNoHdel(r) ==   \* mutant: the Redis field is forgotten
  /\ pc[r] = "commit" /\ kind[r] = "delete"
  /\ db' = [o \in Oid |-> IF o \in touched[r] /\ seen[r][o] = "row" THEN Absent
                          ELSE db[o]]
  /\ Goto(r, "notify")
  /\ UNCHANGED <<redis, linkUp, kind, touched, val, seen, loaded, held, snap, overlap,
                 dirty, started>>

CommitDelete(r) ==
  /\ pc[r] = "commit" /\ kind[r] = "delete"
  /\ LET hit == {o \in touched[r] : seen[r][o] = "row"} IN
       /\ db' = [o \in Oid |-> IF o \in hit THEN Absent ELSE db[o]]
       /\ seen' = [q \in Req |-> [o \in Oid |->
                     IF o \in hit /\ seen[q][o] = "row" THEN "gone"
                     ELSE seen[q][o]]]
       /\ Overtake(r, hit, touched[r] \ hit)
  /\ Goto(r, "hdel")
  /\ UNCHANGED <<redis, linkUp, kind, touched, val, loaded, held, snap, dirty, started>>

\* await db.refresh(record): re-reads the row, and raises if it has gone.
Refresh(r) ==
  /\ pc[r] = "refresh"
  /\ \E o \in touched[r] :
       IF seen[r][o] = "row"
         THEN /\ loaded' = [loaded EXCEPT ![r][o] = Read(o)]
              /\ overlap' = [overlap EXCEPT ![r] = {}]
              /\ Goto(r, "select")
              /\ UNCHANGED <<kind, touched, val, seen, held, snap, dirty>>
         ELSE /\ End(r)
              /\ dirty' = dirty \cup (touched[r] \cap Numeric)
  /\ UNCHANGED <<db, redis, linkUp, started>>

-----------------------------------------------------------------------------
(* push_device_oids, delete_oid's HDEL, notify_device_update.              *)

\* With expire_on_commit=False the SELECT does not overwrite a record the
\* session still holds.
Stale(r, o) == o \in held[r] /\ seen[r][o] = "row"

PushSelect(r) ==
  /\ pc[r] = "select"
  /\ snap' = [snap EXCEPT ![r] =
                [o \in Oid |-> IF Stale(r, o) THEN loaded[r][o] ELSE db[o]]]
  /\ overlap' = [overlap EXCEPT ![r] = {o \in overlap[r] : Stale(r, o)}]
  /\ Goto(r, "exec")
  /\ UNCHANGED <<db, redis, linkUp, kind, touched, val, seen, loaded, held, dirty,
                 started>>

PushWith(r, h) ==
  /\ pc[r] = "exec"
  /\ redis' = h
  /\ dirty' = overlap[r] \cap Numeric
  /\ UNCHANGED <<db, linkUp, started>>

PushedOrDone(r) ==
  IF kind[r] = "start"
    THEN End(r)
    ELSE Goto(r, "notify") /\ UNCHANGED <<kind, touched, val, seen, loaded, held, snap, overlap>>

PushExecUntold(r) ==       \* mutant: no handler publishes after its push
  /\ PushWith(r, [o \in Oid |-> IF o \in Numeric THEN snap[r][o] ELSE Absent])
  /\ End(r)

PushExecUnfiltered(r) ==   \* mutant: no is_numeric_oid test
  PushWith(r, snap[r]) /\ PushedOrDone(r)

PushExec(r) ==
  /\ PushWith(r, [o \in Oid |-> IF o \in Numeric THEN snap[r][o] ELSE Absent])
  /\ PushedOrDone(r)

HDel(r) ==
  /\ pc[r] = "hdel"
  /\ redis' = [o \in Oid |-> IF o \in touched[r] THEN Absent ELSE redis[o]]
  /\ dirty' = (dirty \ touched[r]) \cup (overlap[r] \cap touched[r] \cap Numeric)
  /\ Goto(r, "notify")
  /\ UNCHANGED <<db, linkUp, kind, touched, val, seen, loaded, held, snap, overlap,
                 started>>

\* PUBLISH device:{id}:updates, then the handler returns.
Notify(r) ==
  /\ pc[r] = "notify"
  /\ End(r)
  /\ UNCHANGED <<db, redis, linkUp, dirty, started>>

\* _start_container has (re)created the agent; the push follows.
StartContainer(r) ==
  /\ pc[r] = "container"
  /\ Goto(r, "select")
  /\ UNCHANGED <<db, redis, linkUp, kind, touched, val, seen, loaded, held, snap,
                 overlap, dirty, started>>

-----------------------------------------------------------------------------
(* sync_interface_oids inside provision_link / teardown_link.              *)

LinkStatusNull(up) == IF up THEN Up ELSE Null   \* mutant: none for a link that is down

LinkStatus(up) == IF up THEN Up ELSE Down

\* Written before the link row is committed, and never published.
SyncInterfaces(r) ==
  /\ pc[r] = "sync"
  /\ redis' = [o \in Oid |-> IF o \in IfOid THEN LinkStatus(~linkUp) ELSE redis[o]]
  /\ dirty' = dirty \cup IfOid
  /\ Goto(r, "link_commit")
  /\ UNCHANGED <<db, linkUp, kind, touched, val, seen, loaded, held, snap, overlap,
                 started>>

LinkCommit(r) ==
  /\ pc[r] = "link_commit"
  /\ linkUp' = ~linkUp
  /\ End(r)
  /\ UNCHANGED <<db, redis, dirty, started>>

-----------------------------------------------------------------------------
\* The awaited call raises, or the backend stops: what is done stays done.
Abort(r) ==
  /\ Faults /\ pc[r] # "idle"
  /\ dirty' = IF pc[r] \in Unpushed THEN dirty \cup (touched[r] \cap Numeric)
              ELSE dirty
  /\ End(r)
  /\ UNCHANGED <<db, redis, linkUp, started>>

Arrive(r) ==
  \/ BeginUpsert(r) \/ BeginBulk(r) \/ BeginSeed(r) \/ BeginBulkDevices(r)
  \/ BeginDelete(r) \/ BeginStart(r) \/ BeginLink(r)

\* Steps that neither write Redis nor publish nor touch the container.
DbStep(r) ==
  \/ Lookup(r) \/ Commit(r) \/ CommitConflict(r) \/ CommitDelete(r)
  \/ Refresh(r) \/ PushSelect(r) \/ LinkCommit(r)

Advance(r) ==
  \/ DbStep(r) \/ PushExec(r) \/ HDel(r) \/ Notify(r)
  \/ StartContainer(r) \/ SyncInterfaces(r)

BackNext == \E r \in Req : Arrive(r) \/ Advance(r) \/ Abort(r)

BackSpec == BackInit /\ [][BackNext]_backVars

-----------------------------------------------------------------------------
BackTypeOK ==
  /\ db \in Rows /\ redis \in Table /\ linkUp \in BOOLEAN
  /\ pc \in [Req -> PC]
  /\ kind \in [Req -> Handlers \cup {"none"}]
  /\ touched \in [Req -> SUBSET Oid]
  /\ val \in [Req -> Payload \cup Row]
  /\ seen \in [Req -> [Oid -> {"unread", "none", "row", "gone"}]]
  /\ loaded \in [Req -> [Oid -> Row]]
  /\ held \in [Req -> SUBSET Oid]
  /\ snap \in [Req -> Rows]
  /\ overlap \in [Req -> SUBSET Oid]
  /\ dirty \in SUBSET Oid
  /\ started \in Nat

\* No handler ever puts a symbolic name into the hash the agent sorts
\* numerically, although some of them store such names as rows: the filter of
\* push_device_oids is the only one on the seed and bulk-oids paths.
RedisKeysNumeric == \A o \in Oid \ Numeric : redis[o] = Absent

\* Where Redis disagrees with the committed rows, either the handler that
\* committed the OID still has its Redis write ahead of it, or the field was
\* written from reads another handler's commit had overtaken (before this
\* handler's own commit, when that left a column as it had read it, or since),
\* by a link sync, or lost to an error: there is no other way to diverge.
DivergenceExplained ==
  \A o \in Numeric :
    redis[o] # db[o] =>
      \/ o \in dirty
      \/ \E r \in Req : pc[r] \in Unpushed /\ o \in touched[r]

\* What carries DivergenceExplained through a push: whatever a handler has
\* read and nobody has committed since is still the database's.
HeldTouched ==
  \A r \in Req :
    /\ held[r] \subseteq touched[r]
    /\ kind[r] = "upsert" => \E o \in Oid : touched[r] = {o}
    /\ pc[r] = "refresh" => kind[r] = "upsert"
    /\ pc[r] \in {"idle", "container"} => held[r] = {}

\* A record read and not deleted since is a row's; before the handler's commit
\* it holds what the row does unless that was overtaken.
LoadedCurrent ==
  \A r \in Req, o \in Oid :
    /\ pc[r] = "idle" => seen[r][o] = "unread" /\ o \notin overlap[r]
    /\ seen[r][o] = "row" => db[o] # Absent
    /\ pc[r] \in {"lookup", "commit"} =>
         /\ o \in overlap[r] => seen[r][o] \in {"row", "gone"}
         /\ seen[r][o] = "row" /\ o \notin overlap[r] => loaded[r][o] = db[o]

HeldCurrent ==
  \A r \in Req, o \in Oid :
    pc[r] = "select" /\ Stale(r, o) /\ o \notin overlap[r] => loaded[r][o] = db[o]

SnapCurrent ==
  \A r \in Req, o \in Oid :
    pc[r] = "exec" /\ o \notin overlap[r] => snap[r][o] = db[o]

RemovedGone ==
  \A r \in Req, o \in Oid :
    pc[r] = "hdel" /\ o \in touched[r] \ overlap[r] => db[o] = Absent

\* The inductive invariant behind DivergenceExplained: reads nobody has
\* overtaken are current, for the row a session holds, for a selected
\* snapshot and for a deleted row.
BackInv ==
  /\ RedisKeysNumeric /\ HeldTouched /\ LoadedCurrent /\ HeldCurrent /\ SnapCurrent
  /\ RemovedGone /\ DivergenceExplained

Quiet == \A r \in Req : pc[r] = "idle"

\* "updates a single OID config and immediately pushes the update to Redis":
\* with no request in flight Redis holds the committed rows.
QuietAgree == Quiet => \A o \in Numeric : redis[o] = db[o]
=============================================================================
