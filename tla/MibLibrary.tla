----------------------------- MODULE MibLibrary -----------------------------
(***************************************************************************)
(* The MIB library (routers/mibs.py, services/mib_service.py): MIB files   *)
(* and OID sidecars in the directory MIB_STORE, rows of mibs and           *)
(* device_mibs, and DELETE /devices/{id} with the rows that name a device: *)
(* MIB assignments, OID values and links.                                  *)
(* The file, the compilation and the sidecar are written in one step, as   *)
(* nothing is awaited between them; the row follows two awaits later.      *)
(*                                                                         *)
(* met, unsure, spoiled, crossed, tied, failed, stripped and alone are     *)
(* history.                                                                *)
(***************************************************************************)
EXTENDS Naturals, FiniteSets

CONSTANTS
  Req,          \* request slots
  File,         \* file names
  Name,         \* MIB names
  Stem,         \* the MIB name of a file name
  Content,      \* file contents
  Good,         \* those that compile
  Defining,     \* those that define an OID
  Needs,        \* the MIBs each imports that pysmi does not bring along
  Dev,          \* devices
  Oid,          \* OIDs a device may have a value of
  None,
  MaxRequests,  \* bound: requests
  MaxFaults     \* bound: requests whose awaited call raises

ASSUME MibLibraryAssumption ==
  /\ Stem \in [File -> Name] /\ Good \subseteq Content /\ Defining \subseteq Content
  /\ Needs \in [Content -> SUBSET Name]
  /\ None \notin Content /\ MaxRequests \in Nat /\ MaxFaults \in Nat
  /\ None \notin [id : Nat, name : Name, filename : File, raw : Content]

VARIABLES
  files,     \* MIB_STORE: the contents of each file
  trees,     \* the contents each sidecar was extracted from
  mibs,      \* committed rows [id, name, filename, raw]
  assigned,  \* committed rows <<mib id, device>> of device_mibs
  devs,      \* committed rows of devices
  values,    \* committed rows <<OID, device>> of oid_values
  linked,    \* devices that a committed row of topology_links names
  job,       \* the request in each slot
  count, faults,
  met,       \* names of which two uploads were under way at once
  unsure,    \* names whose sidecar was last written by such an upload, or by
             \* one that failed after it
  spoiled,   \* names whose last upload was refused
  crossed,   \* devices that were assigned a MIB, had one taken, or got an OID
             \* or a link, while a DELETE of the device was at work
  tied,      \* devices a link named when their DELETE set to work
  failed,    \* devices whose DELETE the database failed under
  stripped   \* devices whose DELETE failed after it had removed the container

store == <<files, trees>>
tables == <<mibs, assigned, devs, values, linked>>
deletes == <<crossed, tied, failed, stripped>>
history == <<met, unsure, spoiled, deletes>>
libVars == <<store, tables, job, count, faults, history>>

Idle == [kind |-> "idle", pc |-> "-", file |-> None, raw |-> None, row |-> None,
         mib |-> 0, dev |-> None, wiped |-> {}, gone |-> {}, seen |-> {}, alone |-> TRUE]

LibInit ==
  /\ files = [f \in File |-> None] /\ trees = [n \in Name |-> None]
  /\ mibs = {} /\ assigned = {} /\ devs = Dev /\ values = {} /\ linked = {}
  /\ job = [r \in Req |-> Idle] /\ count = 0 /\ faults = 0
  /\ met = {} /\ unsure = {} /\ spoiled = {}
  /\ crossed = {} /\ tied = {} /\ failed = {} /\ stripped = {}

Arrives(r) == job[r] = Idle /\ count < MaxRequests /\ count' = count + 1
Goes(r, j) == job' = [job EXCEPT ![r] = j]
Ends(r)    == Goes(r, Idle)
At(r, kind, pc) == job[r].kind = kind /\ job[r].pc = pc

-----------------------------------------------------------------------------
(* Compilation.                                                            *)

\* pysmi looks for a module by its name: any file of the library with that
\* stem may be the one it reads.
Found(fs, n) == {fs[f] : f \in {g \in File : Stem[g] = n /\ fs[g] # None}}

\* The modules compiled with one: a set that holds all it imports.
Closed(fs, S) == \A n \in S : \A c \in Found(fs, n) : Needs[c] \subseteq S
Modules(fs, n) ==
  CHOOSE S \in SUBSET Name :
    /\ n \in S /\ Closed(fs, S)
    /\ \A R \in SUBSET Name : n \in R /\ Closed(fs, R) => S \subseteq R

CompilesAlone(fs, n, c) == c \in Good   \* mutant: the other modules are ignored

\* compile_mib of n, when it reads c for it: no module missing, none failing.
Compiles(fs, n, c) ==
  /\ c \in Good
  /\ \A m \in Modules(fs, n) \ {n} : Found(fs, m) # {} /\ Found(fs, m) \subseteq Good

\* parse_mib_file: only the MIB itself must define something.
Accepted(fs, n, c) == Compiles(fs, n, c) /\ c \in Defining

-----------------------------------------------------------------------------
(* POST /mibs/upload                                                       *)

Uploading(n) == {r \in Req : job[r].kind = "upload" /\ Stem[job[r].file] = n}

\* The file is written before it is compiled, and stays if that fails (422).
Upload(r) ==
  \E f \in File, c \in Content :
    LET n == Stem[f]
        fs == [files EXCEPT ![f] = c]
        alone == Uploading(n) = {} IN
    /\ Arrives(r) /\ files' = fs
    /\ \E read \in Found(fs, n) :
         IF Accepted(fs, n, read)
           THEN /\ trees' = [trees EXCEPT ![n] = read]
                /\ job' = [q \in Req |->
                     IF q = r THEN [Idle EXCEPT !.kind = "upload", !.pc = "select", !.file = f,
                                                !.raw = c, !.alone = alone]
                     ELSE IF q \in Uploading(n) THEN [job[q] EXCEPT !.alone = FALSE]
                     ELSE job[q]]
                /\ met' = IF alone THEN met ELSE met \cup {n}
                /\ unsure' = IF alone THEN unsure ELSE unsure \cup {n}
                /\ spoiled' = spoiled \ {n}
           ELSE spoiled' = spoiled \cup {n} /\ UNCHANGED <<trees, job, met, unsure>>
    /\ UNCHANGED <<tables, faults, deletes>>

\* mutant: the row is looked for by its file name
RowsForFile(f) == {m \in mibs : m.filename = f}
\* SELECT by name; first() of several is any of them.
RowsFor(f) == {m \in mibs : m.name = Stem[f]}

SelectMib(r) ==
  LET found == RowsFor(job[r].file) IN
  /\ At(r, "upload", "select")
  /\ \E m \in IF found = {} THEN {None} ELSE found :
       Goes(r, [job[r] EXCEPT !.pc = "commit", !.row = m])
  /\ UNCHANGED <<store, tables, count, faults, history>>

\* mutant: raw_content of an existing row is not written
WrittenName(m, j) == IF m.id # j.row.id THEN m ELSE [m EXCEPT !.filename = j.file]
\* mutant: the two columns are swapped
WrittenSwapped(m, j) ==
  IF m.id # j.row.id THEN m ELSE [m EXCEPT !.filename = j.raw, !.raw = j.file]

\* The UPDATE names the columns that differ from what was read.
Written(m, j) ==
  IF m.id # j.row.id THEN m
  ELSE [m EXCEPT !.filename = IF j.file = j.row.filename THEN @ ELSE j.file,
                 !.raw      = IF j.raw = j.row.raw THEN @ ELSE j.raw]

\* mibs.name is not unique: an insert always succeeds.
CommitMib(r) ==
  LET j == job[r]
      n == Stem[j.file] IN
  /\ At(r, "upload", "commit")
  /\ mibs' = IF j.row = None
               THEN mibs \cup {[id |-> Cardinality(mibs) + 1, name |-> n,
                                filename |-> j.file, raw |-> j.raw]}
               ELSE {Written(m, j) : m \in mibs}
  /\ Ends(r)
  /\ unsure' = IF j.alone THEN unsure \ {n} ELSE unsure
  /\ UNCHANGED <<store, assigned, devs, values, linked, count, faults, met, spoiled, deletes>>

-----------------------------------------------------------------------------
(* POST and DELETE /mibs/{id}/assign/{device}; DELETE /devices/{id}.        *)

Assign(r) ==
  \E m \in mibs, d \in Dev :
    /\ Arrives(r)
    /\ IF d \in devs
         THEN Goes(r, [Idle EXCEPT !.kind = "assign", !.pc = "check", !.mib = m.id, !.dev = d])
         ELSE UNCHANGED job                                        \* 404
    /\ UNCHANGED <<store, tables, faults, history>>

CheckAssigned(r) ==
  /\ At(r, "assign", "check")
  /\ IF <<job[r].mib, job[r].dev>> \in assigned
       THEN Ends(r)                                                \* 409
       ELSE Goes(r, [job[r] EXCEPT !.pc = "commit"])
  /\ UNCHANGED <<store, tables, count, faults, history>>

\* The deletes of d that are past its lookup: the container is gone, and from
\* the first statement on a transaction is open.
Inside(d) ==
  {r \in Req : job[r].kind = "delete" /\ job[r].dev = d /\ job[r].pc # "begin"}

\* A row that names d comes or goes.
Crosses(d) == crossed' = IF Inside(d) = {} THEN crossed ELSE crossed \cup {d}

\* The primary key and the foreign key; a row that an open transaction has
\* deleted is waited for.
CommitAssign(r) ==
  LET pair == <<job[r].mib, job[r].dev>> IN
  /\ At(r, "assign", "commit")
  /\ \A q \in Inside(pair[2]) : pair \notin job[q].gone
  /\ IF pair \in assigned \/ pair[2] \notin devs
       THEN UNCHANGED <<assigned, crossed>>                        \* 500
       ELSE assigned' = assigned \cup {pair} /\ Crosses(pair[2])
  /\ Ends(r)
  /\ UNCHANGED <<store, mibs, devs, values, linked, count, faults, met, unsure, spoiled,
                 tied, failed, stripped>>

Unassign(r) ==
  \E pair \in assigned :
    /\ Arrives(r) /\ UNCHANGED job
    /\ \A q \in Inside(pair[2]) : pair \notin job[q].gone
    /\ assigned' = assigned \ {pair} /\ Crosses(pair[2])
    /\ UNCHANGED <<store, mibs, devs, values, linked, faults, met, unsure, spoiled,
                   tied, failed, stripped>>

\* The commits elsewhere that add a row naming a device, or take one away: a PUT
\* or an import of an OID that has no row yet,...
PutOid(r) ==
  \E o \in Oid, d \in devs :
    /\ Arrives(r) /\ UNCHANGED job
    /\ <<o, d>> \notin values /\ values' = values \cup {<<o, d>>} /\ Crosses(d)
    /\ UNCHANGED <<store, mibs, assigned, devs, linked, faults, met, unsure, spoiled,
                   tied, failed, stripped>>

DeleteOid(r) ==
  \E pair \in values :
    /\ Arrives(r) /\ UNCHANGED job
    /\ \A q \in Inside(pair[2]) : pair \notin job[q].wiped
    /\ values' = values \ {pair}
    /\ UNCHANGED <<store, mibs, assigned, devs, linked, faults, history>>

\* ... and a link, or the last link, of it.
Link(r) ==
  \E d \in devs \ linked :
    /\ Arrives(r) /\ UNCHANGED job
    /\ linked' = linked \cup {d} /\ Crosses(d)
    /\ UNCHANGED <<store, mibs, assigned, devs, values, faults, met, unsure, spoiled,
                   tied, failed, stripped>>

Unlink(r) ==
  \E d \in linked :
    /\ Arrives(r) /\ UNCHANGED job
    /\ linked' = linked \ {d}
    /\ UNCHANGED <<store, mibs, assigned, devs, values, faults, history>>

DeleteDevice(r) ==
  \E d \in devs :
    /\ Arrives(r)
    /\ Goes(r, [Idle EXCEPT !.kind = "delete", !.pc = "begin", !.dev = d])
    /\ UNCHANGED <<store, tables, faults, history>>

Of(d)       == {p \in assigned : p[2] = d}
ValuesOf(d) == {p \in values : p[2] = d}

\* The container is removed, and the values there are, in an open transaction.
DeleteValues(r) ==
  LET d == job[r].dev IN
  /\ At(r, "delete", "begin")
  /\ \A q \in Inside(d) : job[q].wiped = {}
  /\ Goes(r, [job[r] EXCEPT !.pc = "mibs", !.wiped = ValuesOf(d)])
  /\ tied' = IF d \in linked THEN tied \cup {d} ELSE tied
  /\ UNCHANGED <<store, tables, count, faults, met, unsure, spoiled, crossed, failed, stripped>>

DeleteAssigned(r) ==
  /\ At(r, "delete", "mibs")
  /\ \A q \in Inside(job[r].dev) : job[q].gone = {}
  /\ Goes(r, [job[r] EXCEPT !.pc = "flush", !.gone = Of(job[r].dev)])
  /\ UNCHANGED <<store, tables, count, faults, history>>

\* Nothing but assignments may name the device now: it would get NULL for it.
Bare(d, wiped) == ValuesOf(d) \subseteq wiped /\ d \notin linked

\* The flush of db.delete(device) loads the rows that name it now: it deletes the
\* assignments with the device, and fails on a value or a link.
FlushDevice(r) ==
  LET d == job[r].dev IN
  /\ At(r, "delete", "flush")
  /\ IF Bare(d, job[r].wiped)
       THEN /\ Goes(r, [job[r] EXCEPT !.pc = "commit", !.seen = Of(d) \ job[r].gone])
            /\ UNCHANGED stripped
       ELSE Ends(r) /\ stripped' = stripped \cup {d}
  /\ UNCHANGED <<store, tables, count, faults, met, unsure, spoiled, crossed, tied, failed>>

\* mutant: the device goes first
CommitDeleteFirst(r) ==
  LET d == job[r].dev IN
  /\ At(r, "delete", "commit")
  /\ IF Of(d) = {} THEN devs' = devs \ {d} /\ UNCHANGED <<assigned, values, stripped>>
                   ELSE stripped' = stripped \cup {d} /\ UNCHANGED <<devs, assigned, values>>
  /\ Ends(r)
  /\ UNCHANGED <<store, mibs, linked, count, faults, met, unsure, spoiled, crossed, tied, failed>>

\* A row that was not loaded refuses the delete (foreign key); an assignment
\* that was and has gone since may.
CommitDelete(r) ==
  LET d == job[r].dev
      dead == job[r].gone \cup job[r].seen IN
  /\ At(r, "delete", "commit")
  /\ \/ /\ Of(d) \subseteq dead /\ Bare(d, job[r].wiped)
        /\ devs' = devs \ {d} /\ assigned' = assigned \ dead /\ values' = values \ job[r].wiped
        /\ UNCHANGED stripped
     \/ /\ d \in devs /\ (Of(d) # dead \/ ~Bare(d, job[r].wiped))
        /\ stripped' = stripped \cup {d} /\ UNCHANGED <<devs, assigned, values>>
  /\ Ends(r)
  /\ UNCHANGED <<store, mibs, linked, count, faults, met, unsure, spoiled, crossed, tied, failed>>

\* The database fails while a request awaits it; a DELETE has removed the
\* container by then, unless it was looking its device up.
Abort(r) ==
  LET j == job[r]
      lost == IF j.kind = "delete" /\ j.pc # "begin" THEN {j.dev} ELSE {} IN
  /\ faults < MaxFaults /\ faults' = faults + 1
  /\ j # Idle /\ Ends(r)
  /\ unsure' = IF j.kind = "upload" THEN unsure \cup {Stem[j.file]} ELSE unsure
  /\ stripped' = stripped \cup lost /\ failed' = failed \cup lost
  /\ UNCHANGED <<store, tables, count, met, spoiled, crossed, tied>>

LibNext ==
  \E r \in Req :
    \/ Upload(r) \/ SelectMib(r) \/ CommitMib(r)
    \/ Assign(r) \/ CheckAssigned(r) \/ CommitAssign(r) \/ Unassign(r)
    \/ PutOid(r) \/ DeleteOid(r) \/ Link(r) \/ Unlink(r)
    \/ DeleteDevice(r) \/ DeleteValues(r) \/ DeleteAssigned(r) \/ FlushDevice(r)
    \/ CommitDelete(r)
    \/ Abort(r)

LibSpec == LibInit /\ [][LibNext]_libVars

-----------------------------------------------------------------------------

LibTypeOK ==
  /\ files \in [File -> Content \cup {None}]
  /\ trees \in [Name -> Content \cup {None}]
  /\ mibs \subseteq [id : 1 .. MaxRequests, name : Name, filename : File, raw : Content]
  /\ assigned \subseteq (1 .. MaxRequests) \X Dev /\ devs \subseteq Dev
  /\ values \subseteq Oid \X Dev /\ linked \subseteq Dev
  /\ count \in 0 .. MaxRequests /\ faults \in 0 .. MaxFaults

\* What GET /mibs/{id}/oids shows of a row: the sidecar of its name.
Shown(m) == trees[m.name]

\* Nothing else goes by the name of the row.
Alone(m) ==
  /\ \A k \in mibs : k.name = m.name => k = m
  /\ Cardinality({f \in File : Stem[f] = m.name /\ files[f] # None}) = 1
  /\ Uploading(m.name) = {}

\* A MIB has one row, though nothing in the schema says so, unless two uploads
\* of it were under way at once.
NamesUnique ==
  \A k, m \in mibs : k.name = m.name => k = m \/ m.name \in met

\* The three copies of a MIB agree: the tree shown is that of the text in the
\* row, and the file has that text, except after overlapping or failing uploads,
\* two file names for one MIB, and, for the file, a refused upload.
CopiesAgree ==
  \A m \in mibs :
    Alone(m) /\ m.name \notin unsure =>
      /\ Shown(m) = m.raw
      /\ files[m.filename] = m.raw \/ m.name \in spoiled

\* A MIB once accepted would compile again: all it imports is there and
\* compiles, unless the last upload of one of those was refused, which leaves
\* its text in the library for every MIB that imports it.
StillCompiles ==
  \A m \in mibs :
    LET all == Modules(files, m.name) IN
    (\A n \in all : Cardinality({f \in File : Stem[f] = n /\ files[f] # None}) <= 1) =>
      \/ \A n \in all : Found(files, n) # {} /\ Found(files, n) \subseteq Good
      \/ all \cap spoiled # {}

\* DELETE /devices/{id} is refused, with the container already removed, only when
\* a link named the device as it set to work, when a MIB, an OID value or a link
\* of the device came, or a MIB went, while it was at work, or when the database
\* failed under it: otherwise it has deleted or loaded every row there is.
StrippedExplained == stripped \subseteq crossed \cup tied \cup failed
=============================================================================
