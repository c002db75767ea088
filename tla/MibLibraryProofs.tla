--------------------------- MODULE MibLibraryProofs ---------------------------
(***************************************************************************)
(* Proofs about the MIB library, for any number of requests, MIBs and      *)
(* devices: which duplicate rows and which half-deleted devices there can  *)
(* be, that the three copies of a MIB agree, and that what once compiled   *)
(* still would.                                                            *)
(***************************************************************************)
EXTENDS MibLibrary, FiniteSetTheorems, TLAPS

MibRow == [id : Nat, name : Name, filename : File, raw : Content]
Pairs  == Nat \X Dev
Job == [kind : {"idle", "upload", "assign", "delete"},
        pc : {"-", "select", "commit", "check", "begin", "mibs", "flush"},
        file : File \cup {None}, raw : Content \cup {None}, row : MibRow \cup {None},
        mib : Nat, dev : Dev \cup {None}, wiped : SUBSET (Oid \X Dev),
        gone : SUBSET Pairs, seen : SUBSET Pairs, alone : BOOLEAN]

\* The commits elsewhere, of OID values and links.
Elsewhere(r) == PutOid(r) \/ DeleteOid(r) \/ Link(r) \/ Unlink(r)

\* A DELETE of a device at its statements.
Works(r) == DeleteValues(r) \/ DeleteAssigned(r) \/ FlushDevice(r)

LibTypes ==
  /\ job \in [Req -> Job]
  /\ mibs \subseteq MibRow /\ IsFiniteSet(mibs)
  /\ assigned \subseteq Pairs /\ devs \subseteq Dev
  /\ values \subseteq Oid \X Dev /\ linked \subseteq Dev
  /\ \A r \in Req : job[r].kind = "upload" => job[r].file \in File /\ job[r].raw \in Content

LEMMA IdleType == Idle \in Job /\ Idle.kind = "idle"
  BY DEF Idle, Job

\* A request that ends, or goes on, keeps the slots' types.
LEMMA GoesType ==
  ASSUME LibTypes, NEW r \in Req, NEW j \in Job, Goes(r, j),
         j.kind = "upload" => j.file \in File /\ j.raw \in Content
  PROVE  /\ job' \in [Req -> Job]
         /\ \A q \in Req : job'[q].kind = "upload" =>
                             job'[q].file \in File /\ job'[q].raw \in Content
  BY DEF LibTypes, Goes

LEMMA EndsType ==
  ASSUME LibTypes, NEW r \in Req, Ends(r)
  PROVE  /\ job' \in [Req -> Job]
         /\ \A q \in Req : job'[q].kind = "upload" =>
                             job'[q].file \in File /\ job'[q].raw \in Content
<1>1. Goes(r, Idle)
  BY DEF Ends
<1>2. QED BY <1>1, IdleType, GoesType

\* The columns an upload writes are not the name.
LEMMA WrittenType ==
  ASSUME NEW j \in Job, j.file \in File, j.raw \in Content, NEW m \in MibRow
  PROVE  Written(m, j) \in MibRow /\ Written(m, j).name = m.name
  BY DEF Written, MibRow

LEMMA UploadTypes ==
  ASSUME LibTypes, NEW r \in Req, Upload(r) PROVE LibTypes'
<1>1. PICK f \in File, c \in Content :
        \/ UNCHANGED job
        \/ job' = [q \in Req |->
             IF q = r THEN [Idle EXCEPT !.kind = "upload", !.pc = "select", !.file = f,
                                        !.raw = c, !.alone = (Uploading(Stem[f]) = {})]
             ELSE IF q \in Uploading(Stem[f]) THEN [job[q] EXCEPT !.alone = FALSE]
             ELSE job[q]]
  BY DEF Upload
<1> DEFINE new == [Idle EXCEPT !.kind = "upload", !.pc = "select", !.file = f,
                               !.raw = c, !.alone = (Uploading(Stem[f]) = {})]
<1>2. new \in Job /\ new.file = f /\ new.raw = c
  BY IdleType DEF Job, Idle
<1>3. \A q \in Req : /\ [job[q] EXCEPT !.alone = FALSE] \in Job
                     /\ [job[q] EXCEPT !.alone = FALSE].kind = job[q].kind
                     /\ [job[q] EXCEPT !.alone = FALSE].file = job[q].file
                     /\ [job[q] EXCEPT !.alone = FALSE].raw = job[q].raw
  <2>1. \A q \in Req : job[q] \in Job
    BY DEF LibTypes
  <2>2. \A j \in Job : /\ [j EXCEPT !.alone = FALSE] \in Job
                       /\ [j EXCEPT !.alone = FALSE].kind = j.kind
                       /\ [j EXCEPT !.alone = FALSE].file = j.file
                       /\ [j EXCEPT !.alone = FALSE].raw = j.raw
    BY DEF Job
  <2>3. QED BY <2>1, <2>2
<1>4. job' \in [Req -> Job]
  BY <1>1, <1>2, <1>3 DEF LibTypes
<1>5. \A q \in Req : job'[q].kind = "upload" => job'[q].file \in File /\ job'[q].raw \in Content
  <2> SUFFICES ASSUME NEW q \in Req, job'[q].kind = "upload"
               PROVE  job'[q].file \in File /\ job'[q].raw \in Content
    OBVIOUS
  <2>1. job[q].kind = "upload" => job[q].file \in File /\ job[q].raw \in Content
    BY DEF LibTypes
  <2>2. \/ job'[q] = job[q]
        \/ job'[q] = new
        \/ job'[q] = [job[q] EXCEPT !.alone = FALSE]
    BY <1>1 DEF LibTypes
  <2>3. QED BY <1>2, <1>3, <2>1, <2>2
<1>6. UNCHANGED tables
  BY DEF Upload
<1>7. QED BY <1>4, <1>5, <1>6 DEF LibTypes, tables

LEMMA CommitMibTypes ==
  ASSUME LibTypes, NEW r \in Req, CommitMib(r) PROVE LibTypes'
<1>1. job[r] \in Job /\ job[r].file \in File /\ job[r].raw \in Content
  BY DEF CommitMib, At, LibTypes
<1>2. mibs' \subseteq MibRow /\ IsFiniteSet(mibs')
  <2>1. CASE job[r].row = None
    <3> DEFINE m == [id |-> Cardinality(mibs) + 1, name |-> Stem[job[r].file],
                     filename |-> job[r].file, raw |-> job[r].raw]
    <3>1. mibs' = mibs \cup {m}
      BY <2>1 DEF CommitMib
    <3>2. Cardinality(mibs) \in Nat
      BY FS_CardinalityType DEF LibTypes
    <3>3. m \in MibRow
      BY <1>1, <3>2, MibLibraryAssumption DEF MibRow
    <3>4. IsFiniteSet(mibs \cup {m})
      BY FS_AddElement DEF LibTypes
    <3>5. QED BY <3>1, <3>3, <3>4 DEF LibTypes
  <2>2. CASE job[r].row # None
    <3>1. mibs' = {Written(m, job[r]) : m \in mibs}
      BY <2>2 DEF CommitMib
    <3>2. IsFiniteSet({Written(m, job[r]) : m \in mibs})
      <4> DEFINE w == [m \in mibs |-> Written(m, job[r])]
                 W == {Written(m, job[r]) : m \in mibs}
      <4>1. w \in Surjection(mibs, W)
        BY DEF Surjection
      <4>2. IsFiniteSet(mibs)
        BY DEF LibTypes
      <4>3. QED BY <4>1, <4>2, FS_Surjection
    <3>3. \A m \in mibs : Written(m, job[r]) \in MibRow
      BY <1>1, WrittenType DEF LibTypes
    <3>4. QED BY <3>1, <3>2, <3>3
  <2>3. QED BY <2>1, <2>2
<1>3. Ends(r) /\ UNCHANGED <<assigned, devs, values, linked>>
  BY DEF CommitMib
<1>4. QED BY <1>2, <1>3, EndsType DEF LibTypes

\* The statements of a DELETE before its commit change no table yet.
LEMMA WorksShape ==
  ASSUME LibTypes, NEW r \in Req, Works(r)
  PROVE  /\ job[r].kind = "delete"
         /\ UNCHANGED <<store, tables, count, faults, met, unsure, spoiled>>
         /\ \E j \in Job : j.kind \in {"delete", "idle"} /\ Goes(r, j)
<1> DEFINE d == job[r].dev
<1>1. job[r].kind = "delete" /\ job[r] \in Job
  BY DEF Works, DeleteValues, DeleteAssigned, FlushDevice, At, LibTypes
<1>2. UNCHANGED <<store, tables, count, faults, met, unsure, spoiled>>
  BY DEF Works, DeleteValues, DeleteAssigned, FlushDevice, history
<1>3. /\ Of(d) \in SUBSET Pairs /\ Of(d) \ job[r].gone \in SUBSET Pairs
      /\ ValuesOf(d) \in SUBSET (Oid \X Dev)
  BY DEF Of, ValuesOf, LibTypes
<1>4. CASE DeleteValues(r)
  <2>1. /\ [job[r] EXCEPT !.pc = "mibs", !.wiped = ValuesOf(d)] \in Job
        /\ [job[r] EXCEPT !.pc = "mibs", !.wiped = ValuesOf(d)].kind = "delete"
    BY <1>1, <1>3 DEF Job
  <2>2. QED BY <1>1, <1>2, <1>4, <2>1 DEF DeleteValues
<1>5. CASE DeleteAssigned(r)
  <2>1. /\ [job[r] EXCEPT !.pc = "flush", !.gone = Of(d)] \in Job
        /\ [job[r] EXCEPT !.pc = "flush", !.gone = Of(d)].kind = "delete"
    BY <1>1, <1>3 DEF Job
  <2>2. QED BY <1>1, <1>2, <1>5, <2>1 DEF DeleteAssigned
<1>6. CASE FlushDevice(r)
  <2>1. /\ [job[r] EXCEPT !.pc = "commit", !.seen = Of(d) \ job[r].gone] \in Job
        /\ [job[r] EXCEPT !.pc = "commit", !.seen = Of(d) \ job[r].gone].kind = "delete"
    BY <1>1, <1>3 DEF Job
  <2>2. QED BY <1>1, <1>2, <1>6, <2>1, IdleType DEF FlushDevice, Ends
<1>7. QED BY <1>4, <1>5, <1>6 DEF Works

(* Slots, rows and assignments keep their types.                           *)
THEOREM LibTypesCorrect == LibSpec => []LibTypes
<1>1. LibInit => LibTypes
  BY IdleType, FS_EmptySet DEF LibInit, LibTypes
<1>2. LibTypes /\ [LibNext]_libVars => LibTypes'
  <2> SUFFICES ASSUME LibTypes, [LibNext]_libVars PROVE LibTypes'
    OBVIOUS
  <2>1. ASSUME NEW r \in Req, SelectMib(r) PROVE LibTypes'
    <3>1. UNCHANGED tables
      BY <2>1 DEF SelectMib
    <3>2. PICK m \in MibRow \cup {None} : Goes(r, [job[r] EXCEPT !.pc = "commit", !.row = m])
      BY <2>1 DEF SelectMib, RowsFor, LibTypes
    <3>3. /\ [job[r] EXCEPT !.pc = "commit", !.row = m] \in Job
          /\ [job[r] EXCEPT !.pc = "commit", !.row = m].kind = job[r].kind
          /\ [job[r] EXCEPT !.pc = "commit", !.row = m].file = job[r].file
          /\ [job[r] EXCEPT !.pc = "commit", !.row = m].raw = job[r].raw
      <4>1. job[r] \in Job
        BY DEF LibTypes
      <4>2. QED BY <4>1 DEF Job
    <3>4. job[r].kind = "upload" => job[r].file \in File /\ job[r].raw \in Content
      BY DEF LibTypes
    <3>5. QED BY <3>1, <3>2, <3>3, <3>4, GoesType DEF LibTypes, tables
  <2>2. ASSUME NEW r \in Req, Assign(r) PROVE LibTypes'
    <3>1. UNCHANGED tables
      BY <2>2 DEF Assign
    <3>2. PICK m \in mibs, d \in Dev :
            \/ UNCHANGED job
            \/ Goes(r, [Idle EXCEPT !.kind = "assign", !.pc = "check", !.mib = m.id, !.dev = d])
      BY <2>2 DEF Assign
    <3>3. /\ [Idle EXCEPT !.kind = "assign", !.pc = "check", !.mib = m.id, !.dev = d] \in Job
          /\ [Idle EXCEPT !.kind = "assign", !.pc = "check", !.mib = m.id, !.dev = d].kind = "assign"
      BY IdleType DEF LibTypes, MibRow, Job, Idle
    <3>4. QED BY <3>1, <3>2, <3>3, GoesType DEF LibTypes, tables
  <2>3. ASSUME NEW r \in Req, CheckAssigned(r) PROVE LibTypes'
    <3>1. UNCHANGED tables
      BY <2>3 DEF CheckAssigned
    <3>2. CASE Ends(r)
      BY <3>1, <3>2, EndsType DEF LibTypes, tables
    <3>3. CASE Goes(r, [job[r] EXCEPT !.pc = "commit"])
      <4>1. [job[r] EXCEPT !.pc = "commit"] \in Job
            /\ [job[r] EXCEPT !.pc = "commit"].kind = "assign"
        BY <2>3 DEF CheckAssigned, At, LibTypes, Job
      <4>2. QED BY <3>1, <3>3, <4>1, GoesType DEF LibTypes, tables
    <3>4. QED BY <2>3, <3>2, <3>3 DEF CheckAssigned
  <2>4. ASSUME NEW r \in Req, CommitAssign(r) PROVE LibTypes'
    <3>1. Ends(r) /\ UNCHANGED <<mibs, devs, values, linked>>
      BY <2>4 DEF CommitAssign
    <3>2. assigned' \subseteq Pairs
      <4>1. <<job[r].mib, job[r].dev>> \in Pairs \/ assigned' = assigned
        BY <2>4 DEF CommitAssign, LibTypes, Job, Pairs
      <4>2. QED BY <2>4, <4>1 DEF CommitAssign, LibTypes
    <3>3. QED BY <3>1, <3>2, EndsType DEF LibTypes, tables
  <2>5. ASSUME NEW r \in Req, Unassign(r) PROVE LibTypes'
    BY <2>5 DEF Unassign, LibTypes
  <2>6. ASSUME NEW r \in Req, DeleteDevice(r) PROVE LibTypes'
    <3>1. UNCHANGED tables
      BY <2>6 DEF DeleteDevice
    <3>2. PICK d \in devs :
            Goes(r, [Idle EXCEPT !.kind = "delete", !.pc = "begin", !.dev = d])
      BY <2>6 DEF DeleteDevice
    <3>3. /\ [Idle EXCEPT !.kind = "delete", !.pc = "begin", !.dev = d] \in Job
          /\ [Idle EXCEPT !.kind = "delete", !.pc = "begin", !.dev = d].kind = "delete"
      BY IdleType DEF LibTypes, Job, Idle
    <3>4. QED BY <3>1, <3>2, <3>3, GoesType DEF LibTypes, tables
  <2>7. ASSUME NEW r \in Req, Works(r) PROVE LibTypes'
    BY <2>7, WorksShape, GoesType DEF LibTypes, tables
  <2>8. ASSUME NEW r \in Req, CommitDelete(r) PROVE LibTypes'
    <3>1. Ends(r) /\ UNCHANGED <<mibs, linked>>
      BY <2>8 DEF CommitDelete
    <3>2. assigned' \subseteq assigned /\ devs' \subseteq devs /\ values' \subseteq values
      BY <2>8 DEF CommitDelete
    <3>3. QED BY <3>1, <3>2, EndsType DEF LibTypes
  <2>9. ASSUME NEW r \in Req, Abort(r) PROVE LibTypes'
    <3>1. Ends(r) /\ UNCHANGED tables
      BY <2>9 DEF Abort
    <3>2. QED BY <3>1, EndsType DEF LibTypes, tables
  <2>10. ASSUME NEW r \in Req, Elsewhere(r) PROVE LibTypes'
    <3>1. UNCHANGED <<job, mibs, assigned, devs>>
      BY <2>10 DEF Elsewhere, PutOid, DeleteOid, Link, Unlink
    <3>2. values' \subseteq Oid \X Dev /\ linked' \subseteq Dev
      <4>1. CASE PutOid(r)
        BY <4>1 DEF PutOid, LibTypes
      <4>2. CASE DeleteOid(r)
        BY <4>2 DEF DeleteOid, LibTypes
      <4>3. CASE Link(r) \/ Unlink(r)
        BY <4>3 DEF Link, Unlink, LibTypes
      <4>4. QED BY <2>10, <4>1, <4>2, <4>3 DEF Elsewhere
    <3>3. QED BY <3>1, <3>2 DEF LibTypes
  <2>11. CASE UNCHANGED libVars
    BY <2>11 DEF libVars, tables, LibTypes
  <2>12. QED
    BY <2>1, <2>2, <2>3, <2>4, <2>5, <2>6, <2>7, <2>8, <2>9, <2>10, <2>11, UploadTypes,
       CommitMibTypes DEF LibNext, Elsewhere, Works
<1>3. QED BY <1>1, <1>2, PTL DEF LibSpec

-----------------------------------------------------------------------------
(* One row for each name.                                                  *)

UploadOf(r, n) == job[r].kind = "upload" /\ Stem[job[r].file] = n

\* Two uploads of one name at once leave it in met.
OverlapSeen ==
  \A q, r \in Req, n \in Name : UploadOf(q, n) /\ UploadOf(r, n) /\ q # r => n \in met

\* An upload about to insert, if no other was under way, finds no row yet.
NoRowYet ==
  \A r \in Req, n \in Name :
    UploadOf(r, n) /\ job[r].pc = "commit" /\ job[r].row = None /\ n \notin met =>
      \A m \in mibs : m.name # n

NamesInv == NamesUnique /\ OverlapSeen /\ NoRowYet

\* A step that adds no row and no upload keeps the names unique.
LEMMA NamesUntouched ==
  ASSUME NamesInv, NEW r \in Req, mibs' = mibs, met' = met,
         \A q \in Req \ {r} : job'[q] = job[q],
         \/ job'[r].kind # "upload"
         \/ job'[r] = job[r]
         \/ /\ job[r].kind = "upload" /\ job'[r].file = job[r].file
            /\ job'[r].row = None => \A m \in mibs : m.name # Stem[job[r].file]
  PROVE  NamesInv'
<1>1. NamesUnique'
  BY DEF NamesInv, NamesUnique
<1>2. OverlapSeen'
  BY DEF NamesInv, OverlapSeen, UploadOf
<1>3. NoRowYet'
  BY DEF NamesInv, NoRowYet, UploadOf
<1>4. QED BY <1>1, <1>2, <1>3 DEF NamesInv

LEMMA UploadNames ==
  ASSUME LibTypes, NamesInv, NEW r \in Req, Upload(r) PROVE NamesInv'
<1>1. CASE UNCHANGED <<job, met>>
  BY <1>1 DEF Upload, tables, NamesInv, NamesUnique, OverlapSeen, NoRowYet, UploadOf
<1>2. CASE ~UNCHANGED <<job, met>>
  <2>1. PICK f \in File, c \in Content :
          /\ job' = [q \in Req |->
               IF q = r THEN [Idle EXCEPT !.kind = "upload", !.pc = "select", !.file = f,
                                          !.raw = c, !.alone = (Uploading(Stem[f]) = {})]
               ELSE IF q \in Uploading(Stem[f]) THEN [job[q] EXCEPT !.alone = FALSE]
               ELSE job[q]]
          /\ met' = IF Uploading(Stem[f]) = {} THEN met ELSE met \cup {Stem[f]}
    BY <1>2 DEF Upload
  <2> DEFINE n == Stem[f]
  <2>2. job'[r].kind = "upload" /\ job'[r].file = f /\ job'[r].pc = "select"
    BY <2>1 DEF Idle
  <2>3. \A q \in Req \ {r} : /\ job'[q].kind = job[q].kind /\ job'[q].file = job[q].file
                             /\ job'[q].pc = job[q].pc /\ job'[q].row = job[q].row
    <3> SUFFICES ASSUME NEW q \in Req \ {r}
                 PROVE  /\ job'[q].kind = job[q].kind /\ job'[q].file = job[q].file
                        /\ job'[q].pc = job[q].pc /\ job'[q].row = job[q].row
      OBVIOUS
    <3>1. job'[q] = job[q] \/ job'[q] = [job[q] EXCEPT !.alone = FALSE]
      BY <2>1
    <3>2. job[q] \in Job
      BY DEF LibTypes
    <3>3. QED BY <3>1, <3>2 DEF Job
  <2>4. met \subseteq met' /\ mibs' = mibs
    BY <2>1 DEF Upload, tables
  <2>5. NamesUnique'
    BY <2>4 DEF NamesInv, NamesUnique
  <2>6. NoRowYet'
    BY <2>2, <2>3, <2>4 DEF NamesInv, NoRowYet, UploadOf
  <2>7. OverlapSeen'
    <3> SUFFICES ASSUME NEW p \in Req, NEW q \in Req, NEW x \in Name, p # q,
                        UploadOf(p, x)', UploadOf(q, x)'
                 PROVE  x \in met'
      BY DEF OverlapSeen
    <3>1. CASE p # r /\ q # r
      BY <2>3, <2>4, <3>1 DEF NamesInv, OverlapSeen, UploadOf
    <3>2. CASE p = r \/ q = r
      <4>1. x = n
        BY <2>2, <3>2 DEF UploadOf
      <4>2. PICK o \in Req \ {r} : job'[o].kind = "upload" /\ Stem[job'[o].file] = n
        BY <3>2, <4>1 DEF UploadOf
      <4>3. o \in Uploading(n)
        BY <2>3, <4>2 DEF Uploading
      <4>4. QED BY <2>1, <4>1, <4>3
    <3>3. QED BY <3>1, <3>2
  <2>8. QED BY <2>5, <2>6, <2>7 DEF NamesInv
<1>3. QED BY <1>1, <1>2

LEMMA CommitMibNames ==
  ASSUME LibTypes, NamesInv, NEW r \in Req, CommitMib(r) PROVE NamesInv'
<1> DEFINE n == Stem[job[r].file]
<1>1. /\ UploadOf(r, n) /\ job[r].pc = "commit" /\ met' = met
      /\ job[r] \in Job /\ job[r].file \in File /\ job[r].raw \in Content /\ n \in Name
  BY MibLibraryAssumption DEF CommitMib, At, LibTypes, UploadOf
<1>2. job'[r].kind = "idle" /\ \A q \in Req \ {r} : job'[q] = job[q]
  BY IdleType DEF CommitMib, Ends, Goes, LibTypes
<1>3. OverlapSeen'
  BY <1>1, <1>2 DEF NamesInv, OverlapSeen, UploadOf
<1>4. CASE job[r].row = None
  <2> DEFINE new == [id |-> Cardinality(mibs) + 1, name |-> n,
                     filename |-> job[r].file, raw |-> job[r].raw]
  <2>1. mibs' = mibs \cup {new} /\ new.name = n
    BY <1>4 DEF CommitMib
  <2>2. n \in met \/ \A m \in mibs : m.name # n
    BY <1>1, <1>4 DEF NamesInv, NoRowYet
  <2>3. NamesUnique'
    BY <1>1, <2>1, <2>2 DEF NamesInv, NamesUnique
  <2>4. NoRowYet'
    BY <1>1, <1>2, <2>1 DEF NamesInv, NoRowYet, OverlapSeen, UploadOf
  <2>5. QED BY <1>3, <2>3, <2>4 DEF NamesInv
<1>5. CASE job[r].row # None
  <2>1. mibs' = {Written(m, job[r]) : m \in mibs}
    BY <1>5 DEF CommitMib
  <2>2. \A m \in mibs : Written(m, job[r]).name = m.name
    BY <1>1, WrittenType DEF LibTypes
  <2>3. NamesUnique'
    <3> SUFFICES ASSUME NEW k \in mibs, NEW m \in mibs, k.name = m.name, m.name \notin met
                 PROVE  k = m
      BY <1>1, <2>1, <2>2 DEF NamesUnique
    <3>1. QED BY DEF NamesInv, NamesUnique
  <2>4. NoRowYet'
    BY <1>1, <1>2, <2>1, <2>2 DEF NamesInv, NoRowYet, UploadOf
  <2>5. QED BY <1>3, <2>3, <2>4 DEF NamesInv
<1>6. QED BY <1>4, <1>5

\* The row it found, if any, is what its session goes on with.
LEMMA SelectMibNames ==
  ASSUME LibTypes, NamesInv, NEW r \in Req, SelectMib(r) PROVE NamesInv'
<1>1. PICK m \in IF RowsFor(job[r].file) = {} THEN {None} ELSE RowsFor(job[r].file) :
        Goes(r, [job[r] EXCEPT !.pc = "commit", !.row = m])
  BY DEF SelectMib
<1>2. job[r].kind = "upload" /\ job[r] \in Job /\ UNCHANGED <<mibs, met>>
  BY DEF SelectMib, At, LibTypes, tables, history
<1>3. job'[r].row = m /\ job'[r].file = job[r].file /\ \A q \in Req \ {r} : job'[q] = job[q]
  BY <1>1, <1>2 DEF Goes, LibTypes, Job
<1>4. m = None => \A k \in mibs : k.name # Stem[job[r].file]
  <2>1. None \notin mibs
    BY MibLibraryAssumption DEF LibTypes, MibRow
  <2>2. QED BY <1>1, <2>1 DEF RowsFor
<1>5. QED BY <1>2, <1>3, <1>4, NamesUntouched

(* A MIB has one row, unless two uploads of its name were under way at     *)
(* once: nothing in the schema says so, the order of select and insert     *)
(* does.                                                                   *)
THEOREM NamesAlwaysUnique == LibSpec => []NamesUnique
<1>1. LibInit => NamesInv
  BY IdleType
     DEF LibInit, NamesInv, NamesUnique, OverlapSeen, NoRowYet, UploadOf
<1>2. LibTypes /\ NamesInv /\ [LibNext]_libVars => NamesInv'
  <2> SUFFICES ASSUME LibTypes, NamesInv, [LibNext]_libVars PROVE NamesInv'
    OBVIOUS
  <2>1. ASSUME NEW r \in Req,
               \/ Assign(r) \/ CheckAssigned(r) \/ CommitAssign(r) \/ DeleteDevice(r)
               \/ Works(r) \/ CommitDelete(r) \/ Abort(r) \/ Unassign(r) \/ Elsewhere(r)
        PROVE  NamesInv'
    <3>1. UNCHANGED <<mibs, met>>
      BY <2>1, WorksShape
         DEF Assign, CheckAssigned, CommitAssign, DeleteDevice, CommitDelete, Abort, Unassign,
             Elsewhere, PutOid, DeleteOid, Link, Unlink, tables, history
    <3>2. UNCHANGED job \/ \E j : Goes(r, j) /\ j.kind # "upload"
      <4>1. CASE Assign(r) \/ DeleteDevice(r) \/ Unassign(r) \/ Elsewhere(r)
        <5>1. CASE Assign(r)
          <6>1. PICK m \in mibs, d \in Dev :
                  \/ UNCHANGED job
                  \/ Goes(r, [Idle EXCEPT !.kind = "assign", !.pc = "check", !.mib = m.id,
                                          !.dev = d])
            BY <5>1 DEF Assign
          <6>2. [Idle EXCEPT !.kind = "assign", !.pc = "check", !.mib = m.id,
                             !.dev = d].kind = "assign"
            BY DEF Idle
          <6>3. QED BY <6>1, <6>2
        <5>2. CASE DeleteDevice(r)
          <6>1. PICK d \in devs :
                  Goes(r, [Idle EXCEPT !.kind = "delete", !.pc = "begin", !.dev = d])
            BY <5>2 DEF DeleteDevice
          <6>2. [Idle EXCEPT !.kind = "delete", !.pc = "begin", !.dev = d].kind = "delete"
            BY DEF Idle
          <6>3. QED BY <6>1, <6>2
        <5>3. CASE Unassign(r) \/ Elsewhere(r)
          BY <5>3 DEF Unassign, Elsewhere, PutOid, DeleteOid, Link, Unlink
        <5>4. QED BY <4>1, <5>1, <5>2, <5>3
      <4>2. CASE CheckAssigned(r)
        <5>1. job[r].kind = "assign" /\ job[r] \in Job
          BY <4>2 DEF CheckAssigned, At, LibTypes
        <5>2. [job[r] EXCEPT !.pc = "commit"].kind = "assign"
          BY <5>1 DEF Job
        <5>3. QED BY <4>2, <5>2, IdleType DEF CheckAssigned, Ends
      <4>3. CASE CommitAssign(r) \/ CommitDelete(r) \/ Abort(r)
        BY <4>3, IdleType DEF CommitAssign, CommitDelete, Abort, Ends
      <4>4. CASE Works(r)
        BY <4>4, WorksShape
      <4>5. QED BY <2>1, <4>1, <4>2, <4>3, <4>4
    <3>3. \A q \in Req \ {r} : job'[q] = job[q]
      BY <3>2 DEF Goes, LibTypes
    <3>4. job'[r] = job[r] \/ job'[r].kind # "upload"
      BY <3>2 DEF Goes, LibTypes
    <3>5. QED BY <3>1, <3>3, <3>4, NamesUntouched
  <2>2. CASE UNCHANGED libVars
    BY <2>2 DEF libVars, tables, history, NamesInv, NamesUnique, OverlapSeen, NoRowYet,
                UploadOf
  <2>3. QED
    BY <2>1, <2>2, UploadNames, SelectMibNames, CommitMibNames DEF LibNext, Elsewhere, Works
<1>3. NamesInv => NamesUnique
  BY DEF NamesInv
<1>4. QED BY <1>1, <1>2, <1>3, LibTypesCorrect, PTL DEF LibSpec

-----------------------------------------------------------------------------
(* Deleting a device.                                                      *)

OwnPairs ==
  \A r \in Req : job[r].kind = "delete" =>
    job[r].gone \cup job[r].seen \subseteq {p \in Pairs : p[2] = job[r].dev}

\* The foreign keys: a value or a link names a device that is there.
KeysHold == (\A p \in values : p[2] \in devs) /\ linked \subseteq devs

\* While nobody commits a row behind its back, and no link was there before, a
\* DELETE has deleted, or loaded, every row that names the device.
SeesAll ==
  \A r \in Req : job[r].kind = "delete" /\ job[r].dev \in devs \ (crossed \cup tied) =>
    /\ job[r].pc # "begin" => Bare(job[r].dev, job[r].wiped)
    /\ job[r].pc = "flush" => job[r].gone = Of(job[r].dev)
    /\ job[r].pc = "commit" => job[r].gone \cup job[r].seen = Of(job[r].dev)

DeleteInv == OwnPairs /\ KeysHold /\ SeesAll /\ StrippedExplained

\* What DeleteInv looks at in a slot.
Same(q) ==
  /\ job'[q].kind = job[q].kind /\ job'[q].pc = job[q].pc /\ job'[q].dev = job[q].dev
  /\ job'[q].gone = job[q].gone /\ job'[q].seen = job[q].seen /\ job'[q].wiped = job[q].wiped

\* A step that adds no row that names a device and takes no assignment, and
\* leaves every DELETE past its beginning where it was.
LEMMA DeletesUntouched ==
  ASSUME DeleteInv, UNCHANGED <<assigned, devs, crossed, tied>>,
         values' \subseteq values, linked' \subseteq linked,
         failed \subseteq failed', stripped' \subseteq stripped \cup failed',
         \A q \in Req : \/ Same(q)
                        \/ job'[q].kind # "delete"
                        \/ job'[q].pc = "begin" /\ job'[q].gone = {} /\ job'[q].seen = {}
  PROVE  DeleteInv'
<1>1. OwnPairs'
  BY DEF DeleteInv, OwnPairs, Same
<1>2. KeysHold'
  BY DEF DeleteInv, KeysHold
<1>3. SeesAll'
  BY DEF DeleteInv, SeesAll, Same, Of, Bare, ValuesOf
<1>4. StrippedExplained'
  BY DEF DeleteInv, StrippedExplained
<1>5. QED BY <1>1, <1>2, <1>3, <1>4 DEF DeleteInv

LEMMA EndsAlone ==
  ASSUME LibTypes, NEW r \in Req, Ends(r)
  PROVE  job'[r].kind = "idle" /\ \A q \in Req \ {r} : job'[q] = job[q]
  BY IdleType DEF Ends, Goes, LibTypes

\* A row that names d comes or goes, on the record of the DELETEs at work.
LEMMA RowsChanged ==
  ASSUME LibTypes, DeleteInv, NEW r \in Req, NEW d, UNCHANGED <<devs, tied, failed, stripped>>,
         \A q \in Req \ {r} : job'[q] = job[q],
         job'[r] = job[r] \/ job'[r].kind # "delete",
         \A x \in Dev \ {d} : /\ Of(x)' = Of(x) /\ ValuesOf(x)' \subseteq ValuesOf(x)
                              /\ x \in linked' => x \in linked,
         Crosses(d), KeysHold'
  PROVE  DeleteInv'
<1>1. OwnPairs'
  BY DEF DeleteInv, OwnPairs
<1>2. SeesAll'
  <2> SUFFICES ASSUME NEW q \in Req, job'[q].kind = "delete",
                      job'[q].dev \in devs' \ (crossed' \cup tied')
               PROVE  /\ job'[q].pc # "begin" => Bare(job[q].dev, job[q].wiped)'
                      /\ job'[q].pc = "flush" => job'[q].gone = Of(job[q].dev)'
                      /\ job'[q].pc = "commit" =>
                           job'[q].gone \cup job'[q].seen = Of(job[q].dev)'
    BY DEF SeesAll
  <2>1. /\ job'[q] = job[q] /\ job[q].dev \in devs \ (crossed \cup tied) /\ job[q].dev \in Dev
        /\ crossed \subseteq crossed'
    BY DEF LibTypes, Crosses
  <2>2. PICK x \in Dev : x = job[q].dev
    BY <2>1
  <2>3. CASE job[q].pc = "begin"
    BY <2>1, <2>3
  <2>4. CASE job[q].pc # "begin"
    <3>1. x # d
      <4>1. q \in Inside(x)
        BY <2>1, <2>2, <2>4 DEF Inside
      <4>2. x \notin crossed'
        BY <2>1, <2>2
      <4>3. QED BY <4>1, <4>2 DEF Crosses
    <3>2. /\ Of(x)' = Of(x) /\ ValuesOf(x)' \subseteq ValuesOf(x)
          /\ x \in linked' => x \in linked
      BY <3>1
    <3>3. /\ Bare(x, job[q].wiped)
          /\ job[q].pc = "flush" => job[q].gone = Of(x)
          /\ job[q].pc = "commit" => job[q].gone \cup job[q].seen = Of(x)
      BY <2>1, <2>2, <2>4 DEF DeleteInv, SeesAll
    <3>4. Bare(x, job[q].wiped)'
      BY <2>1, <3>2, <3>3 DEF Bare
    <3>5. Of(job[q].dev)' = Of(x)'
      BY <2>1, <2>2
    <3>6. QED BY <2>1, <2>2, <3>2, <3>3, <3>4, <3>5
  <2>5. QED BY <2>3, <2>4
<1>3. StrippedExplained'
  BY DEF DeleteInv, StrippedExplained, Crosses
<1>4. QED BY <1>1, <1>2, <1>3 DEF DeleteInv

LEMMA CommitDeleteStep ==
  ASSUME LibTypes, DeleteInv, NEW r \in Req, CommitDelete(r) PROVE DeleteInv'
<1> DEFINE d == job[r].dev
           dead == job[r].gone \cup job[r].seen
<1>1. /\ job'[r].kind = "idle" /\ \A q \in Req \ {r} : job'[q] = job[q]
      /\ UNCHANGED <<linked, crossed, tied, failed>>
  BY EndsAlone DEF CommitDelete
<1>2. job[r].kind = "delete" /\ job[r].pc = "commit"
  BY DEF CommitDelete, At
<1>3. OwnPairs'
  BY <1>1 DEF DeleteInv, OwnPairs
<1>4. CASE /\ Bare(d, job[r].wiped)
           /\ devs' = devs \ {d} /\ assigned' = assigned \ dead
           /\ values' = values \ job[r].wiped /\ stripped' = stripped
  <2>1. \A x \in Dev \ {d} : Of(x)' = Of(x) /\ ValuesOf(x)' \subseteq ValuesOf(x)
    BY <1>2, <1>4 DEF Of, ValuesOf, DeleteInv, OwnPairs
  <2>2. SeesAll'
    <3> SUFFICES ASSUME NEW q \in Req, job'[q].kind = "delete",
                        job'[q].dev \in devs' \ (crossed' \cup tied')
                 PROVE  /\ job'[q].pc # "begin" => Bare(job[q].dev, job[q].wiped)'
                        /\ job'[q].pc = "flush" => job'[q].gone = Of(job[q].dev)'
                        /\ job'[q].pc = "commit" =>
                             job'[q].gone \cup job'[q].seen = Of(job[q].dev)'
      BY DEF SeesAll
    <3>1. /\ job'[q] = job[q] /\ job[q].dev \in devs \ (crossed \cup tied)
          /\ job[q].dev \in Dev \ {d}
      BY <1>1, <1>4 DEF LibTypes
    <3>2. PICK x \in Dev \ {d} : x = job[q].dev
      BY <3>1
    <3>3. /\ job[q].pc # "begin" => Bare(x, job[q].wiped)
          /\ job[q].pc = "flush" => job[q].gone = Of(x)
          /\ job[q].pc = "commit" => job[q].gone \cup job[q].seen = Of(x)
      BY <3>1, <3>2 DEF DeleteInv, SeesAll
    <3>4. Of(x)' = Of(x) /\ ValuesOf(x)' \subseteq ValuesOf(x)
      BY <2>1
    <3>5. job'[q].pc # "begin" => Bare(x, job[q].wiped)'
      BY <1>1, <3>1, <3>3, <3>4 DEF Bare
    <3>6. Of(job[q].dev)' = Of(x)'
      BY <3>1, <3>2
    <3>7. QED BY <3>1, <3>2, <3>3, <3>4, <3>5, <3>6
  <2>3. StrippedExplained'
    BY <1>1, <1>4 DEF DeleteInv, StrippedExplained
  <2>4. KeysHold'
    BY <1>1, <1>4 DEF DeleteInv, KeysHold, Bare, ValuesOf
  <2>5. QED BY <1>3, <2>2, <2>3, <2>4 DEF DeleteInv
<1>5. CASE /\ d \in devs /\ (Of(d) # dead \/ ~Bare(d, job[r].wiped))
           /\ stripped' = stripped \cup {d} /\ UNCHANGED <<devs, assigned, values>>
  <2>1. d \in crossed \cup tied
    BY <1>2, <1>5 DEF DeleteInv, SeesAll
  <2>2. StrippedExplained'
    BY <1>1, <1>5, <2>1 DEF DeleteInv, StrippedExplained
  <2>3. SeesAll' /\ KeysHold'
    BY <1>1, <1>5 DEF DeleteInv, SeesAll, KeysHold, Of, Bare, ValuesOf
  <2>4. QED BY <1>3, <2>2, <2>3 DEF DeleteInv
<1>6. QED BY <1>4, <1>5 DEF CommitDelete

\* What the statements of a DELETE leave in its slot.
LEMMA WorksSlot ==
  ASSUME LibTypes, NEW r \in Req, Works(r),
         NEW d, d = job[r].dev
  PROVE  /\ job[r].kind = "delete" /\ \A q \in Req \ {r} : job'[q] = job[q]
         /\ UNCHANGED <<assigned, devs, values, linked, crossed, failed>> /\ tied \subseteq tied'
         /\ \/ /\ job'[r].kind = "delete" /\ job'[r].dev = d /\ job'[r].pc = "mibs"
               /\ job'[r].gone = job[r].gone /\ job'[r].seen = job[r].seen
               /\ job'[r].wiped = ValuesOf(d) /\ (d \in linked => d \in tied')
               /\ stripped' = stripped
            \/ /\ job'[r].kind = "delete" /\ job'[r].dev = d /\ job'[r].pc = "flush"
               /\ job[r].pc = "mibs" /\ job'[r].wiped = job[r].wiped
               /\ job'[r].gone = Of(d) /\ job'[r].seen = job[r].seen
               /\ stripped' = stripped
            \/ /\ job'[r].kind = "delete" /\ job'[r].dev = d /\ job'[r].pc = "commit"
               /\ job[r].pc = "flush" /\ job'[r].wiped = job[r].wiped
               /\ job'[r].gone = job[r].gone /\ job'[r].seen = Of(d) \ job[r].gone
               /\ stripped' = stripped
            \/ /\ job'[r].kind = "idle" /\ job[r].pc = "flush" /\ ~Bare(d, job[r].wiped)
               /\ stripped' = stripped \cup {d}
<1>1. /\ job[r] \in Job /\ job[r].kind = "delete" /\ \A q \in Req \ {r} : job'[q] = job[q]
      /\ UNCHANGED <<assigned, devs, values, linked>>
  BY WorksShape DEF Goes, LibTypes, tables
<1>2. CASE DeleteValues(r)
  BY <1>1, <1>2 DEF DeleteValues, Goes, LibTypes, Job
<1>3. CASE DeleteAssigned(r)
  BY <1>1, <1>3 DEF DeleteAssigned, Goes, At, LibTypes, Job, history, deletes
<1>4. CASE FlushDevice(r)
  <2> DEFINE j == [job[r] EXCEPT !.pc = "commit", !.seen = Of(d) \ job[r].gone]
  <2>1. CASE Bare(d, job[r].wiped)
    <3>1. /\ Goes(r, j) /\ job[r].pc = "flush" /\ UNCHANGED <<crossed, tied, failed, stripped>>
      BY <1>4, <2>1 DEF FlushDevice, At
    <3>2. /\ j.kind = job[r].kind /\ j.dev = job[r].dev /\ j.pc = "commit"
          /\ j.wiped = job[r].wiped /\ j.gone = job[r].gone /\ j.seen = Of(d) \ job[r].gone
      BY <1>1 DEF Job
    <3>3. job'[r] = j
      BY <3>1 DEF Goes, LibTypes
    <3>4. QED BY <1>1, <3>1, <3>2, <3>3
  <2>2. CASE ~Bare(d, job[r].wiped)
    BY <1>1, <1>4, <2>2, EndsAlone DEF FlushDevice, At
  <2>3. QED BY <2>1, <2>2
<1>5. QED BY <1>2, <1>3, <1>4 DEF Works

LEMMA WorksStep ==
  ASSUME LibTypes, DeleteInv, NEW r \in Req, Works(r)
  PROVE  DeleteInv'
<1> DEFINE d == job[r].dev
<1>1. /\ job[r].kind = "delete" /\ \A q \in Req \ {r} : job'[q] = job[q]
      /\ UNCHANGED <<assigned, devs, values, linked, crossed, failed>> /\ tied \subseteq tied'
  BY WorksSlot
<1>2. Of(d) \subseteq {p \in Pairs : p[2] = d}
  BY DEF Of, LibTypes
<1>3. OwnPairs'
  <2>1. job[r].gone \cup job[r].seen \subseteq {p \in Pairs : p[2] = d}
    BY <1>1 DEF DeleteInv, OwnPairs
  <2>2. job'[r].kind = "delete" =>
          job'[r].gone \cup job'[r].seen \subseteq {p \in Pairs : p[2] = job'[r].dev}
    BY <1>2, <2>1, WorksSlot
  <2>3. QED BY <1>1, <2>2 DEF DeleteInv, OwnPairs
<1>4. KeysHold'
  BY <1>1 DEF DeleteInv, KeysHold
<1>5. \A x, w : Of(x)' = Of(x) /\ ValuesOf(x)' = ValuesOf(x) /\ (Bare(x, w) => Bare(x, w)')
  BY <1>1 DEF Of, ValuesOf, Bare
<1>6. d \in devs \ (crossed \cup tied) =>
        /\ job[r].pc # "begin" => Bare(d, job[r].wiped)
        /\ job[r].pc = "flush" => job[r].gone = Of(d)
  BY <1>1 DEF DeleteInv, SeesAll
<1>7. SeesAll'
  <2>1. job'[r].kind = "delete" /\ job'[r].dev \in devs' \ (crossed' \cup tied') =>
          /\ job'[r].pc # "begin" => Bare(job[r].dev, job[r].wiped)'
          /\ job'[r].pc = "flush" => job'[r].gone = Of(job[r].dev)'
          /\ job'[r].pc = "commit" => job'[r].gone \cup job'[r].seen = Of(job[r].dev)'
    <3> SUFFICES ASSUME job'[r].kind = "delete", job'[r].dev \in devs' \ (crossed' \cup tied')
                 PROVE  /\ Bare(job'[r].dev, job'[r].wiped)
                        /\ job'[r].pc = "flush" => job'[r].gone = Of(job'[r].dev)
                        /\ job'[r].pc = "commit" =>
                             job'[r].gone \cup job'[r].seen = Of(job'[r].dev)
      BY <1>1 DEF Of, ValuesOf, Bare
    <3>1. CASE job'[r].pc = "mibs"
      <4>1. job'[r].dev = d /\ job'[r].wiped = ValuesOf(d) /\ (d \in linked => d \in tied')
        BY <3>1, WorksSlot
      <4>2. d \notin linked
        BY <4>1
      <4>3. QED BY <3>1, <4>1, <4>2 DEF Bare
    <3>2. CASE job'[r].pc # "mibs"
      <4>1. /\ job'[r].dev = d /\ job'[r].wiped = job[r].wiped
            /\ \/ job'[r].pc = "flush" /\ job[r].pc = "mibs" /\ job'[r].gone = Of(d)
               \/ /\ job'[r].pc = "commit" /\ job[r].pc = "flush"
                  /\ job'[r].gone = job[r].gone /\ job'[r].seen = Of(d) \ job[r].gone
        BY <3>2, WorksSlot
      <4>2. d \in devs \ (crossed \cup tied)
        BY <1>1, <4>1
      <4>3. Bare(d, job[r].wiped) /\ (job[r].pc = "flush" => job[r].gone = Of(d))
        BY <1>6, <4>1, <4>2
      <4>4. QED BY <4>1, <4>3
    <3>3. QED BY <3>1, <3>2
  <2>2. ASSUME NEW q \in Req \ {r}, job'[q].kind = "delete",
               job'[q].dev \in devs' \ (crossed' \cup tied')
        PROVE  /\ job'[q].pc # "begin" => Bare(job[q].dev, job[q].wiped)'
               /\ job'[q].pc = "flush" => job'[q].gone = Of(job[q].dev)'
               /\ job'[q].pc = "commit" => job'[q].gone \cup job'[q].seen = Of(job[q].dev)'
    <3>1. job'[q] = job[q] /\ job[q].dev \in devs \ (crossed \cup tied)
      BY <1>1, <2>2
    <3>2. /\ job[q].pc # "begin" => Bare(job[q].dev, job[q].wiped)
          /\ job[q].pc = "flush" => job[q].gone = Of(job[q].dev)
          /\ job[q].pc = "commit" => job[q].gone \cup job[q].seen = Of(job[q].dev)
      BY <2>2, <3>1 DEF DeleteInv, SeesAll
    <3>3. QED BY <1>1, <3>1, <3>2 DEF Of, ValuesOf, Bare
  <2>3. QED BY <2>1, <2>2 DEF SeesAll
<1>8. StrippedExplained'
  <2>1. CASE stripped' = stripped
    BY <1>1, <2>1 DEF DeleteInv, StrippedExplained
  <2>2. CASE /\ job[r].pc = "flush" /\ ~Bare(d, job[r].wiped)
             /\ stripped' = stripped \cup {d}
    <3>1. d \in devs
      BY <2>2 DEF DeleteInv, KeysHold, Bare, ValuesOf
    <3>2. d \in crossed \cup tied
      BY <1>6, <2>2, <3>1
    <3>3. QED BY <1>1, <2>2, <3>2 DEF DeleteInv, StrippedExplained
  <2>3. QED BY <2>1, <2>2, WorksSlot
<1>9. QED BY <1>3, <1>4, <1>7, <1>8 DEF DeleteInv

\* A row that names a device comes, or goes.
LEMMA RowsStep ==
  ASSUME LibTypes, DeleteInv, NEW r \in Req,
         CommitAssign(r) \/ Unassign(r) \/ Elsewhere(r)
  PROVE  DeleteInv'
<1>1. CASE CommitAssign(r)
  <2> DEFINE m == job[r].mib
             d == job[r].dev
  <2>1. /\ job'[r].kind = "idle" /\ (\A q \in Req \ {r} : job'[q] = job[q])
        /\ UNCHANGED <<devs, values, linked, tied, failed, stripped>>
    BY <1>1, EndsAlone DEF CommitAssign
  <2>2. CASE UNCHANGED <<assigned, crossed>>
    BY <2>1, <2>2, DeletesUntouched DEF Same
  <2>3. CASE ~UNCHANGED <<assigned, crossed>>
    <3>1. assigned' = assigned \cup {<<m, d>>} /\ Crosses(d)
      BY <1>1, <2>3 DEF CommitAssign
    <3>2. \A x \in Dev \ {d} : Of(x)' = Of(x) /\ ValuesOf(x)' = ValuesOf(x)
      BY <2>1, <3>1 DEF Of, ValuesOf
    <3>3. KeysHold'
      BY <2>1 DEF DeleteInv, KeysHold
    <3>4. QED BY <2>1, <3>1, <3>2, <3>3, RowsChanged
  <2>4. QED BY <2>2, <2>3
<1>2. CASE Unassign(r)
  <2>1. UNCHANGED <<job, devs, values, linked, tied, failed, stripped>>
    BY <1>2 DEF Unassign
  <2>2. PICK pair \in assigned : assigned' = assigned \ {pair} /\ Crosses(pair[2])
    BY <1>2 DEF Unassign
  <2>3. \A x \in Dev \ {pair[2]} : Of(x)' = Of(x) /\ ValuesOf(x)' = ValuesOf(x)
    BY <2>1, <2>2 DEF Of, ValuesOf
  <2>4. KeysHold'
    BY <2>1 DEF DeleteInv, KeysHold
  <2>5. QED BY <2>1, <2>2, <2>3, <2>4, RowsChanged
<1>3. CASE PutOid(r)
  <2>1. UNCHANGED <<job, devs, assigned, linked, tied, failed, stripped>>
    BY <1>3 DEF PutOid
  <2>2. PICK o \in Oid, d \in devs : values' = values \cup {<<o, d>>} /\ Crosses(d)
    BY <1>3 DEF PutOid
  <2>3. \A x \in Dev \ {d} : Of(x)' = Of(x) /\ ValuesOf(x)' = ValuesOf(x)
    BY <2>1, <2>2 DEF Of, ValuesOf
  <2>4. KeysHold'
    BY <2>1, <2>2 DEF DeleteInv, KeysHold
  <2>5. QED BY <2>1, <2>2, <2>3, <2>4, RowsChanged
<1>4. CASE Link(r)
  <2>1. UNCHANGED <<job, devs, assigned, values, tied, failed, stripped>>
    BY <1>4 DEF Link
  <2>2. PICK d \in devs : linked' = linked \cup {d} /\ Crosses(d)
    BY <1>4 DEF Link
  <2>3. \A x \in Dev \ {d} : /\ Of(x)' = Of(x) /\ ValuesOf(x)' = ValuesOf(x)
                             /\ x \in linked' => x \in linked
    BY <2>1, <2>2 DEF Of, ValuesOf
  <2>4. KeysHold'
    BY <2>1, <2>2 DEF DeleteInv, KeysHold
  <2>5. QED BY <2>1, <2>2, <2>3, <2>4, RowsChanged
<1>5. CASE DeleteOid(r) \/ Unlink(r)
  <2>1. /\ UNCHANGED <<job, assigned, devs, crossed, tied, failed, stripped>>
        /\ values' \subseteq values /\ linked' \subseteq linked
    BY <1>5 DEF DeleteOid, Unlink, history, deletes
  <2>2. QED BY <2>1, DeletesUntouched DEF Same
<1>6. QED BY <1>1, <1>2, <1>3, <1>4, <1>5 DEF Elsewhere

(* DELETE /devices/{id} is refused with the container already removed only *)
(* when a link named the device as it set to work, when a MIB, an OID      *)
(* value or a link of the device came, or a MIB went, while it was at      *)
(* work, or when the database failed under it: otherwise it has deleted or *)
(* loaded every row that names the device.                                 *)
THEOREM StrippedAlwaysExplained == LibSpec => []StrippedExplained
<1>1. LibInit => DeleteInv
  BY IdleType DEF LibInit, DeleteInv, OwnPairs, KeysHold, SeesAll, StrippedExplained
<1>2. LibTypes /\ DeleteInv /\ [LibNext]_libVars => DeleteInv'
  <2> SUFFICES ASSUME LibTypes, DeleteInv, [LibNext]_libVars PROVE DeleteInv'
    OBVIOUS
  <2>1. ASSUME NEW r \in Req, Upload(r) PROVE DeleteInv'
    <3>1. UNCHANGED <<tables, deletes>>
      BY <2>1 DEF Upload
    <3>2. PICK f \in File, c \in Content :
            \/ UNCHANGED job
            \/ job' = [q \in Req |->
                 IF q = r THEN [Idle EXCEPT !.kind = "upload", !.pc = "select", !.file = f,
                                            !.raw = c, !.alone = (Uploading(Stem[f]) = {})]
                 ELSE IF q \in Uploading(Stem[f]) THEN [job[q] EXCEPT !.alone = FALSE]
                 ELSE job[q]]
      BY <2>1 DEF Upload
    <3>3. ASSUME NEW q \in Req PROVE Same(q) \/ job'[q].kind # "delete"
      <4>1. job[q] \in Job
        BY DEF LibTypes
      <4>2. \/ job'[q] = job[q] \/ job'[q] = [job[q] EXCEPT !.alone = FALSE]
            \/ job'[q] = [Idle EXCEPT !.kind = "upload", !.pc = "select", !.file = f,
                                      !.raw = c, !.alone = (Uploading(Stem[f]) = {})]
        BY <3>2 DEF LibTypes
      <4>3. [Idle EXCEPT !.kind = "upload", !.pc = "select", !.file = f,
                         !.raw = c, !.alone = (Uploading(Stem[f]) = {})].kind = "upload"
        BY DEF Idle
      <4>4. QED BY <4>1, <4>2, <4>3 DEF Same, Job
    <3>4. QED BY <3>1, <3>3, DeletesUntouched DEF tables, deletes
  <2>2. ASSUME NEW r \in Req, SelectMib(r) \/ CheckAssigned(r) PROVE DeleteInv'
    <3>1. job[r] \in Job /\ job[r].kind # "delete" /\ UNCHANGED <<tables, deletes>>
      BY <2>2 DEF SelectMib, CheckAssigned, At, LibTypes, history
    <3>2. PICK j : Goes(r, j) /\ j.kind # "delete"
      <4>1. CASE SelectMib(r)
        <5>1. PICK m : Goes(r, [job[r] EXCEPT !.pc = "commit", !.row = m])
          BY <4>1 DEF SelectMib
        <5>2. [job[r] EXCEPT !.pc = "commit", !.row = m].kind = job[r].kind
          BY <3>1 DEF Job
        <5>3. QED BY <3>1, <5>1, <5>2
      <4>2. CASE CheckAssigned(r)
        <5>1. [job[r] EXCEPT !.pc = "commit"].kind = job[r].kind
          BY <3>1 DEF Job
        <5>2. QED BY <3>1, <4>2, <5>1, IdleType DEF CheckAssigned, Ends
      <4>3. QED BY <2>2, <4>1, <4>2
    <3>3. job'[r].kind # "delete" /\ \A q \in Req \ {r} : job'[q] = job[q]
      BY <3>2 DEF Goes, LibTypes
    <3>4. QED BY <3>1, <3>3, DeletesUntouched DEF Same, tables, deletes
  <2>3. ASSUME NEW r \in Req, CommitMib(r) \/ Abort(r) PROVE DeleteInv'
    <3>1. /\ Ends(r) /\ UNCHANGED <<assigned, devs, values, linked, crossed, tied>>
          /\ failed \subseteq failed' /\ stripped' \subseteq stripped \cup failed'
      BY <2>3 DEF CommitMib, Abort, tables, deletes
    <3>2. QED BY <3>1, EndsAlone, DeletesUntouched DEF Same
  <2>4. ASSUME NEW r \in Req, Assign(r) \/ DeleteDevice(r) PROVE DeleteInv'
    <3>1. UNCHANGED <<tables, deletes>>
      BY <2>4 DEF Assign, DeleteDevice, history
    <3>2. \/ UNCHANGED job
          \/ \E j : /\ Goes(r, j)
                    /\ j.kind # "delete" \/ (j.pc = "begin" /\ j.gone = {} /\ j.seen = {})
      <4>1. CASE Assign(r)
        <5>1. PICK m \in mibs, d \in Dev :
                \/ UNCHANGED job
                \/ Goes(r, [Idle EXCEPT !.kind = "assign", !.pc = "check", !.mib = m.id,
                                        !.dev = d])
          BY <4>1 DEF Assign
        <5>2. [Idle EXCEPT !.kind = "assign", !.pc = "check", !.mib = m.id,
                           !.dev = d].kind = "assign"
          BY DEF Idle
        <5>3. QED BY <5>1, <5>2
      <4>2. CASE DeleteDevice(r)
        <5>1. PICK d \in devs :
                Goes(r, [Idle EXCEPT !.kind = "delete", !.pc = "begin", !.dev = d])
          BY <4>2 DEF DeleteDevice
        <5>2. /\ [Idle EXCEPT !.kind = "delete", !.pc = "begin", !.dev = d].pc = "begin"
              /\ [Idle EXCEPT !.kind = "delete", !.pc = "begin", !.dev = d].gone = {}
              /\ [Idle EXCEPT !.kind = "delete", !.pc = "begin", !.dev = d].seen = {}
          BY DEF Idle
        <5>3. QED BY <5>1, <5>2
      <4>3. QED BY <2>4, <4>1, <4>2
    <3>3. CASE UNCHANGED job
      BY <3>1, <3>3, DeletesUntouched DEF Same, tables, deletes
    <3>4. CASE ~UNCHANGED job
      <4>1. PICK j : /\ Goes(r, j)
                     /\ j.kind # "delete" \/ (j.pc = "begin" /\ j.gone = {} /\ j.seen = {})
        BY <3>2, <3>4
      <4>2. job'[r] = j /\ \A q \in Req \ {r} : job'[q] = job[q]
        BY <4>1 DEF Goes, LibTypes
      <4>3. QED BY <3>1, <4>1, <4>2, DeletesUntouched DEF Same, tables, deletes
    <3>5. QED BY <3>3, <3>4
  <2>5. CASE UNCHANGED libVars
    BY <2>5, DeletesUntouched DEF libVars, tables, history, deletes, Same
  <2>6. QED
    BY <2>1, <2>2, <2>3, <2>4, <2>5, CommitDeleteStep, WorksStep, RowsStep
       DEF LibNext, Elsewhere, Works
<1>3. DeleteInv => StrippedExplained
  BY DEF DeleteInv
<1>4. QED BY <1>1, <1>2, <1>3, LibTypesCorrect, PTL DEF LibSpec

-----------------------------------------------------------------------------
(* What the steps do to files, sidecars and rows.                          *)
Uploads == {r \in Req : job[r].kind = "upload"}
Kept(f) == files[f] # None

\* No two files of the library have this name.
OneFile(n) == \A f, g \in File : Kept(f) /\ Kept(g) /\ Stem[f] = n /\ Stem[g] = n => f = g

StoreTyped ==
  /\ files \in [File -> Content \cup {None}] /\ trees \in [Name -> Content \cup {None}]
  /\ IsFiniteSet({f \in File : Kept(f)})

IdsOwn ==
  /\ \A m \in mibs : m.id \in 1 .. Cardinality(mibs)
  /\ \A k, m \in mibs : k.id = m.id => k = m

\* A row's file is there, and so is that of an upload at work.
RowsFiled ==
  /\ \A m \in mibs : Kept(m.filename) /\ Stem[m.filename] = m.name
  /\ \A r \in Uploads : Kept(job[r].file)

\* The row an upload goes on with is one of its MIB.
RowsRead ==
  \A r \in Uploads : job[r].row # None =>
    /\ job[r].row.id \in 1 .. Cardinality(mibs)
    /\ \A m \in mibs : m.id = job[r].row.id => m.name = Stem[job[r].file]

FileInv == StoreTyped /\ IdsOwn /\ RowsFiled /\ RowsRead

\* What was accepted last compiles, and what it imports is there.
Sound(n) ==
  /\ Found(files, n) \subseteq Good
  /\ \A c \in Found(files, n) : \A k \in Needs[c] : Found(files, k) # {}

SoundInv == \A n \in Name : OneFile(n) /\ n \notin spoiled => Sound(n)

Fresh(n, f, c) == trees[n] = c /\ (files[f] = c \/ n \in spoiled)

\* An upload that nobody joined has the MIB to itself,...
AloneInv ==
  \A r \in Uploads :
    LET n == Stem[job[r].file] IN
    job[r].alone =>
      /\ Uploading(n) = {r}
      /\ OneFile(n) => Fresh(n, job[r].file, job[r].raw)
      /\ job[r].pc = "commit" =>
           IF job[r].row = None THEN \A m \in mibs : m.name # n
                                ELSE job[r].row \in mibs /\ job[r].row.name = n

\* ... one that was joined is on record,...
JoinedSeen == \A r \in Uploads : ~job[r].alone => Stem[job[r].file] \in unsure

\* ... and what the last one left agrees.
RowsFresh ==
  \A m \in mibs :
    /\ \A k \in mibs : k.name = m.name => k = m
    /\ OneFile(m.name) /\ Uploading(m.name) = {} /\ m.name \notin unsure
    => Fresh(m.name, m.filename, m.raw)

CopyInv == AloneInv /\ JoinedSeen /\ RowsFresh

\* Each row, and each upload at work, was a request.
Counted ==
  /\ IsFiniteSet(Uploads) /\ Cardinality(mibs) + Cardinality(Uploads) <= count
  /\ count \in 0 .. MaxRequests /\ faults \in 0 .. MaxFaults
  /\ \A r \in Req : job[r].kind = "assign" => job[r].mib \in 1 .. MaxRequests
  /\ \A p \in assigned : p[1] \in 1 .. MaxRequests

\* The steps, as far as they meet files, sidecars, rows and uploads: none...
Aside ==
  /\ UNCHANGED <<store, mibs, unsure, spoiled>>
  /\ \A q \in Req : job'[q] = job[q] \/ (job[q].kind # "upload" /\ job'[q].kind # "upload")

\* ... an upload that goes away,...
Drops(r) ==
  /\ r \in Uploads /\ job'[r].kind = "idle" /\ \A q \in Req \ {r} : job'[q] = job[q]
  /\ UNCHANGED <<store, mibs, spoiled>> /\ unsure' = unsure \cup {Stem[job[r].file]}

\* ... one that is refused,...
Refuses(f, c) ==
  /\ files' = [files EXCEPT ![f] = c] /\ spoiled' = spoiled \cup {Stem[f]}
  /\ UNCHANGED <<trees, job, mibs, unsure>>

\* ... one that is accepted,...
SameButAlone(q) ==
  /\ job'[q].kind = job[q].kind /\ job'[q].pc = job[q].pc /\ job'[q].file = job[q].file
  /\ job'[q].raw = job[q].raw /\ job'[q].row = job[q].row /\ job'[q].mib = job[q].mib

Accepts(r, f, c) ==
  LET n == Stem[f] IN
  /\ r \notin Uploads /\ files' = [files EXCEPT ![f] = c]
  /\ \E read \in Found(files', n) :
       Accepted(files', n, read) /\ trees' = [trees EXCEPT ![n] = read]
  /\ job'[r].kind = "upload" /\ job'[r].pc = "select" /\ job'[r].file = f
  /\ job'[r].raw = c /\ job'[r].row = None /\ job'[r].alone = (Uploading(n) = {})
  /\ \A q \in Req \ {r} :
       SameButAlone(q) /\ job'[q].alone = IF q \in Uploading(n) THEN FALSE ELSE job[q].alone
  /\ unsure' = IF Uploading(n) = {} THEN unsure ELSE unsure \cup {n}
  /\ spoiled' = spoiled \ {n} /\ mibs' = mibs

\* ... and one that looks for its row, and the commit.
Selects(r, m) ==
  /\ r \in Uploads /\ job'[r].kind = "upload" /\ job'[r].file = job[r].file
  /\ job'[r].raw = job[r].raw /\ job'[r].alone = job[r].alone /\ job'[r].row = m
  /\ \A q \in Req \ {r} : job'[q] = job[q]
  /\ m = None => RowsFor(job[r].file) = {}
  /\ m # None => m \in RowsFor(job[r].file)
  /\ UNCHANGED <<store, mibs, unsure, spoiled>>

Commits(r) ==
  LET j == job[r] IN
  /\ r \in Uploads /\ j.pc = "commit"
  /\ mibs' = IF j.row = None
               THEN mibs \cup {[id |-> Cardinality(mibs) + 1, name |-> Stem[j.file],
                                filename |-> j.file, raw |-> j.raw]}
               ELSE {Written(m, j) : m \in mibs}
  /\ job'[r].kind = "idle" /\ \A q \in Req \ {r} : job'[q] = job[q]
  /\ unsure' = IF j.alone THEN unsure \ {Stem[j.file]} ELSE unsure
  /\ UNCHANGED <<store, spoiled>>

LibStep ==
  \/ Aside
  \/ \E r \in Req :
       \/ Drops(r) \/ Commits(r)
       \/ \E m \in mibs \cup {None} : Selects(r, m)
       \/ \E f \in File, c \in Content : Accepts(r, f, c) \/ Refuses(f, c)

LEMMA UploadShape ==
  ASSUME LibTypes, NEW r \in Req, Upload(r)
  PROVE  \E f \in File, c \in Content : Accepts(r, f, c) \/ Refuses(f, c)
<1> DEFINE New(f, c) == [Idle EXCEPT !.kind = "upload", !.pc = "select", !.file = f,
                                     !.raw = c, !.alone = (Uploading(Stem[f]) = {})]
<1>0. PICK f \in File, c \in Content :
        /\ job[r] = Idle /\ files' = [files EXCEPT ![f] = c] /\ mibs' = mibs
        /\ \E read \in Found([files EXCEPT ![f] = c], Stem[f]) :
             IF Accepted([files EXCEPT ![f] = c], Stem[f], read)
               THEN /\ trees' = [trees EXCEPT ![Stem[f]] = read]
                    /\ job' = [q \in Req |->
                         IF q = r THEN New(f, c)
                         ELSE IF q \in Uploading(Stem[f]) THEN [job[q] EXCEPT !.alone = FALSE]
                         ELSE job[q]]
                    /\ unsure' = IF Uploading(Stem[f]) = {} THEN unsure
                                 ELSE unsure \cup {Stem[f]}
                    /\ spoiled' = spoiled \ {Stem[f]}
               ELSE spoiled' = spoiled \cup {Stem[f]} /\ UNCHANGED <<trees, job, unsure>>
  BY DEF Upload, Arrives, tables
<1>1. PICK read \in Found([files EXCEPT ![f] = c], Stem[f]) :
        IF Accepted([files EXCEPT ![f] = c], Stem[f], read)
          THEN /\ trees' = [trees EXCEPT ![Stem[f]] = read]
               /\ job' = [q \in Req |->
                    IF q = r THEN New(f, c)
                    ELSE IF q \in Uploading(Stem[f]) THEN [job[q] EXCEPT !.alone = FALSE]
                    ELSE job[q]]
               /\ unsure' = IF Uploading(Stem[f]) = {} THEN unsure ELSE unsure \cup {Stem[f]}
               /\ spoiled' = spoiled \ {Stem[f]}
          ELSE spoiled' = spoiled \cup {Stem[f]} /\ UNCHANGED <<trees, job, unsure>>
  BY <1>0
<1>2. CASE ~Accepted([files EXCEPT ![f] = c], Stem[f], read)
  BY <1>0, <1>1, <1>2 DEF Refuses
<1>3. CASE Accepted([files EXCEPT ![f] = c], Stem[f], read)
  <2>1. /\ New(f, c).kind = "upload" /\ New(f, c).pc = "select" /\ New(f, c).file = f
        /\ New(f, c).raw = c /\ New(f, c).row = None
        /\ New(f, c).alone = (Uploading(Stem[f]) = {})
    BY DEF Idle
  <2> HIDE DEF New
  <2>2. job'[r] = New(f, c) /\ r \notin Uploads
    BY <1>0, <1>1, <1>3, IdleType DEF Uploads
  <2>3. ASSUME NEW q \in Req \ {r}
        PROVE  /\ SameButAlone(q)
               /\ job'[q].alone = IF q \in Uploading(Stem[f]) THEN FALSE ELSE job[q].alone
    <3>1. job'[q] = IF q \in Uploading(Stem[f]) THEN [job[q] EXCEPT !.alone = FALSE] ELSE job[q]
      BY <1>0, <1>1, <1>3
    <3>2. job[q] \in Job
      BY DEF LibTypes
    <3>3. /\ [job[q] EXCEPT !.alone = FALSE].kind = job[q].kind
          /\ [job[q] EXCEPT !.alone = FALSE].pc = job[q].pc
          /\ [job[q] EXCEPT !.alone = FALSE].file = job[q].file
          /\ [job[q] EXCEPT !.alone = FALSE].raw = job[q].raw
          /\ [job[q] EXCEPT !.alone = FALSE].row = job[q].row
          /\ [job[q] EXCEPT !.alone = FALSE].mib = job[q].mib
          /\ [job[q] EXCEPT !.alone = FALSE].alone = FALSE
      BY <3>2 DEF Job
    <3>4. QED BY <3>1, <3>3 DEF SameButAlone
  <2>4. QED BY <1>0, <1>1, <1>3, <2>1, <2>2, <2>3 DEF Accepts
<1>4. QED BY <1>2, <1>3

LEMMA SelectShape ==
  ASSUME LibTypes, NEW r \in Req, SelectMib(r)
  PROVE  \E m \in mibs \cup {None} : Selects(r, m)
<1>1. PICK m \in IF RowsFor(job[r].file) = {} THEN {None} ELSE RowsFor(job[r].file) :
        Goes(r, [job[r] EXCEPT !.pc = "commit", !.row = m])
  BY DEF SelectMib
<1>2. /\ job[r] \in Job /\ job[r].kind = "upload" /\ r \in Uploads
      /\ UNCHANGED <<store, mibs, unsure, spoiled>>
  BY DEF SelectMib, At, LibTypes, Uploads, tables, history
<1>3. /\ [job[r] EXCEPT !.pc = "commit", !.row = m].kind = "upload"
      /\ [job[r] EXCEPT !.pc = "commit", !.row = m].file = job[r].file
      /\ [job[r] EXCEPT !.pc = "commit", !.row = m].raw = job[r].raw
      /\ [job[r] EXCEPT !.pc = "commit", !.row = m].alone = job[r].alone
      /\ [job[r] EXCEPT !.pc = "commit", !.row = m].row = m
  BY <1>2 DEF Job
<1>4. /\ job'[r] = [job[r] EXCEPT !.pc = "commit", !.row = m]
      /\ \A q \in Req \ {r} : job'[q] = job[q]
  BY <1>1 DEF Goes, LibTypes
<1>5. None \notin mibs
  BY MibLibraryAssumption DEF LibTypes, MibRow
<1>6. /\ m = None => RowsFor(job[r].file) = {}
      /\ m # None => m \in RowsFor(job[r].file)
      /\ m \in mibs \cup {None}
  BY <1>1, <1>5 DEF RowsFor
<1>7. QED BY <1>2, <1>3, <1>4, <1>6 DEF Selects

LEMMA CommitShape ==
  ASSUME LibTypes, NEW r \in Req, CommitMib(r) PROVE Commits(r)
<1>1. job'[r].kind = "idle" /\ \A q \in Req \ {r} : job'[q] = job[q]
  BY EndsAlone DEF CommitMib
<1>2. r \in Uploads /\ job[r].pc = "commit"
  BY DEF CommitMib, At, Uploads
<1>3. QED BY <1>1, <1>2 DEF CommitMib, Commits

\* An assignment names a MIB that has, or had, a row.
AssignKept(q) ==
  \/ job[q].kind = "assign" /\ job'[q].mib = job[q].mib
  \/ \E m \in mibs : job'[q].mib = m.id

\* The requests about assignments and devices.
LEMMA OthersShape ==
  ASSUME LibTypes, NEW r \in Req,
         \/ Assign(r) \/ CheckAssigned(r) \/ CommitAssign(r) \/ DeleteDevice(r)
         \/ Works(r) \/ CommitDelete(r) \/ Unassign(r) \/ Elsewhere(r)
  PROVE  /\ Aside
         /\ \A q \in Req : job'[q].kind = "assign" => AssignKept(q)
<1>1. UNCHANGED <<store, mibs, unsure, spoiled>>
  BY WorksShape
     DEF Assign, CheckAssigned, CommitAssign, DeleteDevice, CommitDelete, Unassign, Elsewhere,
         PutOid, DeleteOid, Link, Unlink, store, tables, history
<1>2. \/ UNCHANGED job
      \/ \E j : /\ Goes(r, j) /\ job[r].kind # "upload" /\ j.kind # "upload"
                /\ j.kind = "assign" => \/ job[r].kind = "assign" /\ j.mib = job[r].mib
                                      \/ \E m \in mibs : j.mib = m.id
  <2>1. CASE Unassign(r) \/ Elsewhere(r)
    BY <2>1 DEF Unassign, Elsewhere, PutOid, DeleteOid, Link, Unlink
  <2>2. CASE Assign(r)
    <3>1. PICK m \in mibs, d \in Dev :
            /\ job[r] = Idle
            /\ \/ UNCHANGED job
               \/ Goes(r, [Idle EXCEPT !.kind = "assign", !.pc = "check", !.mib = m.id,
                                       !.dev = d])
      BY <2>2 DEF Assign, Arrives
    <3>2. /\ [Idle EXCEPT !.kind = "assign", !.pc = "check", !.mib = m.id,
                          !.dev = d].kind = "assign"
          /\ [Idle EXCEPT !.kind = "assign", !.pc = "check", !.mib = m.id, !.dev = d].mib = m.id
      BY DEF Idle
    <3>3. QED BY <3>1, <3>2, IdleType
  <2>3. CASE DeleteDevice(r)
    <3>1. PICK d \in devs :
            /\ job[r] = Idle
            /\ Goes(r, [Idle EXCEPT !.kind = "delete", !.pc = "begin", !.dev = d])
      BY <2>3 DEF DeleteDevice, Arrives
    <3>2. [Idle EXCEPT !.kind = "delete", !.pc = "begin", !.dev = d].kind = "delete"
      BY DEF Idle
    <3>3. QED BY <3>1, <3>2, IdleType
  <2>4. CASE CheckAssigned(r)
    <3>1. job[r].kind = "assign" /\ job[r] \in Job
      BY <2>4 DEF CheckAssigned, At, LibTypes
    <3>2. /\ [job[r] EXCEPT !.pc = "commit"].kind = "assign"
          /\ [job[r] EXCEPT !.pc = "commit"].mib = job[r].mib
      BY <3>1 DEF Job
    <3>3. QED BY <2>4, <3>1, <3>2, IdleType DEF CheckAssigned, Ends
  <2>5. CASE CommitAssign(r) \/ CommitDelete(r)
    BY <2>5, IdleType DEF CommitAssign, CommitDelete, Ends, At
  <2>6. CASE Works(r)
    BY <2>6, WorksShape
  <2>7. QED BY <2>1, <2>2, <2>3, <2>4, <2>5, <2>6
<1>3. CASE UNCHANGED job
  BY <1>1, <1>3 DEF Aside, AssignKept
<1>4. CASE ~UNCHANGED job
  <2>1. PICK j : /\ Goes(r, j) /\ job[r].kind # "upload" /\ j.kind # "upload"
                 /\ j.kind = "assign" => \/ job[r].kind = "assign" /\ j.mib = job[r].mib
                                       \/ \E m \in mibs : j.mib = m.id
    BY <1>2, <1>4
  <2>2. job'[r] = j /\ \A q \in Req \ {r} : job'[q] = job[q]
    BY <2>1 DEF Goes, LibTypes
  <2>3. QED BY <1>1, <2>1, <2>2 DEF Aside, AssignKept
<1>5. QED BY <1>3, <1>4

LEMMA AbortShape ==
  ASSUME LibTypes, NEW r \in Req, Abort(r) PROVE Aside \/ Drops(r)
<1>1. job'[r].kind = "idle" /\ \A q \in Req \ {r} : job'[q] = job[q]
  BY EndsAlone DEF Abort
<1>2. UNCHANGED <<store, mibs, spoiled>>
  BY DEF Abort, tables
<1>3. QED BY <1>1, <1>2 DEF Abort, Aside, Drops, Uploads

LEMMA Steps == ASSUME LibTypes, [LibNext]_libVars PROVE LibStep
<1>1. CASE UNCHANGED libVars
  BY <1>1 DEF libVars, tables, history, LibStep, Aside
<1>2. ASSUME NEW r \in Req,
             \/ Upload(r) \/ SelectMib(r) \/ CommitMib(r)
             \/ Assign(r) \/ CheckAssigned(r) \/ CommitAssign(r) \/ Unassign(r) \/ Elsewhere(r)
             \/ DeleteDevice(r) \/ Works(r) \/ CommitDelete(r) \/ Abort(r)
      PROVE  LibStep
  BY <1>2, UploadShape, SelectShape, CommitShape, OthersShape, AbortShape DEF LibStep
<1>3. QED BY <1>1, <1>2 DEF LibNext, Elsewhere, Works

-----------------------------------------------------------------------------
(* Rows and files: every row has its id to itself and its file in the      *)
(* library, and an upload writes to a row of its own MIB.                  *)

LEMMA WrittenKeeps ==
  ASSUME NEW j \in Job, NEW m \in MibRow
  PROVE  /\ Written(m, j).id = m.id /\ Written(m, j).name = m.name
         /\ Written(m, j) # m => m.id = j.row.id
         /\ Written(m, j).filename \in {m.filename, j.file}
         /\ m = j.row => Written(m, j).filename = j.file /\ Written(m, j).raw = j.raw
  BY DEF Written, MibRow

LEMMA UploadTyped ==
  ASSUME LibTypes, NEW r \in Uploads
  PROVE  /\ r \in Req /\ job[r] \in Job /\ job[r].file \in File /\ job[r].raw \in Content
         /\ Stem[job[r].file] \in Name
  BY MibLibraryAssumption DEF LibTypes, Uploads

\* A row after a commit was there before, or is the one inserted.
Inserted(r, m) ==
  /\ job[r].row = None /\ m.id = Cardinality(mibs) + 1 /\ m.name = Stem[job[r].file]
  /\ m.filename = job[r].file /\ m.raw = job[r].raw

LEMMA CommitRows ==
  ASSUME LibTypes, IdsOwn, NEW r \in Req, Commits(r)
  PROVE  /\ Cardinality(mibs) \in Nat /\ Cardinality(mibs') \in Nat
         /\ Cardinality(mibs') \in {Cardinality(mibs), Cardinality(mibs) + 1}
         /\ IdsOwn'
         /\ \A m \in mibs' : \/ Inserted(r, m)
                             \/ /\ job[r].row # None
                                /\ \E k \in mibs : m = Written(k, job[r])
                             \/ job[r].row = None /\ m \in mibs
         /\ \A k \in mibs : \E m \in mibs' : m.id = k.id /\ m.name = k.name
<1>1. r \in Uploads /\ job[r] \in Job /\ IsFiniteSet(mibs) /\ mibs \subseteq MibRow
  BY UploadTyped DEF Commits, LibTypes
<1>2. Cardinality(mibs) \in Nat
  BY <1>1, FS_CardinalityType
<1>3. CASE job[r].row = None
  <2> DEFINE new == [id |-> Cardinality(mibs) + 1, name |-> Stem[job[r].file],
                     filename |-> job[r].file, raw |-> job[r].raw]
  <2>1. mibs' = mibs \cup {new}
    BY <1>3 DEF Commits
  <2>2. new \notin mibs
    <3>1. new.id \notin 1 .. Cardinality(mibs)
      BY <1>2
    <3>2. QED BY <3>1 DEF IdsOwn
  <2>3. Cardinality(mibs') = Cardinality(mibs) + 1
    BY <1>1, <2>1, <2>2, FS_AddElement
  <2>4. Inserted(r, new)
    BY <1>3 DEF Inserted
  <2>5. IdsOwn'
    <3>1. \A m \in mibs : m.id \in 1 .. Cardinality(mibs) /\ m.id # new.id
      BY <1>2 DEF IdsOwn
    <3>2. new.id \in 1 .. Cardinality(mibs')
      BY <1>2, <2>3
    <3>3. \A m \in mibs' : m.id \in 1 .. Cardinality(mibs')
      BY <1>2, <2>1, <2>3, <3>1, <3>2
    <3>4. \A k, m \in mibs' : k.id = m.id => k = m
      <4> HIDE DEF new
      <4>1. QED BY <2>1, <3>1 DEF IdsOwn
    <3>5. QED BY <3>3, <3>4 DEF IdsOwn
  <2> HIDE DEF new
  <2>6. QED BY <1>2, <1>3, <2>1, <2>3, <2>4, <2>5
<1>4. CASE job[r].row # None
  <2> DEFINE W == {Written(m, job[r]) : m \in mibs}
             w == [m \in mibs |-> Written(m, job[r])]
  <2>1. mibs' = W
    BY <1>4 DEF Commits
  <2>2. \A m \in mibs : Written(m, job[r]).id = m.id /\ Written(m, job[r]).name = m.name
    BY <1>1, WrittenKeeps
  <2>3. w \in Surjection(mibs, W)
    BY DEF Surjection
  <2>4. w \in Injection(mibs, W)
    <3>1. w \in [mibs -> W]
      OBVIOUS
    <3>2. \A k, m \in mibs : w[k] = w[m] => k = m
      BY <2>2 DEF IdsOwn
    <3>3. QED BY <3>1, <3>2 DEF Injection, IsInjective
  <2>5. Cardinality(W) = Cardinality(mibs)
    BY <1>1, <2>3, <2>4, FS_Surjection
  <2>6. IdsOwn'
    <3>1. \A m \in W : m.id \in 1 .. Cardinality(mibs)
      BY <2>2 DEF IdsOwn
    <3>2. \A k, m \in W : k.id = m.id => k = m
      BY <2>2 DEF IdsOwn
    <3>3. QED BY <2>1, <2>5, <3>1, <3>2 DEF IdsOwn
  <2>7. QED BY <1>2, <1>4, <2>1, <2>2, <2>5, <2>6
<1>5. QED BY <1>3, <1>4

LEMMA FileInit == LibInit => FileInv
<1> SUFFICES ASSUME LibInit PROVE FileInv
  OBVIOUS
<1>1. Uploads = {} /\ mibs = {} /\ {f \in File : Kept(f)} = {}
  BY IdleType DEF LibInit, Uploads, Kept
<1>2. StoreTyped
  BY <1>1, FS_EmptySet DEF LibInit, StoreTyped
<1>3. QED BY <1>1, <1>2 DEF FileInv, IdsOwn, RowsFiled, RowsRead

\* Writing a file keeps what is there.
LEMMA FileWritten ==
  ASSUME StoreTyped, NEW f \in File, NEW c \in Content, files' = [files EXCEPT ![f] = c]
  PROVE  /\ \A g \in File : Kept(g)' <=> Kept(g) \/ g = f
         /\ \A n : OneFile(n)' => OneFile(n)
         /\ OneFile(Stem[f])' => Found(files', Stem[f]) = {c}
         /\ \A n : n # Stem[f] => Found(files', n) = Found(files, n) /\ (OneFile(n) => OneFile(n)')
         /\ Found(files', Stem[f]) # {}
         /\ files' \in [File -> Content \cup {None}] /\ IsFiniteSet({g \in File : Kept(g)'})
<1>1. c # None
  BY MibLibraryAssumption
<1>2. files' \in [File -> Content \cup {None}] /\ files'[f] = c
      /\ \A g \in File \ {f} : files'[g] = files[g]
  BY DEF StoreTyped
<1>3. \A g \in File : Kept(g)' <=> Kept(g) \/ g = f
  BY <1>1, <1>2 DEF Kept
<1>4. \A n : OneFile(n)' => OneFile(n)
  BY <1>3 DEF OneFile
<1>5. ASSUME OneFile(Stem[f])' PROVE Found(files', Stem[f]) = {c}
  <2>1. \A g \in File : Stem[g] = Stem[f] /\ files'[g] # None => g = f
    BY <1>3, <1>5 DEF OneFile, Kept
  <2>2. QED BY <1>1, <1>2, <2>1 DEF Found
<1>6. ASSUME NEW n, n # Stem[f]
      PROVE  Found(files', n) = Found(files, n) /\ (OneFile(n) => OneFile(n)')
  <2>1. {g \in File : Stem[g] = n /\ files'[g] # None} = {g \in File : Stem[g] = n /\ files[g] # None}
    BY <1>2, <1>6
  <2>2. Found(files', n) = Found(files, n)
    BY <1>2, <1>6, <2>1 DEF Found
  <2>3. QED BY <1>3, <1>6, <2>2 DEF OneFile
<1>7. Found(files', Stem[f]) # {}
  BY <1>1, <1>2 DEF Found
<1>8. IsFiniteSet({g \in File : Kept(g)'})
  <2>1. {g \in File : Kept(g)'} = {g \in File : Kept(g)} \cup {f}
    BY <1>3
  <2>2. QED BY <2>1, FS_AddElement DEF StoreTyped
<1>9. QED BY <1>2, <1>3, <1>4, <1>5, <1>6, <1>7, <1>8

\* An upload that goes on, in another step's sight, holds what it held.
LEMMA UploadsGoOn ==
  ASSUME LibTypes, NEW q \in Req, job'[q].kind = "upload",
         \/ Aside \/ \E r \in Req : Drops(r) \/ Commits(r)
         \/ \E f \in File, c \in Content : Refuses(f, c)
  PROVE  job'[q] = job[q] /\ q \in Uploads
<1>1. CASE Aside
  BY <1>1 DEF Aside, Uploads
<1>2. CASE \E r \in Req : Drops(r) \/ Commits(r)
  BY <1>2 DEF Drops, Commits, Uploads
<1>3. CASE \E f \in File, c \in Content : Refuses(f, c)
  BY <1>3 DEF Refuses, Uploads
<1>4. QED BY <1>1, <1>2, <1>3

LEMMA AsideFiles ==
  ASSUME LibTypes, FileInv, Aside \/ \E r \in Req : Drops(r) PROVE FileInv'
<1>1. UNCHANGED <<files, trees, mibs>>
  BY DEF Aside, Drops, store
<1>2. \A q \in Req : job'[q].kind = "upload" => job'[q] = job[q] /\ q \in Uploads
  BY UploadsGoOn
<1>3. StoreTyped' /\ IdsOwn'
  BY <1>1 DEF FileInv, StoreTyped, IdsOwn, Kept
<1>4. RowsFiled'
  BY <1>1, <1>2 DEF FileInv, RowsFiled, Kept, Uploads
<1>5. RowsRead'
  BY <1>1, <1>2 DEF FileInv, RowsRead, Uploads
<1>6. QED BY <1>3, <1>4, <1>5 DEF FileInv

LEMMA RefuseFiles ==
  ASSUME LibTypes, FileInv, NEW f \in File, NEW c \in Content, Refuses(f, c)
  PROVE  FileInv'
<1>1. files' = [files EXCEPT ![f] = c] /\ UNCHANGED <<trees, mibs>> /\ StoreTyped
  BY DEF Refuses, FileInv
<1>2. \A q \in Req : job'[q].kind = "upload" => job'[q] = job[q] /\ q \in Uploads
  BY UploadsGoOn
<1>3. StoreTyped'
  BY <1>1, FileWritten DEF StoreTyped
<1>4. IdsOwn'
  BY <1>1 DEF FileInv, IdsOwn
<1>5. \A g \in File : Kept(g) => Kept(g)'
  BY <1>1, FileWritten
<1>6. RowsFiled'
  <2>1. \A m \in mibs : m.filename \in File
    BY DEF LibTypes, MibRow
  <2>2. \A q \in Uploads : job[q].file \in File
    BY UploadTyped
  <2>3. \A m \in mibs : Kept(m.filename)'
    BY <1>5, <2>1 DEF FileInv, RowsFiled
  <2>4. \A q \in Uploads : Kept(job[q].file)'
    <3> TAKE q \in Uploads
    <3>1. PICK g \in File : g = job[q].file
      BY <2>2
    <3>2. Kept(g)'
      BY <1>5, <3>1 DEF FileInv, RowsFiled
    <3>3. job'[q] = job[q]
      BY DEF Refuses
    <3>4. QED BY <3>1, <3>2, <3>3 DEF Kept
  <2>5. job' = job
    BY DEF Refuses
  <2>6. QED BY <1>1, <2>3, <2>4, <2>5 DEF FileInv, RowsFiled, Uploads
<1>7. RowsRead'
  BY <1>1, <1>2 DEF FileInv, RowsRead, Uploads
<1>8. QED BY <1>3, <1>4, <1>6, <1>7 DEF FileInv

LEMMA AcceptFiles ==
  ASSUME LibTypes, FileInv, NEW r \in Req, NEW f \in File, NEW c \in Content, Accepts(r, f, c)
  PROVE  FileInv'
<1>1. files' = [files EXCEPT ![f] = c] /\ mibs' = mibs /\ StoreTyped
  BY DEF Accepts, FileInv
<1>2. StoreTyped'
  <2>1. PICK read \in Found(files', Stem[f]) : trees' = [trees EXCEPT ![Stem[f]] = read]
    BY DEF Accepts
  <2>2. files' \in [File -> Content \cup {None}] /\ IsFiniteSet({g \in File : Kept(g)'})
    BY <1>1, FileWritten
  <2>3. read \in Content
    BY <2>1, <2>2 DEF Found
  <2>4. QED BY <1>1, <2>1, <2>2, <2>3 DEF StoreTyped
<1>3. IdsOwn'
  BY <1>1 DEF FileInv, IdsOwn
<1>4. \A g \in File : Kept(g)' <=> Kept(g) \/ g = f
  BY <1>1, FileWritten
<1>5. ASSUME NEW q \in Req, job'[q].kind = "upload", q # r
      PROVE  q \in Uploads /\ job'[q].file = job[q].file /\ job'[q].row = job[q].row
  BY <1>5 DEF Accepts, SameButAlone, Uploads
<1>6. job'[r].file = f /\ job'[r].row = None
  BY DEF Accepts
<1>7. RowsFiled'
  <2>1. \A m \in mibs : Kept(m.filename)' /\ Stem[m.filename] = m.name
    <3>1. \A m \in mibs : m.filename \in File
      BY DEF LibTypes, MibRow
    <3>2. QED BY <1>4, <3>1 DEF FileInv, RowsFiled
  <2>2. ASSUME NEW q \in Req, job'[q].kind = "upload" PROVE Kept(job[q].file)'
    <3>1. CASE q = r
      <4>1. Kept(f)'
        BY <1>4
      <4>2. QED BY <1>6, <3>1, <4>1 DEF Kept
    <3>2. CASE q # r
      <4>1. PICK g \in File : g = job[q].file
        BY <1>5, <2>2, <3>2, UploadTyped
      <4>2. Kept(g)
        BY <1>5, <2>2, <3>2, <4>1 DEF FileInv, RowsFiled
      <4>3. Kept(g)'
        BY <1>4, <4>2
      <4>4. job'[q].file = g
        BY <1>5, <2>2, <3>2, <4>1
      <4>5. QED BY <4>3, <4>4 DEF Kept
    <3>3. QED BY <3>1, <3>2
  <2>3. QED BY <1>1, <2>1, <2>2 DEF RowsFiled, Uploads
<1>8. RowsRead'
  <2> SUFFICES ASSUME NEW q \in Req, job'[q].kind = "upload", job'[q].row # None
               PROVE  /\ job'[q].row.id \in 1 .. Cardinality(mibs)
                      /\ \A m \in mibs : m.id = job'[q].row.id => m.name = Stem[job'[q].file]
    BY <1>1 DEF RowsRead, Uploads
  <2>1. q # r
    BY <1>6
  <2>2. QED BY <1>5, <2>1 DEF FileInv, RowsRead
<1>9. QED BY <1>2, <1>3, <1>7, <1>8 DEF FileInv

LEMMA SelectFiles ==
  ASSUME LibTypes, FileInv, NEW r \in Req, NEW m \in mibs \cup {None}, Selects(r, m)
  PROVE  FileInv'
<1>1. UNCHANGED <<files, trees, mibs>>
  BY DEF Selects, store
<1>2. StoreTyped' /\ IdsOwn'
  BY <1>1 DEF FileInv, StoreTyped, IdsOwn, Kept
<1>3. \A q \in Req : job'[q].kind = "upload" => q \in Uploads /\ job'[q].file = job[q].file
  BY DEF Selects, Uploads
<1>4. RowsFiled'
  BY <1>1, <1>3 DEF FileInv, RowsFiled, Kept, Uploads
<1>5. RowsRead'
  <2> SUFFICES ASSUME NEW q \in Req, job'[q].kind = "upload", job'[q].row # None
               PROVE  /\ job'[q].row.id \in 1 .. Cardinality(mibs)
                      /\ \A k \in mibs : k.id = job'[q].row.id => k.name = Stem[job'[q].file]
    BY <1>1 DEF RowsRead, Uploads
  <2>1. CASE q = r
    <3>1. m \in mibs /\ m.name = Stem[job[r].file] /\ job'[r].row = m
      BY <2>1 DEF Selects, RowsFor
    <3>2. QED BY <1>3, <2>1, <3>1 DEF FileInv, IdsOwn
  <2>2. CASE q # r
    <3>1. job'[q] = job[q]
      BY <2>2 DEF Selects
    <3>2. QED BY <1>3, <3>1 DEF FileInv, RowsRead
  <2>3. QED BY <2>1, <2>2
<1>6. QED BY <1>2, <1>4, <1>5 DEF FileInv

LEMMA CommitFiles ==
  ASSUME LibTypes, FileInv, NEW r \in Req, Commits(r) PROVE FileInv'
<1>1. UNCHANGED <<files, trees>> /\ r \in Uploads /\ IdsOwn
  BY DEF Commits, store, FileInv
<1>2. \A q \in Req : job'[q].kind = "upload" => job'[q] = job[q] /\ q \in Uploads
  BY UploadsGoOn
<1>3. job[r].file \in File /\ job[r] \in Job /\ mibs \subseteq MibRow
  BY <1>1, UploadTyped DEF LibTypes
<1>4. Kept(job[r].file)
  BY <1>1 DEF FileInv, RowsFiled
<1>5. /\ Cardinality(mibs) \in Nat /\ Cardinality(mibs') \in Nat
      /\ Cardinality(mibs') \in {Cardinality(mibs), Cardinality(mibs) + 1}
      /\ IdsOwn'
      /\ \A m \in mibs' : \/ Inserted(r, m)
                          \/ /\ job[r].row # None
                             /\ \E k \in mibs : m = Written(k, job[r])
                          \/ job[r].row = None /\ m \in mibs
  BY <1>1, CommitRows
<1>6. StoreTyped'
  BY <1>1 DEF FileInv, StoreTyped, Kept
<1>7. ASSUME NEW m \in mibs' PROVE Kept(m.filename) /\ Stem[m.filename] = m.name
  <2>1. CASE Inserted(r, m)
    BY <1>4, <2>1 DEF Inserted
  <2>2. CASE job[r].row = None /\ m \in mibs
    BY <2>2 DEF FileInv, RowsFiled
  <2>3. CASE job[r].row # None /\ \E k \in mibs : m = Written(k, job[r])
    <3>1. PICK k \in mibs : m = Written(k, job[r])
      BY <2>3
    <3>2. Kept(k.filename) /\ Stem[k.filename] = k.name /\ k \in MibRow
      BY <1>3 DEF FileInv, RowsFiled
    <3>3. CASE m = k
      BY <3>2, <3>3
    <3>4. CASE m # k
      <4>1. k.id = job[r].row.id /\ m.name = k.name /\ m.filename \in {k.filename, job[r].file}
        BY <1>3, <3>1, <3>2, <3>4, WrittenKeeps
      <4>2. k.name = Stem[job[r].file]
        BY <1>1, <2>3, <4>1 DEF FileInv, RowsRead
      <4>3. QED BY <1>4, <3>2, <4>1, <4>2
    <3>5. QED BY <3>3, <3>4
  <2>4. QED BY <1>5, <2>1, <2>2, <2>3
<1>8. RowsFiled'
  <2>1. \A m \in mibs' : Kept(m.filename)' /\ Stem[m.filename] = m.name
    BY <1>1, <1>7 DEF Kept
  <2>2. \A q \in Req : job'[q].kind = "upload" => Kept(job[q].file)'
    BY <1>1, <1>2 DEF FileInv, RowsFiled, Kept
  <2>3. QED BY <2>1, <2>2 DEF RowsFiled, Uploads
<1>9. RowsRead'
  <2> SUFFICES ASSUME NEW q \in Req, job'[q].kind = "upload", job'[q].row # None
               PROVE  /\ job'[q].row.id \in 1 .. Cardinality(mibs')
                      /\ \A m \in mibs' : m.id = job'[q].row.id => m.name = Stem[job'[q].file]
    BY DEF RowsRead, Uploads
  <2>1. /\ job'[q] = job[q] /\ job[q].row.id \in 1 .. Cardinality(mibs)
        /\ \A k \in mibs : k.id = job[q].row.id => k.name = Stem[job[q].file]
    BY <1>2 DEF FileInv, RowsRead
  <2>2. ASSUME NEW m \in mibs', m.id = job[q].row.id PROVE m.name = Stem[job[q].file]
    <3>1. ~Inserted(r, m)
      BY <1>5, <2>1, <2>2 DEF Inserted
    <3>2. CASE job[r].row = None /\ m \in mibs
      BY <2>1, <2>2, <3>2
    <3>3. CASE \E k \in mibs : m = Written(k, job[r])
      <4>1. PICK k \in mibs : m.id = k.id /\ m.name = k.name
        BY <1>3, <3>3, WrittenKeeps
      <4>2. QED BY <2>1, <2>2, <4>1
    <3>4. QED BY <1>5, <3>1, <3>2, <3>3
  <2>3. job'[q].row.id \in 1 .. Cardinality(mibs')
    <3>1. PICK i \in Nat : i = Cardinality(mibs)
      BY <1>5
    <3>2. job[q].row.id \in 1 .. i
      BY <2>1, <3>1
    <3>3. Cardinality(mibs') \in {i, i + 1}
      BY <1>5, <3>1
    <3>4. QED BY <2>1, <3>2, <3>3
  <2>4. QED BY <2>1, <2>2, <2>3
<1>10. QED BY <1>5, <1>6, <1>8, <1>9 DEF FileInv

LEMMA FileStep == ASSUME LibTypes, FileInv, LibStep PROVE FileInv'
BY AsideFiles, RefuseFiles, AcceptFiles, SelectFiles, CommitFiles DEF LibStep

-----------------------------------------------------------------------------
(* What was accepted compiles still.                                       *)

\* The modules compiled with one are the least set that holds its imports.
LEMMA ModulesLeast ==
  ASSUME NEW fs \in [File -> Content \cup {None}], NEW n \in Name
  PROVE  /\ Modules(fs, n) \in SUBSET Name /\ n \in Modules(fs, n)
         /\ Closed(fs, Modules(fs, n))
         /\ \A R \in SUBSET Name : n \in R /\ Closed(fs, R) => Modules(fs, n) \subseteq R
<1> DEFINE Least(S) == /\ n \in S /\ Closed(fs, S)
                       /\ \A R \in SUBSET Name : n \in R /\ Closed(fs, R) => S \subseteq R
           L == {k \in Name : \A R \in SUBSET Name : n \in R /\ Closed(fs, R) => k \in R}
<1>1. L \in SUBSET Name /\ n \in L
  OBVIOUS
<1>2. Closed(fs, L)
  <2> SUFFICES ASSUME NEW k \in L, NEW c \in Found(fs, k), NEW j \in Needs[c] PROVE j \in L
    BY DEF Closed
  <2>1. j \in Name
    BY MibLibraryAssumption DEF Found
  <2>2. ASSUME NEW R \in SUBSET Name, n \in R, Closed(fs, R) PROVE j \in R
    BY <2>2 DEF Closed
  <2>3. QED BY <2>1, <2>2
<1>3. \A R \in SUBSET Name : n \in R /\ Closed(fs, R) => L \subseteq R
  OBVIOUS
<1>4. Least(L)
  BY <1>1, <1>2, <1>3
<1>5. Modules(fs, n) = CHOOSE S \in SUBSET Name : Least(S)
  BY DEF Modules
<1> HIDE DEF L
<1>6. Modules(fs, n) \in SUBSET Name /\ Least(Modules(fs, n))
  <2> HIDE DEF Least
  <2>1. QED BY <1>1, <1>4, <1>5
<1>7. QED BY <1>6

\* A name that no step wrote to, in a library that only grows.
LEMMA SoundOn ==
  ASSUME StoreTyped, NEW f \in File, NEW c \in Content, files' = [files EXCEPT ![f] = c],
         NEW n \in Name, n # Stem[f], Sound(n)
  PROVE  Sound(n)'
<1>1. Found(files', n) = Found(files, n)
  BY FileWritten
<1>2. \A k : Found(files, k) # {} => Found(files', k) # {}
  <2> SUFFICES ASSUME NEW k, Found(files, k) # {} PROVE Found(files', k) # {}
    OBVIOUS
  <2>1. CASE k = Stem[f]
    BY <2>1, FileWritten
  <2>2. CASE k # Stem[f]
    <3>1. Found(files', k) = Found(files, k)
      BY <2>2, FileWritten
    <3>2. QED BY <3>1
  <2>3. QED BY <2>1, <2>2
<1>3. QED BY <1>1, <1>2 DEF Sound

LEMMA AcceptSound ==
  ASSUME FileInv, SoundInv, NEW r \in Req, NEW f \in File, NEW c \in Content, Accepts(r, f, c)
  PROVE  SoundInv'
<1>1. StoreTyped /\ files' = [files EXCEPT ![f] = c] /\ spoiled' = spoiled \ {Stem[f]}
  BY DEF FileInv, Accepts
<1>2. Stem[f] \in Name
  BY MibLibraryAssumption
<1> SUFFICES ASSUME NEW n \in Name, OneFile(n)', n \notin spoiled' PROVE Sound(n)'
  BY DEF SoundInv
<1>3. CASE n # Stem[f]
  <2>1. OneFile(n) /\ n \notin spoiled
    BY <1>1, <1>3, FileWritten
  <2>2. QED BY <1>1, <1>3, <2>1, SoundOn DEF SoundInv
<1>4. CASE n = Stem[f]
  <2>1. Found(files', n) = {c} /\ files' \in [File -> Content \cup {None}]
    BY <1>1, <1>4, FileWritten
  <2>2. Compiles(files', n, c)
    BY <1>4, <2>1 DEF Accepts, Accepted
  <2>3. Needs[c] \subseteq Modules(files', n)
    BY <2>1, ModulesLeast DEF Closed
  <2>4. \A k \in Needs[c] : Found(files', k) # {}
    BY <2>1, <2>2, <2>3 DEF Compiles
  <2>5. QED BY <2>1, <2>2, <2>4 DEF Sound, Compiles
<1>5. QED BY <1>3, <1>4

LEMMA RefuseSound ==
  ASSUME FileInv, SoundInv, NEW f \in File, NEW c \in Content, Refuses(f, c)
  PROVE  SoundInv'
<1>1. StoreTyped /\ files' = [files EXCEPT ![f] = c] /\ spoiled' = spoiled \cup {Stem[f]}
  BY DEF FileInv, Refuses
<1> SUFFICES ASSUME NEW n \in Name, OneFile(n)', n \notin spoiled' PROVE Sound(n)'
  BY DEF SoundInv
<1>2. n # Stem[f] /\ n \notin spoiled
  BY <1>1
<1>3. OneFile(n)
  BY <1>1, FileWritten
<1>4. QED BY <1>1, <1>2, <1>3, SoundOn DEF SoundInv

LEMMA SoundStep == ASSUME FileInv, SoundInv, LibStep PROVE SoundInv'
<1>1. ASSUME UNCHANGED <<files, spoiled>> PROVE SoundInv'
  BY <1>1 DEF SoundInv, OneFile, Kept, Sound
<1>2. CASE Aside
  BY <1>1, <1>2 DEF Aside, store
<1>3. CASE \E r \in Req : Drops(r) \/ Commits(r) \/ \E m \in mibs \cup {None} : Selects(r, m)
  BY <1>1, <1>3 DEF Drops, Commits, Selects, store
<1>4. QED BY <1>2, <1>3, AcceptSound, RefuseSound DEF LibStep

\* Few files are finitely many.
LEMMA FewFiles ==
  ASSUME StoreTyped, NEW n
  PROVE  LET S == {f \in File : Stem[f] = n /\ files[f] # None} IN
         /\ Cardinality(S) <= 1 => OneFile(n)
         /\ Cardinality(S) = 1 => OneFile(n)
<1> DEFINE S == {f \in File : Stem[f] = n /\ files[f] # None}
           all == {f \in File : Kept(f)}
<1>1. IsFiniteSet(S)
  <2>1. S \in SUBSET all /\ IsFiniteSet(all)
    BY DEF StoreTyped, Kept
  <2> HIDE DEF S, all
  <2>2. QED BY <2>1, FS_Subset
<1>2. ASSUME Cardinality(S) <= 1 PROVE OneFile(n)
  <2>1. Cardinality(S) = 0 \/ Cardinality(S) = 1
    <3>1. Cardinality(S) \in Nat
      BY <1>1, FS_CardinalityType
    <3>2. QED BY <1>2, <3>1
  <2>2. S = {} \/ \E x : S = {x}
    <3> HIDE DEF S
    <3>1. QED BY <1>1, <2>1, FS_EmptySet, FS_Singleton
  <2>3. \A f, g \in S : f = g
    <3> HIDE DEF S
    <3>1. QED BY <2>2
  <2>4. QED BY <2>3 DEF OneFile, Kept
<1>3. Cardinality(S) = 1 => Cardinality(S) <= 1
  OBVIOUS
<1>4. QED BY <1>2, <1>3

\* From what was accepted to the MIBs that import it, and on.
LEMMA CompilesFollows ==
  ASSUME LibTypes, FileInv, SoundInv PROVE StillCompiles
<1> SUFFICES ASSUME NEW m \in mibs,
                    \A n \in Modules(files, m.name) :
                      Cardinality({f \in File : Stem[f] = n /\ files[f] # None}) <= 1,
                    Modules(files, m.name) \cap spoiled = {}
             PROVE  \A n \in Modules(files, m.name) :
                      Found(files, n) # {} /\ Found(files, n) \subseteq Good
  BY DEF StillCompiles
<1> DEFINE all == Modules(files, m.name)
           S == {k \in all : Found(files, k) # {}}
<1>1. m.name \in Name /\ m.filename \in File /\ files \in [File -> Content \cup {None}]
  BY DEF LibTypes, MibRow, FileInv, StoreTyped
<1>2. /\ all \in SUBSET Name /\ m.name \in all /\ Closed(files, all)
      /\ \A R \in SUBSET Name : m.name \in R /\ Closed(files, R) => all \subseteq R
  BY <1>1, ModulesLeast
<1>3. ASSUME NEW n \in all PROVE Sound(n)
  <2>1. OneFile(n)
    BY FewFiles DEF FileInv
  <2>2. n \in Name /\ n \notin spoiled
    BY <1>2
  <2>3. QED BY <2>1, <2>2 DEF SoundInv
<1> HIDE DEF all
<1>4. m.name \in S
  <2>1. files[m.filename] \in Found(files, m.name)
    BY <1>1 DEF FileInv, RowsFiled, Kept, Found
  <2>2. QED BY <1>2, <2>1
<1>5. Closed(files, S)
  <2> SUFFICES ASSUME NEW n \in S, NEW c \in Found(files, n), NEW k \in Needs[c] PROVE k \in S
    BY DEF Closed
  <2>1. k \in all
    BY <1>2 DEF Closed
  <2>2. Found(files, k) # {}
    BY <1>3 DEF Sound
  <2>3. QED BY <2>1, <2>2
<1>6. all \subseteq S
  BY <1>2, <1>4, <1>5
<1>7. QED BY <1>3, <1>6 DEF all, Sound

LEMMA FilesAlways == LibSpec => []FileInv
<1>1. LibTypes /\ FileInv /\ [LibNext]_libVars => FileInv'
  BY Steps, FileStep
<1>2. QED BY <1>1, FileInit, LibTypesCorrect, PTL DEF LibSpec

(* A MIB that was accepted would compile again: a later upload brings in   *)
(* only what compiles with the files that are there, files are never       *)
(* removed, and a refused upload leaves its name in spoiled.               *)
THEOREM StillAlwaysCompiles == LibSpec => []StillCompiles
<1>1. LibInit => SoundInv
  BY DEF LibInit, SoundInv, Sound, Found
<1>2. LibTypes /\ FileInv /\ SoundInv /\ [LibNext]_libVars => SoundInv'
  BY Steps, SoundStep
<1>3. LibTypes /\ FileInv /\ SoundInv => StillCompiles
  BY CompilesFollows
<1>4. QED BY <1>1, <1>2, <1>3, LibTypesCorrect, FilesAlways, PTL DEF LibSpec

-----------------------------------------------------------------------------
(* Row, file and sidecar of a MIB.                                         *)

\* What one upload, and one row, say.
AloneOK(r) ==
  LET n == Stem[job[r].file] IN
  job[r].alone =>
    /\ Uploading(n) = {r}
    /\ OneFile(n) => Fresh(n, job[r].file, job[r].raw)
    /\ job[r].pc = "commit" =>
         IF job[r].row = None THEN \A m \in mibs : m.name # n
                              ELSE job[r].row \in mibs /\ job[r].row.name = n

FreshOK(m) ==
  /\ \A k \in mibs : k.name = m.name => k = m
  /\ OneFile(m.name) /\ Uploading(m.name) = {} /\ m.name \notin unsure
  => Fresh(m.name, m.filename, m.raw)

LEMMA CopyParts ==
  CopyInv <=> /\ \A r \in Uploads : AloneOK(r) /\ (~job[r].alone => Stem[job[r].file] \in unsure)
              /\ \A m \in mibs : FreshOK(m)
BY DEF CopyInv, AloneInv, JoinedSeen, RowsFresh, AloneOK, FreshOK

\* No upload comes or goes, no store, no row changes.
LEMMA AsideCopies ==
  ASSUME LibTypes, CopyInv, Aside PROVE CopyInv'
<1>1. UNCHANGED <<files, trees, mibs, unsure, spoiled>>
  BY DEF Aside, store
<1>2. \A q \in Req : /\ job'[q].kind = "upload" => job'[q] = job[q] /\ q \in Uploads
                     /\ q \in Uploads => job'[q] = job[q]
  BY DEF Aside, Uploads
<1>3. \A n : Uploading(n)' = Uploading(n)
  BY <1>2 DEF Uploading, Uploads
<1>4. \A n : OneFile(n)' = OneFile(n)
  BY <1>1 DEF OneFile, Kept
<1>5. AloneInv'
  BY <1>1, <1>2, <1>3, <1>4 DEF CopyInv, AloneInv, Uploads, Fresh
<1>6. JoinedSeen'
  BY <1>1, <1>2 DEF CopyInv, JoinedSeen, Uploads
<1>7. RowsFresh'
  BY <1>1, <1>3, <1>4 DEF CopyInv, RowsFresh, Fresh
<1>8. QED BY <1>5, <1>6, <1>7 DEF CopyInv

LEMMA DropCopies ==
  ASSUME LibTypes, CopyInv, NEW r \in Req, Drops(r) PROVE CopyInv'
<1> DEFINE n == Stem[job[r].file]
<1>1. /\ UNCHANGED <<files, trees, mibs, spoiled>> /\ unsure' = unsure \cup {n}
      /\ r \in Uploads
  BY DEF Drops, store
<1>2. \A q \in Req : /\ job'[q].kind = "upload" => job'[q] = job[q] /\ q \in Uploads
                     /\ q \in Uploads => q = r \/ job'[q] = job[q]
  BY DEF Drops, Uploads
<1>3. \A x : x # n => Uploading(x)' = Uploading(x)
  BY <1>2 DEF Uploading, Uploads
<1>4. \A x : OneFile(x)' = OneFile(x)
  BY <1>1 DEF OneFile, Kept
<1>5. AloneInv'
  <2> SUFFICES ASSUME NEW q \in Uploads', job'[q].alone PROVE AloneOK(q)'
    BY DEF AloneInv, AloneOK
  <2>1. q \in Uploads /\ job'[q] = job[q] /\ AloneOK(q) /\ q # r /\ q \in Req
    BY <1>2, CopyParts DEF Uploads, Drops
  <2>2. Stem[job[q].file] # n
    <3>1. Stem[job[q].file] = n => r \in Uploading(Stem[job[q].file])
      BY <1>1 DEF Uploads, Uploading
    <3>2. QED BY <2>1, <3>1 DEF AloneOK
  <2>3. QED BY <1>1, <1>3, <1>4, <2>1, <2>2 DEF AloneOK, Fresh
<1>6. JoinedSeen'
  BY <1>1, <1>2 DEF CopyInv, JoinedSeen, Uploads
<1>7. RowsFresh'
  BY <1>1, <1>3, <1>4 DEF CopyInv, RowsFresh, Fresh
<1>8. QED BY <1>5, <1>6, <1>7 DEF CopyInv

LEMMA RefuseCopies ==
  ASSUME LibTypes, FileInv, CopyInv, NEW f \in File, NEW c \in Content, Refuses(f, c)
  PROVE  CopyInv'
<1>1. /\ UNCHANGED <<trees, job, mibs, unsure>> /\ spoiled' = spoiled \cup {Stem[f]}
      /\ files' = [files EXCEPT ![f] = c] /\ StoreTyped
  BY DEF Refuses, FileInv
<1>2. \A n : OneFile(n)' => OneFile(n)
  BY <1>1, FileWritten
<1>3. \A n : Uploading(n)' = Uploading(n)
  BY <1>1 DEF Uploading
<1>4. ASSUME NEW n, NEW g \in File, NEW x, Stem[g] = n, Fresh(n, g, x) PROVE Fresh(n, g, x)'
  BY <1>1, <1>4 DEF Fresh, StoreTyped
<1>5. AloneInv'
  <2> SUFFICES ASSUME NEW q \in Uploads, job[q].alone PROVE AloneOK(q)'
    BY <1>1 DEF AloneInv, AloneOK, Uploads
  <2>1. AloneOK(q) /\ job[q].file \in File
    BY CopyParts, UploadTyped
  <2> DEFINE n == Stem[job[q].file]
  <2>2. OneFile(n)' => Fresh(n, job[q].file, job[q].raw)'
    BY <1>1, <1>2, <1>4, <2>1 DEF AloneOK
  <2>3. QED BY <1>1, <1>3, <2>1, <2>2 DEF AloneOK
<1>6. JoinedSeen'
  BY <1>1 DEF CopyInv, JoinedSeen, Uploads
<1>7. RowsFresh'
  <2> SUFFICES ASSUME NEW m \in mibs PROVE FreshOK(m)'
    BY <1>1 DEF RowsFresh, FreshOK
  <2>1. FreshOK(m) /\ m.filename \in File /\ Stem[m.filename] = m.name
    BY CopyParts DEF LibTypes, MibRow, FileInv, RowsFiled
  <2>2. QED BY <1>1, <1>2, <1>3, <1>4, <2>1 DEF FreshOK
<1>8. QED BY <1>5, <1>6, <1>7 DEF CopyInv

LEMMA AcceptCopies ==
  ASSUME LibTypes, FileInv, CopyInv, NEW r \in Req, NEW f \in File, NEW c \in Content,
         Accepts(r, f, c)
  PROVE  CopyInv'
<1> DEFINE n == Stem[f]
<1>1. /\ r \notin Uploads /\ files' = [files EXCEPT ![f] = c] /\ StoreTyped /\ mibs' = mibs
      /\ unsure' = IF Uploading(n) = {} THEN unsure ELSE unsure \cup {n}
      /\ spoiled' = spoiled \ {n}
  BY DEF Accepts, FileInv
<1>2. PICK read \in Found(files', n) : trees' = [trees EXCEPT ![n] = read]
  BY DEF Accepts
<1>3. /\ job'[r].kind = "upload" /\ job'[r].pc = "select" /\ job'[r].file = f
      /\ job'[r].raw = c /\ job'[r].alone = (Uploading(n) = {})
  BY DEF Accepts
<1>4. ASSUME NEW q \in Req \ {r}
      PROVE  /\ SameButAlone(q)
             /\ job'[q].alone = IF q \in Uploading(n) THEN FALSE ELSE job[q].alone
  BY DEF Accepts
<1>5. n \in Name
  BY MibLibraryAssumption
<1>6. /\ \A x : x # n => Uploading(x)' = Uploading(x)
      /\ Uploading(n)' = Uploading(n) \cup {r}
  <2>1. \A q \in Req \ {r} : job'[q].kind = job[q].kind /\ job'[q].file = job[q].file
    BY <1>4 DEF SameButAlone
  <2>2. job[r].kind # "upload"
    BY <1>1 DEF Uploads
  <2>3. QED BY <1>3, <2>1, <2>2 DEF Uploading
<1>7. \A x : OneFile(x)' => OneFile(x)
  BY <1>1, FileWritten
<1>8. OneFile(n)' => Fresh(n, f, c)'
  <2>1. OneFile(n)' => read = c
    <3>1. OneFile(Stem[f])' => Found(files', Stem[f]) = {c}
      BY <1>1, FileWritten
    <3>2. QED BY <1>2, <3>1
  <2>2. files'[f] = c
    BY <1>1 DEF StoreTyped
  <2>3. trees'[n] = read
    BY <1>1, <1>2, <1>5 DEF StoreTyped
  <2>4. QED BY <2>1, <2>2, <2>3 DEF Fresh
<1>9. ASSUME NEW x \in Name \ {n}, NEW g \in File, NEW y, Stem[g] = x, Fresh(x, g, y)
      PROVE  Fresh(x, g, y)'
  BY <1>1, <1>2, <1>9 DEF Fresh, StoreTyped
<1>10. AloneInv'
  <2> SUFFICES ASSUME NEW q \in Uploads', job'[q].alone PROVE AloneOK(q)'
    BY DEF AloneInv, AloneOK
  <2>1. CASE q = r
    <3>1. Uploading(n) = {}
      BY <1>3, <2>1
    <3>2. Uploading(n)' = {r}
      BY <1>6, <3>1
    <3>3. QED BY <1>3, <1>8, <2>1, <3>2 DEF AloneOK
  <2>2. CASE q # r
    <3>1. q \in Req \ {r} /\ SameButAlone(q) /\ q \in Uploads
      BY <1>4, <2>2 DEF Uploads, SameButAlone
    <3>2. q \notin Uploading(n) /\ job[q].alone
      BY <1>4, <3>1
    <3>3. Stem[job[q].file] # n /\ job[q].file \in File /\ Stem[job[q].file] \in Name
      BY <3>1, <3>2, UploadTyped DEF Uploading, Uploads
    <3>4. AloneOK(q)
      BY <3>1, CopyParts
    <3> PICK x \in Name : x = Stem[job[q].file]
      BY <3>3
    <3>5. Uploading(x) = {q} /\ Uploading(x)' = {q}
      BY <1>6, <3>2, <3>3, <3>4 DEF AloneOK
    <3>6. OneFile(x)' => Fresh(x, job[q].file, job[q].raw)'
      <4>1. PICK g \in File, y \in Content : g = job[q].file /\ y = job[q].raw
        BY <3>1, UploadTyped
      <4>2. OneFile(x) => Fresh(x, g, y)
        BY <3>2, <3>4, <4>1 DEF AloneOK
      <4>3. OneFile(x)' => Fresh(x, g, y)'
        BY <1>7, <1>9, <3>3, <4>1, <4>2
      <4>4. job'[q].file = g /\ job'[q].raw = y
        BY <3>1, <4>1 DEF SameButAlone
      <4>5. QED BY <4>3, <4>4
    <3>7. job[q].pc = "commit" => IF job[q].row = None THEN \A m \in mibs : m.name # x
                                  ELSE job[q].row \in mibs /\ job[q].row.name = x
      BY <3>2, <3>4 DEF AloneOK
    <3>8. /\ job'[q].file = job[q].file /\ job'[q].raw = job[q].raw /\ job'[q].pc = job[q].pc
          /\ job'[q].row = job[q].row /\ Stem[job'[q].file] = x
      BY <3>1 DEF SameButAlone
    <3>9. QED BY <1>1, <3>5, <3>6, <3>7, <3>8 DEF AloneOK, Fresh
  <2>3. QED BY <2>1, <2>2
<1>11. JoinedSeen'
  <2> SUFFICES ASSUME NEW q \in Uploads', ~job'[q].alone PROVE Stem[job'[q].file] \in unsure'
    BY DEF JoinedSeen
  <2>1. CASE q = r
    BY <1>1, <1>3, <2>1
  <2>2. CASE q # r
    <3>1. q \in Req \ {r} /\ SameButAlone(q) /\ q \in Uploads
      BY <1>4, <2>2 DEF Uploads, SameButAlone
    <3>2. CASE q \in Uploading(n)
      BY <1>1, <3>1, <3>2 DEF Uploading, SameButAlone
    <3>3. CASE q \notin Uploading(n)
      BY <1>1, <1>4, <3>1, <3>3 DEF CopyInv, JoinedSeen, SameButAlone
    <3>4. QED BY <3>2, <3>3
  <2>3. QED BY <2>1, <2>2
<1>12. RowsFresh'
  <2> SUFFICES ASSUME NEW m \in mibs PROVE FreshOK(m)'
    BY <1>1 DEF RowsFresh, FreshOK
  <2>1. /\ FreshOK(m) /\ m.filename \in File /\ Stem[m.filename] = m.name
        /\ m.name \in Name
    BY CopyParts DEF LibTypes, MibRow, FileInv, RowsFiled
  <2>2. CASE m.name = n
    <3>1. r \in Uploading(m.name)'
      BY <1>6, <2>2
    <3>2. QED BY <3>1 DEF FreshOK
  <2>3. CASE m.name # n
    <3>1. Uploading(m.name)' = Uploading(m.name) /\ (m.name \in unsure => m.name \in unsure')
      BY <1>1, <1>6, <2>3
    <3>2. QED BY <1>1, <1>7, <1>9, <2>1, <2>3, <3>1 DEF FreshOK
  <2>4. QED BY <2>2, <2>3
<1>13. QED BY <1>10, <1>11, <1>12 DEF CopyInv

LEMMA SelectCopies ==
  ASSUME LibTypes, CopyInv, NEW r \in Req, NEW m \in mibs \cup {None}, Selects(r, m)
  PROVE  CopyInv'
<1>1. UNCHANGED <<files, trees, mibs, unsure, spoiled>> /\ r \in Uploads
  BY DEF Selects, store
<1>2. /\ job'[r].kind = "upload" /\ job'[r].file = job[r].file /\ job'[r].raw = job[r].raw
      /\ job'[r].alone = job[r].alone /\ job'[r].row = m
      /\ \A q \in Req \ {r} : job'[q] = job[q]
  BY DEF Selects
<1>3. \A n : Uploading(n)' = Uploading(n)
  BY <1>1, <1>2 DEF Uploading, Uploads
<1>4. \A n : OneFile(n)' = OneFile(n)
  BY <1>1 DEF OneFile, Kept
<1>5. AloneInv'
  <2> SUFFICES ASSUME NEW q \in Uploads', job'[q].alone PROVE AloneOK(q)'
    BY DEF AloneInv, AloneOK
  <2>1. CASE q = r
    <3>1. AloneOK(r) /\ job[r].alone
      BY <1>1, <1>2, <2>1, CopyParts
    <3>2. IF m = None THEN \A k \in mibs : k.name # Stem[job[r].file]
                      ELSE m \in mibs /\ m.name = Stem[job[r].file]
      BY DEF Selects, RowsFor
    <3>3. QED BY <1>1, <1>2, <1>3, <1>4, <2>1, <3>1, <3>2 DEF AloneOK, Fresh
  <2>2. CASE q # r
    <3>1. job'[q] = job[q] /\ q \in Uploads
      BY <1>2, <2>2 DEF Uploads
    <3>2. AloneOK(q)
      BY <3>1, CopyParts
    <3>3. QED BY <1>1, <1>3, <1>4, <3>1, <3>2 DEF AloneOK, Fresh
  <2>3. QED BY <2>1, <2>2
<1>6. JoinedSeen'
  BY <1>1, <1>2 DEF CopyInv, JoinedSeen, Uploads
<1>7. RowsFresh'
  BY <1>1, <1>3, <1>4 DEF CopyInv, RowsFresh, Fresh
<1>8. QED BY <1>5, <1>6, <1>7 DEF CopyInv

LEMMA CommitCopies ==
  ASSUME LibTypes, FileInv, CopyInv, NEW r \in Req, Commits(r) PROVE CopyInv'
<1> DEFINE n == Stem[job[r].file]
<1>1. /\ UNCHANGED <<files, trees, spoiled>> /\ r \in Uploads /\ job[r].pc = "commit"
      /\ unsure' = IF job[r].alone THEN unsure \ {n} ELSE unsure
      /\ job'[r].kind # "upload"
  BY DEF Commits, store
<1>2. \A q \in Req : job'[q].kind = "upload" => job'[q] = job[q] /\ q \in Uploads /\ q # r
  BY UploadsGoOn, <1>1
<1>3. \A x : Uploading(x)' = Uploading(x) \ {r}
  BY <1>1, <1>2 DEF Uploading, Uploads, Commits
<1>4. \A x : OneFile(x)' = OneFile(x)
  BY <1>1 DEF OneFile, Kept
<1>5. \A x, g, y : Fresh(x, g, y)' = Fresh(x, g, y)
  BY <1>1 DEF Fresh
<1>6. /\ job[r] \in Job /\ mibs \subseteq MibRow /\ IdsOwn /\ IdsOwn'
      /\ \A m \in mibs' : \/ Inserted(r, m)
                          \/ /\ job[r].row # None
                             /\ \E k \in mibs : m = Written(k, job[r])
                          \/ job[r].row = None /\ m \in mibs
      /\ \A k \in mibs : \E m \in mibs' : m.id = k.id /\ m.name = k.name
  BY <1>1, CommitRows, UploadTyped DEF LibTypes, FileInv
<1>7. AloneOK(r)
  BY <1>1, CopyParts
\* Rows of other names are left as they were.
<1>8. job[r].row # None => \A k \in mibs : k.name # n => Written(k, job[r]) = k
  <2> SUFFICES ASSUME NEW k \in mibs, k.name # n, job[r].row # None PROVE Written(k, job[r]) = k
    OBVIOUS
  <2>1. k.id # job[r].row.id
    BY <1>1 DEF FileInv, RowsRead
  <2>2. QED BY <2>1 DEF Written
<1>9. ASSUME NEW m \in mibs', m.name # n PROVE m \in mibs
  <2>1. CASE Inserted(r, m)
    BY <1>9, <2>1 DEF Inserted
  <2>2. CASE job[r].row # None /\ \E k \in mibs : m = Written(k, job[r])
    <3>1. PICK k \in mibs : m = Written(k, job[r])
      BY <2>2
    <3>2. m.name = k.name
      BY <1>6, <3>1, WrittenKeeps
    <3>3. QED BY <1>8, <1>9, <2>2, <3>1, <3>2
  <2>3. QED BY <1>6, <2>1, <2>2
<1>10. \A k \in mibs : k.name # n => k \in mibs'
  <2>1. CASE job[r].row = None
    BY <2>1 DEF Commits
  <2>2. CASE job[r].row # None
    <3>1. mibs' = {Written(k, job[r]) : k \in mibs}
      BY <2>2 DEF Commits
    <3>2. QED BY <1>8, <2>2, <3>1
  <2>3. QED BY <2>1, <2>2
<1>11. AloneInv'
  <2> SUFFICES ASSUME NEW q \in Uploads', job'[q].alone PROVE AloneOK(q)'
    BY DEF AloneInv, AloneOK
  <2>1. q \in Uploads /\ job'[q] = job[q] /\ AloneOK(q) /\ q # r
    BY <1>2, CopyParts DEF Uploads
  <2> DEFINE x == Stem[job[q].file]
  <2>2. x # n /\ Uploading(x)' = {q}
    <3>1. x = n => r \in Uploading(x)
      BY <1>1 DEF Uploads, Uploading
    <3>2. Uploading(x) = {q}
      BY <2>1 DEF AloneOK
    <3>3. QED BY <1>3, <2>1, <3>1, <3>2
  <2>3. OneFile(x)' => Fresh(x, job[q].file, job[q].raw)'
    BY <1>4, <1>5, <2>1 DEF AloneOK
  <2>4. job[q].pc = "commit" => IF job[q].row = None THEN \A m \in mibs' : m.name # x
                                ELSE job[q].row \in mibs' /\ job[q].row.name = x
    BY <1>9, <1>10, <2>1, <2>2 DEF AloneOK
  <2>5. QED BY <2>1, <2>2, <2>3, <2>4 DEF AloneOK
<1>12. JoinedSeen'
  <2> SUFFICES ASSUME NEW q \in Uploads', ~job'[q].alone PROVE Stem[job'[q].file] \in unsure'
    BY DEF JoinedSeen
  <2>1. q \in Uploads /\ job'[q] = job[q] /\ q # r /\ Stem[job[q].file] \in unsure
    BY <1>2 DEF Uploads, CopyInv, JoinedSeen
  <2>2. CASE job[r].alone
    <3>1. q \notin Uploading(n)
      BY <1>7, <2>1, <2>2 DEF AloneOK
    <3>2. QED BY <1>1, <2>1, <3>1 DEF Uploading, Uploads
  <2>3. CASE ~job[r].alone
    BY <1>1, <2>1, <2>3
  <2>4. QED BY <2>2, <2>3
<1>13. RowsFresh'
  <2> SUFFICES ASSUME NEW m \in mibs', \A k \in mibs' : k.name = m.name => k = m,
                      OneFile(m.name), Uploading(m.name)' = {}, m.name \notin unsure'
               PROVE  Fresh(m.name, m.filename, m.raw)
    BY <1>4, <1>5 DEF RowsFresh
  <2>1. CASE m.name # n
    <3>1. m \in mibs /\ \A k \in mibs : k.name = m.name => k = m
      BY <1>9, <1>10, <2>1
    <3>2. Uploading(m.name) = {}
      BY <1>3, <2>1 DEF Uploading
    <3>3. m.name \notin unsure
      BY <1>1, <2>1
    <3>4. QED BY <3>1, <3>2, <3>3 DEF CopyInv, RowsFresh
  <2>2. CASE m.name = n
    <3>1. job[r].alone
      BY <1>1, <2>2 DEF CopyInv, JoinedSeen
    <3>2. Fresh(n, job[r].file, job[r].raw)
      BY <1>7, <2>2, <3>1 DEF AloneOK
    <3>3. m.filename = job[r].file /\ m.raw = job[r].raw
      <4>1. CASE Inserted(r, m)
        BY <4>1 DEF Inserted
      <4>2. CASE job[r].row = None /\ m \in mibs
        BY <1>1, <1>7, <2>2, <3>1, <4>2 DEF AloneOK
      <4>3. CASE job[r].row # None
        <5>1. job[r].row \in mibs /\ job[r].row.name = n
          BY <1>1, <1>7, <3>1, <4>3 DEF AloneOK
        <5>2. PICK k \in mibs : k = job[r].row
          BY <5>1
        <5>3. Written(k, job[r]) \in mibs'
          BY <4>3 DEF Commits
        <5>4. /\ Written(k, job[r]).name = n
              /\ Written(k, job[r]).filename = job[r].file /\ Written(k, job[r]).raw = job[r].raw
          BY <1>6, <5>1, <5>2, WrittenKeeps
        <5>5. QED BY <2>2, <5>3, <5>4
      <4>4. QED BY <1>6, <4>1, <4>2, <4>3
    <3>4. QED BY <2>2, <3>2, <3>3
  <2>3. QED BY <2>1, <2>2
<1>14. QED BY <1>11, <1>12, <1>13 DEF CopyInv

LEMMA CopyStep == ASSUME LibTypes, FileInv, CopyInv, LibStep PROVE CopyInv'
BY AsideCopies, DropCopies, RefuseCopies, AcceptCopies, SelectCopies, CommitCopies DEF LibStep

(* The three copies of a MIB agree: an upload that nobody joined leaves    *)
(* its text in the sidecar, in the row and, unless a later upload was      *)
(* refused, in the file; joined and failed ones leave the name in unsure.  *)
THEOREM CopiesAlwaysAgree == LibSpec => []CopiesAgree
<1>1. LibInit => CopyInv
  BY IdleType DEF LibInit, CopyInv, AloneInv, JoinedSeen, RowsFresh, Uploads
<1>2. LibTypes /\ FileInv /\ CopyInv /\ [LibNext]_libVars => CopyInv'
  BY Steps, CopyStep
<1>3. LibTypes /\ FileInv /\ CopyInv => CopiesAgree
  <2> SUFFICES ASSUME LibTypes, FileInv, CopyInv, NEW m \in mibs, Alone(m), m.name \notin unsure
               PROVE  Shown(m) = m.raw /\ (files[m.filename] = m.raw \/ m.name \in spoiled)
    BY DEF CopiesAgree
  <2>1. OneFile(m.name)
    BY FewFiles DEF Alone, FileInv
  <2>2. Fresh(m.name, m.filename, m.raw)
    BY <2>1 DEF Alone, CopyInv, RowsFresh
  <2>3. QED BY <2>2 DEF Fresh, Shown
<1>4. QED BY <1>1, <1>2, <1>3, LibTypesCorrect, FilesAlways, PTL DEF LibSpec

-----------------------------------------------------------------------------
(* Every row and every upload at work was a request, and a row's id is no  *)
(* larger than the number of rows: so no id outgrows the bound on requests.*)

\* What a step does to the counters.
LEMMA CountsKept ==
  ASSUME LibTypes, Counted, [LibNext]_libVars
  PROVE  /\ count' \in 0 .. MaxRequests /\ faults' \in 0 .. MaxFaults /\ count <= count'
         /\ \A r \in Req : r \in Uploads' \ Uploads => count' = count + 1
<1>1. MaxRequests \in Nat /\ MaxFaults \in Nat /\ count \in 0 .. MaxRequests /\ count \in Nat
  BY MibLibraryAssumption DEF Counted
<1>2. \/ count' = count
      \/ count < MaxRequests /\ count' = count + 1
  <2>1. ASSUME NEW r \in Req,
               Upload(r) \/ Assign(r) \/ Unassign(r) \/ Elsewhere(r) \/ DeleteDevice(r)
        PROVE  count < MaxRequests /\ count' = count + 1
    BY <2>1 DEF Upload, Assign, Unassign, DeleteDevice, Elsewhere, PutOid, DeleteOid, Link,
                Unlink, Arrives
  <2>2. ASSUME NEW r \in Req,
               \/ SelectMib(r) \/ CommitMib(r) \/ CheckAssigned(r) \/ CommitAssign(r)
               \/ Works(r) \/ CommitDelete(r) \/ Abort(r)
        PROVE  count' = count
    BY <2>2, WorksShape DEF SelectMib, CommitMib, CheckAssigned, CommitAssign, CommitDelete, Abort
  <2>3. CASE UNCHANGED libVars
    BY <2>3 DEF libVars
  <2>4. QED BY <2>1, <2>2, <2>3 DEF LibNext, Elsewhere, Works
<1>3. faults' = faults \/ (faults < MaxFaults /\ faults' = faults + 1)
  <2>1. ASSUME NEW r \in Req, Abort(r) PROVE faults < MaxFaults /\ faults' = faults + 1
    BY <2>1 DEF Abort
  <2>2. ASSUME NEW r \in Req,
               \/ Upload(r) \/ SelectMib(r) \/ CommitMib(r)
               \/ Assign(r) \/ CheckAssigned(r) \/ CommitAssign(r) \/ Unassign(r) \/ Elsewhere(r)
               \/ DeleteDevice(r) \/ Works(r) \/ CommitDelete(r)
        PROVE  faults' = faults
    BY <2>2, WorksShape
       DEF Upload, SelectMib, CommitMib, Assign, CheckAssigned, CommitAssign, Unassign,
           DeleteDevice, CommitDelete, Elsewhere, PutOid, DeleteOid, Link, Unlink
  <2>3. CASE UNCHANGED libVars
    BY <2>3 DEF libVars
  <2>4. QED BY <2>1, <2>2, <2>3 DEF LibNext, Elsewhere, Works
<1>4. ASSUME NEW q \in Req, q \in Uploads' \ Uploads PROVE count' = count + 1
  <2>1. PICK r \in Req : Upload(r)
    <3>1. ASSUME NEW r \in Req,
                 \/ SelectMib(r) \/ CommitMib(r)
                 \/ Assign(r) \/ CheckAssigned(r) \/ CommitAssign(r) \/ Unassign(r) \/ Elsewhere(r)
                 \/ DeleteDevice(r) \/ Works(r) \/ CommitDelete(r) \/ Abort(r)
          PROVE  FALSE
      <4>1. \/ Aside \/ Drops(r) \/ Commits(r)
            \/ \E m \in mibs \cup {None} : Selects(r, m)
        BY <3>1, SelectShape, CommitShape, OthersShape, AbortShape
      <4>2. QED BY <1>4, <4>1 DEF Aside, Drops, Commits, Selects, Uploads
    <3>2. ~UNCHANGED libVars
      BY <1>4 DEF libVars, Uploads
    <3>3. QED BY <3>1, <3>2 DEF LibNext, Elsewhere, Works
  <2>2. QED BY <2>1 DEF Upload, Arrives
<1>5. QED BY <1>1, <1>2, <1>3, <1>4 DEF Counted

\* An upload comes or goes at a time, and an insert ends one.
LEMMA UploadsCounted ==
  ASSUME LibTypes, FileInv, Counted, [LibNext]_libVars
  PROVE  IsFiniteSet(Uploads') /\ Cardinality(mibs') + Cardinality(Uploads') <= count'
<1>1. /\ IsFiniteSet(Uploads) /\ IsFiniteSet(mibs)
      /\ Cardinality(Uploads) \in Nat /\ Cardinality(mibs) \in Nat /\ count \in Nat
      /\ Cardinality(mibs) + Cardinality(Uploads) <= count
  BY FS_CardinalityType, MibLibraryAssumption DEF Counted, LibTypes
<1>2. count' \in Nat /\ count <= count'
  BY CountsKept, MibLibraryAssumption
<1>3. CASE Uploads' = Uploads /\ mibs' = mibs
  BY <1>1, <1>2, <1>3
<1>4. CASE \E r \in Req : r \in Uploads /\ Uploads' = Uploads \ {r} /\ mibs' = mibs
  <2>1. PICK r \in Req : r \in Uploads /\ Uploads' = Uploads \ {r} /\ mibs' = mibs
    BY <1>4
  <2>2. IsFiniteSet(Uploads') /\ Cardinality(Uploads') = Cardinality(Uploads) - 1
    BY <1>1, <2>1, FS_RemoveElement
  <2>3. QED BY <1>1, <1>2, <2>1, <2>2
<1>5. CASE \E r \in Req : Commits(r)
  <2>1. PICK r \in Req : Commits(r)
    BY <1>5
  <2>2. r \in Uploads /\ Uploads' = Uploads \ {r}
    BY <2>1 DEF Commits, Uploads
  <2>3. IsFiniteSet(Uploads') /\ Cardinality(Uploads') = Cardinality(Uploads) - 1
    BY <1>1, <2>2, FS_RemoveElement
  <2>4. Cardinality(mibs') \in {Cardinality(mibs), Cardinality(mibs) + 1}
    BY <2>1, CommitRows DEF FileInv
  <2>5. QED BY <1>1, <1>2, <2>3, <2>4
<1>6. CASE \E r \in Req : r \notin Uploads /\ Uploads' = Uploads \cup {r} /\ mibs' = mibs
  <2>1. PICK r \in Req : r \notin Uploads /\ Uploads' = Uploads \cup {r} /\ mibs' = mibs
    BY <1>6
  <2>2. IsFiniteSet(Uploads') /\ Cardinality(Uploads') = Cardinality(Uploads) + 1
    BY <1>1, <2>1, FS_AddElement
  <2>3. count' = count + 1
    BY <2>1, CountsKept
  <2>4. QED BY <1>1, <2>1, <2>2, <2>3
<1>7. LibStep
  BY Steps
<1>8. ASSUME Aside \/ \E f \in File, c \in Content : Refuses(f, c)
      PROVE  Uploads' = Uploads /\ mibs' = mibs
  BY <1>8 DEF Aside, Refuses, Uploads
<1>9. ASSUME NEW r \in Req, Drops(r)
      PROVE  r \in Uploads /\ Uploads' = Uploads \ {r} /\ mibs' = mibs
  BY <1>9 DEF Drops, Uploads
<1>10. ASSUME NEW r \in Req, NEW m \in mibs \cup {None}, Selects(r, m)
       PROVE  Uploads' = Uploads /\ mibs' = mibs
  BY <1>10 DEF Selects, Uploads
<1>11. ASSUME NEW r \in Req, NEW f \in File, NEW c \in Content, Accepts(r, f, c)
       PROVE  r \notin Uploads /\ Uploads' = Uploads \cup {r} /\ mibs' = mibs
  <2>1. r \notin Uploads /\ job'[r].kind = "upload" /\ mibs' = mibs
    BY <1>11 DEF Accepts
  <2>2. \A q \in Req \ {r} : job'[q].kind = job[q].kind
    BY <1>11 DEF Accepts, SameButAlone
  <2>3. QED BY <2>1, <2>2 DEF Uploads
<1>12. QED
  BY <1>3, <1>4, <1>5, <1>6, <1>7, <1>8, <1>9, <1>10, <1>11 DEF LibStep

\* A row's id is within the bound.
LEMMA IdsBounded ==
  ASSUME LibTypes, FileInv, Counted PROVE \A m \in mibs : m.id \in 1 .. MaxRequests
<1>1. Cardinality(mibs) \in Nat /\ Cardinality(Uploads) \in Nat
  BY FS_CardinalityType DEF Counted, LibTypes
<1>2. MaxRequests \in Nat /\ count \in 0 .. MaxRequests
      /\ Cardinality(mibs) + Cardinality(Uploads) <= count
  BY MibLibraryAssumption DEF Counted
<1>3. Cardinality(mibs) <= MaxRequests
  BY <1>1, <1>2
<1>4. \A m \in mibs : m.id \in 1 .. Cardinality(mibs)
  BY DEF FileInv, IdsOwn
<1>5. QED BY <1>1, <1>2, <1>3, <1>4

LEMMA AssignsKept ==
  ASSUME LibTypes, [LibNext]_libVars, NEW q \in Req, job'[q].kind = "assign"
  PROVE  AssignKept(q)
<1>1. CASE UNCHANGED libVars
  BY <1>1 DEF libVars, AssignKept
<1>2. CASE \E r \in Req :
             \/ Assign(r) \/ CheckAssigned(r) \/ CommitAssign(r) \/ DeleteDevice(r)
             \/ Works(r) \/ CommitDelete(r) \/ Unassign(r) \/ Elsewhere(r)
  BY <1>2, OthersShape
<1>3. ASSUME NEW r \in Req, Abort(r) PROVE AssignKept(q)
  BY <1>3, EndsAlone DEF Abort, AssignKept
<1>4. ASSUME NEW r \in Req, Upload(r) PROVE AssignKept(q)
  <2>1. PICK f \in File, c \in Content : Accepts(r, f, c) \/ Refuses(f, c)
    BY <1>4, UploadShape
  <2>2. QED BY <2>1 DEF Accepts, Refuses, SameButAlone, AssignKept
<1>5. ASSUME NEW r \in Req, SelectMib(r) PROVE AssignKept(q)
  <2>1. PICK m \in mibs \cup {None} : Selects(r, m)
    BY <1>5, SelectShape
  <2>2. QED BY <2>1 DEF Selects, AssignKept
<1>6. ASSUME NEW r \in Req, CommitMib(r) PROVE AssignKept(q)
  BY <1>6, CommitShape DEF Commits, AssignKept
<1>7. QED BY <1>1, <1>2, <1>3, <1>4, <1>5, <1>6 DEF LibNext, Elsewhere, Works

LEMMA AssignedKept ==
  ASSUME LibTypes, [LibNext]_libVars, NEW p \in assigned' \ assigned
  PROVE  \E r \in Req : job[r].kind = "assign" /\ p[1] = job[r].mib
<1>1. ASSUME NEW r \in Req, CommitAssign(r)
      PROVE  job[r].kind = "assign" /\ p[1] = job[r].mib
  BY <1>1 DEF CommitAssign, At
<1>2. ASSUME NEW r \in Req,
             \/ Upload(r) \/ SelectMib(r) \/ CommitMib(r) \/ Assign(r) \/ CheckAssigned(r)
             \/ DeleteDevice(r) \/ Works(r) \/ Elsewhere(r) \/ Abort(r)
      PROVE  assigned' = assigned
  BY <1>2, WorksShape
     DEF Upload, SelectMib, CommitMib, Assign, CheckAssigned, DeleteDevice, Elsewhere, PutOid,
         DeleteOid, Link, Unlink, Abort, tables
<1>3. ASSUME NEW r \in Req, Unassign(r) \/ CommitDelete(r) PROVE assigned' \subseteq assigned
  BY <1>3 DEF Unassign, CommitDelete
<1>4. CASE UNCHANGED libVars
  BY <1>4 DEF libVars, tables
<1>5. QED BY <1>1, <1>2, <1>3, <1>4 DEF LibNext, Elsewhere, Works

LEMMA CountStep ==
  ASSUME LibTypes, FileInv, Counted, [LibNext]_libVars PROVE Counted'
<1>1. /\ count' \in 0 .. MaxRequests /\ faults' \in 0 .. MaxFaults
      /\ IsFiniteSet(Uploads') /\ Cardinality(mibs') + Cardinality(Uploads') <= count'
  BY CountsKept, UploadsCounted
<1>2. ASSUME NEW q \in Req, job'[q].kind = "assign"
      PROVE  job'[q].mib \in 1 .. MaxRequests
  BY <1>2, AssignsKept, IdsBounded DEF Counted, AssignKept
<1>3. ASSUME NEW p \in assigned' PROVE p[1] \in 1 .. MaxRequests
  BY AssignedKept DEF Counted
<1>4. QED BY <1>1, <1>2, <1>3 DEF Counted

(* The library's variables keep their types; in particular no row's id,    *)
(* which the database counts up, exceeds the number of requests.           *)
THEOREM LibAlwaysTyped == LibSpec => []LibTypeOK
<1>1. LibInit => Counted
  <2> SUFFICES ASSUME LibInit PROVE Counted
    OBVIOUS
  <2>1. Uploads = {} /\ mibs = {} /\ assigned = {} /\ count = 0 /\ faults = 0
        /\ \A r \in Req : job[r].kind = "idle"
    BY IdleType DEF LibInit, Uploads
  <2>2. QED BY <2>1, FS_EmptySet, MibLibraryAssumption DEF Counted
<1>2. LibTypes /\ FileInv /\ Counted /\ [LibNext]_libVars => Counted'
  BY CountStep
<1>3. LibTypes /\ FileInv /\ Counted => LibTypeOK
  <2> SUFFICES ASSUME LibTypes, FileInv, Counted PROVE LibTypeOK
    OBVIOUS
  <2>1. \A m \in mibs : m \in [id : 1 .. MaxRequests, name : Name, filename : File,
                               raw : Content]
    BY IdsBounded DEF LibTypes, MibRow
  <2>2. assigned \subseteq (1 .. MaxRequests) \X Dev
    BY DEF LibTypes, Pairs, Counted
  <2>3. QED BY <2>1, <2>2 DEF LibTypeOK, LibTypes, FileInv, StoreTyped, Counted
<1>4. QED BY <1>1, <1>2, <1>3, LibTypesCorrect, FilesAlways, PTL DEF LibSpec
=============================================================================
