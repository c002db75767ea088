---------------------------- MODULE TopologyProofs ---------------------------
(***************************************************************************)
(* What _allocate_link_subnet guarantees of the block of each link index,  *)
(* that a committed link never loses one of its devices, that the rows of  *)
(* links and the daemon's networks part only by a request at work or one   *)
(* that failed half way, and that a committed link keeps its network and   *)
(* its containers' attachments.                                            *)
(***************************************************************************)
EXTENDS Topology, DevicesProofs, FiniteSetTheorems

\* The block of an index below 8192 is where the docstring puts it: on a
\* multiple of eight...
LEMMA BlockBase ==
  ASSUME NEW i \in Nat, i < 8192
  PROVE  BaseOf(i) = i * 8
<1>1. (i * 8) \div 256 \in Nat /\ (i * 8) \div 256 < 256
  OBVIOUS
<1>2. ((i * 8) \div 256) % 256 = (i * 8) \div 256
  BY <1>1
<1> QED BY <1>2 DEF BaseOf

\* ... and its eight addresses are inside 172.20.0.0/16.
THEOREM BlockInPool ==
  ASSUME NEW i \in Nat, i < 8192, NEW x \in Subnet(BaseOf(i))
  PROVE  x \in Nat /\ x < 65536
<1>1. x \in (i * 8)..(i * 8 + 7)
  BY BlockBase DEF Subnet
<1> QED BY <1>1

\* Two links of different index, both below 8192, never share an address: as
\* long as indices differ, Docker has no reason to refuse a block.
THEOREM BlocksDisjoint ==
  ASSUME NEW i \in Nat, i < 8192, NEW j \in Nat, j < 8192, i # j
  PROVE  Subnet(BaseOf(i)) \cap Subnet(BaseOf(j)) = {}
<1>1. BaseOf(i) = i * 8
  BY BlockBase
<1>2. BaseOf(j) = j * 8
  BY BlockBase
<1>3. ASSUME NEW x \in (i * 8)..(i * 8 + 7), x \in (j * 8)..(j * 8 + 7)
      PROVE  FALSE
  <2>1. i * 8 + 7 < j * 8 \/ j * 8 + 7 < i * 8
    OBVIOUS
  <2> QED BY <1>3, <2>1
<1> QED BY <1>1, <1>2, <1>3 DEF Subnet

\* Both ends of a link lie in its block, and are neither its network address,
\* its gateway, its broadcast address nor each other.
THEOREM EndsInBlock ==
  ASSUME NEW i \in Nat
  PROVE  /\ {Ip1(BaseOf(i)), Ip2(BaseOf(i))} \subseteq Subnet(BaseOf(i))
         /\ Ip1(BaseOf(i)) # Ip2(BaseOf(i))
         /\ {Ip1(BaseOf(i)), Ip2(BaseOf(i))} \cap {BaseOf(i), BaseOf(i) + 1, BaseOf(i) + 7} = {}
<1>1. BaseOf(i) \in Nat
  BY DEF BaseOf
<1> QED BY <1>1 DEF Ip1, Ip2, Subnet

\* Past the pool the allocation starts again: index 8192 is given the block of
\* index 0.
THEOREM BlocksWrap ==
  ASSUME NEW i \in Nat
  PROVE  BaseOf(i + 8192) = BaseOf(i)
<1>1. ((i + 8192) * 8) \div 256 = (i * 8) \div 256 + 256
  OBVIOUS
<1>2. ((i + 8192) * 8) % 256 = (i * 8) % 256
  OBVIOUS
<1>3. ((i * 8) \div 256 + 256) % 256 = ((i * 8) \div 256) % 256
  <2>1. (i * 8) \div 256 \in Nat
    OBVIOUS
  <2> QED BY <2>1
<1> QED BY <1>1, <1>2, <1>3 DEF BaseOf

-----------------------------------------------------------------------------
(* A link's devices and rows never part.  Only a delete takes an id out of *)
(* devices; it waits for the links being inserted, and the foreign keys    *)
(* hold it back from the committed ones.                                   *)

HasId(r) == "id" \in DOMAIN r

Shape ==
  /\ DOMAIN req = Handlers
  /\ \A h \in Handlers :
       /\ DOMAIN req[h] = DOMAIN Idle
       /\ \A r \in req[h].made : HasId(r)
       /\ Is(h, {"create"}, "run") \/ req[h].kind \in Operations => HasId(req[h].row)
  /\ \A r \in devices : HasId(r)

\* Nobody takes the devices of a link that is about to be committed.
InsertsHaveDevices ==
  \A h \in Handlers :
    Is(h, {"link"}, "commit") =>
      RowsOf(req[h].lnk.src) # {} /\ RowsOf(req[h].lnk.dst) # {}

LinkInv == Shape /\ LinksHaveDevices /\ InsertsHaveDevices

\* No row goes.
IdsStay == \A id : RowsOf(id) # {} => RowsOf(id)' # {}

LEMMA SameRows == ASSUME devices' = devices PROVE IdsStay
  BY DEF IdsStay, RowsOf

\* A handler goes on, the rows stay, and the handler is not about to commit a
\* link: what most steps do.
LEMMA GoesOn ==
  ASSUME LinkInv, NEW h \in Handlers, NEW r, req' = [req EXCEPT ![h] = r],
         DOMAIN r = DOMAIN Idle, \A x \in r.made : HasId(x),
         (r.kind = "create" /\ r.pc = "run") \/ r.kind \in Operations => HasId(r.row),
         ~(r.kind = "link" /\ r.pc = "commit"),
         \A x \in devices' : HasId(x), IdsStay, links' \subseteq links
  PROVE  LinkInv'
<1>1. /\ DOMAIN req = Handlers
      /\ \A g \in Handlers :
           /\ DOMAIN req[g] = DOMAIN Idle /\ \A x \in req[g].made : HasId(x)
           /\ Is(g, {"create"}, "run") \/ req[g].kind \in Operations => HasId(req[g].row)
  BY DEF LinkInv, Shape
<1>2. DOMAIN req' = Handlers /\ req'[h] = r /\ \A g \in Handlers \ {h} : req'[g] = req[g]
  BY <1>1
<1>3. Shape'
  BY <1>1, <1>2 DEF Shape, Is
<1>4. LinksHaveDevices'
  BY DEF LinkInv, LinksHaveDevices, IdsStay
<1>5. InsertsHaveDevices'
  BY <1>2 DEF LinkInv, InsertsHaveDevices, IdsStay, Is
<1>6. QED BY <1>3, <1>4, <1>5 DEF LinkInv

\* The request of a handler ends.
LEMMA EndsWell ==
  ASSUME LinkInv, NEW h \in Handlers, Ends(h),
         \A x \in devices' : HasId(x), IdsStay, links' \subseteq links
  PROVE  LinkInv'
  BY GoesOn, EmptyHands DEF Ends, Operations, Runs

\* Either of them with the rows untouched.
LEMMA GoesQuietly ==
  ASSUME LinkInv, NEW h \in Handlers, NEW r, Goes(h, r),
         DOMAIN r = DOMAIN Idle, \A x \in r.made : HasId(x),
         (r.kind = "create" /\ r.pc = "run") \/ r.kind \in Operations => HasId(r.row),
         ~(r.kind = "link" /\ r.pc = "commit"), UNCHANGED <<devices, links>>
  PROVE  LinkInv'
  BY GoesOn, SameRows DEF Goes, LinkInv, Shape

LEMMA EndsQuietly ==
  ASSUME LinkInv, NEW h \in Handlers, Ends(h), UNCHANGED <<devices, links>>
  PROVE  LinkInv'
  BY EndsWell, SameRows DEF LinkInv, Shape

\* A handler that only moves its program counter or notes what it has read.
LEMMA StepsOn ==
  ASSUME LinkInv, NEW h \in Handlers, NEW r, Goes(h, r),
         DOMAIN r = DOMAIN Idle, r.made = req[h].made, r.row = req[h].row,
         r.kind = req[h].kind, r.kind # "create",
         ~(r.kind = "link" /\ r.pc = "commit"), UNCHANGED <<devices, links>>
  PROVE  LinkInv'
  BY GoesQuietly DEF LinkInv, Shape

-----------------------------------------------------------------------------
LEMMA NetworkSteps ==
  ASSUME LinkInv, NEW h \in Handlers,
         \/ CommitNetwork(h) \/ CheckNetwork(h) \/ RemoveNetwork(h) \/ LoadMembers(h)
         \/ CommitDropNetwork(h)
  PROVE  LinkInv'
<1> USE EmptyHands
<1>0. DOMAIN req[h] = DOMAIN Idle /\ \A r \in devices : HasId(r)
  BY DEF LinkInv, Shape
<1>1. CASE CommitNetwork(h)
  BY <1>1, EndsQuietly DEF CommitNetwork
<1>2. CASE CheckNetwork(h)
  <2>1. UNCHANGED <<devices, links>> /\ req[h].kind = "dropnet"
    BY <1>2 DEF CheckNetwork, rows, Is
  <2>2. Ends(h) \/ Goes(h, [req[h] EXCEPT !.pc = "remove"])
    BY <1>2 DEF CheckNetwork
  <2>3. QED BY <1>0, <2>1, <2>2, EndsQuietly, StepsOn
<1>3. CASE RemoveNetwork(h)
  <2>1. UNCHANGED <<devices, links>> /\ req[h].kind = "dropnet"
    BY <1>3 DEF RemoveNetwork, rows, Is
  <2>2. Ends(h) \/ Goes(h, [req[h] EXCEPT !.pc = "load"])
    BY <1>3 DEF RemoveNetwork
  <2>3. QED BY <1>0, <2>1, <2>2, EndsQuietly, StepsOn
<1>4. CASE LoadMembers(h)
  <2>1. UNCHANGED <<devices, links>> /\ req[h].kind = "dropnet"
    BY <1>4 DEF LoadMembers, rows, Is
  <2>2. Goes(h, [req[h] EXCEPT !.pc = "commit", !.seen = Members(req[h].lab)])
    BY <1>4 DEF LoadMembers
  <2>3. QED BY <1>0, <2>1, <2>2, StepsOn
<1>5. CASE CommitDropNetwork(h)
  <2> DEFINE n == req[h].lab
             cleared(r) == IF r.net = n.net THEN [r EXCEPT !.net = None] ELSE r
  <2>1. /\ Ends(h) /\ links' = links
        /\ devices' = {cleared(r) : r \in devices} \/ devices' = devices
    BY <1>5 DEF CommitDropNetwork
  <2>2. \A r \in devices : HasId(cleared(r)) /\ cleared(r).id = r.id
    BY <1>0 DEF HasId
  <2> HIDE DEF cleared
  <2>3. ASSUME devices' = {cleared(r) : r \in devices}
        PROVE  IdsStay /\ \A r \in devices' : HasId(r)
    <3>1. \A r \in devices : cleared(r) \in devices'
      BY <2>3
    <3>2. QED BY <2>2, <2>3, <3>1 DEF IdsStay, RowsOf
  <2>4. QED BY <1>0, <2>1, <2>3, EndsWell, SameRows
<1>6. QED
  BY <1>1, <1>2, <1>3, <1>4, <1>5

LEMMA CreateSteps ==
  ASSUME LinkInv, NEW h \in Handlers,
         InsertDevice(h) \/ RunContainer(h) \/ CommitCreate(h)
  PROVE  LinkInv'
<1> USE EmptyHands
<1>0. /\ DOMAIN req[h] = DOMAIN Idle /\ \A r \in devices : HasId(r)
      /\ \A r \in req[h].made : HasId(r)
      /\ Is(h, {"create"}, "run") => HasId(req[h].row)
  BY DEF LinkInv, Shape
<1>1. CASE InsertDevice(h)
  <2>1. UNCHANGED <<devices, links>> /\ req[h].kind = "create"
    BY <1>1 DEF InsertDevice, rows, Is
  <2> DEFINE row == NewRow(h, Head(req[h].todo))
  <2>2. HasId(row)
    BY DEF NewRow, HasId
  <2>3. Ends(h) \/ Goes(h, [req[h] EXCEPT !.pc = "run", !.row = row,
                                          !.made = @ \cup {row}])
    BY <1>1 DEF InsertDevice
  <2> HIDE DEF row
  <2> DEFINE r == [req[h] EXCEPT !.pc = "run", !.row = row, !.made = @ \cup {row}]
  <2>4. DOMAIN r = DOMAIN Idle /\ r.kind = "create" /\ r.row = row
        /\ r.made = req[h].made \cup {row}
    BY <1>0, <2>1
  <2>5. Ends(h) \/ Goes(h, r)
    BY <2>3
  <2> HIDE DEF r
  <2>6. QED BY <1>0, <2>1, <2>2, <2>4, <2>5, EndsQuietly, GoesQuietly
<1>2. CASE RunContainer(h)
  <2>1. UNCHANGED <<devices, links>> /\ Is(h, {"create"}, "run")
    BY <1>2 DEF RunContainer, rows
  <2> DEFINE todo == Tail(req[h].todo)
             pc == IF todo = <<>> THEN "commit" ELSE "insert"
             new == Launched(req[h].row,
                             create_device_container(docker, req[h].row.id, req[h].row.comm,
                                                     req[h].lab.net, req[h].row.ip).id)
  <2>2. Ends(h) \/ Goes(h, [req[h] EXCEPT !.pc = pc, !.todo = todo,
                              !.made = (@ \ {req[h].row}) \cup {new}])
    BY <1>2 DEF RunContainer
  <2>3. HasId(new) /\ pc # "run"
    BY <1>0, <2>1 DEF HasId, Launched
  <2> HIDE DEF todo, pc, new
  <2> DEFINE r == [req[h] EXCEPT !.pc = pc, !.todo = todo,
                     !.made = (@ \ {req[h].row}) \cup {new}]
  <2>4. DOMAIN r = DOMAIN Idle /\ r.kind = "create" /\ r.pc # "run"
        /\ r.made = (req[h].made \ {req[h].row}) \cup {new}
    BY <1>0, <2>1, <2>3 DEF Is
  <2>5. Ends(h) \/ Goes(h, r)
    BY <2>2
  <2> HIDE DEF r
  <2>6. QED
    BY <1>0, <2>1, <2>3, <2>4, <2>5, EndsQuietly, GoesQuietly DEF Operations, Runs
<1>3. CASE CommitCreate(h)
  <2>1. Ends(h) /\ links' = links /\ devices' = devices \cup req[h].made
    BY <1>3 DEF CommitCreate
  <2>2. IdsStay
    BY <2>1 DEF IdsStay, RowsOf
  <2>3. QED BY <1>0, <2>1, <2>2, EndsWell
<1>4. QED
  BY <1>1, <1>2, <1>3

LEMMA OperateSteps ==
  ASSUME LinkInv, NEW h \in Handlers,
         StopContainer(h) \/ StartContainer(h) \/ CommitOperate(h)
  PROVE  LinkInv'
<1> USE EmptyHands
<1>0. /\ DOMAIN req[h] = DOMAIN Idle /\ \A r \in devices : HasId(r)
      /\ \A r \in req[h].made : HasId(r)
      /\ req[h].kind \in Operations => HasId(req[h].row)
  BY DEF LinkInv, Shape
<1>1. CASE StopContainer(h)
  <2>1. UNCHANGED <<devices, links>> /\ req[h].kind \in {"stop", "delete"}
    BY <1>1 DEF StopContainer, rows, Is
  <2>2. Goes(h, [req[h] EXCEPT !.pc = "commit"])
    BY <1>1 DEF StopContainer
  <2>3. QED BY <1>0, <2>1, <2>2, StepsOn
<1>2. CASE StartContainer(h)
  <2>1. UNCHANGED <<devices, links>> /\ req[h].kind \in Runs
    BY <1>2 DEF StartContainer, rows, Is
  <2>2. PICK new :
          /\ \E ctr : new = Launched(req[h].row, ctr)
          /\ Ends(h) \/ Goes(h, [req[h] EXCEPT !.pc = "commit", !.made = {new}])
    BY <1>2 DEF StartContainer
  <2>3. HasId(new)
    BY <1>0, <2>1, <2>2 DEF HasId, Launched, Operations
  <2> DEFINE r == [req[h] EXCEPT !.pc = "commit", !.made = {new}]
  <2>4. /\ DOMAIN r = DOMAIN Idle /\ r.kind \in Runs /\ r.made = {new}
        /\ r.row = req[h].row
    BY <1>0, <2>1
  <2>5. Ends(h) \/ Goes(h, r)
    BY <2>2
  <2> HIDE DEF r
  <2>6. QED
    BY <1>0, <2>1, <2>3, <2>4, <2>5, EndsQuietly, GoesQuietly DEF Operations, Runs
<1>3. CASE CommitOperate(h)
  <2> DEFINE id == req[h].row.id
  <2>1. /\ Ends(h) /\ links' = links
        /\ devices' = (devices \ RowsOf(id)) \cup {Update(h, r) : r \in RowsOf(id)}
    BY <1>3 DEF CommitOperate
  <2>2. \A r \in devices : HasId(Update(h, r)) /\ Update(h, r).id = r.id
    BY <1>0 DEF Update, HasId
  <2>3. \A r \in RowsOf(id) : Update(h, r) \in devices'
    BY <2>1
  <2>4. \A r \in devices : r \in devices' \/ Update(h, r) \in devices'
    BY <2>1, <2>3
  <2>5. IdsStay
    BY <2>2, <2>4 DEF IdsStay, RowsOf
  <2>6. \A r \in devices' : HasId(r)
    BY <1>0, <2>1, <2>2 DEF RowsOf
  <2>7. QED BY <2>1, <2>5, <2>6, EndsWell
<1>4. QED
  BY <1>1, <1>2, <1>3

LEMMA PatchStep ==
  ASSUME LinkInv, NEW h \in Handlers, CommitPatch(h)
  PROVE  LinkInv'
<1> DEFINE patched2(r) == IF PatchesRow(h, r) THEN [r EXCEPT !.comm = req[h].comm] ELSE r
<1>0. /\ \A g \in Handlers : DOMAIN req[g] = DOMAIN Idle
      /\ \A r \in devices : HasId(r)
  BY DEF LinkInv, Shape
<1>1. /\ links' = links /\ devices' = {patched2(r) : r \in devices}
      /\ req' = [g \in Handlers |->
           IF g = h THEN Idle
           ELSE IF req[g].kind \in Runs /\ PatchesRow(h, req[g].row)
             THEN [req[g] EXCEPT !.behind = TRUE]
           ELSE req[g]]
  BY DEF CommitPatch
<1>2. \A r \in devices : HasId(patched2(r)) /\ patched2(r).id = r.id
  BY <1>0 DEF HasId
<1>3. \A r \in devices : patched2(r) \in devices'
  BY <1>1
<1> HIDE DEF patched2
<1>4. IdsStay /\ \A r \in devices' : HasId(r)
  BY <1>1, <1>2, <1>3 DEF IdsStay, RowsOf
<1>5. DOMAIN req' = Handlers /\ req'[h] = Idle
  BY <1>1
<1>6. ASSUME NEW g \in Handlers \ {h}
      PROVE  /\ DOMAIN req'[g] = DOMAIN Idle /\ req'[g].kind = req[g].kind
             /\ req'[g].pc = req[g].pc /\ req'[g].lnk = req[g].lnk
             /\ req'[g].row = req[g].row /\ req'[g].made = req[g].made
  <2>1. req'[g] = req[g] \/ req'[g] = [req[g] EXCEPT !.behind = TRUE]
    BY <1>1
  <2>2. QED BY <1>0, <2>1, EmptyHands
<1>7. Shape'
  <2>1. ASSUME NEW g \in Handlers
        PROVE  /\ DOMAIN req'[g] = DOMAIN Idle /\ \A r \in req'[g].made : HasId(r)
               /\ (req'[g].kind = "create" /\ req'[g].pc = "run")
                    \/ req'[g].kind \in Operations => HasId(req'[g].row)
    <3>1. CASE g = h
      BY <1>5, <3>1, EmptyHands DEF Operations, Runs
    <3>2. CASE g # h
      BY <1>6, <3>2 DEF LinkInv, Shape, Is
    <3>3. QED BY <3>1, <3>2
  <2>2. QED BY <1>4, <1>5, <2>1 DEF Shape, Is
<1>8. LinksHaveDevices'
  BY <1>1, <1>4 DEF LinkInv, LinksHaveDevices, IdsStay
<1>9. InsertsHaveDevices'
  BY <1>4, <1>5, <1>6, EmptyHands DEF LinkInv, InsertsHaveDevices, IdsStay, Is
<1>10. QED BY <1>7, <1>8, <1>9 DEF LinkInv

LEMMA DeleteStep ==
  ASSUME LinkInv, NEW h \in Handlers, CommitDelete(h)
  PROVE  LinkInv'
<1> DEFINE id == req[h].row.id
<1>1. /\ Ends(h) /\ links' = links
      /\ \A g \in Handlers : Is(g, {"link"}, "commit") =>
                               id \notin {req[g].lnk.src, req[g].lnk.dst}
      /\ \/ devices' = devices
         \/ ~Linked(id) /\ devices' = devices \ RowsOf(id)
  BY DEF CommitDelete
<1>2. CASE devices' = devices
  BY <1>1, <1>2, EndsQuietly
<1>3. CASE ~Linked(id) /\ devices' = devices \ RowsOf(id)
  <2>1. \A i : i # id => RowsOf(i) \subseteq RowsOf(i)'
    BY <1>3 DEF RowsOf
  <2>2. LinksHaveDevices'
    BY <1>1, <1>3, <2>1 DEF LinkInv, LinksHaveDevices, Linked
  <2>3. /\ DOMAIN req = Handlers /\ DOMAIN req' = Handlers /\ req'[h] = Idle
        /\ \A g \in Handlers \ {h} : req'[g] = req[g]
    BY <1>1 DEF Ends, LinkInv, Shape
  <2>4. InsertsHaveDevices'
    BY <1>1, <2>1, <2>3, EmptyHands DEF LinkInv, InsertsHaveDevices, Is
  <2>5. Shape'
    BY <1>3, <2>3, EmptyHands DEF LinkInv, Shape, Is, Operations, Runs
  <2>6. QED BY <2>2, <2>4, <2>5 DEF LinkInv
<1>4. QED BY <1>1, <1>2, <1>3

LEMMA DeviceSteps ==
  ASSUME LinkInv, NEW h \in Handlers, DeviceStep(h) PROVE LinkInv'
<1>1. ASSUME Abort(h) PROVE LinkInv'
  BY <1>1, EndsQuietly DEF Abort, rows
<1>2. QED
  BY <1>1, NetworkSteps, CreateSteps, OperateSteps, PatchStep, DeleteStep DEF DeviceStep

LEMMA DeviceRequests ==
  ASSUME LinkInv, NEW h \in Handlers, DeviceRequest(h) PROVE LinkInv'
<1> USE EmptyHands
<1>0. \A r \in devices : HasId(r)
  BY DEF LinkInv, Shape
<1>1. ASSUME NEW l \in Labs, CreateNetwork(h, l, LabBase[l]) PROVE LinkInv'
  <2>1. UNCHANGED <<devices, links>>
    BY <1>1 DEF CreateNetwork, rows
  <2>2. PICK lab : req' = req \/ Goes(h, [Idle EXCEPT !.kind = "newnet", !.pc = "commit",
                                                      !.lab = lab])
    BY <1>1 DEF CreateNetwork
  <2>3. ASSUME req' = req PROVE LinkInv'
    BY <2>1, <2>3 DEF LinkInv, Shape, LinksHaveDevices, InsertsHaveDevices, RowsOf, Is
  <2>4. QED BY <2>1, <2>2, <2>3, GoesQuietly DEF Operations, Runs
<1>2. ASSUME NEW n \in networks, DeleteNetwork(h, n) PROVE LinkInv'
  <2>1. UNCHANGED <<devices, links>>
        /\ Goes(h, [Idle EXCEPT !.kind = "dropnet", !.pc = "check", !.lab = n])
    BY <1>2 DEF DeleteNetwork, rows
  <2>2. QED BY <2>1, GoesQuietly DEF Operations, Runs
<1>3. ASSUME NEW n \in networks, NEW ips, CreateDevices(h, n, ips) PROVE LinkInv'
  <2>1. UNCHANGED <<devices, links>>
        /\ Goes(h, [Idle EXCEPT !.kind = "create", !.pc = "insert", !.lab = n, !.todo = ips])
    BY <1>3 DEF CreateDevices, rows
  <2>2. QED BY <2>1, GoesQuietly DEF Operations, Runs
<1>4. ASSUME NEW kind \in Operations, NEW r \in devices, Operate(h, kind, r) PROVE LinkInv'
  <2>1. UNCHANGED <<devices, links>>
        /\ Goes(h, [Idle EXCEPT !.kind = kind, !.pc = "docker", !.row = r])
    BY <1>4 DEF Operate, rows
  <2>2. QED BY <1>0, <2>1, GoesQuietly
<1>5. ASSUME NEW r \in devices, NEW c \in Communities, Patch(h, r, c) PROVE LinkInv'
  <2>1. UNCHANGED <<devices, links>>
        /\ Goes(h, [Idle EXCEPT !.kind = "patch", !.pc = "patch", !.row = r, !.comm = c])
    BY <1>5 DEF Patch, rows
  <2>2. QED BY <2>1, GoesQuietly DEF Operations, Runs
<1>6. QED
  BY <1>1, <1>2, <1>3, <1>4, <1>5 DEF DeviceRequest

LEMMA LinkRequests ==
  ASSUME LinkInv, NEW h \in Handlers, LinkRequest(h) PROVE LinkInv'
<1> USE EmptyHands
<1>1. ASSUME NEW s \in devices, NEW d \in devices, CreateLink(h, s, d) PROVE LinkInv'
  <2>1. PICK lnk :
          /\ UNCHANGED <<devices, links>>
          /\ Goes(h, [Idle EXCEPT !.kind = "link", !.pc = "count", !.row = s, !.peer = d,
                                  !.lnk = lnk])
    BY <1>1 DEF CreateLink, rows
  <2>2. QED BY <2>1, GoesQuietly DEF Operations, Runs
<1>2. ASSUME NEW l \in links, DeleteLink(h, l) PROVE LinkInv'
  <2>1. PICK s, d :
          /\ UNCHANGED <<devices, links>>
          /\ Goes(h, [Idle EXCEPT !.kind = "unlink", !.pc = "unwire", !.row = s, !.peer = d,
                                  !.lnk = l])
    BY <1>2 DEF DeleteLink, rows
  <2>2. QED BY <2>1, GoesQuietly DEF Operations, Runs
<1>3. QED
  BY <1>1, <1>2 DEF LinkRequest

LEMMA LinkSteps ==
  ASSUME LinkInv, NEW h \in Handlers, LinkStep(h) PROVE LinkInv'
<1> USE EmptyHands
<1>0. /\ DOMAIN req = Handlers /\ DOMAIN req[h] = DOMAIN Idle
      /\ \A r \in devices : HasId(r)
  BY DEF LinkInv, Shape
<1>1. CASE CountLinks(h)
  <2>1. UNCHANGED <<devices, links>> /\ req[h].kind = "link"
    BY <1>1 DEF CountLinks, rows, Is
  <2>2. Goes(h, [req[h] EXCEPT !.pc = "wire", !.index = NextIndex(h), !.seen = links])
    BY <1>1 DEF CountLinks
  <2>3. QED BY <1>0, <2>1, <2>2, StepsOn
<1>2. CASE WireLink(h)
  <2>1. UNCHANGED <<devices, links>> /\ req[h].kind = "link"
    BY <1>2 DEF WireLink, rows, Is
  <2>2. PICK net : Ends(h) \/ Goes(h, [req[h] EXCEPT !.pc = "insert", !.lnk.net = net])
    BY <1>2 DEF WireLink
  <2>3. QED BY <1>0, <2>1, <2>2, EndsQuietly, StepsOn
\* The flush finds both devices: what the invariant says from here on.
<1>3. CASE InsertLink(h)
  <2>1. UNCHANGED <<devices, links>> /\ req[h].kind = "link"
    BY <1>3 DEF InsertLink, rows, Is
  <2>2. CASE RowsOf(req[h].lnk.src) # {} /\ RowsOf(req[h].lnk.dst) # {}
    <3> DEFINE r == [req[h] EXCEPT !.pc = "commit"]
    <3>1. req' = [req EXCEPT ![h] = r]
      BY <1>3, <2>2 DEF InsertLink, Goes
    <3>2. /\ DOMAIN r = DOMAIN Idle /\ r.kind = "link" /\ r.pc = "commit"
          /\ r.lnk = req[h].lnk /\ r.made = req[h].made
      BY <1>0, <2>1
    <3> HIDE DEF r
    <3>3. DOMAIN req' = Handlers /\ req'[h] = r /\ \A g \in Handlers \ {h} : req'[g] = req[g]
      BY <1>0, <3>1
    <3>4. Shape'
      BY <2>1, <3>2, <3>3 DEF LinkInv, Shape, Is, Operations, Runs
    <3>5. InsertsHaveDevices'
      BY <2>1, <2>2, <3>2, <3>3 DEF LinkInv, InsertsHaveDevices, RowsOf, Is
    <3>6. LinksHaveDevices'
      BY <2>1 DEF LinkInv, LinksHaveDevices, RowsOf
    <3>7. QED BY <3>4, <3>5, <3>6 DEF LinkInv
  <2>3. CASE ~(RowsOf(req[h].lnk.src) # {} /\ RowsOf(req[h].lnk.dst) # {})
    <3>1. Ends(h)
      BY <1>3, <2>3 DEF InsertLink
    <3>2. QED BY <2>1, <3>1, EndsQuietly
  <2>4. QED BY <2>2, <2>3
<1>4. CASE CommitLink(h)
  <2>1. /\ Is(h, {"link"}, "commit") /\ Ends(h) /\ devices' = devices
        /\ links' = links \cup {req[h].lnk}
    BY <1>4 DEF CommitLink
  <2>2. /\ DOMAIN req' = Handlers /\ req'[h] = Idle
        /\ \A g \in Handlers \ {h} : req'[g] = req[g]
    BY <1>0, <2>1 DEF Ends
  <2>3. LinksHaveDevices'
    BY <2>1 DEF LinkInv, LinksHaveDevices, InsertsHaveDevices, RowsOf
  <2>4. InsertsHaveDevices'
    BY <2>1, <2>2 DEF LinkInv, InsertsHaveDevices, RowsOf, Is
  <2>5. Shape'
    BY <2>1, <2>2 DEF LinkInv, Shape, Is, Operations, Runs
  <2>6. QED BY <2>3, <2>4, <2>5 DEF LinkInv
<1>5. CASE UnwireLink(h)
  <2>1. UNCHANGED <<devices, links>> /\ req[h].kind = "unlink"
    BY <1>5 DEF UnwireLink, rows, Is
  <2>2. Ends(h) \/ Goes(h, [req[h] EXCEPT !.pc = "commit"])
    BY <1>5 DEF UnwireLink
  <2>3. QED BY <1>0, <2>1, <2>2, EndsQuietly, StepsOn
<1>6. CASE CommitUnlink(h)
  <2>1. Ends(h) /\ devices' = devices /\ links' \subseteq links
    BY <1>6 DEF CommitUnlink
  <2>2. QED BY <1>0, <2>1, EndsWell, SameRows
<1>7. CASE AbortLink(h)
  <2>1. Ends(h) /\ UNCHANGED <<devices, links>>
    BY <1>7 DEF AbortLink, Abort, rows
  <2>2. QED BY <2>1, EndsQuietly
<1>8. QED
  BY <1>1, <1>2, <1>3, <1>4, <1>5, <1>6, <1>7 DEF LinkStep

LEMMA LinkInvAlways == TopoSpec => []LinkInv
<1>1. TopoInit => LinkInv
  <2> SUFFICES ASSUME TopoInit PROVE LinkInv
    OBVIOUS
  <2>1. links = {} /\ req = [h \in Handlers |-> Idle] /\ \A r \in devices : HasId(r)
    BY DEF TopoInit, Init, InitRow, HasId
  <2>2. QED
    BY <2>1, EmptyHands
       DEF LinkInv, Shape, LinksHaveDevices, InsertsHaveDevices, Is, Operations, Runs
<1>2. LinkInv /\ [TopoNext]_topoVars => LinkInv'
  <2> SUFFICES ASSUME LinkInv, [TopoNext]_topoVars PROVE LinkInv'
    OBVIOUS
  <2>1. CASE TopoNext
    <3>1. PICK h \in Handlers : LinkRequest(h) \/ LinkStep(h) \/ OtherStep(h)
      BY <2>1 DEF TopoNext
    <3>2. OtherStep(h) => DeviceStep(h) \/ DeviceRequest(h)
      BY DEF OtherStep
    <3>3. QED BY <3>1, <3>2, LinkRequests, LinkSteps, DeviceSteps, DeviceRequests
  <2>2. CASE UNCHANGED topoVars
    BY <2>2 DEF topoVars, labVars, rows, LinkInv, Shape, LinksHaveDevices, InsertsHaveDevices,
                RowsOf, Is
  <2>3. QED BY <2>1, <2>2
<1>3. QED BY <1>1, <1>2, PTL DEF TopoSpec

\* For any number of handlers, devices and requests, whatever they do at once: a
\* committed link has both of its devices.
THEOREM LinksAlwaysHaveDevices == TopoSpec => []LinksHaveDevices
<1>1. LinkInv => LinksHaveDevices
  BY DEF LinkInv
<1>2. QED BY <1>1, LinkInvAlways, PTL

-----------------------------------------------------------------------------
(* Link networks.  A network leaves no link and no handler without a trace *)
(* because a link's id names one link, however many handlers tear it down, *)
(* and because what a teardown forgets is gone from the daemon: network    *)
(* ids are never used twice.                                               *)

OtherKinds == {"idle", "create", "patch"} \cup NetKinds \cup Operations

LinkKnown(l, c, d) == l.id \in Nat /\ l.id <= c /\ l.net \in Nat /\ l.net < d.next

\* No other link and no other handler's has this one's id.
OwnId(h, l) ==
  /\ \A m \in links : m.id # l.id
  /\ \A g \in Handlers \ {h} : req[g].kind \in LinkKinds => req[g].lnk.id # l.id

SameNet(l, m) == l.id = m.id => l.net = m.net

InHandOK(h, r) ==
  /\ r.kind \in LinkKinds => LinkKnown(r.lnk, count, docker)
  /\ r.kind = "link" => /\ DOMAIN r.lnk = {"id", "src", "dst", "net"}
                        /\ OwnId(h, r.lnk)
                        /\ r.pc \in {"insert", "commit"} \/ r.lnk.net = 0
  /\ r.kind = "unlink" => /\ \A m \in links : SameNet(m, r.lnk)
                          /\ r.pc = "commit" => r.lnk.net \notin Networks(docker)

StrayShape ==
  /\ Ready /\ count \in Nat /\ docker.next > 0
  /\ \A n \in docker.nets : n.id \in Nat /\ n.id > 0 /\ n.id < docker.next
  /\ \A l \in links : LinkKnown(l, count, docker) /\ \A m \in links : SameNet(l, m)

StrayInv ==
  /\ StrayShape /\ StraysExplained
  /\ \A h \in Handlers : InHandOK(h, req[h])

\* The daemon gets no networks but named ones with the next id.
Gains(names) ==
  /\ DockerShape(docker') /\ docker'.next >= docker.next
  /\ \A n \in docker'.nets :
       \/ n \in docker.nets
       \/ n.id = docker.next /\ docker.next < docker'.next /\ n.name \in names

\* What requests about networks and devices do.
LEMMA OthersKeepStrays ==
  ASSUME StrayInv, Gains(Labs), UNCHANGED <<links, strays>>, Ready',
         count' \in Nat, count' >= count,
         \A g \in Handlers : \/ req'[g] = req[g]
                             \/ req[g].kind \notin LinkKinds /\ req'[g].kind \notin LinkKinds
  PROVE  StrayInv'
<1>1. /\ DockerShape(docker) /\ docker.next \in Nat /\ docker'.next \in Nat /\ docker.next > 0
      /\ docker'.next >= docker.next /\ count \in Nat
  BY DEF StrayInv, StrayShape, Ready, DockerShape, Gains
<1>2. \A l : LinkKnown(l, count, docker) => LinkKnown(l, count', docker')
  BY <1>1 DEF LinkKnown
<1>3. StrayShape'
  BY <1>1, <1>2 DEF StrayInv, StrayShape, Gains, SameNet
<1>4. \A net : net \in Nat /\ net < docker.next /\ net \notin Networks(docker)
                 => net \notin Networks(docker')
  BY <1>1 DEF Gains, Networks
<1>5. ASSUME NEW h \in Handlers PROVE InHandOK(h, req[h])'
  <2>1. CASE req[h].kind \in LinkKinds
    <3>1. req'[h] = req[h] /\ InHandOK(h, req[h])
      BY <2>1 DEF StrayInv
    <3>2. OwnId(h, req[h].lnk) => OwnId(h, req[h].lnk)'
      BY <3>1 DEF OwnId
    <3>3. req[h].kind = "link" => OwnId(h, req[h].lnk)'
      BY <3>1, <3>2 DEF InHandOK
    <3>4. LinkKnown(req[h].lnk, count, docker) /\ LinkKnown(req[h].lnk, count', docker')
      BY <1>2, <2>1, <3>1 DEF InHandOK
    <3>5. req[h].kind = "unlink" /\ req[h].pc = "commit" => req[h].lnk.net \notin Networks(docker')
      BY <1>4, <3>1, <3>4 DEF InHandOK, LinkKnown
    <3>6. QED
      BY <3>1, <3>3, <3>4, <3>5 DEF InHandOK, SameNet
  <2>2. CASE req[h].kind \notin LinkKinds
    BY <2>2 DEF InHandOK, LinkKinds
  <2>3. QED BY <2>1, <2>2
<1>6. StraysExplained'
  <2>1. \A net : HasNet(net) => HasNet(net)'
    BY DEF HasNet, LinkKinds
  <2>2. QED BY <2>1 DEF StrayInv, StraysExplained, LinkNets, Gains
<1>7. QED BY <1>3, <1>5, <1>6 DEF StrayInv

\* What a step about links does to the rest: the handler goes on with r, the
\* daemon gains at most the network in its hands, and what was in them stays
\* there or is a stray.
LEMMA LinkMoves ==
  ASSUME StrayInv, NEW h \in Handlers, NEW r, Goes(h, r), DOMAIN r = DOMAIN Idle,
         DockerShape(docker'), docker'.next >= docker.next, docker'.next \in Nat,
         count' \in Nat, count' >= count, links' = links, strays \subseteq strays',
         \A n \in docker'.nets :
           \/ n \in docker.nets
           \/ /\ n.id = docker.next /\ docker.next < docker'.next
              /\ n.id \in strays' \/ (r.kind = "link" /\ r.lnk.net = n.id),
         r.kind \in LinkKinds => LinkKnown(r.lnk, count', docker'),
         r.kind = "link" => /\ DOMAIN r.lnk = {"id", "src", "dst", "net"}
                            /\ r.pc \in {"insert", "commit"} \/ r.lnk.net = 0,
         r.kind = "unlink" => /\ \A m \in links : SameNet(m, r.lnk)
                              /\ r.pc = "commit" => r.lnk.net \notin Networks(docker'),
         r.kind = "link" => OwnId(h, r.lnk),
         r.kind = "unlink" =>
           \A g \in Handlers \ {h} : req[g].kind = "link" => req[g].lnk.id # r.lnk.id,
         req[h].kind = "link" => \/ req[h].lnk.net \in {0} \cup strays'
                                 \/ r.kind = "link" /\ r.lnk.net = req[h].lnk.net
  PROVE  StrayInv'
<1>1. /\ DockerShape(docker) /\ docker.next \in Nat /\ docker.next > 0 /\ count \in Nat
      /\ DOMAIN req = Handlers /\ \A g \in Handlers : DOMAIN req[g] = DOMAIN Idle
  BY DEF StrayInv, StrayShape, Ready, DockerShape
<1>2. DOMAIN req' = Handlers /\ req'[h] = r /\ \A g \in Handlers \ {h} : req'[g] = req[g]
  BY <1>1 DEF Goes
<1>3. \A l : LinkKnown(l, count, docker) => LinkKnown(l, count', docker')
  BY <1>1 DEF LinkKnown
<1>4. StrayShape'
  BY <1>1, <1>2, <1>3 DEF StrayInv, StrayShape, Ready, SameNet
<1>5. \A net : net \in Nat /\ net < docker.next /\ net \notin Networks(docker)
                 => net \notin Networks(docker')
  BY <1>1 DEF Networks
<1>6. ASSUME NEW g \in Handlers PROVE InHandOK(g, req[g])'
  <2>1. CASE g = h
    <3>1. r.kind = "link" => OwnId(h, r.lnk)'
      BY <1>2 DEF OwnId
    <3>2. QED BY <1>2, <2>1, <3>1 DEF InHandOK, SameNet
  <2>2. CASE g # h
    <3>1. req'[g] = req[g] /\ InHandOK(g, req[g])
      BY <1>2, <2>2 DEF StrayInv
    <3>2. req[g].kind = "link" => OwnId(g, req[g].lnk)'
      BY <1>2, <2>2, <3>1 DEF InHandOK, OwnId, LinkKinds
    <3>3. req[g].kind \in LinkKinds => LinkKnown(req[g].lnk, count, docker) /\ LinkKnown(req[g].lnk, count', docker')
      BY <1>3, <3>1 DEF InHandOK
    <3>4. req[g].kind = "unlink" /\ req[g].pc = "commit" => req[g].lnk.net \notin Networks(docker')
      BY <1>5, <3>1, <3>3 DEF InHandOK, LinkKnown, LinkKinds
    <3>5. QED
      BY <3>1, <3>2, <3>3, <3>4 DEF InHandOK, SameNet
  <2>3. QED BY <2>1, <2>2
<1>7. StraysExplained'
  <2>1. ASSUME NEW n \in LinkNets(docker) PROVE HasNet(n.id)' \/ n.id \in strays'
    <3>1. n.id > 0 /\ n \in docker.nets /\ (HasNet(n.id) \/ n.id \in strays)
      BY DEF StrayInv, StrayShape, StraysExplained, LinkNets
    <3>2. ASSUME NEW g \in Handlers, req[g].kind = "link", req[g].lnk.net = n.id
          PROVE  HasNet(n.id)' \/ n.id \in strays'
      BY <1>2, <3>1, <3>2 DEF HasNet
    <3>3. QED BY <3>1, <3>2 DEF HasNet
  <2>2. ASSUME NEW n \in LinkNets(docker)', n \notin docker.nets
        PROVE  HasNet(n.id)' \/ n.id \in strays'
    BY <1>2, <2>2 DEF HasNet, LinkNets
  <2>3. QED BY <2>1, <2>2 DEF StraysExplained, LinkNets
<1>8. QED BY <1>4, <1>6, <1>7 DEF StrayInv

\* A request about a link ends, its network a stray if it had one.
LEMMA LinkEnds ==
  ASSUME StrayInv, NEW h \in Handlers, Ends(h), req[h].kind \in LinkKinds,
         DockerShape(docker'), docker'.next >= docker.next,
         count' = count, links' = links, strays \subseteq strays',
         \A n \in docker'.nets :
           \/ n \in docker.nets
           \/ n.id = docker.next /\ docker.next < docker'.next /\ n.id \in strays',
         req[h].kind = "link" => req[h].lnk.net \in {0} \cup strays'
  PROVE  StrayInv'
<1>1. PICK r : Goes(h, r) /\ DOMAIN r = DOMAIN Idle /\ r.kind = "idle"
  BY EmptyHands DEF Ends, Goes
<1>2. count' \in Nat /\ count' >= count /\ docker'.next \in Nat
  BY DEF StrayInv, StrayShape, DockerShape
<1>3. r.kind \notin LinkKinds /\ r.kind # "link" /\ r.kind # "unlink"
  BY <1>1 DEF LinkKinds
<1>4. \A n \in docker'.nets :
        \/ n \in docker.nets
        \/ /\ n.id = docker.next /\ docker.next < docker'.next
           /\ n.id \in strays' \/ (r.kind = "link" /\ r.lnk.net = n.id)
  OBVIOUS
<1>5. req[h].kind = "link" => \/ req[h].lnk.net \in {0} \cup strays'
                              \/ r.kind = "link" /\ r.lnk.net = req[h].lnk.net
  OBVIOUS
<1>6. Goes(h, r) /\ DOMAIN r = DOMAIN Idle
  BY <1>1
<1>7. QED BY <1>2, <1>3, <1>4, <1>5, <1>6, LinkMoves

LEMMA CreateLinkStep ==
  ASSUME StrayInv, NEW h \in Handlers, NEW s, NEW d, CreateLink(h, s, d) PROVE StrayInv'
<1> DEFINE lnk == [id |-> count', src |-> s.id, dst |-> d.id, net |-> 0]
           r == [Idle EXCEPT !.kind = "link", !.pc = "count", !.row = s, !.peer = d, !.lnk = lnk]
<1>1. /\ UNCHANGED <<docker, links, strays>> /\ Goes(h, r)
      /\ req[h].kind = "idle" /\ count' = count + 1
  BY EmptyHands DEF CreateLink, Arrives, rows, histVars
<1>2. /\ DOMAIN r = DOMAIN Idle /\ r.kind = "link" /\ r.lnk = lnk
      /\ DOMAIN lnk = {"id", "src", "dst", "net"} /\ lnk.id = count' /\ lnk.net = 0
  BY DEF Idle
<1>3. count \in Nat /\ DockerShape(docker) /\ docker.next \in Nat /\ docker.next > 0
  BY DEF StrayInv, StrayShape, Ready, DockerShape
<1> HIDE DEF lnk, r
\* The id is new.
<1>4. LinkKnown(lnk, count', docker') /\ OwnId(h, lnk)
  <2>1. \A m \in links : m.id <= count /\ m.id \in Nat
    BY DEF StrayInv, StrayShape, LinkKnown
  <2>2. \A g \in Handlers : req[g].kind \in LinkKinds => req[g].lnk.id <= count /\ req[g].lnk.id \in Nat
    BY DEF StrayInv, InHandOK, LinkKnown
  <2>3. OwnId(h, lnk)
    BY <1>1, <1>2, <1>3, <2>1, <2>2 DEF OwnId
  <2>4. QED BY <1>1, <1>2, <1>3, <2>3 DEF LinkKnown
<1>5. count' \in Nat /\ count' >= count /\ docker'.next >= docker.next
  BY <1>1, <1>3
<1>6. QED BY <1>1, <1>2, <1>3, <1>4, <1>5, LinkMoves

LEMMA CountLinksStep ==
  ASSUME StrayInv, NEW h \in Handlers, CountLinks(h) PROVE StrayInv'
<1> DEFINE r == [req[h] EXCEPT !.pc = "wire", !.index = NextIndex(h), !.seen = links]
<1>1. /\ UNCHANGED <<docker, links, strays, count>> /\ Goes(h, r)
      /\ req[h].kind = "link" /\ req[h].pc = "count"
  BY DEF CountLinks, rows, histVars, Is
<1>2. /\ count \in Nat /\ DockerShape(docker) /\ docker.next \in Nat
      /\ DOMAIN req[h] = DOMAIN Idle /\ InHandOK(h, req[h])
  BY DEF StrayInv, StrayShape, Ready, DockerShape
<1>3. DOMAIN r = DOMAIN Idle /\ r.kind = "link" /\ r.lnk = req[h].lnk
  BY <1>1, <1>2
<1> HIDE DEF r
<1>4. /\ LinkKnown(r.lnk, count, docker) /\ OwnId(h, r.lnk) /\ r.lnk.net = 0
      /\ DOMAIN r.lnk = {"id", "src", "dst", "net"}
  BY <1>1, <1>2, <1>3 DEF InHandOK, LinkKinds
<1>5. LinkKnown(r.lnk, count', docker')
  BY <1>1, <1>4 DEF LinkKnown
<1>6. QED BY <1>1, <1>2, <1>3, <1>4, <1>5, LinkMoves

LEMMA InsertLinkStep ==
  ASSUME StrayInv, NEW h \in Handlers, InsertLink(h) PROVE StrayInv'
<1> DEFINE r == [req[h] EXCEPT !.pc = "commit"]
<1>1. /\ UNCHANGED <<docker, links, count>>
      /\ req[h].kind = "link" /\ req[h].pc = "insert"
      /\ \/ Goes(h, r) /\ strays' = strays
         \/ Ends(h) /\ strays' = strays \cup {req[h].lnk.net}
  BY DEF InsertLink, rows, Is
<1>2. /\ count \in Nat /\ DockerShape(docker) /\ docker.next \in Nat
      /\ DOMAIN req[h] = DOMAIN Idle /\ InHandOK(h, req[h])
  BY DEF StrayInv, StrayShape, Ready, DockerShape
<1>3. DOMAIN r = DOMAIN Idle /\ r.kind = "link" /\ r.lnk = req[h].lnk /\ r.pc = "commit"
  BY <1>1, <1>2 DEF Idle
<1> HIDE DEF r
<1>4. CASE Goes(h, r) /\ strays' = strays
  <2>1. /\ LinkKnown(r.lnk, count, docker) /\ OwnId(h, r.lnk) /\ DOMAIN r.lnk = {"id", "src", "dst", "net"}
    BY <1>1, <1>2, <1>3 DEF InHandOK, LinkKinds
  <2>2. LinkKnown(r.lnk, count', docker')
    BY <1>1, <2>1 DEF LinkKnown
  <2>3. QED BY <1>1, <1>2, <1>3, <1>4, <2>1, <2>2, LinkMoves
<1>5. CASE Ends(h) /\ strays' = strays \cup {req[h].lnk.net}
  BY <1>1, <1>2, <1>5, LinkEnds DEF LinkKinds
<1>6. QED BY <1>1, <1>4, <1>5

LEMMA PlugInKeeps ==
  ASSUME NEW d, DockerShape(d), NEW row, NEW net, NEW ip
  PROVE  Keeps(d, PlugIn(d, row, net, ip).d)
<1>1. PlugIn(d, row, net, ip).d \in {d, Connect(d, row.ctr, net, ip).d}
  BY DEF PlugIn, attach_container_to_network, Out
<1>2. QED BY <1>1, KeepsItself, ConnectKeeps

\* Whichever call it stops at, a provisioning adds at most its own network.
OwnNet(h, d) ==
  /\ DockerShape(d) /\ d.next >= docker.next
  /\ \A n \in d.nets :
       \/ n \in docker.nets
       \/ n.id = docker.next /\ docker.next < d.next /\ n.id = Wiring(h).net

LEMMA WiringAdds ==
  ASSUME StrayInv, NEW h \in Handlers
  PROVE  /\ OwnNet(h, Wiring(h).out.d) /\ \A d \in Wiring(h).stages : OwnNet(h, d)
         /\ Wiring(h).out.err = "ok" =>
              Wiring(h).net \in Nat /\ Wiring(h).net < Wiring(h).out.d.next
<1> DEFINE q == req[h]
           base == BaseOf(q.index)
           name == <<q.row.id, q.peer.id>>
           made == create_docker_network(docker, name, base)
           one  == PlugIn(made.d, q.row, made.id, Ip1(base))
           two  == PlugIn(one.d, q.peer, made.id, Ip2(base))
<1>0. DockerShape(docker) /\ docker.next \in Nat
      /\ \A n \in docker.nets : n.id \in Nat /\ n.id < docker.next
  BY DEF StrayInv, StrayShape, Ready, DockerShape
<1>1. /\ Wiring(h).net = made.id /\ Wiring(h).stages = {docker, made.d, one.d}
      /\ Wiring(h).out \in {made, one, two}
      /\ Wiring(h).out.err = "ok" => made.err = "ok"
  BY DEF Wiring
<1>2. /\ DockerShape(made.d) /\ made.d.next >= docker.next
      /\ \A n \in made.d.nets :
           \/ n \in docker.nets
           \/ n.id = docker.next /\ docker.next < made.d.next /\ n.id = made.id
      /\ made.err = "ok" => made.id \in Nat /\ made.id < made.d.next
  <2>1. CASE Named(docker, name) # {}
    <3>1. (CHOOSE n \in Named(docker, name) : TRUE) \in docker.nets
      BY <2>1 DEF Named
    <3>2. made = Out(docker, (CHOOSE n \in Named(docker, name) : TRUE).id, "ok")
      BY <2>1 DEF create_docker_network
    <3>3. QED BY <1>0, <3>1, <3>2 DEF Out
  <2>2. CASE Named(docker, name) = {} /\ \E n \in docker.nets : n.base = base
    BY <1>0, <2>2 DEF create_docker_network, Out
  <2>3. CASE Named(docker, name) = {} /\ ~\E n \in docker.nets : n.base = base
    <3>1. made = Out(AddNetwork(docker, name, base), docker.next, "ok")
      BY <2>3 DEF create_docker_network
    <3>2. made.d = AddNetwork(docker, name, base) /\ made.id = docker.next
      BY <3>1 DEF Out
    <3>3. /\ DOMAIN AddNetwork(docker, name, base) = DOMAIN docker
          /\ AddNetwork(docker, name, base).next = docker.next + 1
          /\ AddNetwork(docker, name, base).nets =
               docker.nets \cup {[id |-> docker.next, name |-> name, base |-> base]}
      BY <1>0 DEF AddNetwork, DockerShape
    <3>4. QED BY <1>0, <3>2, <3>3 DEF DockerShape
  <2>4. QED BY <2>1, <2>2, <2>3
<1> HIDE DEF made
<1>3. Keeps(made.d, one.d) /\ DockerShape(one.d)
  BY <1>2, PlugInKeeps DEF Keeps
<1>4. Keeps(one.d, two.d)
  BY <1>3, PlugInKeeps
<1> HIDE DEF one, two
<1>5. \A d \in {made.d, one.d, two.d} : Keeps(made.d, d)
  BY <1>2, <1>3, <1>4, KeepsItself, KeepsOn
<1>6. ASSUME NEW d \in {made.d, one.d, two.d} PROVE OwnNet(h, d)
  <2>1. /\ DockerShape(d) /\ d.nets = made.d.nets /\ d.next >= made.d.next
        /\ d.next \in Nat /\ made.d.next \in Nat
    BY <1>2, <1>5 DEF Keeps, DockerShape
  <2>2. QED BY <1>0, <1>1, <1>2, <2>1 DEF OwnNet
<1>7. OwnNet(h, docker)
  BY <1>0 DEF OwnNet
<1>8. Wiring(h).out.d \in {made.d, one.d, two.d}
  BY <1>1
<1>9. made.err = "ok" => \A d \in {made.d, one.d, two.d} : made.id < d.next
  BY <1>0, <1>2, <1>5 DEF Keeps, DockerShape
<1>10. QED BY <1>1, <1>2, <1>6, <1>7, <1>8, <1>9

LEMMA WireLinkStep ==
  ASSUME StrayInv, NEW h \in Handlers, WireLink(h) PROVE StrayInv'
<1> DEFINE w == Wiring(h)
           r == [req[h] EXCEPT !.pc = "insert", !.lnk.net = w.net]
<1>1. /\ UNCHANGED <<links, count>> /\ req[h].kind = "link" /\ req[h].pc = "wire"
      /\ \/ w.out.err = "ok" /\ docker' = w.out.d /\ Goes(h, r) /\ strays' = strays
         \/ /\ docker' \in w.stages \cup {w.out.d} /\ Ends(h)
            /\ strays' = strays \cup ({w.net} \cap Networks(docker'))
  BY DEF WireLink, rows, Is, Stray
<1>2. /\ count \in Nat /\ DockerShape(docker) /\ docker.next \in Nat
      /\ DOMAIN req[h] = DOMAIN Idle /\ InHandOK(h, req[h])
  BY DEF StrayInv, StrayShape, Ready, DockerShape
<1>3. /\ LinkKnown(req[h].lnk, count, docker) /\ OwnId(h, req[h].lnk) /\ req[h].lnk.net = 0
      /\ DOMAIN req[h].lnk = {"id", "src", "dst", "net"}
  BY <1>1, <1>2 DEF InHandOK, LinkKinds
<1>4. /\ DOMAIN r = DOMAIN Idle /\ r.kind = "link" /\ r.pc = "insert" /\ r.lnk.net = w.net
      /\ r.lnk.id = req[h].lnk.id /\ DOMAIN r.lnk = {"id", "src", "dst", "net"}
  BY <1>1, <1>2, <1>3 DEF Idle
<1>5. /\ \A d \in w.stages \cup {w.out.d} : OwnNet(h, d)
      /\ w.out.err = "ok" => w.net \in Nat /\ w.net < w.out.d.next
  BY WiringAdds
<1>6. OwnNet(h, docker')
  BY <1>1, <1>5
<1> HIDE DEF w, r
<1>7. /\ DockerShape(docker') /\ docker'.next >= docker.next /\ docker'.next \in Nat
      /\ \A n \in docker'.nets :
           \/ n \in docker.nets
           \/ n.id = docker.next /\ docker.next < docker'.next /\ n.id = w.net
  BY <1>6 DEF OwnNet, DockerShape, w
<1>8. CASE w.out.err = "ok" /\ docker' = w.out.d /\ Goes(h, r) /\ strays' = strays
  <2>1. LinkKnown(r.lnk, count', docker')
    BY <1>1, <1>2, <1>3, <1>4, <1>5, <1>8 DEF LinkKnown
  <2>2. OwnId(h, r.lnk)
    BY <1>3, <1>4 DEF OwnId
  <2>3. QED BY <1>1, <1>2, <1>3, <1>4, <1>7, <1>8, <2>1, <2>2, LinkMoves
<1>9. CASE Ends(h) /\ strays' = strays \cup ({w.net} \cap Networks(docker'))
  BY <1>1, <1>3, <1>7, <1>9, LinkEnds DEF LinkKinds, Networks
<1>10. QED BY <1>1, <1>8, <1>9

LEMMA CommitLinkStep ==
  ASSUME StrayInv, NEW h \in Handlers, CommitLink(h) PROVE StrayInv'
<1> DEFINE lnk == req[h].lnk
<1>1. /\ UNCHANGED <<docker, count>> /\ req[h].kind = "link"
      /\ links' = links \cup {lnk} /\ Ends(h) /\ strays' = strays \ {lnk.net}
  BY DEF CommitLink, Is
<1>2. /\ DOMAIN req = Handlers /\ \A g \in Handlers : DOMAIN req[g] = DOMAIN Idle
      /\ \A g \in Handlers : InHandOK(g, req[g])
  BY DEF StrayInv, StrayShape, Ready
<1>3. /\ DOMAIN req' = Handlers /\ req'[h].kind = "idle" /\ DOMAIN req'[h] = DOMAIN Idle
      /\ \A g \in Handlers \ {h} : req'[g] = req[g]
  BY <1>1, <1>2, EmptyHands DEF Ends
<1>4. LinkKnown(lnk, count, docker) /\ OwnId(h, lnk)
  BY <1>1, <1>2 DEF InHandOK, LinkKinds
<1>5. StrayShape'
  <2>1. Ready'
    BY <1>1, <1>2, <1>3 DEF StrayInv, StrayShape, Ready
  <2>2. \A l, m \in links' : SameNet(l, m)
    BY <1>1, <1>4 DEF StrayInv, StrayShape, SameNet, OwnId
  <2>3. \A l \in links' : LinkKnown(l, count, docker)
    BY <1>1, <1>4 DEF StrayInv, StrayShape
  <2> HIDE DEF lnk
  <2>4. QED BY <1>1, <2>1, <2>2, <2>3 DEF StrayInv, StrayShape
<1>6. ASSUME NEW g \in Handlers PROVE InHandOK(g, req[g])'
  <2>1. CASE g = h
    BY <1>3, <2>1 DEF InHandOK, LinkKinds
  <2>2. CASE g # h
    <3>1. req'[g] = req[g] /\ InHandOK(g, req[g])
      BY <1>2, <1>3, <2>2
    <3>2. ASSUME req[g].kind = "link" PROVE OwnId(g, req[g].lnk)'
      <4>1. OwnId(g, req[g].lnk) /\ req[g].lnk.id # lnk.id
        BY <1>4, <2>2, <3>1, <3>2 DEF InHandOK, OwnId, LinkKinds
      <4>2. \A f \in Handlers \ {g} : req'[f].kind \in LinkKinds => req'[f] = req[f]
        BY <1>3 DEF LinkKinds
      <4>3. QED BY <1>1, <3>1, <4>1, <4>2 DEF OwnId
    <3>3. req[g].kind = "unlink" => \A m \in links' : SameNet(m, req[g].lnk)
      BY <1>1, <1>4, <2>2, <3>1 DEF InHandOK, OwnId, SameNet, LinkKinds
    <3>4. LinkKnown(req[g].lnk, count, docker) => LinkKnown(req[g].lnk, count, docker)'
      BY <1>1, <3>1
    <3>5. QED BY <1>1, <3>1, <3>2, <3>3, <3>4 DEF InHandOK
  <2>3. QED BY <2>1, <2>2
<1>7. StraysExplained'
  <2>1. ASSUME NEW n \in LinkNets(docker) PROVE HasNet(n.id)' \/ n.id \in strays'
    <3>1. CASE n.id = lnk.net
      BY <1>1, <3>1 DEF HasNet
    <3>2. CASE n.id # lnk.net /\ HasNet(n.id)
      BY <1>1, <1>3, <3>2 DEF HasNet
    <3>3. CASE n.id # lnk.net /\ n.id \in strays
      BY <1>1, <3>3
    <3>4. QED BY <3>1, <3>2, <3>3 DEF StrayInv, StraysExplained
  <2>2. QED BY <1>1, <2>1 DEF StraysExplained, LinkNets
<1>8. QED BY <1>5, <1>6, <1>7 DEF StrayInv

LEMMA DeleteLinkStep ==
  ASSUME StrayInv, NEW h \in Handlers, NEW l \in links, DeleteLink(h, l) PROVE StrayInv'
<1>1. PICK s \in RowsOf(l.src), d \in RowsOf(l.dst) :
        Goes(h, [Idle EXCEPT !.kind = "unlink", !.pc = "unwire", !.row = s, !.peer = d,
                             !.lnk = l])
  BY DEF DeleteLink
<1> DEFINE r == [Idle EXCEPT !.kind = "unlink", !.pc = "unwire", !.row = s, !.peer = d,
                             !.lnk = l]
<1>2. /\ UNCHANGED <<docker, links, strays>> /\ req[h].kind = "idle" /\ count' = count + 1
      /\ Goes(h, r)
  BY <1>1, EmptyHands DEF DeleteLink, Arrives, rows, histVars
<1>3. DOMAIN r = DOMAIN Idle /\ r.kind = "unlink" /\ r.pc = "unwire" /\ r.lnk = l
  BY DEF Idle
<1> HIDE DEF r
<1>4. /\ count \in Nat /\ DockerShape(docker) /\ docker.next \in Nat
      /\ LinkKnown(l, count, docker) /\ \A m \in links : SameNet(m, l)
  BY DEF StrayInv, StrayShape, Ready, DockerShape, SameNet
<1>5. LinkKnown(r.lnk, count', docker')
  BY <1>2, <1>3, <1>4 DEF LinkKnown
<1>6. \A g \in Handlers \ {h} : req[g].kind = "link" => req[g].lnk.id # r.lnk.id
  BY <1>3 DEF StrayInv, InHandOK, OwnId
<1>7. count' \in Nat /\ count' >= count /\ docker'.next >= docker.next /\ docker'.nets = docker.nets
  BY <1>2, <1>4
<1>8. QED BY <1>2, <1>3, <1>4, <1>5, <1>6, <1>7, LinkMoves

LEMMA UnwireLinkStep ==
  ASSUME StrayInv, NEW h \in Handlers, UnwireLink(h) PROVE StrayInv'
<1> DEFINE l == req[h].lnk
           one == PlugOut(docker, req[h].row, l.net)
           two == PlugOut(one, req[h].peer, l.net)
           end == remove_docker_network(two, l.net)
           r == [req[h] EXCEPT !.pc = "commit"]
<1> DEFINE other == PlugOut(docker, req[h].peer, l.net)
<1>1. /\ UNCHANGED <<links, count, strays>> /\ req[h].kind = "unlink"
      /\ \/ docker' = end.d /\ end.err = "ok" /\ Goes(h, r)
         \/ docker' \in {end.d, docker, one, other, two} /\ Ends(h)
  BY DEF UnwireLink, rows, Is
<1>2. /\ count \in Nat /\ DockerShape(docker) /\ docker.next \in Nat
      /\ DOMAIN req[h] = DOMAIN Idle /\ InHandOK(h, req[h])
  BY DEF StrayInv, StrayShape, Ready, DockerShape
<1>3. ASSUME NEW d, DockerShape(d), NEW row PROVE Keeps(d, PlugOut(d, row, l.net))
  BY <1>3 DEF PlugOut, detach_container_from_network, Keeps, DockerShape
<1>4. Keeps(docker, two) /\ DockerShape(two)
  <2>1. Keeps(docker, one) /\ DockerShape(one)
    BY <1>2, <1>3 DEF Keeps
  <2>2. Keeps(one, two) /\ DockerShape(two)
    BY <1>3, <2>1 DEF Keeps
  <2>3. QED BY <1>2, <2>1, <2>2, KeepsOn
<1>11. \A d \in {docker, one, other} : Keeps(docker, d)
  BY <1>2, <1>3, KeepsItself
<1> HIDE DEF one, two, other
<1>5. /\ DockerShape(end.d) /\ end.d.next = two.next /\ end.d.nets \subseteq two.nets
      /\ end.err = "ok" => \A n \in end.d.nets : n.id # l.net
  BY <1>4 DEF remove_docker_network, Out, DockerShape
<1>6. DOMAIN r = DOMAIN Idle /\ r.kind = "unlink" /\ r.lnk = l /\ r.pc = "commit"
  BY <1>1, <1>2 DEF Idle
<1> HIDE DEF r, end
<1>7. /\ DockerShape(docker') /\ docker'.next >= docker.next /\ docker'.next \in Nat
      /\ docker'.nets \subseteq docker.nets
  <2>1. CASE docker' = end.d
    BY <1>1, <1>2, <1>4, <1>5, <2>1 DEF Keeps, DockerShape
  <2>2. CASE docker' \in {docker, one, other, two}
    BY <1>2, <1>4, <1>11, <2>2 DEF Keeps, DockerShape
  <2>3. QED BY <1>1, <2>1, <2>2
<1>8. CASE docker' = end.d /\ end.err = "ok" /\ Goes(h, r)
  <2>1. LinkKnown(l, count, docker) /\ \A m \in links : SameNet(m, l)
    BY <1>1, <1>2 DEF InHandOK, LinkKinds
  <2>2. LinkKnown(r.lnk, count', docker')
    BY <1>1, <1>2, <1>6, <1>7, <2>1 DEF LinkKnown
  <2>3. l.net \notin Networks(docker')
    BY <1>1, <1>5, <1>8 DEF Networks
  <2>4. \A g \in Handlers \ {h} : req[g].kind = "link" => req[g].lnk.id # l.id
    BY <1>1 DEF StrayInv, InHandOK, OwnId, LinkKinds
  <2>5. QED BY <1>1, <1>2, <1>6, <1>7, <1>8, <2>1, <2>2, <2>3, <2>4, LinkMoves
<1>9. CASE Ends(h)
  BY <1>1, <1>7, <1>9, LinkEnds DEF LinkKinds
<1>10. QED BY <1>1, <1>8, <1>9

\* The rows a teardown deletes are those of its id, so of its network, which is
\* gone: no other link's network loses its row.
LEMMA CommitUnlinkStep ==
  ASSUME StrayInv, NEW h \in Handlers, CommitUnlink(h) PROVE StrayInv'
<1> DEFINE lnk == req[h].lnk
<1>1. /\ UNCHANGED <<docker, count, strays>> /\ req[h].kind = "unlink" /\ req[h].pc = "commit"
      /\ links' = {l \in links : l.id # lnk.id} /\ Ends(h)
  BY DEF CommitUnlink, Is
<1>2. /\ DOMAIN req = Handlers /\ \A g \in Handlers : DOMAIN req[g] = DOMAIN Idle
      /\ \A g \in Handlers : InHandOK(g, req[g])
  BY DEF StrayInv, StrayShape, Ready
<1>3. /\ DOMAIN req' = Handlers /\ req'[h].kind = "idle" /\ DOMAIN req'[h] = DOMAIN Idle
      /\ \A g \in Handlers \ {h} : req'[g] = req[g]
  BY <1>1, <1>2, EmptyHands DEF Ends
<1>4. /\ lnk.net \notin Networks(docker) /\ links' \subseteq links
      /\ \A l \in links \ links' : l.net = lnk.net
  BY <1>1, <1>2 DEF InHandOK, SameNet
<1>5. StrayShape'
  <2>1. Ready'
    BY <1>1, <1>2, <1>3 DEF StrayInv, StrayShape, Ready
  <2>2. QED BY <1>1, <1>4, <2>1 DEF StrayInv, StrayShape, SameNet
<1>6. ASSUME NEW g \in Handlers PROVE InHandOK(g, req[g])'
  <2>1. CASE g = h
    BY <1>3, <2>1 DEF InHandOK, LinkKinds
  <2>2. CASE g # h
    <3>1. req'[g] = req[g] /\ InHandOK(g, req[g])
      BY <1>2, <1>3, <2>2
    <3>2. \A f \in Handlers \ {g} : req'[f].kind \in LinkKinds => req'[f] = req[f]
      BY <1>3 DEF LinkKinds
    <3>3. OwnId(g, req[g].lnk) => OwnId(g, req[g].lnk)'
      BY <1>4, <3>1, <3>2 DEF OwnId
    <3>4. LinkKnown(req[g].lnk, count, docker) => LinkKnown(req[g].lnk, count, docker)'
      BY <1>1, <3>1
    <3>5. QED BY <1>1, <1>4, <3>1, <3>3, <3>4 DEF InHandOK, SameNet
  <2>3. QED BY <2>1, <2>2
<1>7. StraysExplained'
  <2>1. ASSUME NEW n \in LinkNets(docker) PROVE HasNet(n.id)' \/ n.id \in strays
    <3>1. n.id # lnk.net
      BY <1>4 DEF LinkNets, Networks
    <3>2. HasNet(n.id) => HasNet(n.id)'
      BY <1>1, <1>3, <1>4, <3>1 DEF HasNet
    <3>3. QED BY <3>2 DEF StrayInv, StraysExplained
  <2>2. QED BY <1>1, <2>1 DEF StraysExplained, LinkNets
<1>8. QED BY <1>5, <1>6, <1>7 DEF StrayInv

LEMMA AbortLinkStep ==
  ASSUME StrayInv, NEW h \in Handlers, AbortLink(h) PROVE StrayInv'
<1>1. /\ UNCHANGED <<docker, links, count>> /\ req[h].kind \in LinkKinds /\ Ends(h)
      /\ strays' = IF req[h].kind = "link" /\ req[h].pc \in {"insert", "commit"}
                     THEN strays \cup {req[h].lnk.net} ELSE strays
  BY DEF AbortLink, Abort, rows, LinkKinds
<1>2. InHandOK(h, req[h]) /\ DockerShape(docker) /\ docker.next \in Nat
  BY DEF StrayInv, StrayShape, Ready, DockerShape
<1>3. req[h].kind = "link" => req[h].lnk.net \in {0} \cup strays'
  BY <1>1, <1>2 DEF InHandOK
<1>4. strays \subseteq strays' /\ docker'.next >= docker.next
  BY <1>1, <1>2
<1>5. QED BY <1>1, <1>2, <1>3, <1>4, LinkEnds

\* Handlers of networks and devices touch no link network.
LEMMA NetworkEffect ==
  ASSUME Ready, NEW h \in Handlers, req[h].kind \notin LinkKinds,
         \/ \E name \in Labs : CreateNetwork(h, name, LabBase[name])
         \/ \E n \in networks : DeleteNetwork(h, n)
         \/ CommitNetwork(h) \/ CheckNetwork(h) \/ RemoveNetwork(h) \/ LoadMembers(h)
         \/ CommitDropNetwork(h) \/ Abort(h)
  PROVE  /\ Gains(Labs) /\ UNCHANGED links /\ count' \in {count, count + 1}
         /\ UNCHANGED req \/ Moves(h, OtherKinds)
<1>0. /\ DockerShape(docker) /\ docker.next \in Nat /\ DOMAIN req[h] = DOMAIN Idle
      /\ UNCHANGED docker => Gains(Labs)
  BY DEF Ready, DockerShape, Gains
<1>1. Ends(h) => Moves(h, OtherKinds)
  <2>1. Goes(h, Idle) => Moves(h, OtherKinds)
    BY EmptyHands, GoesMoves DEF OtherKinds
  <2>2. QED BY <2>1 DEF Ends, Goes
<1>2. ASSUME NEW name \in Labs, CreateNetwork(h, name, LabBase[name])
      PROVE  /\ Gains(Labs) /\ UNCHANGED links /\ count' \in {count, count + 1}
             /\ UNCHANGED req \/ Moves(h, OtherKinds)
  <2> DEFINE o == create_docker_network(docker, name, LabBase[name])
             lab == [name |-> name, net |-> o.id, base |-> LabBase[name]]
             r == [Idle EXCEPT !.kind = "newnet", !.pc = "commit", !.lab = lab]
             more == AddNetwork(docker, name, LabBase[name])
  <2>1. /\ docker' = o.d /\ UNCHANGED links /\ count' = count + 1
        /\ Goes(h, r) \/ UNCHANGED req
    BY <1>2 DEF CreateNetwork, Arrives, rows
  <2>2. o.d \in {docker, more}
    BY DEF create_docker_network, Out
  <2>3. DockerShape(more) /\ more.next = docker.next + 1
        /\ more.nets = docker.nets \cup {[id |-> docker.next, name |-> name, base |-> LabBase[name]]}
    BY <1>0 DEF AddNetwork, DockerShape
  <2>4. DOMAIN r = DOMAIN Idle /\ r.kind = "newnet"
    BY DEF Idle
  <2> HIDE DEF o, r, more
  <2>5. Gains(Labs)
    BY <1>0, <2>1, <2>2, <2>3 DEF Gains
  <2>6. Goes(h, r) => Moves(h, OtherKinds)
    BY <2>4, GoesMoves DEF OtherKinds, NetKinds
  <2>7. QED BY <2>1, <2>5, <2>6
<1>3. ASSUME NEW n \in networks, DeleteNetwork(h, n)
      PROVE  /\ Gains(Labs) /\ UNCHANGED links /\ count' \in {count, count + 1}
             /\ Moves(h, OtherKinds)
  <2> DEFINE r == [Idle EXCEPT !.kind = "dropnet", !.pc = "check", !.lab = n]
  <2>1. UNCHANGED <<docker, links>> /\ count' = count + 1 /\ Goes(h, r)
    BY <1>3 DEF DeleteNetwork, Arrives, rows
  <2>2. DOMAIN r = DOMAIN Idle /\ r.kind = "dropnet"
    BY DEF Idle
  <2> HIDE DEF r
  <2>3. Moves(h, OtherKinds)
    BY <2>1, <2>2, GoesMoves DEF OtherKinds, NetKinds
  <2>4. QED BY <1>0, <2>1, <2>3
<1>4. CASE CommitNetwork(h) \/ CommitDropNetwork(h) \/ Abort(h)
  <2>1. UNCHANGED <<docker, links, count>> /\ Ends(h)
    BY <1>4 DEF CommitNetwork, CommitDropNetwork, Abort, rows
  <2>2. QED BY <1>0, <1>1, <2>1
<1>5. CASE CheckNetwork(h) \/ LoadMembers(h)
  <2> DEFINE q == [req[h] EXCEPT !.pc = "remove"]
             r == [req[h] EXCEPT !.pc = "commit", !.seen = Members(req[h].lab)]
  <2>1. /\ UNCHANGED <<docker, links, count>> /\ req[h].kind = "dropnet"
        /\ Ends(h) \/ Goes(h, q) \/ Goes(h, r)
    BY <1>5 DEF CheckNetwork, LoadMembers, rows, Is
  <2>2. /\ DOMAIN q = DOMAIN Idle /\ DOMAIN r = DOMAIN Idle
        /\ q.kind = "dropnet" /\ r.kind = "dropnet"
    BY <1>0, <2>1
  <2> HIDE DEF q, r
  <2>3. Goes(h, q) \/ Goes(h, r) => Moves(h, OtherKinds)
    BY <2>2, GoesMoves DEF OtherKinds, NetKinds
  <2>4. QED BY <1>0, <1>1, <2>1, <2>3
<1>6. CASE RemoveNetwork(h)
  <2> DEFINE o == remove_docker_network(docker, req[h].lab.net)
  <2>1. /\ UNCHANGED <<links, count>> /\ req[h].kind = "dropnet" /\ docker' = o.d
        /\ Ends(h) \/ Goes(h, [req[h] EXCEPT !.pc = "load"])
    BY <1>6 DEF RemoveNetwork, rows, Is
  <2>2. DockerShape(o.d) /\ o.d.next = docker.next /\ o.d.nets \subseteq docker.nets
    BY <1>0 DEF remove_docker_network, Out, DockerShape
  <2> HIDE DEF o
  <2>3. Gains(Labs)
    BY <1>0, <2>1, <2>2 DEF Gains
  <2>4. Goes(h, [req[h] EXCEPT !.pc = "load"]) => Moves(h, OtherKinds)
    BY <1>0, <2>1, GoesMoves DEF OtherKinds, NetKinds, Idle
  <2>5. QED BY <1>1, <2>1, <2>3, <2>4
<1>7. QED BY <1>2, <1>3, <1>4, <1>5, <1>6

\* All that other requests do to networks and links: lab networks come and go.
OtherDoes ==
  /\ Gains(Labs) /\ UNCHANGED links /\ Ready' /\ count' \in Nat /\ count' >= count
  /\ \A g \in Handlers : \/ req'[g] = req[g]
                         \/ req[g].kind \notin LinkKinds /\ req'[g].kind \notin LinkKinds

LEMMA OtherSteps ==
  ASSUME Ready, count \in Nat, NEW h \in Handlers, OtherStep(h) PROVE OtherDoes
<1>0. /\ DockerShape(docker) /\ docker.next \in Nat
      /\ DOMAIN req = Handlers /\ \A g \in Handlers : DOMAIN req[g] = DOMAIN Idle
      /\ req[h].kind \notin LinkKinds
  BY DEF Ready, DockerShape, OtherStep, LinkKinds
<1>1. Keeps(docker, docker') => Gains(Labs)
  BY DEF Keeps, Gains
<1>2. ASSUME Gains(Labs), UNCHANGED links, count' \in {count, count + 1},
             UNCHANGED req \/ Moves(h, OtherKinds)
      PROVE  OtherDoes
  <2>1. CASE UNCHANGED req
    <3>1. Ready'
      BY <1>0, <1>2, <2>1 DEF Ready, Gains
    <3>2. count' \in Nat /\ count' >= count
      BY <1>0, <1>2
    <3>3. QED BY <1>0, <1>2, <2>1, <3>1, <3>2 DEF OtherDoes
  <2>2. CASE Moves(h, OtherKinds)
    <3>1. PICK r : Goes(h, r) /\ DOMAIN r = DOMAIN Idle /\ r.kind \in OtherKinds
      BY <2>2 DEF Moves
    <3>2. DOMAIN req' = Handlers /\ req'[h] = r /\ \A g \in Handlers \ {h} : req'[g] = req[g]
      BY <1>0, <3>1 DEF Goes
    <3>3. r.kind \notin LinkKinds
      BY <3>1 DEF OtherKinds, NetKinds, Operations, Runs, LinkKinds
    <3>4. Ready'
      BY <1>0, <1>2, <3>1, <3>2 DEF Ready, Gains
    <3>5. count' \in Nat /\ count' >= count
      BY <1>0, <1>2
    <3>6. \A g \in Handlers : \/ req'[g] = req[g]
                              \/ req[g].kind \notin LinkKinds /\ req'[g].kind \notin LinkKinds
      BY <1>0, <3>2, <3>3
    <3>7. QED BY <1>0, <1>2, <3>4, <3>5, <3>6 DEF OtherDoes
  <2>3. QED BY <1>2, <2>1, <2>2
<1>3. ASSUME \/ \E name \in Labs : CreateNetwork(h, name, LabBase[name])
             \/ \E n \in networks : DeleteNetwork(h, n)
             \/ CommitNetwork(h) \/ CheckNetwork(h) \/ RemoveNetwork(h) \/ LoadMembers(h)
             \/ CommitDropNetwork(h) \/ Abort(h)
      PROVE  OtherDoes
  BY <1>0, <1>2, <1>3, NetworkEffect
<1>4. ASSUME \/ InsertDevice(h) \/ RunContainer(h) \/ CommitCreate(h)
             \/ StopContainer(h) \/ StartContainer(h) \/ CommitOperate(h) \/ CommitDelete(h)
      PROVE  OtherDoes
  <2>1. /\ req[h].kind \in {"create"} \cup Operations /\ Keeps(docker, docker')
        /\ UNCHANGED <<links, count>> /\ Moves(h, {"idle", req[h].kind})
    BY <1>0, <1>4, ContainerSteps
  <2>2. Moves(h, OtherKinds)
    BY <2>1 DEF Moves, OtherKinds
  <2>3. QED BY <1>1, <1>2, <2>1, <2>2
<1>5. ASSUME CommitPatch(h) PROVE OtherDoes
  <2>1. /\ UNCHANGED <<docker, links, count>> /\ Keeps(docker, docker') /\ Ready'
        /\ \A g \in Handlers :
             \/ req'[g] = req[g]
             \/ req[g].kind \in Runs \cup {"patch"} /\ req'[g].kind \in Runs \cup {"idle"}
    BY <1>0, <1>5, PatchEffect
  <2>2. \A g \in Handlers : \/ req'[g] = req[g]
                            \/ req[g].kind \notin LinkKinds /\ req'[g].kind \notin LinkKinds
    BY <2>1 DEF Runs, LinkKinds
  <2>3. count' \in Nat /\ count' >= count
    BY <1>0, <2>1
  <2>4. QED BY <1>0, <1>1, <2>1, <2>2, <2>3 DEF OtherDoes
<1>6. ASSUME \/ \E n \in networks, ips \in IpLists : CreateDevices(h, n, ips)
             \/ \E kind \in Operations, r \in devices : Operate(h, kind, r)
             \/ \E r \in devices, c \in Communities : Patch(h, r, c)
      PROVE  OtherDoes
  <2>1. /\ Keeps(docker, docker') /\ UNCHANGED links /\ count' = count + 1
        /\ Moves(h, {"create", "patch"} \cup Operations)
    BY <1>0, <1>6, OtherRequests
  <2>2. Moves(h, OtherKinds)
    BY <2>1 DEF Moves, OtherKinds
  <2>3. QED BY <1>1, <1>2, <2>1, <2>2
<1>7. QED
  BY <1>3, <1>4, <1>5, <1>6 DEF OtherStep, DeviceStep, DeviceRequest

LEMMA OtherStrays ==
  ASSUME StrayInv, NEW h \in Handlers, OtherStep(h) PROVE StrayInv'
<1>1. Ready /\ count \in Nat /\ strays' = strays
  BY DEF StrayInv, StrayShape, OtherStep
<1>2. OtherDoes
  BY <1>1, OtherSteps
<1>3. QED BY <1>1, <1>2, OthersKeepStrays DEF OtherDoes

LEMMA StrayInitially == TopoInit => StrayInv
<1> SUFFICES ASSUME TopoInit PROVE StrayInv
  OBVIOUS
<1>1. /\ links = {} /\ req = [h \in Handlers |-> Idle] /\ count = 0
      /\ \/ docker = NoDocker
         \/ /\ DOMAIN docker = {"ctrs", "nets", "ends", "next"}
            /\ docker.nets = {[id |-> 1, name |-> FirstLab, base |-> LabBase[FirstLab]]}
            /\ docker.next = InitDevices + 2
  BY DEF TopoInit, Init
<1>2. /\ DockerShape(docker) /\ docker.next > 0
      /\ \A n \in docker.nets : n.name \in Labs /\ n.id = 1 /\ n.id < docker.next
  <2>1. InitDevices \in Nat
    BY DevicesAssumption DEF DevicesAssumption
  <2>2. CASE docker = NoDocker
    BY <2>2 DEF NoDocker, DockerShape
  <2>3. CASE docker # NoDocker
    <3>1. FirstLab \in Labs
      BY DevicesAssumption DEF DevicesAssumption, FirstLab
    <3>2. QED BY <1>1, <2>1, <2>3, <3>1 DEF DockerShape
  <2>4. QED BY <2>2, <2>3
<1>3. StrayShape
  BY <1>1, <1>2 DEF StrayShape, Ready
<1>4. StraysExplained
  BY <1>2 DEF StraysExplained, LinkNets
<1>5. \A h \in Handlers : InHandOK(h, req[h])
  BY <1>1, EmptyHands DEF InHandOK, LinkKinds
<1>6. QED BY <1>3, <1>4, <1>5 DEF StrayInv

LEMMA StrayInvAlways == TopoSpec => []StrayInv
<1>1. StrayInv /\ [TopoNext]_topoVars => StrayInv'
  <2> SUFFICES ASSUME StrayInv, [TopoNext]_topoVars PROVE StrayInv'
    OBVIOUS
  <2>1. CASE TopoNext
    <3>1. PICK h \in Handlers : LinkRequest(h) \/ LinkStep(h) \/ OtherStep(h)
      BY <2>1 DEF TopoNext
    <3>2. CASE LinkRequest(h)
      BY <3>2, CreateLinkStep, DeleteLinkStep DEF LinkRequest
    <3>3. CASE LinkStep(h)
      BY <3>3, CountLinksStep, WireLinkStep, InsertLinkStep, CommitLinkStep, UnwireLinkStep,
         CommitUnlinkStep, AbortLinkStep DEF LinkStep
    <3>4. CASE OtherStep(h)
      BY <3>4, OtherStrays
    <3>5. QED BY <3>1, <3>2, <3>3, <3>4
  <2>2. CASE UNCHANGED topoVars
    <3>1. UNCHANGED <<docker, links, req, count, strays>>
      BY <2>2 DEF topoVars, labVars, histVars
    <3>2. Ready' /\ Gains(Labs) /\ count' \in Nat /\ count' >= count
      BY <3>1 DEF StrayInv, StrayShape, Ready, Gains, DockerShape
    <3>3. QED BY <3>1, <3>2, OthersKeepStrays
  <2>3. QED BY <2>1, <2>2
<1>2. QED BY <1>1, StrayInitially, PTL DEF TopoSpec

\* Whatever requests do to links and devices at once: a link network that no
\* link and no handler has was left by a request that failed after making it.
THEOREM StraysAlwaysExplained == TopoSpec => []StraysExplained
<1>1. StrayInv => StraysExplained
  BY DEF StrayInv
<1>2. QED BY <1>1, StrayInvAlways, PTL
-----------------------------------------------------------------------------
(* What the steps about links do to devices, containers and networks: all   *)
(* but two do nothing; a provisioning adds attachments to containers and at *)
(* most its own network; a teardown takes away those of its own network and *)
(* then that.  So what the theorems about devices say holds with links.     *)

\* Attachments may come and the network of a pair, and the daemon's next id.
Plugs(h, d) ==
  /\ DockerOK(d) /\ d.ctrs = docker.ctrs
  /\ d.next \in {docker.next, docker.next + 1}
  /\ docker.nets \subseteq d.nets /\ docker.ends \subseteq d.ends
  /\ \A n \in d.nets :
       \/ n \in docker.nets
       \/ /\ n.id = docker.next /\ d.next = docker.next + 1
          /\ n.name = <<req[h].row.id, req[h].peer.id>>

\* The attachments of the network may go, and the network if none is left.
Unplugs(h, d) ==
  LET net == req[h].lnk.net IN
  /\ DockerOK(d) /\ d.ctrs = docker.ctrs /\ d.next = docker.next
  /\ d.ends \subseteq docker.ends
  /\ \A e \in docker.ends : e \in d.ends \/ e.net = net
  /\ d.nets \subseteq docker.nets
  /\ \A n \in docker.nets : n \in d.nets \/ n.id = net

\* The rows stay, and nothing is in hand that was not.
Rests(h) ==
  /\ \E r : Turns(h, r) /\ r.made = {} /\ r.kind \in LinkKinds \cup {"idle"}
  /\ req[h].made = {} /\ req[h].kind \in LinkKinds
  /\ UNCHANGED <<networks, devices, links, lastId, count, failed, raced, patched, lost>>

Wires(h)   == req[h].kind = "link" /\ Rests(h) /\ Plugs(h, docker')
Unwires(h) == req[h].kind = "unlink" /\ Rests(h) /\ Unplugs(h, docker')

LEMMA LinkHand ==
  ASSUME DevType, NEW h \in Handlers, req[h].kind \in LinkKinds
  PROVE  /\ HandOK(req[h]) /\ DOMAIN req[h] = DOMAIN Idle
         /\ req[h].row \in DeviceRow /\ req[h].peer \in DeviceRow /\ req[h].lnk \in LinkRow
         /\ req[h].index \in Nat /\ req[h].made = {} /\ req[h].kind \in Quietly
         /\ req[h].seen \subseteq DeviceRow \cup LinkRow /\ req[h].behind \in BOOLEAN
  BY DEF DevType, HandsOK, HandOK, Quietly, LinkKinds

\* A request about a link goes on with its rows.
LEMMA LinkHandOn ==
  ASSUME DevType, NEW h \in Handlers, req[h].kind \in LinkKinds, NEW r, DOMAIN r = DOMAIN Idle,
         r.kind = req[h].kind, r.row = req[h].row, r.peer = req[h].peer, r.made = req[h].made,
         r.behind = req[h].behind, r.lnk \in LinkRow, r.index \in Nat,
         r.seen \subseteq DeviceRow \cup LinkRow
  PROVE  HandOK(r) /\ r.kind \notin Operations \cup {"create"} /\ r.made = {}
  BY LinkHand DEF HandOK, Quietly, LinkKinds, Operations, Runs

LEMMA LinkQuiet ==
  ASSUME DevType, NEW h \in Handlers, NEW r, Goes(h, r), HandOK(r), r.made = {},
         r.kind \in LinkKinds, req[h].kind \in LinkKinds \cup {"idle"}, docker' = docker,
         UNCHANGED <<rows, lastId, faults, failed, raced, patched, lost>>,
         count' \in 0..MaxRequests
  PROVE  DevType' /\ Quiet(h)
<1>1. r.kind \notin Operations /\ r.kind # "create" /\ req[h].kind \in Quietly
  BY DEF LinkKinds, Operations, Runs, Quietly
<1>2. DockerSame
  BY Stays
<1>3. /\ networks \subseteq networks' /\ networks' \subseteq NetworkRow
      /\ UNCHANGED <<devices, links, lastId, failed, raced, patched>>
      /\ faults' \in 0..MaxFaults /\ lost' \subseteq Nat
  BY DEF DevType, rows
<1>4. QED BY <1>1, <1>2, <1>3, QuietGoes

LEMMA LinkQuietEnds ==
  ASSUME DevType, NEW h \in Handlers, Ends(h), req[h].kind \in LinkKinds, docker' = docker,
         links' \subseteq LinkRow,
         UNCHANGED <<networks, devices, lastId, count, faults, failed, raced, patched, lost>>
  PROVE  DevType' /\ Quiet(h)
<1>1. Turns(h, Idle) /\ HandsOK'
  BY EndsTurns DEF DevType
<1>2. DockerSame
  BY Stays
<1>3. DevType'
  BY <1>1, <1>2 DEF DevType, DockerSame
<1>4. Quiet(h)
  BY <1>1, <1>2, IdleOK, LinkHand DEF Quiet, DockerSame, Operations, Runs
<1>5. QED BY <1>3, <1>4

LEMMA CreateLinkEffect ==
  ASSUME DevType, NEW h \in Handlers, NEW s \in devices, NEW d \in devices, CreateLink(h, s, d)
  PROVE  DevType' /\ Quiet(h)
<1> DEFINE lnk == [id |-> count', src |-> s.id, dst |-> d.id, net |-> 0]
           r == [Idle EXCEPT !.kind = "link", !.pc = "count", !.row = s, !.peer = d, !.lnk = lnk]
<1>1. /\ Goes(h, r) /\ req[h].kind = "idle" /\ count' \in 0..MaxRequests /\ docker' = docker
      /\ UNCHANGED <<rows, lastId, faults, failed, raced, patched, lost>>
  BY IdleOK, Counted DEF CreateLink, Arrives
<1>2. s \in DeviceRow /\ d \in DeviceRow /\ count' \in Nat /\ s.id \in Nat /\ d.id \in Nat
  BY <1>1 DEF DevType, DeviceRow
<1>3. lnk \in LinkRow
  BY <1>2 DEF LinkRow
<1>4. /\ DOMAIN r = DOMAIN Idle /\ r.kind = "link" /\ r.row = s /\ r.peer = d /\ r.lnk = lnk
      /\ r.made = {} /\ r.seen = {} /\ r.index = 0 /\ r.behind \in BOOLEAN
  BY DEF Idle
<1> HIDE DEF r, lnk
<1>5. HandOK(r) /\ r.kind \in LinkKinds
  BY <1>2, <1>3, <1>4 DEF HandOK, Quietly, LinkKinds, Operations, Runs
<1>6. QED BY <1>1, <1>4, <1>5, LinkQuiet

LEMMA DeleteLinkEffect ==
  ASSUME DevType, NEW h \in Handlers, NEW l \in links, DeleteLink(h, l)
  PROVE  DevType' /\ Quiet(h)
<1>1. PICK s \in RowsOf(l.src), d \in RowsOf(l.dst) :
        Goes(h, [Idle EXCEPT !.kind = "unlink", !.pc = "unwire", !.row = s, !.peer = d, !.lnk = l])
  BY DEF DeleteLink
<1> DEFINE r == [Idle EXCEPT !.kind = "unlink", !.pc = "unwire", !.row = s, !.peer = d, !.lnk = l]
<1>2. /\ Goes(h, r) /\ req[h].kind = "idle" /\ count' \in 0..MaxRequests /\ docker' = docker
      /\ UNCHANGED <<rows, lastId, faults, failed, raced, patched, lost>>
  BY <1>1, IdleOK, Counted DEF DeleteLink, Arrives
<1>3. s \in DeviceRow /\ d \in DeviceRow /\ l \in LinkRow
  BY DEF DevType, RowsOf
<1>4. /\ DOMAIN r = DOMAIN Idle /\ r.kind = "unlink" /\ r.row = s /\ r.peer = d /\ r.lnk = l
      /\ r.made = {} /\ r.seen = {} /\ r.index = 0 /\ r.behind \in BOOLEAN
  BY DEF Idle
<1> HIDE DEF r
<1>5. HandOK(r) /\ r.kind \in LinkKinds
  BY <1>3, <1>4 DEF HandOK, Quietly, LinkKinds, Operations, Runs
<1>6. QED BY <1>2, <1>4, <1>5, LinkQuiet

LEMMA CountLinksEffect ==
  ASSUME DevType, IsFiniteSet(links), NEW h \in Handlers, CountLinks(h) PROVE DevType' /\ Quiet(h)
<1> DEFINE r == [req[h] EXCEPT !.pc = "wire", !.index = NextIndex(h), !.seen = links]
<1>1. /\ Goes(h, r) /\ req[h].kind \in LinkKinds /\ docker' = docker
      /\ UNCHANGED <<rows, lastId, count, faults, failed, raced, patched, lost>>
  BY DEF CountLinks, Is, LinkKinds
<1>2. NextIndex(h) \in Nat /\ links \subseteq DeviceRow \cup LinkRow
  BY FS_CardinalityType DEF NextIndex, DevType
<1>3. /\ DOMAIN r = DOMAIN Idle /\ r.kind = req[h].kind /\ r.row = req[h].row
      /\ r.peer = req[h].peer /\ r.made = req[h].made /\ r.behind = req[h].behind
      /\ r.lnk = req[h].lnk /\ r.index = NextIndex(h) /\ r.seen = links
  BY <1>1, LinkHand DEF Idle
<1> HIDE DEF r
<1>4. HandOK(r) /\ r.made = {} /\ r.kind \in LinkKinds
  BY <1>1, <1>2, <1>3, LinkHand, LinkHandOn
<1>5. count' \in 0..MaxRequests
  BY <1>1 DEF DevType
<1>6. QED BY <1>1, <1>4, <1>5, LinkQuiet

LEMMA InsertLinkEffect ==
  ASSUME DevType, NEW h \in Handlers, InsertLink(h) PROVE DevType' /\ Quiet(h)
<1> DEFINE r == [req[h] EXCEPT !.pc = "commit"]
<1>1. /\ Goes(h, r) \/ Ends(h)
      /\ req[h].kind \in LinkKinds /\ docker' = docker
      /\ UNCHANGED <<rows, lastId, count, faults, failed, raced, patched, lost>>
  BY DEF InsertLink, Is, LinkKinds
<1>2. /\ DOMAIN r = DOMAIN Idle /\ r.kind = req[h].kind /\ r.row = req[h].row
      /\ r.peer = req[h].peer /\ r.made = req[h].made /\ r.behind = req[h].behind
      /\ r.lnk = req[h].lnk /\ r.index = req[h].index /\ r.seen = req[h].seen
  BY <1>1, LinkHand DEF Idle
<1> HIDE DEF r
<1>3. HandOK(r) /\ r.made = {} /\ r.kind \in LinkKinds
  BY <1>1, <1>2, LinkHand, LinkHandOn
<1>4. count' \in 0..MaxRequests /\ links' \subseteq LinkRow
  BY <1>1 DEF DevType, rows
<1>5. CASE Goes(h, r)
  BY <1>1, <1>3, <1>4, <1>5, LinkQuiet
<1>6. CASE Ends(h)
  <2>1. UNCHANGED <<networks, devices, lastId, count, faults, failed, raced, patched, lost>>
    BY <1>1 DEF rows
  <2>2. QED BY <1>1, <1>4, <1>6, <2>1, LinkQuietEnds
<1>7. QED BY <1>1, <1>5, <1>6

LEMMA CommitLinksEffect ==
  ASSUME DevType, NEW h \in Handlers, CommitLink(h) \/ CommitUnlink(h) PROVE DevType' /\ Quiet(h)
<1>1. /\ req[h].kind \in LinkKinds /\ docker' = docker /\ Ends(h)
      /\ links' \subseteq links \cup {req[h].lnk}
      /\ UNCHANGED <<networks, devices, lastId, count, faults, failed, raced, patched, lost>>
  BY DEF CommitLink, CommitUnlink, Is, LinkKinds
<1>2. links' \subseteq LinkRow
  BY <1>1, LinkHand DEF DevType
<1>3. QED BY <1>1, <1>2, LinkQuietEnds

LEMMA DockerParts ==
  ASSUME NEW d, DockerOK(d), NEW S, NEW n
  PROVE  /\ [d EXCEPT !.ends = S] =
              [ctrs |-> d.ctrs, nets |-> d.nets, ends |-> S, next |-> d.next]
         /\ [d EXCEPT !.nets = S] =
              [ctrs |-> d.ctrs, nets |-> S, ends |-> d.ends, next |-> d.next]
         /\ [d EXCEPT !.nets = S, !.next = n] =
              [ctrs |-> d.ctrs, nets |-> S, ends |-> d.ends, next |-> n]
<1>1. d \in DockerType
  BY DEF DockerOK
<1>2. [d EXCEPT !.ends = S] = [ctrs |-> d.ctrs, nets |-> d.nets, ends |-> S, next |-> d.next]
  BY <1>1 DEF DockerType
<1>3. [d EXCEPT !.nets = S] = [ctrs |-> d.ctrs, nets |-> S, ends |-> d.ends, next |-> d.next]
  BY <1>1 DEF DockerType
<1> DEFINE e == [d EXCEPT !.nets = S]
<1>4. [e EXCEPT !.next = n] = [ctrs |-> e.ctrs, nets |-> e.nets, ends |-> e.ends, next |-> n]
  <2> HIDE DEF e
  <2>1. DOMAIN e = {"ctrs", "nets", "ends", "next"}
    BY <1>3 DEF e
  <2>2. e = [ctrs |-> d.ctrs, nets |-> S, ends |-> d.ends, next |-> d.next]
    BY <1>3 DEF e
  <2>3. QED BY <2>2
<1>5. QED BY <1>2, <1>3, <1>4

LEMMA PlugInDoes ==
  ASSUME NEW d, DockerOK(d), NEW row \in DeviceRow, NEW net, NEW ip \in Nat
  PROVE  LET o == PlugIn(d, row, net, ip) IN
         /\ DockerOK(o.d) /\ o.d.ctrs = d.ctrs /\ o.d.nets = d.nets /\ o.d.next = d.next
         /\ d.ends \subseteq o.d.ends
         /\ o.err = "ok" => row.ctr = 0 \/ \E e \in o.d.ends : e.ctr = row.ctr /\ e.net = net
<1> DEFINE o == PlugIn(d, row, net, ip)
           new == [ctr |-> row.ctr, net |-> net, ip |-> ip]
           added == [d EXCEPT !.ends = d.ends \cup {new}]
<1>1. CASE row.ctr = 0
  BY <1>1 DEF PlugIn, Out
<1>2. CASE row.ctr # 0
  <2>1. \/ o.d = d /\ o.err # "ok"
        \/ /\ o.d = added /\ o.err = "ok" /\ row.ctr \in Containers(d) /\ net \in Networks(d)
    BY <1>2 DEF PlugIn, attach_container_to_network, Connect, Out
  <2>2. added = [ctrs |-> d.ctrs, nets |-> d.nets, ends |-> d.ends \cup {new}, next |-> d.next]
    BY DockerParts
  <2> HIDE DEF o, added
  <2>3. CASE o.d = d /\ o.err # "ok"
    BY <2>3 DEF o
  <2>4. CASE o.d = added /\ o.err = "ok" /\ row.ctr \in Containers(d) /\ net \in Networks(d)
    <3>1. /\ added.ctrs = d.ctrs /\ added.nets = d.nets /\ added.next = d.next
          /\ added.ends = d.ends \cup {new}
      BY <2>2
    <3>2. Containers(added) = Containers(d) /\ Networks(added) = Networks(d)
      BY <3>1 DEF Containers, Networks
    <3>3. net \in Nat /\ row.ctr \in Nat
      BY <2>4 DEF Networks, DockerOK, DockerType, DockerNet, DeviceRow
    <3>4. new \in Endpoint
      BY <3>3 DEF Endpoint
    <3>5. added \in DockerType
      BY <2>2, <3>4 DEF DockerOK, DockerType
    <3>6. DockerOK(added)
      BY <2>4, <3>1, <3>2, <3>5 DEF DockerOK
    <3>7. new \in added.ends /\ new.ctr = row.ctr /\ new.net = net
      BY <3>1
    <3>8. /\ DockerOK(o.d) /\ o.d.ctrs = d.ctrs /\ o.d.nets = d.nets /\ o.d.next = d.next
          /\ d.ends \subseteq o.d.ends /\ new \in o.d.ends
      BY <2>4, <3>1, <3>6, <3>7
    <3>9. QED BY <3>7, <3>8 DEF o
  <2>5. QED BY <2>1, <2>3, <2>4
<1>3. QED BY <1>1, <1>2

\* What a provisioning comes to, wherever it stops.
LEMMA WiringDoes ==
  ASSUME DevType, NEW h \in Handlers, req[h].kind = "link"
  PROVE  /\ Plugs(h, Wiring(h).out.d) /\ \A d \in Wiring(h).stages : Plugs(h, d)
         /\ Wiring(h).out.err = "ok" =>
              /\ \E n \in Wiring(h).out.d.nets :
                   n.id = Wiring(h).net /\ n.name = <<req[h].row.id, req[h].peer.id>>
              /\ \A x \in {req[h].row, req[h].peer} :
                   x.ctr = 0 \/ \E e \in Wiring(h).out.d.ends :
                                  e.ctr = x.ctr /\ e.net = Wiring(h).net
<1> DEFINE q == req[h]
           base == BaseOf(q.index)
           name == <<q.row.id, q.peer.id>>
           made == create_docker_network(docker, name, base)
           one  == PlugIn(made.d, q.row, made.id, Ip1(base))
           two  == PlugIn(one.d, q.peer, made.id, Ip2(base))
           more == AddNetwork(docker, name, base)
           net  == [id |-> docker.next, name |-> name, base |-> base]
<1>0. /\ q.row \in DeviceRow /\ q.peer \in DeviceRow /\ q.index \in Nat
      /\ DockerOK(docker) /\ docker.next \in Nat
  BY LinkHand DEF LinkKinds, DevType, DockerOK, DockerType
<1>1. base \in Nat /\ Ip1(base) \in Nat /\ Ip2(base) \in Nat
  BY <1>0 DEF BaseOf, Ip1, Ip2
<1>2. name \in Nat \X Nat
  BY <1>0 DEF DeviceRow
<1>3. /\ Wiring(h).net = made.id /\ Wiring(h).stages = {docker, made.d, one.d}
      /\ Wiring(h).out.err = "ok" => Wiring(h).out = two /\ made.err = "ok" /\ one.err = "ok"
      /\ Wiring(h).out \in {made, one, two}
  BY DEF Wiring
<1>4. Plugs(h, docker)
  BY <1>0 DEF Plugs
<1>5. Plugs(h, more) /\ net \in more.nets
  <2>1. more = [ctrs |-> docker.ctrs, nets |-> docker.nets \cup {net}, ends |-> docker.ends,
                next |-> docker.next + 1]
    <3>1. more = [docker EXCEPT !.nets = docker.nets \cup {net}, !.next = docker.next + 1]
      BY DEF AddNetwork
    <3> HIDE DEF more, net
    <3>2. QED BY <1>0, <3>1, DockerParts
  <2>2. net \in DockerNet
    BY <1>0, <1>1, <1>2 DEF DockerNet
  <2>3. net.id = docker.next /\ net.name = name
    OBVIOUS
  <2> HIDE DEF more, net, name
  <2>4. /\ more.ctrs = docker.ctrs /\ more.nets = docker.nets \cup {net}
        /\ more.ends = docker.ends /\ more.next = docker.next + 1
    BY <2>1
  <2>5. more \in DockerType
    BY <1>0, <2>1, <2>2 DEF DockerOK, DockerType
  <2>6. Containers(more) = Containers(docker) /\ Networks(docker) \subseteq Networks(more)
    BY <2>4 DEF Containers, Networks
  <2>7. /\ \A c \in docker.ctrs : c.id \in Nat
        /\ \A n \in docker.nets : n.id \in Nat
    BY <1>0 DEF DockerOK, DockerType, Container, DockerNet
  <2>8. DockerOK(more)
    <3>1. more.next > 0 /\ \A c \in more.ctrs : c.id > 0 /\ c.id < more.next
      BY <1>0, <2>4, <2>7 DEF DockerOK
    <3>2. \A n \in more.nets : n.id < more.next
      BY <1>0, <2>3, <2>4, <2>7 DEF DockerOK
    <3>3. \A x \in more.ends : x.ctr \in Containers(more) /\ x.net \in Networks(more)
      BY <1>0, <2>4, <2>6 DEF DockerOK
    <3>4. QED BY <1>0, <2>4, <2>5, <3>1, <3>2, <3>3 DEF DockerOK
  <2>9. QED BY <2>3, <2>4, <2>8 DEF Plugs, name
<1>6. /\ Plugs(h, made.d)
      /\ made.err = "ok" => \E n \in made.d.nets : n.id = made.id /\ n.name = name
  <2>1. CASE Named(docker, name) # {}
    <3>1. (CHOOSE n \in Named(docker, name) : TRUE) \in Named(docker, name)
      BY <2>1
    <3>2. made = Out(docker, (CHOOSE n \in Named(docker, name) : TRUE).id, "ok")
      BY <2>1 DEF create_docker_network
    <3>3. QED BY <1>4, <3>1, <3>2 DEF Out, Named
  <2>2. CASE Named(docker, name) = {} /\ \E n \in docker.nets : n.base = base
    BY <1>4, <2>2 DEF create_docker_network, Out
  <2>3. CASE Named(docker, name) = {} /\ ~\E n \in docker.nets : n.base = base
    <3>1. made.d = more /\ made.id = docker.next
      BY <2>3 DEF create_docker_network, Out
    <3>2. net.id = docker.next /\ net.name = name
      OBVIOUS
    <3>3. QED BY <1>5, <3>1, <3>2
  <2>4. QED BY <2>1, <2>2, <2>3
<1> HIDE DEF made, more, base
<1>7. /\ DockerOK(one.d) /\ one.d.ctrs = made.d.ctrs /\ one.d.nets = made.d.nets
      /\ one.d.next = made.d.next /\ made.d.ends \subseteq one.d.ends
      /\ one.err = "ok" =>
           q.row.ctr = 0 \/ \E e \in one.d.ends : e.ctr = q.row.ctr /\ e.net = made.id
  BY <1>0, <1>1, <1>6, PlugInDoes DEF Plugs
<1> HIDE DEF one
<1>8. /\ DockerOK(two.d) /\ two.d.ctrs = one.d.ctrs /\ two.d.nets = one.d.nets
      /\ two.d.next = one.d.next /\ one.d.ends \subseteq two.d.ends
      /\ two.err = "ok" =>
           q.peer.ctr = 0 \/ \E e \in two.d.ends : e.ctr = q.peer.ctr /\ e.net = made.id
  BY <1>0, <1>1, <1>7, PlugInDoes
<1> HIDE DEF two
<1>9. Plugs(h, one.d) /\ Plugs(h, two.d)
  BY <1>6, <1>7, <1>8 DEF Plugs
<1>10. QED BY <1>3, <1>4, <1>6, <1>7, <1>8, <1>9

LEMMA Rested ==
  ASSUME DevType, NEW h \in Handlers, NEW r, Ends(h) \/ (Goes(h, r) /\ HandOK(r)),
         r.kind = req[h].kind, r.made = {},
         req[h].kind \in LinkKinds, DockerOK(docker'), faults' \in 0..MaxFaults,
         UNCHANGED <<rows, lastId, count, failed, raced, patched, lost>>
  PROVE  DevType' /\ Rests(h)
<1>1. CASE Ends(h)
  <2>1. Turns(h, Idle) /\ HandsOK'
    BY <1>1, EndsTurns DEF DevType
  <2>2. QED BY <2>1, IdleOK, LinkHand DEF Rests, DevType, rows
<1>2. CASE Goes(h, r) /\ HandOK(r)
  <2>1. Turns(h, r) /\ HandsOK'
    BY <1>2, GoesTurns DEF DevType
  <2>2. QED BY <2>1, LinkHand DEF Rests, DevType, rows
<1>3. QED BY <1>1, <1>2

LEMMA WireLinkEffect ==
  ASSUME DevType, NEW h \in Handlers, WireLink(h) PROVE DevType' /\ Wires(h)
<1> DEFINE w == Wiring(h)
           lnk == [req[h].lnk EXCEPT !.net = w.net]
           r == [req[h] EXCEPT !.pc = "insert", !.lnk.net = w.net]
<1>1. /\ req[h].kind = "link" /\ docker' \in {w.out.d} \cup w.stages
      /\ \/ w.out.err = "ok" /\ Goes(h, r)
         \/ Ends(h)
      /\ faults' = faults \/ Fault
      /\ UNCHANGED <<rows, lastId, count, failed, raced, patched, lost>>
  BY DEF WireLink, Is
<1>2. Plugs(h, docker')
  BY <1>1, WiringDoes
<1>3. faults' \in 0..MaxFaults
  BY <1>1, Counted DEF Fault, DevType
<1>4. /\ r.kind = req[h].kind /\ r.made = {} /\ DOMAIN r = DOMAIN Idle /\ r.row = req[h].row
      /\ r.peer = req[h].peer /\ r.behind = req[h].behind /\ r.lnk = lnk
      /\ r.index = req[h].index /\ r.seen = req[h].seen
  BY <1>1, LinkHand DEF Idle, LinkKinds
<1>5. w.out.err = "ok" => lnk \in LinkRow
  <2>1. ASSUME w.out.err = "ok" PROVE w.net \in Nat
    <3>1. w.out.d \in DockerType /\ \E n \in w.out.d.nets : n.id = w.net
      BY <1>1, <2>1, WiringDoes DEF Plugs, DockerOK
    <3>2. QED BY <3>1 DEF DockerType, DockerNet
  <2>2. QED BY <1>1, <2>1, LinkHand DEF LinkRow, LinkKinds
<1> HIDE DEF r, lnk, w
<1>6. w.out.err = "ok" => HandOK(r)
  BY <1>1, <1>4, <1>5, LinkHand, LinkHandOn DEF LinkKinds
<1>7. DevType' /\ Rests(h)
  BY <1>1, <1>2, <1>3, <1>4, <1>6, Rested DEF Plugs, LinkKinds
<1>8. QED BY <1>1, <1>2, <1>7 DEF Wires

LEMMA PlugOutDoes ==
  ASSUME NEW d, DockerOK(d), NEW row, NEW net
  PROVE  LET o == PlugOut(d, row, net) IN
         /\ DockerOK(o) /\ o.ctrs = d.ctrs /\ o.nets = d.nets /\ o.next = d.next
         /\ o.ends \subseteq d.ends /\ \A e \in d.ends : e \in o.ends \/ e.net = net
<1> DEFINE left == {e \in d.ends : ~(e.ctr = row.ctr /\ e.net = net)}
           out == detach_container_from_network(d, row.ctr, net)
<1>1. out = [ctrs |-> d.ctrs, nets |-> d.nets, ends |-> left, next |-> d.next]
  <2>1. out = [d EXCEPT !.ends = left]
    BY DEF detach_container_from_network
  <2> HIDE DEF out, left
  <2>2. QED BY <2>1, DockerParts
<1>2. PlugOut(d, row, net) \in {d, out}
  BY DEF PlugOut
<1> HIDE DEF out
<1>3. /\ out.ctrs = d.ctrs /\ out.nets = d.nets /\ out.next = d.next /\ out.ends = left
  BY <1>1
<1>4. DockerOK(out)
  <2>1. out \in DockerType
    BY <1>1 DEF DockerOK, DockerType
  <2>2. QED BY <1>3, <2>1 DEF DockerOK, Containers, Networks
<1>5. QED BY <1>2, <1>3, <1>4

LEMMA RemoveNetworkDoes ==
  ASSUME NEW d, DockerOK(d), NEW net
  PROVE  LET o == remove_docker_network(d, net) IN
         /\ DockerOK(o.d) /\ o.d.ctrs = d.ctrs /\ o.d.ends = d.ends /\ o.d.next = d.next
         /\ o.d.nets \subseteq d.nets /\ \A n \in d.nets : n \in o.d.nets \/ n.id = net
         /\ o.err = "ok" => net \notin Networks(o.d)
<1> DEFINE left == {n \in d.nets : n.id # net}
           out == [d EXCEPT !.nets = left]
<1>1. out = [ctrs |-> d.ctrs, nets |-> left, ends |-> d.ends, next |-> d.next]
  BY DockerParts
<1>2. CASE \E e \in d.ends : e.net = net
  BY <1>2 DEF remove_docker_network, Out
<1>3. CASE ~\E e \in d.ends : e.net = net
  <2>1. remove_docker_network(d, net).d = out
    BY <1>3 DEF remove_docker_network, Out
  <2> HIDE DEF out
  <2>2. /\ out.ctrs = d.ctrs /\ out.nets = left /\ out.next = d.next /\ out.ends = d.ends
        /\ out \in DockerType
    BY <1>1 DEF DockerOK, DockerType
  <2>3. Containers(out) = Containers(d) /\ Networks(out) = Networks(d) \ {net}
    BY <2>2 DEF Containers, Networks
  <2>4. DockerOK(out)
    BY <1>3, <2>2, <2>3 DEF DockerOK
  <2>5. QED BY <2>1, <2>2, <2>3, <2>4
<1>4. QED BY <1>2, <1>3

LEMMA UnwireLinkEffect ==
  ASSUME DevType, NEW h \in Handlers, UnwireLink(h)
  PROVE  /\ DevType' /\ Unwires(h)
         /\ \/ /\ req'[h] = [req[h] EXCEPT !.pc = "commit"]
               /\ req[h].lnk.net \notin Networks(docker')
            \/ req'[h] = Idle /\ Unplug(req[h].lnk) /\ docker'.nets = docker.nets
<1> DEFINE net == req[h].lnk.net
           one == PlugOut(docker, req[h].row, net)
           other == PlugOut(docker, req[h].peer, net)
           two == PlugOut(one, req[h].peer, net)
           end == remove_docker_network(two, net)
           r == [req[h] EXCEPT !.pc = "commit"]
<1>1. /\ req[h].kind = "unlink"
      /\ \/ docker' = end.d /\ end.err = "ok" /\ Goes(h, r)
         \/ /\ (docker' = end.d /\ end.err # "ok") \/ docker' \in {docker, one, other, two}
            /\ Ends(h) /\ Unplug(req[h].lnk)
      /\ faults' = faults \/ Fault
      /\ UNCHANGED <<rows, lastId, count, failed, raced, patched, lost>>
  BY DEF UnwireLink, Is
<1> DEFINE Off(d) == /\ DockerOK(d) /\ d.ctrs = docker.ctrs /\ d.nets = docker.nets
                     /\ d.next = docker.next /\ d.ends \subseteq docker.ends
                     /\ \A e \in docker.ends : e \in d.ends \/ e.net = net
<1>2. Off(docker) /\ Off(one) /\ Off(other)
  BY PlugOutDoes DEF DevType
<1> HIDE DEF one, other
<1>3. Off(two)
  BY <1>2, PlugOutDoes
<1> HIDE DEF two
<1>4. /\ DockerOK(end.d) /\ end.d.ctrs = two.ctrs /\ end.d.ends = two.ends
      /\ end.d.next = two.next /\ end.d.nets \subseteq two.nets
      /\ \A n \in two.nets : n \in end.d.nets \/ n.id = net
      /\ end.err = "ok" => net \notin Networks(end.d)
  BY <1>3, RemoveNetworkDoes
<1>12. end.err # "ok" => end.d = two
  BY DEF remove_docker_network, Out
<1> HIDE DEF end
<1>5. Unplugs(h, docker')
  <2>1. CASE docker' = end.d
    BY <1>3, <1>4, <2>1 DEF Unplugs
  <2>2. CASE docker' \in {docker, one, other, two}
    BY <1>2, <1>3, <2>2 DEF Unplugs
  <2>3. QED BY <1>1, <2>1, <2>2
<1>6. /\ r.kind = req[h].kind /\ r.made = {} /\ DOMAIN r = DOMAIN Idle /\ r.row = req[h].row
      /\ r.peer = req[h].peer /\ r.behind = req[h].behind /\ r.lnk = req[h].lnk
      /\ r.index = req[h].index /\ r.seen = req[h].seen
  BY <1>1, LinkHand DEF Idle, LinkKinds
<1>7. HandOK(r)
  <2> HIDE DEF r
  <2>1. QED BY <1>1, <1>6, LinkHand, LinkHandOn DEF LinkKinds
<1>8. DevType' /\ Rests(h)
  <2> HIDE DEF r
  <2>1. faults' \in 0..MaxFaults
    BY <1>1, Counted DEF Fault, DevType
  <2>2. DockerOK(docker')
    BY <1>5 DEF Unplugs
  <2>3. (Ends(h) \/ Goes(h, r)) /\ req[h].kind \in LinkKinds
    BY <1>1 DEF LinkKinds
  <2>4. QED BY <1>1, <1>6, <1>7, <2>1, <2>2, <2>3, Rested
<1>9. Goes(h, r) => req'[h] = r
  BY DEF Goes, DevType, HandsOK
<1>10. Ends(h) => req'[h] = Idle
  BY DEF Ends, DevType, HandsOK
<1>13. CASE docker' = end.d /\ end.err = "ok" /\ Goes(h, r)
  BY <1>1, <1>4, <1>5, <1>8, <1>9, <1>13 DEF Unwires
<1>14. CASE /\ (docker' = end.d /\ end.err # "ok") \/ docker' \in {docker, one, other, two}
            /\ Ends(h) /\ Unplug(req[h].lnk)
  <2>1. docker'.nets = docker.nets
    BY <1>2, <1>3, <1>12, <1>14
  <2>2. QED BY <1>1, <1>5, <1>8, <1>10, <1>14, <2>1 DEF Unwires
<1>11. QED BY <1>1, <1>13, <1>14

LEMMA OthersDo == ASSUME DevType, NEW h \in Handlers, OtherStep(h) PROVE OtherDoes
<1>1. Ready
  BY DEF DevType, DockerOK, DockerType, HandsOK, HandOK, Ready, DockerShape
<1>2. count \in Nat
  BY DevicesAssumption DEF DevType, DevicesAssumption
<1>3. QED BY <1>1, <1>2, OtherSteps

LinksFinite == IsFiniteSet(links)
TopoType == DevType /\ StartsMake /\ LinksFinite

\* What any step does.
TopoEffect(h) ==
  \/ Effect(h) /\ OtherStep(h)
  \/ Quiet(h) /\ (LinkRequest(h) \/ LinkStep(h))
  \/ Wires(h) /\ WireLink(h)
  \/ Unwires(h) /\ UnwireLink(h)

LEMMA TopoEffects ==
  ASSUME DevType, StartsMake, LinksFinite, NEW h \in Handlers,
         LinkRequest(h) \/ LinkStep(h) \/ OtherStep(h)
  PROVE  DevType' /\ TopoEffect(h)
<1>1. CASE LinkRequest(h)
  BY <1>1, CreateLinkEffect, DeleteLinkEffect DEF LinkRequest, TopoEffect
<1>2. CASE CountLinks(h) \/ InsertLink(h) \/ CommitLink(h) \/ CommitUnlink(h)
  <2>1. LinkStep(h)
    BY <1>2 DEF LinkStep
  <2>2. QED
    BY <1>2, <2>1, CountLinksEffect, InsertLinkEffect, CommitLinksEffect DEF TopoEffect, LinksFinite
<1>3. CASE WireLink(h)
  BY <1>3, WireLinkEffect DEF TopoEffect
<1>4. CASE UnwireLink(h)
  BY <1>4, UnwireLinkEffect DEF TopoEffect
<1>5. CASE AbortLink(h)
  <2>1. DevType' /\ (Fails(h) \/ Quiet(h)) /\ req[h].kind \in LinkKinds
    BY <1>5, AbortEffect DEF AbortLink, LinkKinds
  <2>2. ~Fails(h)
    BY <2>1 DEF Fails, LinkKinds, Operations, Runs
  <2>3. LinkStep(h)
    BY <1>5 DEF LinkStep
  <2>4. QED BY <2>1, <2>2, <2>3 DEF TopoEffect
<1>6. CASE OtherStep(h)
  BY <1>6, DeviceEffects DEF OtherStep, TopoEffect
<1>7. QED BY <1>1, <1>2, <1>3, <1>4, <1>5, <1>6 DEF LinkStep

LEMMA LinksFiniteKept ==
  ASSUME DevType, LinksFinite, NEW h \in Handlers, LinkRequest(h) \/ LinkStep(h) \/ OtherStep(h)
  PROVE  LinksFinite'
<1>1. CASE UNCHANGED links
  BY <1>1 DEF LinksFinite
<1>2. CASE CommitLink(h)
  BY <1>2, FS_AddElement DEF CommitLink, LinksFinite
<1>3. CASE CommitUnlink(h)
  <2>1. links' \subseteq links
    BY <1>3 DEF CommitUnlink
  <2>2. QED BY <2>1, FS_Subset DEF LinksFinite
<1>4. CASE LinkRequest(h)
  BY <1>1, <1>4 DEF LinkRequest, CreateLink, DeleteLink, rows
<1>5. CASE \/ CountLinks(h) \/ WireLink(h) \/ InsertLink(h) \/ UnwireLink(h) \/ AbortLink(h)
  BY <1>1, <1>5 DEF CountLinks, WireLink, InsertLink, UnwireLink, AbortLink, Abort, rows
<1>6. CASE OtherStep(h)
  BY <1>1, <1>6, OthersDo DEF OtherDoes
<1>7. QED BY <1>2, <1>3, <1>4, <1>5, <1>6 DEF LinkStep

LEMMA StartsMakeOn ==
  ASSUME DevType, StartsMake, NEW h \in Handlers, TopoEffect(h) PROVE StartsMake'
<1>1. ASSUME NEW r, Turns(h, r), r.kind \in LinkKinds \cup {"idle"} PROVE StartsMake'
  BY <1>1 DEF Turns, StartsMake, LinkKinds, Runs
<1>2. CASE Wires(h) \/ Unwires(h)
  BY <1>1, <1>2 DEF Wires, Unwires, Rests
<1>3. CASE Effect(h)
  BY <1>3, StartsMakeKept
<1>4. CASE Quiet(h)
  BY <1>4, StartsMakeKept DEF Effect
<1>5. QED BY <1>2, <1>3, <1>4 DEF TopoEffect

LEMMA TopoTypeAlways == TopoSpec => []TopoType
<1>1. TopoInit => TopoType
  BY TypeInitially, FS_EmptySet DEF TopoInit, TopoType, LinksFinite, Init
<1>2. TopoType /\ [TopoNext]_topoVars => TopoType'
  <2>1. ASSUME TopoType, NEW h \in Handlers, LinkRequest(h) \/ LinkStep(h) \/ OtherStep(h)
        PROVE  TopoType'
    BY <2>1, TopoEffects, LinksFiniteKept, StartsMakeOn DEF TopoType
  <2>2. ASSUME TopoType, UNCHANGED topoVars PROVE TopoType'
    BY <2>2 DEF TopoType, DevType, HandsOK, StartsMake, LinksFinite, topoVars, labVars, rows
  <2>3. QED BY <2>1, <2>2 DEF TopoNext
<1>3. QED BY <1>1, <1>2, PTL DEF TopoSpec

-----------------------------------------------------------------------------
(* Networks, with links.  No link's network is a lab's, so what links do to *)
(* networks is nothing to the network rows.                                 *)

\* No lab network has this id.
NoLab(net) == \A n \in docker.nets : n.id = net => n.name \notin Labs

LinksNamed ==
  /\ \A l \in links : NoLab(l.net)
  /\ \A h \in Handlers : req[h].kind \in LinkKinds => NoLab(req[h].lnk.net)

LEMMA PairsNoLab ==
  ASSUME NEW a \in DeviceRow, NEW b \in DeviceRow PROVE <<a.id, b.id>> \notin Labs
BY NamesAssumption DEF NamesAssumption, DeviceRow

LEMMA NoSuch == \E name : name \notin Labs
<1>1. <<0, 0>> \notin Labs
  BY NamesAssumption DEF NamesAssumption
<1>2. QED BY <1>1

\* Networks that are no labs' come and go.
LEMMA LinksOnlyNets ==
  ASSUME DevType, DevType', NetInv, NEW h \in Handlers, NEW r, Turns(h, r), r.kind \notin NetKinds,
         req[h].kind \notin NetKinds, UNCHANGED <<networks, lost>>,
         docker'.next >= docker.next, NEW name, name \notin Labs,
         \A n \in docker'.nets :
           n \in docker.nets \/ (n.id = docker.next /\ n.name = name /\ docker.next < docker'.next),
         \A n \in docker.nets : n \in docker'.nets \/ n.name \notin Labs
  PROVE  NetInv'
<1>1. /\ docker.next \in Nat /\ docker'.next \in Nat /\ DockerShape(docker')
      /\ DOMAIN req' = Handlers /\ \A g \in Handlers : DOMAIN req'[g] = DOMAIN Idle
      /\ \A g \in Handlers : req[g].kind \in NetKinds => req[g].lab \in NetworkRow
      /\ networks \subseteq NetworkRow
  BY DEF DevType, DockerOK, DockerType, DockerShape, HandsOK, HandOK, NetKinds
<1>2. \A g \in Handlers : /\ req'[g].kind \in NetKinds <=> req[g].kind \in NetKinds
                          /\ req[g].kind \in NetKinds => req'[g] = req[g]
  BY DEF Turns
<1>3. NetShape'
  BY <1>1, <1>2 DEF NetInv, NetShape, NetKinds
<1>4. \A id, a : KnownAs(id, a)' =>
        KnownAs(id, a) \/ (id = docker.next /\ a = name /\ docker.next < docker'.next)
  BY <1>2 DEF KnownAs
<1>5. IdsKnown'
  <2>1. \A id, a : KnownAs(id, a) => id \in Nat /\ id < docker.next
    BY DEF NetInv, IdsKnown
  <2>2. \A id, a : KnownAs(id, a)' => id \in Nat /\ id < docker'.next
    BY <1>1, <1>4, <2>1
  <2>3. \A id, a, b : KnownAs(id, a)' /\ KnownAs(id, b)' => a = b
    BY <1>1, <1>4, <2>1 DEF NetInv, IdsKnown
  <2>4. QED BY <2>2, <2>3 DEF IdsKnown
<1>6. \A net, lab : KnownAs(net, lab) /\ lab \in Labs =>
        (net \in Networks(docker) <=> net \in Networks(docker'))
  <2> TAKE net, lab
  <2> HAVE KnownAs(net, lab) /\ lab \in Labs
  <2>1. net < docker.next /\ net \in Nat
    BY DEF NetInv, IdsKnown
  <2>2. ASSUME NEW n \in docker.nets, n.id = net PROVE n \in docker'.nets
    <3>1. KnownAs(net, n.name)
      BY <2>2 DEF KnownAs
    <3>2. n.name = lab
      BY <3>1 DEF NetInv, IdsKnown
    <3>3. QED BY <3>2
  <2>3. ASSUME NEW n \in docker'.nets, n.id = net PROVE n \in docker.nets
    BY <1>1, <2>1, <2>3
  <2>4. QED BY <2>2, <2>3 DEF Networks
<1>7. ASSUME NEW lab \in NetworkRow, KnownAs(lab.net, lab.name)
      PROVE  lab.net \in Networks(docker) <=> lab.net \in Networks(docker')
  BY <1>6, <1>7 DEF NetworkRow
<1>8. \A n \in networks : n.net \in Networks(docker) <=> n.net \in Networks(docker')
  BY <1>1, <1>7 DEF KnownAs
<1>9. \A g \in Handlers : req[g].kind \in NetKinds =>
        (req[g].lab.net \in Networks(docker) <=> req[g].lab.net \in Networks(docker'))
  BY <1>1, <1>7 DEF KnownAs
<1>10. \A g \in Handlers : Dropping(g)' <=> Dropping(g)
  BY <1>2 DEF Dropping, NetKinds
<1>11. \A g \in Handlers : Dropping(g) => req'[g] = req[g] /\ req[g].kind \in NetKinds
  BY <1>2 DEF Dropping, NetKinds
<1>12. NamesOnce'
  BY DEF NetInv, NamesOnce
<1>13. DroppedGone'
  BY <1>9, <1>10, <1>11 DEF NetInv, DroppedGone
<1>14. MadeThere'
  BY <1>2, <1>9 DEF NetInv, MadeThere, NetKinds
<1>15. RowsExplained'
  BY <1>8, <1>10, <1>11 DEF NetInv, RowsExplained
<1>16. NetsExplained'
  BY <1>2 DEF NetInv, NetsExplained, NetKinds
<1>17. QED BY <1>3, <1>5, <1>12, <1>13, <1>14, <1>15, <1>16 DEF NetInv

\* All but two of the steps about links leave the daemon alone.
LEMMA LinksLeave ==
  ASSUME DevType, NEW h \in Handlers, LinkRequest(h) \/ LinkStep(h)
  PROVE  /\ req[h].kind \in LinkKinds \cup {"idle"} /\ UNCHANGED <<networks, devices, lost>>
         /\ WireLink(h) \/ UnwireLink(h) \/ UNCHANGED docker
<1>1. CASE LinkRequest(h)
  <2>1. Arrives(h, "link") \/ Arrives(h, "unlink")
    BY <1>1 DEF LinkRequest, CreateLink, DeleteLink
  <2>2. req[h].kind = "idle"
    BY <2>1, IdleOK DEF Arrives
  <2>3. UNCHANGED <<docker, rows, lost>>
    BY <1>1 DEF LinkRequest, CreateLink, DeleteLink
  <2>4. QED BY <2>2, <2>3 DEF rows
<1>2. CASE CountLinks(h) \/ InsertLink(h)
  BY <1>2 DEF CountLinks, InsertLink, Is, LinkKinds, rows
<1>3. CASE CommitLink(h) \/ CommitUnlink(h)
  BY <1>3 DEF CommitLink, CommitUnlink, Is, LinkKinds
<1>4. CASE WireLink(h) \/ UnwireLink(h)
  BY <1>4 DEF WireLink, UnwireLink, Is, LinkKinds, rows
<1>5. CASE AbortLink(h)
  BY <1>5 DEF AbortLink, Abort, Is, LinkKinds, rows
<1>6. QED BY <1>1, <1>2, <1>3, <1>4, <1>5 DEF LinkStep

\* How the hand of a request about links changes.
Begins(h, r) ==
  /\ req[h].kind = "idle" /\ r.kind = "link" /\ r.pc = "count" /\ r.lnk.net = 0
  /\ r.row \in devices /\ r.peer \in devices /\ r.lnk.src = r.row.id /\ r.lnk.dst = r.peer.id

Forgoes(h, r) ==
  /\ req[h].kind = "idle" /\ r.kind = "unlink" /\ r.pc = "unwire" /\ r.lnk \in links
  /\ r.row \in RowsOf(r.lnk.src) /\ r.peer \in RowsOf(r.lnk.dst)

Proceeds(h, r) ==
  /\ r.kind = req[h].kind /\ r.row = req[h].row /\ r.peer = req[h].peer /\ r.lnk = req[h].lnk
  /\ \/ req[h].kind = "link" /\ req[h].pc = "count" /\ r.pc = "wire"
     \/ InsertLink(h) /\ req[h].kind = "link" /\ req[h].pc = "insert" /\ r.pc = "commit"
     \/ UnwireLink(h) /\ req[h].kind = "unlink" /\ req[h].pc = "unwire" /\ r.pc = "commit"

Provides(h, r) ==
  /\ WireLink(h) /\ req[h].kind = "link" /\ r.kind = "link" /\ r.pc = "insert"
  /\ r.row = req[h].row /\ r.peer = req[h].peer
  /\ r.lnk = [req[h].lnk EXCEPT !.net = Wiring(h).net]
  /\ Wiring(h).out.err = "ok" /\ docker' = Wiring(h).out.d
  /\ shared' = IF HasNet(Wiring(h).net) THEN shared \cup {Wiring(h).net} ELSE shared

LinkTurn(h, r) ==
  \/ r = Idle \/ Begins(h, r) \/ Forgoes(h, r) \/ Proceeds(h, r) \/ Provides(h, r)

LEMMA LinkTurns ==
  ASSUME DevType, NEW h \in Handlers, LinkRequest(h) \/ LinkStep(h)
  PROVE  \E r : Turns(h, r) /\ LinkTurn(h, r)
<1>1. ASSUME NEW r, Goes(h, r), LinkTurn(h, r) PROVE \E q : Turns(h, q) /\ LinkTurn(h, q)
  BY <1>1 DEF Goes, Turns, DevType, HandsOK
<1>2. ASSUME Ends(h) PROVE \E q : Turns(h, q) /\ LinkTurn(h, q)
  BY <1>1, <1>2 DEF Ends, Goes, LinkTurn
<1>3. ASSUME NEW s \in devices, NEW d \in devices, CreateLink(h, s, d)
      PROVE \E q : Turns(h, q) /\ LinkTurn(h, q)
  <2> DEFINE lnk == [id |-> count', src |-> s.id, dst |-> d.id, net |-> 0]
             r == [Idle EXCEPT !.kind = "link", !.pc = "count", !.row = s, !.peer = d, !.lnk = lnk]
  <2>1. Goes(h, r) /\ req[h].kind = "idle"
    BY <1>3 DEF CreateLink, Arrives, Idle
  <2>2. /\ r.kind = "link" /\ r.pc = "count" /\ r.row = s /\ r.peer = d /\ r.lnk = lnk
        /\ lnk.src = s.id /\ lnk.dst = d.id /\ lnk.net = 0
    BY DEF Idle
  <2> HIDE DEF r, lnk
  <2>3. QED BY <1>1, <2>1, <2>2 DEF LinkTurn, Begins
<1>4. ASSUME NEW l \in links, DeleteLink(h, l) PROVE \E q : Turns(h, q) /\ LinkTurn(h, q)
  <2>1. PICK s \in RowsOf(l.src), d \in RowsOf(l.dst) :
          Goes(h, [Idle EXCEPT !.kind = "unlink", !.pc = "unwire", !.row = s, !.peer = d, !.lnk = l])
    BY <1>4 DEF DeleteLink
  <2> DEFINE r == [Idle EXCEPT !.kind = "unlink", !.pc = "unwire", !.row = s, !.peer = d, !.lnk = l]
  <2>2. Goes(h, r) /\ req[h].kind = "idle"
    BY <1>4, <2>1 DEF DeleteLink, Arrives, Idle
  <2>3. r.kind = "unlink" /\ r.pc = "unwire" /\ r.row = s /\ r.peer = d /\ r.lnk = l
    BY DEF Idle
  <2> HIDE DEF r
  <2>4. QED BY <1>1, <2>2, <2>3 DEF LinkTurn, Forgoes
<1>5. ASSUME req[h].kind \in LinkKinds, NEW pc, NEW r, r = [req[h] EXCEPT !.pc = pc]
      PROVE  /\ r.kind = req[h].kind /\ r.row = req[h].row /\ r.peer = req[h].peer
             /\ r.lnk = req[h].lnk /\ r.pc = pc
  BY <1>5, LinkHand DEF Idle
<1>6. ASSUME CountLinks(h) PROVE \E q : Turns(h, q) /\ LinkTurn(h, q)
  <2> DEFINE r == [req[h] EXCEPT !.pc = "wire", !.index = NextIndex(h), !.seen = links]
  <2>1. Goes(h, r) /\ req[h].kind = "link" /\ req[h].pc = "count"
    BY <1>6 DEF CountLinks, Is
  <2>2. /\ r.kind = req[h].kind /\ r.row = req[h].row /\ r.peer = req[h].peer
        /\ r.lnk = req[h].lnk /\ r.pc = "wire"
    BY <2>1, LinkHand DEF Idle, LinkKinds
  <2> HIDE DEF r
  <2>3. QED BY <1>1, <2>1, <2>2 DEF LinkTurn, Proceeds
<1>7. ASSUME InsertLink(h) PROVE \E q : Turns(h, q) /\ LinkTurn(h, q)
  <2> DEFINE r == [req[h] EXCEPT !.pc = "commit"]
  <2>1. (Goes(h, r) \/ Ends(h)) /\ req[h].kind = "link" /\ req[h].pc = "insert"
    BY <1>7 DEF InsertLink, Is
  <2>2. /\ r.kind = req[h].kind /\ r.row = req[h].row /\ r.peer = req[h].peer
        /\ r.lnk = req[h].lnk /\ r.pc = "commit"
    BY <2>1, <1>5 DEF LinkKinds
  <2> HIDE DEF r
  <2>3. Goes(h, r) => LinkTurn(h, r)
    BY <1>7, <2>1, <2>2 DEF LinkTurn, Proceeds
  <2>4. QED BY <1>1, <1>2, <2>1, <2>3
<1>8. ASSUME UnwireLink(h) PROVE \E q : Turns(h, q) /\ LinkTurn(h, q)
  <2> DEFINE r == [req[h] EXCEPT !.pc = "commit"]
  <2>1. (Goes(h, r) \/ Ends(h)) /\ req[h].kind = "unlink" /\ req[h].pc = "unwire"
    BY <1>8 DEF UnwireLink, Is
  <2>2. /\ r.kind = req[h].kind /\ r.row = req[h].row /\ r.peer = req[h].peer
        /\ r.lnk = req[h].lnk /\ r.pc = "commit"
    BY <2>1, <1>5 DEF LinkKinds
  <2> HIDE DEF r
  <2>3. Goes(h, r) => LinkTurn(h, r)
    BY <1>8, <2>1, <2>2 DEF LinkTurn, Proceeds
  <2>4. QED BY <1>1, <1>2, <2>1, <2>3
<1>9. ASSUME WireLink(h) PROVE \E q : Turns(h, q) /\ LinkTurn(h, q)
  <2> DEFINE w == Wiring(h)
             lnk == [req[h].lnk EXCEPT !.net = w.net]
             r == [req[h] EXCEPT !.pc = "insert", !.lnk.net = w.net]
  <2>1. /\ \/ Ends(h)
           \/ /\ Goes(h, r) /\ w.out.err = "ok" /\ docker' = w.out.d
              /\ shared' = IF HasNet(w.net) THEN shared \cup {w.net} ELSE shared
        /\ req[h].kind = "link"
    BY <1>9 DEF WireLink, Is
  <2>2. /\ r.kind = "link" /\ r.pc = "insert" /\ r.row = req[h].row /\ r.peer = req[h].peer
        /\ r.lnk = lnk
    BY <2>1, LinkHand DEF Idle, LinkKinds
  <2> HIDE DEF r
  <2>3. /\ Goes(h, r) /\ w.out.err = "ok" /\ docker' = w.out.d
        /\ shared' = IF HasNet(w.net) THEN shared \cup {w.net} ELSE shared
        => LinkTurn(h, r)
    BY <1>9, <2>1, <2>2 DEF LinkTurn, Provides
  <2> HIDE DEF w
  <2>4. QED BY <1>1, <1>2, <2>1, <2>3
<1>10. ASSUME CommitLink(h) \/ CommitUnlink(h) \/ AbortLink(h) PROVE Ends(h)
  BY <1>10 DEF CommitLink, CommitUnlink, AbortLink, Abort
<1>11. QED
  BY <1>2, <1>3, <1>4, <1>6, <1>7, <1>8, <1>9, <1>10 DEF LinkRequest, LinkStep

LEMMA LinkTurnKinds ==
  ASSUME DevType, NEW h \in Handlers, NEW r, LinkTurn(h, r), LinkRequest(h) \/ LinkStep(h)
  PROVE  r.kind \in LinkKinds \cup {"idle"} /\ r.kind \notin NetKinds
<1>1. req[h].kind \in LinkKinds \cup {"idle"}
  BY LinksLeave
<1>2. QED
  BY <1>1, IdleOK DEF LinkTurn, Begins, Forgoes, Proceeds, Provides, LinkKinds, NetKinds

LEMMA LinksKeepNets ==
  ASSUME TopoType, NetInv, LinksNamed, NEW h \in Handlers, LinkRequest(h) \/ LinkStep(h)
  PROVE  NetInv'
<1>1. DevType' /\ TopoEffect(h) /\ DevType
  BY TopoEffects DEF TopoType
<1>2. /\ req[h].kind \in LinkKinds \cup {"idle"} /\ UNCHANGED <<networks, lost>>
      /\ WireLink(h) \/ UnwireLink(h) \/ UNCHANGED docker
  BY <1>1, LinksLeave
<1>3. req[h].kind \notin NetKinds /\ docker.next \in Nat
  BY <1>1, <1>2 DEF LinkKinds, NetKinds, DevType, DockerOK, DockerType
<1>4. CASE WireLink(h)
  <2>1. Wires(h)
    BY <1>1, <1>4, WireLinkEffect
  <2>2. PICK r : Turns(h, r) /\ r.kind \in LinkKinds \cup {"idle"}
    BY <2>1 DEF Wires, Rests
  <2>3. <<req[h].row.id, req[h].peer.id>> \notin Labs
    BY <1>1, <2>1, LinkHand, PairsNoLab DEF Wires, Rests
  <2>4. r.kind \notin NetKinds
    BY <2>2 DEF LinkKinds, NetKinds
  <2>5. /\ docker'.next >= docker.next
        /\ \A n \in docker'.nets :
             n \in docker.nets \/ (n.id = docker.next /\ n.name = <<req[h].row.id, req[h].peer.id>>
                                    /\ docker.next < docker'.next)
        /\ \A n \in docker.nets : n \in docker'.nets
    BY <1>3, <2>1 DEF Wires, Plugs
  <2>6. QED BY <1>1, <1>2, <1>3, <2>2, <2>3, <2>4, <2>5, LinksOnlyNets
<1>5. CASE UnwireLink(h)
  <2>1. Unwires(h)
    BY <1>1, <1>5, UnwireLinkEffect
  <2>2. PICK r : Turns(h, r) /\ r.kind \in LinkKinds \cup {"idle"}
    BY <2>1 DEF Unwires, Rests
  <2>3. r.kind \notin NetKinds
    BY <2>2 DEF LinkKinds, NetKinds
  <2>4. /\ docker'.next >= docker.next
        /\ \A n \in docker'.nets : n \in docker.nets
        /\ \A n \in docker.nets : n \in docker'.nets \/ n.id = req[h].lnk.net
    BY <1>3, <2>1 DEF Unwires, Unplugs
  <2>5. \A n \in docker.nets : n \in docker'.nets \/ n.name \notin Labs
    BY <2>1, <2>4 DEF LinksNamed, NoLab, Unwires, Rests
  <2>6. PICK name : name \notin Labs
    BY NoSuch
  <2>7. QED BY <1>1, <1>2, <1>3, <2>2, <2>3, <2>4, <2>5, <2>6, LinksOnlyNets
<1>6. CASE UNCHANGED docker
  <2>1. PICK r : Turns(h, r) /\ r.kind \notin NetKinds
    BY <1>1, LinkTurns, LinkTurnKinds
  <2>2. PICK name : name \notin Labs
    BY NoSuch
  <2>3. QED BY <1>1, <1>2, <1>3, <1>6, <2>1, <2>2, LinksOnlyNets
<1>7. QED BY <1>2, <1>4, <1>5, <1>6

LEMMA NetsNext ==
  ASSUME DevType, NEW h \in Handlers, LinkRequest(h) \/ LinkStep(h) \/ OtherStep(h)
  PROVE  \A n \in docker'.nets : n \in docker.nets \/ n.id = docker.next
<1>1. CASE OtherStep(h)
  BY <1>1, OthersDo DEF OtherDoes, Gains
<1>2. CASE WireLink(h)
  BY <1>2, WireLinkEffect DEF Wires, Plugs
<1>3. CASE UnwireLink(h)
  BY <1>3, UnwireLinkEffect DEF Unwires, Unplugs
<1>4. CASE (LinkRequest(h) \/ LinkStep(h)) /\ ~WireLink(h) /\ ~UnwireLink(h)
  BY <1>4, LinksLeave
<1>5. QED BY <1>1, <1>2, <1>3, <1>4

\* The links that are come from hands.
LEMMA LinksCome ==
  ASSUME DevType, NEW h \in Handlers, LinkRequest(h) \/ LinkStep(h) \/ OtherStep(h)
  PROVE  \A l \in links' : l \in links \/ (CommitLink(h) /\ l = req[h].lnk)
<1>1. CASE OtherStep(h)
  BY <1>1, OthersDo DEF OtherDoes
<1>2. CASE CommitLink(h) \/ CommitUnlink(h)
  BY <1>2 DEF CommitLink, CommitUnlink
<1>3. CASE LinkRequest(h)
  BY <1>3 DEF LinkRequest, CreateLink, DeleteLink, rows
<1>4. CASE \/ CountLinks(h) \/ WireLink(h) \/ InsertLink(h) \/ UnwireLink(h) \/ AbortLink(h)
  BY <1>4 DEF CountLinks, WireLink, InsertLink, UnwireLink, AbortLink, Abort, rows
<1>5. QED BY <1>1, <1>2, <1>3, <1>4 DEF LinkStep

LEMMA LinksNamedOn ==
  ASSUME TopoType, StrayInv, NetInv', LinksNamed, DevType', NEW h \in Handlers,
         LinkRequest(h) \/ LinkStep(h) \/ OtherStep(h)
  PROVE  LinksNamed'
<1>1. DevType /\ docker.next \in Nat
  BY DEF TopoType, DevType, DockerOK, DockerType
<1>2. \A net : net < docker.next /\ NoLab(net) => NoLab(net)'
  BY <1>1, NetsNext DEF NoLab
<1>3. \A l \in links : NoLab(l.net) /\ l.net < docker.next
  BY DEF LinksNamed, StrayInv, StrayShape, LinkKnown
<1>4. \A g \in Handlers : req[g].kind \in LinkKinds => NoLab(req[g].lnk.net) /\ req[g].lnk.net < docker.next
  BY DEF LinksNamed, StrayInv, InHandOK, LinkKnown
<1>5. NoLab(0) /\ 0 < docker.next
  BY DEF NoLab, StrayInv, StrayShape
<1>6. \A l \in links' : NoLab(l.net)'
  <2>1. CommitLink(h) => req[h].kind \in LinkKinds
    BY DEF CommitLink, Is, LinkKinds
  <2>2. QED BY <1>1, <1>2, <1>3, <1>4, <2>1, LinksCome
<1>7. ASSUME NEW g \in Handlers, req'[g].kind \in LinkKinds PROVE NoLab(req[g].lnk.net)'
  <2>1. CASE OtherStep(h)
    BY <1>1, <1>2, <1>4, <1>7, <2>1, OthersDo DEF OtherDoes
  <2>2. CASE LinkRequest(h) \/ LinkStep(h)
    <3>1. PICK r : Turns(h, r) /\ LinkTurn(h, r)
      BY <1>1, <2>2, LinkTurns
    <3>2. CASE g # h
      BY <1>2, <1>4, <1>7, <3>1, <3>2 DEF Turns
    <3>3. CASE g = h /\ ~Provides(h, r)
      <4>1. req'[g] = r
        BY <3>1, <3>3 DEF Turns
      <4>2. \/ r.lnk.net = 0 \/ r.lnk \in links
            \/ r.lnk = req[h].lnk /\ req[h].kind \in LinkKinds
        BY <1>7, <3>1, <3>3, <4>1, IdleOK DEF LinkTurn, Begins, Forgoes, Proceeds, LinkKinds
      <4>3. QED BY <1>2, <1>3, <1>4, <1>5, <4>1, <4>2
    <3>4. CASE g = h /\ Provides(h, r)
      <4> DEFINE net == Wiring(h).net
                 name == <<req[h].row.id, req[h].peer.id>>
      <4>1. r.lnk.net = net
        <5>1. req[h].lnk \in LinkRow
          BY <1>1, <3>4, LinkHand DEF Provides, LinkKinds
        <5>2. QED BY <3>4, <5>1 DEF Provides, LinkRow
      <4>2. \E n \in docker'.nets : n.id = net /\ n.name = name
        BY <1>1, <3>4, WiringDoes DEF Provides
      <4>3. name \notin Labs
        BY <1>1, <3>4, LinkHand, PairsNoLab DEF Provides, LinkKinds
      <4> HIDE DEF net, name
      <4>4. \A n \in docker'.nets : n.id = net => n.name = name
        BY <4>2 DEF NetInv, IdsKnown, KnownAs
      <4>5. QED BY <3>1, <3>4, <4>1, <4>3, <4>4 DEF NoLab, Turns
    <3>5. QED BY <3>2, <3>3, <3>4
  <2>3. QED BY <2>1, <2>2
<1>8. QED BY <1>6, <1>7 DEF LinksNamed

TopoNets == NetInv /\ LinksNamed

LEMMA TopoNetsAlways == TopoSpec => []TopoNets
<1>1. TopoInit => TopoNets
  <2>1. TopoInit => LinksNamed
    BY IdleOK DEF TopoInit, Init, LinksNamed, LinkKinds
  <2>2. QED BY <2>1, NetInitially DEF TopoInit, TopoNets
<1>2. TopoNets /\ TopoType /\ StrayInv /\ TopoType' /\ [TopoNext]_topoVars => TopoNets'
  <2>1. ASSUME TopoNets, TopoType, StrayInv, TopoType', NEW h \in Handlers,
               LinkRequest(h) \/ LinkStep(h) \/ OtherStep(h)
        PROVE  TopoNets'
    <3>1. NetInv'
      BY <2>1, LinksKeepNets, DevicesKeepNets DEF TopoNets, OtherStep
    <3>2. QED BY <2>1, <3>1, LinksNamedOn DEF TopoNets, TopoType
  <2>2. ASSUME TopoNets, UNCHANGED topoVars PROVE TopoNets'
    <3>1. NetInv'
      BY <2>2, KeepsItself, NetsUntouched DEF topoVars, labVars, rows, TopoNets, NetInv, NetShape
    <3>2. QED BY <2>2, <3>1 DEF topoVars, labVars, rows, TopoNets, LinksNamed, NoLab
  <2>3. QED BY <2>1, <2>2 DEF TopoNext
<1>3. QED BY <1>1, <1>2, TopoTypeAlways, StrayInvAlways, PTL DEF TopoSpec

-----------------------------------------------------------------------------
(* Devices, with links: the layers of the theorems about devices.           *)

Relinks(h) == Wires(h) \/ Unwires(h)

LEMMA TopoEffectKinds ==
  ASSUME NEW h \in Handlers, TopoEffect(h) PROVE Effect(h) \/ Relinks(h)
BY DEF TopoEffect, Effect, Relinks

\* Containers, rows and the hands of other requests stay.
LEMMA RelinksKeep ==
  ASSUME DevType, NEW h \in Handlers, Relinks(h)
  PROVE  /\ docker'.ctrs = docker.ctrs /\ docker'.next >= docker.next
         /\ UNCHANGED <<networks, devices, lastId, failed, raced, patched, lost>>
         /\ \A g \in Handlers :
              \/ req'[g] = req[g]
              \/ /\ g = h /\ req'[g].kind \in LinkKinds \cup {"idle"} /\ req'[g].made = {}
                 /\ req[g].kind \in LinkKinds /\ req[g].made = {}
<1>1. docker.next \in Nat
  BY DEF DevType, DockerOK, DockerType
<1>2. Rests(h) /\ docker'.ctrs = docker.ctrs /\ docker'.next >= docker.next
  BY <1>1 DEF Relinks, Wires, Unwires, Plugs, Unplugs
<1>3. QED BY <1>2 DEF Rests, Turns

LEMMA RelinksKeepIds ==
  ASSUME DevType, DevType', IdInv, NEW h \in Handlers, Relinks(h) PROVE IdInv'
<1>1. /\ docker'.ctrs = docker.ctrs /\ docker'.next >= docker.next
      /\ UNCHANGED <<devices, lastId, raced>>
      /\ \A g \in Handlers :
           \/ req'[g] = req[g]
           \/ req'[g].kind \in LinkKinds \cup {"idle"} /\ req'[g].made = {}
  BY RelinksKeep
<1>2. CtrsCome
  BY <1>1, HandRows DEF CtrsCome
<1>3. \A g \in Handlers : Holds(g)
  BY <1>1 DEF Holds, LinkKinds, Operations, Runs
<1>4. \A r, s \in devices' : r.id = s.id => r = s
  BY <1>1 DEF IdInv, RowsKnown
<1>5. QED BY <1>1, <1>2, <1>3, <1>4, IdsHeld

\* What the next layers rest on.
TopoBase == TopoType /\ TopoNets /\ StrayInv /\ LinkInv
TopoIds == TopoBase /\ IdInv

LEMMA TopoStays ==
  ASSUME UNCHANGED topoVars
  PROVE  /\ UNCHANGED <<docker, networks, devices, links, req, lastId, count, failed, raced, patched>>
         /\ UNCHANGED <<lost, strays, halved, unplugged, shared, rewired, freed>>
BY DEF topoVars, labVars, rows, histVars

LEMMA TopoIdsAlways == TopoSpec => []TopoIds
<1>1. TopoSpec => []TopoBase
  BY TopoTypeAlways, TopoNetsAlways, StrayInvAlways, LinkInvAlways, PTL DEF TopoBase
<1>2. TopoInit => IdInv
  BY IdsInitially DEF TopoInit
<1>3. TopoBase /\ TopoBase' /\ IdInv /\ [TopoNext]_topoVars => IdInv'
  <2>1. ASSUME TopoBase, TopoBase', IdInv, NEW h \in Handlers,
               LinkRequest(h) \/ LinkStep(h) \/ OtherStep(h)
        PROVE  IdInv'
    <3>1. DevType /\ DevType' /\ StartsMake /\ (Effect(h) \/ Relinks(h))
      BY <2>1, TopoEffects, TopoEffectKinds DEF TopoBase, TopoType
    <3>2. QED BY <2>1, <3>1, IdsKept, RelinksKeepIds
  <2>2. ASSUME IdInv, UNCHANGED topoVars PROVE IdInv'
    BY <2>2, TopoStays DEF IdInv, CtrsKnown, RowsKnown, RowKnown, CreatesOwn, StartsOwn,
       RacesSeen, HasRow
  <2>3. QED BY <2>1, <2>2 DEF TopoNext
<1>4. QED BY <1>1, <1>2, <1>3, PTL DEF TopoSpec, TopoIds

\* The network a start has read is a lab's.
LabsRead ==
  \A h \in Handlers : HasRow(h) =>
    \/ req[h].row.net = None
    \/ \A n \in docker.nets : n.id = req[h].row.net => n.name \in Labs

IsLab(net) == net = None \/ \A n \in docker.nets : n.id = net => n.name \in Labs

LEMMA RowsAreLabs ==
  ASSUME DevType, NetInv, NEW r, r.net = None \/ HasNetwork(r) PROVE IsLab(r.net)
<1>1. ASSUME HasNetwork(r), NEW n \in docker.nets, n.id = r.net PROVE n.name \in Labs
  <2>1. PICK m \in networks : m.net = r.net
    BY <1>1 DEF HasNetwork
  <2>2. KnownAs(r.net, m.name) /\ KnownAs(r.net, n.name)
    BY <1>1, <2>1 DEF KnownAs
  <2>3. n.name = m.name
    BY <2>2 DEF NetInv, IdsKnown
  <2>4. m \in NetworkRow
    BY <2>1 DEF DevType
  <2>5. QED BY <2>3, <2>4 DEF NetworkRow
<1>2. QED BY <1>1 DEF IsLab

\* What a handler acts on is what it did, or has just been read.
LEMMA RowsReadOn ==
  ASSUME DevType, NEW h \in Handlers, Effect(h) \/ Relinks(h)
  PROVE  \A g \in Handlers : HasRow(g)' =>
           \/ HasRow(g) /\ req'[g].row = req[g].row
           \/ req'[g].row \in devices /\ docker' = docker
<1>1. ASSUME NEW r, Turns(h, r), \/ r.kind \notin Operations
                                 \/ r.row \in devices /\ docker' = docker
                                 \/ HasRow(h) /\ r.row = req[h].row
      PROVE  \A g \in Handlers : HasRow(g)' =>
               \/ HasRow(g) /\ req'[g].row = req[g].row
               \/ req'[g].row \in devices /\ docker' = docker
  BY <1>1 DEF Turns, HasRow
<1>2. CASE Quiet(h)
  BY <1>1, <1>2 DEF Quiet
<1>3. CASE Detaches(h) \/ Fails(h) \/ Creates(h) \/ Updates(h) \/ Deletes(h)
  <2>1. Turns(h, Idle) /\ Idle.kind \notin Operations
    BY <1>3, IdleOK DEF Detaches, Fails, Creates, Updates, Deletes, Operations, Runs
  <2>2. QED BY <1>1, <2>1
<1>4. CASE Inserts(h) \/ RunsUp(h)
  <2>1. PICK r : Turns(h, r) /\ r.kind = "create"
    BY <1>4 DEF Inserts, RunsUp
  <2>2. QED BY <1>1, <2>1 DEF Operations, Runs
<1>5. CASE \E kind \in Operations, row \in devices : Takes(h, kind, row)
  BY <1>1, <1>5 DEF Takes
<1>6. CASE Stops(h) \/ Starts(h)
  <2>1. PICK r : Turns(h, r) /\ r.row = req[h].row
    BY <1>6 DEF Stops, Starts
  <2>2. HasRow(h)
    BY <1>6 DEF Stops, Starts, HasRow, Operations, Runs
  <2>3. QED BY <1>1, <2>1, <2>2
<1>7. CASE Patches(h)
  <2>1. \A g \in Handlers \ {h} : req'[g].kind = req[g].kind /\ req'[g].row = req[g].row
    <3>1. \A g \in Handlers : DOMAIN req[g] = DOMAIN Idle
      BY DEF DevType, HandsOK, HandOK
    <3>2. QED BY <1>7, <3>1 DEF Patches, Idle
  <2>2. ~HasRow(h)'
    BY <1>7, IdleOK DEF Patches, HasRow, Operations, Runs
  <2>3. QED BY <2>1, <2>2 DEF HasRow
<1>8. CASE Relinks(h)
  <2>1. \A g \in Handlers : req'[g] = req[g] \/ req'[g].kind \in LinkKinds \cup {"idle"}
    BY <1>8, RelinksKeep
  <2>2. QED BY <2>1 DEF HasRow, LinkKinds, Operations, Runs
<1>9. QED BY <1>2, <1>3, <1>4, <1>5, <1>6, <1>7, <1>8 DEF Effect

LEMMA LabsReadOn ==
  ASSUME TopoType, NetInv, NetsRead, NetsKept, LabsRead, NEW h \in Handlers,
         LinkRequest(h) \/ LinkStep(h) \/ OtherStep(h)
  PROVE  LabsRead'
<1>1. DevType /\ (Effect(h) \/ Relinks(h)) /\ docker.next \in Nat
  BY TopoEffects, TopoEffectKinds DEF TopoType, DevType, DockerOK, DockerType
<1>2. ASSUME NEW g \in Handlers, HasRow(g)' PROVE IsLab(req[g].row.net)'
  <2>1. CASE HasRow(g) /\ req'[g].row = req[g].row
    <3>1. req[g].row.net = None \/ req[g].row.net < docker.next
      BY <2>1 DEF NetsRead
    <3>2. IsLab(req[g].row.net)
      BY <2>1 DEF LabsRead, IsLab
    <3>3. QED BY <1>1, <2>1, <3>1, <3>2, NetsNext DEF IsLab
  <2>2. CASE req'[g].row \in devices /\ docker' = docker
    <3>1. IsLab(req'[g].row.net)
      BY <1>1, <2>2, RowsAreLabs DEF NetsKept
    <3>2. QED BY <2>2, <3>1 DEF IsLab
  <2>3. QED BY <1>1, <1>2, <2>1, <2>2, RowsReadOn
<1>3. QED BY <1>2 DEF LabsRead, IsLab

\* What links do leaves a container on its lab.
LEMMA LabEndsStay ==
  ASSUME DevType, LinksNamed, NEW h \in Handlers, Relinks(h), NEW x, IsLab(x.net),
         Plugged(x, docker)
  PROVE  Plugged(x, docker')
<1>1. docker'.ctrs = docker.ctrs /\ Running(docker') = Running(docker)
  BY RelinksKeep DEF Running
<1>2. CASE Wires(h)
  BY <1>1, <1>2 DEF Wires, Plugs, Plugged
<1>3. CASE Unwires(h)
  <2> SUFFICES ASSUME x.ctr \in Running(docker)
               PROVE  \E e \in docker'.ends : e.ctr = x.ctr /\ e.net = x.net
    BY <1>1 DEF Plugged
  <2>1. PICK e \in docker.ends : e.ctr = x.ctr /\ e.net = x.net
    BY DEF Plugged
  <2>2. e.net \in Nat /\ \E n \in docker.nets : n.id = e.net
    BY DEF DevType, DockerOK, DockerType, Endpoint, Networks
  <2>3. NoLab(req[h].lnk.net)
    BY <1>3 DEF Unwires, LinkKinds, LinksNamed
  <2>4. x.net # None
    BY <2>1, <2>2, DevicesAssumption DEF DevicesAssumption
  <2>5. e.net # req[h].lnk.net
    BY <2>1, <2>2, <2>3, <2>4 DEF IsLab, NoLab
  <2>6. QED BY <1>3, <2>1, <2>5 DEF Unwires, Unplugs
<1>4. QED BY <1>2, <1>3 DEF Relinks

LEMMA RelinksKeepPlugs ==
  ASSUME DevType, DevType', NetInv, LinksNamed, IdInv, PlugInv, LabsRead, NEW h \in Handlers,
         Relinks(h)
  PROVE  PlugInv'
<1>1. /\ docker'.ctrs = docker.ctrs /\ docker'.next >= docker.next
      /\ UNCHANGED <<networks, devices>> /\ docker.next \in Nat /\ docker'.next \in Nat
      /\ \A g \in Handlers :
           \/ req'[g] = req[g]
           \/ req'[g].kind \in LinkKinds \cup {"idle"} /\ req'[g].made = {}
  BY RelinksKeep DEF DevType, DockerOK, DockerType
<1>2. \A n \in Networks(docker') : n \in Networks(docker) \/ n = docker.next
  BY DEF Relinks, Wires, Unwires, Plugs, Unplugs, Networks
<1>3. \A r \in devices : Plugged(r, docker')
  BY RowsAreLabs, LabEndsStay DEF PlugInv, RowsPlugged, NetsKept
<1>4. ASSUME NEW g \in Handlers, NEW m \in req[g].made PROVE Plugged(m, docker')
  <2>1. Plugged(m, docker)
    BY DEF PlugInv, RowsPlugged
  <2>2. IsLab(m.net)
    <3>1. HandOK(req[g]) /\ req[g].made # {}
      BY DEF DevType, HandsOK
    <3>2. CASE req[g].kind = "create"
      BY <3>2, RowsAreLabs DEF PlugInv, NetsKept
    <3>3. CASE req[g].kind \in Operations
      <4>1. req[g].kind \in Runs /\ m.net = req[g].row.net
        BY <3>1, <3>3 DEF IdInv, StartsOwn, HasRow
      <4>2. QED BY <3>3, <4>1 DEF LabsRead, IsLab, HasRow
    <3>4. QED BY <3>1, <3>2, <3>3 DEF HandOK
  <2>3. QED BY <2>1, <2>2, LabEndsStay
<1>5. RowsPlugged'
  BY <1>1, <1>3, <1>4 DEF RowsPlugged
<1>6. NetsKept'
  BY <1>1 DEF PlugInv, NetsKept, HasNetwork, LinkKinds
<1>7. NetsRead'
  <2>1. ASSUME NEW g \in Handlers, HasRow(g)' PROVE HasRow(g) /\ req'[g].row = req[g].row
    BY <1>1, <2>1 DEF HasRow, LinkKinds, Operations, Runs
  <2>2. ASSUME NEW g \in Handlers, HasRow(g)', NEW r \in RowsOf(req[g].row.id)
        PROVE  r.net = req[g].row.net \/ req[g].row.net \notin Networks(docker')
    <3>1. HasRow(g) /\ (req[g].row.net = None \/ req[g].row.net < docker.next)
      BY <2>1, <2>2 DEF PlugInv, NetsRead
    <3>2. r.net = req[g].row.net \/ req[g].row.net \notin Networks(docker)
      BY <2>2, <3>1 DEF PlugInv, NetsRead
    <3>3. req[g].row.net # docker.next
      BY <1>1, <3>1, DevicesAssumption DEF DevicesAssumption
    <3>4. QED BY <1>2, <3>2, <3>3
  <2>3. ASSUME NEW g \in Handlers, HasRow(g)'
        PROVE  req[g].row.net = None \/ req[g].row.net < docker'.next
    <3>1. HasRow(g) /\ (req[g].row.net = None \/ req[g].row.net < docker.next)
      BY <2>1, <2>3 DEF PlugInv, NetsRead
    <3>2. req[g].row \in DeviceRow
      BY <3>1, HandRows
    <3>3. req[g].row.net \in Nat \cup {None}
      BY <3>2, RowFields
    <3>4. QED BY <1>1, <3>1, <3>3
  <2>4. \A g \in Handlers : RowsOf(req[g].row.id)' = RowsOf(req'[g].row.id)
    BY <1>1 DEF RowsOf
  <2>5. QED BY <1>1, <2>1, <2>2, <2>3, <2>4 DEF NetsRead, RowsOf
<1>8. QED BY <1>5, <1>6, <1>7 DEF PlugInv

TopoPlugs == TopoIds /\ PlugInv /\ LabsRead

LEMMA TopoPlugsAlways == TopoSpec => []TopoPlugs
<1>1. TopoInit => PlugInv /\ LabsRead
  BY PlugsInitially, IdleOK DEF TopoInit, Init, LabsRead, HasRow, Operations, Runs
<1>2. TopoIds /\ TopoIds' /\ PlugInv /\ LabsRead /\ [TopoNext]_topoVars => PlugInv' /\ LabsRead'
  <2>1. ASSUME TopoIds, TopoIds', PlugInv, LabsRead, NEW h \in Handlers,
               LinkRequest(h) \/ LinkStep(h) \/ OtherStep(h)
        PROVE  PlugInv' /\ LabsRead'
    <3>1. /\ DevType /\ DevType' /\ StartsMake /\ TopoType /\ IdInv /\ NetInv /\ LinksNamed
          /\ NetsRead /\ NetsKept
      BY <2>1 DEF TopoIds, TopoBase, TopoType, TopoNets, PlugInv
    <3>2. Effect(h) \/ Relinks(h)
      BY <2>1, <3>1, TopoEffects, TopoEffectKinds DEF TopoType
    <3>3. LabsRead'
      BY <2>1, <3>1, LabsReadOn
    <3>4. PlugInv'
      BY <2>1, <3>1, <3>2, NetsAreGone, PlugsKept, RelinksKeepPlugs
    <3>5. QED BY <3>3, <3>4
  <2>2. ASSUME PlugInv, LabsRead, UNCHANGED topoVars PROVE PlugInv' /\ LabsRead'
    BY <2>2, TopoStays DEF PlugInv, RowsPlugged, NetsKept, HasNetwork, NetsRead, LabsRead,
       HasRow, RowsOf
  <2>3. QED BY <2>1, <2>2 DEF TopoNext
<1>3. QED BY <1>1, <1>2, TopoIdsAlways, PTL DEF TopoSpec, TopoPlugs

LEMMA RelinksKeepLife ==
  ASSUME DevType, DevType', IdInv, LifeInv, NEW h \in Handlers, Relinks(h) PROVE LifeInv'
<1>1. /\ docker'.ctrs = docker.ctrs /\ UNCHANGED <<devices, failed, raced>>
      /\ \A g \in Handlers :
           \/ req'[g] = req[g]
           \/ /\ req'[g].kind \in LinkKinds \cup {"idle"} /\ req'[g].made = {}
              /\ req[g].kind \in LinkKinds /\ req[g].made = {}
  BY RelinksKeep
<1>2. HandsStay
  BY <1>1 DEF HandsStay, LinkKinds, Operations, Runs
<1>3. RowsSame
  BY <1>1 DEF RowsSame
<1>4. QED BY <1>1, <1>2, <1>3, LifeHeld

LEMMA RelinksKeepComm ==
  ASSUME DevType, DevType', IdInv, CommInv, NEW h \in Handlers, Relinks(h) PROVE CommInv'
<1>1. /\ docker'.ctrs = docker.ctrs /\ docker'.next >= docker.next
      /\ UNCHANGED <<devices, lastId, patched>>
      /\ \A g \in Handlers :
           \/ req'[g] = req[g]
           \/ req'[g].kind \in LinkKinds \cup {"idle"} /\ req'[g].made = {}
  BY RelinksKeep
<1>2. CtrsCome
  BY <1>1, HandRows DEF CtrsCome
<1>3. \A g \in Handlers : ReadsOn(g)
  BY <1>1 DEF ReadsOn, LinkKinds, Runs
<1>4. RowsServeOn
  BY <1>1 DEF RowsServeOn
<1>5. QED BY <1>2, <1>3, <1>4, CommHeld

TopoLife == TopoPlugs /\ LifeInv /\ CommInv

LEMMA TopoLifeAlways == TopoSpec => []TopoLife
<1>1. TopoInit => LifeInv /\ CommInv
  BY LifeInitially, CommInitially DEF TopoInit
<1>2. TopoIds /\ TopoIds' /\ LifeInv /\ CommInv /\ [TopoNext]_topoVars => LifeInv' /\ CommInv'
  <2>1. ASSUME TopoIds, TopoIds', LifeInv, CommInv, NEW h \in Handlers,
               LinkRequest(h) \/ LinkStep(h) \/ OtherStep(h)
        PROVE  LifeInv' /\ CommInv'
    <3>1. DevType /\ DevType' /\ StartsMake /\ IdInv /\ LinksFinite
      BY <2>1 DEF TopoIds, TopoBase, TopoType
    <3>2. Effect(h) \/ Relinks(h)
      BY <2>1, <3>1, TopoEffects, TopoEffectKinds
    <3>3. QED BY <2>1, <3>1, <3>2, LifeKept, CommKept, RelinksKeepLife, RelinksKeepComm
  <2>2. ASSUME LifeInv, UNCHANGED topoVars PROVE LifeInv'
    BY <2>2, TopoStays DEF LifeInv, StartsRun, CreatesRun, StopsSee, DeletesSee, RowsBacked,
       OrphansExplained, Settles, HasRow, Owned, InHand, Running, Containers
  <2>3. ASSUME CommInv, UNCHANGED topoVars PROVE CommInv'
    BY <2>3, TopoStays DEF CommInv, StartsRead, MadeServed, RowsServed
  <2>4. QED BY <2>1, <2>2, <2>3 DEF TopoNext
<1>3. TopoPlugs => TopoIds
  BY DEF TopoPlugs
<1>4. QED BY <1>1, <1>2, <1>3, TopoPlugsAlways, PTL DEF TopoSpec, TopoLife

\* All that the theorems about devices say holds with links: links and devices
\* share the daemon and its networks, and neither breaks what the other keeps.
THEOREM DevicesWithLinks ==
  TopoSpec => [](/\ TypeOK /\ NetworksExplained /\ RunningHasNetwork
                 /\ OrphansExplained /\ RunningBacked /\ CommunityServed)
<1>1. TopoLife => /\ TypeOK /\ NetworksExplained /\ RunningHasNetwork
                  /\ OrphansExplained /\ RunningBacked /\ CommunityServed
  BY TypeFollows, NetworksFollow, RunningFollows, OrphansFollow, BackedFollows, ServedFollows
     DEF TopoLife, TopoPlugs, TopoIds, TopoBase, TopoType, TopoNets
<1>2. QED BY <1>1, TopoLifeAlways, PTL

-----------------------------------------------------------------------------
(* A link's network.  It goes with a teardown of that link, or of another   *)
(* link that was given the same network; the rows and hands that have one   *)
(* network in common are on record.                                         *)

Carries(h) == req[h].kind = "link" /\ req[h].pc \in {"insert", "commit"}

\* The network is removed, the row not yet.
Forgets(h, l) == req[h].kind = "unlink" /\ req[h].pc = "commit" /\ req[h].lnk.id = l.id

\* A teardown that will remove a network has a row to remove with it.
UnlinksRowed ==
  \A h \in Handlers : req[h].kind = "unlink" =>
    \/ \E l \in links : l.id = req[h].lnk.id
    \/ req[h].lnk.net \notin Networks(docker)

SharedSeen ==
  /\ \A l, m \in links : l.net = m.net /\ l.id # m.id => l.net \in shared
  /\ \A l \in links, h \in Handlers : Carries(h) /\ req[h].lnk.net = l.net => l.net \in shared
  /\ \A g, h \in Handlers :
       g # h /\ Carries(g) /\ Carries(h) /\ req[g].lnk.net = req[h].lnk.net
         => req[h].lnk.net \in shared

NetsHeld ==
  /\ \A l \in links :
       \/ l.net \in Networks(docker) \cup shared \/ l.id \in halved
       \/ \E h \in Handlers : Forgets(h, l)
  /\ \A h \in Handlers : Carries(h) => req[h].lnk.net \in Networks(docker) \cup shared

HeldInv == UnlinksRowed /\ SharedSeen /\ NetsHeld

Step(h) == LinkRequest(h) \/ LinkStep(h) \/ OtherStep(h)

\* What is on record stays, and a row leaves only with a teardown's commit.
LEMMA RecordsStay ==
  ASSUME DevType, NEW h \in Handlers, Step(h)
  PROVE  /\ shared \subseteq shared' /\ halved \subseteq halved'
         /\ unplugged \subseteq unplugged'
         /\ \A l \in links : l \in links' \/ (CommitUnlink(h) /\ l.id = req[h].lnk.id)
<1>1. CASE OtherStep(h)
  BY <1>1, OthersDo DEF OtherStep, OtherDoes
<1>2. CASE LinkRequest(h)
  BY <1>2 DEF LinkRequest, CreateLink, DeleteLink, rows, histVars
<1>3. CASE CountLinks(h) \/ CommitLink(h) \/ CommitUnlink(h)
  BY <1>3 DEF CountLinks, CommitLink, CommitUnlink, rows, histVars
<1>4. CASE WireLink(h) \/ InsertLink(h) \/ UnwireLink(h) \/ AbortLink(h)
  BY <1>4 DEF WireLink, InsertLink, UnwireLink, Unplug, AbortLink, Abort, rows
<1>5. QED BY <1>1, <1>2, <1>3, <1>4 DEF LinkStep, Step

\* A link in a creation's hands was there, or has just been wired.
LEMMA CarriesOn ==
  ASSUME DevType, NEW h \in Handlers, Step(h), NEW g \in Handlers, Carries(g)'
  PROVE  \/ Carries(g) /\ req'[g].lnk = req[g].lnk
         \/ /\ g = h /\ Provides(h, req'[h]) /\ req'[g].lnk.net = Wiring(h).net
            /\ Wiring(h).net \in Networks(docker')
<1>1. CASE OtherStep(h)
  BY <1>1, OthersDo DEF OtherDoes, Carries, LinkKinds
<1>2. CASE ~OtherStep(h)
  <2>1. PICK r : Turns(h, r) /\ LinkTurn(h, r)
    BY <1>2, LinkTurns DEF Step
  <2>2. CASE g # h
    BY <2>1, <2>2 DEF Turns, Carries
  <2>3. CASE g = h /\ ~Provides(h, r)
    <3>1. r.kind = "link" /\ r.pc \in {"insert", "commit"} /\ req'[g] = r
      BY <2>1, <2>3 DEF Turns, Carries
    <3>2. Proceeds(h, r)
      BY <2>1, <2>3, <3>1, IdleOK DEF LinkTurn, Begins, Forgoes
    <3>3. QED BY <2>3, <3>1, <3>2 DEF Proceeds, Carries
  <2>4. CASE g = h /\ Provides(h, r)
    <3>1. req[h].lnk \in LinkRow
      BY <2>4, LinkHand DEF Provides, LinkKinds
    <3>2. r.lnk.net = Wiring(h).net
      BY <2>4, <3>1 DEF Provides, LinkRow
    <3>3. Wiring(h).net \in Networks(docker')
      BY <2>4, WiringDoes DEF Provides, Networks
    <3>4. QED BY <2>1, <2>4, <3>2, <3>3 DEF Turns
  <2>5. QED BY <2>2, <2>3, <2>4
<1>3. QED BY <1>1, <1>2

LEMMA UnlinksOn ==
  ASSUME DevType, NEW h \in Handlers, Step(h), NEW g \in Handlers, req'[g].kind = "unlink"
  PROVE  \/ req[g].kind = "unlink" /\ req'[g].lnk = req[g].lnk
         \/ req'[g].lnk \in links
<1>1. CASE OtherStep(h)
  BY <1>1, OthersDo DEF OtherDoes, LinkKinds
<1>2. CASE ~OtherStep(h)
  <2>1. PICK r : Turns(h, r) /\ LinkTurn(h, r)
    BY <1>2, LinkTurns DEF Step
  <2>2. CASE g # h
    BY <2>1, <2>2 DEF Turns
  <2>3. CASE g = h
    <3>1. r.kind = "unlink" /\ req'[g] = r
      BY <2>1, <2>3 DEF Turns
    <3>2. Forgoes(h, r) \/ Proceeds(h, r)
      BY <2>1, <3>1, IdleOK DEF LinkTurn, Begins, Provides
    <3>3. QED BY <2>3, <3>1, <3>2 DEF Forgoes, Proceeds
  <2>4. QED BY <2>2, <2>3
<1>3. QED BY <1>1, <1>2

\* A teardown ends with the row gone, or on record.
LEMMA ForgetsOn ==
  ASSUME DevType, NEW h \in Handlers, Step(h), NEW g \in Handlers, NEW l, Forgets(g, l)
  PROVE  Forgets(g, l)' \/ l.id \in halved' \/ l \notin links'
<1>1. CASE OtherStep(h)
  BY <1>1, OthersDo DEF OtherDoes, Forgets, LinkKinds
<1>2. CASE ~OtherStep(h)
  <2>1. PICK r : Turns(h, r) /\ LinkTurn(h, r)
    BY <1>2, LinkTurns DEF Step
  <2>2. CASE g # h
    BY <2>1, <2>2 DEF Turns, Forgets
  <2>3. CASE g = h
    <3>1. req[h].kind = "unlink" /\ req[h].pc = "commit"
      BY <2>3 DEF Forgets
    <3>2. CommitUnlink(h) \/ AbortLink(h)
      BY <1>2, <2>3, <3>1, IdleOK
         DEF Step, LinkRequest, LinkStep, CreateLink, DeleteLink, Arrives, CountLinks, WireLink,
             InsertLink, CommitLink, UnwireLink, Is
    <3>3. QED BY <2>3, <3>1, <3>2 DEF CommitUnlink, AbortLink, Forgets, Is
  <2>4. QED BY <2>2, <2>3
<1>3. QED BY <1>1, <1>2

\* Other requests remove no network but a lab's, links none but a link's.
LEMMA OthersLose ==
  ASSUME DevType, NetInv, NEW h \in Handlers, OtherStep(h)
  PROVE  \A n \in docker.nets : n \in docker'.nets \/ n.name \in Labs
<1>1. Ready
  BY DEF DevType, DockerOK, DockerType, HandsOK, HandOK, Ready, DockerShape
<1>2. CASE \/ InsertDevice(h) \/ RunContainer(h) \/ CommitCreate(h)
           \/ StopContainer(h) \/ StartContainer(h) \/ CommitOperate(h) \/ CommitDelete(h)
  BY <1>1, <1>2, ContainerSteps DEF Keeps
<1>3. CASE CommitPatch(h)
  BY <1>1, <1>3, PatchEffect
<1>4. CASE \/ \E n \in networks, ips \in IpLists : CreateDevices(h, n, ips)
           \/ \E kind \in Operations, r \in devices : Operate(h, kind, r)
           \/ \E r \in devices, c \in Communities : Patch(h, r, c)
  BY <1>1, <1>4, OtherRequests DEF Keeps
<1>5. CASE \/ \E n \in networks : DeleteNetwork(h, n)
           \/ CommitNetwork(h) \/ CheckNetwork(h) \/ LoadMembers(h)
           \/ CommitDropNetwork(h) \/ Abort(h)
  BY <1>5 DEF DeleteNetwork, CommitNetwork, CheckNetwork, LoadMembers, CommitDropNetwork, Abort
<1>6. ASSUME NEW name \in Labs, CreateNetwork(h, name, LabBase[name])
      PROVE  docker.nets \subseteq docker'.nets
  <2> DEFINE o == create_docker_network(docker, name, LabBase[name])
             more == AddNetwork(docker, name, LabBase[name])
             net == [id |-> docker.next, name |-> name, base |-> LabBase[name]]
  <2>1. docker' = o.d
    BY <1>6 DEF CreateNetwork
  <2>2. o.d = docker \/ o.d = more
    BY DEF create_docker_network, Out
  <2>3. more.nets = docker.nets \cup {net}
    <3>1. more = [docker EXCEPT !.nets = docker.nets \cup {net}, !.next = docker.next + 1]
      BY DEF AddNetwork
    <3>2. DockerOK(docker)
      BY DEF DevType
    <3> HIDE DEF more, net
    <3>3. more = [ctrs |-> docker.ctrs, nets |-> docker.nets \cup {net},
                  ends |-> docker.ends, next |-> docker.next + 1]
      BY <3>1, <3>2, DockerParts
    <3>4. QED BY <3>3
  <2> HIDE DEF o, more
  <2>4. QED BY <2>1, <2>2, <2>3
<1>7. CASE RemoveNetwork(h)
  <2> DEFINE lab == req[h].lab
  <2>1. /\ req[h].kind = "dropnet"
        /\ docker' = remove_docker_network(docker, lab.net).d
    BY <1>7 DEF RemoveNetwork, Is
  <2>2. lab \in NetworkRow /\ KnownAs(lab.net, lab.name)
    BY <2>1, LabIds DEF KnownAs, NetKinds
  <2>3. \A n \in docker.nets : n \in docker'.nets \/ n.id = lab.net
    BY <2>1, RemoveNetworkDoes DEF DevType
  <2>4. \A n \in docker.nets : n.id = lab.net => n.name = lab.name
    BY <2>2 DEF NetInv, IdsKnown, KnownAs
  <2>5. QED BY <2>2, <2>3, <2>4 DEF NetworkRow
<1>8. QED BY <1>2, <1>3, <1>4, <1>5, <1>6, <1>7 DEF OtherStep, DeviceStep, DeviceRequest

LEMMA NetsLose ==
  ASSUME DevType, NetInv, NEW h \in Handlers, Step(h), NEW net \in Networks(docker), NoLab(net)
  PROVE  net \in Networks(docker') \/ (UnwireLink(h) /\ net = req[h].lnk.net)
<1>1. PICK n \in docker.nets : n.id = net
  BY DEF Networks
<1>2. CASE OtherStep(h)
  BY <1>1, <1>2, OthersLose DEF NoLab, Networks
<1>3. CASE WireLink(h)
  BY <1>1, <1>3, WireLinkEffect DEF Wires, Plugs, Networks
<1>4. CASE UnwireLink(h)
  BY <1>1, <1>4, UnwireLinkEffect DEF Unwires, Unplugs, Networks
<1>5. CASE ~OtherStep(h) /\ ~WireLink(h) /\ ~UnwireLink(h)
  BY <1>5, LinksLeave DEF Step
<1>6. QED BY <1>2, <1>3, <1>4, <1>5

\* What a teardown removes is nobody else's, or has been given twice.
LEMMA TeardownsShare ==
  ASSUME StrayInv, HeldInv, NEW h \in Handlers, req[h].kind = "unlink",
         req[h].lnk.net \in Networks(docker)
  PROVE  /\ \A l \in links : l.net = req[h].lnk.net => l.id = req[h].lnk.id \/ l.net \in shared
         /\ \A g \in Handlers : Carries(g) /\ req[g].lnk.net = req[h].lnk.net
                                  => req[g].lnk.net \in shared
<1>1. PICK m \in links : m.id = req[h].lnk.id
  BY DEF HeldInv, UnlinksRowed
<1>2. m.net = req[h].lnk.net
  BY <1>1 DEF StrayInv, InHandOK, SameNet
<1>3. QED BY <1>1, <1>2 DEF HeldInv, SharedSeen

LEMMA UnlinksRowedOn ==
  ASSUME DevType, StrayInv, HeldInv, NEW h \in Handlers, Step(h) PROVE UnlinksRowed'
<1> SUFFICES ASSUME NEW g \in Handlers, req'[g].kind = "unlink"
             PROVE  \/ \E l \in links' : l.id = req'[g].lnk.id
                    \/ req'[g].lnk.net \notin Networks(docker')
  BY DEF UnlinksRowed
<1>0. docker.next \in Nat
  BY DEF DevType, DockerOK, DockerType
<1>1. ASSUME NEW net, net < docker.next, net \in Networks(docker') PROVE net \in Networks(docker)
  BY <1>0, <1>1, NetsNext DEF Networks, Step
<1>2. req'[g].lnk.net < docker.next
  BY UnlinksOn DEF StrayInv, StrayShape, InHandOK, LinkKnown, LinkKinds
<1>3. \/ \E l \in links : l.id = req'[g].lnk.id /\ l.net = req'[g].lnk.net
      \/ req'[g].lnk.net \notin Networks(docker)
  <2>1. CASE req'[g].lnk \in links
    BY <2>1
  <2>2. CASE req[g].kind = "unlink" /\ req'[g].lnk = req[g].lnk
    BY <2>2 DEF HeldInv, UnlinksRowed, StrayInv, InHandOK, SameNet
  <2>3. QED BY <2>1, <2>2, UnlinksOn
<1>4. ASSUME NEW l \in links, l.id = req'[g].lnk.id, l.net = req'[g].lnk.net, l \notin links'
      PROVE  req'[g].lnk.net \notin Networks(docker)
  <2>1. CommitUnlink(h) /\ l.id = req[h].lnk.id
    BY <1>4, RecordsStay
  <2>2. req[h].kind = "unlink" /\ req[h].pc = "commit"
    BY <2>1 DEF CommitUnlink, Is
  <2>3. l.net = req[h].lnk.net /\ req[h].lnk.net \notin Networks(docker)
    BY <2>1, <2>2 DEF StrayInv, InHandOK, SameNet
  <2>4. QED BY <1>4, <2>3
<1>5. QED BY <1>1, <1>2, <1>3, <1>4

LEMMA SharedSeenOn ==
  ASSUME DevType, StrayInv, HeldInv, NEW h \in Handlers, Step(h) PROVE SharedSeen'
<1>1. shared \subseteq shared' /\ SharedSeen
  BY RecordsStay DEF HeldInv
<1>2. CommitLink(h) => Carries(h) /\ Ends(h)
  BY DEF CommitLink, Is, Carries
<1>3. \A l \in links' : l \in links \/ (Carries(h) /\ Ends(h) /\ l = req[h].lnk)
  BY <1>2, LinksCome DEF Step
<1>4. Ends(h) => ~Carries(h)'
  BY IdleOK, EndsTurns DEF Carries, Turns, DevType
\* A network that is wired is on record if anybody has it.
<1>5. ASSUME NEW g \in Handlers, Carries(g)', ~(Carries(g) /\ req'[g].lnk = req[g].lnk)
      PROVE  /\ g = h /\ links' = links
             /\ HasNet(req'[g].lnk.net) => req'[g].lnk.net \in shared'
  <2>1. /\ g = h /\ Provides(h, req'[h]) /\ req'[g].lnk.net = Wiring(h).net
    BY <1>5, CarriesOn
  <2>2. links' = links
    BY <2>1 DEF Provides, WireLink, rows
  <2>3. QED BY <2>1, <2>2 DEF Provides
<1>6. ASSUME NEW l \in links', NEW m \in links', l.net = m.net, l.id # m.id PROVE l.net \in shared'
  BY <1>1, <1>3, <1>6 DEF SharedSeen
<1>7. ASSUME NEW l \in links', NEW g \in Handlers, Carries(g)', req'[g].lnk.net = l.net
      PROVE  l.net \in shared'
  <2>1. CASE Carries(g) /\ req'[g].lnk = req[g].lnk
    <3>1. CASE l \in links
      BY <1>1, <1>7, <2>1, <3>1 DEF SharedSeen
    <3>2. CASE Carries(h) /\ Ends(h) /\ l = req[h].lnk
      <4>1. g # h
        BY <1>4, <1>7, <3>2
      <4>2. QED BY <1>1, <1>7, <2>1, <3>2, <4>1 DEF SharedSeen
    <3>3. QED BY <1>3, <3>1, <3>2
  <2>2. CASE ~(Carries(g) /\ req'[g].lnk = req[g].lnk)
    <3>1. l \in links /\ (HasNet(req'[g].lnk.net) => req'[g].lnk.net \in shared')
      BY <1>5, <1>7, <2>2
    <3>2. QED BY <1>7, <3>1 DEF HasNet
  <2>3. QED BY <2>1, <2>2
<1>8. ASSUME NEW f \in Handlers, NEW g \in Handlers, f # g, Carries(f)', Carries(g)',
             req'[f].lnk.net = req'[g].lnk.net
      PROVE  req'[g].lnk.net \in shared'
  <2>1. ASSUME NEW e \in Handlers, NEW d \in Handlers, e # d, Carries(e)', Carries(d)',
               Carries(e) /\ req'[e].lnk = req[e].lnk, ~(Carries(d) /\ req'[d].lnk = req[d].lnk),
               req'[e].lnk.net = req'[d].lnk.net
        PROVE  req'[d].lnk.net \in shared'
    <3>1. HasNet(req'[d].lnk.net) => req'[d].lnk.net \in shared'
      BY <1>5, <2>1
    <3>2. QED BY <2>1, <3>1 DEF HasNet, Carries
  <2>2. CASE Carries(f) /\ req'[f].lnk = req[f].lnk /\ Carries(g) /\ req'[g].lnk = req[g].lnk
    BY <1>1, <1>8, <2>2 DEF SharedSeen
  <2>3. QED BY <1>5, <1>8, <2>1, <2>2
<1>9. QED BY <1>6, <1>7, <1>8 DEF SharedSeen

LEMMA NetsHeldOn ==
  ASSUME DevType, NetInv, StrayInv, LinksNamed, HeldInv, NEW h \in Handlers, Step(h)
  PROVE  NetsHeld'
<1>1. shared \subseteq shared' /\ halved \subseteq halved'
  BY RecordsStay
<1>2. CommitLink(h) => Carries(h)
  BY DEF CommitLink, Is, Carries
<1>3. \A l \in links' : l \in links \/ (Carries(h) /\ l = req[h].lnk /\ UNCHANGED docker)
  BY <1>2, LinksCome DEF Step, CommitLink
<1>4. \A g \in Handlers : Carries(g) => NoLab(req[g].lnk.net)
  BY DEF LinksNamed, Carries, LinkKinds
<1>5. ASSUME NEW l \in links' PROVE \/ l.net \in Networks(docker') \cup shared' \/ l.id \in halved'
                                    \/ \E g \in Handlers : Forgets(g, l)'
  <2>1. CASE Carries(h) /\ l = req[h].lnk /\ UNCHANGED docker
    BY <1>1, <2>1 DEF HeldInv, NetsHeld
  <2>2. CASE l \in links
    <3>1. CASE l.net \in shared \/ l.id \in halved
      BY <1>1, <3>1
    <3>2. ASSUME NEW g \in Handlers, Forgets(g, l)
          PROVE  l.id \in halved' \/ Forgets(g, l)'
      BY <1>5, <3>2, ForgetsOn
    <3>3. CASE l.net \in Networks(docker) /\ l.net \notin shared
      <4>1. l.net \in Networks(docker') \/ (UnwireLink(h) /\ l.net = req[h].lnk.net)
        BY <2>2, <3>3, NetsLose DEF LinksNamed
      <4>2. CASE UnwireLink(h) /\ l.net = req[h].lnk.net
        <5>1. req[h].kind = "unlink"
          BY <4>2 DEF UnwireLink, Is
        <5>2. l.id = req[h].lnk.id
          BY <2>2, <3>3, <4>2, <5>1, TeardownsShare
        <5>3. \/ req'[h] = [req[h] EXCEPT !.pc = "commit"]
              \/ docker'.nets = docker.nets
          BY <4>2, UnwireLinkEffect
        <5>4. CASE req'[h] = [req[h] EXCEPT !.pc = "commit"]
          <6>1. DOMAIN req[h] = DOMAIN Idle
            BY DEF DevType, HandsOK, HandOK
          <6>2. req'[h].kind = "unlink" /\ req'[h].pc = "commit" /\ req'[h].lnk = req[h].lnk
            BY <5>1, <5>4, <6>1 DEF Idle
          <6>3. QED BY <5>2, <6>2 DEF Forgets
        <5>5. QED BY <3>3, <5>3, <5>4 DEF Networks
      <4>3. QED BY <4>1, <4>2
    <3>4. QED BY <2>2, <3>1, <3>2, <3>3 DEF HeldInv, NetsHeld
  <2>3. QED BY <1>3, <2>1, <2>2
<1>6. ASSUME NEW g \in Handlers, Carries(g)'
      PROVE  req'[g].lnk.net \in Networks(docker') \cup shared'
  <2>1. CASE Carries(g) /\ req'[g].lnk = req[g].lnk
    <3>1. CASE req[g].lnk.net \in shared
      BY <1>1, <2>1, <3>1
    <3>2. CASE req[g].lnk.net \in Networks(docker) /\ req[g].lnk.net \notin shared
      <4>1. CASE UnwireLink(h) /\ req[g].lnk.net = req[h].lnk.net
        <5>1. req[h].kind = "unlink"
          BY <4>1 DEF UnwireLink, Is
        <5>2. QED BY <2>1, <3>2, <4>1, <5>1, TeardownsShare
      <4>2. QED BY <1>4, <2>1, <3>2, <4>1, NetsLose
    <3>3. QED BY <2>1, <3>1, <3>2 DEF HeldInv, NetsHeld
  <2>2. QED BY <1>6, <2>1, CarriesOn
<1>7. QED BY <1>5, <1>6 DEF NetsHeld

TopoHeld == TopoLife /\ HeldInv

LEMMA TopoHeldAlways == TopoSpec => []TopoHeld
<1>1. TopoInit => HeldInv
  BY IdleOK DEF TopoInit, Init, HeldInv, UnlinksRowed, SharedSeen, NetsHeld, Carries
<1>2. TopoLife /\ HeldInv /\ [TopoNext]_topoVars => HeldInv'
  <2>1. ASSUME TopoLife, HeldInv, NEW h \in Handlers, Step(h) PROVE HeldInv'
    <3>1. DevType /\ NetInv /\ StrayInv /\ LinksNamed
      BY <2>1 DEF TopoLife, TopoPlugs, TopoIds, TopoBase, TopoType, TopoNets
    <3>2. QED BY <2>1, <3>1, UnlinksRowedOn, SharedSeenOn, NetsHeldOn DEF HeldInv
  <2>2. ASSUME HeldInv, UNCHANGED topoVars PROVE HeldInv'
    BY <2>2, TopoStays DEF HeldInv, UnlinksRowed, SharedSeen, NetsHeld, Carries, Forgets
  <2>3. QED BY <2>1, <2>2 DEF TopoNext, Step
<1>3. QED BY <1>1, <1>2, TopoLifeAlways, PTL DEF TopoSpec, TopoHeld

\* A committed link has its network, however teardowns, provisionings and
\* requests about devices and networks meet: unless it is being torn down, a
\* teardown of it failed half way, or the network was given to another link.
THEOREM LinksAlwaysHaveNetwork == TopoSpec => []LinkHasNetwork
<1>1. HeldInv => LinkHasNetwork
  BY DEF HeldInv, NetsHeld, Forgets, Unlinking, LinkHasNetwork
<1>2. QED BY <1>1, TopoHeldAlways, PTL DEF TopoHeld

-----------------------------------------------------------------------------
(* A link's containers.  They leave its network with a teardown, as in the  *)
(* section above, or with their device's container; and a row names another *)
(* container only after a start, which has removed the one it read.         *)

\* The container is there, or one of the device's was removed.
Kept(x) == x.ctr \in Containers(docker) \/ x.id \in rewired

Attached(x, net) == x.id \in rewired \/ \E e \in docker.ends : e.ctr = x.ctr /\ e.net = net

\* A create request's row has no container until it is run.
RowsKept ==
  /\ \A r \in devices : Kept(r)
  /\ \A h \in Handlers : HasRow(h) => Kept(req[h].row)
  /\ \A h \in Handlers : req[h].kind = "create" =>
       \A m \in req[h].made : Kept(m) \/ (req[h].pc = "run" /\ m = req[h].row)

StartsRewire ==
  \A h \in Handlers : req[h].kind \in Runs /\ req[h].pc = "commit" => req[h].row.id \in rewired

\* An end of a link as its request has read it, and its row now.
EndKnown(x) ==
  /\ RowKnown(x, docker, lastId) /\ Kept(x)
  /\ \A r \in RowsOf(x.id) : r.ctr = x.ctr \/ x.id \in rewired
  /\ \A g \in Handlers : req[g].kind = "create" => \A m \in req[g].made : m.id # x.id

EndsRead ==
  \A h \in Handlers : req[h].kind \in LinkKinds =>
    /\ req[h].kind = "link" => req[h].lnk.src = req[h].row.id /\ req[h].lnk.dst = req[h].peer.id
    /\ EndKnown(req[h].row) /\ EndKnown(req[h].peer)

EndsWired ==
  /\ \A h \in Handlers : Carries(h) =>
       \/ req[h].lnk.net \in shared
       \/ \A x \in {req[h].row, req[h].peer} : Attached(x, req[h].lnk.net)
  /\ \A l \in links :
       \/ l.net \in shared \/ l.id \in halved \cup unplugged
       \/ \E h \in Handlers : Forgets(h, l)
       \/ \A r \in devices : r.id \in {l.src, l.dst} => Attached(r, l.net)

WiredInv == RowsKept /\ StartsRewire /\ EndsRead /\ EndsWired

\* What the requests about devices do to containers.
LEMMA EffectPlugs ==
  ASSUME DevType, NEW h \in Handlers, Effect(h)
  PROVE  PlugsStay /\ lastId \in Nat /\ lastId' >= lastId
<1>1. docker.next \in Nat /\ lastId \in Nat /\ docker.next >= docker.next /\ lastId >= lastId
  BY DEF DevType, DockerOK, DockerType
<1>2. docker' = docker => PlugsStay
  BY <1>1, SamePlugs
<1>3. CASE Quiet(h)
  BY <1>1, <1>3, SamePlugs DEF Quiet
<1>4. CASE Detaches(h) \/ Creates(h) \/ Updates(h) \/ Patches(h) \/ Deletes(h)
  BY <1>1, <1>2, <1>4 DEF Detaches, Creates, Updates, Patches, Deletes
<1>5. CASE Fails(h)
  <2>1. PlugsStay
    BY <1>2, <1>5, HandledPlugs DEF Fails
  <2>2. QED BY <1>1, <1>5, <2>1 DEF Fails
<1>6. CASE Inserts(h)
  BY <1>1, <1>2, <1>6 DEF Inserts
<1>7. CASE RunsUp(h)
  BY <1>1, <1>7, HandledPlugs DEF RunsUp
<1>8. CASE Stops(h)
  BY <1>1, <1>8, HandledPlugs DEF Stops
<1>9. CASE Starts(h)
  BY <1>1, <1>9, HandledPlugs DEF Starts
<1>10. CASE \E kind \in Operations, r \in devices : Takes(h, kind, r)
  BY <1>1, <1>2, <1>10 DEF Takes
<1>11. QED BY <1>3, <1>4, <1>5, <1>6, <1>7, <1>8, <1>9, <1>10 DEF Effect

\* A row names another container only when a start commits.
LEMMA RowsChange ==
  ASSUME DevType, StartsMake, IdInv, NEW h \in Handlers, Effect(h) \/ Relinks(h)
  PROVE  \A r \in devices' :
           \/ \E s \in devices : r.id = s.id /\ r.ctr = s.ctr
           \/ req[h].kind \in Runs /\ req[h].pc = "commit" /\ r.id = req[h].row.id
           \/ req[h].kind = "create" /\ req[h].pc = "commit" /\ r \in req[h].made
<1>1. ASSUME devices' \subseteq devices
      PROVE  \A r \in devices' : \E s \in devices : r.id = s.id /\ r.ctr = s.ctr
  BY <1>1
<1>2. CASE \/ Quiet(h) \/ Fails(h) \/ Inserts(h) \/ RunsUp(h) \/ Stops(h) \/ Starts(h) \/ Deletes(h)
           \/ \E kind \in Operations, r \in devices : Takes(h, kind, r)
  <2>1. devices' \subseteq devices
    BY <1>2 DEF Quiet, Fails, Inserts, RunsUp, Stops, Starts, Deletes, Takes
  <2>2. QED BY <1>1, <2>1
<1>3. CASE Relinks(h)
  BY <1>3, RelinksKeep
<1>4. CASE Creates(h)
  BY <1>4 DEF Creates
<1>5. CASE Detaches(h)
  <2> DEFINE f(r) == IF r.net = req[h].lab.net THEN [r EXCEPT !.net = None] ELSE r
  <2>1. \A r \in devices : f(r).id = r.id /\ f(r).ctr = r.ctr
    BY DEF DevType, DeviceRow
  <2>2. devices' = {f(r) : r \in devices}
    BY <1>5 DEF Detaches
  <2> HIDE DEF f
  <2>3. QED BY <2>1, <2>2
<1>6. CASE Patches(h)
  <2> DEFINE f(r) == IF PatchesRow(h, r) THEN [r EXCEPT !.comm = req[h].comm] ELSE r
  <2>1. \A r \in devices : f(r).id = r.id /\ f(r).ctr = r.ctr
    BY DEF DevType, DeviceRow
  <2>2. devices' = {f(r) : r \in devices}
    BY <1>6 DEF Patches
  <2> HIDE DEF f
  <2>3. QED BY <2>1, <2>2
<1>7. CASE Updates(h)
  <2>1. PICK r, u :
          /\ r \in devices /\ r.id = req[h].row.id
          /\ devices' = (devices \ {r}) \cup {u} /\ u.id = r.id
          /\ req[h].kind = "stop" => u.ctr = r.ctr
    BY <1>7, RowUpdated
  <2>2. req[h].kind \in Runs \cup {"stop"} /\ req[h].pc = "commit"
    BY <1>7 DEF Updates
  <2>3. QED BY <2>1, <2>2
<1>8. QED BY <1>2, <1>3, <1>4, <1>5, <1>6, <1>7 DEF Effect

\* What the hands of starts and creates hold was there, or has just come.
LEMMA HandsChange ==
  ASSUME DevType, NEW h \in Handlers, Effect(h) \/ Relinks(h), NEW g \in Handlers
  PROVE  /\ req'[g].kind \in Runs /\ req'[g].pc = "commit" =>
              \/ req[g].kind \in Runs /\ req[g].pc = "commit" /\ req'[g].row = req[g].row
              \/ g = h /\ Starts(h) /\ req'[g].row = req[g].row
         /\ req'[g].kind = "create" => \A m \in req'[g].made :
              \/ req[g].kind = "create" /\ m \in req[g].made /\
                   ((req[g].pc = "run" /\ m = req[g].row) =>
                      req'[g].pc = req[g].pc /\ req'[g].row = req[g].row)
              \/ m.id = lastId + 1 /\ req'[g].pc = "run" /\ req'[g].row = m
              \/ /\ g = h /\ RunsUp(h) /\ req[g].kind = "create"
                 /\ m = Launched(req[h].row, docker.next)
<1> DEFINE P(f) ==
      /\ req'[f].kind \in Runs /\ req'[f].pc = "commit" =>
              \/ req[f].kind \in Runs /\ req[f].pc = "commit" /\ req'[f].row = req[f].row
              \/ f = h /\ Starts(h) /\ req'[f].row = req[f].row
      /\ req'[f].kind = "create" => \A m \in req'[f].made :
              \/ req[f].kind = "create" /\ m \in req[f].made /\
                   ((req[f].pc = "run" /\ m = req[f].row) =>
                      req'[f].pc = req[f].pc /\ req'[f].row = req[f].row)
              \/ m.id = lastId + 1 /\ req'[f].pc = "run" /\ req'[f].row = m
              \/ /\ f = h /\ RunsUp(h) /\ req[f].kind = "create"
                 /\ m = Launched(req[h].row, docker.next)
<1>1. req'[g] = req[g] => P(g)
  OBVIOUS
<1>2. ASSUME NEW r, Turns(h, r), r.kind \notin Runs, r.made = {} \/ r.kind # "create" PROVE P(g)
  <2>1. CASE g # h
    BY <1>1, <1>2, <2>1 DEF Turns
  <2>2. CASE g = h
    BY <1>2, <2>2 DEF Turns
  <2>3. QED BY <2>1, <2>2
<1>3. CASE Quiet(h)
  BY <1>2, <1>3 DEF Quiet, Operations
<1>4. CASE Detaches(h) \/ Fails(h) \/ Creates(h) \/ Updates(h) \/ Deletes(h)
  <2>1. Turns(h, Idle) /\ Idle.kind \notin Runs /\ Idle.made = {}
    BY <1>4, IdleOK DEF Detaches, Fails, Creates, Updates, Deletes, Runs
  <2>2. PICK r : Turns(h, r) /\ r.kind \notin Runs /\ r.made = {}
    BY <2>1
  <2>3. QED BY <1>2, <2>2
<1>5. CASE Relinks(h)
  <2>1. \/ req'[g] = req[g]
        \/ req'[g].kind \in LinkKinds \cup {"idle"} /\ req'[g].made = {}
    BY <1>5, RelinksKeep
  <2>2. QED BY <1>1, <2>1 DEF LinkKinds, Runs
<1>6. CASE Inserts(h)
  <2>1. PICK r, new :
          /\ Turns(h, r) /\ r.kind = "create" /\ r.pc = "run" /\ r.row = new
          /\ r.made = req[h].made \cup {new} /\ new.id = lastId + 1
    BY <1>6 DEF Inserts
  <2>2. req[h].kind = "create" /\ req[h].pc = "insert"
    BY <1>6 DEF Inserts
  <2>3. CASE g # h
    BY <1>1, <2>1, <2>3 DEF Turns
  <2>4. CASE g = h
    BY <2>1, <2>2, <2>4 DEF Turns, Runs
  <2>5. QED BY <2>3, <2>4
<1>7. CASE RunsUp(h)
  <2>1. PICK r : /\ Turns(h, r) /\ r.kind = "create" /\ r.pc \in {"insert", "commit"}
                 /\ r.made = (req[h].made \ {req[h].row}) \cup {Launched(req[h].row, docker.next)}
    BY <1>7 DEF RunsUp
  <2>2. req[h].kind = "create" /\ req[h].pc = "run"
    BY <1>7 DEF RunsUp
  <2>3. CASE g # h
    BY <1>1, <2>1, <2>3 DEF Turns
  <2>4. CASE g = h
    BY <1>7, <2>1, <2>2, <2>4 DEF Turns, Runs
  <2>5. QED BY <2>3, <2>4
<1>8. CASE \E kind \in Operations, row \in devices : Takes(h, kind, row)
  <2>1. PICK r : Turns(h, r) /\ r.pc = "docker" /\ r.made = {}
    BY <1>8 DEF Takes
  <2>2. CASE g # h
    BY <1>1, <2>1, <2>2 DEF Turns
  <2>3. CASE g = h
    BY <2>1, <2>3 DEF Turns
  <2>4. QED BY <2>2, <2>3
<1>9. CASE Stops(h) \/ Starts(h)
  <2>1. PICK r : /\ Turns(h, r) /\ r.kind = req[h].kind /\ r.row = req[h].row
                 /\ Starts(h) \/ r.kind \notin Runs
                 /\ r.kind # "create"
    BY <1>9 DEF Stops, Starts, Runs
  <2>2. CASE g # h
    BY <1>1, <2>1, <2>2 DEF Turns
  <2>3. CASE g = h
    BY <2>1, <2>3 DEF Turns
  <2>4. QED BY <2>2, <2>3
<1>10. CASE Patches(h)
  <2>1. CASE g = h
    <3>1. req'[g] = Idle
      BY <1>10, <2>1 DEF Patches
    <3>2. QED BY <3>1, IdleOK DEF Runs
  <2>2. CASE g # h
    <3>1. DOMAIN req[g] = DOMAIN Idle
      BY DEF DevType, HandsOK, HandOK
    <3>2. /\ req'[g].kind = req[g].kind /\ req'[g].row = req[g].row /\ req'[g].pc = req[g].pc
          /\ req'[g].made = req[g].made
      BY <1>10, <2>2, <3>1 DEF Patches, Idle
    <3>3. QED BY <3>2
  <2>3. QED BY <2>1, <2>2
<1>11. P(g)
  BY <1>3, <1>4, <1>5, <1>6, <1>7, <1>8, <1>9, <1>10 DEF Effect
<1>12. QED BY <1>11

\* A container leaves with its device on record, and for good.
LEMMA RewiredOn ==
  ASSUME TopoType, NEW h \in Handlers, Step(h)
  PROVE  /\ rewired \subseteq rewired'
         /\ \A c \in docker.ctrs : c.id \in Containers(docker') \/ c.dev \in rewired'
<1>1. DevType /\ TopoEffect(h)
  BY TopoEffects DEF TopoType, Step
<1>2. CASE OtherStep(h)
  BY <1>2 DEF OtherStep
<1>3. CASE LinkRequest(h) \/ LinkStep(h)
  <2>1. docker'.ctrs = docker.ctrs
    <3>1. CASE WireLink(h)
      BY <1>1, <3>1, WireLinkEffect DEF Wires, Plugs
    <3>2. CASE UnwireLink(h)
      BY <1>1, <3>2, UnwireLinkEffect DEF Unwires, Unplugs
    <3>3. QED BY <1>1, <1>3, <3>1, <3>2, LinksLeave
  <2>2. rewired' = rewired
    <3>1. CASE LinkRequest(h)
      BY <3>1 DEF LinkRequest, CreateLink, DeleteLink, histVars
    <3>2. CASE LinkStep(h)
      BY <3>2 DEF LinkStep, CountLinks, WireLink, InsertLink, CommitLink, UnwireLink,
         CommitUnlink, AbortLink, histVars
    <3>3. QED BY <1>3, <3>1, <3>2
  <2>3. QED BY <2>1, <2>2 DEF Containers
<1>4. QED BY <1>2, <1>3 DEF Step

LEMMA KnownStays ==
  ASSUME TopoType, NEW h \in Handlers, Step(h), NEW x \in DeviceRow, RowKnown(x, docker, lastId)
  PROVE  RowKnown(x, docker', lastId')
<1>1. DevType /\ DevType' /\ (Effect(h) \/ Relinks(h))
  BY TopoEffects, TopoEffectKinds DEF TopoType, Step
<1>2. docker.next \in Nat /\ docker'.next \in Nat /\ lastId \in Nat /\ lastId' \in Nat
      /\ x.id \in Nat /\ x.ctr \in Nat
  BY <1>1 DEF DevType, DockerOK, DockerType, DeviceRow
<1>3. /\ docker'.next >= docker.next /\ lastId' >= lastId
      /\ \A c \in docker'.ctrs : c \in docker.ctrs \/ c.id = docker.next
  <2>1. CASE Effect(h)
    BY <1>1, <2>1, EffectPlugs DEF PlugsStay
  <2>2. CASE Relinks(h)
    BY <1>1, <1>2, <2>2, RelinksKeep
  <2>3. QED BY <1>1, <2>1, <2>2
<1>4. QED BY <1>2, <1>3 DEF RowKnown

LEMMA KeptOn ==
  ASSUME TopoType, NEW h \in Handlers, Step(h), NEW x, RowKnown(x, docker, lastId), Kept(x)
  PROVE  Kept(x)'
<1>1. CASE x.id \in rewired
  BY <1>1, RewiredOn DEF Kept
<1>2. CASE x.ctr \in Containers(docker)
  <2>1. PICK c \in docker.ctrs : c.id = x.ctr
    BY <1>2 DEF Containers
  <2>2. c.dev = x.id
    BY <2>1 DEF RowKnown
  <2>3. QED BY <2>1, <2>2, RewiredOn DEF Kept
<1>3. QED BY <1>1, <1>2 DEF Kept

\* It stays on the network, unless that is being torn down.
LEMMA AttachedOn ==
  ASSUME TopoType, NEW h \in Handlers, Step(h), NEW x, RowKnown(x, docker, lastId), NEW net,
         Attached(x, net),
         ~(UnwireLink(h) /\ net = req[h].lnk.net /\ net \in Networks(docker))
  PROVE  Attached(x, net)'
<1>1. CASE x.id \in rewired
  BY <1>1, RewiredOn DEF Attached
<1>2. ASSUME NEW e \in docker.ends, e.ctr = x.ctr, e.net = net PROVE Attached(x, net)'
  <2>1. DevType /\ TopoEffect(h)
    BY TopoEffects DEF TopoType, Step
  <2>2. net \in Networks(docker)
    BY <1>2, <2>1 DEF DevType, DockerOK
  <2>3. PICK c \in docker.ctrs : c.id = x.ctr
    BY <1>2, <2>1 DEF DevType, DockerOK, Containers
  <2>4. c.dev = x.id
    BY <2>3 DEF RowKnown
  <2>5. e \in docker'.ends \/ x.ctr \notin Containers(docker')
    <3>1. CASE Effect(h)
      BY <1>2, <2>1, <3>1, EffectPlugs DEF PlugsStay
    <3>2. CASE Wires(h)
      BY <1>2, <3>2 DEF Wires, Plugs
    <3>3. CASE Unwires(h) /\ UnwireLink(h)
      BY <1>2, <2>2, <3>3 DEF Unwires, Unplugs
    <3>4. QED BY <2>1, <3>1, <3>2, <3>3 DEF TopoEffect, Effect
  <2>6. QED BY <1>2, <2>3, <2>4, <2>5, RewiredOn DEF Attached
<1>3. QED BY <1>1, <1>2 DEF Attached

LEMMA RowsKeptOn ==
  ASSUME TopoType, TopoType', IdInv, RowsKept, StartsRewire, NEW h \in Handlers, Step(h)
  PROVE  RowsKept'
<1>1. DevType /\ DevType' /\ StartsMake /\ (Effect(h) \/ Relinks(h))
  BY TopoEffects, TopoEffectKinds DEF TopoType, Step
<1>2. \A r \in devices : RowKnown(r, docker, lastId) /\ Kept(r)
  BY DEF IdInv, RowsKnown, RowsKept
<1>3. \A x : RowKnown(x, docker, lastId) /\ Kept(x) => Kept(x)'
  BY KeptOn
<1>4. ASSUME NEW r \in devices' PROVE Kept(r)'
  <2>1. ASSUME NEW s \in devices, r.id = s.id, r.ctr = s.ctr PROVE Kept(r)'
    BY <1>2, <1>3, <2>1 DEF Kept
  <2>2. CASE req[h].kind \in Runs /\ req[h].pc = "commit" /\ r.id = req[h].row.id
    BY <2>2, RewiredOn DEF StartsRewire, Kept
  <2>3. CASE req[h].kind = "create" /\ req[h].pc = "commit" /\ r \in req[h].made
    BY <1>3, <2>3 DEF RowsKept, IdInv, RowsKnown
  <2>4. QED BY <1>1, <2>1, <2>2, <2>3, RowsChange
<1>5. ASSUME NEW g \in Handlers, HasRow(g)' PROVE Kept(req[g].row)'
  <2>1. CASE HasRow(g) /\ req'[g].row = req[g].row
    <3>1. Kept(req'[g].row) /\ RowKnown(req'[g].row, docker, lastId)
      BY <2>1 DEF RowsKept, IdInv, RowsKnown
    <3>2. QED BY <1>3, <3>1 DEF Kept
  <2>2. CASE req'[g].row \in devices
    <3>1. Kept(req'[g].row) /\ RowKnown(req'[g].row, docker, lastId)
      BY <1>2, <2>2
    <3>2. QED BY <1>3, <3>1 DEF Kept
  <2>3. QED BY <1>1, <1>5, <2>1, <2>2, RowsReadOn
<1>6. ASSUME NEW g \in Handlers, req'[g].kind = "create", NEW m \in req'[g].made
      PROVE  Kept(m)' \/ (req'[g].pc = "run" /\ m = req'[g].row)
  <2>1. CASE /\ req[g].kind = "create" /\ m \in req[g].made
             /\ (req[g].pc = "run" /\ m = req[g].row) =>
                   req'[g].pc = req[g].pc /\ req'[g].row = req[g].row
    BY <1>3, <2>1 DEF RowsKept, IdInv, RowsKnown
  <2>2. CASE req'[g].pc = "run" /\ req'[g].row = m
    BY <2>2
  <2>3. CASE g = h /\ RunsUp(h) /\ req[g].kind = "create" /\ m = Launched(req[h].row, docker.next)
    <3>1. docker.next \in Containers(docker')
      BY <2>3 DEF RunsUp, Launches, Containers
    <3>2. req[h].row \in DeviceRow /\ docker.next \in Nat
      BY <1>1, <2>3, CreateHand DEF RunsUp, DevType, DockerOK, DockerType
    <3>3. m.ctr = docker.next
      BY <2>3, <3>2, LaunchedRow
    <3>4. QED BY <3>1, <3>3 DEF Kept
  <2>4. QED BY <1>1, <1>6, <2>1, <2>2, <2>3, HandsChange
<1>7. QED BY <1>4, <1>5, <1>6 DEF RowsKept

LEMMA StartsRewireOn ==
  ASSUME TopoType, IdInv, RowsKept, StartsRewire, NEW h \in Handlers, Step(h)
  PROVE  StartsRewire'
<1>1. DevType /\ (Effect(h) \/ Relinks(h)) /\ docker.next \in Nat
  BY TopoEffects, TopoEffectKinds DEF TopoType, Step, DevType, DockerOK, DockerType
<1>2. ASSUME Starts(h) PROVE req[h].row.id \in rewired'
  <2> DEFINE x == req[h].row
  <2>1. HasRow(h)
    BY <1>2 DEF Starts, HasRow, Operations
  <2>2. RowKnown(x, docker, lastId) /\ Kept(x)
    BY <2>1 DEF IdInv, RowsKnown, RowsKept
  <2>3. CASE x.id \in rewired
    BY <2>3, RewiredOn
  <2>4. ASSUME NEW c \in docker.ctrs, c.id = x.ctr PROVE x.id \in rewired'
    <3>1. c.dev = x.id
      BY <2>2, <2>4 DEF RowKnown
    <3>2. ASSUME NEW b \in docker'.ctrs, b.id = c.id PROVE FALSE
      <4>1. c.id < docker.next
        BY <1>1 DEF DevType, DockerOK
      <4>2. b \in docker.ctrs
        BY <1>1, <1>2, <3>2, <4>1 DEF Starts, Handled
      <4>3. b = c
        BY <1>1, <3>2, <4>2 DEF DevType, DockerOK
      <4>4. c.id = docker.next
        BY <1>2, <3>1, <3>2, <4>3 DEF Starts, Launches
      <4>5. QED BY <1>1, <4>1, <4>4
    <3>3. QED BY <3>1, <3>2, RewiredOn DEF Containers
  <2>5. QED BY <2>2, <2>3, <2>4 DEF Kept, Containers
<1>3. ASSUME NEW g \in Handlers, req'[g].kind \in Runs, req'[g].pc = "commit"
      PROVE  req'[g].row.id \in rewired'
  BY <1>1, <1>2, <1>3, HandsChange, RewiredOn DEF StartsRewire
<1>4. QED BY <1>3 DEF StartsRewire

\* What a request has just read is what is there.
LEMMA DeviceEnds == ASSUME IdInv, RowsKept, NEW x \in devices PROVE EndKnown(x)
BY DEF IdInv, RowsKnown, RowsKept, CreatesOwn, EndKnown, RowsOf

LEMMA EndOn ==
  ASSUME TopoType, IdInv, StartsRewire, NEW h \in Handlers, Step(h), NEW x \in DeviceRow, EndKnown(x)
  PROVE  EndKnown(x)'
<1>1. DevType /\ StartsMake /\ (Effect(h) \/ Relinks(h)) /\ lastId \in Nat
  BY TopoEffects, TopoEffectKinds DEF TopoType, Step, DevType
<1>2. RowKnown(x, docker, lastId) /\ Kept(x)
  BY DEF EndKnown
<1>3. RowKnown(x, docker', lastId') /\ Kept(x)'
  BY <1>2, KnownStays, KeptOn
<1>4. ASSUME NEW r \in devices', r.id = x.id PROVE r.ctr = x.ctr \/ x.id \in rewired'
  <2>1. ASSUME NEW s \in devices, r.id = s.id, r.ctr = s.ctr PROVE r.ctr = x.ctr \/ x.id \in rewired'
    BY <1>4, <2>1, RewiredOn DEF EndKnown, RowsOf
  <2>2. CASE req[h].kind \in Runs /\ req[h].pc = "commit" /\ r.id = req[h].row.id
    BY <1>4, <2>2, RewiredOn DEF StartsRewire
  <2>3. ~(req[h].kind = "create" /\ r \in req[h].made)
    BY <1>4 DEF EndKnown
  <2>4. QED BY <1>1, <2>1, <2>2, <2>3, RowsChange
<1>5. ASSUME NEW g \in Handlers, req'[g].kind = "create", NEW m \in req'[g].made PROVE m.id # x.id
  <2>1. CASE req[g].kind = "create" /\ m \in req[g].made
    BY <2>1 DEF EndKnown
  <2>2. CASE m.id = lastId + 1
    <3>1. x.id <= lastId /\ x.id \in Nat
      BY <1>2 DEF RowKnown, DeviceRow
    <3>2. QED BY <1>1, <2>2, <3>1
  <2>3. CASE g = h /\ RunsUp(h) /\ req[g].kind = "create" /\ m = Launched(req[h].row, docker.next)
    <3>1. req[h].kind = "create" /\ req[h].pc = "run" /\ docker.next \in Nat
      BY <1>1, <2>3 DEF RunsUp, DevType, DockerOK, DockerType
    <3>2. req[h].row \in req[h].made /\ req[h].row \in DeviceRow
      BY <1>1, <3>1, CreateHand DEF IdInv, CreatesOwn
    <3>3. m.id = req[h].row.id
      BY <2>3, <3>1, <3>2, LaunchedRow
    <3>4. QED BY <3>1, <3>2, <3>3 DEF EndKnown
  <2>4. QED BY <1>1, <1>5, <2>1, <2>2, <2>3, HandsChange
<1>6. QED BY <1>3, <1>4, <1>5 DEF EndKnown, RowsOf

\* A hand about a link keeps its ends, or has just read them.
LEMMA EndsChange ==
  ASSUME DevType, NEW h \in Handlers, Step(h), NEW g \in Handlers, req'[g].kind \in LinkKinds
  PROVE  \/ /\ req[g].kind = req'[g].kind /\ req'[g].row = req[g].row /\ req'[g].peer = req[g].peer
            /\ req'[g].lnk.src = req[g].lnk.src /\ req'[g].lnk.dst = req[g].lnk.dst
         \/ /\ req'[g].row \in devices /\ req'[g].peer \in devices
            /\ req'[g].kind = "link" => /\ req'[g].lnk.src = req'[g].row.id
                                        /\ req'[g].lnk.dst = req'[g].peer.id
<1>1. CASE OtherStep(h)
  BY <1>1, OthersDo DEF OtherDoes
<1>2. CASE ~OtherStep(h)
  <2>1. PICK r : Turns(h, r) /\ LinkTurn(h, r)
    BY <1>2, LinkTurns DEF Step
  <2>2. CASE g # h
    BY <2>1, <2>2 DEF Turns
  <2>3. CASE g = h
    <3>1. req'[g] = r /\ r # Idle
      BY <2>1, <2>3, IdleOK DEF Turns, LinkKinds
    <3>2. CASE Provides(h, r)
      <4>1. req[h].lnk \in LinkRow
        BY <3>2, LinkHand DEF Provides, LinkKinds
      <4>2. r.lnk.src = req[h].lnk.src /\ r.lnk.dst = req[h].lnk.dst
        BY <3>2, <4>1 DEF Provides, LinkRow
      <4>3. QED BY <2>3, <3>1, <3>2, <4>2 DEF Provides
    <3>3. CASE Begins(h, r)
      BY <2>3, <3>1, <3>3 DEF Begins
    <3>4. CASE Forgoes(h, r)
      BY <2>3, <3>1, <3>4 DEF Forgoes, RowsOf
    <3>5. CASE Proceeds(h, r)
      BY <2>3, <3>1, <3>5 DEF Proceeds
    <3>6. QED BY <2>1, <3>1, <3>2, <3>3, <3>4, <3>5 DEF LinkTurn
  <2>4. QED BY <2>2, <2>3
<1>3. QED BY <1>1, <1>2

LEMMA EndsReadOn ==
  ASSUME TopoType, IdInv, RowsKept, StartsRewire, EndsRead, NEW h \in Handlers, Step(h)
  PROVE  EndsRead'
<1> SUFFICES ASSUME NEW g \in Handlers, req'[g].kind \in LinkKinds
             PROVE  /\ req'[g].kind = "link" => /\ req'[g].lnk.src = req'[g].row.id
                                                /\ req'[g].lnk.dst = req'[g].peer.id
                    /\ EndKnown(req[g].row)' /\ EndKnown(req[g].peer)'
  BY DEF EndsRead
<1>1. DevType
  BY DEF TopoType
<1>2. CASE /\ req[g].kind = req'[g].kind /\ req'[g].row = req[g].row /\ req'[g].peer = req[g].peer
           /\ req'[g].lnk.src = req[g].lnk.src /\ req'[g].lnk.dst = req[g].lnk.dst
  <2>1. /\ EndKnown(req[g].row) /\ EndKnown(req[g].peer)
        /\ req[g].kind = "link" => req[g].lnk.src = req[g].row.id /\ req[g].lnk.dst = req[g].peer.id
    BY <1>2 DEF EndsRead
  <2>2. req[g].row \in DeviceRow /\ req[g].peer \in DeviceRow
    BY <1>1, <1>2, LinkHand
  <2>3. \A x \in DeviceRow : EndKnown(x) => EndKnown(x)'
    BY EndOn
  <2>4. PICK x, y : x = req[g].row /\ y = req[g].peer
    OBVIOUS
  <2>5. EndKnown(x)' /\ EndKnown(y)'
    BY <2>1, <2>2, <2>3, <2>4
  <2>6. req'[g].row = x /\ req'[g].peer = y
    BY <1>2, <2>4
  <2>7. QED BY <1>2, <2>1, <2>5, <2>6 DEF EndKnown, Kept, RowKnown, RowsOf
<1>3. CASE /\ req'[g].row \in devices /\ req'[g].peer \in devices
           /\ req'[g].kind = "link" => /\ req'[g].lnk.src = req'[g].row.id
                                       /\ req'[g].lnk.dst = req'[g].peer.id
  <2>1. \A x \in devices : EndKnown(x)'
    BY <1>1, DeviceEnds, EndOn DEF DevType
  <2>2. PICK x, y : x = req'[g].row /\ y = req'[g].peer
    OBVIOUS
  <2>3. EndKnown(x)' /\ EndKnown(y)'
    BY <1>3, <2>1, <2>2
  <2>4. QED BY <1>3, <2>2, <2>3 DEF EndKnown, Kept, RowKnown, RowsOf
<1>4. QED BY <1>1, <1>2, <1>3, EndsChange

LEMMA CarriedWired ==
  ASSUME TopoType, StrayInv, HeldInv, EndsRead, EndsWired, NEW h \in Handlers, Step(h),
         NEW g \in Handlers, Carries(g)'
  PROVE  \/ req'[g].lnk.net \in shared'
         \/ \A x \in {req'[g].row, req'[g].peer} : Attached(x, req[g].lnk.net)'
<1>1. DevType /\ shared \subseteq shared'
  BY RecordsStay DEF TopoType
<1>2. req'[g].kind \in LinkKinds
  BY DEF Carries, LinkKinds
<1>3. CASE Carries(g) /\ req'[g].lnk = req[g].lnk /\ req'[g].row = req[g].row /\ req'[g].peer = req[g].peer
  <2>0. PICK net : net = req[g].lnk.net
    OBVIOUS
  <2>1. req[g].kind \in LinkKinds
    BY <1>3 DEF Carries, LinkKinds
  <2>2. \A x \in {req[g].row, req[g].peer} : RowKnown(x, docker, lastId)
    BY <2>1 DEF EndsRead, EndKnown
  <2>3. CASE net \in shared
    BY <1>1, <1>3, <2>0, <2>3
  <2>4. CASE UnwireLink(h) /\ net = req[h].lnk.net /\ net \in Networks(docker)
    <3>1. req[h].kind = "unlink"
      BY <2>4 DEF UnwireLink, Is
    <3>2. QED BY <1>1, <1>3, <2>0, <2>4, <3>1, TeardownsShare
  <2>5. CASE /\ net \notin shared
             /\ ~(UnwireLink(h) /\ net = req[h].lnk.net /\ net \in Networks(docker))
    <3>1. \A x \in {req[g].row, req[g].peer} : Attached(x, net)
      BY <1>3, <2>0, <2>5 DEF EndsWired
    <3>2. \A x \in {req[g].row, req[g].peer} : Attached(x, net)'
      BY <2>2, <2>5, <3>1, AttachedOn
    <3>3. QED BY <1>3, <2>0, <3>2 DEF Attached
  <2>6. QED BY <2>3, <2>4, <2>5
<1>4. CASE g = h /\ Provides(h, req'[h]) /\ req'[g].lnk.net = Wiring(h).net
  <2>1. req[h].kind = "link" /\ Wiring(h).out.err = "ok" /\ docker' = Wiring(h).out.d
        /\ req'[g].row = req[h].row /\ req'[g].peer = req[h].peer
    BY <1>4 DEF Provides
  <2>2. \A x \in {req[h].row, req[h].peer} :
          x.ctr = 0 \/ \E e \in docker'.ends : e.ctr = x.ctr /\ e.net = Wiring(h).net
    BY <1>1, <2>1, WiringDoes
  <2>3. \A x \in {req[h].row, req[h].peer} : Kept(x)
    BY <2>1 DEF EndsRead, EndKnown, LinkKinds
  <2>4. 0 \notin Containers(docker)
    BY <1>1 DEF DevType, DockerOK, Containers
  <2>5. rewired \subseteq rewired'
    BY RewiredOn
  <2>6. ASSUME NEW x \in {req[h].row, req[h].peer}
        PROVE  x.id \in rewired' \/ \E e \in docker'.ends : e.ctr = x.ctr /\ e.net = Wiring(h).net
    BY <2>2, <2>3, <2>4, <2>5, <2>6 DEF Kept
  <2>7. QED BY <1>4, <2>1, <2>6 DEF Attached
<1>5. Carries(g) /\ req'[g].lnk = req[g].lnk => req'[g].row = req[g].row /\ req'[g].peer = req[g].peer
  <2>1. CASE OtherStep(h)
    BY <1>1, <1>2, <2>1, OthersDo DEF OtherDoes
  <2>2. CASE ~OtherStep(h)
    <3>1. PICK r : Turns(h, r) /\ LinkTurn(h, r)
      BY <1>1, <2>2, LinkTurns DEF Step
    <3>2. QED BY <3>1, IdleOK DEF Turns, LinkTurn, Begins, Forgoes, Proceeds, Provides, Carries
  <2>3. QED BY <2>1, <2>2
<1>6. QED BY <1>1, <1>3, <1>4, <1>5, CarriesOn

\* A row at a link's end keeps its attachment, or its container is replaced.
LEMMA RowsAttached ==
  ASSUME TopoType, IdInv, LinksHaveDevices, StartsRewire, NEW h \in Handlers, Step(h),
         NEW l \in links, \A r \in devices : r.id \in {l.src, l.dst} => Attached(r, l.net),
         ~(UnwireLink(h) /\ l.net = req[h].lnk.net /\ l.net \in Networks(docker)),
         NEW r \in devices', r.id \in {l.src, l.dst}
  PROVE  Attached(r, l.net)'
<1>1. DevType /\ StartsMake /\ (Effect(h) \/ Relinks(h))
  BY TopoEffects, TopoEffectKinds DEF TopoType, Step
<1>2. ASSUME NEW s \in devices, r.id = s.id, r.ctr = s.ctr PROVE Attached(r, l.net)'
  <2>1. RowKnown(s, docker, lastId) /\ Attached(s, l.net)
    BY <1>2 DEF IdInv, RowsKnown
  <2>2. Attached(s, l.net)'
    BY <2>1, AttachedOn
  <2>3. QED BY <1>2, <2>2 DEF Attached
<1>3. CASE req[h].kind \in Runs /\ req[h].pc = "commit" /\ r.id = req[h].row.id
  BY <1>3, RewiredOn DEF StartsRewire, Attached
<1>4. ~(req[h].kind = "create" /\ r \in req[h].made)
  BY DEF LinksHaveDevices, RowsOf, IdInv, CreatesOwn
<1>5. QED BY <1>1, <1>2, <1>3, <1>4, RowsChange

LEMMA EndsWiredOn ==
  ASSUME TopoType, StrayInv, IdInv, LinksHaveDevices, HeldInv, WiredInv, NEW h \in Handlers, Step(h)
  PROVE  EndsWired'
<1>1. /\ shared \subseteq shared' /\ halved \cup unplugged \subseteq halved' \cup unplugged' /\ DevType
      /\ StartsRewire /\ EndsRead /\ EndsWired
  BY RecordsStay DEF TopoType, WiredInv
<1>2. \A g \in Handlers : Carries(g)' =>
        \/ req'[g].lnk.net \in shared'
        \/ \A x \in {req'[g].row, req'[g].peer} : Attached(x, req[g].lnk.net)'
  BY <1>1, CarriedWired
<1>3. ASSUME NEW l \in links', l \in links
      PROVE  \/ l.net \in shared' \/ l.id \in halved' \cup unplugged'
             \/ \E g \in Handlers : Forgets(g, l)'
             \/ \A r \in devices' : r.id \in {l.src, l.dst} => Attached(r, l.net)'
  <2>1. CASE l.net \in shared \/ l.id \in halved \cup unplugged
    BY <1>1, <2>1
  <2>2. CASE \E g \in Handlers : Forgets(g, l)
    BY <1>1, <1>3, <2>2, ForgetsOn
  <2>3. CASE /\ UnwireLink(h) /\ l.net = req[h].lnk.net /\ l.net \in Networks(docker)
             /\ docker'.ends # docker.ends
    <3>1. req[h].kind = "unlink"
      BY <2>3 DEF UnwireLink, Is
    <3>2. l.id = req[h].lnk.id \/ l.net \in shared
      BY <1>3, <2>3, <3>1, TeardownsShare
    <3>3. \/ req'[h] = [req[h] EXCEPT !.pc = "commit"]
          \/ Unplug(req[h].lnk)
      BY <1>1, <2>3, UnwireLinkEffect
    <3>4. CASE req'[h] = [req[h] EXCEPT !.pc = "commit"]
      <4>1. DOMAIN req[h] = DOMAIN Idle
        BY <1>1 DEF DevType, HandsOK, HandOK
      <4>2. req'[h].kind = "unlink" /\ req'[h].pc = "commit" /\ req'[h].lnk = req[h].lnk
        BY <3>1, <3>4, <4>1 DEF Idle
      <4>3. QED BY <1>1, <3>2, <4>2 DEF Forgets
    <3>5. QED BY <1>1, <2>3, <3>2, <3>3, <3>4 DEF Unplug
  <2>4. CASE /\ \A r \in devices : r.id \in {l.src, l.dst} => Attached(r, l.net)
             /\ ~(UnwireLink(h) /\ l.net = req[h].lnk.net /\ l.net \in Networks(docker))
    BY <1>1, <1>3, <2>4, RowsAttached
  <2>6. CASE /\ \A r \in devices : r.id \in {l.src, l.dst} => Attached(r, l.net)
             /\ UnwireLink(h) /\ docker'.ends = docker.ends
    BY <1>1, <2>6 DEF UnwireLink, rows, Attached
  <2>5. QED BY <1>1, <1>3, <2>1, <2>2, <2>3, <2>4, <2>6 DEF EndsWired
<1>4. ASSUME CommitLink(h), NEW l, l = req[h].lnk
      PROVE  \/ l.net \in shared'
             \/ \A r \in devices' : r.id \in {l.src, l.dst} => Attached(r, l.net)'
  <2>1. /\ req[h].kind = "link" /\ req[h].pc = "commit" /\ devices' = devices /\ docker' = docker
        /\ rewired' = rewired
    BY <1>4 DEF CommitLink, Is
  <2>2. /\ l.src = req[h].row.id /\ l.dst = req[h].peer.id
        /\ EndKnown(req[h].row) /\ EndKnown(req[h].peer)
    BY <1>1, <1>4, <2>1 DEF EndsRead, LinkKinds
  <2>3. \/ l.net \in shared
        \/ Attached(req[h].row, l.net) /\ Attached(req[h].peer, l.net)
    BY <1>1, <1>4, <2>1 DEF EndsWired, Carries
  <2>4. QED BY <1>1, <2>1, <2>2, <2>3 DEF EndKnown, RowsOf, Attached
<1>5. \A l \in links' : l \in links \/ (CommitLink(h) /\ l = req[h].lnk)
  BY <1>1, LinksCome DEF Step
<1>6. QED BY <1>2, <1>3, <1>4, <1>5 DEF EndsWired

LEMMA WiredInitially == TopoInit => WiredInv
<1> SUFFICES ASSUME TopoInit PROVE WiredInv
  OBVIOUS
<1>1. \A h \in Handlers : req[h].kind = "idle" /\ ~HasRow(h)
  BY IdleOK DEF TopoInit, Init, HasRow, Operations, Runs
<1>2. \A r \in devices : Kept(r)
  <2>1. \A r \in devices : \E i \in 1..InitDevices : r.ctr = i + 1
    BY DEF TopoInit, Init, InitRow
  <2>2. InitDevices # 0 => \A i \in 1..InitDevices : i + 1 \in Containers(docker)
    <3>1. InitDevices # 0 => docker.ctrs =
            {[id |-> i + 1, dev |-> i, comm |-> Public, up |-> TRUE] : i \in 1..InitDevices}
      BY DEF TopoInit, Init
    <3>2. ASSUME InitDevices # 0, NEW i \in 1..InitDevices PROVE \E c \in docker.ctrs : c.id = i + 1
      <4>1. [id |-> i + 1, dev |-> i, comm |-> Public, up |-> TRUE] \in docker.ctrs
        BY <3>1, <3>2
      <4>2. QED BY <4>1
    <3>3. QED BY <3>2 DEF Containers
  <2>3. InitDevices \in Nat
    BY DevicesAssumption DEF DevicesAssumption
  <2>4. QED BY <2>1, <2>2, <2>3 DEF Kept
<1>3. links = {}
  BY DEF TopoInit, Init
<1>4. QED BY <1>1, <1>2, <1>3 DEF WiredInv, RowsKept, StartsRewire, EndsRead, EndsWired, Carries,
             LinkKinds, Runs

LEMMA TopoWiredAlways == TopoSpec => []WiredInv
<1>1. TopoHeld /\ TopoHeld' /\ WiredInv /\ [TopoNext]_topoVars => WiredInv'
  <2>1. ASSUME TopoHeld, TopoHeld', WiredInv, NEW h \in Handlers, Step(h) PROVE WiredInv'
    <3>1. /\ TopoType /\ TopoType' /\ IdInv /\ StrayInv /\ LinksHaveDevices /\ HeldInv
          /\ RowsKept /\ StartsRewire /\ EndsRead
      BY <2>1 DEF TopoHeld, TopoLife, TopoPlugs, TopoIds, TopoBase, LinkInv, WiredInv
    <3>2. QED BY <2>1, <3>1, RowsKeptOn, StartsRewireOn, EndsReadOn, EndsWiredOn DEF WiredInv
  <2>2. ASSUME WiredInv, UNCHANGED topoVars PROVE WiredInv'
    <3>1. \A x : Kept(x) <=> Kept(x)'
      BY <2>2, TopoStays DEF Kept, Containers
    <3>2. \A x, net : Attached(x, net) <=> Attached(x, net)'
      BY <2>2, TopoStays DEF Attached
    <3>3. \A x : EndKnown(x) <=> EndKnown(x)'
      BY <2>2, <3>1, TopoStays DEF EndKnown, RowKnown, RowsOf
    <3>4. QED BY <2>2, <3>1, <3>2, <3>3, TopoStays
             DEF WiredInv, RowsKept, StartsRewire, EndsRead, EndsWired, Carries, Forgets, HasRow,
                 Kept, Attached, EndKnown, RowKnown, RowsOf
  <2>3. QED BY <2>1, <2>2 DEF TopoNext, Step
<1>2. QED BY <1>1, WiredInitially, TopoHeldAlways, PTL DEF TopoSpec

\* Both containers of a committed link are on its network, however teardowns
\* and the replacing of containers meet: unless it is being torn down, a teardown
\* failed at the commit or having detached one, the network has two links, or
\* that container was removed.
THEOREM LinksAlwaysWired == TopoSpec => []LinkWired
<1>1. WiredInv /\ LinksHaveDevices => LinkWired
  <2> SUFFICES ASSUME EndsWired, LinksHaveDevices, NEW l \in links,
                      ~Unlinking(l), l.id \notin halved \cup unplugged, l.net \notin shared,
                      NEW id \in {l.src, l.dst}
               PROVE  Wired(id, l.net) \/ id \in rewired
    BY DEF LinkWired, WiredInv
  <2>1. PICK r \in devices : r.id = id
    BY DEF LinksHaveDevices, RowsOf
  <2>2. Attached(r, l.net)
    BY <2>1 DEF EndsWired, Unlinking, Forgets
  <2>3. QED BY <2>1, <2>2 DEF Attached, Wired, RowsOf
<1>2. QED BY <1>1, TopoWiredAlways, LinksAlwaysHaveDevices, PTL
-----------------------------------------------------------------------------
(* Until a link is deleted their number only grows, so that every link      *)
(* network has the block of an index below it; the block of the number      *)
(* itself only while it is in a creation's hands, or stray.                 *)

\* What was counted was there, and is unless a link has been deleted since.
LinksCounted ==
  \A h \in Handlers : Is(h, {"link"}, "wire") =>
    /\ IsFiniteSet(req[h].seen) /\ req[h].index = Cardinality(req[h].seen)
    /\ freed \/ req[h].seen \subseteq links

InHands(net) == \/ net \in strays
                \/ \E h \in Handlers : Carries(h) /\ req[h].lnk.net = net

BlockOf(n, i) == /\ i \in Nat /\ i <= Cardinality(links) /\ n.base = BaseOf(i)
                 /\ i = Cardinality(links) => InHands(n.id)

BlocksCounted == freed \/ \A n \in LinkNets(docker) : \E i : BlockOf(n, i)

\* A handler keeps what it carries or leaves it stray.
HandsKept(h) ==
  /\ strays \subseteq strays' /\ \A g \in Handlers \ {h} : req'[g] = req[g]
  /\ Carries(h) => \/ req[h].lnk.net \in strays'
                   \/ Carries(h)' /\ req'[h].lnk.net = req[h].lnk.net

LEMMA BlocksKept ==
  ASSUME BlocksCounted, UNCHANGED <<links, freed>>, LinkNets(docker') \subseteq LinkNets(docker),
         NEW h \in Handlers, HandsKept(h)
  PROVE  BlocksCounted'
<1>1. \A net : InHands(net) => InHands(net)'
  BY DEF InHands, HandsKept, Carries
<1>2. ASSUME NEW n, NEW i, BlockOf(n, i) PROVE BlockOf(n, i)'
  BY <1>1, <1>2 DEF BlockOf
<1>3. QED BY <1>2 DEF BlocksCounted, LinkNets

LEMMA CountedKept ==
  ASSUME LinksCounted, links \subseteq links', UNCHANGED freed, NEW h \in Handlers,
         \A g \in Handlers \ {h} : req'[g] = req[g], ~Is(h, {"link"}, "wire")'
  PROVE  LinksCounted'
BY DEF LinksCounted, Is

LEMMA BlocksOther ==
  ASSUME DevType, BlocksCounted, LinksCounted, NEW h \in Handlers, OtherStep(h)
  PROVE  BlocksCounted' /\ LinksCounted'
<1>1. /\ Gains(Labs) /\ UNCHANGED <<links, strays, freed>>
      /\ \A g \in Handlers : \/ req'[g] = req[g]
                             \/ req[g].kind \notin LinkKinds /\ req'[g].kind \notin LinkKinds
  BY OthersDo DEF OtherStep, OtherDoes
<1>2. LinkNets(docker') \subseteq LinkNets(docker)
  BY <1>1 DEF Gains, LinkNets
<1>3. \A net : InHands(net) => InHands(net)'
  BY <1>1 DEF InHands, Carries, LinkKinds
<1>4. ASSUME NEW n, NEW i, BlockOf(n, i) PROVE BlockOf(n, i)'
  BY <1>1, <1>3, <1>4 DEF BlockOf
<1>5. BlocksCounted'
  BY <1>1, <1>2, <1>4 DEF BlocksCounted
<1>6. QED BY <1>1, <1>5 DEF LinksCounted, Is, LinkKinds

\* The network a provisioning makes has the block of its index.
LEMMA WiringTakes ==
  ASSUME StrayInv, NEW h \in Handlers, NEW d \in Wiring(h).stages \cup {Wiring(h).out.d},
         NEW n \in d.nets
  PROVE  n \in docker.nets \/ (n.id = Wiring(h).net /\ n.base = BaseOf(req[h].index))
<1> DEFINE q == req[h]
           base == BaseOf(q.index)
           name == <<q.row.id, q.peer.id>>
           made == create_docker_network(docker, name, base)
           one  == PlugIn(made.d, q.row, made.id, Ip1(base))
           two  == PlugIn(one.d, q.peer, made.id, Ip2(base))
<1>1. /\ Wiring(h).net = made.id /\ d \in {docker, made.d, one.d, two.d}
  BY DEF Wiring
<1>2. /\ DockerShape(made.d)
      /\ \A m \in made.d.nets : m \in docker.nets \/ (m.id = made.id /\ m.base = base)
  <2>0. DockerShape(docker) /\ docker.next \in Nat
    BY DEF StrayInv, StrayShape, Ready, DockerShape
  <2>1. CASE made.d = docker
    BY <2>0, <2>1
  <2>2. CASE made = Out(AddNetwork(docker, name, base), docker.next, "ok")
    <3>1. made.d = AddNetwork(docker, name, base) /\ made.id = docker.next
      BY <2>2 DEF Out
    <3>2. /\ DOMAIN AddNetwork(docker, name, base) = DOMAIN docker
          /\ AddNetwork(docker, name, base).next = docker.next + 1
          /\ AddNetwork(docker, name, base).nets =
               docker.nets \cup {[id |-> docker.next, name |-> name, base |-> base]}
      BY <2>0 DEF AddNetwork, DockerShape
    <3>3. QED BY <2>0, <3>1, <3>2 DEF DockerShape
  <2>3. QED BY <2>1, <2>2 DEF create_docker_network, Out
<1> HIDE DEF made
<1>3. Keeps(made.d, one.d) /\ DockerShape(one.d)
  BY <1>2, PlugInKeeps DEF Keeps
<1>4. Keeps(one.d, two.d)
  BY <1>3, PlugInKeeps
<1> HIDE DEF one, two
<1>5. d.nets \in {docker.nets, made.d.nets}
  BY <1>1, <1>3, <1>4 DEF Keeps
<1>6. QED BY <1>1, <1>2, <1>5

LEMMA BlocksWire ==
  ASSUME DevType, StrayInv, LinksFinite, BlocksCounted, LinksCounted, NEW h \in Handlers,
         WireLink(h)
  PROVE  BlocksCounted' /\ LinksCounted'
<1> DEFINE w == Wiring(h)
           r == [req[h] EXCEPT !.pc = "insert", !.lnk.net = w.net]
<1>1. /\ UNCHANGED <<links, freed>> /\ Is(h, {"link"}, "wire") /\ strays \subseteq strays'
      /\ docker' \in w.stages \cup {w.out.d}
      /\ \/ Goes(h, r)
         \/ Ends(h) /\ strays' = strays \cup ({w.net} \cap Networks(docker'))
  BY DEF WireLink, rows, Stray
<1>2. DOMAIN req = Handlers /\ DOMAIN req[h] = DOMAIN Idle /\ DOMAIN req[h].lnk = {"id", "src", "dst", "net"}
  BY <1>1 DEF StrayInv, StrayShape, Ready, InHandOK, Is
<1>3. r.kind = "link" /\ r.pc = "insert" /\ r.lnk.net = w.net
  BY <1>1, <1>2 DEF Idle, Is
<1>4. \A n \in docker'.nets : n \in docker.nets \/ (n.id = w.net /\ n.base = BaseOf(req[h].index))
  BY <1>1, WiringTakes
<1> HIDE DEF w, r
<1>5. /\ \A g \in Handlers \ {h} : req'[g] = req[g]
      /\ \/ req'[h] = r
         \/ req'[h] = Idle /\ strays' = strays \cup ({w.net} \cap Networks(docker'))
  BY <1>1, <1>2 DEF Goes, Ends
<1>6. \A net : InHands(net) => InHands(net)'
  BY <1>1, <1>5 DEF InHands, Carries, Is
<1>7. ASSUME ~freed PROVE BlocksCounted'
  <2>1. ASSUME NEW n \in LinkNets(docker') PROVE \E i : BlockOf(n, i)'
    <3>1. CASE n \in docker.nets
      <4>1. PICK i : BlockOf(n, i)
        BY <1>7, <2>1, <3>1 DEF BlocksCounted, LinkNets
      <4>2. BlockOf(n, i)'
        BY <1>1, <1>6, <4>1 DEF BlockOf
      <4>3. QED BY <4>2
    <3>2. CASE n \notin docker.nets
      <4>0. PICK i : i = req[h].index
        OBVIOUS
      <4>1. n.id = w.net /\ n.base = BaseOf(i)
        BY <1>4, <2>1, <3>2, <4>0 DEF LinkNets
      <4>2. i \in Nat /\ i <= Cardinality(links)
        <5>1. IsFiniteSet(req[h].seen) /\ i = Cardinality(req[h].seen) /\ req[h].seen \subseteq links
          BY <1>1, <1>7, <4>0 DEF LinksCounted
        <5>2. QED BY <5>1, FS_Subset, FS_CardinalityType DEF LinksFinite
      <4>3. InHands(n.id)'
        <5>1. CASE req'[h] = r
          BY <1>3, <4>1, <5>1 DEF InHands, Carries
        <5>2. CASE strays' = strays \cup ({w.net} \cap Networks(docker'))
          BY <2>1, <4>1, <5>2 DEF InHands, Networks, LinkNets
        <5>3. QED BY <1>5, <5>1, <5>2
      <4>4. BlockOf(n, i)'
        BY <1>1, <4>1, <4>2, <4>3 DEF BlockOf
      <4>5. QED BY <4>4
    <3>3. QED BY <3>1, <3>2
  <2>2. QED BY <2>1 DEF BlocksCounted
<1>8. BlocksCounted'
  BY <1>1, <1>7 DEF BlocksCounted
<1>9. ~Is(h, {"link"}, "wire")'
  BY <1>3, <1>5, IdleOK DEF Is
<1>10. QED BY <1>1, <1>5, <1>8, <1>9, CountedKept

LEMMA BlocksCommit ==
  ASSUME DevType, StrayInv, LinksFinite, BlocksCounted, LinksCounted, NEW h \in Handlers,
         CommitLink(h)
  PROVE  BlocksCounted' /\ LinksCounted'
<1> DEFINE lnk == req[h].lnk
<1>1. /\ UNCHANGED <<docker, freed>> /\ req[h].kind = "link" /\ links' = links \cup {lnk} /\ Ends(h)
  BY DEF CommitLink, Is
<1>2. DOMAIN req = Handlers /\ lnk \notin links
  BY <1>1 DEF StrayInv, StrayShape, Ready, InHandOK, OwnId
<1>3. /\ req'[h] = Idle /\ \A g \in Handlers \ {h} : req'[g] = req[g]
  BY <1>1, <1>2 DEF Ends
<1>4. Cardinality(links) \in Nat /\ Cardinality(links') = Cardinality(links) + 1
  <2> HIDE DEF lnk
  <2>1. QED BY <1>1, <1>2, FS_AddElement, FS_CardinalityType DEF LinksFinite
<1>5. ASSUME NEW n, NEW i, BlockOf(n, i) PROVE BlockOf(n, i)'
  BY <1>4, <1>5 DEF BlockOf
<1>6. BlocksCounted'
  BY <1>1, <1>5 DEF BlocksCounted
<1>7. QED BY <1>1, <1>3, <1>6, CountedKept, IdleOK DEF Is

LEMMA BlocksQuiet ==
  ASSUME DevType, LinksFinite, BlocksCounted, LinksCounted, NEW h \in Handlers,
         LinkRequest(h) \/ CountLinks(h) \/ InsertLink(h) \/ AbortLink(h)
  PROVE  BlocksCounted' /\ LinksCounted'
<1>0. DOMAIN req = Handlers /\ DOMAIN req[h] = DOMAIN Idle
  BY DEF DevType, HandsOK, HandOK
<1>1. CASE LinkRequest(h)
  <2>1. PICK r : Goes(h, r) /\ r.pc \in {"count", "unwire"} /\ req[h] = Idle
    BY <1>1 DEF LinkRequest, CreateLink, DeleteLink, Arrives, Idle
  <2>2. UNCHANGED <<docker, links, strays, freed>>
    BY <1>1 DEF LinkRequest, CreateLink, DeleteLink, rows, histVars
  <2>3. req'[h] = r /\ \A g \in Handlers \ {h} : req'[g] = req[g]
    BY <1>0, <2>1 DEF Goes
  <2>4. QED BY <2>1, <2>2, <2>3, IdleOK, BlocksKept, CountedKept DEF HandsKept, Carries, Is
<1>2. CASE CountLinks(h)
  <2> DEFINE r == [req[h] EXCEPT !.pc = "wire", !.index = NextIndex(h), !.seen = links]
  <2>1. /\ Goes(h, r) /\ UNCHANGED <<docker, links, strays, freed>> /\ Is(h, {"link"}, "count")
    BY <1>2 DEF CountLinks, rows, histVars
  <2>2. r.index = Cardinality(links) /\ r.seen = links
    BY <1>0 DEF Idle, NextIndex
  <2> HIDE DEF r
  <2>3. req'[h] = r /\ \A g \in Handlers \ {h} : req'[g] = req[g]
    BY <1>0, <2>1 DEF Goes
  <2>4. BlocksCounted'
    BY <2>1, <2>3, BlocksKept DEF HandsKept, Carries, Is
  <2>5. LinksCounted'
    BY <2>1, <2>2, <2>3 DEF LinksCounted, LinksFinite, Is
  <2>6. QED BY <2>4, <2>5
<1>3. CASE InsertLink(h)
  <2> DEFINE r == [req[h] EXCEPT !.pc = "commit"]
  <2>1. /\ UNCHANGED <<docker, links, freed>> /\ Is(h, {"link"}, "insert")
        /\ \/ Goes(h, r) /\ UNCHANGED strays
           \/ Ends(h) /\ strays' = strays \cup {req[h].lnk.net}
    BY <1>3 DEF InsertLink, rows
  <2>2. r.kind = "link" /\ r.pc = "commit" /\ r.lnk = req[h].lnk
    BY <1>0, <2>1 DEF Idle, Is
  <2> HIDE DEF r
  <2>3. /\ \A g \in Handlers \ {h} : req'[g] = req[g]
        /\ (req'[h] = r /\ UNCHANGED strays) \/ (req'[h] = Idle /\ strays' = strays \cup {req[h].lnk.net})
    BY <1>0, <2>1 DEF Goes, Ends
  <2>4. QED BY <2>1, <2>2, <2>3, IdleOK, BlocksKept, CountedKept DEF HandsKept, Carries, Is
<1>4. CASE AbortLink(h)
  <2>1. /\ UNCHANGED <<docker, links, freed>> /\ Ends(h)
        /\ strays' = IF Carries(h) THEN strays \cup {req[h].lnk.net} ELSE strays
    BY <1>4 DEF AbortLink, Abort, rows, Carries
  <2>2. req'[h] = Idle /\ \A g \in Handlers \ {h} : req'[g] = req[g]
    BY <1>0, <2>1 DEF Ends
  <2>3. QED BY <2>1, <2>2, IdleOK, BlocksKept, CountedKept DEF HandsKept, Is
<1>5. QED BY <1>1, <1>2, <1>3, <1>4

LEMMA BlocksTeardown ==
  ASSUME DevType, BlocksCounted, LinksCounted, NEW h \in Handlers,
         UnwireLink(h) \/ CommitUnlink(h)
  PROVE  BlocksCounted' /\ LinksCounted'
<1>0. DOMAIN req = Handlers /\ DOMAIN req[h] = DOMAIN Idle
  BY DEF DevType, HandsOK, HandOK
<1>1. CASE UnwireLink(h)
  <2>1. /\ UNCHANGED <<links, strays, freed>> /\ req[h].kind = "unlink"
        /\ Ends(h) \/ Goes(h, [req[h] EXCEPT !.pc = "commit"])
    BY <1>1 DEF UnwireLink, rows, Is
  <2>2. /\ \A g \in Handlers \ {h} : req'[g] = req[g]
        /\ req'[h].kind \in LinkKinds \cup {"idle"} /\ req'[h].kind # "link"
    BY <1>0, <2>1, IdleOK DEF Goes, Ends, LinkKinds, Idle
  <2>3. docker'.nets \subseteq docker.nets
    BY <1>1, UnwireLinkEffect DEF Unwires, Unplugs
  <2>4. QED BY <2>1, <2>2, <2>3, BlocksKept, CountedKept DEF HandsKept, Carries, Is, LinkNets
<1>2. CASE CommitUnlink(h)
  <2>1. /\ UNCHANGED <<docker, strays>> /\ req[h].kind = "unlink" /\ Ends(h)
        /\ freed' = (freed \/ links' # links)
    BY <1>2 DEF CommitUnlink, Is
  <2>2. req'[h] = Idle /\ \A g \in Handlers \ {h} : req'[g] = req[g]
    BY <1>0, <2>1 DEF Ends
  <2>3. CASE freed \/ links' # links
    <3>1. freed'
      BY <2>1, <2>3
    <3>2. QED BY <2>2, <3>1, IdleOK DEF BlocksCounted, LinksCounted, Is
  <2>4. CASE ~freed /\ links' = links
    <3>1. ~freed'
      BY <2>1, <2>4
    <3>2. \A net : InHands(net) => InHands(net)'
      BY <2>1, <2>2 DEF InHands, Carries
    <3>3. ASSUME NEW n, NEW i, BlockOf(n, i) PROVE BlockOf(n, i)'
      BY <2>4, <3>2, <3>3 DEF BlockOf
    <3>4. BlocksCounted'
      BY <2>1, <2>4, <3>3 DEF BlocksCounted
    <3>5. LinksCounted'
      BY <2>2, <2>4, IdleOK DEF LinksCounted, Is
    <3>6. QED BY <3>4, <3>5
  <2>5. QED BY <2>3, <2>4
<1>3. QED BY <1>1, <1>2

LEMMA BlocksAlways == TopoSpec => [](BlocksCounted /\ LinksCounted)
<1>1. TopoInit => BlocksCounted /\ LinksCounted
  <2>1. ASSUME TopoInit PROVE LinkNets(docker) = {}
    BY <2>1, StrayInitially, DevicesAssumption
       DEF TopoInit, Init, NoDocker, LinkNets, FirstLab, DevicesAssumption
  <2>2. QED BY <2>1, IdleOK DEF TopoInit, Init, BlocksCounted, LinksCounted, Is
<1>2. TopoType /\ StrayInv /\ BlocksCounted /\ LinksCounted /\ [TopoNext]_topoVars
        => BlocksCounted' /\ LinksCounted'
  <2>1. ASSUME TopoType, StrayInv, BlocksCounted, LinksCounted, NEW h \in Handlers, Step(h)
        PROVE  BlocksCounted' /\ LinksCounted'
    BY <2>1, BlocksOther, BlocksWire, BlocksCommit, BlocksQuiet, BlocksTeardown
       DEF Step, LinkStep, TopoType
  <2>2. ASSUME BlocksCounted, LinksCounted, UNCHANGED topoVars
        PROVE  BlocksCounted' /\ LinksCounted'
    BY <2>2, TopoStays DEF BlocksCounted, LinksCounted, BlockOf, InHands, Carries, Is
  <2>3. QED BY <2>1, <2>2 DEF TopoNext, Step
<1>3. QED BY <1>1, <1>2, TopoTypeAlways, StrayInvAlways, PTL DEF TopoSpec

\* The daemon refuses a link its block only because a link was deleted, a
\* failed request left its network, a link was made since they were counted, a
\* lab has the block, or the pool has wrapped round: the count alone picks a
\* free block (_allocate_link_subnet).
THEOREM TakenBlocksAlwaysExplained == TopoSpec => []BlockTakenExplained
<1>1. BlocksCounted /\ LinksCounted /\ TopoType => BlockTakenExplained
  <2> SUFFICES ASSUME BlocksCounted, LinksCounted, TopoType, NEW h \in Handlers, Blocked(h),
                      ~freed, strays = {}, req[h].seen = links, \A g \in Handlers : ~Carries(g),
                      \A n \in docker.nets : n.base = BaseOf(req[h].index) => n.name \notin Labs,
                      ~(req[h].index >= 8192)
               PROVE  FALSE
    BY DEF BlockTakenExplained, Carries
  <2> DEFINE i == req[h].index
             base == BaseOf(i)
             made == create_docker_network(docker, <<req[h].row.id, req[h].peer.id>>, base)
             one  == PlugIn(made.d, req[h].row, made.id, Ip1(base))
             two  == PlugIn(one.d, req[h].peer, made.id, Ip2(base))
  <2>1. i = Cardinality(links) /\ i \in Nat /\ i < 8192
    <3>1. i = Cardinality(links) /\ i \in Nat
      BY FS_CardinalityType DEF Blocked, LinksCounted, TopoType, LinksFinite
    <3>2. QED BY <3>1
  <2>2. \E n \in docker.nets : n.base = base
    <3>1. \E o \in {made, one, two} : o.err = "ipam"
      <4>1. Wiring(h).out = IF made.err # "ok" THEN made ELSE IF one.err # "ok" THEN one ELSE two
        BY DEF Wiring
      <4> HIDE DEF made, one, two
      <4>2. QED BY <4>1 DEF Blocked
    <3>2. one.err # "ipam" /\ two.err # "ipam"
      <4> HIDE DEF base, made
      <4>1. \A d, row, net, ip : PlugIn(d, row, net, ip).err # "ipam"
        BY DEF PlugIn, attach_container_to_network, Connect, Out
      <4>2. QED BY <4>1
    <3>3. made.err = "ipam"
      <4> HIDE DEF made, one, two
      <4>1. QED BY <3>1, <3>2
    <3>4. QED BY <3>3 DEF create_docker_network, Out
  <2>3. PICK n \in LinkNets(docker) : n.base = base
    BY <2>2 DEF LinkNets
  <2>4. PICK j : BlockOf(n, j)
    BY <2>3 DEF BlocksCounted
  <2>5. j \in Nat /\ j < i
    <3>1. ~InHands(n.id)
      BY DEF InHands
    <3>2. QED BY <2>1, <2>4, <3>1 DEF BlockOf
  <2>6. BaseOf(j) = j * 8 /\ base = i * 8
    BY <2>1, <2>5, BlockBase
  <2>7. BaseOf(j) = base
    BY <2>3, <2>4 DEF BlockOf
  <2> HIDE DEF base, i
  <2>8. j * 8 = i * 8
    BY <2>6, <2>7
  <2>9. QED BY <2>1, <2>5, <2>8
<1>2. QED BY <1>1, BlocksAlways, TopoTypeAlways, PTL
=============================================================================
