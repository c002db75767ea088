------------------------------- MODULE Devices -------------------------------
(***************************************************************************)
(* The network and device handlers (routers/networks.py, devices.py): the  *)
(* rows of the database, the containers and networks of the Docker daemon, *)
(* and what can come between the two.  A handler is split where it awaits; *)
(* its Docker calls are synchronous and share one step.  The pushes to     *)
(* Redis are OidPush's; here they are one more await that may fail.        *)
(*                                                                         *)
(* Row locks are modelled by the guards that make a step wait for another  *)
(* handler's uncommitted row.  failed, raced, lost and patched are history *)
(* variables, and behind in a request's locals.                            *)
(***************************************************************************)
EXTENDS Docker, Sequences

CONSTANTS
  Handlers,    \* request slots
  Kinds,       \* the requests of this instance
  Labs,        \* names of lab networks
  LabBase,     \* the subnet a client gives for each
  Communities, \* SNMP communities
  Ips,         \* addresses a client gives for a device
  InitDevices, \* devices that run at the start, on one lab network
  MaxBulk,     \* bound: devices of one create request
  MaxRequests, \* bound: requests
  MaxFaults,   \* bound: failures of the daemon, Redis or the database
  None

ASSUME DevicesAssumption ==
  /\ LabBase \in [Labs -> Nat] /\ Labs # {} /\ Ips \subseteq Nat
  /\ Communities # {} /\ InitDevices \in 0..5
  /\ MaxBulk \in Nat /\ MaxRequests \in Nat /\ MaxFaults \in Nat
  /\ None \notin Nat

VARIABLES
  docker,    \* the daemon
  networks,  \* committed rows [name, net, base]
  devices,   \* committed rows [id, ip, net, comm, ctr, status]
  links,     \* committed rows [id, src, dst, net]
  req,       \* the request in each slot
  lastId,    \* the device id sequence, which a rollback does not give back
  count,     \* requests so far
  faults,    \* failures so far
  failed,    \* devices of requests that failed with work done in Docker and
             \* that have not been started since
  raced,     \* devices that a start or restart and a delete, or two of the
             \* former, were busy with at once
  patched,   \* devices whose community was changed since a start of them that
             \* has been committed read it
  lost       \* lab networks of network requests that failed with work done in
             \* Docker, or that one request removed while another created it

rows == <<networks, devices, links>>
labVars == <<docker, networks, devices, links, req, lastId, count, faults, failed, raced,
             patched, lost>>

\* The coroutine's locals: what it has read, what it has still to do, and the
\* rows it has inserted and not committed.
Idle == [kind |-> "idle", pc |-> "-", lab |-> None, row |-> None, peer |-> None,
         todo |-> <<>>, made |-> {}, seen |-> {}, index |-> 0, lnk |-> None,
         comm |-> None, behind |-> FALSE]

Is(h, kinds, pc) == req[h].kind \in kinds /\ req[h].pc = pc

\* A network row is known by its Docker id, as devices.network_id knows it.
HasNetwork(r) == \E n \in networks : n.net = r.net
RowsOf(id)    == {r \in devices : r.id = id}

FirstLab == CHOOSE l \in Labs : TRUE
Public == CHOOSE c \in Communities : TRUE   \* what DeviceCreate has as default
InitRow(i) == [id |-> i, ip |-> LabBase[FirstLab] + 1 + i, net |-> 1, comm |-> Public,
               ctr |-> i + 1, status |-> "running"]
InitNet == [name |-> FirstLab, net |-> 1, base |-> LabBase[FirstLab]]

Init ==
  /\ IF InitDevices = 0
       THEN docker = NoDocker /\ networks = {}
       ELSE /\ networks = {InitNet}
            /\ docker = [ctrs |-> {[id |-> i + 1, dev |-> i, comm |-> Public, up |-> TRUE] : i \in 1..InitDevices},
                         nets |-> {[id |-> 1, name |-> FirstLab, base |-> LabBase[FirstLab]]},
                         ends |-> {[ctr |-> i + 1, net |-> 1, ip |-> LabBase[FirstLab] + 1 + i]
                                      : i \in 1..InitDevices},
                         next |-> InitDevices + 2]
  /\ devices = {InitRow(i) : i \in 1..InitDevices} /\ links = {}
  /\ req = [h \in Handlers |-> Idle]
  /\ lastId = InitDevices /\ count = 0 /\ faults = 0
  /\ failed = {} /\ raced = {} /\ patched = {} /\ lost = {}

-----------------------------------------------------------------------------
\* Requests arrive and end.

Arrives(h, kind) ==
  /\ req[h] = Idle /\ kind \in Kinds
  /\ count < MaxRequests /\ count' = count + 1

Goes(h, r)  == req' = [req EXCEPT ![h] = r]
Ends(h)     == req' = [req EXCEPT ![h] = Idle]

Fault == faults < MaxFaults /\ faults' = faults + 1

\* A rollback undoes nothing of what was done in Docker.
Busy(h) == {r.id : r \in req[h].made}
             \cup IF req[h].row = None THEN {} ELSE {req[h].row.id}
Lose(h) == failed' = failed \cup Busy(h)

-----------------------------------------------------------------------------
(* POST and DELETE /api/networks                                           *)

\* The daemon is asked before anything is awaited.
CreateNetwork(h, lab, base) ==
  LET o == create_docker_network(docker, lab, base) IN
  /\ Arrives(h, "newnet") /\ docker' = o.d
  /\ IF o.err = "ok"
       THEN Goes(h, [Idle EXCEPT !.kind = "newnet", !.pc = "commit",
                      !.lab = [name |-> lab, net |-> o.id, base |-> base]])
       ELSE UNCHANGED req
  /\ UNCHANGED <<rows, lastId, faults, failed, raced, patched, lost>>

\* networks.name is unique: the second insert of a name is a 500.
CommitNetwork(h) ==
  /\ Is(h, {"newnet"}, "commit")
  /\ IF \E n \in networks : n.name = req[h].lab.name
       THEN lost' = lost \cup {req[h].lab.net} /\ UNCHANGED networks
       ELSE networks' = networks \cup {req[h].lab} /\ UNCHANGED lost
  /\ Ends(h)
  /\ UNCHANGED <<docker, devices, links, lastId, count, faults, failed, raced, patched>>

DeleteNetwork(h, n) ==
  /\ Arrives(h, "dropnet")
  /\ Goes(h, [Idle EXCEPT !.kind = "dropnet", !.pc = "check", !.lab = n])
  /\ UNCHANGED <<docker, rows, lastId, faults, failed, raced, patched, lost>>

Members(n) == {r \in devices : r.net = n.net}

\* 409 while devices are attached.
CheckNetwork(h) ==
  /\ Is(h, {"dropnet"}, "check")
  /\ IF Members(req[h].lab) # {} THEN Ends(h)
                                      ELSE Goes(h, [req[h] EXCEPT !.pc = "remove"])
  /\ UNCHANGED <<docker, rows, lastId, count, faults, failed, raced, patched, lost>>

Creating == {g \in Handlers : req[g].kind = "newnet"}

RemoveNetwork(h) ==
  LET o == remove_docker_network(docker, req[h].lab.net) IN
  /\ Is(h, {"dropnet"}, "remove") /\ docker' = o.d
  /\ IF o.err = "ok" THEN Goes(h, [req[h] EXCEPT !.pc = "load"]) ELSE Ends(h)
  /\ lost' = lost \cup {req[g].lab.net : g \in {x \in Creating : req[x].lab.net = o.id}}
  /\ UNCHANGED <<rows, lastId, count, faults, failed, raced, patched>>

\* The flush of db.delete(network) first loads network.devices...
LoadMembers(h) ==
  /\ Is(h, {"dropnet"}, "load")
  /\ Goes(h, [req[h] EXCEPT !.pc = "commit", !.seen = Members(req[h].lab)])
  /\ UNCHANGED <<docker, rows, lastId, count, faults, failed, raced, patched, lost>>

CommitDropNetworkKeep(h) ==   \* mutant: the delete is not committed
  /\ Is(h, {"dropnet"}, "commit") /\ Ends(h)
  /\ UNCHANGED <<docker, rows, lastId, count, faults, failed, raced, patched, lost>>

\* ... and clears their network_id; a member it did not see, or one that has
\* gone, fails the transaction.  It waits for inserts that refer to the row.
CommitDropNetwork(h) ==
  LET n == req[h].lab IN
  /\ Is(h, {"dropnet"}, "commit")
  /\ \A g \in Handlers : req[g].kind = "create" => \A r \in req[g].made : r.net # n.net
  /\ IF {r.id : r \in Members(n)} = {r.id : r \in req[h].seen}
       THEN /\ networks' = networks \ {n}
            /\ devices' = {IF r.net = n.net THEN [r EXCEPT !.net = None] ELSE r : r \in devices}
            /\ UNCHANGED lost
       ELSE lost' = lost \cup {n.net} /\ UNCHANGED <<networks, devices>>
  /\ Ends(h)
  /\ UNCHANGED <<docker, links, lastId, count, faults, failed, raced, patched>>

-----------------------------------------------------------------------------
(* POST /api/devices and /api/devices/bulk: one device, or several in turn. *)

CreateDevices(h, n, ips) ==
  /\ Arrives(h, "create") /\ ips # <<>>
  /\ Goes(h, [Idle EXCEPT !.kind = "create", !.pc = "insert", !.lab = n, !.todo = ips])
  /\ UNCHANGED <<docker, rows, lastId, faults, failed, raced, patched, lost>>

Taken(ip, h) == \E r \in devices \cup req[h].made : r.ip = ip

NewRow(h, ip) == [id |-> lastId + 1, ip |-> ip, net |-> req[h].lab.net,
                  comm |-> Public, ctr |-> 0, status |-> "stopped"]

\* flush: devices.ip_address is unique, network_id a foreign key.  An insert
\* of the same address by another handler is waited for.
InsertDevice(h) ==
  LET ip == Head(req[h].todo) IN
  /\ Is(h, {"create"}, "insert")
  /\ \A g \in Handlers \ {h} : req[g].kind = "create" => \A r \in req[g].made : r.ip # ip
  /\ IF Taken(ip, h) \/ req[h].lab \notin networks
       THEN Ends(h) /\ Lose(h) /\ UNCHANGED lastId
       ELSE /\ lastId' = lastId + 1
            /\ Goes(h, [req[h] EXCEPT !.pc = "run", !.row = NewRow(h, ip),
                                      !.made = @ \cup {NewRow(h, ip)}])
            /\ UNCHANGED failed
  /\ UNCHANGED <<docker, rows, count, faults, raced, patched, lost>>

\* _start_container of the device just inserted, then on to the next one.  The
\* first failure rolls all of them back.
LaunchedUp(row, ctr) == [row EXCEPT !.ctr = ctr, !.status = "up"]   \* mutant
Launched(row, ctr) == [row EXCEPT !.ctr = ctr, !.status = "running"]

RunContainer(h) ==
  LET row == req[h].row
      todo == Tail(req[h].todo)
      good == create_device_container(docker, row.id, row.comm, req[h].lab.net, row.ip)
      bad == BrokenCreates(docker, row.id, row.comm, req[h].lab.net, row.ip) IN
  /\ Is(h, {"create"}, "run")
  /\ \/ good.err = "ok" /\ docker' = good.d
        /\ Goes(h, [req[h] EXCEPT !.pc = IF todo = <<>> THEN "commit" ELSE "insert",
                      !.todo = todo, !.made = (@ \ {row}) \cup {Launched(row, good.id)}])
        /\ UNCHANGED <<faults, failed>>
     \/ good.err # "ok" /\ docker' = good.d /\ Ends(h) /\ Lose(h) /\ UNCHANGED faults
     \/ Fault /\ (\E o \in bad : docker' = o.d) /\ Ends(h) /\ Lose(h)
  /\ UNCHANGED <<rows, lastId, count, raced, patched, lost>>

CommitCreate(h) ==
  /\ Is(h, {"create"}, "commit")
  /\ devices' = devices \cup req[h].made
  /\ Ends(h)
  /\ UNCHANGED <<docker, networks, links, lastId, count, faults, failed, raced, patched, lost>>

-----------------------------------------------------------------------------
(* start, stop, restart and DELETE of one device.                          *)

Runs == {"start", "restart"}
Operations == Runs \cup {"stop", "delete"}

\* The row is read; the handler works on what it read.
Races(kind, other) ==
  \/ kind \in Runs /\ other \in Runs \cup {"delete"}
  \/ kind = "delete" /\ other \in Runs

Operate(h, kind, r) ==
  /\ kind \in Operations /\ Arrives(h, kind)
  /\ Goes(h, [Idle EXCEPT !.kind = kind, !.pc = "docker", !.row = r])
  /\ raced' = IF \E g \in Handlers : /\ req[g].kind \in Operations
                                     /\ req[g].row.id = r.id /\ Races(kind, req[g].kind)
                THEN raced \cup {r.id} ELSE raced
  /\ UNCHANGED <<docker, rows, lastId, faults, failed, patched, lost>>

RemovesNothing(h) == docker   \* mutant: only the row is changed
Removes(h) ==
  IF req[h].row.ctr = 0 THEN docker ELSE stop_and_remove_container(docker, req[h].row.ctr)

\* stop and delete remove the container the row names, restart too.
StopContainer(h) ==
  /\ Is(h, {"stop", "delete"}, "docker")
  /\ docker' = Removes(h)
  /\ Goes(h, [req[h] EXCEPT !.pc = "commit"])
  /\ UNCHANGED <<rows, lastId, count, faults, failed, raced, patched, lost>>

\* device.network is read again before the container is created.
StartContainer(h) ==
  LET row == req[h].row
      d == IF req[h].kind = "restart" THEN Removes(h) ELSE docker
      good == create_device_container(d, row.id, row.comm, row.net, row.ip)
      bad == BrokenCreates(d, row.id, row.comm, row.net, row.ip) IN
  /\ Is(h, Runs, "docker")
  /\ IF ~HasNetwork(row)
       THEN docker' = d /\ Ends(h) /\ Lose(h) /\ UNCHANGED faults
       ELSE \/ /\ docker' = good.d /\ UNCHANGED faults
               /\ IF good.err = "ok"
                    THEN /\ Goes(h, [req[h] EXCEPT !.pc = "commit", !.made = {Launched(row, good.id)}])
                         /\ UNCHANGED failed
                    ELSE Ends(h) /\ Lose(h)
            \/ Fault /\ (\E o \in bad : docker' = o.d) /\ Ends(h) /\ Lose(h)
  /\ UNCHANGED <<rows, lastId, count, raced, patched, lost>>

\* An UPDATE writes the columns that differ from what was read; if it finds no
\* row the request fails.
UpdateStopless(h, r) ==   \* mutant: stop does not set the status
  IF req[h].made = {} THEN r
  ELSE [r EXCEPT !.ctr = (CHOOSE n \in req[h].made : TRUE).ctr, !.status = "running"]
Update(h, r) ==
  LET new == CHOOSE n \in req[h].made : TRUE
      status == IF req[h].kind = "stop" THEN "stopped" ELSE "running"
  IN [r EXCEPT !.ctr    = IF req[h].kind = "stop" THEN @ ELSE new.ctr,
               !.status = IF req[h].row.status # status THEN status ELSE @]

CommitOperate(h) ==
  LET id == req[h].row.id IN
  /\ Is(h, Runs \cup {"stop"}, "commit")
  /\ devices' = (devices \ RowsOf(id)) \cup {Update(h, r) : r \in RowsOf(id)}
  /\ failed' = IF RowsOf(id) = {} THEN failed \cup Busy(h)
               ELSE IF req[h].kind \in Runs THEN failed \ {id} ELSE failed
  /\ patched' = IF req[h].kind \notin Runs THEN patched
                ELSE IF req[h].behind THEN patched \cup {id} ELSE patched \ {id}
  /\ Ends(h)
  /\ UNCHANGED <<docker, networks, links, lastId, count, faults, raced, lost>>

\* PATCH /api/devices/{id}: the row only.  It is an UPDATE of what differs from
\* what was read; a row that is gone is a 500.
Patch(h, r, comm) ==
  /\ Arrives(h, "patch")
  /\ Goes(h, [Idle EXCEPT !.kind = "patch", !.pc = "patch", !.row = r, !.comm = comm])
  /\ UNCHANGED <<docker, rows, lastId, faults, failed, raced, patched, lost>>

PatchesRow(h, r) == r.id = req[h].row.id /\ req[h].row.comm # req[h].comm

CommitPatch(h) ==
  /\ Is(h, {"patch"}, "patch")
  /\ devices' = {IF PatchesRow(h, r) THEN [r EXCEPT !.comm = req[h].comm] ELSE r : r \in devices}
  /\ patched' = patched \cup {r.id : r \in {x \in devices : PatchesRow(h, x)}}
  /\ req' = [g \in Handlers |->
       IF g = h THEN Idle
       ELSE IF req[g].kind \in Runs /\ PatchesRow(h, req[g].row) THEN [req[g] EXCEPT !.behind = TRUE]
       ELSE req[g]]
  /\ UNCHANGED <<docker, networks, links, lastId, count, faults, failed, raced, lost>>

LinkedNever(id) == FALSE   \* mutant: no foreign key from topology_links
Linked(id) == \E l \in links : l.src = id \/ l.dst = id

\* topology_links refers to devices, and its columns cannot be cleared: a linked
\* device stays.  A link being inserted is waited for.
CommitDelete(h) ==
  LET id == req[h].row.id IN
  /\ Is(h, {"delete"}, "commit")
  /\ \A g \in Handlers : Is(g, {"link"}, "commit") =>
                           id \notin {req[g].lnk.src, req[g].lnk.dst}
  /\ IF Linked(id) THEN Lose(h) /\ UNCHANGED devices
                   ELSE devices' = devices \ RowsOf(id) /\ UNCHANGED failed
  /\ Ends(h)
  /\ UNCHANGED <<docker, networks, links, lastId, count, faults, raced, patched, lost>>

-----------------------------------------------------------------------------
\* Redis, the database or the daemon fails while a handler awaits: the
\* transaction is rolled back and nothing else is.
Abort(h) ==
  /\ Fault
  /\ req[h] # Idle /\ Ends(h)
  /\ IF req[h].pc \in {"docker", "patch"} THEN UNCHANGED failed ELSE Lose(h)
  /\ lost' = IF Is(h, {"newnet"}, "commit") \/ Is(h, {"dropnet"}, "load") \/ Is(h, {"dropnet"}, "commit")
               THEN lost \cup {req[h].lab.net} ELSE lost
  /\ UNCHANGED <<docker, rows, lastId, count, raced, patched>>

DeviceStep(h) ==
  \/ CommitNetwork(h) \/ CheckNetwork(h) \/ RemoveNetwork(h) \/ LoadMembers(h)
  \/ CommitDropNetwork(h)
  \/ InsertDevice(h) \/ RunContainer(h) \/ CommitCreate(h)
  \/ StopContainer(h) \/ StartContainer(h) \/ CommitOperate(h) \/ CommitDelete(h)
  \/ CommitPatch(h)
  \/ Abort(h)

IpLists == UNION {[1..n -> Ips] : n \in 1..MaxBulk}

DeviceRequest(h) ==
  \/ \E l \in Labs : CreateNetwork(h, l, LabBase[l])
  \/ \E n \in networks : DeleteNetwork(h, n)
  \/ \E n \in networks, ips \in IpLists : CreateDevices(h, n, ips)
  \/ \E kind \in Operations, r \in devices : Operate(h, kind, r)
  \/ \E r \in devices, c \in Communities : Patch(h, r, c)

DeviceNext == \E h \in Handlers : DeviceRequest(h) \/ DeviceStep(h)

DeviceSpec == Init /\ [][DeviceNext]_labVars

-----------------------------------------------------------------------------
NetworkRow == [name : Labs, net : Nat, base : Nat]
DeviceRow  == [id : Nat, ip : Nat, net : Nat \cup {None}, comm : Communities, ctr : Nat,
               status : {"running", "stopped"}]
\* No row is the lack of one.
ASSUME NoneAssumption == None \notin DeviceRow
LinkRow    == [id : Nat, src : Nat, dst : Nat, net : Nat]

TypeOK ==
  /\ docker \in [ctrs : SUBSET [id : Nat, dev : Nat, comm : Communities, up : BOOLEAN],
                 nets : SUBSET [id : Nat, name : Labs \cup (Nat \X Nat), base : Nat],
                 ends : SUBSET [ctr : Nat, net : Nat, ip : Nat], next : Nat]
  /\ networks \subseteq NetworkRow /\ devices \subseteq DeviceRow
  /\ links \subseteq LinkRow
  /\ \A h \in Handlers : req[h].made \subseteq DeviceRow /\ req[h].seen \subseteq DeviceRow \cup LinkRow
  /\ lastId \in Nat /\ count \in 0..MaxRequests /\ faults \in 0..MaxFaults
  /\ failed \subseteq Nat /\ raced \subseteq Nat /\ patched \subseteq Nat /\ lost \subseteq Nat

InHand(c) == \E h \in Handlers : \E r \in req[h].made : r.ctr = c.id
Owned(c)  == \E r \in devices : r.id = c.dev /\ r.ctr = c.id

\* An agent runs for a device row that knows its container, or for a request
\* still at work, unless a request for that device failed half way, or a start
\* or restart of it met another or a delete.  The next start or restart heals
\* what a failure left; a stop or a delete does not.
OrphansExplained ==
  \A c \in docker.ctrs :
    c.up => Owned(c) \/ InHand(c) \/ c.dev \in failed \cup raced

\* A row that says running has its container, unless a handler is busy with the
\* device, a request for it failed half way, or two of them met.
WorkedOn(id) == \E h \in Handlers : req[h].kind \in Operations /\ req[h].row.id = id

RunningBacked ==
  \A r \in devices :
    r.status = "running" =>
      r.ctr \in Running(docker) \/ WorkedOn(r.id) \/ r.id \in failed \cup raced

\* The Docker network under a running device is never taken away: the 409 check
\* is not enough for that, the daemon's refusal to remove a network in use is.
RunningHasNetwork ==
  \A r \in devices :
    r.ctr \in Running(docker) => HasNetwork(r) /\ r.net \in Networks(docker)

\* The network rows are Docker's lab networks, row for network, apart from those
\* of a request at work or of one that failed half way: a row may name a network
\* that is gone, and a network may be left without a row, but only so.
NetworksExplained ==
  /\ \A n \in networks :
       \/ n.net \in Networks(docker) \cup lost
       \/ \E h \in Handlers : req[h].kind = "dropnet" /\ req[h].lab.net = n.net
  /\ \A n \in docker.nets :
       n.name \in Labs =>
         \/ n.id \in lost \cup {r.net : r \in networks}
         \/ \E h \in Creating : req[h].lab.net = n.id

\* The agent a row names answers to the row's community, unless that was changed
\* since the start that made the agent read it: then only a start or restart that
\* reads the row afterwards brings the two together.
CommunityServed ==
  \A r \in devices, c \in docker.ctrs :
    c.id = r.ctr => c.comm = r.comm \/ r.id \in patched
=============================================================================
