------------------------------- MODULE Topology ------------------------------
(***************************************************************************)
(* Topology links (routers/topology.py, services/topology_service.py): a   *)
(* link is a Docker network of its own with both devices' containers on    *)
(* it.  The handlers interleave with those of Devices, which replace and   *)
(* remove the containers.  The interface status they write to Redis is     *)
(* OidPush's; here it is one more await that may fail.                     *)
(***************************************************************************)
EXTENDS Devices

CONSTANT SelfLinks   \* do clients link a device to itself?

ASSUME TopologyAssumption == SelfLinks \in BOOLEAN

\* Nobody names a lab network as provision_link names a link's; the code
\* does not check.
ASSUME NamesAssumption == Labs \cap (Nat \X Nat) = {}

VARIABLES
  strays,   \* link networks that a failed request left
  halved,   \* links whose network a teardown removed that then failed
  unplugged,  \* links a failed teardown took a container off, the network left
  shared,   \* link networks that were given to two links
  rewired,  \* devices whose container was removed
  freed     \* was a link ever deleted?

histVars == <<strays, halved, unplugged, shared, rewired, freed>>
topoVars == <<labVars, histVars>>

\* _allocate_link_subnet: the base address, inside 172.20.0.0/16, of the
\* block of index i, and the addresses of its two ends.
BaseOf(i) ==
  LET third  == ((i * 8) \div 256) % 256
      fourth == (i * 8) % 256
  IN third * 256 + fourth
Ip1(base) == base + 2
Ip2(base) == base + 3

TopoInit ==
  Init /\ strays = {} /\ halved = {} /\ unplugged = {} /\ shared = {}
       /\ rewired = {} /\ freed = FALSE

-----------------------------------------------------------------------------
\* POST /api/topology/links reads both devices...
CreateLink(h, s, d) ==
  /\ Arrives(h, "link")
  /\ Goes(h, [Idle EXCEPT !.kind = "link", !.pc = "count", !.row = s, !.peer = d,
                !.lnk = [id |-> count', src |-> s.id, dst |-> d.id, net |-> 0]])
  /\ UNCHANGED <<docker, rows, lastId, faults, failed, raced, patched, lost, histVars>>

\* ... and the links there are: their number picks the block.
NextIndexOwn(h) ==   \* mutant: the links of the source device
  Cardinality({l \in links : l.src = req[h].row.id})
NextIndex(h) == Cardinality(links)

CountLinks(h) ==
  /\ Is(h, {"link"}, "count")
  /\ Goes(h, [req[h] EXCEPT !.pc = "wire", !.index = NextIndex(h), !.seen = links])
  /\ UNCHANGED <<docker, rows, lastId, count, faults, failed, raced, patched, lost, histVars>>

\* The network of the pair is created or found, the containers attached.  Each
\* call may be refused; what the ones before it did stays.
PlugInNever(d, row, net, ip) ==   \* mutant: the test is the wrong way round
  IF row.ctr # 0 THEN Out(d, 0, "ok") ELSE attach_container_to_network(d, row.ctr, net, ip)
PlugIn(d, row, net, ip) ==
  IF row.ctr = 0 THEN Out(d, 0, "ok") ELSE attach_container_to_network(d, row.ctr, net, ip)

Wiring(h) ==
  LET r == req[h]
      base == BaseOf(r.index)
      made == create_docker_network(docker, <<r.row.id, r.peer.id>>, base)
      one  == PlugIn(made.d, r.row, made.id, Ip1(base))
      two  == PlugIn(one.d, r.peer, made.id, Ip2(base))
  IN [net |-> made.id, stages |-> {docker, made.d, one.d},
      out |-> IF made.err # "ok" THEN made ELSE IF one.err # "ok" THEN one ELSE two]

Stray(net) == strays' = strays \cup ({net} \cap Networks(docker'))

HasNet(net) == \/ \E l \in links : l.net = net
               \/ \E g \in Handlers : req[g].kind = "link" /\ req[g].lnk.net = net

WireLink(h) ==
  LET w == Wiring(h) IN
  /\ Is(h, {"link"}, "wire")
  /\ \/ /\ w.out.err = "ok" /\ docker' = w.out.d
        /\ Goes(h, [req[h] EXCEPT !.pc = "insert", !.lnk.net = w.net])
        /\ shared' = IF HasNet(w.net) THEN shared \cup {w.net} ELSE shared
        /\ UNCHANGED <<strays, faults>>
     \/ /\ w.out.err # "ok" /\ docker' = w.out.d
        /\ Ends(h) /\ Stray(w.net) /\ UNCHANGED <<shared, faults>>
     \/ /\ Fault /\ docker' \in w.stages /\ Ends(h) /\ Stray(w.net)
        /\ UNCHANGED shared
  /\ UNCHANGED <<rows, lastId, count, failed, raced, patched, lost,
                 halved, unplugged, rewired, freed>>

\* flush: both devices must still be there.
InsertLink(h) ==
  LET l == req[h].lnk IN
  /\ Is(h, {"link"}, "insert")
  /\ IF RowsOf(l.src) # {} /\ RowsOf(l.dst) # {}
       THEN Goes(h, [req[h] EXCEPT !.pc = "commit"]) /\ UNCHANGED strays
       ELSE Ends(h) /\ strays' = strays \cup {l.net}
  /\ UNCHANGED <<docker, rows, lastId, count, faults, failed, raced, patched, lost,
                 halved, unplugged, shared, rewired, freed>>

CommitLink(h) ==
  /\ Is(h, {"link"}, "commit")
  /\ links' = links \cup {req[h].lnk}
  /\ Ends(h) /\ strays' = strays \ {req[h].lnk.net}
  /\ UNCHANGED <<docker, networks, devices, lastId, count, faults, failed, raced, patched, lost,
                 halved, unplugged, shared, rewired, freed>>

-----------------------------------------------------------------------------
\* DELETE /api/topology/links/{id} reads the link and its devices...
DeleteLink(h, l) ==
  /\ Arrives(h, "unlink")
  /\ \E s \in RowsOf(l.src), d \in RowsOf(l.dst) :
       Goes(h, [Idle EXCEPT !.kind = "unlink", !.pc = "unwire", !.row = s, !.peer = d,
                            !.lnk = l])
  /\ UNCHANGED <<docker, rows, lastId, faults, failed, raced, patched, lost, histVars>>

\* ... takes the containers off the network and the network away...
PlugOut(d, row, net) ==
  IF row.ctr = 0 THEN d ELSE detach_container_from_network(d, row.ctr, net)

Unplug(l) ==
  unplugged' = IF docker'.ends = docker.ends THEN unplugged ELSE unplugged \cup {l.id}

\* The daemon may fail at any of the three calls, which the two that
\* detach do not tell.
UnwireLink(h) ==
  LET l == req[h].lnk
      one == PlugOut(docker, req[h].row, l.net)
      two == PlugOut(one, req[h].peer, l.net)
      end == remove_docker_network(two, l.net) IN
  /\ Is(h, {"unlink"}, "unwire")
  /\ \/ /\ end.err = "ok" /\ docker' = end.d /\ Goes(h, [req[h] EXCEPT !.pc = "commit"])
        /\ UNCHANGED <<faults, unplugged>>
     \/ /\ end.err # "ok" /\ docker' = end.d /\ Ends(h) /\ Unplug(l)
        /\ UNCHANGED faults
     \/ /\ Fault /\ docker' \in {docker, one, PlugOut(docker, req[h].peer, l.net), two}
        /\ Ends(h) /\ Unplug(l)
  /\ UNCHANGED <<rows, lastId, count, failed, raced, patched, lost,
                 strays, halved, shared, rewired, freed>>

CommitUnlinkKeep(h) ==   \* mutant: the delete is not committed
  /\ Is(h, {"unlink"}, "commit") /\ Ends(h)
  /\ UNCHANGED <<docker, rows, lastId, count, faults, failed, raced, patched, lost, histVars>>

\* ... and deletes the row.  A row that is gone already is no error.
CommitUnlink(h) ==
  /\ Is(h, {"unlink"}, "commit")
  /\ links' = {l \in links : l.id # req[h].lnk.id}
  /\ Ends(h) /\ freed' = (freed \/ links' # links)
  /\ UNCHANGED <<docker, networks, devices, lastId, count, faults, failed, raced, patched, lost,
                 strays, halved, unplugged, shared, rewired>>

-----------------------------------------------------------------------------
\* A provisioning or teardown that fails after its Docker calls is rolled back
\* in the database only.
AbortLink(h) ==
  /\ req[h].kind \in {"link", "unlink"} /\ Abort(h)
  /\ strays' = IF req[h].kind = "link" /\ req[h].pc \in {"insert", "commit"}
                 THEN strays \cup {req[h].lnk.net} ELSE strays
  /\ halved' = IF Is(h, {"unlink"}, "commit") THEN halved \cup {req[h].lnk.id} ELSE halved
  /\ UNCHANGED <<unplugged, shared, rewired, freed>>

OtherStep(h) ==
  /\ req[h].kind \notin {"link", "unlink"}
  /\ DeviceStep(h) \/ DeviceRequest(h)
  /\ rewired' = rewired \cup {c.dev : c \in {x \in docker.ctrs : x.id \notin Containers(docker')}}
  /\ UNCHANGED <<strays, halved, unplugged, shared, freed>>

LinkStep(h) ==
  \/ CountLinks(h) \/ WireLink(h) \/ InsertLink(h) \/ CommitLink(h)
  \/ UnwireLink(h) \/ CommitUnlink(h) \/ AbortLink(h)

LinkRequest(h) ==
  \/ \E s, d \in devices : (s = d => SelfLinks) /\ CreateLink(h, s, d)
  \/ \E l \in links : DeleteLink(h, l)

TopoNext == \E h \in Handlers : LinkRequest(h) \/ LinkStep(h) \/ OtherStep(h)

TopoSpec == TopoInit /\ [][TopoNext]_topoVars

-----------------------------------------------------------------------------
LinkNets(d) == {n \in d.nets : n.name \notin Labs}
Wired(id, net) == \E r \in RowsOf(id) : \E e \in docker.ends : e.ctr = r.ctr /\ e.net = net
Unlinking(l) == \E h \in Handlers : req[h].kind = "unlink" /\ req[h].lnk.id = l.id

\* A link's devices and rows never part: the foreign keys hold whatever the
\* handlers of links and devices do at once.
LinksHaveDevices == \A l \in links : RowsOf(l.src) # {} /\ RowsOf(l.dst) # {}

\* A link network that is no link's and no handler's was left by a request that
\* failed after creating it; no other order of steps leaks one.
StraysExplained ==
  \A n \in LinkNets(docker) : HasNet(n.id) \/ n.id \in strays

\* A committed link has its network, unless it is being torn down, a teardown
\* of it failed at the commit, or the network was given to another link as
\* well.  A teardown that fails earlier leaves the network.
LinkHasNetwork ==
  \A l \in links :
    l.net \in Networks(docker) \/ Unlinking(l) \/ l.id \in halved \/ l.net \in shared

\* Both containers of such a link are on it, unless one has been replaced or
\* removed since, or a teardown failed after it had detached one: the link is
\* listed and its network is there, with nothing or half of it on.
LinkWired ==
  \A l \in links :
    Unlinking(l) \/ l.id \in halved \cup unplugged \/ l.net \in shared
      \/ \A id \in {l.src, l.dst} : Wired(id, l.net) \/ id \in rewired

\* A block is taken when it is asked for only if a link was deleted, a failed
\* request left its network, another link was made since they were counted, a
\* lab network has it, or the pool has wrapped round.
Blocked(h) == Is(h, {"link"}, "wire") /\ Wiring(h).out.err = "ipam"

BlockTakenExplained ==
  \A h \in Handlers :
    Blocked(h) =>
      \/ freed \/ strays # {}
      \/ req[h].seen # links
      \/ \E g \in Handlers : req[g].kind = "link" /\ req[g].pc \in {"insert", "commit"}
      \/ \E n \in docker.nets : n.name \in Labs /\ n.base = BaseOf(req[h].index)
      \/ req[h].index >= 8192
=============================================================================
