-------------------------------- MODULE Docker -------------------------------
(***************************************************************************)
(* backend/app/services/docker_service.py over the Docker daemon.  The SDK *)
(* calls are synchronous: nothing else of the backend runs between two of  *)
(* them, so each helper is an operator from a daemon state to its outcomes *)
(* and a handler applies several in one step.                              *)
(*                                                                         *)
(* A daemon state is [ctrs, nets, ends, next]: containers [id, dev, comm,  *)
(* up] named after their device, with the SNMP community in their          *)
(* environment, networks [id, name, base], endpoints [ctr, net, ip], and   *)
(* the next id, never used twice.  Addresses are numbers and every subnet  *)
(* is the eight addresses from its base.                                   *)
(***************************************************************************)
EXTENDS Integers, FiniteSets

NoDocker == [ctrs |-> {}, nets |-> {}, ends |-> {}, next |-> 1]

Containers(d) == {c.id : c \in d.ctrs}
Networks(d)   == {n.id : n \in d.nets}
Running(d)    == {c.id : c \in {x \in d.ctrs : x.up}}

Subnet(base) == base..(base + 7)

\* What a helper returns: the daemon state, an id, and "ok" or what it raised.
Out(d, id, err) == [d |-> d, id |-> id, err |-> err]

Named(d, name) == {n \in d.nets : n.name = name}

\* create_docker_network: an existing network of that name is returned as it
\* is; the daemon refuses a subnet that another network has.
AddNetwork(d, name, base) ==
  [d EXCEPT !.nets = @ \cup {[id |-> d.next, name |-> name, base |-> base]},
            !.next = @ + 1]

create_docker_network(d, name, base) ==
  IF Named(d, name) # {}
    THEN Out(d, (CHOOSE n \in Named(d, name) : TRUE).id, "ok")
  ELSE IF \E n \in d.nets : n.base = base
    THEN Out(d, 0, "ipam")
  ELSE Out(AddNetwork(d, name, base), d.next, "ok")

\* remove_docker_network: the daemon keeps a network with endpoints; one that
\* is not there is ignored.
remove_docker_network_forced(d, net) ==   \* mutant: its endpoints are dropped
  Out([d EXCEPT !.nets = {n \in @ : n.id # net}], net, "ok")
remove_docker_network_kept(d, net) == Out(d, net, "ok")   \* mutant: never removed
remove_docker_network(d, net) ==
  IF \E e \in d.ends : e.net = net
    THEN Out(d, net, "active")
    ELSE Out([d EXCEPT !.nets = {n \in @ : n.id # net}], net, "ok")

\* network.connect, with what the daemon refuses.
Connect(d, ctr, net, ip) ==
  LET added == [d EXCEPT !.ends = @ \cup {[ctr |-> ctr, net |-> net, ip |-> ip]}]
      err == IF ctr \notin Containers(d) \/ net \notin Networks(d) THEN "gone"
             ELSE IF \E e \in d.ends : e.ctr = ctr /\ e.net = net THEN "attached"
             ELSE IF \E n \in d.nets : n.id = net /\ ip \notin Subnet(n.base) THEN "subnet"
             ELSE IF \E e \in d.ends : e.net = net /\ e.ip = ip THEN "inuse"
             ELSE "ok"
  IN Out(IF err = "ok" THEN added ELSE d, ctr, err)

attach_container_to_network(d, ctr, net, ip) == Connect(d, ctr, net, ip)

\* detach_container_from_network ignores whatever the daemon says.
detach_container_from_network(d, ctr, net) ==
  [d EXCEPT !.ends = {e \in @ : ~(e.ctr = ctr /\ e.net = net)}]

\* stop_and_remove_container: the endpoints go with the container.
Without(d, gone) ==
  [d EXCEPT !.ctrs = {c \in @ : c.id \notin gone},
            !.ends = {e \in @ : e.ctr \notin gone}]

stop_and_remove_container(d, ctr) == Without(d, {ctr})

\* create_device_container: the device's old container goes, a new one is
\* created, and it starts if the daemon can give it its address.
OldOf(d, dev) == {c \in d.ctrs : c.dev = dev}

CreateAgain(d, dev, comm) ==   \* mutant: the old one's environment is used again
  LET left == Without(d, {c.id : c \in OldOf(d, dev)})
      env == IF OldOf(d, dev) = {} THEN comm ELSE (CHOOSE c \in OldOf(d, dev) : TRUE).comm
  IN [left EXCEPT !.ctrs = @ \cup {[id |-> d.next, dev |-> dev, comm |-> env, up |-> FALSE]},
                  !.next = @ + 1]
Create(d, dev, comm) ==
  LET left == Without(d, {c.id : c \in OldOf(d, dev)})
  IN [left EXCEPT !.ctrs = @ \cup {[id |-> d.next, dev |-> dev, comm |-> comm, up |-> FALSE]},
                  !.next = @ + 1]

Start(d, ctr) ==
  [d EXCEPT !.ctrs = {IF c.id = ctr THEN [c EXCEPT !.up = TRUE] ELSE c : c \in @}]

create_device_container(d, dev, comm, net, ip) ==
  LET made == Create(d, dev, comm)
      plug == Connect(made, d.next, net, ip)
  IN IF plug.err = "ok" THEN Out(Start(plug.d, d.next), d.next, "ok")
                        ELSE Out(made, d.next, plug.err)

\* A failing daemon stops create_device_container before the old container is
\* removed, before the create, before the start, or at the internal network,
\* with the agent already running.
BrokenCreates(d, dev, comm, net, ip) ==
  LET full == create_device_container(d, dev, comm, net, ip)
  IN {Out(d, 0, "docker"),
      Out(Without(d, {c.id : c \in OldOf(d, dev)}), d.next, "docker"),
      Out(Create(d, dev, comm), d.next, "docker"),
      Out(full.d, d.next, "docker")}
=============================================================================
