---------------------------- MODULE DevicesProofs ----------------------------
(***************************************************************************)
(* The rows of the database and the daemon's containers and networks:      *)
(* what every step of a handler does to them, and what that leaves true    *)
(* however requests interleave and wherever they fail.  The layers build   *)
(* on one another: types; network ids; device and container ids; networks  *)
(* under running containers; agents and rows; communities.                 *)
(***************************************************************************)
EXTENDS Devices, TLAPS

-----------------------------------------------------------------------------
(* What the daemon's helpers do to containers and attachments.             *)

Container == [id : Nat, dev : Nat, comm : Communities, up : BOOLEAN]
DockerNet == [id : Nat, name : Labs \cup (Nat \X Nat), base : Nat]
Endpoint  == [ctr : Nat, net : Nat, ip : Nat]
DockerType == [ctrs : SUBSET Container, nets : SUBSET DockerNet, ends : SUBSET Endpoint,
               next : Nat]

\* Ids are given out in order and never twice, and attachments end in what is
\* there.
DockerOK(d) ==
  /\ d \in DockerType /\ d.next > 0
  /\ \A c \in d.ctrs : c.id > 0 /\ c.id < d.next
  /\ \A b, c \in d.ctrs : b.id = c.id => b = c
  /\ \A n \in d.nets : n.id < d.next
  /\ \A x \in d.ends : x.ctr \in Containers(d) /\ x.net \in Networks(d)

\* The containers of a device, or one by its id, may go, with their attachments;
\* a new one of it may come, attached to net if it runs.
Handled(d, e, dev, comm, net, gone) ==
  /\ DockerOK(e) /\ e.nets = d.nets /\ e.next \in {d.next, d.next + 1}
  /\ \A c \in e.ctrs :
       \/ c \in d.ctrs
       \/ /\ e.next = d.next + 1 /\ c.id = d.next /\ c.dev = dev /\ c.comm = comm
          /\ c.up => \E x \in e.ends : x.ctr = c.id /\ x.net = net
  /\ \A c \in d.ctrs : c \in e.ctrs \/ c.dev = dev \/ c.id = gone
  /\ \A x \in d.ends : x \in e.ends \/ x.ctr \notin Containers(e)

\* It has come, and is the only one.
Launches(d, e, dev, comm) ==
  /\ e.next = d.next + 1
  /\ [id |-> d.next, dev |-> dev, comm |-> comm, up |-> TRUE] \in e.ctrs
  /\ \A c \in e.ctrs : c.dev = dev => c.id = d.next

LEMMA WithoutOK ==
  ASSUME NEW d, DockerOK(d), NEW gone
  PROVE  LET e == Without(d, gone) IN
         /\ DockerOK(e) /\ e.nets = d.nets /\ e.next = d.next
         /\ e.ctrs = {c \in d.ctrs : c.id \notin gone}
         /\ e.ends = {x \in d.ends : x.ctr \notin gone}
<1> DEFINE e == Without(d, gone)
<1>1. /\ DOMAIN e = DOMAIN d /\ e.nets = d.nets /\ e.next = d.next
      /\ e.ctrs = {c \in d.ctrs : c.id \notin gone}
      /\ e.ends = {x \in d.ends : x.ctr \notin gone}
  BY DEF Without, DockerOK, DockerType
<1>2. e \in DockerType
  BY <1>1 DEF DockerOK, DockerType, Without
<1> HIDE DEF e
<1>3. Containers(e) = Containers(d) \ gone /\ Networks(e) = Networks(d)
  BY <1>1 DEF Containers, Networks
<1>4. DockerOK(e)
  BY <1>1, <1>2, <1>3 DEF DockerOK
<1>5. QED BY <1>1, <1>4 DEF e

\* Removing one container.
LEMMA RemoveHandles ==
  ASSUME NEW d, DockerOK(d), NEW ctr, NEW dev, NEW comm, NEW net
  PROVE  /\ Handled(d, Without(d, {ctr}), dev, comm, net, ctr)
         /\ ctr \notin Containers(Without(d, {ctr}))
<1> DEFINE e == Without(d, {ctr})
<1>1. /\ DockerOK(e) /\ e.nets = d.nets /\ e.next = d.next
      /\ e.ctrs = {c \in d.ctrs : c.id \notin {ctr}}
      /\ e.ends = {x \in d.ends : x.ctr \notin {ctr}}
  BY WithoutOK
<1> HIDE DEF e
<1>2. ctr \notin Containers(e)
  BY <1>1 DEF Containers
<1>3. Handled(d, e, dev, comm, net, ctr)
  BY <1>1, <1>2 DEF Handled, Containers
<1>4. QED BY <1>2, <1>3 DEF e

\* Nothing is handled as well.
LEMMA NothingHandles ==
  ASSUME NEW d, DockerOK(d), NEW dev, NEW comm, NEW net, NEW gone
  PROVE  Handled(d, d, dev, comm, net, gone)
  BY DEF Handled

LEMMA OldHandles ==
  ASSUME NEW d, DockerOK(d), NEW dev, NEW comm, NEW net, NEW gone
  PROVE  LET e == Without(d, {c.id : c \in OldOf(d, dev)}) IN
         /\ Handled(d, e, dev, comm, net, gone) /\ DockerOK(e) /\ e.next = d.next
         /\ \A c \in e.ctrs : c.dev # dev /\ c \in d.ctrs
<1> DEFINE old == {c.id : c \in OldOf(d, dev)}
           e == Without(d, old)
<1>1. /\ DockerOK(e) /\ e.nets = d.nets /\ e.next = d.next
      /\ e.ctrs = {c \in d.ctrs : c.id \notin old}
      /\ e.ends = {x \in d.ends : x.ctr \notin old}
  BY WithoutOK
<1>2. \A c \in d.ctrs : c.id \in old <=> c.dev = dev
  BY DEF OldOf, DockerOK
<1> HIDE DEF old, e
<1>3. \A x \in d.ends : x.ctr \in old => x.ctr \notin Containers(e)
  BY <1>1 DEF Containers
<1>4. Handled(d, e, dev, comm, net, gone)
  BY <1>1, <1>2, <1>3 DEF Handled
<1>5. QED BY <1>1, <1>2, <1>4 DEF e, old

LEMMA HandledOn ==
  ASSUME NEW d, NEW e, NEW f, NEW dev, NEW comm, NEW net, NEW gone, DockerOK(d),
         Handled(d, e, dev, comm, net, gone), e.next = d.next, Handled(e, f, dev, comm, net, gone)
  PROVE  Handled(d, f, dev, comm, net, gone)
<1>1. d.next \in Nat /\ e.ctrs \subseteq d.ctrs /\ DockerOK(e)
  BY DEF Handled, DockerOK, DockerType
<1>2. \A x \in d.ends : x \in f.ends \/ x.ctr \notin Containers(f)
  <2>1. ASSUME NEW x \in d.ends, x \notin e.ends, x.ctr \in Containers(f) PROVE FALSE
    <3>1. x.ctr \notin Containers(e) /\ x.ctr < d.next
      BY <2>1 DEF Handled, DockerOK, Containers
    <3>2. PICK c \in f.ctrs : c.id = x.ctr
      BY <2>1 DEF Containers
    <3>3. c \in e.ctrs \/ c.id = e.next
      BY DEF Handled
    <3>4. QED BY <1>1, <3>1, <3>2, <3>3 DEF Containers, DockerOK
  <2>2. QED BY <2>1 DEF Handled
<1>3. QED BY <1>1, <1>2 DEF Handled

LEMMA CreateHandles ==
  ASSUME NEW d, DockerOK(d), NEW dev \in Nat, NEW comm \in Communities, NEW net, NEW gone
  PROVE  LET e == Create(d, dev, comm) IN
         /\ Handled(d, e, dev, comm, net, gone) /\ DockerOK(e) /\ e.next = d.next + 1
         /\ \A c \in e.ctrs : c.dev = dev =>
              c = [id |-> d.next, dev |-> dev, comm |-> comm, up |-> FALSE]
         /\ [id |-> d.next, dev |-> dev, comm |-> comm, up |-> FALSE] \in e.ctrs
<1> DEFINE left == Without(d, {c.id : c \in OldOf(d, dev)})
           new == [id |-> d.next, dev |-> dev, comm |-> comm, up |-> FALSE]
           e == Create(d, dev, comm)
<1>1. /\ Handled(d, left, dev, comm, net, gone) /\ DockerOK(left) /\ left.next = d.next
      /\ \A c \in left.ctrs : c.dev # dev /\ c \in d.ctrs
  BY OldHandles
<1>2. e = [left EXCEPT !.ctrs = @ \cup {new}, !.next = @ + 1]
  BY DEF Create
<1>3. new \in Container /\ new.id = d.next /\ new.dev = dev /\ new.comm = comm /\ new.up = FALSE
      /\ d.next \in Nat
  BY DEF Container, DockerOK, DockerType
<1> HIDE DEF left, new, e
<1>4. /\ e.ctrs = left.ctrs \cup {new} /\ e.next = d.next + 1 /\ e.nets = left.nets
      /\ e.ends = left.ends /\ e \in DockerType
  <2>1. left \in DockerType
    BY <1>1 DEF DockerOK
  <2>2. e = [ctrs |-> left.ctrs \cup {new}, nets |-> left.nets, ends |-> left.ends,
             next |-> left.next + 1]
    BY <1>2, <2>1 DEF DockerType
  <2>3. QED BY <1>1, <1>3, <2>1, <2>2 DEF DockerType
<1>5. DockerOK(e)
  <2>1. Containers(left) \subseteq Containers(e) /\ Networks(left) = Networks(e)
    BY <1>4 DEF Containers, Networks
  <2>2. \A c \in e.ctrs : c.id > 0 /\ c.id < e.next
    <3>1. \A c \in left.ctrs : c.id \in Nat /\ c.id > 0 /\ c.id < d.next
      BY <1>1 DEF DockerOK, DockerType, Container
    <3>2. d.next > 0
      BY DEF DockerOK
    <3>3. QED BY <1>3, <1>4, <3>1, <3>2
  <2>3. \A b, c \in e.ctrs : b.id = c.id => b = c
    BY <1>1, <1>3, <1>4 DEF DockerOK
  <2>4. \A n \in e.nets : n.id < e.next
    <3>1. \A n \in left.nets : n.id \in Nat /\ n.id < left.next
      BY <1>1 DEF DockerOK, DockerType, DockerNet
    <3>2. QED BY <1>1, <1>3, <1>4, <3>1
  <2>5. \A x \in e.ends : x.ctr \in Containers(e) /\ x.net \in Networks(e)
    BY <1>1, <1>4, <2>1 DEF DockerOK
  <2>6. QED BY <1>1, <1>3, <1>4, <2>2, <2>3, <2>4, <2>5 DEF DockerOK
<1>6. Handled(left, e, dev, comm, net, gone)
  <2>1. \A c \in e.ctrs : c \in left.ctrs \/ c = new
    BY <1>4
  <2>2. QED BY <1>1, <1>3, <1>4, <1>5, <2>1 DEF Handled
<1>7. Handled(d, e, dev, comm, net, gone)
  BY <1>1, <1>6, HandledOn
<1>8. QED BY <1>1, <1>3, <1>4, <1>5, <1>7 DEF new, e

LEMMA StartHandles ==
  ASSUME NEW d, DockerOK(d), NEW dev \in Nat, NEW comm \in Communities, NEW net, NEW ip \in Nat,
         NEW gone
  PROVE  LET o == create_device_container(d, dev, comm, net, ip) IN
         /\ Handled(d, o.d, dev, comm, net, gone)
         /\ o.err = "ok" => Launches(d, o.d, dev, comm) /\ o.id = d.next /\ net \in Networks(d)
<1> DEFINE made == Create(d, dev, comm)
           plug == Connect(made, d.next, net, ip)
           new == [id |-> d.next, dev |-> dev, comm |-> comm, up |-> FALSE]
           run == [id |-> d.next, dev |-> dev, comm |-> comm, up |-> TRUE]
           end == [ctr |-> d.next, net |-> net, ip |-> ip]
           e == Start(plug.d, d.next)
           o == create_device_container(d, dev, comm, net, ip)
<1>1. /\ Handled(d, made, dev, comm, net, gone) /\ DockerOK(made) /\ made.next = d.next + 1
      /\ \A c \in made.ctrs : c.dev = dev => c = new
      /\ new \in made.ctrs
  BY CreateHandles
<1>2. CASE plug.err # "ok"
  <2>1. o.d = made /\ o.err = plug.err
    BY <1>2 DEF create_device_container, Out
  <2> HIDE DEF o, made, plug
  <2>2. QED BY <1>1, <1>2, <2>1 DEF o
<1>3. CASE plug.err = "ok"
  <2>1. o.d = e /\ o.err = "ok" /\ o.id = d.next
    BY <1>3 DEF create_device_container, Out
  <2>2. /\ plug.d = [made EXCEPT !.ends = @ \cup {end}] /\ net \in Networks(made)
    BY <1>3 DEF Connect, Out
  <2>3. /\ run \in Container /\ run.id = d.next /\ run.dev = dev /\ run.comm = comm /\ run.up = TRUE
        /\ new.id = d.next /\ [new EXCEPT !.up = TRUE] = run
        /\ end.ctr = d.next /\ end.net = net /\ (net \in Nat => end \in Endpoint) /\ d.next \in Nat
    <3>1. d.next \in Nat
      BY DEF DockerOK, DockerType
    <3>2. [new EXCEPT !.up = TRUE] = run
      <4> DEFINE up == [new EXCEPT !.up = TRUE]
      <4>1. /\ DOMAIN up = {"id", "dev", "comm", "up"} /\ up = [k \in DOMAIN up |-> up[k]]
            /\ up.id = d.next /\ up.dev = dev /\ up.comm = comm /\ up.up = TRUE
        OBVIOUS
      <4> HIDE DEF up
      <4>2. up = [id |-> d.next, dev |-> dev, comm |-> comm, up |-> TRUE]
        BY <4>1
      <4>3. QED BY <4>2 DEF up
    <3>3. run \in Container /\ (net \in Nat => end \in Endpoint)
      BY <3>1 DEF Container, Endpoint
    <3>4. QED BY <3>1, <3>2, <3>3
  <2> HIDE DEF made, new, run, end, plug
  <2>4. /\ plug.d.ctrs = made.ctrs /\ plug.d.ends = made.ends \cup {end}
        /\ plug.d.nets = made.nets /\ plug.d.next = made.next
        /\ DOMAIN plug.d = DOMAIN made /\ DOMAIN made = {"ctrs", "nets", "ends", "next"}
    BY <1>1, <2>2 DEF DockerOK, DockerType
  <2>5. /\ e.ctrs = {IF c.id = d.next THEN [c EXCEPT !.up = TRUE] ELSE c : c \in made.ctrs}
        /\ e.ends = made.ends \cup {end} /\ e.nets = made.nets /\ e.next = made.next
        /\ e = [ctrs |-> e.ctrs, nets |-> e.nets, ends |-> e.ends, next |-> e.next]
    <3> DEFINE ctrs == {IF c.id = d.next THEN [c EXCEPT !.up = TRUE] ELSE c : c \in made.ctrs}
    <3>1. e = [plug.d EXCEPT !.ctrs = ctrs]
      BY <2>4 DEF Start
    <3> HIDE DEF ctrs, e
    <3>2. DOMAIN e = {"ctrs", "nets", "ends", "next"} /\ e = [k \in DOMAIN e |-> e[k]]
      BY <2>4, <3>1
    <3>3. e.ctrs = ctrs /\ e.ends = made.ends \cup {end} /\ e.nets = made.nets /\ e.next = made.next
      BY <2>4, <3>1
    <3>4. QED BY <3>2, <3>3 DEF ctrs
  <2>6. \A c \in made.ctrs : c.id = d.next <=> c = new
    BY <1>1, <2>3 DEF DockerOK
  <2>7. e.ctrs = (made.ctrs \ {new}) \cup {run}
    <3> HIDE DEF e
    <3>1. \A c \in made.ctrs : c # new => c \in e.ctrs
      BY <2>5, <2>6
    <3>2. run \in e.ctrs
      BY <1>1, <2>3, <2>5, <2>6
    <3>3. \A c \in e.ctrs : c = run \/ (c \in made.ctrs /\ c # new)
      <4>1. TAKE c \in e.ctrs
      <4>2. PICK b \in made.ctrs : c = IF b.id = d.next THEN [b EXCEPT !.up = TRUE] ELSE b
        BY <2>5
      <4>3. QED BY <2>3, <2>6, <4>2
    <3>4. run # new
      BY DEF run, new
    <3>5. QED BY <3>1, <3>2, <3>3, <3>4
  <2>8. net \in Nat
    BY <1>1, <2>2 DEF Networks, DockerOK, DockerType, DockerNet
  <2> HIDE DEF e
  <2>9. Containers(e) = Containers(made) /\ Networks(e) = Networks(made)
    <3>1. Containers(e) = {c.id : c \in made.ctrs \ {new}} \cup {d.next}
      BY <2>3, <2>7 DEF Containers
    <3>2. Containers(made) = {c.id : c \in made.ctrs \ {new}} \cup {d.next}
      BY <1>1, <2>3 DEF Containers
    <3>3. QED BY <2>5, <3>1, <3>2 DEF Networks
  <2>10. d.next \in Containers(made)
    BY <1>1, <2>3 DEF Containers
  <2>11. DockerOK(e)
    <3>1. e.ctrs \subseteq Container /\ e.ends \subseteq Endpoint
      BY <1>1, <2>3, <2>5, <2>7, <2>8 DEF DockerOK, DockerType
    <3>2. e \in DockerType
      BY <1>1, <2>5, <3>1 DEF DockerOK, DockerType
    <3>3. \A x \in e.ends : x.ctr \in Containers(e) /\ x.net \in Networks(e)
      BY <1>1, <2>2, <2>3, <2>5, <2>9, <2>10 DEF DockerOK
    <3>4. \A b, c \in e.ctrs : b.id = c.id => b = c
      BY <1>1, <2>3, <2>6, <2>7 DEF DockerOK
    <3>5. \A c \in e.ctrs : c.id > 0 /\ c.id < e.next
      BY <1>1, <2>3, <2>5, <2>7 DEF DockerOK
    <3>6. QED BY <1>1, <2>5, <3>2, <3>3, <3>4, <3>5 DEF DockerOK
  <2>12. \A c \in e.ctrs : c = run \/ c \in d.ctrs
    <3>1. \A c \in made.ctrs : c \in d.ctrs \/ c.id = d.next
      BY <1>1 DEF Handled
    <3>2. QED BY <2>6, <2>7, <3>1
  <2>13. \A c \in d.ctrs : c \in e.ctrs \/ c.dev = dev \/ c.id = gone
    <3>1. \A c \in d.ctrs : c # new
      BY <2>3 DEF DockerOK
    <3>2. QED BY <1>1, <2>7, <3>1 DEF Handled
  <2>14. Handled(d, e, dev, comm, net, gone)
    <3>1. \A x \in d.ends : x \in e.ends \/ x.ctr \notin Containers(e)
      BY <1>1, <2>5, <2>9 DEF Handled
    <3>2. end \in e.ends
      BY <2>5
    <3>3. QED BY <1>1, <2>3, <2>5, <2>11, <2>12, <2>13, <3>1, <3>2 DEF Handled
  <2>15. Launches(d, e, dev, comm)
    <3>1. \A c \in e.ctrs : c.dev = dev => c.id = d.next
      BY <1>1, <2>3, <2>7
    <3>2. run \in e.ctrs
      BY <2>7
    <3>3. QED BY <1>1, <2>5, <3>1, <3>2 DEF Launches, run
  <2>16. net \in Networks(d)
    BY <1>1, <2>2 DEF Handled, Networks
  <2>17. QED BY <2>1, <2>14, <2>15, <2>16
<1>4. QED BY <1>2, <1>3

LEMMA BrokenHandles ==
  ASSUME NEW d, DockerOK(d), NEW dev \in Nat, NEW comm \in Communities, NEW net, NEW ip \in Nat,
         NEW gone, NEW o \in BrokenCreates(d, dev, comm, net, ip)
  PROVE  Handled(d, o.d, dev, comm, net, gone)
<1>1. o.d \in {d, Without(d, {c.id : c \in OldOf(d, dev)}), Create(d, dev, comm),
               create_device_container(d, dev, comm, net, ip).d}
  BY DEF BrokenCreates, Out
<1>2. Handled(d, d, dev, comm, net, gone)
  BY NothingHandles
<1>3. Handled(d, Without(d, {c.id : c \in OldOf(d, dev)}), dev, comm, net, gone)
  BY OldHandles
<1>4. Handled(d, Create(d, dev, comm), dev, comm, net, gone)
  BY CreateHandles
<1>5. Handled(d, create_device_container(d, dev, comm, net, ip).d, dev, comm, net, gone)
  BY StartHandles
<1>6. QED BY <1>1, <1>2, <1>3, <1>4, <1>5

-----------------------------------------------------------------------------
(* Types, and what each step does to hands, rows and containers.           *)

LinkKinds == {"link", "unlink"}
Quietly == {"idle", "newnet", "dropnet", "patch"} \cup LinkKinds

HandOK(q) ==
  /\ DOMAIN q = DOMAIN Idle /\ q.kind \in Quietly \cup {"create"} \cup Operations
  /\ q.made \subseteq DeviceRow /\ q.seen \subseteq DeviceRow \cup LinkRow
  /\ q.row = None \/ q.row \in DeviceRow
  /\ q.kind \in {"newnet", "dropnet", "create"} => q.lab \in NetworkRow
  /\ q.kind = "create" => /\ q.todo \in Seq(Ips) /\ q.pc \in {"insert", "run", "commit"}
                          /\ q.pc # "commit" => q.todo # <<>>
                          /\ q.pc = "run" => q.row \in DeviceRow
  /\ q.kind \in Operations => q.row \in DeviceRow /\ q.pc \in {"docker", "commit"}
  /\ q.kind = "patch" => q.row \in DeviceRow /\ q.comm \in Communities /\ q.pc = "patch"
  /\ q.kind \in LinkKinds => /\ q.row \in DeviceRow /\ q.peer \in DeviceRow
                             /\ q.lnk \in LinkRow /\ q.index \in Nat
  /\ q.kind \in Quietly => q.made = {}
  /\ q.kind \in {"idle", "newnet", "dropnet"} => q.row = None
  /\ q.behind \in BOOLEAN

HandsOK == DOMAIN req = Handlers /\ \A h \in Handlers : HandOK(req[h])

DevType ==
  /\ DockerOK(docker) /\ HandsOK
  /\ networks \subseteq NetworkRow /\ devices \subseteq DeviceRow /\ links \subseteq LinkRow
  /\ lastId \in Nat /\ count \in 0..MaxRequests /\ faults \in 0..MaxFaults
  /\ failed \subseteq Nat /\ raced \subseteq Nat /\ patched \subseteq Nat /\ lost \subseteq Nat

\* Only h goes on, with r.
Turns(h, r) == DOMAIN req' = Handlers /\ req'[h] = r /\ \A g \in Handlers \ {h} : req'[g] = req[g]

LEMMA IdleOK ==
  /\ HandOK(Idle) /\ Idle.kind = "idle" /\ Idle.made = {} /\ Idle.row = None
  /\ Idle.seen = {} /\ Idle.behind = FALSE /\ Idle.pc = "-"
  BY DEF HandOK, Idle, Quietly, LinkKinds, Operations, Runs

LEMMA GoesTurns ==
  ASSUME HandsOK, NEW h \in Handlers, NEW r, Goes(h, r), HandOK(r) PROVE Turns(h, r) /\ HandsOK'
<1>1. Turns(h, r)
  BY DEF Goes, HandsOK, Turns
<1>2. \A g \in Handlers : HandOK(req'[g])
  BY <1>1 DEF Turns, HandsOK
<1>3. QED BY <1>1, <1>2 DEF Turns, HandsOK

LEMMA EndsTurns ==
  ASSUME HandsOK, NEW h \in Handlers, Ends(h) PROVE Turns(h, Idle) /\ HandsOK'
  BY IdleOK, GoesTurns DEF Ends, Goes

LEMMA BusyIds == ASSUME HandsOK, NEW h \in Handlers PROVE Busy(h) \subseteq Nat
  BY DEF HandsOK, HandOK, Busy, DeviceRow

-----------------------------------------------------------------------------
\* A step that is nothing to a device: no container comes or goes, no network
\* goes that one is attached to, no row changes.
Quiet(h) ==
  /\ \E r : Turns(h, r) /\ r.made = {} /\ r.kind \notin Operations
            /\ (r.kind = "create" => r.pc = "insert")
  /\ req[h].made = {} /\ req[h].kind \in Quietly
  /\ docker'.ctrs = docker.ctrs /\ docker'.ends = docker.ends /\ docker'.next >= docker.next
  /\ \A e \in docker.ends : e.net \in Networks(docker')
  /\ \A n \in Networks(docker') : n \in Networks(docker) \/ n = docker.next
  /\ networks \subseteq networks'
  /\ failed \subseteq failed' /\ UNCHANGED <<devices, lastId, raced, patched>>

\* A request about devices ends with nothing committed.
Fails(h) ==
  /\ Turns(h, Idle) /\ req[h].kind \in {"create"} \cup Operations
  /\ UNCHANGED <<networks, devices, lastId, raced>>
  /\ \/ failed' = failed \cup Busy(h)
     \/ failed' = failed /\ req[h].kind \in Operations /\ req[h].pc = "docker" /\ docker' = docker
  /\ \A r \in devices : r.id \in patched => r.id \in patched'
  /\ \/ docker' = docker
     \/ /\ req[h].kind = "create" /\ req[h].pc = "run"
        /\ Handled(docker, docker', req[h].row.id, req[h].row.comm, req[h].lab.net, 0)
     \/ /\ req[h].kind \in Runs /\ req[h].pc = "docker"
        /\ Handled(docker, docker', req[h].row.id, req[h].row.comm, req[h].row.net, req[h].row.ctr)

\* What most steps leave as it is.
LEMMA SameDocker ==
  ASSUME DevType, docker' = docker
  PROVE  /\ DockerOK(docker') /\ docker'.ctrs = docker.ctrs /\ docker'.ends = docker.ends
         /\ docker'.next >= docker.next
         /\ \A e \in docker.ends : e.net \in Networks(docker')
         /\ \A n \in Networks(docker') : n \in Networks(docker) \/ n = docker.next
  BY DEF DevType, DockerOK, DockerType

LEMMA NetworkAdded ==
  ASSUME DevType, NEW lab \in Labs,
         LET o == create_docker_network(docker, lab, LabBase[lab]) IN docker' = o.d
  PROVE  LET o == create_docker_network(docker, lab, LabBase[lab]) IN
         /\ DockerOK(docker') /\ docker'.ctrs = docker.ctrs /\ docker'.ends = docker.ends
         /\ docker'.next >= docker.next
         /\ \A e \in docker.ends : e.net \in Networks(docker')
         /\ \A n \in Networks(docker') : n \in Networks(docker) \/ n = docker.next
         /\ o.err = "ok" => [name |-> lab, net |-> o.id, base |-> LabBase[lab]] \in NetworkRow
<1> DEFINE base == LabBase[lab]
           o == create_docker_network(docker, lab, base)
           new == [id |-> docker.next, name |-> lab, base |-> base]
           added == AddNetwork(docker, lab, base)
<1>0. DockerOK(docker) /\ docker \in DockerType /\ docker.next \in Nat /\ base \in Nat
  BY DevicesAssumption DEF DevType, DockerOK, DockerType
<1>1. CASE Named(docker, lab) # {}
  <2>1. /\ o.d = docker /\ (CHOOSE n \in Named(docker, lab) : TRUE) \in docker.nets
        /\ o.id = (CHOOSE n \in Named(docker, lab) : TRUE).id
    BY <1>1 DEF create_docker_network, Out, Named
  <2>2. o.id \in Nat
    BY <1>0, <2>1 DEF DockerType, DockerNet
  <2>3. [name |-> lab, net |-> o.id, base |-> base] \in NetworkRow
    BY <1>0, <2>2 DEF NetworkRow
  <2>4. QED BY <2>1, <2>3, SameDocker
<1>2. CASE Named(docker, lab) = {} /\ \E n \in docker.nets : n.base = base
  <2>1. o.d = docker /\ o.err # "ok"
    BY <1>2 DEF create_docker_network, Out
  <2>2. QED BY <2>1, SameDocker
<1>3. CASE Named(docker, lab) = {} /\ ~\E n \in docker.nets : n.base = base
  <2>1. o.d = added /\ o.id = docker.next
    BY <1>3 DEF create_docker_network, Out
  <2>2. added = [ctrs |-> docker.ctrs, nets |-> docker.nets \cup {new}, ends |-> docker.ends,
                 next |-> docker.next + 1]
    <3>1. added = [docker EXCEPT !.nets = @ \cup {new}, !.next = @ + 1]
      BY DEF AddNetwork
    <3> HIDE DEF new, added
    <3>2. QED BY <1>0, <3>1 DEF DockerType
  <2>3. new \in DockerNet /\ new.id = docker.next
    BY <1>0 DEF DockerNet
  <2>4. [name |-> lab, net |-> o.id, base |-> base] \in NetworkRow
    BY <1>0, <2>1 DEF NetworkRow
  <2> HIDE DEF new, o
  <2> DEFINE e == added
  <2>5. /\ e.ctrs = docker.ctrs /\ e.nets = docker.nets \cup {new} /\ e.ends = docker.ends
        /\ e.next = docker.next + 1 /\ e \in DockerType
    BY <1>0, <2>2, <2>3 DEF DockerType
  <2> HIDE DEF e
  <2>6. Containers(e) = Containers(docker) /\ Networks(e) = Networks(docker) \cup {docker.next}
    BY <2>3, <2>5 DEF Containers, Networks
  <2>7. DockerOK(e)
    <3>1. \A c \in docker.ctrs : c.id \in Nat /\ c.id < docker.next
      BY <1>0 DEF DockerOK, DockerType, Container
    <3>2. \A n \in docker.nets : n.id \in Nat /\ n.id < docker.next
      BY <1>0 DEF DockerOK, DockerType, DockerNet
    <3>3. e.next > 0 /\ (\A c \in e.ctrs : c.id < e.next) /\ \A n \in e.nets : n.id < e.next
      BY <1>0, <2>3, <2>5, <3>1, <3>2
    <3>4. QED BY <1>0, <2>5, <2>6, <3>3 DEF DockerOK
  <2>8. \A x \in docker.ends : x.net \in Networks(docker)
    BY <1>0 DEF DockerOK
  <2>9. docker' = e
    BY <2>1 DEF e, o
  <2>10. QED BY <1>0, <2>4, <2>5, <2>6, <2>7, <2>8, <2>9 DEF o
<1>4. QED BY <1>1, <1>2, <1>3

LEMMA NetworkRemoved ==
  ASSUME DevType, NEW net, docker' = remove_docker_network(docker, net).d
  PROVE  /\ DockerOK(docker') /\ docker'.ctrs = docker.ctrs /\ docker'.ends = docker.ends
         /\ docker'.next >= docker.next
         /\ \A e \in docker.ends : e.net \in Networks(docker')
         /\ \A n \in Networks(docker') : n \in Networks(docker) \/ n = docker.next
<1> DEFINE e == [docker EXCEPT !.nets = {n \in @ : n.id # net}]
<1>0. DockerOK(docker) /\ docker \in DockerType
  BY DEF DevType, DockerOK
<1>1. CASE \E x \in docker.ends : x.net = net
  <2>1. docker' = docker
    BY <1>1 DEF remove_docker_network, Out
  <2>2. QED BY <2>1, SameDocker
<1>2. CASE ~\E x \in docker.ends : x.net = net
  <2>1. docker' = e
    BY <1>2 DEF remove_docker_network, Out
  <2>2. e = [ctrs |-> docker.ctrs, nets |-> {n \in docker.nets : n.id # net},
             ends |-> docker.ends, next |-> docker.next]
    BY <1>0 DEF DockerType
  <2> HIDE DEF e
  <2>3. /\ e.ctrs = docker.ctrs /\ e.nets = {n \in docker.nets : n.id # net}
        /\ e.ends = docker.ends /\ e.next = docker.next /\ e \in DockerType
    BY <1>0, <2>2 DEF DockerType
  <2>4. Containers(e) = Containers(docker) /\ Networks(e) = Networks(docker) \ {net}
    BY <2>3 DEF Containers, Networks
  <2>5. \A x \in docker.ends : x.net \in Networks(e)
    BY <1>0, <1>2, <2>4 DEF DockerOK
  <2>6. DockerOK(e)
    BY <1>0, <2>3, <2>4, <2>5 DEF DockerOK
  <2>7. docker.next \in Nat
    BY <1>0 DEF DockerType
  <2>8. QED BY <2>1, <2>3, <2>4, <2>5, <2>6, <2>7
<1>3. QED BY <1>1, <1>2

DockerSame ==
  /\ DockerOK(docker') /\ docker'.ctrs = docker.ctrs /\ docker'.ends = docker.ends
  /\ docker'.next >= docker.next
  /\ \A e \in docker.ends : e.net \in Networks(docker')
  /\ \A n \in Networks(docker') : n \in Networks(docker) \/ n = docker.next

LEMMA QuietTurns ==
  ASSUME DevType, NEW h \in Handlers, NEW r, Turns(h, r), HandOK(r), r.made = {},
         r.kind \notin Operations, r.kind = "create" => r.pc = "insert",
         req[h].kind \in Quietly, DockerSame,
         networks \subseteq networks', networks' \subseteq NetworkRow,
         UNCHANGED <<devices, links, lastId, failed, raced, patched>>,
         count' \in 0..MaxRequests, faults' \in 0..MaxFaults, lost' \subseteq Nat
  PROVE  DevType' /\ Quiet(h)
<1>1. HandsOK'
  BY DEF DevType, Turns, HandsOK
<1>2. req[h].made = {}
  BY DEF DevType, HandsOK, HandOK
<1>3. Quiet(h)
  BY <1>2 DEF Quiet, DockerSame
<1>4. QED BY <1>1, <1>3 DEF DevType, DockerSame

LEMMA QuietGoes ==
  ASSUME DevType, NEW h \in Handlers, NEW r, Goes(h, r), HandOK(r), r.made = {},
         r.kind \notin Operations, r.kind = "create" => r.pc = "insert",
         req[h].kind \in Quietly, DockerSame,
         networks \subseteq networks', networks' \subseteq NetworkRow,
         UNCHANGED <<devices, links, lastId, failed, raced, patched>>,
         count' \in 0..MaxRequests, faults' \in 0..MaxFaults, lost' \subseteq Nat
  PROVE  DevType' /\ Quiet(h)
<1>1. Turns(h, r)
  BY GoesTurns DEF DevType
<1>2. QED BY <1>1, QuietTurns

LEMMA QuietEnds ==
  ASSUME DevType, NEW h \in Handlers, Ends(h), req[h].kind \in Quietly, DockerSame,
         networks \subseteq networks', networks' \subseteq NetworkRow,
         UNCHANGED <<devices, links, lastId, failed, raced, patched>>,
         count' \in 0..MaxRequests, faults' \in 0..MaxFaults, lost' \subseteq Nat
  PROVE  DevType' /\ Quiet(h)
<1>1. Goes(h, Idle)
  BY DEF Ends, Goes
<1>2. Idle.kind \notin Operations /\ Idle.kind # "create"
  BY IdleOK DEF Operations, Runs
<1>3. QED BY <1>1, <1>2, IdleOK, QuietGoes

LEMMA Counted ==
  ASSUME DevType PROVE /\ count < MaxRequests /\ count' = count + 1 => count' \in 0..MaxRequests
                       /\ faults < MaxFaults /\ faults' = faults + 1 => faults' \in 0..MaxFaults
  BY DevicesAssumption DEF DevType

LEMMA CreateNetworkEffect ==
  ASSUME DevType, NEW h \in Handlers, NEW lab \in Labs, CreateNetwork(h, lab, LabBase[lab])
  PROVE  DevType' /\ Quiet(h)
<1> DEFINE o == create_docker_network(docker, lab, LabBase[lab])
           row == [name |-> lab, net |-> o.id, base |-> LabBase[lab]]
           r == [Idle EXCEPT !.kind = "newnet", !.pc = "commit", !.lab = row]
<1>1. /\ docker' = o.d /\ req[h] = Idle /\ count < MaxRequests /\ count' = count + 1
      /\ IF o.err = "ok" THEN Goes(h, r) ELSE UNCHANGED req
      /\ UNCHANGED <<networks, devices, links, lastId, faults, failed, raced, patched, lost>>
  BY DEF CreateNetwork, Arrives, rows
<1>2. DockerSame /\ (o.err = "ok" => row \in NetworkRow)
  BY <1>1, NetworkAdded DEF DockerSame
<1>3. /\ count' \in 0..MaxRequests /\ faults' \in 0..MaxFaults /\ lost' \subseteq Nat
      /\ networks \subseteq networks' /\ networks' \subseteq NetworkRow
      /\ UNCHANGED <<devices, links, lastId, failed, raced, patched>>
      /\ req[h].kind \in Quietly
  BY <1>1, Counted, IdleOK DEF DevType, Quietly, LinkKinds
<1>4. CASE o.err = "ok"
  <2> HIDE DEF row
  <2>1. /\ r.kind = "newnet" /\ r.made = {} /\ r.row = None /\ r.seen = {} /\ r.lab = row
        /\ DOMAIN r = DOMAIN Idle /\ r.behind = FALSE
    BY DEF Idle
  <2> HIDE DEF r, o
  <2>2. HandOK(r) /\ r.kind \notin Operations
    BY <1>2, <1>4, <2>1 DEF HandOK, Quietly, LinkKinds, Operations, Runs
  <2>3. Goes(h, r)
    BY <1>1, <1>4
  <2>4. QED BY <1>2, <1>3, <2>1, <2>2, <2>3, QuietGoes
<1>5. CASE o.err # "ok"
  <2>1. Turns(h, Idle)
    BY <1>1, <1>5 DEF Turns, DevType, HandsOK
  <2>2. Idle.kind \notin Operations /\ Idle.kind # "create"
    BY IdleOK DEF Operations, Runs
  <2>3. QED BY <1>2, <1>3, <2>1, <2>2, IdleOK, QuietTurns
<1>6. QED BY <1>4, <1>5

LEMMA Stays ==
  ASSUME DevType
  PROVE  docker' = docker => DockerSame
  BY SameDocker DEF DockerSame

LEMMA LabIds ==
  ASSUME DevType, NEW h \in Handlers, req[h].kind \in {"newnet", "dropnet"}
  PROVE  req[h].lab \in NetworkRow /\ req[h].lab.net \in Nat /\ req[h].kind \in Quietly
  BY DEF DevType, HandsOK, HandOK, NetworkRow, Quietly, LinkKinds

LEMMA CommitNetworkEffect ==
  ASSUME DevType, NEW h \in Handlers, CommitNetwork(h)
  PROVE  DevType' /\ Quiet(h)
<1>1. /\ req[h].kind = "newnet" /\ Ends(h)
      /\ networks' \in {networks, networks \cup {req[h].lab}}
      /\ lost' \in {lost, lost \cup {req[h].lab.net}}
      /\ UNCHANGED <<docker, devices, links, lastId, count, faults, failed, raced, patched>>
  BY DEF CommitNetwork, Is
<1>2. /\ networks' \subseteq NetworkRow /\ networks \subseteq networks' /\ lost' \subseteq Nat
      /\ count' \in 0..MaxRequests /\ faults' \in 0..MaxFaults
      /\ UNCHANGED <<devices, links, lastId, failed, raced, patched>>
      /\ req[h].kind \in Quietly /\ DockerSame
  BY <1>1, LabIds, Stays DEF DevType
<1>3. QED BY <1>1, <1>2, QuietEnds

LEMMA DeleteNetworkEffect ==
  ASSUME DevType, NEW h \in Handlers, NEW n \in networks, DeleteNetwork(h, n)
  PROVE  DevType' /\ Quiet(h)
<1> DEFINE r == [Idle EXCEPT !.kind = "dropnet", !.pc = "check", !.lab = n]
<1>1. /\ Goes(h, r) /\ req[h] = Idle /\ count < MaxRequests /\ count' = count + 1
      /\ UNCHANGED <<docker, networks, devices, links, lastId, faults, failed, raced, patched,
                     lost>>
  BY DEF DeleteNetwork, Arrives, rows
<1>2. /\ r.kind = "dropnet" /\ r.made = {} /\ r.row = None /\ r.seen = {} /\ r.lab = n
      /\ DOMAIN r = DOMAIN Idle /\ r.behind = FALSE
  BY DEF Idle
<1> HIDE DEF r
<1>3. HandOK(r) /\ r.kind \notin Operations
  BY <1>2 DEF HandOK, Quietly, LinkKinds, Operations, Runs, DevType
<1>4. /\ count' \in 0..MaxRequests /\ faults' \in 0..MaxFaults /\ lost' \subseteq Nat
      /\ networks \subseteq networks' /\ networks' \subseteq NetworkRow
      /\ UNCHANGED <<devices, links, lastId, failed, raced, patched>>
      /\ req[h].kind \in Quietly /\ DockerSame
  BY <1>1, Counted, IdleOK, Stays DEF DevType, Quietly, LinkKinds
<1>5. QED BY <1>1, <1>2, <1>3, <1>4, QuietGoes

\* A delete that goes on.
LEMMA DropGoes ==
  ASSUME DevType, NEW h \in Handlers, req[h].kind = "dropnet", NEW r, Ends(h) \/ Goes(h, r),
         DOMAIN r = DOMAIN Idle, r.kind = "dropnet", r.made = {}, r.row = None,
         r.lab = req[h].lab, r.behind = req[h].behind, r.seen \subseteq DeviceRow \cup LinkRow,
         DockerSame, lost' \subseteq Nat,
         UNCHANGED <<networks, devices, links, lastId, count, faults, failed, raced, patched>>
  PROVE  DevType' /\ Quiet(h)
<1>1. HandOK(r) /\ r.kind \notin Operations
  BY DEF HandOK, HandsOK, Quietly, LinkKinds, Operations, Runs, DevType
<1>2. /\ count' \in 0..MaxRequests /\ faults' \in 0..MaxFaults
      /\ networks \subseteq networks' /\ networks' \subseteq NetworkRow
      /\ UNCHANGED <<devices, links, lastId, failed, raced, patched>>
      /\ req[h].kind \in Quietly
  BY DEF DevType, Quietly, LinkKinds
<1>3. QED BY <1>1, <1>2, QuietGoes, QuietEnds

LEMMA DropHand ==
  ASSUME DevType, NEW h \in Handlers, req[h].kind = "dropnet", NEW pc, NEW r,
         r = [req[h] EXCEPT !.pc = pc]
  PROVE  /\ DOMAIN r = DOMAIN Idle /\ r.kind = "dropnet" /\ r.made = {} /\ r.row = None
         /\ r.lab = req[h].lab /\ r.behind = req[h].behind
         /\ r.seen \subseteq DeviceRow \cup LinkRow
  BY DEF DevType, HandsOK, HandOK, Idle, Quietly, LinkKinds

LEMMA DropNetworkEffect ==
  ASSUME DevType, NEW h \in Handlers, CheckNetwork(h) \/ RemoveNetwork(h) \/ LoadMembers(h)
  PROVE  DevType' /\ Quiet(h)
<1>1. CASE CheckNetwork(h)
  <2> DEFINE r == [req[h] EXCEPT !.pc = "remove"]
  <2>1. /\ req[h].kind = "dropnet" /\ (Ends(h) \/ Goes(h, r))
        /\ UNCHANGED <<docker, networks, devices, links, lastId, count, faults, failed, raced,
                       patched, lost>>
    BY <1>1 DEF CheckNetwork, Is, rows
  <2>2. DockerSame /\ lost' \subseteq Nat
    BY <2>1, Stays DEF DevType
  <2>3. /\ DOMAIN r = DOMAIN Idle /\ r.kind = "dropnet" /\ r.made = {} /\ r.row = None
        /\ r.lab = req[h].lab /\ r.behind = req[h].behind /\ r.seen \subseteq DeviceRow \cup LinkRow
    BY <2>1, DropHand
  <2> HIDE DEF r
  <2>4. QED BY <2>1, <2>2, <2>3, DropGoes
<1>2. CASE RemoveNetwork(h)
  <2> DEFINE r == [req[h] EXCEPT !.pc = "load"]
             gone == {x \in Creating :
                        req[x].lab.net = remove_docker_network(docker, req[h].lab.net).id}
  <2>1. /\ req[h].kind = "dropnet" /\ (Ends(h) \/ Goes(h, r))
        /\ docker' = remove_docker_network(docker, req[h].lab.net).d
        /\ lost' = lost \cup {req[g].lab.net : g \in gone}
        /\ UNCHANGED <<networks, devices, links, lastId, count, faults, failed, raced, patched>>
    BY <1>2 DEF RemoveNetwork, Is, rows
  <2>2. \A g \in gone : req[g].lab.net \in Nat
    BY LabIds DEF Creating
  <2> HIDE DEF gone
  <2>3. DockerSame /\ lost' \subseteq Nat
    BY <2>1, <2>2, NetworkRemoved DEF DevType, DockerSame
  <2>4. /\ DOMAIN r = DOMAIN Idle /\ r.kind = "dropnet" /\ r.made = {} /\ r.row = None
        /\ r.lab = req[h].lab /\ r.behind = req[h].behind /\ r.seen \subseteq DeviceRow \cup LinkRow
    BY <2>1, DropHand
  <2> HIDE DEF r
  <2>5. QED BY <2>1, <2>3, <2>4, DropGoes
<1>3. CASE LoadMembers(h)
  <2> DEFINE r == [req[h] EXCEPT !.pc = "commit", !.seen = Members(req[h].lab)]
  <2>1. /\ req[h].kind = "dropnet" /\ Goes(h, r)
        /\ UNCHANGED <<docker, networks, devices, links, lastId, count, faults, failed, raced,
                       patched, lost>>
    BY <1>3 DEF LoadMembers, Is, rows
  <2>2. DockerSame /\ lost' \subseteq Nat /\ Members(req[h].lab) \subseteq DeviceRow
    BY <2>1, Stays DEF DevType, Members
  <2>3. /\ DOMAIN r = DOMAIN Idle /\ r.kind = "dropnet" /\ r.made = {} /\ r.row = None
        /\ r.lab = req[h].lab /\ r.behind = req[h].behind /\ r.seen \subseteq DeviceRow \cup LinkRow
    BY <2>1, <2>2 DEF DevType, HandsOK, HandOK, Idle, Quietly, LinkKinds
  <2> HIDE DEF r
  <2>4. QED BY <2>1, <2>2, <2>3, DropGoes
<1>4. QED BY <1>1, <1>2, <1>3

\* A network row goes, and the rows that named it name none.
Detaches(h) ==
  /\ Turns(h, Idle) /\ req[h].kind = "dropnet" /\ req[h].pc = "commit"
  /\ networks' = networks \ {req[h].lab}
  /\ devices' = {IF r.net = req[h].lab.net THEN [r EXCEPT !.net = None] ELSE r : r \in devices}
  /\ \A g \in Handlers : req[g].kind = "create" => \A r \in req[g].made : r.net # req[h].lab.net
  /\ UNCHANGED <<docker, lastId, failed, raced, patched>>

\* The daemon, the sequence and what is on record stay.
Inserts(h) ==
  /\ req[h].kind = "create" /\ req[h].pc = "insert" /\ req[h].lab \in networks
  /\ \E r, new :
       /\ Turns(h, r) /\ r.kind = "create" /\ r.pc = "run" /\ r.row = new
       /\ r.made = req[h].made \cup {new} /\ r.lab = req[h].lab
       /\ new.id = lastId + 1 /\ new.net = req[h].lab.net /\ new.ctr = 0
       /\ new.status = "stopped"
  /\ lastId' = lastId + 1
  /\ UNCHANGED <<docker, networks, devices, failed, raced, patched>>

RunsUp(h) ==
  LET row == req[h].row IN
  /\ req[h].kind = "create" /\ req[h].pc = "run"
  /\ \E r : /\ Turns(h, r) /\ r.kind = "create" /\ r.pc \in {"insert", "commit"}
            /\ r.lab = req[h].lab
            /\ r.made = (req[h].made \ {row}) \cup {Launched(row, docker.next)}
  /\ Handled(docker, docker', row.id, row.comm, req[h].lab.net, 0)
  /\ Launches(docker, docker', row.id, row.comm)
  /\ UNCHANGED <<networks, devices, lastId, failed, raced, patched>>

Creates(h) ==
  /\ req[h].kind = "create" /\ req[h].pc = "commit" /\ Turns(h, Idle)
  /\ devices' = devices \cup req[h].made
  /\ UNCHANGED <<docker, networks, lastId, failed, raced, patched>>

Takes(h, kind, row) ==
  /\ req[h].kind = "idle"
  /\ \E r : /\ Turns(h, r) /\ r.kind = kind /\ r.pc = "docker" /\ r.row = row /\ r.made = {}
            /\ r.behind = FALSE
  /\ raced' = IF \E g \in Handlers : /\ req[g].kind \in Operations
                                     /\ req[g].row.id = row.id /\ Races(kind, req[g].kind)
                THEN raced \cup {row.id} ELSE raced
  /\ UNCHANGED <<docker, networks, devices, lastId, failed, patched>>

Stops(h) ==
  LET row == req[h].row IN
  /\ req[h].kind \in {"stop", "delete"} /\ req[h].pc = "docker"
  /\ \E r : /\ Turns(h, r) /\ r.kind = req[h].kind /\ r.pc = "commit" /\ r.row = row
            /\ r.made = req[h].made /\ r.behind = req[h].behind
  /\ Handled(docker, docker', row.id, row.comm, row.net, row.ctr)
  /\ docker'.next = docker.next /\ row.ctr \notin Containers(docker')
  /\ \A c \in docker.ctrs : c.id # row.ctr => c \in docker'.ctrs
  /\ UNCHANGED <<networks, devices, lastId, failed, raced, patched>>

Starts(h) ==
  LET row == req[h].row IN
  /\ req[h].kind \in Runs /\ req[h].pc = "docker" /\ HasNetwork(row)
  /\ \E r : /\ Turns(h, r) /\ r.kind = req[h].kind /\ r.pc = "commit" /\ r.row = row
            /\ r.made = {Launched(row, docker.next)} /\ r.behind = req[h].behind
  /\ Handled(docker, docker', row.id, row.comm, row.net, row.ctr)
  /\ Launches(docker, docker', row.id, row.comm)
  /\ UNCHANGED <<networks, devices, lastId, failed, raced, patched>>

Updates(h) ==
  LET id == req[h].row.id IN
  /\ req[h].kind \in Runs \cup {"stop"} /\ req[h].pc = "commit" /\ RowsOf(id) # {}
  /\ Turns(h, Idle)
  /\ devices' = (devices \ RowsOf(id)) \cup {Update(h, r) : r \in RowsOf(id)}
  /\ failed' = IF req[h].kind \in Runs THEN failed \ {id} ELSE failed
  /\ patched' = IF req[h].kind \notin Runs THEN patched
                ELSE IF req[h].behind THEN patched \cup {id} ELSE patched \ {id}
  /\ UNCHANGED <<docker, networks, lastId, raced>>

Patches(h) ==
  /\ req[h].kind = "patch" /\ DOMAIN req' = Handlers /\ req'[h] = Idle
  /\ \A g \in Handlers \ {h} :
       req'[g] = IF req[g].kind \in Runs /\ PatchesRow(h, req[g].row)
                   THEN [req[g] EXCEPT !.behind = TRUE] ELSE req[g]
  /\ devices' = {IF PatchesRow(h, r) THEN [r EXCEPT !.comm = req[h].comm] ELSE r : r \in devices}
  /\ patched' = patched \cup {r.id : r \in {x \in devices : PatchesRow(h, x)}}
  /\ UNCHANGED <<docker, networks, lastId, failed, raced>>

Deletes(h) ==
  /\ req[h].kind = "delete" /\ req[h].pc = "commit" /\ Turns(h, Idle)
  /\ devices' = devices \ RowsOf(req[h].row.id)
  /\ UNCHANGED <<docker, networks, lastId, failed, raced, patched>>

LEMMA DetachEffect ==
  ASSUME DevType, NEW h \in Handlers, CommitDropNetwork(h)
  PROVE  DevType' /\ (Quiet(h) \/ Detaches(h))
<1> DEFINE n == req[h].lab
           seen == {r.id : r \in Members(n)} = {r.id : r \in req[h].seen}
<1>1. /\ req[h].kind = "dropnet" /\ req[h].pc = "commit" /\ Ends(h)
      /\ \A g \in Handlers : req[g].kind = "create" => \A r \in req[g].made : r.net # n.net
      /\ UNCHANGED <<docker, links, lastId, count, faults, failed, raced, patched>>
      /\ IF seen
           THEN /\ networks' = networks \ {n} /\ lost' = lost
                /\ devices' = {IF r.net = n.net THEN [r EXCEPT !.net = None] ELSE r : r \in devices}
           ELSE lost' = lost \cup {n.net} /\ UNCHANGED <<networks, devices>>
  BY DEF CommitDropNetwork, Is
<1> HIDE DEF seen
<1>2. /\ n.net \in Nat /\ DockerSame /\ count' \in 0..MaxRequests /\ faults' \in 0..MaxFaults
      /\ req[h].kind \in Quietly /\ lost' \subseteq Nat
  BY <1>1, LabIds, Stays DEF DevType
<1>3. CASE ~seen
  <2>1. /\ networks \subseteq networks' /\ networks' \subseteq NetworkRow
        /\ UNCHANGED <<devices, links, lastId, failed, raced, patched>>
    BY <1>1, <1>3 DEF DevType
  <2>2. QED BY <1>1, <1>2, <2>1, QuietEnds
<1>4. CASE seen
  <2>1. Turns(h, Idle) /\ HandsOK'
    BY <1>1, EndsTurns DEF DevType
  <2>2. \A r \in DeviceRow : [r EXCEPT !.net = None] \in DeviceRow
    BY DEF DeviceRow
  <2>3. devices' \subseteq DeviceRow
    BY <1>1, <1>4, <2>2 DEF DevType
  <2>4. Detaches(h)
    BY <1>1, <1>4, <2>1 DEF Detaches
  <2>5. QED BY <1>1, <1>2, <1>4, <2>1, <2>3, <2>4 DEF DevType, DockerSame
<1>5. QED BY <1>3, <1>4

LEMMA ListsAreSeqs == ASSUME NEW ips \in IpLists PROVE ips \in Seq(Ips)
<1>1. PICK n \in 1..MaxBulk : ips \in [1..n -> Ips]
  BY DEF IpLists
<1>2. n \in Nat
  BY DevicesAssumption
<1>3. QED BY <1>1, <1>2

LEMMA CreateDevicesEffect ==
  ASSUME DevType, NEW h \in Handlers, NEW n \in networks, NEW ips \in IpLists,
         CreateDevices(h, n, ips)
  PROVE  DevType' /\ Quiet(h)
<1> DEFINE r == [Idle EXCEPT !.kind = "create", !.pc = "insert", !.lab = n, !.todo = ips]
<1>1. /\ Goes(h, r) /\ req[h] = Idle /\ count < MaxRequests /\ count' = count + 1 /\ ips # <<>>
      /\ UNCHANGED <<docker, networks, devices, links, lastId, faults, failed, raced, patched,
                     lost>>
  BY DEF CreateDevices, Arrives, rows
<1>2. /\ r.kind = "create" /\ r.made = {} /\ r.row = None /\ r.seen = {} /\ r.lab = n
      /\ DOMAIN r = DOMAIN Idle /\ r.behind = FALSE /\ r.pc = "insert" /\ r.todo = ips
  BY DEF Idle
<1> HIDE DEF r
<1>3. HandOK(r) /\ r.kind \notin Operations
  BY <1>1, <1>2, ListsAreSeqs DEF HandOK, Quietly, LinkKinds, Operations, Runs, DevType
<1>4. /\ count' \in 0..MaxRequests /\ faults' \in 0..MaxFaults /\ lost' \subseteq Nat
      /\ networks \subseteq networks' /\ networks' \subseteq NetworkRow
      /\ UNCHANGED <<devices, links, lastId, failed, raced, patched>>
      /\ req[h].kind \in Quietly /\ DockerSame
  BY <1>1, Counted, IdleOK, Stays DEF DevType, Quietly, LinkKinds
<1>5. QED BY <1>1, <1>2, <1>3, <1>4, QuietGoes

LEMMA PatchRequestEffect ==
  ASSUME DevType, NEW h \in Handlers, NEW row \in devices, NEW comm \in Communities,
         Patch(h, row, comm)
  PROVE  DevType' /\ Quiet(h)
<1> DEFINE r == [Idle EXCEPT !.kind = "patch", !.pc = "patch", !.row = row, !.comm = comm]
<1>1. /\ Goes(h, r) /\ req[h] = Idle /\ count < MaxRequests /\ count' = count + 1
      /\ UNCHANGED <<docker, networks, devices, links, lastId, faults, failed, raced, patched,
                     lost>>
  BY DEF Patch, Arrives, rows
<1>2. /\ r.kind = "patch" /\ r.made = {} /\ r.row = row /\ r.seen = {} /\ r.comm = comm
      /\ DOMAIN r = DOMAIN Idle /\ r.behind = FALSE /\ r.pc = "patch"
  BY DEF Idle
<1> HIDE DEF r
<1>3. HandOK(r) /\ r.kind \notin Operations
  BY <1>1, <1>2 DEF HandOK, Quietly, LinkKinds, Operations, Runs, DevType
<1>4. /\ count' \in 0..MaxRequests /\ faults' \in 0..MaxFaults /\ lost' \subseteq Nat
      /\ networks \subseteq networks' /\ networks' \subseteq NetworkRow
      /\ UNCHANGED <<devices, links, lastId, failed, raced, patched>>
      /\ req[h].kind \in Quietly /\ DockerSame
  BY <1>1, Counted, IdleOK, Stays DEF DevType, Quietly, LinkKinds
<1>5. QED BY <1>1, <1>2, <1>3, <1>4, QuietGoes

LEMMA CreateHand ==
  ASSUME DevType, NEW h \in Handlers, req[h].kind = "create"
  PROVE  /\ HandOK(req[h]) /\ DOMAIN req[h] = DOMAIN Idle /\ req[h].lab \in NetworkRow
         /\ req[h].lab.net \in Nat
         /\ req[h].made \subseteq DeviceRow /\ req[h].todo \in Seq(Ips)
         /\ req[h].pc = "run" => req[h].row \in DeviceRow
  BY DEF DevType, HandsOK, HandOK, NetworkRow

\* The failure of a request about devices.
LEMMA FailEnds ==
  ASSUME DevType, NEW h \in Handlers, Ends(h), Lose(h), req[h].kind \in {"create"} \cup Operations,
         \/ docker' = docker
         \/ /\ req[h].kind = "create" /\ req[h].pc = "run"
            /\ Handled(docker, docker', req[h].row.id, req[h].row.comm, req[h].lab.net, 0)
         \/ /\ req[h].kind \in Runs /\ req[h].pc = "docker"
            /\ Handled(docker, docker', req[h].row.id, req[h].row.comm, req[h].row.net,
                       req[h].row.ctr),
         UNCHANGED <<rows, lastId, count, raced, patched>>, faults' \in 0..MaxFaults,
         lost' \subseteq Nat
  PROVE  DevType' /\ Fails(h)
<1>1. Turns(h, Idle) /\ HandsOK'
  BY EndsTurns DEF DevType
<1>2. DockerOK(docker')
  BY DEF DevType, Handled
<1>3. failed' = failed \cup Busy(h) /\ failed' \subseteq Nat
  BY BusyIds DEF Lose, DevType
<1>4. QED BY <1>1, <1>2, <1>3 DEF DevType, Fails, rows

LEMMA InsertEffect ==
  ASSUME DevType, NEW h \in Handlers, InsertDevice(h)
  PROVE  DevType' /\ (Fails(h) \/ Inserts(h))
<1> DEFINE ip == Head(req[h].todo)
           new == NewRow(h, ip)
           r == [req[h] EXCEPT !.pc = "run", !.row = new, !.made = @ \cup {new}]
           fails == Taken(ip, h) \/ req[h].lab \notin networks
<1>1. /\ req[h].kind = "create" /\ req[h].pc = "insert"
      /\ IF fails THEN Ends(h) /\ Lose(h) /\ UNCHANGED lastId
                  ELSE lastId' = lastId + 1 /\ Goes(h, r) /\ UNCHANGED failed
      /\ UNCHANGED <<docker, rows, count, faults, raced, patched, lost>>
  BY DEF InsertDevice, Is
<1>2. /\ HandOK(req[h]) /\ DOMAIN req[h] = DOMAIN Idle /\ req[h].lab \in NetworkRow
      /\ req[h].lab.net \in Nat /\ req[h].made \subseteq DeviceRow /\ req[h].todo \in Seq(Ips)
  BY <1>1, CreateHand
<1>3. CASE fails
  <2>1. faults' \in 0..MaxFaults /\ lost' \subseteq Nat
    BY <1>1 DEF DevType
  <2>2. QED BY <1>1, <1>3, <2>1, FailEnds
<1>4. CASE ~fails
  <2>1. ip \in Nat
    <3>1. req[h].todo # <<>>
      BY <1>1, <1>2 DEF HandOK
    <3>2. ip \in Ips
      BY <1>2, <3>1
    <3>3. QED BY <3>2, DevicesAssumption
  <2>2. Public \in Communities /\ lastId \in Nat
    BY DevicesAssumption DEF Public, DevType
  <2>3. /\ new \in DeviceRow /\ new.id = lastId + 1 /\ new.net = req[h].lab.net /\ new.ctr = 0
        /\ new.status = "stopped"
    BY <1>2, <2>1, <2>2 DEF NewRow, DeviceRow
  <2> HIDE DEF new, fails
  <2>4. /\ DOMAIN r = DOMAIN Idle /\ r.kind = "create" /\ r.pc = "run" /\ r.row = new
        /\ r.made = req[h].made \cup {new} /\ r.lab = req[h].lab /\ r.todo = req[h].todo
        /\ r.seen = req[h].seen /\ r.behind = req[h].behind
    BY <1>1, <1>2 DEF Idle
  <2> HIDE DEF r
  <2>5. HandOK(r)
    BY <1>1, <1>2, <2>3, <2>4 DEF HandOK, Quietly, LinkKinds, Operations, Runs
  <2>6. Turns(h, r) /\ HandsOK'
    BY <1>1, <1>4, <2>5, GoesTurns DEF DevType
  <2>7. req[h].lab \in networks
    BY <1>4 DEF fails
  <2>8. Inserts(h)
    BY <1>1, <1>4, <2>3, <2>4, <2>6, <2>7 DEF Inserts, rows
  <2>9. DevType'
    BY <1>1, <1>4, <2>2, <2>6 DEF DevType, rows
  <2>10. QED BY <2>8, <2>9
<1>5. QED BY <1>3, <1>4

LEMMA LaunchedRow ==
  ASSUME NEW row \in DeviceRow, NEW ctr \in Nat
  PROVE  LET new == Launched(row, ctr) IN
         /\ new \in DeviceRow /\ new.id = row.id /\ new.net = row.net /\ new.comm = row.comm
         /\ new.ctr = ctr /\ new.status = "running"
  BY DEF Launched, DeviceRow

LEMMA RowFields ==
  ASSUME NEW row \in DeviceRow
  PROVE  /\ row.id \in Nat /\ row.ip \in Nat /\ row.comm \in Communities /\ row.ctr \in Nat
         /\ row.net \in Nat \cup {None} /\ row.status \in {"running", "stopped"}
  BY DEF DeviceRow

LEMMA RunEffect ==
  ASSUME DevType, NEW h \in Handlers, RunContainer(h)
  PROVE  DevType' /\ (Fails(h) \/ RunsUp(h))
<1> DEFINE row == req[h].row
           todo == Tail(req[h].todo)
           net == req[h].lab.net
           good == create_device_container(docker, row.id, row.comm, net, row.ip)
           bad == BrokenCreates(docker, row.id, row.comm, net, row.ip)
           pc == IF todo = <<>> THEN "commit" ELSE "insert"
           r == [req[h] EXCEPT !.pc = pc, !.todo = todo,
                               !.made = (@ \ {row}) \cup {Launched(row, good.id)}]
<1>1. /\ req[h].kind = "create" /\ req[h].pc = "run"
      /\ \/ good.err = "ok" /\ docker' = good.d /\ Goes(h, r) /\ UNCHANGED <<faults, failed>>
         \/ good.err # "ok" /\ docker' = good.d /\ Ends(h) /\ Lose(h) /\ UNCHANGED faults
         \/ Fault /\ (\E o \in bad : docker' = o.d) /\ Ends(h) /\ Lose(h)
      /\ UNCHANGED <<rows, lastId, count, raced, patched, lost>>
  BY DEF RunContainer, Is
<1>2. /\ HandOK(req[h]) /\ DOMAIN req[h] = DOMAIN Idle /\ req[h].lab \in NetworkRow
      /\ req[h].made \subseteq DeviceRow /\ req[h].todo \in Seq(Ips) /\ row \in DeviceRow
  BY <1>1, CreateHand
<1>3. row.id \in Nat /\ row.ip \in Nat /\ row.comm \in Communities /\ DockerOK(docker)
      /\ docker.next \in Nat
  BY <1>2, RowFields DEF DevType, DockerOK, DockerType
<1>4. /\ Handled(docker, good.d, row.id, row.comm, net, 0)
      /\ good.err = "ok" => Launches(docker, good.d, row.id, row.comm) /\ good.id = docker.next
  BY <1>3, StartHandles
<1>5. \A o \in bad : Handled(docker, o.d, row.id, row.comm, net, 0)
  BY <1>3, BrokenHandles
<1> HIDE DEF good, bad
<1>6. CASE Ends(h) /\ Lose(h) /\ (docker' = good.d \/ \E o \in bad : docker' = o.d)
           /\ (UNCHANGED faults \/ Fault)
  <2>1. Handled(docker, docker', row.id, row.comm, net, 0)
    BY <1>4, <1>5, <1>6
  <2>2. faults' \in 0..MaxFaults /\ lost' \subseteq Nat
    BY <1>1, <1>6, Counted DEF DevType, Fault
  <2>3. QED BY <1>1, <1>6, <2>1, <2>2, FailEnds
<1>7. CASE good.err = "ok" /\ docker' = good.d /\ Goes(h, r) /\ UNCHANGED <<faults, failed>>
  <2> DEFINE new == Launched(row, good.id)
  <2>1. new \in DeviceRow /\ good.id = docker.next /\ new = Launched(row, docker.next)
    BY <1>2, <1>3, <1>4, <1>7, LaunchedRow
  <2>2. todo \in Seq(Ips)
    <3>1. req[h].todo # <<>>
      BY <1>1, <1>2 DEF HandOK
    <3>2. QED BY <1>2, <3>1
  <2> HIDE DEF new
  <2>3. /\ DOMAIN r = DOMAIN Idle /\ r.kind = "create" /\ r.pc = pc /\ r.row = row
        /\ r.made = (req[h].made \ {row}) \cup {new} /\ r.lab = req[h].lab /\ r.todo = todo
        /\ r.seen = req[h].seen /\ r.behind = req[h].behind
    BY <1>1, <1>2 DEF Idle, new
  <2> HIDE DEF r
  <2>4. HandOK(r)
    BY <1>1, <1>2, <2>1, <2>2, <2>3 DEF HandOK, Quietly, LinkKinds, Operations, Runs
  <2>5. Turns(h, r) /\ HandsOK'
    BY <1>7, <2>4, GoesTurns DEF DevType
  <2>6. Launches(docker, docker', row.id, row.comm) /\ DockerOK(docker')
        /\ Handled(docker, docker', row.id, row.comm, net, 0)
    BY <1>4, <1>7 DEF Handled
  <2>7. RunsUp(h)
    BY <1>1, <1>7, <2>1, <2>3, <2>5, <2>6 DEF RunsUp, rows
  <2>8. DevType'
    BY <1>1, <1>7, <2>5, <2>6 DEF DevType, rows
  <2>9. QED BY <2>7, <2>8
<1>8. QED BY <1>1, <1>6, <1>7

LEMMA CreateEffect ==
  ASSUME DevType, NEW h \in Handlers, CommitCreate(h)
  PROVE  DevType' /\ Creates(h)
<1>1. /\ req[h].kind = "create" /\ req[h].pc = "commit" /\ Ends(h)
      /\ devices' = devices \cup req[h].made
      /\ UNCHANGED <<docker, networks, links, lastId, count, faults, failed, raced, patched, lost>>
  BY DEF CommitCreate, Is
<1>2. Turns(h, Idle) /\ HandsOK' /\ req[h].made \subseteq DeviceRow
  BY <1>1, EndsTurns, CreateHand DEF DevType
<1>3. QED BY <1>1, <1>2 DEF DevType, Creates

LEMMA OperateEffect ==
  ASSUME DevType, NEW h \in Handlers, NEW kind \in Operations, NEW row \in devices,
         Operate(h, kind, row)
  PROVE  DevType' /\ Takes(h, kind, row)
<1> DEFINE r == [Idle EXCEPT !.kind = kind, !.pc = "docker", !.row = row]
           meets == \E g \in Handlers : /\ req[g].kind \in Operations
                                        /\ req[g].row.id = row.id /\ Races(kind, req[g].kind)
<1>1. /\ Goes(h, r) /\ req[h] = Idle /\ count < MaxRequests /\ count' = count + 1
      /\ raced' = IF meets THEN raced \cup {row.id} ELSE raced
      /\ UNCHANGED <<docker, networks, devices, links, lastId, faults, failed, patched, lost>>
  BY DEF Operate, Arrives, rows
<1> HIDE DEF meets
<1>2. /\ r.kind = kind /\ r.made = {} /\ r.row = row /\ r.seen = {} /\ r.pc = "docker"
      /\ DOMAIN r = DOMAIN Idle /\ r.behind = FALSE
  BY DEF Idle
<1> HIDE DEF r
<1>3. row \in DeviceRow /\ row.id \in Nat
  BY DEF DevType, DeviceRow
<1>4. HandOK(r)
  BY <1>2, <1>3 DEF HandOK, Quietly, LinkKinds, Operations, Runs
<1>5. Turns(h, r) /\ HandsOK'
  BY <1>1, <1>4, GoesTurns DEF DevType
<1>6. count' \in 0..MaxRequests /\ raced' \subseteq Nat
  BY <1>1, <1>3, Counted DEF DevType
<1>7. Takes(h, kind, row)
  BY <1>1, <1>2, <1>5, IdleOK DEF Takes, meets
<1>8. QED BY <1>1, <1>5, <1>6, <1>7 DEF DevType

LEMMA OperateHand ==
  ASSUME DevType, NEW h \in Handlers, req[h].kind \in Operations
  PROVE  /\ HandOK(req[h]) /\ DOMAIN req[h] = DOMAIN Idle /\ req[h].row \in DeviceRow
         /\ req[h].row # None
  BY NoneAssumption DEF DevType, HandsOK, HandOK

LEMMA RemovesEffect ==
  ASSUME DevType, NEW h \in Handlers, req[h].kind \in Operations
  PROVE  LET d == Removes(h)
             row == req[h].row IN
         /\ Handled(docker, d, row.id, row.comm, row.net, row.ctr)
         /\ d.next = docker.next /\ row.ctr \notin Containers(d)
         /\ \A c \in docker.ctrs : c.id # row.ctr => c \in d.ctrs
<1> DEFINE d == Removes(h)
           row == req[h].row
<1>1. DockerOK(docker)
  BY DEF DevType
<1>2. CASE row.ctr = 0
  <2>1. d = docker /\ 0 \notin Containers(docker)
    BY <1>1, <1>2 DEF Removes, DockerOK, Containers
  <2>2. Handled(docker, docker, row.id, row.comm, row.net, row.ctr)
    BY <1>1, NothingHandles
  <2>3. QED BY <1>2, <2>1, <2>2
<1>3. CASE row.ctr # 0
  <2>1. d = Without(docker, {row.ctr})
    BY <1>3 DEF Removes, stop_and_remove_container
  <2>2. /\ Handled(docker, d, row.id, row.comm, row.net, row.ctr)
        /\ row.ctr \notin Containers(d)
    BY <1>1, <2>1, RemoveHandles
  <2>3. d.next = docker.next /\ d.ctrs = {c \in docker.ctrs : c.id \notin {row.ctr}}
    BY <1>1, <2>1, WithoutOK
  <2>4. QED BY <2>2, <2>3
<1>4. QED BY <1>2, <1>3

LEMMA StopEffect ==
  ASSUME DevType, NEW h \in Handlers, StopContainer(h)
  PROVE  DevType' /\ Stops(h)
<1> DEFINE row == req[h].row
           r == [req[h] EXCEPT !.pc = "commit"]
<1>1. /\ req[h].kind \in {"stop", "delete"} /\ req[h].pc = "docker" /\ docker' = Removes(h)
      /\ Goes(h, r) /\ UNCHANGED <<rows, lastId, count, faults, failed, raced, patched, lost>>
  BY DEF StopContainer, Is
<1>2. HandOK(req[h]) /\ DOMAIN req[h] = DOMAIN Idle /\ row \in DeviceRow
  BY <1>1, OperateHand DEF Operations
<1>3. /\ Handled(docker, docker', row.id, row.comm, row.net, row.ctr)
      /\ docker'.next = docker.next /\ row.ctr \notin Containers(docker')
      /\ \A c \in docker.ctrs : c.id # row.ctr => c \in docker'.ctrs
  BY <1>1, RemovesEffect DEF Operations
<1>4. /\ DOMAIN r = DOMAIN Idle /\ r.kind = req[h].kind /\ r.pc = "commit" /\ r.row = row
      /\ r.made = req[h].made /\ r.seen = req[h].seen /\ r.behind = req[h].behind
  BY <1>2 DEF Idle
<1> HIDE DEF r
<1>5. HandOK(r)
  BY <1>1, <1>2, <1>4 DEF HandOK, Quietly, LinkKinds, Operations, Runs
<1>6. Turns(h, r) /\ HandsOK'
  BY <1>1, <1>5, GoesTurns DEF DevType
<1>7. Stops(h)
  BY <1>1, <1>3, <1>4, <1>6 DEF Stops, rows
<1>8. DockerOK(docker')
  BY <1>3 DEF Handled
<1>9. QED BY <1>1, <1>6, <1>7, <1>8 DEF DevType, rows

LEMMA StartEffect ==
  ASSUME DevType, NEW h \in Handlers, StartContainer(h)
  PROVE  DevType' /\ (Fails(h) \/ Starts(h))
<1> DEFINE row == req[h].row
           d == IF req[h].kind = "restart" THEN Removes(h) ELSE docker
           good == create_device_container(d, row.id, row.comm, row.net, row.ip)
           bad == BrokenCreates(d, row.id, row.comm, row.net, row.ip)
           r == [req[h] EXCEPT !.pc = "commit", !.made = {Launched(row, good.id)}]
           Handles(e) == Handled(docker, e, row.id, row.comm, row.net, row.ctr)
<1>1. /\ req[h].kind \in Runs /\ req[h].pc = "docker"
      /\ IF ~HasNetwork(row)
           THEN docker' = d /\ Ends(h) /\ Lose(h) /\ UNCHANGED faults
           ELSE \/ /\ docker' = good.d /\ UNCHANGED faults
                   /\ IF good.err = "ok" THEN Goes(h, r) /\ UNCHANGED failed
                                         ELSE Ends(h) /\ Lose(h)
                \/ Fault /\ (\E o \in bad : docker' = o.d) /\ Ends(h) /\ Lose(h)
      /\ UNCHANGED <<rows, lastId, count, raced, patched, lost>>
  BY DEF StartContainer, Is
<1>2. /\ HandOK(req[h]) /\ DOMAIN req[h] = DOMAIN Idle
      /\ row \in DeviceRow /\ req[h].kind \in Operations
  BY <1>1, OperateHand DEF Operations
<1>3. row.id \in Nat /\ row.ip \in Nat /\ row.comm \in Communities /\ DockerOK(docker)
      /\ docker.next \in Nat
  BY <1>2, RowFields DEF DevType, DockerOK, DockerType
<1>4. Handles(d) /\ d.next = docker.next /\ DockerOK(d)
  <2>1. Handles(docker)
    BY <1>3, NothingHandles
  <2>2. Handles(Removes(h)) /\ Removes(h).next = docker.next
    BY <1>2, RemovesEffect
  <2>3. Handles(d) /\ d.next = docker.next
    BY <2>1, <2>2
  <2>4. QED BY <2>3 DEF Handled
<1> HIDE DEF d
<1>5. /\ Handled(d, good.d, row.id, row.comm, row.net, row.ctr)
      /\ good.err = "ok" => Launches(d, good.d, row.id, row.comm) /\ good.id = d.next
  <2> HIDE DEF row, Handles
  <2>1. \A c \in Communities : \A id, ip \in Nat : \A net, gone :
          LET o == create_device_container(d, id, c, net, ip) IN
          /\ Handled(d, o.d, id, c, net, gone)
          /\ o.err = "ok" => Launches(d, o.d, id, c) /\ o.id = d.next
    BY <1>4, StartHandles
  <2>2. QED BY <1>3, <2>1
<1>6. \A o \in bad : Handled(d, o.d, row.id, row.comm, row.net, row.ctr)
  BY <1>3, <1>4, BrokenHandles
<1> HIDE DEF good, bad
<1>7. Handles(good.d) /\ \A o \in bad : Handles(o.d)
  BY <1>3, <1>4, <1>5, <1>6, HandledOn
<1>8. CASE Ends(h) /\ Lose(h) /\ (docker' = d \/ docker' = good.d \/ \E o \in bad : docker' = o.d)
           /\ (UNCHANGED faults \/ Fault)
  <2>1. Handled(docker, docker', row.id, row.comm, row.net, row.ctr)
    BY <1>4, <1>7, <1>8
  <2>2. faults' \in 0..MaxFaults /\ lost' \subseteq Nat
    BY <1>1, <1>8, Counted DEF DevType, Fault
  <2>3. QED BY <1>1, <1>2, <1>8, <2>1, <2>2, FailEnds
<1>9. CASE HasNetwork(row) /\ good.err = "ok" /\ docker' = good.d /\ Goes(h, r)
           /\ UNCHANGED <<faults, failed>>
  <2> DEFINE new == Launched(row, good.id)
  <2>1. new \in DeviceRow /\ new = Launched(row, docker.next)
    BY <1>2, <1>3, <1>4, <1>5, <1>9, LaunchedRow
  <2> HIDE DEF new
  <2>2. /\ DOMAIN r = DOMAIN Idle /\ r.kind = req[h].kind /\ r.pc = "commit" /\ r.row = row
        /\ r.made = {new} /\ r.seen = req[h].seen /\ r.behind = req[h].behind
    BY <1>1, <1>2 DEF Idle, new
  <2> HIDE DEF r
  <2>3. HandOK(r)
    BY <1>1, <1>2, <2>1, <2>2 DEF HandOK, Quietly, LinkKinds, Operations, Runs
  <2>4. Turns(h, r) /\ HandsOK'
    BY <1>9, <2>3, GoesTurns DEF DevType
  <2>5. /\ Launches(docker, docker', row.id, row.comm) /\ DockerOK(docker')
        /\ Handled(docker, docker', row.id, row.comm, row.net, row.ctr)
    BY <1>4, <1>5, <1>7, <1>9 DEF Handled, Launches
  <2>6. Starts(h)
    BY <1>1, <1>9, <2>1, <2>2, <2>4, <2>5 DEF Starts, rows
  <2>7. DevType'
    BY <1>1, <1>9, <2>4, <2>5 DEF DevType, rows
  <2>8. QED BY <2>6, <2>7
<1>10. QED BY <1>1, <1>8, <1>9

LEMMA UpdatedRow ==
  ASSUME DevType, NEW h \in Handlers, req[h].kind \in Runs \cup {"stop"}, NEW r \in DeviceRow,
         req[h].kind \in Runs => \E m \in req[h].made : req[h].made = {m}
  PROVE  LET u == Update(h, r) IN
         /\ u \in DeviceRow /\ u.id = r.id /\ u.net = r.net /\ u.comm = r.comm /\ u.ip = r.ip
         /\ req[h].kind = "stop" =>
              /\ u.ctr = r.ctr
              /\ u.status = IF req[h].row.status # "stopped" THEN "stopped" ELSE r.status
         /\ req[h].kind \in Runs =>
              /\ \A m \in req[h].made : u.ctr = m.ctr
              /\ u.status = IF req[h].row.status # "running" THEN "running" ELSE r.status
<1> DEFINE new == CHOOSE n \in req[h].made : TRUE
           status == IF req[h].kind = "stop" THEN "stopped" ELSE "running"
           u == [r EXCEPT !.ctr    = IF req[h].kind = "stop" THEN @ ELSE new.ctr,
                          !.status = IF req[h].row.status # status THEN status ELSE @]
<1>1. Update(h, r) = u
  BY DEF Update
<1>2. req[h].kind \in Runs => new.ctr \in Nat /\ \A m \in req[h].made : m = new
  BY DEF DevType, HandsOK, HandOK, DeviceRow
<1>3. req[h].kind \in Runs <=> req[h].kind # "stop"
  BY DEF Runs
<1> HIDE DEF new
<1>4. /\ u.id = r.id /\ u.net = r.net /\ u.comm = r.comm /\ u.ip = r.ip
      /\ u.ctr = (IF req[h].kind = "stop" THEN r.ctr ELSE new.ctr)
      /\ u.status = (IF req[h].row.status # status THEN status ELSE r.status)
      /\ u \in DeviceRow
  BY <1>2, <1>3 DEF DeviceRow
<1> HIDE DEF u
<1>5. QED BY <1>1, <1>2, <1>3, <1>4

\* A start that commits has made one row.
StartsMake ==
  \A h \in Handlers :
    req[h].kind \in Runs /\ req[h].pc = "commit" => \E m \in req[h].made : req[h].made = {m}

LEMMA UpdateEffect ==
  ASSUME DevType, StartsMake, NEW h \in Handlers, CommitOperate(h)
  PROVE  DevType' /\ (Fails(h) \/ Updates(h))
<1> DEFINE id == req[h].row.id
<1>1. /\ req[h].kind \in Runs \cup {"stop"} /\ req[h].pc = "commit" /\ Ends(h)
      /\ devices' = (devices \ RowsOf(id)) \cup {Update(h, r) : r \in RowsOf(id)}
      /\ failed' = IF RowsOf(id) = {} THEN failed \cup Busy(h)
                   ELSE IF req[h].kind \in Runs THEN failed \ {id} ELSE failed
      /\ patched' = IF req[h].kind \notin Runs THEN patched
                    ELSE IF req[h].behind THEN patched \cup {id} ELSE patched \ {id}
      /\ UNCHANGED <<docker, networks, links, lastId, count, faults, raced, lost>>
  BY DEF CommitOperate, Is
<1>2. Turns(h, Idle) /\ HandsOK' /\ req[h].kind \in Operations /\ Busy(h) \subseteq Nat
  BY <1>1, EndsTurns, BusyIds DEF DevType, Operations
<1>3. id \in Nat
  BY <1>2, OperateHand, RowFields
<1>4. patched' \subseteq Nat /\ failed' \subseteq Nat
  BY <1>1, <1>2, <1>3 DEF DevType
<1>5. \A r \in RowsOf(id) : Update(h, r) \in DeviceRow
  BY <1>1, UpdatedRow DEF StartsMake, DevType, RowsOf
<1>6. devices' \subseteq DeviceRow
  BY <1>1, <1>5 DEF DevType
<1>7. DevType'
  BY <1>1, <1>2, <1>4, <1>6 DEF DevType
<1>8. CASE RowsOf(id) = {}
  <2>1. devices' = devices /\ failed' = failed \cup Busy(h)
    BY <1>1, <1>8
  <2>2. \A r \in devices : r.id \in patched => r.id \in patched'
    BY <1>1, <1>8 DEF RowsOf
  <2>3. Fails(h)
    BY <1>1, <1>2, <2>1, <2>2 DEF Fails
  <2>4. QED BY <1>7, <2>3
<1>9. CASE RowsOf(id) # {}
  BY <1>1, <1>2, <1>7, <1>9 DEF Updates
<1>10. QED BY <1>8, <1>9

LEMMA CommitPatchEffect ==
  ASSUME DevType, NEW h \in Handlers, CommitPatch(h)
  PROVE  DevType' /\ Patches(h)
<1>1. /\ req[h].kind = "patch"
      /\ devices' = {IF PatchesRow(h, r) THEN [r EXCEPT !.comm = req[h].comm] ELSE r :
                       r \in devices}
      /\ patched' = patched \cup {r.id : r \in {x \in devices : PatchesRow(h, x)}}
      /\ req' = [g \in Handlers |->
           IF g = h THEN Idle
           ELSE IF req[g].kind \in Runs /\ PatchesRow(h, req[g].row)
                  THEN [req[g] EXCEPT !.behind = TRUE]
           ELSE req[g]]
      /\ UNCHANGED <<docker, networks, links, lastId, count, faults, failed, raced, lost>>
  BY DEF CommitPatch, Is
<1>2. Patches(h)
  BY <1>1 DEF Patches
<1>3. \A g \in Handlers : HandOK(req[g])
  BY DEF DevType, HandsOK
<1>4. ASSUME NEW g \in Handlers PROVE HandOK(req'[g])
  <2>1. CASE req'[g] = Idle
    BY <2>1, IdleOK
  <2>2. CASE req'[g] = req[g]
    BY <1>3, <2>2
  <2>3. CASE req'[g] = [req[g] EXCEPT !.behind = TRUE]
    <3> DEFINE q == req[g]
               r == [q EXCEPT !.behind = TRUE]
    <3>1. HandOK(q)
      BY <1>3
    <3> HIDE DEF q
    <3>2. /\ DOMAIN r = DOMAIN q /\ r.kind = q.kind /\ r.pc = q.pc /\ r.row = q.row
          /\ r.made = q.made /\ r.seen = q.seen /\ r.behind = TRUE /\ r.lab = q.lab
          /\ r.todo = q.todo /\ r.comm = q.comm /\ r.peer = q.peer /\ r.lnk = q.lnk
          /\ r.index = q.index
      BY <3>1 DEF HandOK, Idle
    <3> HIDE DEF r
    <3>3. HandOK(r)
      BY <3>1, <3>2 DEF HandOK
    <3>4. QED BY <2>3, <3>3 DEF q, r
  <2>4. QED BY <1>1, <2>1, <2>2, <2>3
<1>5. HandsOK'
  BY <1>1, <1>4 DEF HandsOK
<1>6. req[h].comm \in Communities
  BY <1>1, <1>3 DEF HandOK
<1>7. \A r \in DeviceRow : [r EXCEPT !.comm = req[h].comm] \in DeviceRow
  BY <1>6 DEF DeviceRow
<1>8. devices' \subseteq DeviceRow
  BY <1>1, <1>7 DEF DevType
<1>9. patched' \subseteq Nat
  BY <1>1, RowFields DEF DevType
<1>10. QED BY <1>1, <1>2, <1>5, <1>8, <1>9 DEF DevType

LEMMA DeleteEffect ==
  ASSUME DevType, NEW h \in Handlers, CommitDelete(h)
  PROVE  DevType' /\ (Fails(h) \/ Deletes(h))
<1> DEFINE id == req[h].row.id
<1>1. /\ req[h].kind = "delete" /\ req[h].pc = "commit" /\ Ends(h)
      /\ IF Linked(id) THEN Lose(h) /\ UNCHANGED devices
                       ELSE devices' = devices \ RowsOf(id) /\ UNCHANGED failed
      /\ UNCHANGED <<docker, networks, links, lastId, count, faults, raced, patched, lost>>
  BY DEF CommitDelete, Is
<1>2. req[h].kind \in Operations /\ faults' \in 0..MaxFaults /\ lost' \subseteq Nat
  BY <1>1 DEF Operations, DevType
<1>3. CASE Linked(id)
  BY <1>1, <1>2, <1>3, FailEnds DEF rows
<1>4. CASE ~Linked(id)
  <2>1. Turns(h, Idle) /\ HandsOK'
    BY <1>1, EndsTurns DEF DevType
  <2>2. Deletes(h)
    BY <1>1, <1>4, <2>1 DEF Deletes
  <2>3. QED BY <1>1, <1>4, <2>1, <2>2 DEF DevType
<1>5. QED BY <1>3, <1>4

LEMMA AbortEffect ==
  ASSUME DevType, NEW h \in Handlers, Abort(h)
  PROVE  DevType' /\ (Fails(h) \/ Quiet(h))
<1>1. /\ Fault /\ Ends(h)
      /\ IF req[h].pc \in {"docker", "patch"} THEN UNCHANGED failed ELSE Lose(h)
      /\ lost' = IF \/ Is(h, {"newnet"}, "commit") \/ Is(h, {"dropnet"}, "load")
                    \/ Is(h, {"dropnet"}, "commit")
                   THEN lost \cup {req[h].lab.net} ELSE lost
      /\ UNCHANGED <<docker, rows, lastId, count, raced, patched>>
  BY DEF Abort
<1>2. HandOK(req[h])
  BY DEF DevType, HandsOK
<1>3. faults' \in 0..MaxFaults
  BY <1>1, Counted DEF Fault
<1>4. lost' \subseteq Nat
  <2>1. Is(h, {"newnet"}, "commit") \/ Is(h, {"dropnet"}, "load") \/ Is(h, {"dropnet"}, "commit")
          => req[h].lab.net \in Nat
    BY LabIds DEF Is
  <2>2. QED BY <1>1, <2>1 DEF DevType
<1>5. CASE req[h].kind \in LinkKinds
  <2>1. Turns(h, Idle) /\ HandsOK'
    BY <1>1, EndsTurns DEF DevType
  <2>2. failed \subseteq failed' /\ failed' \subseteq Nat
    BY <1>1, BusyIds DEF Lose, DevType
  <2>3. DockerSame
    BY <1>1, Stays
  <2>4. Quiet(h)
    BY <1>1, <1>2, <1>5, <2>1, <2>2, <2>3, IdleOK
       DEF Quiet, DockerSame, rows, HandOK, Quietly, Operations, Runs
  <2>5. QED BY <1>1, <1>3, <1>4, <2>1, <2>2, <2>3, <2>4 DEF DevType, DockerSame, rows
<1>6. CASE req[h].kind \in Quietly \ LinkKinds
  <2>1. failed' = failed
    <3>1. req[h].kind = "patch" => req[h].pc = "patch"
      BY <1>2 DEF HandOK
    <3>2. req[h].kind # "patch" => req[h].made = {} /\ req[h].row = None
      BY <1>2, <1>6 DEF HandOK, Quietly, LinkKinds
    <3>3. QED BY <1>1, <3>1, <3>2 DEF Lose, Busy
  <2>2. DockerSame
    BY <1>1, Stays
  <2>3. /\ networks \subseteq networks' /\ networks' \subseteq NetworkRow
        /\ UNCHANGED <<devices, links, lastId, failed, raced, patched>>
        /\ count' \in 0..MaxRequests
    BY <1>1, <2>1 DEF DevType, rows
  <2>4. QED BY <1>1, <1>3, <1>4, <1>6, <2>2, <2>3, QuietEnds
<1>7. CASE req[h].kind \in {"create"} \cup Operations
  <2>1. CASE req[h].pc \in {"docker", "patch"}
    <3>1. req[h].pc = "docker" /\ req[h].kind \in Operations
      BY <1>2, <1>7, <2>1 DEF HandOK, Operations, Runs
    <3>2. Turns(h, Idle) /\ HandsOK' /\ failed' = failed
      BY <1>1, <2>1, EndsTurns DEF DevType
    <3>3. Fails(h)
      BY <1>1, <3>1, <3>2 DEF Fails, rows
    <3>4. DevType'
      BY <1>1, <1>3, <1>4, <3>2 DEF DevType, rows
    <3>5. QED BY <3>3, <3>4
  <2>2. CASE req[h].pc \notin {"docker", "patch"}
    BY <1>1, <1>3, <1>4, <1>7, <2>2, FailEnds
  <2>3. QED BY <2>1, <2>2
<1>8. QED BY <1>2, <1>5, <1>6, <1>7 DEF HandOK

Effect(h) ==
  \/ Quiet(h) \/ Detaches(h) \/ Fails(h)
  \/ Inserts(h) \/ RunsUp(h) \/ Creates(h)
  \/ \E kind \in Operations, r \in devices : Takes(h, kind, r)
  \/ Stops(h) \/ Starts(h) \/ Updates(h) \/ Patches(h) \/ Deletes(h)

LEMMA DeviceEffects ==
  ASSUME DevType, StartsMake, NEW h \in Handlers, DeviceRequest(h) \/ DeviceStep(h)
  PROVE  DevType' /\ Effect(h)
<1>1. CASE DeviceRequest(h)
  BY <1>1, CreateNetworkEffect, DeleteNetworkEffect, CreateDevicesEffect, OperateEffect,
     PatchRequestEffect DEF DeviceRequest, Effect
<1>2. CASE CommitNetwork(h) \/ CheckNetwork(h) \/ RemoveNetwork(h) \/ LoadMembers(h)
  BY <1>2, CommitNetworkEffect, DropNetworkEffect DEF Effect
<1>3. CASE CommitDropNetwork(h)
  BY <1>3, DetachEffect DEF Effect
<1>4. CASE InsertDevice(h) \/ RunContainer(h) \/ CommitCreate(h)
  BY <1>4, InsertEffect, RunEffect, CreateEffect DEF Effect
<1>5. CASE StopContainer(h) \/ StartContainer(h)
  BY <1>5, StopEffect, StartEffect DEF Effect
<1>6. CASE CommitOperate(h) \/ CommitDelete(h) \/ CommitPatch(h) \/ Abort(h)
  BY <1>6, UpdateEffect, DeleteEffect, CommitPatchEffect, AbortEffect DEF Effect
<1>7. QED BY <1>1, <1>2, <1>3, <1>4, <1>5, <1>6 DEF DeviceStep

LEMMA StartsMakeKept ==
  ASSUME DevType, StartsMake, NEW h \in Handlers, Effect(h) PROVE StartsMake'
<1> DEFINE OK(q) == q.kind \in Runs /\ q.pc = "commit" => \E m \in q.made : q.made = {m}
<1>1. \A g \in Handlers : OK(req[g])
  BY DEF StartsMake
<1>2. ASSUME NEW r, Turns(h, r), OK(r) PROVE \A g \in Handlers : OK(req'[g])
  BY <1>1, <1>2 DEF Turns
<1>3. OK(Idle)
  BY IdleOK DEF Runs
<1>4. CASE Quiet(h)
  <2>1. PICK r : Turns(h, r) /\ r.kind \notin Operations
    BY <1>4 DEF Quiet
  <2>2. OK(r)
    BY <2>1 DEF Operations
  <2>3. QED BY <1>2, <2>1, <2>2 DEF StartsMake
<1>5. CASE Detaches(h) \/ Fails(h) \/ Creates(h) \/ Updates(h) \/ Deletes(h)
  <2>1. Turns(h, Idle)
    BY <1>5 DEF Detaches, Fails, Creates, Updates, Deletes
  <2>2. QED BY <1>2, <1>3, <2>1 DEF StartsMake
<1>6. CASE Inserts(h) \/ RunsUp(h)
  <2>1. PICK r : Turns(h, r) /\ r.kind = "create"
    BY <1>6 DEF Inserts, RunsUp
  <2>2. OK(r)
    BY <2>1 DEF Runs
  <2>3. QED BY <1>2, <2>1, <2>2 DEF StartsMake
<1>7. ASSUME NEW kind, NEW row, Takes(h, kind, row) PROVE StartsMake'
  <2>1. PICK r : Turns(h, r) /\ r.pc = "docker"
    BY <1>7 DEF Takes
  <2>2. OK(r)
    BY <2>1
  <2>3. QED BY <1>2, <2>1, <2>2 DEF StartsMake
<1>8. CASE Stops(h)
  <2>1. PICK r : Turns(h, r) /\ r.kind \in {"stop", "delete"}
    BY <1>8 DEF Stops
  <2>2. OK(r)
    BY <2>1 DEF Runs
  <2>3. QED BY <1>2, <2>1, <2>2 DEF StartsMake
<1>9. CASE Starts(h)
  <2>1. PICK r : Turns(h, r) /\ r.made = {Launched(req[h].row, docker.next)}
    BY <1>9 DEF Starts
  <2>2. OK(r)
    BY <2>1
  <2>3. QED BY <1>2, <2>1, <2>2 DEF StartsMake
<1>10. CASE Patches(h)
  <2>1. ASSUME NEW g \in Handlers PROVE OK(req'[g])
    <3>1. DOMAIN req[g] = DOMAIN Idle
      BY DEF DevType, HandsOK, HandOK
    <3>2. req'[g] = Idle \/ req'[g] = req[g] \/ req'[g] = [req[g] EXCEPT !.behind = TRUE]
      BY <1>10 DEF Patches
    <3>3. QED BY <1>1, <1>3, <3>1, <3>2 DEF Idle
  <2>2. QED BY <2>1 DEF StartsMake
<1>11. QED BY <1>4, <1>5, <1>6, <1>7, <1>8, <1>9, <1>10 DEF Effect

LEMMA TypeInitially == Init => DevType /\ StartsMake
<1> SUFFICES ASSUME Init PROVE DevType /\ StartsMake
  OBVIOUS
<1>1. FirstLab \in Labs /\ LabBase[FirstLab] \in Nat /\ Public \in Communities
  BY DevicesAssumption DEF FirstLab, Public
<1>2. InitDevices \in Nat /\ MaxRequests \in Nat /\ MaxFaults \in Nat
  BY DevicesAssumption
<1>3. HandsOK /\ StartsMake
  <2>1. DOMAIN req = Handlers /\ \A h \in Handlers : req[h] = Idle
    BY DEF Init
  <2>2. QED BY <2>1, IdleOK DEF HandsOK, StartsMake, Runs
<1>4. networks \subseteq NetworkRow /\ devices \subseteq DeviceRow /\ links \subseteq LinkRow
  <2>1. InitNet \in NetworkRow
    BY <1>1 DEF InitNet, NetworkRow
  <2>2. \A i \in 1..InitDevices : InitRow(i) \in DeviceRow
    BY <1>1, <1>2 DEF InitRow, DeviceRow
  <2>3. QED BY <2>1, <2>2 DEF Init
<1>5. DockerOK(docker)
  <2>1. CASE InitDevices = 0
    <3>1. docker = NoDocker
      BY <2>1 DEF Init
    <3>2. NoDocker \in DockerType
      BY DEF NoDocker, DockerType
    <3>3. QED BY <3>1, <3>2 DEF NoDocker, DockerOK
  <2>2. CASE InitDevices # 0
    <3> DEFINE ctr(i) == [id |-> i + 1, dev |-> i, comm |-> Public, up |-> TRUE]
               net == [id |-> 1, name |-> FirstLab, base |-> LabBase[FirstLab]]
               end(i) == [ctr |-> i + 1, net |-> 1, ip |-> LabBase[FirstLab] + 1 + i]
    <3>1. docker = [ctrs |-> {ctr(i) : i \in 1..InitDevices}, nets |-> {net},
                    ends |-> {end(i) : i \in 1..InitDevices}, next |-> InitDevices + 2]
      BY <2>2 DEF Init
    <3>2. \A i \in 1..InitDevices : ctr(i) \in Container /\ ctr(i).id = i + 1
      BY <1>1, <1>2 DEF Container
    <3>3. \A i \in 1..InitDevices : end(i) \in Endpoint /\ end(i).ctr = i + 1 /\ end(i).net = 1
      BY <1>1, <1>2 DEF Endpoint
    <3>4. net \in DockerNet /\ net.id = 1
      BY <1>1 DEF DockerNet
    <3> HIDE DEF ctr, net, end
    <3>5. docker \in DockerType
      BY <1>2, <3>1, <3>2, <3>3, <3>4 DEF DockerType
    <3>6. /\ docker.ctrs = {ctr(i) : i \in 1..InitDevices} /\ docker.nets = {net}
          /\ docker.ends = {end(i) : i \in 1..InitDevices} /\ docker.next = InitDevices + 2
      BY <3>1
    <3>7. /\ \A c \in docker.ctrs : c.id > 0 /\ c.id < docker.next
          /\ \A b, c \in docker.ctrs : b.id = c.id => b = c
      BY <1>2, <3>2, <3>6
    <3>8. \A x \in docker.ends : x.ctr \in Containers(docker) /\ x.net \in Networks(docker)
      BY <3>2, <3>3, <3>4, <3>6 DEF Containers, Networks
    <3>9. QED BY <1>2, <3>4, <3>5, <3>6, <3>7, <3>8 DEF DockerOK
  <2>3. QED BY <2>1, <2>2
<1>6. QED BY <1>2, <1>3, <1>4, <1>5 DEF DevType, Init

LEMMA TypeAlways == DeviceSpec => [](DevType /\ StartsMake)
<1>1. DevType /\ StartsMake /\ [DeviceNext]_labVars => (DevType /\ StartsMake)'
  <2>1. ASSUME DevType, StartsMake, NEW h \in Handlers, DeviceRequest(h) \/ DeviceStep(h)
        PROVE  (DevType /\ StartsMake)'
    BY <2>1, DeviceEffects, StartsMakeKept
  <2>2. ASSUME DevType, StartsMake, UNCHANGED labVars PROVE (DevType /\ StartsMake)'
    BY <2>2 DEF DevType, StartsMake, HandsOK, labVars, rows
  <2>3. QED BY <2>1, <2>2 DEF DeviceNext
<1>2. QED BY <1>1, TypeInitially, PTL DEF DeviceSpec

LEMMA TypeFollows == DevType => TypeOK
BY DEF DevType, HandsOK, HandOK, DockerOK, DockerType, Container, DockerNet, Endpoint, TypeOK

\* Whatever requests, failures and refusals there are, state stays what the
\* tables and the daemon can hold.
THEOREM DevicesTypeCorrect == DeviceSpec => []TypeOK
BY TypeFollows, TypeAlways, PTL

-----------------------------------------------------------------------------
(* Network rows and Docker networks.  An id stands for one name for ever,  *)
(* in the daemon, in the rows and in the hands of requests; so the row     *)
(* that a delete removes is the row of the network it has removed.         *)

NetKinds == {"newnet", "dropnet"}

KnownAs(id, name) ==
  \/ \E n \in docker.nets : n.id = id /\ n.name = name
  \/ \E n \in networks : n.net = id /\ n.name = name
  \/ \E h \in Handlers : /\ req[h].kind \in NetKinds
                         /\ req[h].lab.net = id /\ req[h].lab.name = name

LabRow(r) == r = [name |-> r.name, net |-> r.net, base |-> LabBase[r.name]]

DockerShape(d) == DOMAIN d = {"ctrs", "nets", "ends", "next"} /\ d.next \in Nat

NetShape ==
  /\ DockerShape(docker)
  /\ DOMAIN req = Handlers
  /\ \A h \in Handlers :
       /\ DOMAIN req[h] = DOMAIN Idle
       /\ req[h].kind \in NetKinds => LabRow(req[h].lab)
       /\ req[h].kind = "newnet" => req[h].pc = "commit"
  /\ \A n \in networks : LabRow(n)

IdsKnown ==
  /\ \A id, a : KnownAs(id, a) => id \in Nat /\ id < docker.next
  /\ \A id, a, b : KnownAs(id, a) /\ KnownAs(id, b) => a = b

NamesOnce == \A m, n \in networks : m.name = n.name => m = n

\* The network is removed, its row not yet.
Dropping(h) == req[h].kind = "dropnet" /\ req[h].pc \in {"load", "commit"}

DroppedGone ==
  \A h \in Handlers : Dropping(h) => req[h].lab.net \notin Networks(docker)

MadeThere ==
  \A h \in Handlers :
    req[h].kind = "newnet" => req[h].lab.net \in Networks(docker) \cup lost

RowsExplained ==
  \A n \in networks :
    \/ n.net \in Networks(docker) \cup lost
    \/ \E h \in Handlers : Dropping(h) /\ req[h].lab.net = n.net

NetsExplained ==
  \A n \in docker.nets :
    n.name \in Labs =>
      \/ n.id \in lost
      \/ \E r \in networks : r.net = n.id
      \/ \E h \in Handlers : req[h].kind = "newnet" /\ req[h].lab.net = n.id

NetInv ==
  /\ NetShape /\ IdsKnown /\ NamesOnce /\ DroppedGone /\ MadeThere
  /\ RowsExplained /\ NetsExplained

LEMMA EmptyHands ==
  /\ DOMAIN Idle = {"kind", "pc", "lab", "row", "peer", "todo", "made", "seen", "index",
                    "lnk", "comm", "behind"}
  /\ Idle.made = {} /\ Idle.kind = "idle"
  BY DEF Idle

\* What handling containers does to the networks of the daemon: nothing.
Keeps(d, e) == DockerShape(e) /\ e.nets = d.nets /\ e.next >= d.next

LEMMA KeepsItself == ASSUME NEW d, DockerShape(d) PROVE Keeps(d, d)
  BY DEF Keeps, DockerShape

LEMMA KeepsOn ==
  ASSUME NEW d, NEW e, NEW f, DockerShape(d), Keeps(d, e), Keeps(e, f) PROVE Keeps(d, f)
  BY DEF Keeps, DockerShape

LEMMA WithoutKeeps ==
  ASSUME NEW d, DockerShape(d), NEW gone PROVE Keeps(d, Without(d, gone))
  BY DEF Keeps, DockerShape, Without

LEMMA CreateKeeps ==
  ASSUME NEW d, DockerShape(d), NEW dev, NEW comm PROVE Keeps(d, Create(d, dev, comm))
<1> DEFINE left == Without(d, {c.id : c \in OldOf(d, dev)})
<1>1. Keeps(d, left)
  BY WithoutKeeps
<1>2. Create(d, dev, comm) =
        [left EXCEPT !.ctrs = @ \cup {[id |-> d.next, dev |-> dev, comm |-> comm, up |-> FALSE]},
                     !.next = @ + 1]
  BY DEF Create
<1> HIDE DEF left
<1>3. QED BY <1>1, <1>2 DEF Keeps, DockerShape

LEMMA ConnectKeeps ==
  ASSUME NEW d, DockerShape(d), NEW ctr, NEW net, NEW ip
  PROVE  Keeps(d, Connect(d, ctr, net, ip).d)
<1> DEFINE added == [d EXCEPT !.ends = @ \cup {[ctr |-> ctr, net |-> net, ip |-> ip]}]
<1>1. Keeps(d, added) /\ Keeps(d, d)
  BY DEF Keeps, DockerShape
<1>2. Connect(d, ctr, net, ip).d \in {d, added}
  BY DEF Connect, Out
<1>3. QED BY <1>1, <1>2

LEMMA StartKeeps ==
  ASSUME NEW d, DockerShape(d), NEW ctr PROVE Keeps(d, Start(d, ctr))
  BY DEF Keeps, DockerShape, Start

LEMMA ContainerKeeps ==
  ASSUME NEW d, DockerShape(d), NEW dev, NEW comm, NEW net, NEW ip
  PROVE  Keeps(d, create_device_container(d, dev, comm, net, ip).d)
<1> DEFINE made == Create(d, dev, comm)
           plug == Connect(made, d.next, net, ip)
<1>1. Keeps(d, made) /\ DockerShape(made)
  BY CreateKeeps DEF Keeps
<1>2. Keeps(made, plug.d) /\ DockerShape(plug.d)
  BY <1>1, ConnectKeeps DEF Keeps
<1>3. Keeps(plug.d, Start(plug.d, d.next))
  BY <1>2, StartKeeps
<1>4. create_device_container(d, dev, comm, net, ip).d \in {Start(plug.d, d.next), made}
  BY DEF create_device_container, Out
<1> HIDE DEF made, plug
<1>5. Keeps(d, Start(plug.d, d.next))
  BY <1>1, <1>2, <1>3, KeepsOn
<1>6. QED BY <1>1, <1>4, <1>5

LEMMA BrokenKeeps ==
  ASSUME NEW d, DockerShape(d), NEW dev, NEW comm, NEW net, NEW ip,
         NEW o \in BrokenCreates(d, dev, comm, net, ip)
  PROVE  Keeps(d, o.d)
<1>1. o.d \in {d, Without(d, {c.id : c \in OldOf(d, dev)}), Create(d, dev, comm),
               create_device_container(d, dev, comm, net, ip).d}
  BY DEF BrokenCreates, Out
<1>2. QED
  BY <1>1, KeepsItself, WithoutKeeps, CreateKeeps, ContainerKeeps

-----------------------------------------------------------------------------
(* What the requests that are not about networks or links do to the rest.  *)

Ready ==
  /\ DockerShape(docker) /\ DOMAIN req = Handlers
  /\ \A h \in Handlers : DOMAIN req[h] = DOMAIN Idle

Moves(h, kinds) == \E r : Goes(h, r) /\ DOMAIN r = DOMAIN Idle /\ r.kind \in kinds

LEMMA GoesMoves ==
  ASSUME NEW h, NEW r, Goes(h, r), NEW kinds, DOMAIN r = DOMAIN Idle, r.kind \in kinds
  PROVE  Moves(h, kinds)
  BY DEF Moves

LEMMA EndsMoves ==
  ASSUME NEW h, Ends(h), NEW k PROVE Moves(h, {"idle", k})
<1>1. Goes(h, Idle) /\ Idle.kind \in {"idle", k}
  BY EmptyHands DEF Ends, Goes
<1>2. QED BY <1>1, GoesMoves

LEMMA MovesOn ==
  ASSUME NEW h, NEW r, Ends(h) \/ Goes(h, r), DOMAIN r = DOMAIN Idle, NEW k, r.kind = k
  PROVE  Moves(h, {"idle", k})
<1>1. CASE Ends(h)
  BY <1>1, EndsMoves
<1>2. CASE Goes(h, r)
  BY <1>2, GoesMoves
<1>3. QED BY <1>1, <1>2

LEMMA ContainerSteps ==
  ASSUME Ready, NEW h \in Handlers,
         \/ InsertDevice(h) \/ RunContainer(h) \/ CommitCreate(h)
         \/ StopContainer(h) \/ StartContainer(h) \/ CommitOperate(h) \/ CommitDelete(h)
  PROVE  /\ req[h].kind \in {"create"} \cup Operations
         /\ Keeps(docker, docker') /\ UNCHANGED <<networks, links, lost, count>>
         /\ Moves(h, {"idle", req[h].kind})
<1>0. DockerShape(docker) /\ DOMAIN req[h] = DOMAIN Idle /\ Keeps(docker, docker)
  BY KeepsItself DEF Ready
<1>1. CASE InsertDevice(h)
  <2> DEFINE row == NewRow(h, Head(req[h].todo))
             r == [req[h] EXCEPT !.pc = "run", !.row = row, !.made = @ \cup {row}]
  <2>1. /\ UNCHANGED <<docker, networks, links, lost, count>> /\ req[h].kind = "create"
        /\ Ends(h) \/ Goes(h, r)
    BY <1>1 DEF InsertDevice, rows, Is
  <2>2. DOMAIN r = DOMAIN Idle /\ r.kind = req[h].kind
    BY <1>0
  <2> HIDE DEF r
  <2>3. Moves(h, {"idle", req[h].kind})
    BY <2>1, <2>2, MovesOn
  <2>4. QED BY <1>0, <2>1, <2>3
<1>2. CASE RunContainer(h)
  <2> DEFINE row == req[h].row
             todo == Tail(req[h].todo)
             good == create_device_container(docker, row.id, row.comm, req[h].lab.net, row.ip)
             bad == BrokenCreates(docker, row.id, row.comm, req[h].lab.net, row.ip)
             r == [req[h] EXCEPT !.pc = IF todo = <<>> THEN "commit" ELSE "insert",
                     !.todo = todo, !.made = (@ \ {row}) \cup {Launched(row, good.id)}]
  <2>1. Keeps(docker, good.d) /\ \A o \in bad : Keeps(docker, o.d)
    BY <1>0, ContainerKeeps, BrokenKeeps
  <2>2. /\ UNCHANGED <<networks, links, lost, count>> /\ req[h].kind = "create"
        /\ docker' = good.d \/ \E o \in bad : docker' = o.d
        /\ Ends(h) \/ Goes(h, r)
    BY <1>2 DEF RunContainer, rows, Is
  <2>3. DOMAIN r = DOMAIN Idle /\ r.kind = req[h].kind
    BY <1>0
  <2> HIDE DEF r, good, bad
  <2>4. Moves(h, {"idle", req[h].kind})
    BY <2>2, <2>3, MovesOn
  <2>5. QED BY <2>1, <2>2, <2>4
<1>3. CASE StopContainer(h)
  <2> DEFINE r == [req[h] EXCEPT !.pc = "commit"]
  <2>1. /\ UNCHANGED <<networks, links, lost, count>> /\ req[h].kind \in Operations
        /\ docker' = Removes(h) /\ Goes(h, r)
    BY <1>3 DEF StopContainer, rows, Is, Operations
  <2>2. Keeps(docker, docker')
    BY <1>0, <2>1, WithoutKeeps DEF Removes, stop_and_remove_container
  <2>3. DOMAIN r = DOMAIN Idle /\ r.kind = req[h].kind
    BY <1>0
  <2> HIDE DEF r
  <2>4. Moves(h, {"idle", req[h].kind})
    BY <2>1, <2>3, MovesOn
  <2>5. QED BY <2>1, <2>2, <2>4
<1>4. CASE StartContainer(h)
  <2> DEFINE row == req[h].row
             d == IF req[h].kind = "restart" THEN Removes(h) ELSE docker
             good == create_device_container(d, row.id, row.comm, row.net, row.ip)
             bad == BrokenCreates(d, row.id, row.comm, row.net, row.ip)
             r == [req[h] EXCEPT !.pc = "commit", !.made = {Launched(row, good.id)}]
  <2>1. Keeps(docker, d) /\ DockerShape(d)
    BY <1>0, WithoutKeeps DEF Removes, stop_and_remove_container, Keeps
  <2>2. /\ UNCHANGED <<networks, links, lost, count>> /\ req[h].kind \in Operations
        /\ docker' = d \/ docker' = good.d \/ \E o \in bad : docker' = o.d
        /\ Ends(h) \/ Goes(h, r)
    BY <1>4 DEF StartContainer, rows, Is, Operations
  <2>3. DOMAIN r = DOMAIN Idle /\ r.kind = req[h].kind
    BY <1>0
  <2> HIDE DEF d, r
  <2>4. Keeps(docker, good.d) /\ \A o \in bad : Keeps(docker, o.d)
    BY <1>0, <2>1, ContainerKeeps, BrokenKeeps, KeepsOn
  <2> HIDE DEF good, bad
  <2>5. Moves(h, {"idle", req[h].kind})
    BY <2>2, <2>3, MovesOn
  <2>6. QED BY <2>1, <2>2, <2>4, <2>5
<1>5. CASE CommitCreate(h) \/ CommitOperate(h) \/ CommitDelete(h)
  <2>1. /\ UNCHANGED <<docker, networks, links, lost, count>> /\ Ends(h)
        /\ req[h].kind \in {"create"} \cup Operations
    BY <1>5 DEF CommitCreate, CommitOperate, CommitDelete, Is, Operations, Runs
  <2>2. QED BY <1>0, <2>1, EndsMoves
<1>6. QED
  BY <1>1, <1>2, <1>3, <1>4, <1>5

LEMMA PatchEffect ==
  ASSUME Ready, NEW h \in Handlers, CommitPatch(h)
  PROVE  /\ UNCHANGED <<docker, networks, links, lost, count>> /\ Keeps(docker, docker')
         /\ Ready'
         /\ \A g \in Handlers :
              \/ req'[g] = req[g]
              \/ req[g].kind \in Runs \cup {"patch"} /\ req'[g].kind \in Runs \cup {"idle"}
<1>1. /\ UNCHANGED <<docker, networks, links, lost, count>> /\ req[h].kind = "patch"
      /\ DOMAIN req' = Handlers /\ req'[h] = Idle
      /\ \A g \in Handlers \ {h} :
           \/ req'[g] = req[g]
           \/ req[g].kind \in Runs /\ req'[g] = [req[g] EXCEPT !.behind = TRUE]
  BY DEF CommitPatch, Is
<1>2. ASSUME NEW g \in Handlers
      PROVE  /\ DOMAIN req'[g] = DOMAIN Idle
             /\ \/ req'[g] = req[g]
                \/ req[g].kind \in Runs \cup {"patch"} /\ req'[g].kind \in Runs \cup {"idle"}
  BY <1>1, EmptyHands DEF Ready, Runs
<1>3. QED BY <1>1, <1>2, KeepsItself DEF Ready

LEMMA OtherRequests ==
  ASSUME Ready, NEW h \in Handlers,
         \/ \E n \in networks, ips \in IpLists : CreateDevices(h, n, ips)
         \/ \E kind \in Operations, r \in devices : Operate(h, kind, r)
         \/ \E r \in devices, c \in Communities : Patch(h, r, c)
  PROVE  /\ req[h].kind = "idle" /\ Keeps(docker, docker')
         /\ UNCHANGED <<networks, links, lost>> /\ count' = count + 1
         /\ Moves(h, {"create", "patch"} \cup Operations)
<1>1. /\ UNCHANGED <<docker, networks, links, lost>> /\ req[h] = Idle /\ count' = count + 1
  BY DEF CreateDevices, Operate, Patch, Arrives, rows
<1>2. Keeps(docker, docker') /\ req[h].kind = "idle"
  BY <1>1, KeepsItself, EmptyHands DEF Ready
<1> DEFINE kinds == {"create", "patch"} \cup Operations
<1>3. ASSUME NEW n, NEW ips, CreateDevices(h, n, ips) PROVE Moves(h, kinds)
  <2> DEFINE r == [Idle EXCEPT !.kind = "create", !.pc = "insert", !.lab = n, !.todo = ips]
  <2>1. Goes(h, r)
    BY <1>3 DEF CreateDevices
  <2>2. DOMAIN r = DOMAIN Idle /\ r.kind \in kinds
    BY DEF Idle
  <2>3. QED BY <2>1, <2>2, GoesMoves
<1>4. ASSUME NEW kind \in Operations, NEW d, Operate(h, kind, d) PROVE Moves(h, kinds)
  <2> DEFINE r == [Idle EXCEPT !.kind = kind, !.pc = "docker", !.row = d]
  <2>1. Goes(h, r)
    BY <1>4 DEF Operate
  <2>2. DOMAIN r = DOMAIN Idle /\ r.kind \in kinds
    BY DEF Idle
  <2>3. QED BY <2>1, <2>2, GoesMoves
<1>5. ASSUME NEW d, NEW c, Patch(h, d, c) PROVE Moves(h, kinds)
  <2> DEFINE r == [Idle EXCEPT !.kind = "patch", !.pc = "patch", !.row = d, !.comm = c]
  <2>1. Goes(h, r)
    BY <1>5 DEF Patch
  <2>2. DOMAIN r = DOMAIN Idle /\ r.kind \in kinds
    BY DEF Idle
  <2>3. QED BY <2>1, <2>2, GoesMoves
<1>6. QED BY <1>1, <1>2, <1>3, <1>4, <1>5

-----------------------------------------------------------------------------
(* Requests that are not about networks.                                   *)

LEMMA NetsUntouched ==
  ASSUME NetInv, Keeps(docker, docker'), networks' = networks, lost \subseteq lost',
         DOMAIN req' = Handlers,
         \A g \in Handlers :
           /\ DOMAIN req'[g] = DOMAIN Idle
           /\ req'[g].kind \in NetKinds <=> req[g].kind \in NetKinds
           /\ req[g].kind \in NetKinds => req'[g] = req[g]
  PROVE  NetInv'
<1>1. docker'.nets = docker.nets /\ docker.next \in Nat /\ docker'.next \in Nat
      /\ docker'.next >= docker.next /\ Networks(docker') = Networks(docker)
  BY DEF Keeps, DockerShape, NetInv, NetShape, Networks
<1>2. NetShape'
  BY DEF NetInv, NetShape, NetKinds, Keeps
<1>3. \A id, a : KnownAs(id, a)' <=> KnownAs(id, a)
  BY <1>1 DEF KnownAs
<1>4. IdsKnown'
  BY <1>1, <1>3 DEF NetInv, IdsKnown
<1>5. NamesOnce' /\ MadeThere'
  BY <1>1 DEF NetInv, NamesOnce, MadeThere, NetKinds
<1>6. \A g \in Handlers : Dropping(g)' <=> Dropping(g)
  BY DEF Dropping, NetKinds
<1>7. \A g \in Handlers : Dropping(g) => req'[g].lab = req[g].lab
  BY DEF Dropping, NetKinds
<1>8. DroppedGone' /\ RowsExplained'
  BY <1>1, <1>6, <1>7 DEF NetInv, DroppedGone, RowsExplained
<1>9. NetsExplained'
  BY <1>1 DEF NetInv, NetsExplained, NetKinds
<1>10. QED BY <1>2, <1>4, <1>5, <1>8, <1>9 DEF NetInv

LEMMA OthersMove ==
  ASSUME NetInv, NEW h \in Handlers, NEW kinds, Moves(h, kinds),
         kinds \cap NetKinds = {}, req[h].kind \notin NetKinds,
         Keeps(docker, docker'), networks' = networks, lost \subseteq lost'
  PROVE  NetInv'
<1>1. DOMAIN req = Handlers /\ \A g \in Handlers : DOMAIN req[g] = DOMAIN Idle
  BY DEF NetInv, NetShape
<1>2. PICK r : Goes(h, r) /\ DOMAIN r = DOMAIN Idle /\ r.kind \in kinds
  BY DEF Moves
<1>3. DOMAIN req' = Handlers /\ req'[h] = r /\ \A g \in Handlers \ {h} : req'[g] = req[g]
  BY <1>1, <1>2 DEF Goes
<1>4. QED BY <1>1, <1>2, <1>3, NetsUntouched

LEMMA OthersKeepNets ==
  ASSUME NetInv, NEW h \in Handlers,
         \/ InsertDevice(h) \/ RunContainer(h) \/ CommitCreate(h)
         \/ StopContainer(h) \/ StartContainer(h) \/ CommitOperate(h) \/ CommitDelete(h)
         \/ CommitPatch(h)
         \/ \E n \in networks, ips \in IpLists : CreateDevices(h, n, ips)
         \/ \E kind \in Operations, r \in devices : Operate(h, kind, r)
         \/ \E r \in devices, c \in Communities : Patch(h, r, c)
  PROVE  NetInv'
<1>0. Ready
  BY DEF NetInv, NetShape, Ready
<1>1. \A k \in {"idle", "create", "patch"} \cup Operations : k \notin NetKinds
  BY DEF Operations, Runs, NetKinds
<1>2. ASSUME \/ InsertDevice(h) \/ RunContainer(h) \/ CommitCreate(h)
             \/ StopContainer(h) \/ StartContainer(h) \/ CommitOperate(h) \/ CommitDelete(h)
      PROVE  NetInv'
  <2>1. /\ req[h].kind \in {"create"} \cup Operations /\ Keeps(docker, docker')
        /\ UNCHANGED <<networks, lost>> /\ Moves(h, {"idle", req[h].kind})
    BY <1>0, <1>2, ContainerSteps
  <2>2. QED BY <1>1, <2>1, OthersMove
<1>3. ASSUME CommitPatch(h) PROVE NetInv'
  <2>1. \A g \in Handlers :
          \/ req'[g] = req[g]
          \/ req[g].kind \notin NetKinds /\ req'[g].kind \notin NetKinds
    BY <1>0, <1>3, PatchEffect DEF Runs, NetKinds
  <2>2. Ready' /\ Keeps(docker, docker') /\ UNCHANGED <<networks, lost>>
    BY <1>0, <1>3, PatchEffect
  <2>3. QED BY <2>1, <2>2, NetsUntouched DEF Ready
<1>4. ASSUME \/ \E n \in networks, ips \in IpLists : CreateDevices(h, n, ips)
             \/ \E kind \in Operations, r \in devices : Operate(h, kind, r)
             \/ \E r \in devices, c \in Communities : Patch(h, r, c)
      PROVE  NetInv'
  <2>1. /\ req[h].kind = "idle" /\ Keeps(docker, docker') /\ UNCHANGED <<networks, lost>>
        /\ Moves(h, {"create", "patch"} \cup Operations)
    BY <1>0, <1>4, OtherRequests
  <2>2. QED BY <1>1, <2>1, OthersMove
<1>5. QED BY <1>2, <1>3, <1>4

-----------------------------------------------------------------------------
(* Requests about networks.                                                *)

LEMMA LabShape ==
  ASSUME NEW name, NEW net
  PROVE  LET lab == [name |-> name, net |-> net, base |-> LabBase[name]] IN
         LabRow(lab) /\ lab.name = name /\ lab.net = net
  BY DEF LabRow

\* A delete that goes on or gives up without touching networks.
LEMMA DropMoves ==
  ASSUME NetInv, NEW h \in Handlers, NEW r, Goes(h, r), DOMAIN r = DOMAIN Idle,
         UNCHANGED <<docker, networks>>, lost \subseteq lost',
         req[h].kind # "newnet",
         r.kind \in NetKinds => /\ r.kind = "dropnet" /\ LabRow(r.lab)
                                /\ KnownAs(r.lab.net, r.lab.name),
         r.kind = "dropnet" /\ r.pc \in {"load", "commit"} =>
           r.lab.net \notin Networks(docker),
         Dropping(h) => \/ req[h].lab.net \in lost'
                        \/ r.kind = "dropnet" /\ r.pc \in {"load", "commit"} /\ r.lab = req[h].lab
  PROVE  NetInv'
<1>1. DOMAIN req = Handlers /\ \A g \in Handlers : DOMAIN req[g] = DOMAIN Idle
  BY DEF NetInv, NetShape
<1>2. DOMAIN req' = Handlers /\ req'[h] = r /\ \A g \in Handlers \ {h} : req'[g] = req[g]
  BY <1>1 DEF Goes
<1>3. r.kind # "newnet"
  BY DEF NetKinds
<1>4. NetShape'
  BY <1>2, <1>3 DEF NetInv, NetShape
<1>5. \A id, a : KnownAs(id, a)' => KnownAs(id, a)
  BY <1>2 DEF KnownAs
<1>6. IdsKnown'
  BY <1>5 DEF NetInv, IdsKnown
<1>7. NamesOnce' /\ MadeThere'
  BY <1>2, <1>3 DEF NetInv, NamesOnce, MadeThere
<1>8. DroppedGone'
  BY <1>2 DEF NetInv, DroppedGone, Dropping
<1>9. RowsExplained'
  BY <1>2 DEF NetInv, RowsExplained, Dropping
<1>10. NetsExplained'
  BY <1>2, <1>3 DEF NetInv, NetsExplained
<1>11. QED BY <1>4, <1>6, <1>7, <1>8, <1>9, <1>10 DEF NetInv

LEMMA DropEnds ==
  ASSUME NetInv, NEW h \in Handlers, Ends(h), UNCHANGED <<docker, networks>>,
         lost \subseteq lost', req[h].kind # "newnet", Dropping(h) => req[h].lab.net \in lost'
  PROVE  NetInv'
  BY DropMoves, EmptyHands DEF Ends, Goes, NetKinds

\* A creation that failed in the database.
LEMMA MadeEnds ==
  ASSUME NetInv, NEW h \in Handlers, Ends(h), UNCHANGED <<docker, networks>>,
         req[h].kind = "newnet", lost' = lost \cup {req[h].lab.net}
  PROVE  NetInv'
<1>1. DOMAIN req = Handlers /\ \A g \in Handlers : DOMAIN req[g] = DOMAIN Idle
  BY DEF NetInv, NetShape
<1>2. /\ DOMAIN req' = Handlers /\ req'[h].kind = "idle" /\ DOMAIN req'[h] = DOMAIN Idle
      /\ \A g \in Handlers \ {h} : req'[g] = req[g]
  BY <1>1, EmptyHands DEF Ends
<1>3. NetShape'
  BY <1>1, <1>2 DEF NetInv, NetShape, NetKinds
<1>4. \A id, a : KnownAs(id, a)' => KnownAs(id, a)
  BY <1>2 DEF KnownAs, NetKinds
<1>5. IdsKnown'
  BY <1>4 DEF NetInv, IdsKnown
<1>6. NamesOnce' /\ MadeThere' /\ DroppedGone' /\ RowsExplained'
  BY <1>2 DEF NetInv, NamesOnce, MadeThere, DroppedGone, RowsExplained, Dropping
<1>7. NetsExplained'
  BY <1>2 DEF NetInv, NetsExplained
<1>8. QED BY <1>3, <1>5, <1>6, <1>7 DEF NetInv

LEMMA AbortKeepsNets ==
  ASSUME NetInv, NEW h \in Handlers, Abort(h) PROVE NetInv'
<1>1. /\ Ends(h) /\ UNCHANGED <<docker, networks>>
      /\ lost' = IF \/ Is(h, {"newnet"}, "commit") \/ Is(h, {"dropnet"}, "load")
                    \/ Is(h, {"dropnet"}, "commit")
                   THEN lost \cup {req[h].lab.net} ELSE lost
  BY DEF Abort, rows
<1>2. CASE req[h].kind = "newnet"
  <2>1. Is(h, {"newnet"}, "commit")
    BY <1>2 DEF NetInv, NetShape, Is
  <2>2. QED BY <1>1, <1>2, <2>1, MadeEnds
<1>3. CASE req[h].kind # "newnet"
  BY <1>1, <1>3, DropEnds DEF Dropping, Is
<1>4. QED BY <1>2, <1>3

LEMMA CreateNetworkStep ==
  ASSUME NetInv, NEW h \in Handlers, NEW name \in Labs,
         CreateNetwork(h, name, LabBase[name])
  PROVE  NetInv'
<1> DEFINE o == create_docker_network(docker, name, LabBase[name])
           lab == [name |-> name, net |-> o.id, base |-> LabBase[name]]
           r == [Idle EXCEPT !.kind = "newnet", !.pc = "commit", !.lab = lab]
<1>0. /\ DockerShape(docker) /\ DOMAIN req = Handlers
      /\ \A g \in Handlers : DOMAIN req[g] = DOMAIN Idle
  BY DEF NetInv, NetShape
<1>1. /\ req[h] = Idle /\ docker' = o.d /\ UNCHANGED <<networks, lost>>
      /\ IF o.err = "ok" THEN Goes(h, r) ELSE UNCHANGED req
  BY DEF CreateNetwork, Arrives, rows
\* A refusal, a network of that name, or a new one.
<1>2. \/ o.err # "ok" /\ o.d = docker
      \/ /\ o.err = "ok" /\ o.d = docker
         /\ \E n \in docker.nets : n.id = o.id /\ n.name = name
      \/ /\ o.err = "ok" /\ o.id = docker.next
         /\ o.d = AddNetwork(docker, name, LabBase[name])
  BY DEF create_docker_network, Out, Named
<1>3. LabRow(lab) /\ lab.name = name /\ lab.net = o.id
  BY LabShape
<1>4. DOMAIN r = DOMAIN Idle /\ r.kind = "newnet" /\ r.pc = "commit" /\ r.lab = lab
  BY EmptyHands
<1> HIDE DEF o, lab, r
<1>5. CASE o.err # "ok" /\ o.d = docker
  BY <1>0, <1>1, <1>5, KeepsItself, NetsUntouched
<1>6. CASE o.err = "ok" /\ \/ /\ o.d = docker
                              /\ \E n \in docker.nets : n.id = o.id /\ n.name = name
                           \/ /\ o.id = docker.next
                              /\ o.d = AddNetwork(docker, name, LabBase[name])
  <2>1. /\ DOMAIN req' = Handlers /\ req'[h] = r
        /\ \A g \in Handlers \ {h} : req'[g] = req[g]
    BY <1>0, <1>1, <1>6 DEF Goes
  <2>2. /\ DockerShape(docker') /\ docker'.next >= docker.next
        /\ docker.nets \subseteq docker'.nets
        /\ \A n \in docker'.nets : n \in docker.nets \/ (n.id = o.id /\ n.name = name)
        /\ \E n \in docker'.nets : n.id = o.id /\ n.name = name
        /\ \/ \E n \in docker.nets : n.id = o.id /\ n.name = name
           \/ o.id = docker.next /\ docker'.next = docker.next + 1
    <3>1. CASE o.d = docker /\ \E n \in docker.nets : n.id = o.id /\ n.name = name
      BY <1>0, <1>1, <3>1 DEF DockerShape, Networks
    <3>2. CASE o.id = docker.next /\ o.d = AddNetwork(docker, name, LabBase[name])
      <4> DEFINE new == [id |-> docker.next, name |-> name, base |-> LabBase[name]]
      <4>1. docker' = [docker EXCEPT !.nets = @ \cup {new}, !.next = @ + 1]
        BY <1>1, <3>2 DEF AddNetwork
      <4>2. new.id = o.id /\ new.name = name
        BY <3>2
      <4> HIDE DEF new
      <4>3. /\ docker'.nets = docker.nets \cup {new} /\ docker'.next = docker.next + 1
            /\ DockerShape(docker')
        BY <1>0, <4>1 DEF DockerShape
      <4>4. QED BY <1>0, <3>2, <4>2, <4>3 DEF DockerShape
    <3>3. QED BY <1>6, <3>1, <3>2
  <2>3. Networks(docker) \subseteq Networks(docker')
    BY <2>2 DEF Networks
  <2>4. req[h].kind = "idle"
    BY <1>1, EmptyHands
  <2>5. NetShape'
    BY <1>0, <1>1, <1>3, <1>4, <2>1, <2>2 DEF NetInv, NetShape
  <2>6. \A id, a : KnownAs(id, a)' => KnownAs(id, a) \/ (id = o.id /\ a = name)
    BY <1>1, <1>3, <1>4, <2>1, <2>2 DEF KnownAs
  <2>7. KnownAs(o.id, name) \/ (o.id = docker.next /\ docker'.next = docker.next + 1)
    BY <2>2 DEF KnownAs
  <2>8. docker.next \in Nat /\ docker'.next \in Nat
    BY <1>0, <2>2 DEF DockerShape
  <2>9. IdsKnown'
    BY <2>2, <2>6, <2>7, <2>8 DEF NetInv, IdsKnown
  <2>10. NamesOnce' /\ MadeThere'
    BY <1>1, <1>3, <1>4, <2>1, <2>2, <2>3 DEF NetInv, NamesOnce, MadeThere, Networks
  <2>11. DroppedGone'
    <3> SUFFICES ASSUME NEW g \in Handlers, Dropping(g)'
                 PROVE  req'[g].lab.net \notin Networks(docker')
      BY DEF DroppedGone
    <3>1. g # h /\ req'[g] = req[g] /\ Dropping(g)
      BY <1>4, <2>1 DEF Dropping
    <3>2. /\ req[g].lab.net \notin Networks(docker)
          /\ req[g].lab.net \in Nat /\ req[g].lab.net < docker.next
      <4>1. KnownAs(req[g].lab.net, req[g].lab.name)
        BY <3>1 DEF KnownAs, Dropping, NetKinds
      <4>2. QED BY <3>1, <4>1 DEF NetInv, DroppedGone, IdsKnown
    <3>3. req[g].lab.net # o.id
      BY <2>2, <2>8, <3>2 DEF Networks
    <3>4. QED BY <2>2, <3>1, <3>2, <3>3 DEF Networks
  <2>12. RowsExplained'
    <3>1. \A g \in Handlers : Dropping(g) => Dropping(g)' /\ req'[g] = req[g]
      BY <2>1, <2>4 DEF Dropping
    <3>2. QED BY <1>1, <2>3, <3>1 DEF NetInv, RowsExplained
  <2>13. NetsExplained'
    <3> SUFFICES ASSUME NEW n \in docker'.nets, n.name \in Labs
                 PROVE  \/ n.id \in lost
                        \/ \E x \in networks : x.net = n.id
                        \/ \E g \in Handlers : req'[g].kind = "newnet" /\ req'[g].lab.net = n.id
      BY <1>1 DEF NetsExplained
    <3>1. CASE n.id = o.id
      BY <1>3, <1>4, <2>1, <3>1
    <3>2. CASE n \in docker.nets
      BY <2>1, <2>4, <3>2 DEF NetInv, NetsExplained
    <3>3. QED BY <2>2, <3>1, <3>2
  <2>14. QED BY <2>5, <2>9, <2>10, <2>11, <2>12, <2>13 DEF NetInv
<1>7. QED BY <1>2, <1>5, <1>6

LEMMA CommitNetworkStep ==
  ASSUME NetInv, NEW h \in Handlers, CommitNetwork(h) PROVE NetInv'
<1> DEFINE lab == req[h].lab
<1>1. /\ req[h].kind = "newnet" /\ Ends(h) /\ docker' = docker
      /\ \/ networks' = networks /\ lost' = lost \cup {lab.net}
         \/ /\ \A n \in networks : n.name # lab.name
            /\ networks' = networks \cup {lab} /\ lost' = lost
  BY DEF CommitNetwork, Is
<1>2. CASE networks' = networks /\ lost' = lost \cup {lab.net}
  BY <1>1, <1>2, MadeEnds
<1>3. CASE /\ \A n \in networks : n.name # lab.name
           /\ networks' = networks \cup {lab} /\ lost' = lost
  <2>1. DOMAIN req = Handlers /\ \A g \in Handlers : DOMAIN req[g] = DOMAIN Idle
    BY DEF NetInv, NetShape
  <2>2. /\ DOMAIN req' = Handlers /\ req'[h].kind = "idle" /\ DOMAIN req'[h] = DOMAIN Idle
        /\ \A g \in Handlers \ {h} : req'[g] = req[g]
    BY <1>1, <2>1, EmptyHands DEF Ends
  <2>3. NetShape'
    BY <1>1, <1>3, <2>1, <2>2 DEF NetInv, NetShape, NetKinds
  <2>4. \A id, a : KnownAs(id, a)' => KnownAs(id, a)
    BY <1>1, <1>3, <2>2 DEF KnownAs, NetKinds
  <2>5. IdsKnown'
    BY <1>1, <2>4 DEF NetInv, IdsKnown
  <2>6. NamesOnce'
    BY <1>3 DEF NetInv, NamesOnce
  <2>7. MadeThere' /\ DroppedGone'
    BY <1>1, <1>3, <2>2 DEF NetInv, MadeThere, DroppedGone, Dropping
  <2>8. lab.net \in Networks(docker) \cup lost
    BY <1>1 DEF NetInv, MadeThere
  <2>9. \A g \in Handlers : Dropping(g) => Dropping(g)' /\ req'[g] = req[g]
    BY <1>1, <2>2 DEF Dropping
  <2>10. RowsExplained'
    BY <1>1, <1>3, <2>8, <2>9 DEF NetInv, RowsExplained
  <2>11. NetsExplained'
    BY <1>1, <1>3, <2>2 DEF NetInv, NetsExplained
  <2>12. QED BY <2>3, <2>5, <2>6, <2>7, <2>10, <2>11 DEF NetInv
<1>4. QED BY <1>1, <1>2, <1>3

LEMMA DeleteNetworkStep ==
  ASSUME NetInv, NEW h \in Handlers, NEW n \in networks, DeleteNetwork(h, n) PROVE NetInv'
<1> DEFINE r == [Idle EXCEPT !.kind = "dropnet", !.pc = "check", !.lab = n]
<1>1. Goes(h, r) /\ req[h] = Idle /\ UNCHANGED <<docker, networks, lost>>
  BY DEF DeleteNetwork, Arrives, rows
<1>2. DOMAIN r = DOMAIN Idle /\ r.kind = "dropnet" /\ r.pc = "check" /\ r.lab = n
  BY EmptyHands
<1>3. LabRow(n) /\ KnownAs(n.net, n.name)
  BY DEF NetInv, NetShape, KnownAs
<1>4. req[h].kind # "newnet" /\ ~Dropping(h)
  BY <1>1, EmptyHands DEF Dropping
<1> HIDE DEF r
<1>5. QED BY <1>1, <1>2, <1>3, <1>4, DropMoves

LEMMA DropSteps ==
  ASSUME NetInv, NEW h \in Handlers,
         \/ CheckNetwork(h) \/ RemoveNetwork(h) \/ LoadMembers(h) \/ CommitDropNetwork(h)
  PROVE  NetInv'
<1> DEFINE lab == req[h].lab
<1>0. /\ DockerShape(docker) /\ DOMAIN req = Handlers
      /\ \A g \in Handlers : DOMAIN req[g] = DOMAIN Idle
      /\ req[h].kind = "dropnet" /\ LabRow(lab) /\ KnownAs(lab.net, lab.name)
  <2>1. req[h].kind = "dropnet"
    BY DEF CheckNetwork, RemoveNetwork, LoadMembers, CommitDropNetwork, Is
  <2>2. QED BY <2>1 DEF NetInv, NetShape, KnownAs, NetKinds
<1>1. CASE CheckNetwork(h)
  <2> DEFINE r == [req[h] EXCEPT !.pc = "remove"]
  <2>1. /\ UNCHANGED <<docker, networks, lost>> /\ req[h].pc = "check"
        /\ Ends(h) \/ Goes(h, r)
    BY <1>1 DEF CheckNetwork, rows, Is
  <2>2. DOMAIN r = DOMAIN Idle /\ r.kind = "dropnet" /\ r.pc = "remove" /\ r.lab = lab
    BY <1>0
  <2> HIDE DEF r
  <2>3. ~Dropping(h)
    BY <2>1 DEF Dropping
  <2>4. QED BY <1>0, <2>1, <2>2, <2>3, DropMoves, DropEnds
<1>2. CASE LoadMembers(h)
  <2> DEFINE r == [req[h] EXCEPT !.pc = "commit", !.seen = Members(req[h].lab)]
  <2>1. UNCHANGED <<docker, networks, lost>> /\ req[h].pc = "load" /\ Goes(h, r)
    BY <1>2 DEF LoadMembers, rows, Is
  <2>2. DOMAIN r = DOMAIN Idle /\ r.kind = "dropnet" /\ r.pc = "commit" /\ r.lab = lab
    BY <1>0
  <2> HIDE DEF r
  <2>3. lab.net \notin Networks(docker)
    BY <1>0, <2>1 DEF NetInv, DroppedGone, Dropping
  <2>4. QED BY <1>0, <2>1, <2>2, <2>3, DropMoves
<1>3. CASE RemoveNetwork(h)
  <2> DEFINE o == remove_docker_network(docker, lab.net)
             r == [req[h] EXCEPT !.pc = "load"]
             less == [docker EXCEPT !.nets = {n \in @ : n.id # lab.net}]
  <2>1. /\ req[h].pc = "remove" /\ networks' = networks /\ docker' = o.d
        /\ IF o.err = "ok" THEN Goes(h, r) ELSE Ends(h)
        /\ lost' = lost \cup {req[g].lab.net : g \in {x \in Creating : req[x].lab.net = o.id}}
    BY <1>3 DEF RemoveNetwork, rows, Is
  <2>2. /\ o.id = lab.net
        /\ (o.err = "ok" /\ o.d = less) \/ (o.err # "ok" /\ o.d = docker)
    BY DEF remove_docker_network, Out
  <2>3. DOMAIN r = DOMAIN Idle /\ r.kind = "dropnet" /\ r.pc = "load" /\ r.lab = lab
    BY <1>0
  <2>4. /\ less.nets = {n \in docker.nets : n.id # lab.net} /\ less.next = docker.next
        /\ DockerShape(less)
    BY <1>0 DEF DockerShape
  <2>5. \A g \in Handlers : req[g].kind = "newnet" /\ req[g].lab.net = lab.net =>
          req[g].lab.net \in lost'
    BY <2>1, <2>2 DEF Creating
  <2> HIDE DEF o, r, less
  <2>6. CASE o.err # "ok"
    <3>1. ~Dropping(h)
      BY <2>1 DEF Dropping
    <3>2. QED BY <1>0, <2>1, <2>2, <2>6, <3>1, DropEnds
  <2>7. CASE o.err = "ok"
    <3>1. /\ DOMAIN req' = Handlers /\ req'[h] = r
          /\ \A g \in Handlers \ {h} : req'[g] = req[g]
      BY <1>0, <2>1, <2>7 DEF Goes
    <3>2. /\ docker'.nets = {n \in docker.nets : n.id # lab.net}
          /\ docker'.next = docker.next /\ DockerShape(docker')
          /\ Networks(docker') = Networks(docker) \ {lab.net}
      BY <2>1, <2>2, <2>4, <2>7 DEF Networks
    <3>3. NetShape'
      BY <1>0, <2>1, <2>3, <3>1, <3>2 DEF NetInv, NetShape
    <3>4. \A id, a : KnownAs(id, a)' => KnownAs(id, a)
      BY <1>0, <2>1, <2>3, <3>1, <3>2 DEF KnownAs
    <3>5. IdsKnown'
      BY <3>2, <3>4 DEF NetInv, IdsKnown
    <3>6. NamesOnce' /\ lost \subseteq lost'
      BY <2>1 DEF NetInv, NamesOnce
    <3>7. MadeThere'
      BY <2>3, <2>5, <3>1, <3>2, <3>6 DEF NetInv, MadeThere
    <3>8. DroppedGone'
      BY <2>3, <3>1, <3>2 DEF NetInv, DroppedGone, Dropping
    <3>9. Dropping(h)' /\ req'[h].lab.net = lab.net
      BY <2>3, <3>1 DEF Dropping
    <3>10. \A g \in Handlers \ {h} : Dropping(g) => Dropping(g)' /\ req'[g] = req[g]
      BY <3>1 DEF Dropping
    <3>11. ~Dropping(h)
      BY <2>1 DEF Dropping
    <3>12. RowsExplained'
      BY <2>1, <3>2, <3>6, <3>9, <3>10, <3>11 DEF NetInv, RowsExplained
    <3>13. NetsExplained'
      BY <1>0, <2>1, <3>1, <3>2, <3>6 DEF NetInv, NetsExplained
    <3>14. QED BY <3>3, <3>5, <3>6, <3>7, <3>8, <3>12, <3>13 DEF NetInv
  <2>8. QED BY <2>6, <2>7
<1>4. CASE CommitDropNetwork(h)
  <2>1. /\ req[h].pc = "commit" /\ Ends(h) /\ docker' = docker
        /\ \/ networks' = networks \ {lab} /\ lost' = lost
           \/ networks' = networks /\ lost' = lost \cup {lab.net}
    BY <1>4 DEF CommitDropNetwork, Is
  <2>2. CASE networks' = networks /\ lost' = lost \cup {lab.net}
    BY <1>0, <2>1, <2>2, DropEnds
  <2>3. CASE networks' = networks \ {lab} /\ lost' = lost
    <3>1. /\ DOMAIN req' = Handlers /\ req'[h].kind = "idle" /\ DOMAIN req'[h] = DOMAIN Idle
          /\ \A g \in Handlers \ {h} : req'[g] = req[g]
      BY <1>0, <2>1, EmptyHands DEF Ends
    <3>2. NetShape'
      BY <1>0, <2>1, <2>3, <3>1 DEF NetInv, NetShape, NetKinds
    <3>3. \A id, a : KnownAs(id, a)' => KnownAs(id, a)
      BY <2>1, <2>3, <3>1 DEF KnownAs, NetKinds
    <3>4. IdsKnown'
      BY <2>1, <3>3 DEF NetInv, IdsKnown
    <3>5. NamesOnce'
      BY <2>3 DEF NetInv, NamesOnce
    <3>6. MadeThere' /\ DroppedGone'
      BY <1>0, <2>1, <2>3, <3>1 DEF NetInv, MadeThere, DroppedGone, Dropping
    \* The row that went is the one of the network that went.
    <3>7. ASSUME NEW n \in networks', n.net = lab.net PROVE FALSE
      <4>1. n \in networks /\ n # lab
        BY <2>3
      <4>2. n.name = lab.name
        BY <1>0, <3>7, <4>1 DEF NetInv, IdsKnown, KnownAs
      <4>3. LabRow(n) /\ LabRow(lab)
        BY <1>0, <4>1 DEF NetInv, NetShape
      <4>4. n = lab
        BY <3>7, <4>2, <4>3 DEF LabRow
      <4>5. QED BY <4>1, <4>4
    <3>8. RowsExplained'
      <4> SUFFICES ASSUME NEW n \in networks'
                   PROVE  \/ n.net \in Networks(docker) \cup lost
                          \/ \E g \in Handlers : Dropping(g)' /\ req'[g].lab.net = n.net
        BY <2>1, <2>3 DEF RowsExplained
      <4>1. \/ n.net \in Networks(docker) \cup lost
            \/ \E g \in Handlers : Dropping(g) /\ req[g].lab.net = n.net
        BY <2>3 DEF NetInv, RowsExplained
      <4>2. ASSUME NEW g \in Handlers, Dropping(g), req[g].lab.net = n.net
            PROVE  Dropping(g)' /\ req'[g].lab.net = n.net
        <5>1. g # h
          BY <3>7, <4>2
        <5>2. QED BY <3>1, <4>2, <5>1 DEF Dropping
      <4>3. QED BY <4>1, <4>2
    <3>9. NetsExplained'
      <4>1. lab.net \notin Networks(docker)
        BY <1>0, <2>1 DEF NetInv, DroppedGone, Dropping
      <4>2. \A n \in docker.nets : n.id # lab.net
        BY <4>1 DEF Networks
      <4>3. \A x \in networks : x.net # lab.net => x \in networks'
        BY <2>3
      <4>4. QED BY <1>0, <2>1, <2>3, <3>1, <4>2, <4>3 DEF NetInv, NetsExplained
    <3>10. QED BY <3>2, <3>4, <3>5, <3>6, <3>8, <3>9 DEF NetInv
  <2>4. QED BY <2>1, <2>2, <2>3
<1>5. QED BY <1>1, <1>2, <1>3, <1>4

LEMMA NetInitially == Init => NetInv
<1> SUFFICES ASSUME Init PROVE NetInv
  OBVIOUS
<1>1. /\ req = [h \in Handlers |-> Idle] /\ lost = {} /\ FirstLab \in Labs
      /\ InitNet.name = FirstLab /\ InitNet.net = 1 /\ LabRow(InitNet)
  BY DevicesAssumption DEF Init, FirstLab, InitNet, LabRow
<1>2. \/ docker = NoDocker /\ networks = {}
      \/ /\ networks = {InitNet} /\ DockerShape(docker) /\ docker.next > 1
         /\ docker.nets = {[id |-> 1, name |-> FirstLab, base |-> LabBase[FirstLab]]}
  BY DevicesAssumption DEF Init, DockerShape
<1>3. DockerShape(NoDocker) /\ NoDocker.nets = {} /\ NoDocker.next = 1
  BY DEF NoDocker, DockerShape
<1>4. NetShape
  BY <1>1, <1>2, <1>3, EmptyHands DEF NetShape, NetKinds
<1>5. \A id, a : KnownAs(id, a) => id = 1 /\ a = FirstLab /\ networks = {InitNet}
  BY <1>1, <1>2, <1>3, EmptyHands DEF KnownAs, NetKinds
<1>6. IdsKnown
  <2>1. networks = {InitNet} => docker.next \in Nat /\ docker.next > 1
    BY <1>2 DEF DockerShape
  <2>2. QED BY <1>5, <2>1 DEF IdsKnown
<1>7. NamesOnce /\ DroppedGone /\ MadeThere
  BY <1>1, <1>2, EmptyHands DEF NamesOnce, DroppedGone, MadeThere, Dropping
<1>8. RowsExplained /\ NetsExplained
  <2>1. CASE docker = NoDocker /\ networks = {}
    BY <1>3, <2>1 DEF RowsExplained, NetsExplained
  <2>2. CASE /\ networks = {InitNet}
             /\ docker.nets = {[id |-> 1, name |-> FirstLab, base |-> LabBase[FirstLab]]}
    <3> DEFINE n == [id |-> 1, name |-> FirstLab, base |-> LabBase[FirstLab]]
    <3>1. n.id = 1
      OBVIOUS
    <3>2. docker.nets = {n}
      BY <2>2
    <3> HIDE DEF n
    <3>3. 1 \in Networks(docker)
      BY <3>1, <3>2 DEF Networks
    <3>4. RowsExplained
      BY <1>1, <2>2, <3>3 DEF RowsExplained
    <3>5. NetsExplained
      BY <1>1, <2>2, <3>1, <3>2 DEF NetsExplained
    <3>6. QED BY <3>4, <3>5
  <2>3. QED BY <1>2, <2>1, <2>2
<1>9. QED BY <1>4, <1>6, <1>7, <1>8 DEF NetInv

LEMMA DevicesKeepNets ==
  ASSUME NetInv, NEW h \in Handlers, DeviceRequest(h) \/ DeviceStep(h) PROVE NetInv'
<1>1. CASE DeviceRequest(h)
  BY <1>1, CreateNetworkStep, DeleteNetworkStep, OthersKeepNets DEF DeviceRequest
<1>2. CASE DeviceStep(h)
  BY <1>2, CommitNetworkStep, DropSteps, OthersKeepNets, AbortKeepsNets DEF DeviceStep
<1>3. QED BY <1>1, <1>2

LEMMA NetInvAlways == DeviceSpec => []NetInv
<1>1. NetInv /\ [DeviceNext]_labVars => NetInv'
  <2> SUFFICES ASSUME NetInv, [DeviceNext]_labVars PROVE NetInv'
    OBVIOUS
  <2>1. CASE DeviceNext
    BY <2>1, DevicesKeepNets DEF DeviceNext
  <2>2. CASE UNCHANGED labVars
    BY <2>2, KeepsItself, NetsUntouched DEF labVars, rows, NetInv, NetShape
  <2>3. QED BY <2>1, <2>2
<1>2. QED BY <1>1, NetInitially, PTL DEF DeviceSpec

LEMMA NetworksFollow == NetInv => NetworksExplained
<1> SUFFICES ASSUME NetInv PROVE NetworksExplained
  OBVIOUS
<1>1. RowsExplained /\ NetsExplained
  BY DEF NetInv
<1>2. QED BY <1>1 DEF NetworksExplained, RowsExplained, NetsExplained, Dropping, Creating

\* Whatever requests do to networks and devices at once: the network rows are
\* the daemon's lab networks, apart from those of a request at work or of one
\* that failed half way.
THEOREM NetworksAlwaysExplained == DeviceSpec => []NetworksExplained
BY NetworksFollow, NetInvAlways, PTL

-----------------------------------------------------------------------------
(* Ids.  An id stands for one container and a container for one device, and *)
(* nobody's row names the container of another device.                      *)

RowKnown(x, d, last) ==
  /\ x.id <= last /\ x.ctr < d.next
  /\ \A c \in d.ctrs : c.id = x.ctr => c.dev = x.id

HasRow(h) == req[h].kind \in Operations

CtrsKnown == \A c \in docker.ctrs : c.dev <= lastId

RowsKnown ==
  /\ \A r \in devices : RowKnown(r, docker, lastId)
  /\ \A r, s \in devices : r.id = s.id => r = s
  /\ \A h \in Handlers : HasRow(h) => RowKnown(req[h].row, docker, lastId)
  /\ \A h \in Handlers : \A m \in req[h].made : RowKnown(m, docker, lastId)

\* The rows of a create request are nobody else's.
CreatesOwn ==
  \A h \in Handlers : req[h].kind = "create" =>
    /\ req[h].pc = "run" => req[h].row \in req[h].made /\ req[h].row.ctr = 0
    /\ \A m \in req[h].made :
         /\ \A r \in devices : r.id # m.id
         /\ \A n \in req[h].made : n.id = m.id => n = m
         /\ \A g \in Handlers : HasRow(g) => req[g].row.id # m.id
         /\ \A g \in Handlers \ {h} : \A n \in req[g].made : n.id # m.id

\* A start's new container is in nobody else's row, until it commits.
StartsOwn ==
  \A h \in Handlers :
    /\ HasRow(h) /\ ~(req[h].kind \in Runs /\ req[h].pc = "commit") => req[h].made = {}
    /\ req[h].kind \in Runs =>
         \A m \in req[h].made :
           /\ m.id = req[h].row.id /\ m.net = req[h].row.net /\ m.comm = req[h].row.comm
           /\ m.ctr > 0 /\ \A r \in devices : r.ctr # m.ctr
           /\ \A g \in Handlers : HasRow(g) => req[g].row.ctr # m.ctr
           /\ \A g \in Handlers \ {h} : \A n \in req[g].made : n.ctr # m.ctr

\* Two requests that meet at a device are on record.
RacesSeen ==
  \A g, h \in Handlers :
    g # h /\ req[h].kind \in Runs /\ req[g].kind \in Runs \cup {"delete"}
          /\ req[g].row.id = req[h].row.id
      => req[h].row.id \in raced

IdInv == CtrsKnown /\ RowsKnown /\ CreatesOwn /\ StartsOwn /\ RacesSeen

\* At most one container comes, the next one.
CtrsCome ==
  /\ docker'.next >= docker.next /\ lastId' >= lastId
  /\ \A c \in docker'.ctrs : c \in docker.ctrs \/ (c.id = docker.next /\ c.dev <= lastId)

LEMMA HandledComes ==
  ASSUME DevType, NEW dev \in Nat, NEW comm, NEW net, NEW gone, dev <= lastId,
         Handled(docker, docker', dev, comm, net, gone), lastId' = lastId
  PROVE  CtrsCome
  BY DEF DevType, DockerOK, DockerType, Handled, CtrsCome

LEMMA KnownOn ==
  ASSUME DevType, DevType', CtrsCome, NEW x \in DeviceRow, RowKnown(x, docker, lastId)
  PROVE  RowKnown(x, docker', lastId')
<1>1. x.id \in Nat /\ x.ctr \in Nat /\ docker.next \in Nat /\ docker'.next \in Nat
      /\ lastId \in Nat /\ lastId' \in Nat
  BY DEF DevType, DockerOK, DockerType, DeviceRow
<1>2. QED BY <1>1 DEF CtrsCome, RowKnown

LEMMA CtrsKnownOn == ASSUME DevType, DevType', CtrsCome, CtrsKnown PROVE CtrsKnown'
<1>1. lastId \in Nat /\ lastId' \in Nat /\ \A c \in docker'.ctrs : c.dev \in Nat
  BY DEF DevType, DockerOK, DockerType, Container
<1>2. QED BY <1>1 DEF CtrsCome, CtrsKnown

\* A hand lets go, or holds what it held.
Holds(g) ==
  \/ /\ req'[g].kind = req[g].kind /\ req'[g].row = req[g].row /\ req'[g].made = req[g].made
     /\ req[g].kind \in Runs \cup {"create"} => req'[g].pc = req[g].pc
  \/ /\ req'[g].kind \notin Operations /\ req'[g].made = {}
     /\ req'[g].kind = "create" => req'[g].pc = "insert"

LEMMA IdsHeld ==
  ASSUME DevType, DevType', IdInv, CtrsCome, raced \subseteq raced',
         \A g \in Handlers : Holds(g),
         \A r \in devices' : \E s \in devices : r.id = s.id /\ r.ctr = s.ctr,
         \A r, s \in devices' : r.id = s.id => r = s
  PROVE  IdInv'
<1>0. /\ \A g \in Handlers : req[g].made \subseteq DeviceRow
      /\ \A g \in Handlers : HasRow(g) => req[g].row \in DeviceRow
      /\ devices \subseteq DeviceRow /\ devices' \subseteq DeviceRow
  BY DEF DevType, HandsOK, HandOK, HasRow
<1>1. \A g \in Handlers : HasRow(g)' => HasRow(g) /\ req'[g].row = req[g].row
  BY DEF Holds, HasRow
<1>2. \A g \in Handlers : req'[g].made \subseteq req[g].made
  BY DEF Holds
<1>3. \A x \in DeviceRow : RowKnown(x, docker, lastId) => RowKnown(x, docker', lastId')
  BY KnownOn
<1>4. CtrsKnown'
  BY CtrsKnownOn DEF IdInv
<1>5. RowsKnown'
  <2>1. \A r \in devices' : RowKnown(r, docker', lastId')
    <3>1. TAKE r \in devices'
    <3>2. PICK s \in devices : r.id = s.id /\ r.ctr = s.ctr
      OBVIOUS
    <3>3. RowKnown(s, docker', lastId')
      BY <1>0, <1>3 DEF IdInv, RowsKnown
    <3>4. QED BY <3>2, <3>3 DEF RowKnown
  <2>2. \A g \in Handlers : HasRow(g)' => RowKnown(req'[g].row, docker', lastId')
    BY <1>0, <1>1, <1>3 DEF IdInv, RowsKnown
  <2>3. \A g \in Handlers : \A m \in req'[g].made : RowKnown(m, docker', lastId')
    BY <1>0, <1>2, <1>3 DEF IdInv, RowsKnown
  <2>4. QED BY <2>1, <2>2, <2>3 DEF RowsKnown
<1>6. CreatesOwn'
  <2>1. SUFFICES ASSUME NEW g \in Handlers, req'[g].kind = "create"
                 PROVE  /\ req'[g].pc = "run" => req'[g].row \in req'[g].made /\ req'[g].row.ctr = 0
                        /\ \A m \in req'[g].made :
                             /\ \A r \in devices' : r.id # m.id
                             /\ \A n \in req'[g].made : n.id = m.id => n = m
                             /\ \A k \in Handlers : HasRow(k)' => req'[k].row.id # m.id
                             /\ \A k \in Handlers \ {g} : \A n \in req'[k].made : n.id # m.id
    BY DEF CreatesOwn
  <2>2. CASE req'[g].made = {} /\ req'[g].pc # "run"
    BY <2>2
  <2>3. CASE /\ req[g].kind = "create" /\ req'[g].row = req[g].row
             /\ req'[g].made = req[g].made /\ req'[g].pc = req[g].pc
    BY <1>1, <1>2, <2>3 DEF IdInv, CreatesOwn
  <2>4. QED BY <2>1, <2>2, <2>3 DEF Holds
<1>7. StartsOwn'
  <2>1. \A g \in Handlers :
          HasRow(g)' /\ ~(req'[g].kind \in Runs /\ req'[g].pc = "commit") => req'[g].made = {}
    BY DEF IdInv, StartsOwn, Holds, HasRow
  <2>2. ASSUME NEW g \in Handlers, req'[g].kind \in Runs, NEW m \in req'[g].made
        PROVE  /\ m.id = req'[g].row.id /\ m.net = req'[g].row.net /\ m.comm = req'[g].row.comm
               /\ m.ctr > 0 /\ \A r \in devices' : r.ctr # m.ctr
               /\ \A k \in Handlers : HasRow(k)' => req'[k].row.ctr # m.ctr
               /\ \A k \in Handlers \ {g} : \A n \in req'[k].made : n.ctr # m.ctr
    <3>1. req[g].kind \in Runs /\ m \in req[g].made /\ req'[g].row = req[g].row
      BY <1>2, <2>2 DEF Holds, Operations
    <3>2. QED BY <1>1, <1>2, <3>1 DEF IdInv, StartsOwn
  <2>3. QED BY <2>1, <2>2 DEF StartsOwn
<1>8. RacesSeen'
  <2>1. \A g \in Handlers : req'[g].kind \in Runs \cup {"delete"} =>
          req[g].kind = req'[g].kind /\ req'[g].row = req[g].row
    BY DEF Holds, Operations, Runs
  <2>2. QED BY <2>1 DEF IdInv, RacesSeen
<1>9. QED BY <1>4, <1>5, <1>6, <1>7, <1>8 DEF IdInv

\* The steps that make nothing.
LEMMA IdsSteps ==
  ASSUME DevType, DevType', IdInv, NEW h \in Handlers,
         \/ Quiet(h) \/ Detaches(h) \/ Fails(h) \/ Stops(h) \/ Patches(h) \/ Deletes(h)
  PROVE  IdInv'
<1>0. docker.next \in Nat /\ docker'.next \in Nat /\ lastId \in Nat
  BY DEF DevType, DockerOK, DockerType
<1>1. \A r, s \in devices : r.id = s.id => r = s
  BY DEF IdInv, RowsKnown
<1>2. docker'.ctrs = docker.ctrs /\ docker'.next >= docker.next /\ lastId' = lastId => CtrsCome
  BY <1>0 DEF CtrsCome
<1>3. ASSUME NEW r, Turns(h, r), r.kind \notin Operations, r.made = {},
             r.kind = "create" => r.pc = "insert"
      PROVE  \A g \in Handlers : Holds(g)
  BY <1>3 DEF Turns, Holds
<1>4. Idle.kind \notin Operations /\ Idle.kind # "create" /\ Idle.made = {}
  BY IdleOK DEF Operations, Runs
<1>5. CASE Quiet(h)
  <2>1. \A g \in Handlers : Holds(g)
    BY <1>3, <1>5 DEF Quiet
  <2>2. CtrsCome /\ raced' = raced /\ devices' = devices
    BY <1>2, <1>5 DEF Quiet
  <2>3. QED BY <1>1, <2>1, <2>2, IdsHeld
<1>6. CASE Detaches(h)
  <2>1. \A g \in Handlers : Holds(g)
    BY <1>3, <1>4, <1>6 DEF Detaches
  <2>2. CtrsCome /\ raced' = raced
    BY <1>0, <1>2, <1>6 DEF Detaches
  <2> DEFINE f(r) == IF r.net = req[h].lab.net THEN [r EXCEPT !.net = None] ELSE r
  <2>3. devices' = {f(r) : r \in devices}
    BY <1>6 DEF Detaches
  <2>4. \A r \in devices : f(r).id = r.id /\ f(r).ctr = r.ctr
    BY DEF DevType, DeviceRow
  <2> HIDE DEF f
  <2>5. /\ \A r \in devices' : \E s \in devices : r.id = s.id /\ r.ctr = s.ctr
        /\ \A r, s \in devices' : r.id = s.id => r = s
    BY <1>1, <2>3, <2>4
  <2>6. QED BY <2>1, <2>2, <2>5, IdsHeld
<1>7. CASE Fails(h)
  <2>1. \A g \in Handlers : Holds(g)
    BY <1>3, <1>4, <1>7 DEF Fails
  <2>2. raced' = raced /\ devices' = devices /\ lastId' = lastId
    BY <1>7 DEF Fails
  <2>3. CtrsCome
    <3>1. CASE docker' = docker
      BY <1>0, <1>2, <2>2, <3>1
    <3>2. CASE /\ req[h].kind = "create" /\ req[h].pc = "run"
               /\ Handled(docker, docker', req[h].row.id, req[h].row.comm, req[h].lab.net, 0)
      <4>1. req[h].row.id \in Nat /\ req[h].row.id <= lastId
        BY <3>2, CreateHand, RowFields DEF IdInv, CreatesOwn, RowsKnown, RowKnown
      <4>2. QED BY <2>2, <3>2, <4>1, HandledComes
    <3>3. CASE /\ req[h].kind \in Runs
               /\ Handled(docker, docker', req[h].row.id, req[h].row.comm, req[h].row.net,
                          req[h].row.ctr)
      <4>1. req[h].row.id \in Nat /\ req[h].row.id <= lastId
        BY <3>3, OperateHand, RowFields DEF IdInv, RowsKnown, RowKnown, HasRow, Operations
      <4>2. QED BY <2>2, <3>3, <4>1, HandledComes
    <3>4. QED BY <1>7, <3>1, <3>2, <3>3 DEF Fails
  <2>4. QED BY <1>1, <2>1, <2>2, <2>3, IdsHeld
<1>8. CASE Stops(h)
  <2>1. \A g \in Handlers : Holds(g)
    BY <1>8 DEF Stops, Turns, Holds, Runs
  <2>2. raced' = raced /\ devices' = devices /\ lastId' = lastId
    BY <1>8 DEF Stops
  <2>3. req[h].row.id \in Nat /\ req[h].row.id <= lastId
    BY <1>8, OperateHand, RowFields DEF Stops, IdInv, RowsKnown, RowKnown, HasRow, Operations
  <2>4. Handled(docker, docker', req[h].row.id, req[h].row.comm, req[h].row.net, req[h].row.ctr)
    BY <1>8 DEF Stops
  <2>5. CtrsCome
    BY <2>2, <2>3, <2>4, HandledComes
  <2>6. QED BY <1>1, <2>1, <2>2, <2>5, IdsHeld
<1>9. CASE Patches(h)
  <2>1. \A g \in Handlers : DOMAIN req[g] = DOMAIN Idle
    BY DEF DevType, HandsOK, HandOK
  <2>2. \A g \in Handlers \ {h} :
          /\ req'[g].kind = req[g].kind /\ req'[g].row = req[g].row /\ req'[g].made = req[g].made
          /\ req'[g].pc = req[g].pc
    BY <1>9, <2>1 DEF Patches, Idle
  <2>3. \A g \in Handlers : Holds(g)
    BY <1>4, <1>9, <2>2 DEF Holds, Patches
  <2>4. CtrsCome /\ raced' = raced
    BY <1>0, <1>2, <1>9 DEF Patches
  <2> DEFINE f(r) == IF PatchesRow(h, r) THEN [r EXCEPT !.comm = req[h].comm] ELSE r
  <2>5. devices' = {f(r) : r \in devices}
    BY <1>9 DEF Patches
  <2>6. \A r \in devices : f(r).id = r.id /\ f(r).ctr = r.ctr
    BY DEF DevType, DeviceRow
  <2> HIDE DEF f
  <2>7. /\ \A r \in devices' : \E s \in devices : r.id = s.id /\ r.ctr = s.ctr
        /\ \A r, s \in devices' : r.id = s.id => r = s
    BY <1>1, <2>5, <2>6
  <2>8. QED BY <2>3, <2>4, <2>7, IdsHeld
<1>10. CASE Deletes(h)
  <2>1. \A g \in Handlers : Holds(g)
    BY <1>3, <1>4, <1>10 DEF Deletes
  <2>2. CtrsCome /\ raced' = raced /\ devices' \subseteq devices
    BY <1>0, <1>2, <1>10 DEF Deletes
  <2>3. QED BY <1>1, <2>1, <2>2, IdsHeld
<1>11. QED BY <1>5, <1>6, <1>7, <1>8, <1>9, <1>10

LEMMA IdsInsert == ASSUME DevType, DevType', IdInv, NEW h \in Handlers, Inserts(h) PROVE IdInv'
<1>1. PICK r, new : /\ Turns(h, r) /\ r.kind = "create" /\ r.pc = "run" /\ r.row = new
                    /\ r.made = req[h].made \cup {new}
                    /\ new.id = lastId + 1 /\ new.ctr = 0
  BY DEF Inserts
<1>2. /\ req[h].kind = "create" /\ lastId' = lastId + 1 /\ docker' = docker
      /\ devices' = devices /\ raced' = raced
  BY DEF Inserts
<1>3. /\ docker.next \in Nat /\ docker.next > 0 /\ lastId \in Nat /\ 0 \notin Containers(docker)
  BY DEF DevType, DockerOK, DockerType, Containers
<1>4. CtrsCome
  BY <1>2, <1>3 DEF CtrsCome
<1>5. RowKnown(new, docker', lastId')
  BY <1>1, <1>2, <1>3 DEF RowKnown, Containers
<1>6. /\ \A g \in Handlers : req[g].made \subseteq DeviceRow
      /\ \A g \in Handlers : HasRow(g) => req[g].row \in DeviceRow
      /\ devices \subseteq DeviceRow
  BY DEF DevType, HandsOK, HandOK, HasRow
<1>7. \A x \in DeviceRow : RowKnown(x, docker, lastId) => RowKnown(x, docker', lastId')
  BY <1>4, KnownOn
<1>8. \A x \in DeviceRow : RowKnown(x, docker, lastId) => x.id # new.id
  BY <1>1, <1>3 DEF RowKnown, DeviceRow
<1>9. /\ req'[h] = r /\ ~HasRow(h) /\ ~HasRow(h)'
      /\ \A g \in Handlers \ {h} : req'[g] = req[g]
      /\ \A g \in Handlers \ {h} : HasRow(g)' <=> HasRow(g)
  BY <1>1, <1>2 DEF Turns, HasRow, Operations, Runs
<1> HIDE DEF HasRow
<1>10. /\ \A d \in devices : d.id # new.id
       /\ \A g \in Handlers : HasRow(g) => req[g].row.id # new.id
       /\ \A g \in Handlers : \A n \in req[g].made : n.id # new.id
  BY <1>6, <1>8 DEF IdInv, RowsKnown
<1>11. CtrsKnown'
  BY <1>4, CtrsKnownOn DEF IdInv
<1>12. RowsKnown'
  <2>1. \A g \in Handlers : HasRow(g)' => RowKnown(req'[g].row, docker', lastId')
    BY <1>6, <1>7, <1>9 DEF IdInv, RowsKnown
  <2>2. \A g \in Handlers : \A m \in req'[g].made : RowKnown(m, docker', lastId')
    BY <1>1, <1>5, <1>6, <1>7, <1>9 DEF IdInv, RowsKnown
  <2>3. QED BY <1>2, <1>6, <1>7, <2>1, <2>2 DEF IdInv, RowsKnown
<1>13. CreatesOwn'
  <2>1. ASSUME NEW g \in Handlers, req'[g].kind = "create", NEW m \in req'[g].made
        PROVE  /\ \A d \in devices' : d.id # m.id
               /\ \A n \in req'[g].made : n.id = m.id => n = m
               /\ \A k \in Handlers : HasRow(k)' => req'[k].row.id # m.id
               /\ \A k \in Handlers \ {g} : \A n \in req'[k].made : n.id # m.id
    BY <1>1, <1>2, <1>9, <1>10, <2>1 DEF IdInv, CreatesOwn
  <2>2. ASSUME NEW g \in Handlers, req'[g].kind = "create", req'[g].pc = "run"
        PROVE  req'[g].row \in req'[g].made /\ req'[g].row.ctr = 0
    BY <1>1, <1>9, <2>2 DEF IdInv, CreatesOwn
  <2>3. QED BY <2>1, <2>2 DEF CreatesOwn
<1>14. StartsOwn'
  <2>1. \A g \in Handlers :
          HasRow(g)' /\ ~(req'[g].kind \in Runs /\ req'[g].pc = "commit") => req'[g].made = {}
    BY <1>9 DEF IdInv, StartsOwn
  <2>2. ASSUME NEW g \in Handlers, req'[g].kind \in Runs, NEW m \in req'[g].made
        PROVE  /\ m.id = req'[g].row.id /\ m.net = req'[g].row.net /\ m.comm = req'[g].row.comm
               /\ m.ctr > 0 /\ \A d \in devices' : d.ctr # m.ctr
               /\ \A k \in Handlers : HasRow(k)' => req'[k].row.ctr # m.ctr
               /\ \A k \in Handlers \ {g} : \A n \in req'[k].made : n.ctr # m.ctr
    <3>1. g # h /\ req[g].kind \in Runs /\ m \in req[g].made /\ req'[g] = req[g]
      BY <1>1, <1>9, <2>2 DEF Runs
    <3>2. m.ctr > 0 /\ m \in DeviceRow
      BY <1>6, <3>1 DEF IdInv, StartsOwn
    <3>3. \A n \in req'[h].made : n \in req[h].made \/ n.ctr = 0
      BY <1>1, <1>9
    <3>4. m.ctr # 0
      BY <3>2 DEF DeviceRow
    <3>5. QED BY <1>2, <1>9, <3>1, <3>3, <3>4 DEF IdInv, StartsOwn
  <2>3. QED BY <2>1, <2>2 DEF StartsOwn
<1>15. RacesSeen'
  <2>1. r.kind \notin Runs \cup {"delete"}
    BY <1>1 DEF Runs
  <2>2. QED BY <1>2, <1>9, <2>1 DEF IdInv, RacesSeen
<1>16. QED BY <1>11, <1>12, <1>13, <1>14, <1>15 DEF IdInv

\* What the hands hold.
LEMMA HandRows ==
  ASSUME DevType
  PROVE  /\ \A g \in Handlers : req[g].made \subseteq DeviceRow
         /\ \A g \in Handlers : HasRow(g) => req[g].row \in DeviceRow
         /\ devices \subseteq DeviceRow
         /\ docker.next \in Nat /\ docker.next > 0 /\ lastId \in Nat
  BY DEF DevType, HandsOK, HandOK, HasRow, DockerOK, DockerType

\* The container that comes is known by a row of its device, and by no other.
LEMMA NewKnown ==
  ASSUME DevType, DevType', NEW row \in DeviceRow, RowKnown(row, docker, lastId), NEW net, NEW gone,
         Handled(docker, docker', row.id, row.comm, net, gone),
         Launches(docker, docker', row.id, row.comm), lastId' = lastId
  PROVE  LET new == Launched(row, docker.next) IN
         /\ RowKnown(new, docker', lastId') /\ CtrsCome
         /\ new \in DeviceRow /\ new.id = row.id /\ new.net = row.net /\ new.comm = row.comm
         /\ new.ctr = docker.next /\ new.status = "running"
         /\ \A x \in DeviceRow : RowKnown(x, docker, lastId) =>
              RowKnown(x, docker', lastId') /\ x.ctr # docker.next
<1> DEFINE new == Launched(row, docker.next)
<1>0. docker.next \in Nat /\ lastId \in Nat /\ row.id \in Nat
  BY HandRows, RowFields
<1>1. /\ new \in DeviceRow /\ new.id = row.id /\ new.net = row.net /\ new.comm = row.comm
      /\ new.ctr = docker.next /\ new.status = "running"
  BY <1>0, LaunchedRow
<1> HIDE DEF new
<1>2. row.id <= lastId
  BY DEF RowKnown
<1>3. CtrsCome
  BY <1>0, <1>2, HandledComes
<1>4. \A c \in docker'.ctrs : c.id = docker.next => c.dev = row.id
  <2>1. \A c \in docker.ctrs : c.id \in Nat /\ c.id < docker.next
    BY DEF DevType, DockerOK, DockerType, Container
  <2>2. QED BY <1>0, <2>1 DEF Handled
<1>5. docker'.next = docker.next + 1
  BY DEF Launches
<1>6. RowKnown(new, docker', lastId')
  BY <1>0, <1>1, <1>2, <1>4, <1>5 DEF RowKnown
<1>7. ASSUME NEW x \in DeviceRow, RowKnown(x, docker, lastId)
      PROVE  RowKnown(x, docker', lastId') /\ x.ctr # docker.next
  BY <1>0, <1>3, <1>7, KnownOn DEF RowKnown, DeviceRow
<1>8. QED BY <1>1, <1>3, <1>6, <1>7 DEF new

LEMMA IdsRun == ASSUME DevType, DevType', IdInv, NEW h \in Handlers, RunsUp(h) PROVE IdInv'
<1> DEFINE row == req[h].row
           new == Launched(row, docker.next)
<1>1. PICK r : /\ Turns(h, r) /\ r.kind = "create" /\ r.pc \in {"insert", "commit"}
               /\ r.made = (req[h].made \ {row}) \cup {new}
  BY DEF RunsUp
<1>2. /\ req[h].kind = "create" /\ req[h].pc = "run" /\ lastId' = lastId
      /\ devices' = devices /\ raced' = raced
      /\ Handled(docker, docker', row.id, row.comm, req[h].lab.net, 0)
      /\ Launches(docker, docker', row.id, row.comm)
  BY DEF RunsUp
<1>3. row \in req[h].made /\ RowKnown(row, docker, lastId) /\ row \in DeviceRow
  BY <1>2, HandRows DEF IdInv, CreatesOwn, RowsKnown
<1>4. /\ RowKnown(new, docker', lastId') /\ CtrsCome
      /\ new.id = row.id /\ new.ctr = docker.next
      /\ \A x \in DeviceRow : RowKnown(x, docker, lastId) =>
           RowKnown(x, docker', lastId') /\ x.ctr # docker.next
  BY <1>2, <1>3, NewKnown
<1> HIDE DEF new
<1>5. /\ req'[h] = r /\ ~HasRow(h) /\ ~HasRow(h)'
      /\ \A g \in Handlers \ {h} : req'[g] = req[g]
      /\ \A g \in Handlers \ {h} : HasRow(g)' <=> HasRow(g)
  BY <1>1, <1>2 DEF Turns, HasRow, Operations, Runs
<1> HIDE DEF HasRow, row
<1>6. CtrsKnown'
  BY <1>4, CtrsKnownOn DEF IdInv
<1>7. RowsKnown'
  <2>1. \A g \in Handlers : HasRow(g)' => RowKnown(req'[g].row, docker', lastId')
    BY <1>4, <1>5, HandRows DEF IdInv, RowsKnown
  <2>2. \A g \in Handlers : \A m \in req'[g].made : RowKnown(m, docker', lastId')
    BY <1>1, <1>4, <1>5, HandRows DEF IdInv, RowsKnown
  <2>3. QED BY <1>2, <1>4, <2>1, <2>2, HandRows DEF IdInv, RowsKnown
<1>8. CreatesOwn'
  <2>1. ASSUME NEW g \in Handlers, req'[g].kind = "create", NEW m \in req'[g].made
        PROVE  /\ \A d \in devices' : d.id # m.id
               /\ \A n \in req'[g].made : n.id = m.id => n = m
               /\ \A k \in Handlers : HasRow(k)' => req'[k].row.id # m.id
               /\ \A k \in Handlers \ {g} : \A n \in req'[k].made : n.id # m.id
    <3>1. \A k \in Handlers : \A n \in req'[k].made : \E o \in req[k].made :
            n.id = o.id /\ (n = o \/ (n = new /\ o = row /\ k = h))
      BY <1>1, <1>3, <1>4, <1>5
    <3>2. \A n \in req'[h].made : n = new \/ n # row
      BY <1>1, <1>5
    <3>3. req[g].kind = "create"
      BY <1>2, <1>5, <2>1
    <3>4. QED BY <1>2, <1>5, <2>1, <3>1, <3>2, <3>3 DEF IdInv, CreatesOwn
  <2>2. ASSUME NEW g \in Handlers, req'[g].kind = "create", req'[g].pc = "run"
        PROVE  req'[g].row \in req'[g].made /\ req'[g].row.ctr = 0
    BY <1>1, <1>5, <2>2 DEF IdInv, CreatesOwn
  <2>3. QED BY <2>1, <2>2 DEF CreatesOwn
<1>9. StartsOwn'
  <2>1. \A g \in Handlers :
          HasRow(g)' /\ ~(req'[g].kind \in Runs /\ req'[g].pc = "commit") => req'[g].made = {}
    BY <1>5 DEF IdInv, StartsOwn
  <2>2. ASSUME NEW g \in Handlers, req'[g].kind \in Runs, NEW m \in req'[g].made
        PROVE  /\ m.id = req'[g].row.id /\ m.net = req'[g].row.net /\ m.comm = req'[g].row.comm
               /\ m.ctr > 0 /\ \A d \in devices' : d.ctr # m.ctr
               /\ \A k \in Handlers : HasRow(k)' => req'[k].row.ctr # m.ctr
               /\ \A k \in Handlers \ {g} : \A n \in req'[k].made : n.ctr # m.ctr
    <3>1. g # h /\ req[g].kind \in Runs /\ m \in req[g].made /\ req'[g] = req[g]
      BY <1>1, <1>5, <2>2 DEF Runs
    <3>2. m.ctr # docker.next
      BY <1>4, <3>1, HandRows DEF IdInv, RowsKnown
    <3>3. \A n \in req'[h].made : n \in req[h].made \/ n.ctr = docker.next
      BY <1>1, <1>4, <1>5
    <3>4. QED BY <1>2, <1>5, <3>1, <3>2, <3>3 DEF IdInv, StartsOwn
  <2>3. QED BY <2>1, <2>2 DEF StartsOwn
<1>10. RacesSeen'
  <2>1. r.kind \notin Runs \cup {"delete"}
    BY <1>1 DEF Runs
  <2>2. QED BY <1>2, <1>5, <2>1 DEF IdInv, RacesSeen
<1>11. QED BY <1>6, <1>7, <1>8, <1>9, <1>10 DEF IdInv

LEMMA IdsStart == ASSUME DevType, DevType', IdInv, NEW h \in Handlers, Starts(h) PROVE IdInv'
<1> DEFINE row == req[h].row
           new == Launched(row, docker.next)
<1>1. PICK r : /\ Turns(h, r) /\ r.kind = req[h].kind /\ r.pc = "commit" /\ r.row = row
               /\ r.made = {new}
  BY DEF Starts
<1>2. /\ req[h].kind \in Runs /\ req[h].pc = "docker" /\ lastId' = lastId
      /\ devices' = devices /\ raced' = raced
      /\ Handled(docker, docker', row.id, row.comm, row.net, row.ctr)
      /\ Launches(docker, docker', row.id, row.comm)
  BY DEF Starts
<1>3. /\ HasRow(h) /\ RowKnown(row, docker, lastId) /\ row \in DeviceRow
      /\ req[h].kind # "create"
  BY <1>2, HandRows DEF IdInv, RowsKnown, HasRow, Operations, Runs
<1>4. /\ RowKnown(new, docker', lastId') /\ CtrsCome
      /\ new.id = row.id /\ new.ctr = docker.next /\ new.net = row.net /\ new.comm = row.comm
      /\ \A x \in DeviceRow : RowKnown(x, docker, lastId) =>
           RowKnown(x, docker', lastId') /\ x.ctr # docker.next
  BY <1>2, <1>3, NewKnown
<1> HIDE DEF new
<1>5. /\ req'[h] = r /\ HasRow(h)' /\ req'[h].row = req[h].row /\ req'[h].kind = req[h].kind
      /\ \A g \in Handlers \ {h} : req'[g] = req[g]
      /\ \A g \in Handlers : HasRow(g)' <=> HasRow(g)
  BY <1>1, <1>2, <1>3 DEF Turns, HasRow
<1> HIDE DEF HasRow, row
<1>6. CtrsKnown'
  BY <1>4, CtrsKnownOn DEF IdInv
<1>7. RowsKnown'
  <2>1. \A g \in Handlers : HasRow(g)' => RowKnown(req'[g].row, docker', lastId')
    BY <1>4, <1>5, HandRows DEF IdInv, RowsKnown
  <2>2. \A g \in Handlers : \A m \in req'[g].made : RowKnown(m, docker', lastId')
    BY <1>1, <1>4, <1>5, HandRows DEF IdInv, RowsKnown
  <2>3. QED BY <1>2, <1>4, <2>1, <2>2, HandRows DEF IdInv, RowsKnown
<1>8. CreatesOwn'
  <2>1. ASSUME NEW g \in Handlers, req'[g].kind = "create"
        PROVE  /\ req'[g].pc = "run" => req'[g].row \in req'[g].made /\ req'[g].row.ctr = 0
               /\ \A m \in req'[g].made :
                    /\ \A d \in devices' : d.id # m.id
                    /\ \A n \in req'[g].made : n.id = m.id => n = m
                    /\ \A k \in Handlers : HasRow(k)' => req'[k].row.id # m.id
                    /\ \A k \in Handlers \ {g} : \A n \in req'[k].made : n.id # m.id
    <3>1. g # h /\ req'[g] = req[g]
      BY <1>3, <1>5, <2>1
    <3>2. \A k \in Handlers : HasRow(k)' => HasRow(k) /\ req'[k].row = req[k].row
      BY <1>5
    <3>3. \A n \in req'[h].made : n.id = req[h].row.id
      BY <1>1, <1>4, <1>5 DEF row
    <3>4. QED BY <1>2, <1>3, <1>5, <2>1, <3>1, <3>2, <3>3 DEF IdInv, CreatesOwn
  <2>2. QED BY <2>1 DEF CreatesOwn
<1>9. StartsOwn'
  <2>1. \A g \in Handlers :
          HasRow(g)' /\ ~(req'[g].kind \in Runs /\ req'[g].pc = "commit") => req'[g].made = {}
    BY <1>1, <1>2, <1>5 DEF IdInv, StartsOwn
  <2>2. ASSUME NEW g \in Handlers, req'[g].kind \in Runs, NEW m \in req'[g].made
        PROVE  /\ m.id = req'[g].row.id /\ m.net = req'[g].row.net /\ m.comm = req'[g].row.comm
               /\ m.ctr > 0 /\ \A d \in devices' : d.ctr # m.ctr
               /\ \A k \in Handlers : HasRow(k)' => req'[k].row.ctr # m.ctr
               /\ \A k \in Handlers \ {g} : \A n \in req'[k].made : n.ctr # m.ctr
    <3>1. CASE g = h
      <4>1. m = new
        BY <1>1, <1>5, <2>2, <3>1
      <4>2. QED BY <1>2, <1>4, <1>5, <3>1, <4>1, HandRows DEF IdInv, RowsKnown, row
    <3>2. CASE g # h
      <4>1. req[g].kind \in Runs /\ m \in req[g].made /\ req'[g] = req[g]
        BY <1>5, <2>2, <3>2
      <4>2. m.ctr # docker.next
        BY <1>4, <4>1, HandRows DEF IdInv, RowsKnown
      <4>3. \A n \in req'[h].made : n.ctr = docker.next
        BY <1>1, <1>4, <1>5
      <4>4. QED BY <1>2, <1>5, <3>2, <4>1, <4>2, <4>3 DEF IdInv, StartsOwn
    <3>3. QED BY <3>1, <3>2
  <2>3. QED BY <2>1, <2>2 DEF StartsOwn
<1>10. RacesSeen'
  <2>1. \A g \in Handlers : req'[g].kind = req[g].kind /\ req'[g].row = req[g].row
    BY <1>5
  <2>2. QED BY <1>2, <2>1 DEF IdInv, RacesSeen
<1>11. QED BY <1>6, <1>7, <1>8, <1>9, <1>10 DEF IdInv

LEMMA IdsCreate == ASSUME DevType, DevType', IdInv, NEW h \in Handlers, Creates(h) PROVE IdInv'
<1>1. /\ req[h].kind = "create" /\ lastId' = lastId /\ docker' = docker
      /\ devices' = devices \cup req[h].made /\ raced' = raced /\ Turns(h, Idle)
  BY DEF Creates
<1>2. /\ req'[h].kind \notin Operations /\ req'[h].kind # "create" /\ req'[h].made = {}
      /\ \A g \in Handlers \ {h} : req'[g] = req[g]
      /\ ~HasRow(h) /\ ~HasRow(h)'
      /\ \A g \in Handlers \ {h} : HasRow(g)' <=> HasRow(g)
  BY <1>1, IdleOK DEF Turns, Operations, Runs, HasRow
<1>3. req'[h].kind \notin Runs \cup {"delete"}
  BY <1>2 DEF Operations
<1>4. \A m \in req[h].made : m.id \in Nat /\ m.ctr \in Nat
  BY HandRows DEF DeviceRow
<1> HIDE DEF HasRow
<1>5. CtrsKnown'
  BY <1>1 DEF IdInv, CtrsKnown
<1>6. RowsKnown'
  <2>1. \A r, s \in devices' : r.id = s.id => r = s
    BY <1>1 DEF IdInv, RowsKnown, CreatesOwn
  <2>2. \A r \in devices' : RowKnown(r, docker', lastId')
    BY <1>1 DEF IdInv, RowsKnown
  <2>3. \A g \in Handlers : HasRow(g)' => RowKnown(req'[g].row, docker', lastId')
    BY <1>1, <1>2 DEF IdInv, RowsKnown
  <2>4. \A g \in Handlers : \A m \in req'[g].made : RowKnown(m, docker', lastId')
    BY <1>1, <1>2 DEF IdInv, RowsKnown
  <2>5. QED BY <2>1, <2>2, <2>3, <2>4 DEF RowsKnown
<1>7. CreatesOwn'
  <2>1. ASSUME NEW g \in Handlers, req'[g].kind = "create"
        PROVE  /\ req'[g].pc = "run" => req'[g].row \in req'[g].made /\ req'[g].row.ctr = 0
               /\ \A m \in req'[g].made :
                    /\ \A d \in devices' : d.id # m.id
                    /\ \A n \in req'[g].made : n.id = m.id => n = m
                    /\ \A k \in Handlers : HasRow(k)' => req'[k].row.id # m.id
                    /\ \A k \in Handlers \ {g} : \A n \in req'[k].made : n.id # m.id
    <3>1. g # h /\ req'[g] = req[g] /\ req[g].kind = "create"
      BY <1>2, <2>1
    <3>2. QED BY <1>1, <1>2, <3>1 DEF IdInv, CreatesOwn
  <2>2. QED BY <2>1 DEF CreatesOwn
<1>8. StartsOwn'
  <2>1. \A g \in Handlers :
          HasRow(g)' /\ ~(req'[g].kind \in Runs /\ req'[g].pc = "commit") => req'[g].made = {}
    BY <1>2 DEF IdInv, StartsOwn
  <2>2. ASSUME NEW g \in Handlers, req'[g].kind \in Runs, NEW m \in req'[g].made
        PROVE  /\ m.id = req'[g].row.id /\ m.net = req'[g].row.net /\ m.comm = req'[g].row.comm
               /\ m.ctr > 0 /\ \A d \in devices' : d.ctr # m.ctr
               /\ \A k \in Handlers : HasRow(k)' => req'[k].row.ctr # m.ctr
               /\ \A k \in Handlers \ {g} : \A n \in req'[k].made : n.ctr # m.ctr
    <3>1. g # h /\ req[g].kind \in Runs /\ m \in req[g].made /\ req'[g] = req[g]
      BY <1>2, <1>3, <2>2
    <3>2. QED BY <1>1, <1>2, <3>1 DEF IdInv, StartsOwn
  <2>3. QED BY <2>1, <2>2 DEF StartsOwn
<1>9. RacesSeen'
  BY <1>1, <1>2, <1>3 DEF IdInv, RacesSeen
<1>10. QED BY <1>5, <1>6, <1>7, <1>8, <1>9 DEF IdInv

LEMMA IdsTake ==
  ASSUME DevType, DevType', IdInv, NEW h \in Handlers, NEW kind \in Operations, NEW row \in devices,
         Takes(h, kind, row)
  PROVE  IdInv'
<1>1. PICK r : /\ Turns(h, r) /\ r.kind = kind /\ r.pc = "docker" /\ r.row = row /\ r.made = {}
  BY DEF Takes
<1>2. /\ req[h].kind = "idle" /\ docker' = docker /\ devices' = devices /\ lastId' = lastId
      /\ raced' = IF \E g \in Handlers : /\ req[g].kind \in Operations
                                         /\ req[g].row.id = row.id /\ Races(kind, req[g].kind)
                    THEN raced \cup {row.id} ELSE raced
  BY DEF Takes
<1>3. /\ req'[h] = r /\ HasRow(h)' /\ ~HasRow(h) /\ kind # "create"
      /\ \A g \in Handlers \ {h} : req'[g] = req[g]
      /\ \A g \in Handlers \ {h} : HasRow(g)' <=> HasRow(g)
  BY <1>1, <1>2 DEF Turns, HasRow, Operations, Runs
<1> HIDE DEF HasRow
<1>4. CtrsKnown'
  BY <1>2 DEF IdInv, CtrsKnown
<1>5. RowsKnown'
  <2>1. \A g \in Handlers : HasRow(g)' => RowKnown(req'[g].row, docker', lastId')
    BY <1>1, <1>2, <1>3 DEF IdInv, RowsKnown
  <2>2. \A g \in Handlers : \A m \in req'[g].made : RowKnown(m, docker', lastId')
    BY <1>1, <1>2, <1>3 DEF IdInv, RowsKnown
  <2>3. QED BY <1>2, <2>1, <2>2 DEF IdInv, RowsKnown
<1>6. CreatesOwn'
  <2>1. ASSUME NEW g \in Handlers, req'[g].kind = "create"
        PROVE  /\ req'[g].pc = "run" => req'[g].row \in req'[g].made /\ req'[g].row.ctr = 0
               /\ \A m \in req'[g].made :
                    /\ \A d \in devices' : d.id # m.id
                    /\ \A n \in req'[g].made : n.id = m.id => n = m
                    /\ \A k \in Handlers : HasRow(k)' => req'[k].row.id # m.id
                    /\ \A k \in Handlers \ {g} : \A n \in req'[k].made : n.id # m.id
    <3>1. g # h /\ req'[g] = req[g] /\ req[g].kind = "create"
      BY <1>1, <1>3, <2>1
    <3>2. QED BY <1>1, <1>2, <1>3, <3>1 DEF IdInv, CreatesOwn
  <2>2. QED BY <2>1 DEF CreatesOwn
<1>7. StartsOwn'
  <2>1. \A g \in Handlers :
          HasRow(g)' /\ ~(req'[g].kind \in Runs /\ req'[g].pc = "commit") => req'[g].made = {}
    BY <1>1, <1>3 DEF IdInv, StartsOwn
  <2>2. ASSUME NEW g \in Handlers, req'[g].kind \in Runs, NEW m \in req'[g].made
        PROVE  /\ m.id = req'[g].row.id /\ m.net = req'[g].row.net /\ m.comm = req'[g].row.comm
               /\ m.ctr > 0 /\ \A d \in devices' : d.ctr # m.ctr
               /\ \A k \in Handlers : HasRow(k)' => req'[k].row.ctr # m.ctr
               /\ \A k \in Handlers \ {g} : \A n \in req'[k].made : n.ctr # m.ctr
    <3>1. g # h /\ req[g].kind \in Runs /\ m \in req[g].made /\ req'[g] = req[g]
      BY <1>1, <1>3, <2>2
    <3>2. QED BY <1>1, <1>2, <1>3, <3>1 DEF IdInv, StartsOwn
  <2>3. QED BY <2>1, <2>2 DEF StartsOwn
<1>8. RacesSeen'
  <2>1. SUFFICES ASSUME NEW g \in Handlers, NEW k \in Handlers, g # k, req'[k].kind \in Runs,
                        req'[g].kind \in Runs \cup {"delete"}, req'[g].row.id = req'[k].row.id
                 PROVE  req'[k].row.id \in raced'
    BY DEF RacesSeen
  <2>2. raced \subseteq raced'
    BY <1>2
  <2>3. CASE g # h /\ k # h
    BY <1>3, <2>1, <2>2, <2>3 DEF IdInv, RacesSeen
  <2>4. CASE g = h
    <3>1. Races(kind, req[k].kind) /\ req[k].row.id = row.id /\ req[k].kind \in Operations
      BY <1>1, <1>3, <2>1, <2>4 DEF Races, Operations
    <3>2. QED BY <1>2, <1>3, <2>1, <2>4, <3>1
  <2>5. CASE k = h
    <3>1. Races(kind, req[g].kind) /\ req[g].row.id = row.id /\ req[g].kind \in Operations
      BY <1>1, <1>3, <2>1, <2>5 DEF Races, Operations
    <3>2. QED BY <1>1, <1>2, <1>3, <2>5, <3>1
  <2>6. QED BY <2>3, <2>4, <2>5
<1>9. QED BY <1>4, <1>5, <1>6, <1>7, <1>8 DEF IdInv

\* What an update that finds its row does to it.
LEMMA RowUpdated ==
  ASSUME DevType, StartsMake, IdInv, NEW h \in Handlers, Updates(h)
  PROVE  \E r, u :
           /\ r \in devices /\ r.id = req[h].row.id /\ u \in DeviceRow
           /\ devices' = (devices \ {r}) \cup {u}
           /\ u.id = r.id /\ u.net = r.net /\ u.comm = r.comm
           /\ req[h].kind = "stop" =>
                /\ u.ctr = r.ctr
                /\ u.status = IF req[h].row.status # "stopped" THEN "stopped" ELSE r.status
           /\ req[h].kind \in Runs => \E m \in req[h].made :
                /\ req[h].made = {m} /\ m.id = r.id /\ u.ctr = m.ctr
                /\ u.status = IF req[h].row.status # "running" THEN "running" ELSE r.status
<1> DEFINE id == req[h].row.id
<1>1. /\ req[h].kind \in Runs \cup {"stop"} /\ req[h].pc = "commit" /\ RowsOf(id) # {}
      /\ devices' = (devices \ RowsOf(id)) \cup {Update(h, r) : r \in RowsOf(id)}
  BY DEF Updates
<1>2. PICK r \in devices : r.id = id
  BY <1>1 DEF RowsOf
<1>3. RowsOf(id) = {r}
  BY <1>2 DEF RowsOf, IdInv, RowsKnown
<1> DEFINE u == Update(h, r)
<1>4. req[h].kind \in Runs => \E m \in req[h].made : req[h].made = {m}
  BY <1>1 DEF StartsMake
<1>5. r \in DeviceRow
  BY HandRows
<1>6. /\ u \in DeviceRow /\ u.id = r.id /\ u.net = r.net /\ u.comm = r.comm
      /\ req[h].kind = "stop" =>
           /\ u.ctr = r.ctr
           /\ u.status = IF req[h].row.status # "stopped" THEN "stopped" ELSE r.status
      /\ req[h].kind \in Runs =>
           /\ \A m \in req[h].made : u.ctr = m.ctr
           /\ u.status = IF req[h].row.status # "running" THEN "running" ELSE r.status
  BY <1>1, <1>4, <1>5, UpdatedRow
<1>7. devices' = (devices \ {r}) \cup {u}
  BY <1>1, <1>3
<1>8. \A m \in req[h].made : req[h].kind \in Runs => m.id = r.id
  BY <1>2 DEF IdInv, StartsOwn
<1> HIDE DEF u, id
<1>9. QED BY <1>2, <1>4, <1>6, <1>7, <1>8 DEF id

LEMMA IdsUpdate ==
  ASSUME DevType, DevType', StartsMake, IdInv, NEW h \in Handlers, Updates(h) PROVE IdInv'
<1>1. PICK r, u :
        /\ r \in devices /\ r.id = req[h].row.id /\ devices' = (devices \ {r}) \cup {u}
        /\ u.id = r.id
        /\ req[h].kind = "stop" => u.ctr = r.ctr
        /\ req[h].kind \in Runs => \E m \in req[h].made : m.id = r.id /\ u.ctr = m.ctr
  BY RowUpdated
<1>2. /\ req[h].kind \in Runs \cup {"stop"} /\ lastId' = lastId /\ docker' = docker
      /\ raced' = raced /\ Turns(h, Idle)
  BY DEF Updates
<1>3. /\ req'[h].kind \notin Operations /\ req'[h].kind # "create" /\ req'[h].made = {}
      /\ \A g \in Handlers \ {h} : req'[g] = req[g]
      /\ ~HasRow(h)' /\ \A g \in Handlers : HasRow(g)' => HasRow(g) /\ req'[g] = req[g]
  BY <1>2, IdleOK DEF Turns, Operations, Runs, HasRow
<1>4. req'[h].kind \notin Runs \cup {"delete"}
  BY <1>3 DEF Operations
<1> HIDE DEF HasRow
<1>5. CtrsKnown'
  BY <1>2 DEF IdInv, CtrsKnown
<1>6. RowsKnown'
  <2>1. \A x, y \in devices' : x.id = y.id => x = y
    BY <1>1 DEF IdInv, RowsKnown
  <2>2. RowKnown(u, docker', lastId')
    BY <1>1, <1>2 DEF IdInv, RowsKnown, RowKnown
  <2>3. \A x \in devices' : RowKnown(x, docker', lastId')
    BY <1>1, <1>2, <2>2 DEF IdInv, RowsKnown
  <2>4. \A g \in Handlers : HasRow(g)' => RowKnown(req'[g].row, docker', lastId')
    BY <1>2, <1>3 DEF IdInv, RowsKnown
  <2>5. \A g \in Handlers : \A m \in req'[g].made : RowKnown(m, docker', lastId')
    BY <1>2, <1>3 DEF IdInv, RowsKnown
  <2>6. QED BY <2>1, <2>3, <2>4, <2>5 DEF RowsKnown
<1>7. CreatesOwn'
  <2>1. ASSUME NEW g \in Handlers, req'[g].kind = "create"
        PROVE  /\ req'[g].pc = "run" => req'[g].row \in req'[g].made /\ req'[g].row.ctr = 0
               /\ \A m \in req'[g].made :
                    /\ \A d \in devices' : d.id # m.id
                    /\ \A n \in req'[g].made : n.id = m.id => n = m
                    /\ \A k \in Handlers : HasRow(k)' => req'[k].row.id # m.id
                    /\ \A k \in Handlers \ {g} : \A n \in req'[k].made : n.id # m.id
    <3>1. g # h /\ req'[g] = req[g] /\ req[g].kind = "create"
      BY <1>3, <2>1
    <3>2. QED BY <1>1, <1>3, <3>1 DEF IdInv, CreatesOwn
  <2>2. QED BY <2>1 DEF CreatesOwn
<1>8. StartsOwn'
  <2>1. \A g \in Handlers :
          HasRow(g)' /\ ~(req'[g].kind \in Runs /\ req'[g].pc = "commit") => req'[g].made = {}
    BY <1>3 DEF IdInv, StartsOwn
  <2>2. ASSUME NEW g \in Handlers, req'[g].kind \in Runs, NEW m \in req'[g].made
        PROVE  /\ m.id = req'[g].row.id /\ m.net = req'[g].row.net /\ m.comm = req'[g].row.comm
               /\ m.ctr > 0 /\ \A d \in devices' : d.ctr # m.ctr
               /\ \A k \in Handlers : HasRow(k)' => req'[k].row.ctr # m.ctr
               /\ \A k \in Handlers \ {g} : \A n \in req'[k].made : n.ctr # m.ctr
    <3>1. g # h /\ req[g].kind \in Runs /\ m \in req[g].made /\ req'[g] = req[g]
      BY <1>3, <1>4, <2>2
    <3>2. u.ctr # m.ctr
      BY <1>1, <1>2, <3>1 DEF IdInv, StartsOwn
    <3>3. QED BY <1>1, <1>3, <3>1, <3>2 DEF IdInv, StartsOwn
  <2>3. QED BY <2>1, <2>2 DEF StartsOwn
<1>9. RacesSeen'
  BY <1>2, <1>3, <1>4 DEF IdInv, RacesSeen
<1>10. QED BY <1>5, <1>6, <1>7, <1>8, <1>9 DEF IdInv

LEMMA IdsKept ==
  ASSUME DevType, DevType', StartsMake, IdInv, NEW h \in Handlers, Effect(h) PROVE IdInv'
  BY IdsSteps, IdsInsert, IdsRun, IdsCreate, IdsTake, IdsStart, IdsUpdate DEF Effect

LEMMA IdsInitially == Init => IdInv
<1> SUFFICES ASSUME Init PROVE IdInv
  OBVIOUS
<1>1. DevType /\ InitDevices \in Nat /\ lastId = InitDevices
  BY TypeInitially, DevicesAssumption DEF Init
<1>2. \A h \in Handlers : req[h].kind = "idle" /\ req[h].made = {} /\ ~HasRow(h)
  BY IdleOK DEF Init, HasRow, Operations, Runs
<1>3. \A r \in devices : \E i \in 1..InitDevices : r.id = i /\ r.ctr = i + 1 /\ r = InitRow(i)
  BY DEF Init, InitRow
<1>4. \A c \in docker.ctrs : \E i \in 1..InitDevices : c.dev = i /\ c.id = i + 1
  <2>1. CASE InitDevices = 0
    BY <2>1 DEF Init, NoDocker
  <2>2. CASE InitDevices # 0
    BY <2>2 DEF Init
  <2>3. QED BY <2>1, <2>2
<1>5. InitDevices # 0 => docker.next = InitDevices + 2
  BY DEF Init
<1>6. CtrsKnown
  BY <1>1, <1>4 DEF CtrsKnown
<1>7. RowsKnown
  BY <1>1, <1>2, <1>3, <1>4, <1>5 DEF RowsKnown, RowKnown
<1>8. CreatesOwn /\ StartsOwn /\ RacesSeen
  BY <1>2 DEF CreatesOwn, StartsOwn, RacesSeen, Runs
<1>9. QED BY <1>6, <1>7, <1>8 DEF IdInv

LEMMA IdsAlways == DeviceSpec => []IdInv
<1>1. DevType /\ DevType' /\ StartsMake /\ IdInv /\ [DeviceNext]_labVars => IdInv'
  <2>1. ASSUME DevType, DevType', StartsMake, IdInv, NEW h \in Handlers,
               DeviceRequest(h) \/ DeviceStep(h)
        PROVE  IdInv'
    BY <2>1, DeviceEffects, IdsKept
  <2>2. ASSUME IdInv, UNCHANGED labVars PROVE IdInv'
    BY <2>2 DEF IdInv, CtrsKnown, RowsKnown, CreatesOwn, StartsOwn, RacesSeen, HasRow, labVars, rows
  <2>3. QED BY <2>1, <2>2 DEF DeviceNext
<1>2. QED BY <1>1, IdsInitially, TypeAlways, PTL DEF DeviceSpec

-----------------------------------------------------------------------------
(* Networks under running containers.  A running container is attached to  *)
(* the network its row named when it was started; a row loses its network  *)
(* only to a delete that has found nothing attached to it.                 *)

\* What NetInv says that matters here.
NetsGone ==
  /\ \A h \in Handlers : req[h].kind = "dropnet" /\ req[h].pc = "commit" =>
                           req[h].lab.net \notin Networks(docker)
  /\ \A n \in networks : n.net < docker.next

Plugged(x, d) == x.ctr \in Running(d) => \E e \in d.ends : e.ctr = x.ctr /\ e.net = x.net

RowsPlugged ==
  /\ \A r \in devices : Plugged(r, docker)
  /\ \A h \in Handlers : \A m \in req[h].made : Plugged(m, docker)

\* network_id is a foreign key.
NetsKept ==
  /\ \A r \in devices : r.net = None \/ HasNetwork(r)
  /\ \A h \in Handlers : req[h].kind = "create" =>
       \A m \in req[h].made : m.net = req[h].lab.net /\ HasNetwork(m)

\* A row that has lost its network since a handler read it lost one that is gone.
NetsRead ==
  \A h \in Handlers : HasRow(h) =>
    /\ req[h].row.net = None \/ req[h].row.net < docker.next
    /\ \A r \in RowsOf(req[h].row.id) :
         r.net = req[h].row.net \/ req[h].row.net \notin Networks(docker)

PlugInv == RowsPlugged /\ NetsKept /\ NetsRead

\* What a step may do to containers and attachments that rows know of.
PlugsStay ==
  /\ docker'.next >= docker.next
  /\ \A n \in Networks(docker') : n \in Networks(docker) \/ n = docker.next
  /\ \A c \in docker'.ctrs : c \in docker.ctrs \/ c.id = docker.next
  /\ \A e \in docker.ends : e \in docker'.ends \/ e.ctr \notin Containers(docker')

LEMMA SamePlugs ==
  ASSUME DevType, docker'.next >= docker.next,
         \A n \in Networks(docker') : n \in Networks(docker) \/ n = docker.next,
         docker'.ctrs = docker.ctrs, docker'.ends = docker.ends
  PROVE  PlugsStay
  BY DEF PlugsStay

LEMMA HandledPlugs ==
  ASSUME DevType, NEW dev, NEW comm, NEW net, NEW gone,
         Handled(docker, docker', dev, comm, net, gone)
  PROVE  PlugsStay
  BY DEF DevType, DockerOK, DockerType, Handled, PlugsStay, Networks

LEMMA PluggedOn ==
  ASSUME DevType, PlugsStay, NEW x \in DeviceRow, RowKnown(x, docker, lastId), Plugged(x, docker)
  PROVE  Plugged(x, docker')
<1> SUFFICES ASSUME x.ctr \in Running(docker')
             PROVE  \E e \in docker'.ends : e.ctr = x.ctr /\ e.net = x.net
  BY DEF Plugged
<1>1. PICK c \in docker'.ctrs : c.id = x.ctr /\ c.up
  BY DEF Running
<1>2. x.ctr # docker.next
  BY DEF RowKnown, DevType, DockerOK, DockerType, DeviceRow
<1>3. c \in docker.ctrs
  BY <1>1, <1>2 DEF PlugsStay
<1>4. x.ctr \in Running(docker) /\ x.ctr \in Containers(docker')
  BY <1>1, <1>3 DEF Running, Containers
<1>5. PICK e \in docker.ends : e.ctr = x.ctr /\ e.net = x.net
  BY <1>4 DEF Plugged
<1>6. QED BY <1>4, <1>5 DEF PlugsStay

\* Networks that go do not come back.
LEMMA GoneStays ==
  ASSUME DevType, PlugsStay, NEW net, net = None \/ net < docker.next, net \notin Networks(docker)
  PROVE  net \notin Networks(docker')
<1>1. docker.next \in Nat
  BY DEF DevType, DockerOK, DockerType
<1>2. net # docker.next
  BY <1>1, DevicesAssumption
<1>3. QED BY <1>2 DEF PlugsStay

\* Hands and rows may go, and a row may lose a network that is gone.
HandsDrop ==
  \A g \in Handlers :
    /\ HasRow(g)' => HasRow(g) /\ req'[g].row = req[g].row
    /\ req'[g].made \subseteq req[g].made
    /\ req'[g].made = {} \/ (req'[g].kind = req[g].kind /\ req'[g].lab = req[g].lab)

RowsDetach ==
  \A r \in devices' :
    /\ r.net = None \/ HasNetwork(r)'
    /\ \E s \in devices :
         r.id = s.id /\ r.ctr = s.ctr /\
           (r.net = s.net \/ (r.net = None /\ s.net \notin Networks(docker)))

NetsStay ==
  \A g \in Handlers : req[g].kind = "create" =>
    \A m \in req[g].made : HasNetwork(m) => HasNetwork(m)'

LEMMA RowsStay ==
  ASSUME PlugInv, networks \subseteq networks', devices' \subseteq devices
  PROVE  RowsDetach /\ NetsStay
<1>1. \A r : HasNetwork(r) => HasNetwork(r)'
  BY DEF HasNetwork
<1>2. QED BY <1>1 DEF RowsDetach, NetsStay, PlugInv, NetsKept

LEMMA PlugsHeld ==
  ASSUME DevType, DevType', IdInv, PlugInv, PlugsStay, HandsDrop, RowsDetach, NetsStay
  PROVE  PlugInv'
<1>1. RowsPlugged'
  <2>1. \A x \in DeviceRow :
          RowKnown(x, docker, lastId) /\ Plugged(x, docker) => Plugged(x, docker')
    BY PluggedOn
  <2>2. ASSUME NEW r \in devices' PROVE Plugged(r, docker')
    <3>1. PICK s \in devices : r.id = s.id /\ r.ctr = s.ctr /\
                                 (r.net = s.net \/ (r.net = None /\ s.net \notin Networks(docker)))
      BY DEF RowsDetach
    <3>2. Plugged(s, docker') /\ Plugged(s, docker) /\ RowKnown(s, docker, lastId)
      BY <2>1, HandRows DEF PlugInv, RowsPlugged, IdInv, RowsKnown
    <3>3. CASE r.net = s.net
      BY <3>1, <3>2, <3>3 DEF Plugged
    <3>4. CASE s.net \notin Networks(docker)
      <4>1. s.ctr \notin Running(docker)
        BY <3>2, <3>4 DEF Plugged, DevType, DockerOK
      <4>2. s.ctr # docker.next
        BY <3>2, HandRows DEF RowKnown, DeviceRow
      <4>3. s.ctr \notin Running(docker')
        BY <4>1, <4>2 DEF Running, PlugsStay
      <4>4. QED BY <3>1, <4>3 DEF Plugged
    <3>5. QED BY <3>1, <3>3, <3>4
  <2>3. ASSUME NEW g \in Handlers, NEW m \in req'[g].made PROVE Plugged(m, docker')
    BY <2>1, <2>3, HandRows DEF HandsDrop, PlugInv, RowsPlugged, IdInv, RowsKnown
  <2>4. QED BY <2>2, <2>3 DEF RowsPlugged
<1>2. NetsKept'
  <2>1. ASSUME NEW g \in Handlers, req'[g].kind = "create", NEW m \in req'[g].made
        PROVE  m.net = req'[g].lab.net /\ HasNetwork(m)'
    BY <2>1 DEF HandsDrop, NetsStay, PlugInv, NetsKept
  <2>2. QED BY <2>1 DEF NetsKept, RowsDetach
<1>3. NetsRead'
  <2>1. ASSUME NEW g \in Handlers, HasRow(g)'
        PROVE  /\ req'[g].row.net = None \/ req'[g].row.net < docker'.next
               /\ \A r \in devices' : r.id = req'[g].row.id =>
                    r.net = req'[g].row.net \/ req'[g].row.net \notin Networks(docker')
    <3> DEFINE row == req[g].row
    <3>1. /\ req'[g].row = row /\ row \in DeviceRow /\ HasRow(g)
          /\ row.net = None \/ row.net < docker.next
          /\ \A r \in devices : r.id = row.id => r.net = row.net \/ row.net \notin Networks(docker)
      BY <2>1, HandRows DEF HandsDrop, PlugInv, NetsRead, RowsOf
    <3> HIDE DEF row
    <3>2. row.net \notin Networks(docker) => row.net \notin Networks(docker')
      BY <3>1, GoneStays
    <3>3. row.net = None \/ row.net < docker'.next
      BY <3>1 DEF DeviceRow, PlugsStay, DevType, DockerOK, DockerType
    <3>4. QED BY <3>1, <3>2, <3>3 DEF RowsDetach
  <2>2. QED BY <2>1 DEF NetsRead, RowsOf
<1>4. QED BY <1>1, <1>2, <1>3 DEF PlugInv

\* The steps that attach nothing.
LEMMA PlugsSteps ==
  ASSUME DevType, DevType', IdInv, PlugInv, NetsGone, NEW h \in Handlers,
         \/ Quiet(h) \/ Detaches(h) \/ Fails(h) \/ Stops(h) \/ Patches(h) \/ Deletes(h)
  PROVE  PlugInv'
<1>0. docker.next \in Nat
  BY HandRows
<1>1. \A r \in devices : r.net = None \/ HasNetwork(r)
  BY DEF PlugInv, NetsKept
<1>2. docker' = docker => PlugsStay
  BY <1>0, SamePlugs
<1>3. ASSUME NEW r, Turns(h, r), r.kind \notin Operations, r.made = {}
      PROVE  HandsDrop
  BY <1>3 DEF Turns, HasRow, HandsDrop
<1>4. Idle.kind \notin Operations /\ Idle.made = {}
  BY IdleOK DEF Operations, Runs
<1>5. CASE Quiet(h)
  <2>1. HandsDrop
    BY <1>3, <1>5 DEF Quiet
  <2>2. PlugsStay /\ networks \subseteq networks' /\ devices' = devices
    BY <1>5, SamePlugs DEF Quiet
  <2>3. QED BY <2>1, <2>2, RowsStay, PlugsHeld
<1>6. CASE Detaches(h)
  <2>1. HandsDrop
    BY <1>3, <1>4, <1>6 DEF Detaches
  <2> DEFINE net == req[h].lab.net
             f(r) == IF r.net = net THEN [r EXCEPT !.net = None] ELSE r
  <2>2. /\ devices' = {f(r) : r \in devices} /\ docker' = docker
        /\ networks' = networks \ {req[h].lab} /\ net \notin Networks(docker)
        /\ \A g \in Handlers : req[g].kind = "create" => \A r \in req[g].made : r.net # net
    BY <1>6 DEF Detaches, NetsGone
  <2>3. \A r \in devices : /\ f(r).id = r.id /\ f(r).ctr = r.ctr
                           /\ f(r).net = IF r.net = net THEN None ELSE r.net
    BY DEF DevType, DeviceRow
  <2>4. \A r : r.net # net /\ HasNetwork(r) => HasNetwork(r)'
    BY <2>2 DEF HasNetwork
  <2> HIDE DEF f, net
  <2>5. NetsStay
    BY <2>2, <2>4 DEF NetsStay
  <2>6. RowsDetach
    <3>1. SUFFICES ASSUME NEW r \in devices'
                   PROVE  /\ r.net = None \/ HasNetwork(r)'
                          /\ \E s \in devices : r.id = s.id /\ r.ctr = s.ctr /\
                               (r.net = s.net \/ (r.net = None /\ s.net \notin Networks(docker)))
      BY DEF RowsDetach
    <3>2. PICK s \in devices : r = f(s)
      BY <2>2
    <3>3. CASE s.net = net
      BY <2>2, <2>3, <3>2, <3>3
    <3>4. CASE s.net # net
      <4>1. r.net = s.net
        BY <2>3, <3>2, <3>4
      <4>2. s.net = None \/ HasNetwork(s)'
        BY <1>1, <2>4, <3>4
      <4>3. r.net = None \/ HasNetwork(r)'
        BY <4>1, <4>2 DEF HasNetwork
      <4>4. QED BY <2>3, <3>2, <4>1, <4>3
    <3>5. QED BY <3>3, <3>4
  <2>7. QED BY <1>2, <2>1, <2>2, <2>5, <2>6, PlugsHeld
<1>7. CASE Fails(h)
  <2>1. HandsDrop
    BY <1>3, <1>4, <1>7 DEF Fails
  <2>2. networks' = networks /\ devices' = devices
    BY <1>7 DEF Fails
  <2>3. PlugsStay
    BY <1>2, <1>7, HandledPlugs DEF Fails
  <2>4. QED BY <2>1, <2>2, <2>3, RowsStay, PlugsHeld
<1>8. CASE Stops(h)
  <2>1. PICK r : Turns(h, r) /\ r.kind = req[h].kind /\ r.row = req[h].row /\ r.made = req[h].made
    BY <1>8 DEF Stops
  <2>2. /\ req[h].kind \in {"stop", "delete"} /\ HasRow(h)
        /\ networks' = networks /\ devices' = devices
    BY <1>8 DEF Stops, HasRow, Operations
  <2>3. req[h].made = {}
    BY <2>2 DEF IdInv, StartsOwn, Runs
  <2>4. HandsDrop
    BY <2>1, <2>3 DEF Turns, HasRow, HandsDrop
  <2>5. PlugsStay
    BY <1>8, HandledPlugs DEF Stops
  <2>6. QED BY <2>2, <2>4, <2>5, RowsStay, PlugsHeld
<1>9. CASE Patches(h)
  <2>1. \A g \in Handlers : DOMAIN req[g] = DOMAIN Idle
    BY DEF DevType, HandsOK, HandOK
  <2>2. \A g \in Handlers \ {h} :
          /\ req'[g].kind = req[g].kind /\ req'[g].row = req[g].row /\ req'[g].made = req[g].made
          /\ req'[g].lab = req[g].lab
    BY <1>9, <2>1 DEF Patches, Idle
  <2>3. HandsDrop
    BY <1>4, <1>9, <2>2 DEF HasRow, Patches, HandsDrop
  <2> DEFINE f(r) == IF PatchesRow(h, r) THEN [r EXCEPT !.comm = req[h].comm] ELSE r
  <2>4. devices' = {f(r) : r \in devices} /\ networks' = networks /\ docker' = docker
    BY <1>9 DEF Patches
  <2>5. \A r \in devices : f(r).id = r.id /\ f(r).ctr = r.ctr /\ f(r).net = r.net
    BY DEF DevType, DeviceRow
  <2> HIDE DEF f
  <2>6. \A r \in devices' : \E s \in devices : r.id = s.id /\ r.ctr = s.ctr /\ r.net = s.net
    BY <2>4, <2>5
  <2>7. \A r \in devices' : r.net = None \/ HasNetwork(r)'
    BY <1>1, <2>4, <2>6 DEF HasNetwork
  <2>8. RowsDetach
    BY <2>6, <2>7 DEF RowsDetach
  <2>9. NetsStay
    BY <2>4 DEF NetsStay, HasNetwork
  <2>10. QED BY <1>2, <2>3, <2>4, <2>8, <2>9, PlugsHeld
<1>10. CASE Deletes(h)
  <2>1. HandsDrop
    BY <1>3, <1>4, <1>10 DEF Deletes
  <2>2. docker' = docker /\ networks' = networks /\ devices' \subseteq devices
    BY <1>10 DEF Deletes
  <2>3. QED BY <1>2, <2>1, <2>2, RowsStay, PlugsHeld
<1>11. QED BY <1>5, <1>6, <1>7, <1>8, <1>9, <1>10

LEMMA PlugsInsert ==
  ASSUME DevType, DevType', IdInv, PlugInv, NEW h \in Handlers, Inserts(h) PROVE PlugInv'
<1>1. PICK r, new : /\ Turns(h, r) /\ r.kind = "create" /\ r.lab = req[h].lab
                    /\ r.made = req[h].made \cup {new} /\ new.net = req[h].lab.net /\ new.ctr = 0
  BY DEF Inserts
<1>2. /\ req[h].kind = "create" /\ req[h].lab \in networks /\ docker' = docker
      /\ devices' = devices /\ networks' = networks
  BY DEF Inserts
<1>3. 0 \notin Running(docker)
  BY DEF DevType, DockerOK, Running
<1>4. /\ req'[h] = r /\ ~HasRow(h)' /\ \A g \in Handlers \ {h} : req'[g] = req[g]
      /\ \A g \in Handlers : HasRow(g)' => HasRow(g) /\ req'[g] = req[g]
  BY <1>1 DEF Turns, HasRow, Operations, Runs
<1> HIDE DEF HasRow
<1>5. RowsPlugged'
  BY <1>1, <1>2, <1>3, <1>4 DEF PlugInv, RowsPlugged, Plugged
<1>6. NetsKept'
  BY <1>1, <1>2, <1>4 DEF PlugInv, NetsKept, HasNetwork
<1>7. NetsRead'
  BY <1>2, <1>4 DEF PlugInv, NetsRead, RowsOf
<1>8. QED BY <1>5, <1>6, <1>7 DEF PlugInv

\* The container that comes is attached.
LEMMA NewPlugged ==
  ASSUME DevType, DevType', NEW row, NEW net,
         \E gone : Handled(docker, docker', row.id, row.comm, net, gone), NEW new,
         new.ctr = docker.next, new.net = net
  PROVE  Plugged(new, docker')
<1>1. \A c \in docker.ctrs : c.id # docker.next
  BY DEF DevType, DockerOK, DockerType, Container
<1>2. \A c \in docker'.ctrs :
        c.id = docker.next /\ c.up => \E x \in docker'.ends : x.ctr = c.id /\ x.net = net
  BY <1>1 DEF Handled
<1>3. QED BY <1>2 DEF Plugged, Running

LEMMA PlugsRun ==
  ASSUME DevType, DevType', IdInv, PlugInv, NEW h \in Handlers, RunsUp(h) PROVE PlugInv'
<1> DEFINE row == req[h].row
           new == Launched(row, docker.next)
<1>1. PICK r : /\ Turns(h, r) /\ r.kind = "create" /\ r.lab = req[h].lab
               /\ r.made = (req[h].made \ {row}) \cup {new}
  BY DEF RunsUp
<1>2. /\ req[h].kind = "create" /\ req[h].pc = "run" /\ lastId' = lastId
      /\ devices' = devices /\ networks' = networks
      /\ Handled(docker, docker', row.id, row.comm, req[h].lab.net, 0)
      /\ Launches(docker, docker', row.id, row.comm)
  BY DEF RunsUp
<1>3. row \in req[h].made /\ RowKnown(row, docker, lastId) /\ row \in DeviceRow
  BY <1>2, HandRows DEF IdInv, CreatesOwn, RowsKnown
<1>4. new.net = row.net /\ new.ctr = docker.next
  BY <1>2, <1>3, NewKnown
<1>5. row.net = req[h].lab.net /\ HasNetwork(row)
  BY <1>2, <1>3 DEF PlugInv, NetsKept
<1> HIDE DEF new
<1>6. Plugged(new, docker')
  BY <1>2, <1>4, <1>5, NewPlugged
<1>7. PlugsStay
  BY <1>2, HandledPlugs
<1>8. \A x \in DeviceRow : RowKnown(x, docker, lastId) /\ Plugged(x, docker) => Plugged(x, docker')
  BY <1>7, PluggedOn
<1>9. /\ req'[h] = r /\ ~HasRow(h)' /\ \A g \in Handlers \ {h} : req'[g] = req[g]
      /\ \A g \in Handlers : HasRow(g)' => HasRow(g) /\ req'[g] = req[g]
  BY <1>1 DEF Turns, HasRow, Operations, Runs
<1> HIDE DEF HasRow, row
<1>10. RowsPlugged'
  <2>1. \A x \in devices' : Plugged(x, docker')
    BY <1>2, <1>8, HandRows DEF PlugInv, RowsPlugged, IdInv, RowsKnown
  <2>2. \A g \in Handlers : \A m \in req'[g].made : Plugged(m, docker')
    <3>1. \A g \in Handlers : \A m \in req[g].made : Plugged(m, docker')
      BY <1>8, HandRows DEF PlugInv, RowsPlugged, IdInv, RowsKnown
    <3>2. QED BY <1>1, <1>6, <1>9, <3>1
  <2>3. QED BY <2>1, <2>2 DEF RowsPlugged
<1>11. NetsKept'
  BY <1>1, <1>2, <1>4, <1>5, <1>9 DEF PlugInv, NetsKept, HasNetwork
<1>12. NetsRead'
  <2>1. \A g \in Handlers : HasRow(g) => req[g].row.net = None \/ req[g].row.net < docker'.next
    BY <1>7, HandRows DEF PlugInv, NetsRead, DeviceRow, PlugsStay, DevType, DockerOK, DockerType
  <2>2. Networks(docker') = Networks(docker)
    BY <1>2 DEF Handled, Networks
  <2>3. QED BY <1>2, <1>9, <2>1, <2>2 DEF PlugInv, NetsRead, RowsOf
<1>13. QED BY <1>10, <1>11, <1>12 DEF PlugInv

LEMMA PlugsStart ==
  ASSUME DevType, DevType', IdInv, PlugInv, NEW h \in Handlers, Starts(h) PROVE PlugInv'
<1> DEFINE row == req[h].row
           new == Launched(row, docker.next)
<1>1. PICK r : /\ Turns(h, r) /\ r.kind = req[h].kind /\ r.row = row /\ r.made = {new}
  BY DEF Starts
<1>2. /\ req[h].kind \in Runs /\ lastId' = lastId
      /\ devices' = devices /\ networks' = networks
      /\ Handled(docker, docker', row.id, row.comm, row.net, row.ctr)
      /\ Launches(docker, docker', row.id, row.comm)
  BY DEF Starts
<1>3. /\ HasRow(h) /\ RowKnown(row, docker, lastId) /\ row \in DeviceRow
      /\ req[h].kind # "create"
  BY <1>2, HandRows DEF IdInv, RowsKnown, HasRow, Operations, Runs
<1>4. new.net = row.net /\ new.ctr = docker.next
  BY <1>2, <1>3, NewKnown
<1> HIDE DEF new
<1>5. Plugged(new, docker')
  BY <1>2, <1>4, NewPlugged
<1>6. PlugsStay
  BY <1>2, HandledPlugs
<1>7. \A x \in DeviceRow : RowKnown(x, docker, lastId) /\ Plugged(x, docker) => Plugged(x, docker')
  BY <1>6, PluggedOn
<1>8. /\ req'[h] = r /\ req'[h].kind = req[h].kind /\ \A g \in Handlers \ {h} : req'[g] = req[g]
      /\ \A g \in Handlers : HasRow(g)' => HasRow(g) /\ req'[g].row = req[g].row
  BY <1>1 DEF Turns, HasRow
<1> HIDE DEF HasRow, row
<1>9. RowsPlugged'
  <2>1. \A x \in devices' : Plugged(x, docker')
    BY <1>2, <1>7, HandRows DEF PlugInv, RowsPlugged, IdInv, RowsKnown
  <2>2. \A g \in Handlers : \A m \in req'[g].made : Plugged(m, docker')
    <3>1. \A g \in Handlers : \A m \in req[g].made : Plugged(m, docker')
      BY <1>7, HandRows DEF PlugInv, RowsPlugged, IdInv, RowsKnown
    <3>2. QED BY <1>1, <1>5, <1>8, <3>1
  <2>3. QED BY <2>1, <2>2 DEF RowsPlugged
<1>10. NetsKept'
  BY <1>2, <1>3, <1>8 DEF PlugInv, NetsKept, HasNetwork
<1>11. NetsRead'
  <2>1. \A g \in Handlers : HasRow(g) => req[g].row.net = None \/ req[g].row.net < docker'.next
    BY <1>6, HandRows DEF PlugInv, NetsRead, DeviceRow, PlugsStay, DevType, DockerOK, DockerType
  <2>2. Networks(docker') = Networks(docker)
    BY <1>2 DEF Handled, Networks
  <2>3. QED BY <1>2, <1>8, <2>1, <2>2 DEF PlugInv, NetsRead, RowsOf
<1>12. QED BY <1>9, <1>10, <1>11 DEF PlugInv

LEMMA PlugsCreate ==
  ASSUME DevType, DevType', IdInv, PlugInv, NEW h \in Handlers, Creates(h) PROVE PlugInv'
<1>1. /\ req[h].kind = "create" /\ docker' = docker /\ networks' = networks
      /\ devices' = devices \cup req[h].made /\ Turns(h, Idle)
  BY DEF Creates
<1>2. /\ req'[h].made = {} /\ ~HasRow(h)' /\ \A g \in Handlers \ {h} : req'[g] = req[g]
      /\ \A g \in Handlers : HasRow(g)' => HasRow(g) /\ req'[g] = req[g]
  BY <1>1, IdleOK DEF Turns, Operations, Runs, HasRow
<1> HIDE DEF HasRow
<1>3. RowsPlugged'
  BY <1>1, <1>2 DEF PlugInv, RowsPlugged
<1>4. NetsKept'
  BY <1>1, <1>2 DEF PlugInv, NetsKept, HasNetwork
<1>5. NetsRead'
  <2>1. \A g \in Handlers : HasRow(g) => \A m \in req[h].made : m.id # req[g].row.id
    BY <1>1 DEF IdInv, CreatesOwn
  <2>2. QED BY <1>1, <1>2, <2>1 DEF PlugInv, NetsRead, RowsOf
<1>6. QED BY <1>3, <1>4, <1>5 DEF PlugInv

LEMMA PlugsTake ==
  ASSUME DevType, DevType', IdInv, PlugInv, NetsGone, NEW h \in Handlers, NEW kind \in Operations,
         NEW row \in devices, Takes(h, kind, row)
  PROVE  PlugInv'
<1>1. PICK r : /\ Turns(h, r) /\ r.kind = kind /\ r.row = row /\ r.made = {}
  BY DEF Takes
<1>2. docker' = docker /\ networks' = networks /\ devices' = devices
  BY DEF Takes
<1>3. /\ req'[h] = r /\ kind # "create" /\ \A g \in Handlers \ {h} : req'[g] = req[g]
      /\ \A g \in Handlers \ {h} : HasRow(g)' => HasRow(g)
  BY <1>1 DEF Turns, HasRow, Operations, Runs
<1> HIDE DEF HasRow
<1>4. RowsPlugged'
  BY <1>1, <1>2, <1>3 DEF PlugInv, RowsPlugged
<1>5. NetsKept'
  BY <1>1, <1>2, <1>3 DEF PlugInv, NetsKept, HasNetwork
<1>6. NetsRead'
  <2>1. row.net = None \/ row.net < docker.next
    BY DEF PlugInv, NetsKept, HasNetwork, NetsGone
  <2>2. \A x \in devices : x.id = row.id => x = row
    BY DEF IdInv, RowsKnown
  <2>3. QED BY <1>1, <1>2, <1>3, <2>1, <2>2 DEF PlugInv, NetsRead, RowsOf
<1>7. QED BY <1>4, <1>5, <1>6 DEF PlugInv

LEMMA PlugsUpdate ==
  ASSUME DevType, DevType', StartsMake, IdInv, PlugInv, NEW h \in Handlers, Updates(h)
  PROVE  PlugInv'
<1>1. PICK r, u :
        /\ r \in devices /\ r.id = req[h].row.id /\ devices' = (devices \ {r}) \cup {u}
        /\ u.id = r.id /\ u.net = r.net
        /\ req[h].kind = "stop" => u.ctr = r.ctr
        /\ req[h].kind \in Runs => \E m \in req[h].made : u.ctr = m.ctr
  BY RowUpdated
<1>2. /\ req[h].kind \in Runs \cup {"stop"} /\ docker' = docker /\ networks' = networks
      /\ Turns(h, Idle) /\ HasRow(h)
  BY DEF Updates, HasRow, Operations
<1>3. /\ req'[h].made = {} /\ req'[h].kind # "create" /\ ~HasRow(h)'
      /\ \A g \in Handlers \ {h} : req'[g] = req[g]
      /\ \A g \in Handlers : HasRow(g)' => HasRow(g) /\ req'[g] = req[g]
  BY <1>2, IdleOK DEF Turns, Operations, Runs, HasRow
<1> HIDE DEF HasRow
<1>4. Plugged(u, docker)
  <2>1. CASE req[h].kind = "stop"
    BY <1>1, <2>1 DEF PlugInv, RowsPlugged, Plugged
  <2>2. CASE req[h].kind \in Runs
    <3> SUFFICES ASSUME u.ctr \in Running(docker)
                 PROVE  \E e \in docker.ends : e.ctr = u.ctr /\ e.net = u.net
      BY DEF Plugged
    <3>1. PICK m \in req[h].made : u.ctr = m.ctr
      BY <1>1, <2>2
    <3>2. PICK e \in docker.ends : e.ctr = m.ctr /\ e.net = m.net
      BY <3>1 DEF PlugInv, RowsPlugged, Plugged
    <3>3. m.net = req[h].row.net /\ m.net \in Networks(docker)
      BY <2>2, <3>1, <3>2 DEF IdInv, StartsOwn, DevType, DockerOK
    <3>4. r.net = req[h].row.net
      BY <1>1, <1>2, <3>3 DEF PlugInv, NetsRead, RowsOf
    <3>5. QED BY <1>1, <3>1, <3>2, <3>3, <3>4
  <2>3. QED BY <1>2, <2>1, <2>2
<1>5. RowsPlugged'
  BY <1>1, <1>2, <1>3, <1>4 DEF PlugInv, RowsPlugged
<1>6. NetsKept'
  BY <1>1, <1>2, <1>3 DEF PlugInv, NetsKept, HasNetwork
<1>7. NetsRead'
  BY <1>1, <1>2, <1>3 DEF PlugInv, NetsRead, RowsOf
<1>8. QED BY <1>5, <1>6, <1>7 DEF PlugInv

LEMMA PlugsKept ==
  ASSUME DevType, DevType', StartsMake, IdInv, PlugInv, NetsGone, NEW h \in Handlers, Effect(h)
  PROVE  PlugInv'
  BY PlugsSteps, PlugsInsert, PlugsRun, PlugsCreate, PlugsTake, PlugsStart, PlugsUpdate DEF Effect

LEMMA PlugsInitially == Init => PlugInv
<1> SUFFICES ASSUME Init PROVE PlugInv
  OBVIOUS
<1>1. \A h \in Handlers : req[h].kind = "idle" /\ req[h].made = {} /\ ~HasRow(h)
  BY IdleOK DEF Init, HasRow, Operations, Runs
<1>2. InitDevices \in Nat
  BY DevicesAssumption
<1>3. \A r \in devices : r.net = 1 /\ \E i \in 1..InitDevices : r.ctr = i + 1
  BY DEF Init, InitRow
<1>4. CASE InitDevices = 0
  BY <1>1, <1>2, <1>3, <1>4 DEF PlugInv, RowsPlugged, NetsKept, NetsRead
<1>5. CASE InitDevices # 0
  <2>1. InitNet \in networks /\ InitNet.net = 1
    BY <1>5 DEF Init, InitNet
  <2>2. \A i \in 1..InitDevices : \E e \in docker.ends : e.ctr = i + 1 /\ e.net = 1
    <3> DEFINE end(i) == [ctr |-> i + 1, net |-> 1, ip |-> LabBase[FirstLab] + 1 + i]
    <3>1. docker.ends = {end(i) : i \in 1..InitDevices}
      BY <1>5 DEF Init
    <3>2. \A i : end(i).ctr = i + 1 /\ end(i).net = 1
      OBVIOUS
    <3> HIDE DEF end
    <3>3. QED BY <3>1, <3>2
  <2>3. RowsPlugged
    BY <1>1, <1>3, <2>2 DEF RowsPlugged, Plugged
  <2>4. QED BY <1>1, <1>3, <2>1, <2>3 DEF PlugInv, NetsKept, NetsRead, HasNetwork
<1>6. QED BY <1>4, <1>5

LEMMA NetsAreGone == NetInv => NetsGone
<1> SUFFICES ASSUME NetInv PROVE NetsGone
  OBVIOUS
<1>1. \A n \in networks : KnownAs(n.net, n.name)
  BY DEF KnownAs
<1>2. QED BY <1>1 DEF NetInv, DroppedGone, Dropping, IdsKnown, NetsGone

LEMMA PlugsAlways == DeviceSpec => []PlugInv
<1>1. DevType /\ DevType' /\ StartsMake /\ IdInv /\ NetsGone /\ PlugInv /\ [DeviceNext]_labVars
        => PlugInv'
  <2>1. ASSUME DevType, DevType', StartsMake, IdInv, NetsGone, PlugInv, NEW h \in Handlers,
               DeviceRequest(h) \/ DeviceStep(h)
        PROVE  PlugInv'
    BY <2>1, DeviceEffects, PlugsKept
  <2>2. ASSUME PlugInv, UNCHANGED labVars PROVE PlugInv'
    BY <2>2 DEF PlugInv, RowsPlugged, Plugged, NetsKept, NetsRead, HasNetwork, HasRow, RowsOf,
       Running, Networks, labVars, rows
  <2>3. QED BY <2>1, <2>2 DEF DeviceNext
<1>2. QED BY <1>1, PlugsInitially, NetsAreGone, NetInvAlways, TypeAlways, IdsAlways, PTL
          DEF DeviceSpec

LEMMA RunningFollows == DevType /\ PlugInv => RunningHasNetwork
<1> SUFFICES ASSUME DevType, PlugInv, NEW r \in devices, r.ctr \in Running(docker)
             PROVE  HasNetwork(r) /\ r.net \in Networks(docker)
  BY DEF RunningHasNetwork
<1>1. PICK e \in docker.ends : e.ctr = r.ctr /\ e.net = r.net
  BY DEF PlugInv, RowsPlugged, Plugged
<1>2. r.net \in Networks(docker) /\ r.net \in Nat
  BY <1>1 DEF DevType, DockerOK, DockerType, Endpoint
<1>3. r.net # None
  BY <1>2, DevicesAssumption
<1>4. QED BY <1>2, <1>3 DEF PlugInv, NetsKept

\* A running device keeps the network it runs on, row and Docker network both,
\* whatever deletes of networks race with starts and creates.
THEOREM RunningAlwaysHasNetwork == DeviceSpec => []RunningHasNetwork
BY RunningFollows, PlugsAlways, TypeAlways, PTL

-----------------------------------------------------------------------------
(* Agents and rows.  A container runs for a row or a request that knows it, *)
(* and a running row has its container, unless something failed half way or *)
(* two requests met.  Whatever handles the containers of a device leaves    *)
(* those of every other alone, so only a handler's own device is in doubt.  *)

\* What a start has made runs when it commits, and alone.
StartsRun ==
  \A h \in Handlers : req[h].kind \in Runs /\ req[h].row.id \notin raced =>
    \A m \in req[h].made :
      /\ m.ctr \in Running(docker)
      /\ \A c \in docker.ctrs : c.dev = m.id /\ c.up => c.id = m.ctr

CreatesRun ==
  \A h \in Handlers : req[h].kind = "create" =>
    \A m \in req[h].made : m.ctr \in Running(docker) \/ (m.ctr = 0 /\ m.status = "stopped")

\* A stop that will not touch the status will not touch the row's container.
StopsSee ==
  \A h \in Handlers : req[h].kind = "stop" /\ req[h].row.status = "stopped" =>
    \A r \in devices : r.id = req[h].row.id /\ r.status = "running" => r.ctr # req[h].row.ctr

\* A delete knows the container of the row it deletes, and has removed it.
DeletesSee ==
  \A h \in Handlers : req[h].kind = "delete" =>
    /\ req[h].row.id \notin raced =>
         \A r \in devices : r.id = req[h].row.id => r.ctr = req[h].row.ctr
    /\ req[h].pc = "commit" => req[h].row.ctr \notin Containers(docker)

\* The handler's commit will set the row right, or its failure put it on record.
Settles(h, id) ==
  /\ HasRow(h) /\ req[h].pc = "commit" /\ req[h].row.id = id
  /\ req[h].kind = "stop" => req[h].row.status # "stopped"

RowsBacked ==
  \A r \in devices : r.status = "running" =>
    \/ r.ctr \in Running(docker) \/ r.id \in failed \cup raced
    \/ \E h \in Handlers : Settles(h, r.id)

LifeInv == StartsRun /\ CreatesRun /\ StopsSee /\ DeletesSee /\ RowsBacked /\ OrphansExplained

\* What the first four say of one hand.
Lives(h) ==
  /\ req[h].kind \in Runs /\ req[h].row.id \notin raced =>
       \A m \in req[h].made :
         /\ m.ctr \in Running(docker)
         /\ \A c \in docker.ctrs : c.dev = m.id /\ c.up => c.id = m.ctr
  /\ req[h].kind = "create" =>
       \A m \in req[h].made : m.ctr \in Running(docker) \/ (m.ctr = 0 /\ m.status = "stopped")
  /\ req[h].kind = "stop" /\ req[h].row.status = "stopped" =>
       \A r \in devices : r.id = req[h].row.id /\ r.status = "running" => r.ctr # req[h].row.ctr
  /\ req[h].kind = "delete" =>
       /\ req[h].row.id \notin raced =>
            \A r \in devices : r.id = req[h].row.id => r.ctr = req[h].row.ctr
       /\ req[h].pc = "commit" => req[h].row.ctr \notin Containers(docker)

LEMMA HandsLive == ASSUME LifeInv, NEW g \in Handlers PROVE Lives(g)
  BY DEF LifeInv, StartsRun, CreatesRun, StopsSee, DeletesSee, Lives

LEMMA LifeShown ==
  ASSUME \A g \in Handlers : Lives(g)', RowsBacked', OrphansExplained' PROVE LifeInv'
  BY DEF LifeInv, StartsRun, CreatesRun, StopsSee, DeletesSee, Lives

LEMMA IdleLives == ASSUME NEW h \in Handlers, req'[h] = Idle PROVE Lives(h)'
  BY IdleOK DEF Lives, Runs

\* Only the containers of dev change.
OnlyOf(dev) ==
  /\ \A c \in docker.ctrs : c.dev # dev => c \in docker'.ctrs
  /\ \A c \in docker'.ctrs : c \in docker.ctrs \/ (c.id = docker.next /\ c.dev = dev)

LEMMA HandledOnly ==
  ASSUME DevType, NEW row \in DeviceRow, RowKnown(row, docker, lastId), NEW comm, NEW net,
         NEW gone \in {0, row.ctr}, Handled(docker, docker', row.id, comm, net, gone)
  PROVE  OnlyOf(row.id)
<1>1. \A c \in docker.ctrs : c.id # 0 /\ (c.id = row.ctr => c.dev = row.id)
  BY DEF DevType, DockerOK, RowKnown
<1>2. \A c \in docker.ctrs : c \in docker'.ctrs \/ c.dev = row.id
  BY <1>1 DEF Handled
<1>3. QED BY <1>2 DEF Handled, OnlyOf

LEMMA RunsOn ==
  ASSUME NEW dev, OnlyOf(dev), NEW x, RowKnown(x, docker, lastId), x.id # dev,
         x.ctr \in Running(docker)
  PROVE  x.ctr \in Running(docker')
  BY DEF OnlyOf, RowKnown, Running

\* Steps that leave containers and what is on record alone.
HandsStay ==
  \A g \in Handlers :
    \/ /\ req'[g].kind = req[g].kind /\ req'[g].row = req[g].row
       /\ req'[g].made = req[g].made /\ req'[g].pc = req[g].pc
    \/ /\ req'[g].kind \notin Operations /\ req'[g].made = {}
       /\ req[g].kind \notin Operations /\ req[g].made = {}

RowsSame ==
  /\ \A r \in devices' : \E s \in devices : r.id = s.id /\ r.ctr = s.ctr /\ r.status = s.status
  /\ \A s \in devices : \E r \in devices' : r.id = s.id /\ r.ctr = s.ctr

LEMMA LifeHeld ==
  ASSUME DevType, DevType', IdInv, LifeInv, HandsStay, RowsSame, docker'.ctrs = docker.ctrs,
         failed \subseteq failed', UNCHANGED raced
  PROVE  LifeInv'
<1>1. Running(docker') = Running(docker) /\ Containers(docker') = Containers(docker)
  BY DEF Running, Containers
<1>2. StartsRun'
  BY <1>1 DEF LifeInv, StartsRun, HandsStay
<1>3. CreatesRun'
  BY <1>1 DEF LifeInv, CreatesRun, HandsStay
<1>4. StopsSee'
  <2>1. ASSUME NEW g \in Handlers, req'[g].kind = "stop", req'[g].row.status = "stopped",
               NEW r \in devices', r.id = req'[g].row.id, r.status = "running"
        PROVE  r.ctr # req'[g].row.ctr
    <3>1. req[g].kind = "stop" /\ req[g].row = req'[g].row
      BY <2>1 DEF HandsStay, Operations
    <3>2. PICK s \in devices : r.id = s.id /\ r.ctr = s.ctr /\ r.status = s.status
      BY DEF RowsSame
    <3>3. QED BY <2>1, <3>1, <3>2 DEF LifeInv, StopsSee
  <2>2. QED BY <2>1 DEF StopsSee
<1>5. DeletesSee'
  <2>1. ASSUME NEW g \in Handlers, req'[g].kind = "delete"
        PROVE  /\ req'[g].row.id \notin raced =>
                    \A r \in devices' : r.id = req'[g].row.id => r.ctr = req'[g].row.ctr
               /\ req'[g].pc = "commit" => req'[g].row.ctr \notin Containers(docker')
    <3>1. req[g].kind = "delete" /\ req[g].row = req'[g].row /\ req[g].pc = req'[g].pc
      BY <2>1 DEF HandsStay, Operations
    <3>2. \A r \in devices' : \E s \in devices : r.id = s.id /\ r.ctr = s.ctr
      BY DEF RowsSame
    <3>3. QED BY <1>1, <2>1, <3>1, <3>2 DEF LifeInv, DeletesSee
  <2>2. QED BY <2>1 DEF DeletesSee
<1>6. RowsBacked'
  <2>1. \A g \in Handlers : \A id : Settles(g, id) => Settles(g, id)'
    BY DEF Settles, HasRow, HandsStay
  <2>2. ASSUME NEW r \in devices', r.status = "running"
        PROVE  \/ r.ctr \in Running(docker') \/ r.id \in failed \cup raced
               \/ \E g \in Handlers : Settles(g, r.id)'
    <3>1. PICK s \in devices : r.id = s.id /\ r.ctr = s.ctr /\ r.status = s.status
      BY DEF RowsSame
    <3>2. QED BY <1>1, <2>1, <2>2, <3>1 DEF LifeInv, RowsBacked
  <2>3. QED BY <2>2 DEF RowsBacked
<1>7. OrphansExplained'
  <2>1. \A c : Owned(c) => Owned(c)'
    BY DEF Owned, RowsSame
  <2>2. \A c : InHand(c) => InHand(c)'
    BY DEF InHand, HandsStay
  <2>3. QED BY <2>1, <2>2 DEF LifeInv, OrphansExplained
<1>8. QED BY <1>2, <1>3, <1>4, <1>5, <1>6, <1>7 DEF LifeInv

LEMMA LifeSteps ==
  ASSUME DevType, DevType', IdInv, LifeInv, NEW h \in Handlers,
         Quiet(h) \/ Detaches(h) \/ Patches(h)
  PROVE  LifeInv'
<1>1. \A g \in Handlers :
        req[g].kind \in Quietly => req[g].made = {} /\ req[g].kind \notin Operations
  BY DEF DevType, HandsOK, HandOK, Quietly, LinkKinds, Operations, Runs
<1>2. ASSUME NEW r, Turns(h, r), r.kind \notin Operations, r.made = {}, req[h].kind \in Quietly
      PROVE  HandsStay
  BY <1>1, <1>2 DEF Turns, HandsStay
<1>3. Idle.kind \notin Operations /\ Idle.made = {}
  BY IdleOK DEF Operations, Runs
<1>4. CASE Quiet(h)
  <2>1. HandsStay
    BY <1>2, <1>4 DEF Quiet
  <2>2. RowsSame /\ docker'.ctrs = docker.ctrs /\ failed \subseteq failed' /\ UNCHANGED raced
    BY <1>4 DEF Quiet, RowsSame
  <2>3. QED BY <2>1, <2>2, LifeHeld
<1>5. CASE Detaches(h)
  <2>1. HandsStay
    BY <1>2, <1>3, <1>5 DEF Detaches, Quietly, LinkKinds
  <2> DEFINE f(r) == IF r.net = req[h].lab.net THEN [r EXCEPT !.net = None] ELSE r
  <2>2. devices' = {f(r) : r \in devices} /\ docker' = docker /\ UNCHANGED <<failed, raced>>
    BY <1>5 DEF Detaches
  <2>3. \A r \in devices : f(r).id = r.id /\ f(r).ctr = r.ctr /\ f(r).status = r.status
    BY DEF DevType, DeviceRow
  <2> HIDE DEF f
  <2>4. RowsSame
    BY <2>2, <2>3 DEF RowsSame
  <2>5. QED BY <2>1, <2>2, <2>4, LifeHeld
<1>6. CASE Patches(h)
  <2>1. \A g \in Handlers : DOMAIN req[g] = DOMAIN Idle
    BY DEF DevType, HandsOK, HandOK
  <2>2. \A g \in Handlers \ {h} :
          /\ req'[g].kind = req[g].kind /\ req'[g].row = req[g].row /\ req'[g].made = req[g].made
          /\ req'[g].pc = req[g].pc
    BY <1>6, <2>1 DEF Patches, Idle
  <2>3. req'[h] = Idle /\ req[h].kind \in Quietly
    BY <1>6 DEF Patches, Quietly, LinkKinds
  <2>4. HandsStay
    BY <1>1, <1>3, <2>2, <2>3 DEF HandsStay
  <2> DEFINE f(r) == IF PatchesRow(h, r) THEN [r EXCEPT !.comm = req[h].comm] ELSE r
  <2>5. devices' = {f(r) : r \in devices} /\ docker' = docker /\ UNCHANGED <<failed, raced>>
    BY <1>6 DEF Patches
  <2>6. \A r \in devices : f(r).id = r.id /\ f(r).ctr = r.ctr /\ f(r).status = r.status
    BY DEF DevType, DeviceRow
  <2> HIDE DEF f
  <2>7. RowsSame
    BY <2>5, <2>6 DEF RowsSame
  <2>8. QED BY <2>4, <2>5, <2>7, LifeHeld
<1>7. QED BY <1>4, <1>5, <1>6

\* When h handles its containers, the other hands' stay as they are.
LEMMA OthersLive ==
  ASSUME DevType, DevType', IdInv, LifeInv, NEW h \in Handlers, NEW g \in Handlers \ {h},
         OnlyOf(req[h].row.id), req'[g] = req[g], devices' = devices, raced' = raced,
         \/ req[h].kind \in Runs \cup {"delete"}
         \/ req[h].kind = "create" /\ req[h].pc = "run"
         \/ /\ req[h].kind = "stop" /\ docker'.ctrs \subseteq docker.ctrs
            /\ \A c \in docker.ctrs : c.id # req[h].row.ctr => c \in docker'.ctrs
  PROVE  Lives(g)'
<1> DEFINE dev == req[h].row.id
<1>1. \A m \in req[g].made : RowKnown(m, docker, lastId)
  BY DEF IdInv, RowsKnown
<1>2. \A m \in req[g].made : m.id # dev /\ m.ctr \in Running(docker) => m.ctr \in Running(docker')
  BY <1>1, RunsOn
<1>3. ASSUME req[g].kind \in Runs, req[g].row.id \notin raced, NEW m \in req[g].made
      PROVE  /\ m.ctr \in Running(docker')
             /\ \A c \in docker'.ctrs : c.dev = m.id /\ c.up => c.id = m.ctr
  <2>1. /\ m.id = req[g].row.id /\ m.ctr \in Running(docker) /\ HasRow(g)
        /\ \A c \in docker.ctrs : c.dev = m.id /\ c.up => c.id = m.ctr
    BY <1>3 DEF LifeInv, StartsRun, IdInv, StartsOwn, HasRow, Operations
  <2>2. CASE req[h].kind \in Runs \cup {"delete"}
    <3>1. m.id # dev
      BY <1>3, <2>1, <2>2 DEF IdInv, RacesSeen
    <3>2. QED BY <1>2, <2>1, <3>1 DEF OnlyOf
  <2>3. CASE req[h].kind = "create" /\ req[h].pc = "run"
    <3>1. m.id # dev
      BY <1>3, <2>1, <2>3 DEF IdInv, CreatesOwn
    <3>2. QED BY <1>2, <2>1, <3>1 DEF OnlyOf
  <2>4. CASE /\ req[h].kind = "stop" /\ docker'.ctrs \subseteq docker.ctrs
             /\ \A c \in docker.ctrs : c.id # req[h].row.ctr => c \in docker'.ctrs
    <3>1. m.ctr # req[h].row.ctr
      BY <1>3, <2>4 DEF IdInv, StartsOwn, HasRow, Operations
    <3>2. QED BY <2>1, <2>4, <3>1 DEF Running
  <2>5. QED BY <2>2, <2>3, <2>4
<1>4. ASSUME req[g].kind = "create", NEW m \in req[g].made
      PROVE  m.ctr \in Running(docker') \/ (m.ctr = 0 /\ m.status = "stopped")
  <2>1. m.id # dev
    <3>1. CASE HasRow(h)
      BY <1>4, <3>1 DEF IdInv, CreatesOwn
    <3>2. CASE req[h].kind = "create" /\ req[h].pc = "run"
      BY <1>4, <3>2 DEF IdInv, CreatesOwn
    <3>3. QED BY <3>1, <3>2 DEF HasRow, Operations
  <2>2. QED BY <1>2, <1>4, <2>1 DEF LifeInv, CreatesRun
<1>5. ASSUME req[g].kind = "delete", req[g].pc = "commit"
      PROVE  req[g].row.ctr \notin Containers(docker')
  <2>1. req[g].row.ctr \notin Containers(docker) /\ HasRow(g)
    BY <1>5 DEF LifeInv, DeletesSee, HasRow, Operations
  <2>2. req[g].row.ctr # docker.next
    BY <2>1, HandRows DEF IdInv, RowsKnown, RowKnown, DeviceRow
  <2>3. QED BY <2>1, <2>2 DEF OnlyOf, Containers
<1>6. QED BY <1>3, <1>4, <1>5, HandsLive DEF Lives

LEMMA RowsRunOn ==
  ASSUME DevType, IdInv, LifeInv, NEW dev, OnlyOf(dev), NEW r \in devices, r.id # dev,
         r.ctr \in Running(docker)
  PROVE  r.ctr \in Running(docker')
  BY RunsOn DEF IdInv, RowsKnown

LEMMA LifeFail ==
  ASSUME DevType, DevType', IdInv, LifeInv, NEW h \in Handlers, Fails(h) PROVE LifeInv'
<1> DEFINE dev == req[h].row.id
<1>1. /\ req'[h] = Idle /\ \A g \in Handlers \ {h} : req'[g] = req[g]
      /\ devices' = devices /\ raced' = raced /\ failed \subseteq failed'
      /\ req[h].kind \in {"create"} \cup Operations
  BY DEF Fails, Turns
<1>2. Idle.kind = "idle" /\ Idle.made = {}
  BY IdleOK
<1>3. CASE docker' = docker
  <2>1. \A g \in Handlers : Lives(g)'
    <3>1. \A g \in Handlers \ {h} : Lives(g)'
      BY <1>1, <1>3, HandsLive DEF Lives
    <3>2. QED BY <1>1, <3>1, IdleLives
  <2>2. RowsBacked'
    <3>1. \A g \in Handlers \ {h} : \A id : Settles(g, id) => Settles(g, id)'
      BY <1>1 DEF Settles, HasRow
    <3>2. \A id : Settles(h, id) => id \in failed'
      <4>1. ASSUME NEW id, Settles(h, id) PROVE id \in failed'
        <5>1. failed' = failed \cup Busy(h) /\ req[h].row # None /\ dev = id
          BY <4>1, OperateHand DEF Fails, Settles, HasRow
        <5>2. QED BY <5>1 DEF Busy
      <4>2. QED BY <4>1
    <3>3. QED BY <1>1, <1>3, <3>1, <3>2 DEF LifeInv, RowsBacked
  <2>3. OrphansExplained'
    <3>1. \A c \in docker.ctrs : InHand(c) => InHand(c)' \/ c.dev \in failed'
      <4>1. ASSUME NEW c \in docker.ctrs, NEW m \in req[h].made, m.ctr = c.id
            PROVE  c.dev \in failed'
        <5>1. c.dev = m.id
          BY <4>1 DEF IdInv, RowsKnown, RowKnown
        <5>2. failed' = failed \cup Busy(h)
          BY <4>1 DEF Fails, IdInv, StartsOwn, HasRow
        <5>3. QED BY <5>1, <5>2 DEF Busy
      <4>2. QED BY <1>1, <4>1 DEF InHand
    <3>2. \A c : Owned(c) => Owned(c)'
      BY <1>1 DEF Owned
    <3>3. QED BY <1>1, <1>3, <3>1, <3>2 DEF LifeInv, OrphansExplained
  <2>4. QED BY <2>1, <2>2, <2>3, LifeShown
<1>4. CASE docker' # docker
  <2>1. /\ req[h].row \in DeviceRow /\ RowKnown(req[h].row, docker, lastId)
        /\ OnlyOf(dev) /\ req[h].row # None
        /\ req[h].kind \in Runs \/ (req[h].kind = "create" /\ req[h].pc = "run")
    <3>1. CASE /\ req[h].kind = "create" /\ req[h].pc = "run"
               /\ Handled(docker, docker', req[h].row.id, req[h].row.comm, req[h].lab.net, 0)
      <4>1. req[h].row \in DeviceRow /\ RowKnown(req[h].row, docker, lastId)
        BY <3>1, HandRows DEF IdInv, CreatesOwn, RowsKnown
      <4>2. QED BY <3>1, <4>1, HandledOnly, NoneAssumption
    <3>2. CASE /\ req[h].kind \in Runs
               /\ Handled(docker, docker', req[h].row.id, req[h].row.comm, req[h].row.net,
                          req[h].row.ctr)
      <4>1. req[h].row \in DeviceRow /\ RowKnown(req[h].row, docker, lastId)
        BY <3>2, HandRows DEF IdInv, RowsKnown, HasRow, Operations
      <4>2. QED BY <3>2, <4>1, HandledOnly, NoneAssumption
    <3>3. QED BY <1>4, <3>1, <3>2 DEF Fails
  <2>2. failed' = failed \cup Busy(h) /\ dev \in failed' /\ \A m \in req[h].made : m.id \in failed'
    <3>1. failed' = failed \cup Busy(h)
      BY <1>4 DEF Fails
    <3>2. QED BY <2>1, <3>1 DEF Busy
  <2>3. \A g \in Handlers : Lives(g)'
    <3>1. \A g \in Handlers \ {h} : Lives(g)'
      BY <1>1, <2>1, OthersLive
    <3>2. QED BY <1>1, <3>1, IdleLives
  <2>4. RowsBacked'
    <3>1. \A g \in Handlers : \A id : id # dev /\ Settles(g, id) => Settles(g, id)'
      BY <1>1 DEF Settles, HasRow
    <3>2. \A r \in devices : r.id # dev /\ r.ctr \in Running(docker) => r.ctr \in Running(docker')
      BY <2>1, RowsRunOn
    <3>3. QED BY <1>1, <2>2, <3>1, <3>2 DEF LifeInv, RowsBacked
  <2>5. OrphansExplained'
    <3>1. \A c \in docker.ctrs : InHand(c) => InHand(c)' \/ c.dev \in failed'
      <4>1. ASSUME NEW c \in docker.ctrs, NEW m \in req[h].made, m.ctr = c.id
            PROVE  c.dev \in failed'
        BY <2>2, <4>1 DEF IdInv, RowsKnown, RowKnown
      <4>2. QED BY <1>1, <4>1 DEF InHand
    <3>2. \A c : Owned(c) => Owned(c)'
      BY <1>1 DEF Owned
    <3>3. \A c \in docker'.ctrs : c \in docker.ctrs \/ c.dev \in failed'
      BY <2>1, <2>2 DEF OnlyOf
    <3>4. QED BY <1>1, <3>1, <3>2, <3>3 DEF LifeInv, OrphansExplained
  <2>6. QED BY <2>3, <2>4, <2>5, LifeShown
<1>5. QED BY <1>3, <1>4

LEMMA LifeInsert ==
  ASSUME DevType, DevType', IdInv, LifeInv, NEW h \in Handlers, Inserts(h) PROVE LifeInv'
<1>1. PICK r, new : /\ Turns(h, r) /\ r.kind = "create" /\ r.made = req[h].made \cup {new}
                    /\ new.ctr = 0 /\ new.status = "stopped"
  BY DEF Inserts
<1>2. /\ req[h].kind = "create" /\ docker' = docker /\ devices' = devices
      /\ raced' = raced /\ failed' = failed
  BY DEF Inserts
<1>3. req'[h] = r /\ \A g \in Handlers \ {h} : req'[g] = req[g]
  BY <1>1 DEF Turns
<1>4. \A g \in Handlers : Lives(g)'
  <2>1. \A g \in Handlers \ {h} : Lives(g)'
    BY <1>2, <1>3, HandsLive DEF Lives
  <2>2. Lives(h)'
    BY <1>1, <1>2, <1>3, HandsLive DEF Lives, Runs
  <2>3. QED BY <2>1, <2>2
<1>5. RowsBacked'
  <2>1. \A g \in Handlers : \A id : Settles(g, id) => Settles(g, id)'
    BY <1>2, <1>3 DEF Settles, HasRow, Operations, Runs
  <2>2. QED BY <1>2, <2>1 DEF LifeInv, RowsBacked
<1>6. OrphansExplained'
  <2>1. \A c : (Owned(c) => Owned(c)') /\ (InHand(c) => InHand(c)')
    BY <1>1, <1>2, <1>3 DEF Owned, InHand
  <2>2. QED BY <1>2, <2>1 DEF LifeInv, OrphansExplained
<1>7. QED BY <1>4, <1>5, <1>6, LifeShown

LEMMA LifeRun ==
  ASSUME DevType, DevType', IdInv, LifeInv, NEW h \in Handlers, RunsUp(h) PROVE LifeInv'
<1> DEFINE row == req[h].row
           new == Launched(row, docker.next)
<1>1. PICK r : /\ Turns(h, r) /\ r.kind = "create" /\ r.made = (req[h].made \ {row}) \cup {new}
  BY DEF RunsUp
<1>2. /\ req[h].kind = "create" /\ req[h].pc = "run" /\ lastId' = lastId
      /\ devices' = devices /\ raced' = raced /\ failed' = failed
      /\ Handled(docker, docker', row.id, row.comm, req[h].lab.net, 0)
      /\ Launches(docker, docker', row.id, row.comm)
  BY DEF RunsUp
<1>3. /\ row \in req[h].made /\ RowKnown(row, docker, lastId) /\ row \in DeviceRow /\ row.ctr = 0
      /\ \A m \in req[h].made : m.id = row.id => m = row
      /\ \A d \in devices : d.id # row.id
  BY <1>2, HandRows DEF IdInv, CreatesOwn, RowsKnown
<1>4. new.ctr = docker.next /\ new.ctr \in Running(docker')
  <2>1. new.ctr = docker.next
    BY <1>2, <1>3, NewKnown
  <2>2. QED BY <1>2, <2>1 DEF Launches, Running
<1>5. OnlyOf(row.id)
  BY <1>2, <1>3, HandledOnly
<1>6. req'[h] = r /\ \A g \in Handlers \ {h} : req'[g] = req[g]
  BY <1>1 DEF Turns
<1>7. \A m \in req[h].made : m # row /\ m.ctr \in Running(docker) => m.ctr \in Running(docker')
  BY <1>3, <1>5, RunsOn DEF IdInv, RowsKnown
<1>8. \A d \in devices : d.ctr \in Running(docker) => d.ctr \in Running(docker')
  BY <1>3, <1>5, RowsRunOn
<1>9. 0 \notin Containers(docker)
  BY DEF DevType, DockerOK, DockerType, Containers
<1> HIDE DEF new
<1>10. \A g \in Handlers : Lives(g)'
  <2>1. \A g \in Handlers \ {h} : Lives(g)'
    BY <1>2, <1>5, <1>6, OthersLive
  <2>2. \A m \in req'[h].made : m.ctr \in Running(docker') \/ (m.ctr = 0 /\ m.status = "stopped")
    BY <1>1, <1>2, <1>4, <1>6, <1>7, HandsLive DEF Lives
  <2>3. Lives(h)'
    BY <1>1, <1>6, <2>2 DEF Lives, Runs
  <2>4. QED BY <2>1, <2>3
<1>11. RowsBacked'
  <2>1. \A g \in Handlers : \A id : Settles(g, id) => Settles(g, id)'
    BY <1>2, <1>6 DEF Settles, HasRow, Operations, Runs
  <2>2. QED BY <1>2, <1>8, <2>1 DEF LifeInv, RowsBacked
<1>12. OrphansExplained'
  <2>1. \A c \in docker.ctrs : InHand(c) => InHand(c)'
    <3>1. \A c \in docker.ctrs : c.id # row.ctr
      BY <1>3, <1>9 DEF Containers
    <3> HIDE DEF row
    <3>2. QED BY <1>1, <1>6, <3>1 DEF InHand
  <2>2. \A c : Owned(c) => Owned(c)'
    BY <1>2 DEF Owned
  <2>3. \A c : c.id = docker.next => InHand(c)'
    BY <1>1, <1>4, <1>6 DEF InHand
  <2>4. QED BY <1>2, <1>5, <2>1, <2>2, <2>3 DEF LifeInv, OrphansExplained, OnlyOf
<1>13. QED BY <1>10, <1>11, <1>12, LifeShown

LEMMA LifeStart ==
  ASSUME DevType, DevType', IdInv, LifeInv, NEW h \in Handlers, Starts(h) PROVE LifeInv'
<1> DEFINE row == req[h].row
           new == Launched(row, docker.next)
<1>1. PICK r : /\ Turns(h, r) /\ r.kind = req[h].kind /\ r.pc = "commit" /\ r.row = row
               /\ r.made = {new}
  BY DEF Starts
<1>2. /\ req[h].kind \in Runs /\ req[h].pc = "docker" /\ lastId' = lastId
      /\ devices' = devices /\ raced' = raced /\ failed' = failed
      /\ Handled(docker, docker', row.id, row.comm, row.net, row.ctr)
      /\ Launches(docker, docker', row.id, row.comm)
  BY DEF Starts
<1>3. RowKnown(row, docker, lastId) /\ row \in DeviceRow /\ req[h].made = {} /\ HasRow(h)
  BY <1>2, HandRows DEF IdInv, RowsKnown, HasRow, Operations, StartsOwn
<1>4. /\ new.ctr = docker.next /\ new.id = row.id /\ new.ctr \in Running(docker')
      /\ \A c \in docker'.ctrs : c.dev = row.id => c.id = new.ctr
  <2>1. new.ctr = docker.next /\ new.id = row.id
    BY <1>2, <1>3, NewKnown
  <2>2. QED BY <1>2, <2>1 DEF Launches, Running
<1>5. OnlyOf(row.id)
  BY <1>2, <1>3, HandledOnly
<1>6. req'[h] = r /\ \A g \in Handlers \ {h} : req'[g] = req[g]
  BY <1>1 DEF Turns
<1> HIDE DEF new
<1>7. \A g \in Handlers : Lives(g)'
  <2>1. \A g \in Handlers \ {h} : Lives(g)'
    BY <1>2, <1>5, <1>6, OthersLive
  <2>2. Lives(h)'
    BY <1>1, <1>2, <1>4, <1>6 DEF Lives, Runs
  <2>3. QED BY <2>1, <2>2
<1>8. RowsBacked'
  <2>1. \A g \in Handlers : \A id : Settles(g, id) => Settles(g, id)'
    BY <1>1, <1>2, <1>6 DEF Settles, HasRow
  <2>2. \A id : id = row.id => Settles(h, id)'
    BY <1>1, <1>2, <1>6 DEF Settles, HasRow, Operations, Runs
  <2>3. \A d \in devices : d.id # row.id /\ d.ctr \in Running(docker) => d.ctr \in Running(docker')
    BY <1>5, RowsRunOn
  <2>4. QED BY <1>2, <2>1, <2>2, <2>3 DEF LifeInv, RowsBacked
<1>9. OrphansExplained'
  <2>1. \A c : (Owned(c) => Owned(c)') /\ (InHand(c) => InHand(c)')
    BY <1>2, <1>3, <1>6 DEF Owned, InHand
  <2>2. \A c : c.id = docker.next => InHand(c)'
    BY <1>1, <1>4, <1>6 DEF InHand
  <2>3. QED BY <1>2, <1>5, <2>1, <2>2 DEF LifeInv, OrphansExplained, OnlyOf
<1>10. QED BY <1>7, <1>8, <1>9, LifeShown

LEMMA LifeStop ==
  ASSUME DevType, DevType', IdInv, LifeInv, NEW h \in Handlers, Stops(h) PROVE LifeInv'
<1> DEFINE row == req[h].row
<1>1. PICK r : /\ Turns(h, r) /\ r.kind = req[h].kind /\ r.pc = "commit" /\ r.row = row
               /\ r.made = req[h].made
  BY DEF Stops
<1>2. /\ req[h].kind \in {"stop", "delete"} /\ req[h].pc = "docker" /\ lastId' = lastId
      /\ devices' = devices /\ raced' = raced /\ failed' = failed
      /\ Handled(docker, docker', row.id, row.comm, row.net, row.ctr)
      /\ docker'.next = docker.next /\ row.ctr \notin Containers(docker')
      /\ \A c \in docker.ctrs : c.id # row.ctr => c \in docker'.ctrs
  BY DEF Stops
<1>3. RowKnown(row, docker, lastId) /\ row \in DeviceRow /\ req[h].made = {} /\ HasRow(h)
  BY <1>2, HandRows DEF IdInv, RowsKnown, HasRow, Operations, StartsOwn, Runs
<1>4. docker'.ctrs \subseteq docker.ctrs
  BY <1>2, HandRows DEF Handled
<1>5. OnlyOf(row.id)
  BY <1>2, <1>3, HandledOnly
<1>6. req'[h] = r /\ \A g \in Handlers \ {h} : req'[g] = req[g]
  BY <1>1 DEF Turns
<1>7. \A g \in Handlers : Lives(g)'
  <2>1. \A g \in Handlers \ {h} : Lives(g)'
    BY <1>2, <1>4, <1>5, <1>6, OthersLive
  <2>2. Lives(h)'
    BY <1>1, <1>2, <1>6, HandsLive DEF Lives, Runs
  <2>3. QED BY <2>1, <2>2
<1>8. RowsBacked'
  <2>1. \A g \in Handlers : \A id : Settles(g, id) => Settles(g, id)'
    BY <1>1, <1>2, <1>6 DEF Settles, HasRow
  <2>2. \A d \in devices :
          d.ctr # row.ctr /\ d.ctr \in Running(docker) => d.ctr \in Running(docker')
    BY <1>2 DEF Running
  <2>3. \A d \in devices : d.id # row.id /\ d.ctr \in Running(docker) => d.ctr \in Running(docker')
    BY <1>5, RowsRunOn
  <2>4. CASE req[h].kind = "stop" /\ row.status = "stopped"
    <3>1. \A d \in devices : d.id = row.id /\ d.status = "running" => d.ctr # row.ctr
      BY <2>4, HandsLive DEF Lives
    <3>2. QED BY <1>2, <2>1, <2>2, <2>3, <3>1 DEF LifeInv, RowsBacked
  <2>5. CASE ~(req[h].kind = "stop" /\ row.status = "stopped")
    <3>1. \A id : id = row.id => Settles(h, id)'
      BY <1>1, <1>2, <1>6, <2>5 DEF Settles, HasRow, Operations
    <3>2. QED BY <1>2, <2>1, <2>3, <3>1 DEF LifeInv, RowsBacked
  <2>6. QED BY <2>4, <2>5
<1>9. OrphansExplained'
  <2>1. \A c : (Owned(c) => Owned(c)') /\ (InHand(c) => InHand(c)')
    BY <1>2, <1>3, <1>6 DEF Owned, InHand
  <2>2. QED BY <1>2, <1>4, <2>1 DEF LifeInv, OrphansExplained
<1>10. QED BY <1>7, <1>8, <1>9, LifeShown

LEMMA LifeCreate ==
  ASSUME DevType, DevType', IdInv, LifeInv, NEW h \in Handlers, Creates(h) PROVE LifeInv'
<1>1. /\ req[h].kind = "create" /\ devices' = devices \cup req[h].made /\ docker' = docker
      /\ raced' = raced /\ failed' = failed
      /\ req'[h] = Idle /\ \A g \in Handlers \ {h} : req'[g] = req[g]
  BY DEF Creates, Turns
<1>2. \A m \in req[h].made :
        /\ \A g \in Handlers : HasRow(g) => req[g].row.id # m.id
        /\ m.ctr \in Running(docker) \/ (m.ctr = 0 /\ m.status = "stopped")
        /\ \A c \in docker.ctrs : c.id = m.ctr => c.dev = m.id
  BY <1>1, HandsLive DEF Lives, IdInv, CreatesOwn, RowsKnown, RowKnown
<1>3. \A g \in Handlers : Lives(g)'
  <2>1. ASSUME NEW g \in Handlers \ {h} PROVE Lives(g)'
    <3>1. Lives(g)
      BY HandsLive
    <3>2. HasRow(g) => \A d \in devices' : d.id = req[g].row.id => d \in devices
      BY <1>1, <1>2
    <3>3. req[g].kind \in {"stop", "delete"} => HasRow(g)
      BY DEF HasRow, Operations
    <3>4. QED BY <1>1, <3>1, <3>2, <3>3 DEF Lives
  <2>2. QED BY <1>1, <2>1, IdleLives
<1>4. RowsBacked'
  <2>1. \A g \in Handlers : \A id : Settles(g, id) => Settles(g, id)'
    BY <1>1 DEF Settles, HasRow, Operations, Runs
  <2>2. \A m \in req[h].made : m.status = "running" => m.ctr \in Running(docker)
    BY <1>2
  <2>3. QED BY <1>1, <2>1, <2>2 DEF LifeInv, RowsBacked
<1>5. OrphansExplained'
  <2>1. \A c : Owned(c) => Owned(c)'
    BY <1>1 DEF Owned
  <2>2. \A c \in docker.ctrs : InHand(c) => InHand(c)' \/ Owned(c)'
    BY <1>1, <1>2 DEF InHand, Owned
  <2>3. QED BY <1>1, <2>1, <2>2 DEF LifeInv, OrphansExplained
<1>6. QED BY <1>3, <1>4, <1>5, LifeShown

LEMMA LifeTake ==
  ASSUME DevType, DevType', IdInv, LifeInv, NEW h \in Handlers, NEW kind \in Operations,
         NEW row \in devices, Takes(h, kind, row)
  PROVE  LifeInv'
<1>1. PICK r : Turns(h, r) /\ r.kind = kind /\ r.pc = "docker" /\ r.row = row /\ r.made = {}
  BY DEF Takes
<1>2. /\ req[h].kind = "idle" /\ devices' = devices /\ docker' = docker
      /\ raced \subseteq raced' /\ failed' = failed
  BY DEF Takes
<1>3. req'[h] = r /\ (\A g \in Handlers \ {h} : req'[g] = req[g]) /\ req[h].made = {}
  BY <1>1, <1>2 DEF Turns, DevType, HandsOK, HandOK, Quietly, LinkKinds
<1>4. \A d \in devices : d.id = row.id => d = row
  BY DEF IdInv, RowsKnown
<1>5. \A g \in Handlers : Lives(g)'
  <2>1. \A g \in Handlers \ {h} : Lives(g)'
    BY <1>2, <1>3, HandsLive DEF Lives
  <2>2. Lives(h)'
    BY <1>1, <1>2, <1>3, <1>4 DEF Lives, Runs, Operations
  <2>3. QED BY <2>1, <2>2
<1>6. RowsBacked'
  <2>1. \A g \in Handlers : \A id : Settles(g, id) => Settles(g, id)'
    BY <1>2, <1>3 DEF Settles, HasRow, Operations, Runs
  <2>2. QED BY <1>2, <2>1 DEF LifeInv, RowsBacked
<1>7. OrphansExplained'
  <2>1. \A c : (Owned(c) => Owned(c)') /\ (InHand(c) => InHand(c)')
    BY <1>2, <1>3 DEF Owned, InHand
  <2>2. QED BY <1>2, <2>1 DEF LifeInv, OrphansExplained
<1>8. QED BY <1>5, <1>6, <1>7, LifeShown

LEMMA LifeUpdate ==
  ASSUME DevType, DevType', StartsMake, IdInv, LifeInv, NEW h \in Handlers, Updates(h)
  PROVE  LifeInv'
<1> DEFINE row == req[h].row
<1>1. PICK r, u :
        /\ r \in devices /\ r.id = row.id /\ u \in DeviceRow
        /\ devices' = (devices \ {r}) \cup {u}
        /\ u.id = r.id
        /\ req[h].kind = "stop" =>
             /\ u.ctr = r.ctr
             /\ u.status = IF row.status # "stopped" THEN "stopped" ELSE r.status
        /\ req[h].kind \in Runs => \E m \in req[h].made :
             /\ req[h].made = {m} /\ m.id = r.id /\ u.ctr = m.ctr
  BY RowUpdated
<1>2. /\ req[h].kind \in Runs \cup {"stop"} /\ req[h].pc = "commit" /\ docker' = docker
      /\ raced' = raced /\ failed' = (IF req[h].kind \in Runs THEN failed \ {row.id} ELSE failed)
      /\ req'[h] = Idle /\ \A g \in Handlers \ {h} : req'[g] = req[g]
  BY DEF Updates, Turns
<1>3. HasRow(h) /\ \A d \in devices \ {r} : d.id # r.id
  BY <1>1, <1>2 DEF HasRow, Operations, IdInv, RowsKnown
<1>4. "stop" \notin Runs
  BY DEF Runs
\* What the row names now runs alone, if a start has made it and met nobody.
<1>5. req[h].kind \in Runs /\ row.id \notin raced =>
        u.ctr \in Running(docker) /\ \A c \in docker.ctrs : c.dev = r.id /\ c.up => c.id = u.ctr
  BY <1>1, HandsLive DEF Lives
<1>6. \A g \in Handlers : Lives(g)'
  <2>1. ASSUME NEW g \in Handlers \ {h} PROVE Lives(g)'
    <3>1. Lives(g) /\ (req[g].kind \in {"stop", "delete"} => HasRow(g))
      BY HandsLive DEF HasRow, Operations
    <3>2. ASSUME req[g].kind = "stop", req[g].row.status = "stopped", u.id = req[g].row.id,
                 u.status = "running"
          PROVE  u.ctr # req[g].row.ctr
      <4>1. CASE req[h].kind = "stop"
        BY <1>1, <3>1, <3>2, <4>1 DEF Lives
      <4>2. CASE req[h].kind \in Runs
        BY <1>1, <3>1, <3>2, <4>2 DEF IdInv, StartsOwn
      <4>3. QED BY <1>2, <4>1, <4>2
    <3>3. ASSUME req[g].kind = "delete", req[g].row.id \notin raced, u.id = req[g].row.id
          PROVE  u.ctr = req[g].row.ctr
      <4>1. CASE req[h].kind = "stop"
        BY <1>1, <3>1, <3>3, <4>1 DEF Lives
      <4>2. CASE req[h].kind \in Runs
        BY <1>1, <3>3, <4>2 DEF IdInv, RacesSeen
      <4>3. QED BY <1>2, <4>1, <4>2
    <3>4. QED BY <1>1, <1>2, <3>1, <3>2, <3>3 DEF Lives
  <2>2. QED BY <1>2, <2>1, IdleLives
<1> HIDE DEF HasRow
<1>7. RowsBacked'
  <2>1. \A g \in Handlers \ {h} : \A id : Settles(g, id) => Settles(g, id)'
    BY <1>2 DEF Settles, HasRow
  <2>2. ASSUME NEW d \in devices \ {r}, d.status = "running"
        PROVE  \/ d.ctr \in Running(docker) \/ d.id \in failed' \cup raced
               \/ \E g \in Handlers : Settles(g, d.id)'
    <3>1. d.id # row.id
      BY <1>1, <1>3
    <3>2. QED BY <1>2, <2>1, <2>2, <3>1 DEF LifeInv, RowsBacked, Settles
  <2>3. ASSUME u.status = "running"
        PROVE  \/ u.ctr \in Running(docker) \/ u.id \in failed' \cup raced
               \/ \E g \in Handlers : Settles(g, u.id)'
    <3>1. CASE req[h].kind = "stop"
      <4>1. r.status = "running" /\ u.ctr = r.ctr /\ u.id = r.id /\ ~Settles(h, r.id)
        BY <1>1, <2>3, <3>1 DEF Settles
      <4>2. QED BY <1>1, <1>2, <1>4, <2>1, <3>1, <4>1 DEF LifeInv, RowsBacked
    <3>2. CASE req[h].kind \in Runs
      BY <1>1, <1>5, <3>2
    <3>3. QED BY <1>2, <3>1, <3>2
  <2>4. QED BY <1>1, <1>2, <2>2, <2>3 DEF RowsBacked
<1>8. OrphansExplained'
  <2>1. SUFFICES ASSUME NEW c \in docker.ctrs, c.up
                 PROVE  Owned(c)' \/ InHand(c)' \/ c.dev \in failed' \cup raced
    BY <1>2 DEF OrphansExplained
  <2>2. c.dev = u.id /\ c.id = u.ctr => Owned(c)'
    BY <1>1 DEF Owned
  <2>3. CASE Owned(c)
    <3>1. PICK s \in devices : s.id = c.dev /\ s.ctr = c.id
      BY <2>3 DEF Owned
    <3>2. CASE s # r
      BY <1>1, <3>1, <3>2 DEF Owned
    <3>3. CASE s = r
      BY <1>1, <1>2, <1>5, <2>1, <2>2, <3>1, <3>3
    <3>4. QED BY <3>2, <3>3
  <2>4. CASE InHand(c)
    <3>1. PICK g \in Handlers : \E m \in req[g].made : m.ctr = c.id
      BY <2>4 DEF InHand
    <3>2. CASE g # h
      BY <1>2, <3>1, <3>2 DEF InHand
    <3>3. CASE g = h
      <4>1. req[h].kind \in Runs
        BY <1>2, <1>3, <1>4, <3>1, <3>3 DEF IdInv, StartsOwn
      <4>2. \A m \in req[h].made : m.ctr = c.id => c.dev = m.id
        BY DEF IdInv, RowsKnown, RowKnown
      <4>3. QED BY <1>1, <2>2, <3>1, <3>3, <4>1, <4>2
    <3>4. QED BY <3>2, <3>3
  <2>5. CASE c.dev \in failed \cup raced
    BY <1>1, <1>2, <1>5, <2>1, <2>2, <2>5
  <2>6. QED BY <2>1, <2>3, <2>4, <2>5 DEF LifeInv, OrphansExplained
<1>9. QED BY <1>6, <1>7, <1>8, LifeShown

LEMMA LifeDelete ==
  ASSUME DevType, DevType', IdInv, LifeInv, NEW h \in Handlers, Deletes(h) PROVE LifeInv'
<1>1. /\ req[h].kind = "delete" /\ req[h].pc = "commit" /\ docker' = docker
      /\ devices' = devices \ RowsOf(req[h].row.id) /\ raced' = raced /\ failed' = failed
      /\ req'[h] = Idle /\ \A g \in Handlers \ {h} : req'[g] = req[g]
  BY DEF Deletes, Turns
<1>2. req[h].made = {}
  BY <1>1 DEF IdInv, StartsOwn, HasRow, Operations, Runs
<1>3. \A g \in Handlers : Lives(g)'
  <2>1. \A g \in Handlers \ {h} : Lives(g)'
    BY <1>1, HandsLive DEF Lives
  <2>2. QED BY <1>1, <2>1, IdleLives
<1>4. RowsBacked'
  <2>1. \A g \in Handlers \ {h} : \A id : Settles(g, id) => Settles(g, id)'
    BY <1>1 DEF Settles, HasRow
  <2>2. \A d \in devices' : d \in devices /\ ~Settles(h, d.id)
    BY <1>1 DEF RowsOf, Settles
  <2>3. QED BY <1>1, <2>1, <2>2 DEF LifeInv, RowsBacked
<1>5. OrphansExplained'
  <2>1. \A c : InHand(c) => InHand(c)'
    BY <1>1, <1>2 DEF InHand
  <2>2. ASSUME NEW c \in docker.ctrs, Owned(c) PROVE Owned(c)' \/ c.dev \in raced
    <3>1. PICK s \in devices : s.id = c.dev /\ s.ctr = c.id
      BY <2>2 DEF Owned
    <3>2. CASE s.id # req[h].row.id
      BY <1>1, <3>1, <3>2 DEF Owned, RowsOf
    <3>3. CASE s.id = req[h].row.id
      <4>1. req[h].row.ctr # c.id
        BY <1>1, HandsLive DEF Lives, Containers
      <4>2. QED BY <1>1, <3>1, <3>3, <4>1, HandsLive DEF Lives
    <3>4. QED BY <3>2, <3>3
  <2>3. QED BY <1>1, <2>1, <2>2 DEF LifeInv, OrphansExplained
<1>6. QED BY <1>3, <1>4, <1>5, LifeShown

LEMMA LifeKept ==
  ASSUME DevType, DevType', StartsMake, IdInv, LifeInv, NEW h \in Handlers, Effect(h)
  PROVE  LifeInv'
  BY LifeSteps, LifeFail, LifeInsert, LifeRun, LifeCreate, LifeTake, LifeStop, LifeStart,
     LifeUpdate, LifeDelete DEF Effect

LEMMA LifeInitially == Init => LifeInv
<1> SUFFICES ASSUME Init PROVE LifeInv
  OBVIOUS
<1>1. \A h \in Handlers : req[h].kind = "idle" /\ req[h].made = {} /\ ~HasRow(h)
  BY IdleOK DEF Init, HasRow, Operations, Runs
<1>2. InitDevices = 0 => devices = {} /\ docker.ctrs = {}
  BY DEF Init, NoDocker
<1>3. InitDevices # 0 =>
        docker.ctrs =
          {[id |-> i + 1, dev |-> i, comm |-> Public, up |-> TRUE] : i \in 1..InitDevices}
  BY DEF Init
<1>4. devices = {InitRow(i) : i \in 1..InitDevices}
  BY DEF Init
<1>5. \A i : InitRow(i).id = i /\ InitRow(i).ctr = i + 1
  BY DEF InitRow
<1> HIDE DEF InitRow
<1>6. RowsBacked
  <2>1. \A r \in devices : r.ctr \in Running(docker)
    <3>1. TAKE r \in devices
    <3>2. PICK i \in 1..InitDevices : r.ctr = i + 1
      BY <1>4, <1>5
    <3>3. [id |-> i + 1, dev |-> i, comm |-> Public, up |-> TRUE] \in docker.ctrs
      BY <1>2, <1>3
    <3>4. QED BY <3>2, <3>3 DEF Running
  <2>2. QED BY <2>1 DEF RowsBacked
<1>7. OrphansExplained
  <2>1. \A c \in docker.ctrs : Owned(c)
    BY <1>2, <1>3, <1>4, <1>5 DEF Owned
  <2>2. QED BY <2>1 DEF OrphansExplained
<1>8. StartsRun /\ CreatesRun /\ StopsSee /\ DeletesSee
  BY <1>1 DEF StartsRun, CreatesRun, StopsSee, DeletesSee, Runs
<1>9. QED BY <1>6, <1>7, <1>8 DEF LifeInv

LEMMA LifeAlways == DeviceSpec => []LifeInv
<1>1. DevType /\ DevType' /\ StartsMake /\ IdInv /\ LifeInv /\ [DeviceNext]_labVars => LifeInv'
  <2>1. ASSUME DevType, DevType', StartsMake, IdInv, LifeInv, NEW h \in Handlers,
               DeviceRequest(h) \/ DeviceStep(h)
        PROVE  LifeInv'
    BY <2>1, DeviceEffects, LifeKept
  <2>2. ASSUME LifeInv, UNCHANGED labVars PROVE LifeInv'
    BY <2>2 DEF LifeInv, StartsRun, CreatesRun, StopsSee, DeletesSee, RowsBacked, OrphansExplained,
       Settles, HasRow, Owned, InHand, Running, Containers, labVars, rows
  <2>3. QED BY <2>1, <2>2 DEF DeviceNext
<1>2. QED BY <1>1, LifeInitially, TypeAlways, IdsAlways, PTL DEF DeviceSpec

LEMMA OrphansFollow == LifeInv => OrphansExplained
BY DEF LifeInv

LEMMA BackedFollows == LifeInv => RunningBacked
BY DEF LifeInv, RowsBacked, Settles, HasRow, WorkedOn, RunningBacked

\* Every agent that runs is some row's or some request's, or a request for its
\* device has failed half way or met another: nothing else leaves one behind.
THEOREM AgentsAlwaysOwned == DeviceSpec => []OrphansExplained
BY OrphansFollow, LifeAlways, PTL

\* A row that says running has its container, or a request is busy with the
\* device, or one for it has failed half way or met another.
THEOREM RunningAlwaysBacked == DeviceSpec => []RunningBacked
BY BackedFollows, LifeAlways, PTL

-----------------------------------------------------------------------------
(* Communities.  What a start makes answers to what the start has read, and *)
(* a PATCH that comes between leaves its mark on the request or the device. *)

Serves(x, d) == \A c \in d.ctrs : c.id = x.ctr => c.comm = x.comm

StartsRead ==
  \A h \in Handlers : req[h].kind \in Runs /\ ~req[h].behind =>
    \A r \in devices : r.id = req[h].row.id => r.comm = req[h].row.comm

MadeServed == \A h \in Handlers : \A m \in req[h].made : Serves(m, docker)

RowsServed == \A r \in devices : Serves(r, docker) \/ r.id \in patched

CommInv == StartsRead /\ MadeServed /\ RowsServed

LEMMA ServesOn ==
  ASSUME DevType, CtrsCome, NEW x \in DeviceRow, RowKnown(x, docker, lastId), Serves(x, docker)
  PROVE  Serves(x, docker')
<1>1. x.ctr # docker.next
  BY HandRows DEF RowKnown, DeviceRow
<1>2. QED BY <1>1 DEF CtrsCome, Serves

\* The container that comes answers to the row it is made for.
LEMMA NewServes ==
  ASSUME DevType, DevType', NEW row, NEW dev, NEW net, NEW gone,
         Handled(docker, docker', dev, row.comm, net, gone), NEW new,
         new.ctr = docker.next, new.comm = row.comm
  PROVE  Serves(new, docker')
<1>1. \A c \in docker.ctrs : c.id # docker.next
  BY DEF DevType, DockerOK, DockerType, Container
<1>2. QED BY <1>1 DEF Handled, Serves

\* A hand lets go, or reads and holds no more than it did.
ReadsOn(g) ==
  /\ req'[g].made \subseteq req[g].made
  /\ req'[g].kind \in Runs => /\ req[g].kind \in Runs /\ req'[g].row = req[g].row
                              /\ req'[g].behind = req[g].behind

RowsServeOn ==
  \A r \in devices' : \E s \in devices :
    /\ r.id = s.id /\ r.ctr = s.ctr /\ r.comm = s.comm
    /\ s.id \in patched => s.id \in patched'

LEMMA CommHeld ==
  ASSUME DevType, DevType', IdInv, CommInv, CtrsCome, \A g \in Handlers : ReadsOn(g), RowsServeOn
  PROVE  CommInv'
<1>1. StartsRead'
  <2>1. SUFFICES ASSUME NEW g \in Handlers, req'[g].kind \in Runs, ~req'[g].behind,
                        NEW r \in devices', r.id = req'[g].row.id
                 PROVE  r.comm = req'[g].row.comm
    BY DEF StartsRead
  <2>2. PICK s \in devices : r.id = s.id /\ r.comm = s.comm
    BY DEF RowsServeOn
  <2>3. QED BY <2>1, <2>2 DEF CommInv, StartsRead, ReadsOn
<1>2. MadeServed'
  BY ServesOn, HandRows DEF CommInv, MadeServed, IdInv, RowsKnown, ReadsOn
<1>3. RowsServed'
  <2>1. \A s \in devices : Serves(s, docker') \/ s.id \in patched
    BY ServesOn, HandRows DEF CommInv, RowsServed, IdInv, RowsKnown
  <2>2. SUFFICES ASSUME NEW r \in devices' PROVE Serves(r, docker') \/ r.id \in patched'
    BY DEF RowsServed
  <2>3. PICK s \in devices : /\ r.id = s.id /\ r.ctr = s.ctr /\ r.comm = s.comm
                             /\ s.id \in patched => s.id \in patched'
    BY DEF RowsServeOn
  <2>4. QED BY <2>1, <2>3 DEF Serves
<1>4. QED BY <1>1, <1>2, <1>3 DEF CommInv

LEMMA RowsServeStay ==
  ASSUME devices' \subseteq devices, \A r \in devices : r.id \in patched => r.id \in patched'
  PROVE  RowsServeOn
  BY DEF RowsServeOn

LEMMA HandledCome ==
  ASSUME DevType, IdInv, NEW h \in Handlers, Fails(h) \/ Stops(h) \/ RunsUp(h) \/ Starts(h)
  PROVE  CtrsCome
<1>1. lastId' = lastId
  BY DEF Fails, Stops, RunsUp, Starts
<1>2. ASSUME NEW net, NEW gone, req[h].row \in DeviceRow, RowKnown(req[h].row, docker, lastId),
             Handled(docker, docker', req[h].row.id, req[h].row.comm, net, gone)
      PROVE  CtrsCome
  BY <1>1, <1>2, RowFields, HandledComes DEF RowKnown
<1>3. CASE docker' = docker
  BY <1>1, <1>3, HandRows DEF CtrsCome
<1>4. CASE /\ req[h].kind = "create" /\ req[h].pc = "run"
           /\ Handled(docker, docker', req[h].row.id, req[h].row.comm, req[h].lab.net, 0)
  <2>1. req[h].row \in DeviceRow /\ RowKnown(req[h].row, docker, lastId)
    BY <1>4, HandRows DEF IdInv, CreatesOwn, RowsKnown
  <2>2. QED BY <1>2, <1>4, <2>1
<1>5. CASE /\ HasRow(h)
           /\ Handled(docker, docker', req[h].row.id, req[h].row.comm, req[h].row.net,
                      req[h].row.ctr)
  <2>1. req[h].row \in DeviceRow /\ RowKnown(req[h].row, docker, lastId)
    BY <1>5, HandRows DEF IdInv, RowsKnown
  <2>2. QED BY <1>2, <1>5, <2>1
<1>6. QED BY <1>3, <1>4, <1>5 DEF Fails, Stops, RunsUp, Starts, HasRow, Operations

LEMMA CommSteps ==
  ASSUME DevType, DevType', IdInv, CommInv, NEW h \in Handlers,
         Quiet(h) \/ Detaches(h) \/ Fails(h) \/ Stops(h) \/ Deletes(h)
  PROVE  CommInv'
<1>1. ASSUME NEW r, Turns(h, r), r.kind \notin Operations, r.made = {}
      PROVE  \A g \in Handlers : ReadsOn(g)
  BY <1>1 DEF Turns, ReadsOn, Operations
<1>2. Idle.kind \notin Operations /\ Idle.made = {}
  BY IdleOK DEF Operations, Runs
<1>3. docker'.ctrs = docker.ctrs /\ docker'.next >= docker.next /\ lastId' = lastId => CtrsCome
  BY HandRows DEF CtrsCome
<1>4. CASE Quiet(h)
  <2>1. \A g \in Handlers : ReadsOn(g)
    BY <1>1, <1>4 DEF Quiet
  <2>2. CtrsCome /\ devices' = devices /\ patched' = patched
    BY <1>3, <1>4 DEF Quiet
  <2>3. QED BY <2>1, <2>2, RowsServeStay, CommHeld
<1>5. CASE Detaches(h)
  <2>1. \A g \in Handlers : ReadsOn(g)
    BY <1>1, <1>2, <1>5 DEF Detaches
  <2> DEFINE f(r) == IF r.net = req[h].lab.net THEN [r EXCEPT !.net = None] ELSE r
  <2>2. /\ devices' = {f(r) : r \in devices} /\ patched' = patched
        /\ docker' = docker /\ lastId' = lastId
    BY <1>5 DEF Detaches
  <2>3. \A r \in devices : f(r).id = r.id /\ f(r).ctr = r.ctr /\ f(r).comm = r.comm
    BY DEF DevType, DeviceRow
  <2> HIDE DEF f
  <2>4. RowsServeOn
    BY <2>2, <2>3 DEF RowsServeOn
  <2>5. CtrsCome
    BY <1>3, <2>2, HandRows
  <2>6. QED BY <2>1, <2>4, <2>5, CommHeld
<1>6. CASE Fails(h)
  <2>1. \A g \in Handlers : ReadsOn(g)
    BY <1>1, <1>2, <1>6 DEF Fails
  <2>2. RowsServeOn
    BY <1>6, RowsServeStay DEF Fails
  <2>3. QED BY <1>6, <2>1, <2>2, HandledCome, CommHeld
<1>7. CASE Stops(h)
  <2>1. \A g \in Handlers : ReadsOn(g)
    BY <1>7 DEF Stops, Turns, ReadsOn
  <2>2. RowsServeOn
    BY <1>7, RowsServeStay DEF Stops
  <2>3. QED BY <1>7, <2>1, <2>2, HandledCome, CommHeld
<1>8. CASE Deletes(h)
  <2>1. \A g \in Handlers : ReadsOn(g)
    BY <1>1, <1>2, <1>8 DEF Deletes
  <2>2. devices' \subseteq devices /\ patched' = patched /\ docker' = docker /\ lastId' = lastId
    BY <1>8 DEF Deletes
  <2>3. CtrsCome
    BY <1>3, <2>2, HandRows
  <2>4. QED BY <2>1, <2>2, <2>3, RowsServeStay, CommHeld
<1>9. QED BY <1>4, <1>5, <1>6, <1>7, <1>8

LEMMA CommCreates ==
  ASSUME DevType, DevType', IdInv, CommInv, NEW h \in Handlers,
         Inserts(h) \/ RunsUp(h) \/ Creates(h)
  PROVE  CommInv'
<1>0. req[h].kind = "create" /\ req[h].kind \notin Runs
  BY DEF Inserts, RunsUp, Creates, Runs
<1>1. CASE Inserts(h)
  <2>1. PICK r, new : /\ Turns(h, r) /\ r.kind = "create" /\ r.made = req[h].made \cup {new}
                      /\ new.ctr = 0
    BY <1>1 DEF Inserts
  <2>2. docker' = docker /\ devices' = devices /\ patched' = patched
    BY <1>1 DEF Inserts
  <2>3. Serves(new, docker)
    BY <2>1 DEF Serves, DevType, DockerOK
  <2>4. QED BY <2>1, <2>2, <2>3 DEF CommInv, StartsRead, MadeServed, RowsServed, Turns, Runs
<1>2. CASE RunsUp(h)
  <2> DEFINE row == req[h].row
             new == Launched(row, docker.next)
  <2>1. PICK r : /\ Turns(h, r) /\ r.kind = "create" /\ r.made = (req[h].made \ {row}) \cup {new}
    BY <1>2 DEF RunsUp
  <2>2. /\ devices' = devices /\ patched' = patched /\ lastId' = lastId
        /\ Handled(docker, docker', row.id, row.comm, req[h].lab.net, 0)
        /\ Launches(docker, docker', row.id, row.comm)
    BY <1>2 DEF RunsUp
  <2>3. RowKnown(row, docker, lastId) /\ row \in DeviceRow
    BY <1>2, HandRows DEF RunsUp, IdInv, CreatesOwn, RowsKnown
  <2>4. new.ctr = docker.next /\ new.comm = row.comm /\ CtrsCome
    BY <2>2, <2>3, NewKnown
  <2> HIDE DEF new
  <2>5. Serves(new, docker')
    BY <2>2, <2>4, NewServes
  <2>6. /\ \A x \in devices : Serves(x, docker) => Serves(x, docker')
        /\ \A g \in Handlers : \A m \in req[g].made : Serves(m, docker')
    BY <2>4, ServesOn, HandRows DEF CommInv, MadeServed, IdInv, RowsKnown
  <2>7. MadeServed'
    BY <2>1, <2>5, <2>6 DEF MadeServed, Turns
  <2>8. StartsRead' /\ RowsServed'
    BY <2>1, <2>2, <2>6 DEF CommInv, StartsRead, RowsServed, Turns, Runs
  <2>9. QED BY <2>7, <2>8 DEF CommInv
<1>3. CASE Creates(h)
  <2>1. /\ devices' = devices \cup req[h].made /\ docker' = docker /\ patched' = patched
        /\ req'[h] = Idle /\ \A g \in Handlers \ {h} : req'[g] = req[g]
    BY <1>3 DEF Creates, Turns
  <2>2. \A m \in req[h].made, g \in Handlers : req[g].kind \in Runs => m.id # req[g].row.id
    BY <1>0 DEF IdInv, CreatesOwn, HasRow, Operations
  <2>3. StartsRead'
    BY <2>1, <2>2, IdleOK DEF CommInv, StartsRead, Runs
  <2>4. MadeServed' /\ RowsServed'
    BY <2>1, IdleOK DEF CommInv, MadeServed, RowsServed
  <2>5. QED BY <2>3, <2>4 DEF CommInv
<1>4. QED BY <1>1, <1>2, <1>3

LEMMA CommStarts ==
  ASSUME DevType, DevType', IdInv, CommInv, NEW h \in Handlers,
         Starts(h) \/ \E kind \in Operations, row \in devices : Takes(h, kind, row)
  PROVE  CommInv'
<1>1. CASE Starts(h)
  <2> DEFINE row == req[h].row
             new == Launched(row, docker.next)
  <2>1. PICK r : /\ Turns(h, r) /\ r.row = row /\ r.behind = req[h].behind /\ r.made = {new}
    BY <1>1 DEF Starts
  <2>2. /\ req[h].kind \in Runs
        /\ devices' = devices /\ patched' = patched /\ lastId' = lastId
        /\ Handled(docker, docker', row.id, row.comm, row.net, row.ctr)
        /\ Launches(docker, docker', row.id, row.comm)
    BY <1>1 DEF Starts
  <2>3. RowKnown(row, docker, lastId) /\ row \in DeviceRow
    BY <2>2, HandRows DEF IdInv, RowsKnown, HasRow, Operations
  <2>4. new.ctr = docker.next /\ new.comm = row.comm /\ CtrsCome
    BY <2>2, <2>3, NewKnown
  <2> HIDE DEF new
  <2>5. Serves(new, docker')
    BY <2>2, <2>4, NewServes
  <2>6. /\ \A x \in devices : Serves(x, docker) => Serves(x, docker')
        /\ \A g \in Handlers : \A m \in req[g].made : Serves(m, docker')
    BY <2>4, ServesOn, HandRows DEF CommInv, MadeServed, IdInv, RowsKnown
  <2>7. MadeServed'
    BY <2>1, <2>5, <2>6 DEF MadeServed, Turns
  <2>8. StartsRead' /\ RowsServed'
    BY <2>1, <2>2, <2>6 DEF CommInv, StartsRead, RowsServed, Turns
  <2>9. QED BY <2>7, <2>8 DEF CommInv
<1>2. ASSUME NEW kind \in Operations, NEW row \in devices, Takes(h, kind, row) PROVE CommInv'
  <2>1. PICK r : Turns(h, r) /\ r.row = row /\ r.made = {}
    BY <1>2 DEF Takes
  <2>2. devices' = devices /\ docker' = docker /\ patched' = patched
    BY <1>2 DEF Takes
  <2>3. \A d \in devices : d.id = row.id => d = row
    BY DEF IdInv, RowsKnown
  <2>4. QED BY <2>1, <2>2, <2>3 DEF CommInv, StartsRead, MadeServed, RowsServed, Turns
<1>3. QED BY <1>1, <1>2

LEMMA CommUpdate ==
  ASSUME DevType, DevType', StartsMake, IdInv, CommInv, NEW h \in Handlers, Updates(h)
  PROVE  CommInv'
<1> DEFINE row == req[h].row
<1>1. PICK r, u :
        /\ r \in devices /\ r.id = row.id /\ devices' = (devices \ {r}) \cup {u}
        /\ u.id = r.id /\ u.comm = r.comm
        /\ req[h].kind = "stop" => u.ctr = r.ctr
        /\ req[h].kind \in Runs => \E m \in req[h].made : m.id = r.id /\ u.ctr = m.ctr
  BY RowUpdated
<1>2. /\ req[h].kind \in Runs \cup {"stop"} /\ docker' = docker
      /\ patched' = (IF req[h].kind \notin Runs THEN patched
                     ELSE IF req[h].behind THEN patched \cup {row.id} ELSE patched \ {row.id})
      /\ req'[h] = Idle /\ \A g \in Handlers \ {h} : req'[g] = req[g]
  BY DEF Updates, Turns
<1>3. (\A d \in devices \ {r} : d.id # r.id) /\ "stop" \notin Runs /\ Idle.kind \notin Runs
  BY <1>1, IdleOK DEF IdInv, RowsKnown, Runs
<1>4. StartsRead'
  BY <1>1, <1>2, <1>3 DEF CommInv, StartsRead
<1>5. MadeServed'
  BY <1>2, IdleOK DEF CommInv, MadeServed
<1>6. RowsServed'
  <2>1. \A d \in devices \ {r} : Serves(d, docker) \/ d.id \in patched'
    BY <1>1, <1>2, <1>3 DEF CommInv, RowsServed
  <2>2. Serves(u, docker) \/ u.id \in patched'
    <3>1. CASE req[h].kind = "stop"
      BY <1>1, <1>2, <1>3, <3>1 DEF CommInv, RowsServed, Serves
    <3>2. CASE req[h].kind \in Runs /\ req[h].behind
      BY <1>1, <1>2, <3>2
    <3>3. CASE req[h].kind \in Runs /\ ~req[h].behind
      <4>1. r.comm = row.comm /\ \A m \in req[h].made : m.comm = row.comm /\ Serves(m, docker)
        BY <1>1, <3>3 DEF CommInv, StartsRead, MadeServed, IdInv, StartsOwn
      <4>2. QED BY <1>1, <3>3, <4>1 DEF Serves
    <3>4. QED BY <1>2, <3>1, <3>2, <3>3
  <2>3. QED BY <1>1, <1>2, <2>1, <2>2 DEF RowsServed
<1>7. QED BY <1>4, <1>5, <1>6 DEF CommInv

LEMMA CommPatch ==
  ASSUME DevType, DevType', IdInv, CommInv, NEW h \in Handlers, Patches(h) PROVE CommInv'
<1> DEFINE f(r) == IF PatchesRow(h, r) THEN [r EXCEPT !.comm = req[h].comm] ELSE r
<1>1. /\ devices' = {f(r) : r \in devices} /\ docker' = docker /\ req'[h] = Idle
      /\ \A g \in Handlers \ {h} :
           req'[g] = IF req[g].kind \in Runs /\ PatchesRow(h, req[g].row)
                       THEN [req[g] EXCEPT !.behind = TRUE] ELSE req[g]
      /\ patched' = patched \cup {r.id : r \in {x \in devices : PatchesRow(h, x)}}
  BY DEF Patches
<1>2. \A r \in devices : /\ f(r).id = r.id /\ f(r).ctr = r.ctr
                         /\ f(r).comm = r.comm \/ PatchesRow(h, r)
  BY DEF DevType, DeviceRow
<1>3. \A g \in Handlers : DOMAIN req[g] = DOMAIN Idle
  BY DEF DevType, HandsOK, HandOK
<1>4. \A g \in Handlers \ {h} :
        /\ req'[g].kind = req[g].kind /\ req'[g].row = req[g].row /\ req'[g].made = req[g].made
        /\ req'[g].behind = req[g].behind \/ req'[g].behind = TRUE
        /\ req[g].kind \in Runs /\ PatchesRow(h, req[g].row) => req'[g].behind = TRUE
  BY <1>1, <1>3 DEF Idle
<1>5. \A r, s : r.id = s.id => (PatchesRow(h, r) <=> PatchesRow(h, s))
  BY DEF PatchesRow
<1> HIDE DEF f
<1>6. StartsRead'
  <2>1. SUFFICES ASSUME NEW g \in Handlers, req'[g].kind \in Runs, ~req'[g].behind,
                        NEW d \in devices', d.id = req'[g].row.id
                 PROVE  d.comm = req'[g].row.comm
    BY DEF StartsRead
  <2>2. g # h
    BY <1>1, <2>1, IdleOK DEF Runs
  <2>3. req[g].kind \in Runs /\ ~req[g].behind /\ ~PatchesRow(h, req[g].row)
        /\ req'[g].row = req[g].row
    BY <1>4, <2>1, <2>2
  <2>4. PICK r \in devices : d = f(r)
    BY <1>1
  <2>5. QED BY <1>2, <1>5, <2>1, <2>3, <2>4 DEF CommInv, StartsRead
<1>7. MadeServed'
  BY <1>1, <1>4, IdleOK DEF CommInv, MadeServed
<1>8. RowsServed'
  <2>1. SUFFICES ASSUME NEW d \in devices' PROVE Serves(d, docker) \/ d.id \in patched'
    BY <1>1 DEF RowsServed
  <2>2. PICK r \in devices : d = f(r)
    BY <1>1
  <2>3. QED BY <1>1, <1>2, <2>2 DEF CommInv, RowsServed, Serves
<1>9. QED BY <1>6, <1>7, <1>8 DEF CommInv

LEMMA CommKept ==
  ASSUME DevType, DevType', StartsMake, IdInv, CommInv, NEW h \in Handlers, Effect(h)
  PROVE  CommInv'
  BY CommSteps, CommCreates, CommStarts, CommUpdate, CommPatch DEF Effect

LEMMA CommInitially == Init => CommInv
<1> SUFFICES ASSUME Init PROVE CommInv
  OBVIOUS
<1>1. \A h \in Handlers : req[h].kind = "idle" /\ req[h].made = {}
  BY IdleOK DEF Init
<1>2. \A r \in devices : r.comm = Public
  BY DEF Init, InitRow
<1>3. \A c \in docker.ctrs : c.comm = Public
  <2>1. CASE InitDevices = 0
    BY <2>1 DEF Init, NoDocker
  <2>2. CASE InitDevices # 0
    BY <2>2 DEF Init
  <2>3. QED BY <2>1, <2>2
<1>4. QED BY <1>1, <1>2, <1>3 DEF CommInv, StartsRead, MadeServed, RowsServed, Serves, Runs

LEMMA CommAlways == DeviceSpec => []CommInv
<1>1. DevType /\ DevType' /\ StartsMake /\ IdInv /\ CommInv /\ [DeviceNext]_labVars => CommInv'
  <2>1. ASSUME DevType, DevType', StartsMake, IdInv, CommInv, NEW h \in Handlers,
               DeviceRequest(h) \/ DeviceStep(h)
        PROVE  CommInv'
    BY <2>1, DeviceEffects, CommKept
  <2>2. ASSUME CommInv, UNCHANGED labVars PROVE CommInv'
    BY <2>2 DEF CommInv, StartsRead, MadeServed, RowsServed, labVars, rows
  <2>3. QED BY <2>1, <2>2 DEF DeviceNext
<1>2. QED BY <1>1, CommInitially, TypeAlways, IdsAlways, PTL DEF DeviceSpec

LEMMA ServedFollows == CommInv => CommunityServed
BY DEF CommInv, RowsServed, Serves, CommunityServed

\* An agent answers to its row's community, unless that was changed since the
\* start that made the agent read it.
THEOREM CommunityAlwaysServed == DeviceSpec => []CommunityServed
BY ServedFollows, CommAlways, PTL
=============================================================================
