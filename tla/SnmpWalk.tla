------------------------------- MODULE SnmpWalk ------------------------------
(***************************************************************************)
(* A management station walking one agent: it asks for the successor of    *)
(* the last OID it was given until it is told the MIB view has ended.  The *)
(* station is not part of the repository; it is the standard walk: an      *)
(* exception value ends it, an unanswered request is sent again up to      *)
(* MaxTries times.  AgentQuery answers, one request at a time, while the   *)
(* cache is replaced under it.                                             *)
(*                                                                         *)
(* steady, seen and disturbed are history variables.                       *)
(***************************************************************************)
EXTENDS AgentQuery

CONSTANTS
  MaxTries,    \* bound: times a request is sent
  MaxReloads   \* bound: reloads in a behaviour

ASSUME WalkAssumption ==
  MaxTries \in Nat \ {0} /\ MaxReloads \in Nat /\ MaxRep > 0 /\ MaxBytes > 0

VARIABLES
  phase,     \* "ready", "asking", "done", "stopped" or "gaveup"
  method,    \* "getnext" or "bulk", for the whole walk
  at,        \* the last OID the station was given
  tries,     \* times the request in hand was sent
  reloads,   \* reloads so far
  steady,    \* OIDs that have had a value since the walk began
  seen,      \* OIDs the station was given a value of
  disturbed  \* was the cache replaced since the walk began?

walkVars == <<queryVars, phase, method, at, tries, reloads, steady, seen, disturbed>>

Resolvable(t) == {o \in Oid : t[o] \in Good}
Over == phase \in {"done", "stopped", "gaveup"}

WalkInit ==
  /\ QueryInit
  /\ phase = "ready" /\ method \in {"getnext", "bulk"} /\ at = 0 /\ tries = 0
  /\ reloads = 0 /\ steady = Resolvable(cache) /\ seen = {} /\ disturbed = FALSE

\* The request for the successor of `at` reaches an idle agent.
Ask ==
  /\ phase = "ready"
  /\ \/ /\ tries < MaxTries
        /\ phase' = "asking" /\ tries' = tries + 1
        /\ \/ Receive(method, <<at>>, 0, IF method = "bulk" THEN MaxRep ELSE 0)
           \/ kind = "idle" /\ sent' = "dropped"   \* or is lost on the way
              /\ UNCHANGED <<cache, kind, request, pos, cursor, left, target,
                             tally, rsp, torn>>
     \/ /\ tries = MaxTries
        /\ phase' = "gaveup" /\ UNCHANGED <<queryVars, tries>>
  /\ UNCHANGED <<method, at, reloads, steady, seen, disturbed>>

AgentStep ==
  /\ Serve
  /\ UNCHANGED <<phase, method, at, tries, reloads, steady, seen, disturbed>>

Given(r) == {r[i].oid : i \in {j \in 1..Len(r) : r[j].ans \in Good}}

\* The response arrives: the station takes its answers in turn.
Take ==
  /\ phase = "asking" /\ kind = "idle" /\ sent = "sent"
  /\ \E n \in 0..Len(rsp) :
       LET taken == SubSeq(rsp, 1, n) IN
       /\ \A i \in 1..n : rsp[i].ans \in Good
       /\ seen' = seen \cup Given(taken)
       /\ at' = IF n = 0 THEN at ELSE rsp[n].oid
       /\ IF n = Len(rsp)
            THEN phase' = "ready"
            ELSE /\ rsp[n + 1].ans \notin Good
                 /\ phase' = IF rsp[n + 1].ans = "endOfMibView" THEN "done" ELSE "stopped"
  /\ tries' = 0
  /\ UNCHANGED <<queryVars, method, reloads, steady, disturbed>>

\* It does not: dropped by the agent, or lost on the way.
Expire ==
  /\ phase = "asking" /\ kind = "idle" /\ sent \in {"sent", "dropped"}
  /\ phase' = "ready"
  /\ UNCHANGED <<queryVars, method, at, tries, reloads, steady, seen, disturbed>>

Reload ==
  /\ reloads < MaxReloads /\ reloads' = reloads + 1
  /\ \E t \in Tables :
       /\ ReloadWith(t)
       /\ steady' = IF Over THEN steady ELSE steady \cap Resolvable(t)
  /\ disturbed' = TRUE
  /\ UNCHANGED <<phase, method, at, tries, seen>>

WalkNext == Ask \/ AgentStep \/ Take \/ Expire \/ Reload

WalkSpec == WalkInit /\ [][WalkNext]_walkVars

\* runDispatcher keeps serving, the station keeps asking and waiting.
FairWalk == WalkSpec /\ WF_walkVars(AgentStep) /\ WF_walkVars(Ask)
                     /\ WF_walkVars(Take \/ Expire)

-----------------------------------------------------------------------------
\* A walk that reached the end of the MIB view was given every OID that had a
\* value all along, and one that ended early or goes on every such OID up to
\* where it is, however often the agent reloaded in between.
WalkComplete ==
  /\ phase = "done" => steady \subseteq seen
  /\ steady \cap 1..at \subseteq seen

\* An undisturbed walk is given exactly the table, unless a value of it does
\* not resolve: that ends the walk right there.  At a value or a name the
\* encoder refuses there is no answer, and the station gives up.
UndisturbedExact ==
  ~disturbed =>
    /\ seen \subseteq Resolvable(cache)
    /\ phase = "done" => Stored(cache) = seen
    /\ phase = "stopped" => After(Stored(cache), at) # {}
                            /\ cache[NextOid(Stored(cache), at)] \in Bad

\* Answers go upwards: no walk is sent round the same OIDs again.
WalkAdvances ==
  [][/\ at' # at => at' > at
     /\ phase = "asking" /\ phase' = "ready" /\ tries' = 0 => at' > at]_walkVars

\* Every walk ends.
WalkEnds == <>Over
=============================================================================
