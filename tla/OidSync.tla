------------------------------- MODULE OidSync -------------------------------
(***************************************************************************)
(* One device's OID pipeline end to end: the request handlers of OidPush   *)
(* and the agent of MibStore around the same Redis hash.  Every action is  *)
(* a handler step with its effect on the agent, or an agent step alone.    *)
(* That the handlers are a backend MibStore allows (each write of the hash *)
(* is announced in a later step or is a silent one) is the refinement      *)
(* AgentSpec.                                                              *)
(***************************************************************************)
EXTENDS OidPush

VARIABLES phase, subscribed, inbox, fetched, cache, silent

Announcing == {r \in Req : pc[r] = "notify"}

Agent == INSTANCE MibStore WITH
  Writer <- Req, Key <- Oid, Sortable <- Numeric,
  Entry <- Row \cup {Up, Down}, Missing <- Absent,
  Quietly <- TRUE, MaxInbox <- MaxOps,
  hash <- redis, owed <- Announcing

agentSide == <<phase, subscribed, inbox, fetched, cache, silent>>
vars      == <<backVars, agentSide>>

Init ==
  /\ BackInit
  /\ phase = "down" /\ subscribed = FALSE /\ inbox = 0
  /\ fetched = NoRows /\ cache = NoRows /\ silent = FALSE

\* redis has just been written by a handler that will publish nothing.
Unannounced ==
  /\ silent' = (silent \/ redis' # redis)
  /\ UNCHANGED <<phase, subscribed, inbox, fetched, cache>>

Database(r) == (Arrive(r) \/ DbStep(r)) /\ UNCHANGED agentSide

\* The pushes of start and restart are not followed by a PUBLISH.
Push(r) ==
  /\ PushExec(r)
  /\ IF kind[r] = "start" THEN Unannounced ELSE UNCHANGED agentSide

Remove(r) == HDel(r) /\ UNCHANGED agentSide

Announce(r) ==
  /\ Notify(r) /\ Agent!Deliver
  /\ UNCHANGED <<phase, subscribed, fetched, cache>>

\* create_device_container removes a container of the same name and starts a
\* new one; its agent boots while the handler goes on to push.
Start(r) == StartContainer(r) /\ Agent!Boot

SyncLink(r) == SyncInterfaces(r) /\ Unannounced

Fail(r) ==
  /\ Abort(r)
  /\ silent' = (silent \/ pc[r] = "notify")
  /\ UNCHANGED <<phase, subscribed, inbox, fetched, cache>>

Handler(r) ==
  \/ Database(r) \/ Push(r) \/ Remove(r) \/ Announce(r) \/ Start(r)
  \/ SyncLink(r)

\* POST /devices/{id}/stop, and restart's removal of the old container.
Stop == UNCHANGED backVars /\ Agent!StopAgent

AgentStep  == UNCHANGED backVars /\ Agent!Listener
AgentFault == UNCHANGED backVars /\ Agent!AgentFault

Next ==
  \/ \E r \in Req : Handler(r) \/ Fail(r)
  \/ Stop \/ AgentStep \/ AgentFault

Spec == Init /\ [][Next]_vars

\* The event loop resumes every suspended handler; the listener is a thread.
FairSpec ==
  /\ Spec
  /\ \A r \in Req : WF_vars(pc[r] # "idle" /\ Handler(r))
  /\ WF_vars(AgentStep)

-----------------------------------------------------------------------------
\* OidPush's handlers, seen from the agent, are MibStore's backend.
AgentSpec == Agent!StoreSpec

\* What a query is answered from, end to end: with no request in flight and
\* no message unread, a running agent serves for every OID the committed row,
\* unless a push was overtaken (dirty) or a change was never announced.
ServesCommitted ==
  Quiet /\ phase = "listen" /\ inbox = 0 /\ ~silent =>
    \A o \in Numeric \ dirty : cache[o] = db[o]

\* "updates a single OID config and immediately pushes the update to Redis
\* (live, no restart needed)": requests drain, the listener catches up, and
\* what is served settles on the committed rows unless something was lost.
Lossless == ~silent /\ dirty = {} /\ phase # "down"

SettlesOnCommitted ==
  <>[]Lossless => <>[](\A o \in Numeric : cache[o] = db[o])
=============================================================================
