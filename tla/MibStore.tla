------------------------------ MODULE MibStore -------------------------------
(***************************************************************************)
(* The agent's in-process cache of one device's OIDs (agent/mib_store.py): *)
(* a full load from the Redis hash at start, a listener thread that        *)
(* subscribes to the update channel and reloads on every message, and a    *)
(* reconnect loop.  Redis itself is external: its hash may be rewritten    *)
(* at any moment, and pub/sub delivers a message to whoever is subscribed  *)
(* when it is published, once, or not at all.                              *)
(*                                                                         *)
(* A writer announces its write in a second step (notify_device_update);   *)
(* owed is the set of those that have not yet.  silent is a history        *)
(* variable: Redis has changed since the agent's last HGETALL in a way     *)
(* nobody will tell it of.                                                 *)
(***************************************************************************)
EXTENDS Naturals

CONSTANTS
  Writer,    \* backend handlers that write and then publish
  Key,       \* fields of the hash
  Sortable,  \* those _is_numeric_oid accepts
  Entry,     \* JSON payloads
  Missing,   \* no such field
  Quietly,   \* do some writers publish nothing?
  Faults,    \* may connections break and writers die?
  MaxInbox   \* bound: undelivered messages in the agent's socket

ASSUME MibStoreAssumption ==
  /\ Sortable \subseteq Key
  /\ Missing \notin Entry
  /\ Quietly \in BOOLEAN /\ Faults \in BOOLEAN
  /\ MaxInbox \in Nat

VARIABLES
  hash,        \* HGETALL device:{id}:oids
  owed,        \* writers that have written and not yet published
  phase,       \* the thread that loads: constructor first, then listener
  subscribed,  \* does Redis count the agent among the channel's subscribers?
  inbox,       \* messages delivered to its socket and not yet read
  fetched,     \* the local variable cache of _load_all
  cache,       \* self._cache, from which _pairs and _tuples are derived
  silent

agentVars == <<phase, subscribed, inbox, fetched, cache, silent>>
storeVars == <<hash, owed, agentVars>>

Hashes == [Key -> Entry \cup {Missing}]
Empty  == [k \in Key |-> Missing]

LoadedUnfiltered(h) == h   \* mutant: no _is_numeric_oid test

\* _load_all drops the keys that are not dotted numbers.
Loaded(h) == [k \in Key |-> IF k \in Sortable THEN h[k] ELSE Missing]

StoreInit ==
  /\ hash = Empty /\ owed = {}
  /\ phase = "down" /\ subscribed = FALSE /\ inbox = 0
  /\ fetched = Empty /\ cache = Empty /\ silent = FALSE

-----------------------------------------------------------------------------
(* The other side of Redis.                                                *)

Rewrite(h) == hash' = h /\ UNCHANGED <<phase, subscribed, inbox, fetched, cache>>

AnnouncedWrite(w) ==
  /\ w \notin owed
  /\ \E h \in Hashes : Rewrite(h)
  /\ owed' = owed \cup {w}
  /\ UNCHANGED silent

\* start, restart, create and the link sync publish nothing.
SilentWrite ==
  /\ Quietly
  /\ \E h \in Hashes : Rewrite(h) /\ silent' = (silent \/ h # hash)
  /\ UNCHANGED owed

\* PUBLISH reaches the socket of a subscriber, or nobody.
Deliver ==
  IF subscribed
    THEN inbox < MaxInbox /\ inbox' = inbox + 1 /\ UNCHANGED silent
    ELSE silent' = TRUE /\ UNCHANGED inbox

Publish(w) ==
  /\ w \in owed /\ owed' = owed \ {w}
  /\ Deliver
  /\ UNCHANGED <<hash, phase, subscribed, fetched, cache>>

\* The writer dies between its write and its PUBLISH.
Renege(w) ==
  /\ Faults
  /\ w \in owed /\ owed' = owed \ {w}
  /\ silent' = TRUE
  /\ UNCHANGED <<hash, phase, subscribed, inbox, fetched, cache>>

-----------------------------------------------------------------------------
(* The agent process.                                                      *)

\* A new container: MibStore.__init__ with an empty cache.
Boot ==
  /\ phase' = "fetch" /\ subscribed' = FALSE /\ inbox' = 0
  /\ fetched' = Empty /\ cache' = Empty /\ UNCHANGED silent

StartAgent == Boot /\ UNCHANGED <<hash, owed>>

StopAgent ==
  /\ phase # "down" /\ phase' = "down" /\ subscribed' = FALSE /\ inbox' = 0
  /\ fetched' = Empty /\ cache' = Empty /\ UNCHANGED silent
  /\ UNCHANGED <<hash, owed>>

\* raw = hgetall(key), filtered into the local cache.
HGetAll ==
  /\ phase = "fetch" /\ phase' = "swap"
  /\ fetched' = Loaded(hash) /\ silent' = FALSE
  /\ UNCHANGED <<hash, owed, subscribed, inbox, cache>>

\* except Exception: raw = {}
HGetAllFails ==
  /\ Faults
  /\ phase = "fetch" /\ phase' = "swap"
  /\ fetched' = Empty /\ silent' = TRUE
  /\ UNCHANGED <<hash, owed, subscribed, inbox, cache>>

SwapDrains ==   \* mutant: what arrived during the load counts as seen
  /\ phase = "swap" /\ phase' = "listen"
  /\ cache' = fetched /\ fetched' = Empty /\ inbox' = 0
  /\ UNCHANGED <<hash, owed, subscribed, silent>>

\* with self._lock: the three structures are replaced together.
Swap ==
  /\ phase = "swap" /\ phase' = "listen"
  /\ cache' = fetched /\ fetched' = Empty
  /\ UNCHANGED <<hash, owed, subscribed, inbox, silent>>

\* pubsub().subscribe(channel): at first, and again after an error; what the
\* broken connection still held has been read or lost by then.
Subscribe ==
  /\ phase = "listen" /\ ~subscribed /\ inbox = 0
  /\ subscribed' = TRUE
  /\ UNCHANGED <<hash, owed, phase, inbox, fetched, cache, silent>>

MessageAny ==   \* mutant: msg["type"] is not looked at
  /\ phase = "listen" /\ subscribed
  /\ inbox' = inbox - 1 /\ phase' = "fetch"
  /\ UNCHANGED <<hash, owed, subscribed, fetched, cache, silent>>

\* for msg in p.listen(): ... self._load_all()
Message ==
  /\ phase = "listen" /\ inbox > 0
  /\ inbox' = inbox - 1 /\ phase' = "fetch"
  /\ UNCHANGED <<hash, owed, subscribed, fetched, cache, silent>>

\* The pub/sub connection breaks, with or without the messages in flight.
ConnectionLost ==
  /\ Faults
  /\ subscribed /\ subscribed' = FALSE
  /\ \E n \in {0, inbox} :
       /\ inbox' = n
       /\ silent' = (silent \/ n < inbox)
  /\ UNCHANGED <<hash, owed, phase, fetched, cache>>

-----------------------------------------------------------------------------
Backend ==
  \/ SilentWrite
  \/ \E w \in Writer : AnnouncedWrite(w) \/ Publish(w) \/ Renege(w)

Listener == HGetAll \/ Swap \/ Subscribe \/ Message

AgentFault == HGetAllFails \/ ConnectionLost

StoreNext == Backend \/ StartAgent \/ StopAgent \/ Listener \/ AgentFault

StoreSpec == StoreInit /\ [][StoreNext]_storeVars

\* The listener is a thread of its own and Redis answers it.
FairStoreSpec == StoreSpec /\ WF_storeVars(Listener)

-----------------------------------------------------------------------------
StoreTypeOK ==
  /\ hash \in Hashes /\ owed \in SUBSET Writer
  /\ phase \in {"down", "fetch", "swap", "listen"}
  /\ subscribed \in BOOLEAN /\ inbox \in Nat
  /\ fetched \in Hashes /\ cache \in Hashes /\ silent \in BOOLEAN

\* What the agent serves, or is about to.
View == IF phase = "swap" THEN fetched ELSE cache

\* A running agent that does not mirror Redis is about to load, has a message
\* waiting, is owed one by a writer, or missed a change nobody announced: the
\* order write, then publish, then HGETALL leaves no other gap, whatever the
\* interleaving of writers and reloads.
StaleOnlyIfTold ==
  phase \in {"swap", "listen"} /\ View # Loaded(hash) =>
    owed # {} \/ inbox > 0 \/ silent

\* What GETNEXT bisects never holds a key without a numeric order.
CacheSortable == \A k \in Key \ Sortable : cache[k] = Missing

Settled == owed = {} /\ ~silent /\ phase # "down"

\* Once the agent is no longer restarted and every change to the hash has been
\* announced to it, its cache becomes the hash and stays so, however often
\* the pub/sub connection is re-established.
Converges ==
  <>[][~StartAgent]_storeVars /\ <>[]Settled => <>[](cache = Loaded(hash))

=============================================================================
