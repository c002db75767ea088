---------------------------- MODULE MibStoreProofs ---------------------------
(***************************************************************************)
(* Proofs about the agent's cache, against any backend that writes Redis   *)
(* and publishes in the way MibStore allows.                               *)
(***************************************************************************)
EXTENDS MibStore, TLAPS

LEMMA LoadedType ==
  ASSUME NEW h \in Hashes
  PROVE  /\ Loaded(h) \in Hashes
         /\ \A k \in Key \ Sortable : Loaded(h)[k] = Missing
  BY MibStoreAssumption DEF Loaded, Hashes

LEMMA EmptyType == Empty \in Hashes /\ \A k \in Key : Empty[k] = Missing
  BY DEF Empty, Hashes

(* The cache and its load keep their types whatever the backend writes.    *)
THEOREM StoreTypeCorrect == StoreSpec => []StoreTypeOK
<1> DEFINE DataOK == /\ hash \in Hashes /\ owed \in SUBSET Writer
                     /\ phase \in {"down", "fetch", "swap", "listen"}
                     /\ inbox \in Nat
                     /\ fetched \in Hashes /\ cache \in Hashes
           FlagOK == subscribed \in BOOLEAN /\ silent \in BOOLEAN
<1>1. StoreInit => DataOK /\ FlagOK
  <2> SUFFICES ASSUME StoreInit PROVE DataOK /\ FlagOK
    OBVIOUS
  <2>1. DataOK
    BY EmptyType DEF StoreInit
  <2>2. FlagOK
    BY DEF StoreInit
  <2>3. QED BY <2>1, <2>2
<1>2. DataOK /\ FlagOK /\ [StoreNext]_storeVars => DataOK' /\ FlagOK'
  <2> SUFFICES ASSUME DataOK, FlagOK, [StoreNext]_storeVars
               PROVE  DataOK' /\ FlagOK'
    OBVIOUS
  <2>1. CASE SilentWrite
    <3>1. DataOK' BY <2>1 DEF SilentWrite, Rewrite
    <3>2. FlagOK' BY <2>1 DEF SilentWrite, Rewrite
    <3>3. QED BY <3>1, <3>2
  <2>2. ASSUME NEW w \in Writer, AnnouncedWrite(w) \/ Publish(w) \/ Renege(w)
        PROVE  DataOK' /\ FlagOK'
    <3>1. DataOK'
      BY <2>2 DEF AnnouncedWrite, Rewrite, Publish, Deliver, Renege
    <3>2. FlagOK'
      BY <2>2 DEF AnnouncedWrite, Rewrite, Publish, Deliver, Renege
    <3>3. QED BY <3>1, <3>2
  <2>3. CASE StartAgent \/ StopAgent
    <3>1. DataOK' BY <2>3, EmptyType DEF StartAgent, Boot, StopAgent
    <3>2. FlagOK' BY <2>3 DEF StartAgent, Boot, StopAgent
    <3>3. QED BY <3>1, <3>2
  <2>4. CASE Listener
    <3>1. DataOK'
      BY <2>4, LoadedType, EmptyType
         DEF Listener, HGetAll, Swap, Subscribe, Message
    <3>2. FlagOK' BY <2>4 DEF Listener, HGetAll, Swap, Subscribe, Message
    <3>3. QED BY <3>1, <3>2
  <2>5. CASE AgentFault
    <3>1. DataOK' BY <2>5, EmptyType DEF AgentFault, HGetAllFails, ConnectionLost
    <3>2. FlagOK' BY <2>5 DEF AgentFault, HGetAllFails, ConnectionLost
    <3>3. QED BY <3>1, <3>2
  <2>6. CASE UNCHANGED storeVars
    <3>1. DataOK' BY <2>6 DEF storeVars, agentVars
    <3>2. FlagOK' BY <2>6 DEF storeVars, agentVars
    <3>3. QED BY <3>1, <3>2
  <2>7. QED
    BY <2>1, <2>2, <2>3, <2>4, <2>5, <2>6 DEF StoreNext, Backend
<1>3. DataOK /\ FlagOK <=> StoreTypeOK
  BY DEF StoreTypeOK
<1>4. QED BY <1>1, <1>2, <1>3, PTL DEF StoreSpec

(* For every number of writers and keys: an agent that does not mirror     *)
(* Redis is about to load, has a message to read, is owed one, or missed a *)
(* change that was never announced to it.  StaleOnlyIfTold is inductive.   *)
THEOREM StaleAlwaysTold == StoreSpec => []StaleOnlyIfTold
<1> USE DEF StaleOnlyIfTold, View
<1>1. StoreInit => StaleOnlyIfTold
  BY DEF StoreInit
<1>2. StoreTypeOK /\ StaleOnlyIfTold /\ [StoreNext]_storeVars => StaleOnlyIfTold'
  <2> SUFFICES ASSUME StoreTypeOK, StaleOnlyIfTold, [StoreNext]_storeVars
               PROVE  StaleOnlyIfTold'
    OBVIOUS
  <2>1. CASE SilentWrite
    BY <2>1 DEF SilentWrite, Rewrite
  <2>2. ASSUME NEW w \in Writer, AnnouncedWrite(w) PROVE StaleOnlyIfTold'
    BY <2>2 DEF AnnouncedWrite
  <2>3. ASSUME NEW w \in Writer, Publish(w) PROVE StaleOnlyIfTold'
    BY <2>3 DEF Publish, Deliver, StoreTypeOK
  <2>4. ASSUME NEW w \in Writer, Renege(w) PROVE StaleOnlyIfTold'
    BY <2>4 DEF Renege
  <2>5. CASE StartAgent \/ StopAgent
    BY <2>5 DEF StartAgent, Boot, StopAgent
  <2>6. CASE HGetAll \/ Swap
    BY <2>6 DEF HGetAll, Swap
  <2>7. CASE Subscribe \/ Message
    BY <2>7 DEF Subscribe, Message
  <2>8. CASE AgentFault
    BY <2>8 DEF AgentFault, HGetAllFails, ConnectionLost, StoreTypeOK
  <2>9. CASE UNCHANGED storeVars
    BY <2>9 DEF storeVars, agentVars
  <2>10. QED
    BY <2>1, <2>2, <2>3, <2>4, <2>5, <2>6, <2>7, <2>8, <2>9
       DEF StoreNext, Backend, Listener
<1>3. QED BY <1>1, <1>2, StoreTypeCorrect, PTL DEF StoreSpec

(* The bisected structures only hold numeric OIDs: the invariant           *)
(* CacheSortable, strengthened by the same fact about a load in progress.  *)
THEOREM CacheAlwaysSortable == StoreSpec => []CacheSortable
<1> DEFINE Inv == CacheSortable /\ \A k \in Key \ Sortable : fetched[k] = Missing
<1>1. StoreInit => Inv
  BY EmptyType DEF StoreInit, CacheSortable
<1>2. StoreTypeOK /\ Inv /\ [StoreNext]_storeVars => Inv'
  BY EmptyType, LoadedType
     DEF StoreTypeOK, CacheSortable, StoreNext, Backend, SilentWrite,
         AnnouncedWrite, Rewrite, Publish, Renege, StartAgent, Boot, StopAgent,
         Listener, HGetAll, Swap, Subscribe, Message, AgentFault, HGetAllFails,
         ConnectionLost, storeVars, agentVars
<1>3. QED BY <1>1, <1>2, StoreTypeCorrect, PTL DEF StoreSpec
=============================================================================
