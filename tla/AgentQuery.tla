------------------------------ MODULE AgentQuery -----------------------------
(***************************************************************************)
(* The SNMP engine of one agent (agent/agent.py).  The dispatcher thread   *)
(* handles one PDU at a time; it takes the sorted OID list under the       *)
(* cache's lock once, and each value under the lock again, so the listener *)
(* thread of MibStore may replace the cache between any two of these.      *)
(*                                                                         *)
(* An OID is a number: the numeric order of OID tuples is all the engine   *)
(* uses of them.  0 is an OID below every stored one.  An OID is stored    *)
(* under one key.  torn and size are history variables.                    *)
(***************************************************************************)
EXTENDS Naturals, Sequences, FiniteSets

CONSTANTS
  MaxOid,     \* stored OIDs are in 1..MaxOid
  Good,       \* payloads that resolve and encode
  Mute,       \* payloads _encode_value accepts and the BER encoder refuses:
              \* an 'oid' of one arc
  Bad,        \* payloads that raise in resolve_oid_value or _encode_value
  Missing,    \* not in the cache
  NoOid,      \* the None that _resolve puts in the place of an OID
  Respelt,    \* OIDs stored under another key than tuple_to_oid gives: a
              \* leading dot, a leading zero
  Unnamed,    \* stored OIDs the BER encoder refuses: those of one arc
  Chars,      \* the length of an OID's key
  Longest,    \* bound of Chars: String(256), models/oid_value.py:15
  Octets,     \* what a value and the headers of its var-bind take encoded
  MaxBinds,   \* bound: var-binds of one request
  MaxRep,     \* MAX_REPETITIONS, and the bound on what a client asks
  MaxBytes    \* MAX_RESPONSE_BYTES

ASSUME AgentQueryAssumption ==
  /\ MaxOid \in Nat /\ MaxBinds \in Nat /\ MaxRep \in Nat /\ MaxBytes \in Nat
  /\ Good \cap Bad = {} /\ Mute \cap (Good \cup Bad) = {}
  /\ Missing \notin Good \cup Mute \cup Bad
  /\ NoOid \notin Nat
  /\ {"noSuchObject", "endOfMibView"} \cap (Good \cup Mute \cup Bad) = {}
  /\ Unnamed \subseteq 1..MaxOid
  /\ Longest \in Nat /\ Chars \in [1..MaxOid -> 0..Longest]
  /\ Octets \in [Good \cup Mute -> Nat]

VARIABLES
  cache,    \* MibStore._cache; _pairs and _tuples are its sorted domain
  kind,     \* the PDU in hand, or "idle"
  binds,    \* its OIDs
  nonrep, maxrep,
  pairs,    \* what sorted_pairs() returned, as a set
  pos,      \* the var-bind being answered
  cursor,   \* where a repeater has got to
  left,     \* repetitions it may still make
  target,   \* the OID whose value is about to be read, or NoOid
  bytes,    \* estimated_bytes
  size,     \* what the var-binds counted in bytes take encoded
  rsp,      \* rsp_var_binds: OID, answer and the var-bind it is for
  sent,     \* what became of the last PDU: "none", "sent" or "dropped"
  torn      \* was the cache replaced since pairs was taken?

request == <<binds, nonrep, maxrep, pairs>>
tally == <<bytes, size>>
queryVars == <<cache, kind, request, pos, cursor, left, target, tally, rsp,
               sent, torn>>

Oid    == 1..MaxOid
Values == Good \cup Mute   \* what _encode_value accepts
Tables == [Oid -> Values \cup Bad \cup {Missing}]

\* What a client can put in a request: the decoder takes no other name.
Asked == (0..MaxOid) \ Unnamed
Kinds  == {"get", "getnext", "bulk"}

Stored(t) == {o \in Oid : t[o] # Missing}

\* bisect_right over the sorted tuples.
After(S, t) == {o \in S : o > t}
NextOidGeq(S, t) ==   \* mutant: bisect_left
  CHOOSE o \in S : o >= t /\ \A p \in S : p >= t => o <= p
NextOidLate(S, t) ==  \* mutant: one entry too far
  LET first == CHOOSE o \in After(S, t) : \A p \in After(S, t) : o <= p
      rest == After(S, first)
  IN IF rest = {} THEN first ELSE CHOOSE o \in rest : \A p \in rest : o <= p
NextOid(S, t) == CHOOSE o \in After(S, t) : \A p \in After(S, t) : o <= p

QueryInit ==
  /\ cache \in Tables
  /\ kind = "idle" /\ binds = <<>> /\ nonrep = 0 /\ maxrep = 0 /\ pairs = {}
  /\ pos = 1 /\ cursor = 0 /\ left = 0 /\ target = NoOid
  /\ bytes = 0 /\ size = 0 /\ rsp = <<>> /\ sent = "none" /\ torn = FALSE

-----------------------------------------------------------------------------
(* MibStore._load_all in the listener thread.                              *)

ReloadWith(t) ==
  /\ cache' = t
  /\ torn' = (torn \/ kind # "idle")
  /\ UNCHANGED <<kind, request, pos, cursor, left, target, tally, rsp, sent>>

-----------------------------------------------------------------------------
(* _cb_fun_inner and the two handlers.                                     *)

Capped(mr) == IF mr > MaxRep THEN MaxRep ELSE mr

Receive(k, b, nr, mr) ==
  /\ kind = "idle" /\ b # <<>>
  /\ kind' = k /\ binds' = b /\ nonrep' = nr
  /\ maxrep' = Capped(mr)
  /\ pairs' = Stored(cache)
  /\ pos' = 1 /\ cursor' = b[1] /\ left' = maxrep' /\ target' = NoOid
  /\ bytes' = 0 /\ size' = 0 /\ rsp' = <<>> /\ sent' = "none" /\ torn' = FALSE
  /\ UNCHANGED cache

Answering == kind # "idle" /\ pos <= Len(binds)

\* GETBULK goes on with this var-bind after an answer.
Repeats == kind = "bulk" /\ pos > nonrep

Put(oid, answer) == rsp' = Append(rsp, [oid |-> oid, ans |-> answer, col |-> pos])

NextBind ==
  /\ pos' = pos + 1 /\ left' = maxrep /\ target' = NoOid
  /\ cursor' = IF pos < Len(binds) THEN binds[pos + 1] ELSE cursor

\* GET looks the OID up by its key, once to see whether it is there...
Probe ==
  /\ Answering /\ kind = "get" /\ target = NoOid
  /\ IF cursor \in Stored(cache) \ Respelt
       THEN target' = cursor /\ UNCHANGED <<pos, cursor, left, rsp>>
       ELSE Put(cursor, "noSuchObject") /\ NextBind
  /\ UNCHANGED <<cache, kind, request, tally, sent, torn>>

ColumnFullReps == Repeats /\ left = 0   \* mutant: no byte budget
ColumnFull == Repeats /\ (left = 0 \/ bytes >= MaxBytes)

\* ... GETNEXT and GETBULK find the successor in the list they took.
Successor ==
  /\ Answering /\ kind # "get" /\ target = NoOid /\ ~ColumnFull
  /\ After(pairs, cursor) # {}
  /\ target' = NextOid(pairs, cursor)
  /\ UNCHANGED <<cache, kind, request, pos, cursor, left, tally, rsp, sent, torn>>

EndOfMib ==
  /\ Answering /\ kind # "get" /\ target = NoOid /\ ~ColumnFull
  /\ After(pairs, cursor) = {}
  /\ Put(cursor, "endOfMibView") /\ NextBind
  /\ UNCHANGED <<cache, kind, request, tally, sent, torn>>

\* The repeater has used up max-repetitions or the response its budget.
EndColumn ==
  /\ Answering /\ target = NoOid /\ ColumnFull
  /\ NextBind
  /\ UNCHANGED <<cache, kind, request, tally, rsp, sent, torn>>

\* Then the value is read, under the lock again.
AnswerAny(o) ==   \* mutant: a value that does not encode is answered all the same
  IF cache[o] # Missing THEN CHOOSE g \in Good : TRUE ELSE "noSuchObject"
Answer(o) == IF cache[o] \in Values THEN cache[o] ELSE "noSuchObject"

ReadOnce ==
  /\ Answering /\ kind # "bulk" /\ target # NoOid
  /\ Put(IF cache[target] \in Values THEN target ELSE binds[pos], Answer(target))
  /\ NextBind
  /\ UNCHANGED <<cache, kind, request, tally, sent, torn>>

BulkOid(o) == IF cache[o] = Missing THEN NoOid ELSE o

\* The estimate allows this much for a value, whatever it is.
Allowance == 20
Width(a) == IF a \in Values THEN Octets[a] ELSE 0

ReadBulk ==
  /\ Answering /\ kind = "bulk" /\ target # NoOid
  /\ Put(BulkOid(target), Answer(target))
  /\ bytes' = bytes + Chars[target] + Allowance
  /\ size' = size + Chars[target] + Width(Answer(target))
  /\ IF Repeats
       THEN cursor' = target /\ left' = left - 1 /\ target' = NoOid /\ UNCHANGED pos
       ELSE NextBind
  /\ UNCHANGED <<cache, kind, request, sent, torn>>

\* setVarBinds raises on a None OID, the encoder on a name or a value that is
\* not ASN.1's: _cb_fun drops the packet.
Unsendable(e) == e.oid = NoOid \/ e.oid \in Unnamed \/ e.ans \in Mute

Reply ==
  /\ kind # "idle" /\ pos > Len(binds)
  /\ kind' = "idle"
  /\ sent' = IF \E i \in 1..Len(rsp) : Unsendable(rsp[i]) THEN "dropped" ELSE "sent"
  /\ UNCHANGED <<cache, request, pos, cursor, left, target, tally, rsp, torn>>

Serve == Probe \/ Successor \/ EndOfMib \/ EndColumn \/ ReadOnce \/ ReadBulk \/ Reply

\* Any client, any reload.
AnyRequest ==
  \E k \in Kinds, n \in 1..MaxBinds, nr \in 0..MaxBinds, mr \in 0..(MaxRep + 1) :
    \E b \in [1..n -> Asked] :
      /\ k # "bulk" => nr = 0 /\ mr = 0
      /\ Receive(k, b, nr, mr)

AnyReload == \E t \in Tables : ReloadWith(t)

QueryNext == AnyRequest \/ Serve \/ AnyReload

QuerySpec == QueryInit /\ [][QueryNext]_queryVars

-----------------------------------------------------------------------------
\* What the column of rsp[i] had reached before it.
Before(i) ==
  IF i > 1 /\ rsp[i - 1].col = rsp[i].col THEN rsp[i - 1].oid ELSE binds[rsp[i].col]

\* A GETNEXT or GETBULK column walks the OID list without skipping or
\* repeating: an answered OID is the first one after its predecessor, and
\* endOfMibView is only said when nothing follows.
NoOidSkipped ==
  kind # "idle" /\ kind # "get" =>
    \A i \in 1..Len(rsp) :
      Before(i) # NoOid =>
        /\ rsp[i].ans \in Values =>
             /\ rsp[i].oid > Before(i)
             /\ After(pairs, Before(i)) \cap 1..(rsp[i].oid - 1) = {}
        /\ rsp[i].ans = "endOfMibView" => After(pairs, Before(i)) = {}

\* With the cache left alone a PDU is answered from one table: every value is
\* that table's, GET says noSuchObject of no value stored under its own key, and
\* a response is dropped only for a name or a value that cannot be encoded.
UntornConsistent ==
  ~torn =>
    /\ \A i \in 1..Len(rsp) :
         kind # "idle" =>
           /\ rsp[i].oid # NoOid
           /\ rsp[i].ans \in Values => rsp[i].ans = cache[rsp[i].oid]
           /\ rsp[i].ans = "noSuchObject" /\ kind = "get" =>
                rsp[i].oid \notin {o \in Oid : cache[o] \in Values} \ Respelt
    /\ kind = "idle" /\ sent = "dropped" =>
         \E i \in 1..Len(rsp) : rsp[i].oid \in Unnamed \/ rsp[i].ans \in Mute

\* What the byte budget does bound (agent.py:27-30, 320-323 and 357): the
\* estimate passes it by less than one var-bind, unless the non-repeaters alone
\* do, which are added without a test; and it covers what is sent if no value
\* takes more than the 20 it is allowed.  A longer value is not bounded.
Cost == Longest + Allowance

BudgetRespected ==
  kind = "bulk" =>
    /\ \/ bytes < MaxBytes + Cost
       \/ \E n \in 0..Len(binds) : n <= nonrep /\ bytes <= n * Cost
    /\ (\A i \in 1..Len(rsp) : Width(rsp[i].ans) <= Allowance) => size <= bytes

=============================================================================
