---------------------------- MODULE DiscoveryProofs ----------------------------
(***************************************************************************)
(* Proofs about the discovery script, for any number of devices, of show   *)
(* commands and of receives that give up early: while none has and every   *)
(* device has answered, the stream is in step with the script; and while   *)
(* at most one has, and no device so far shows what looks like the jump    *)
(* host's prompt, the stream is in one of three states and no device's     *)
(* output is recorded under another's name.                                *)
(***************************************************************************)
EXTENDS Discovery, SequenceTheorems, TLAPS

-----------------------------------------------------------------------------
(* The order of the steps.                                                 *)

\* The steps are the framing ones with the show commands in between.
LEMMA StepsAre ==
  /\ DOMAIN Steps = 1..(Len(Shows) + 10) /\ Len(Shows) \in Nat
  /\ Steps[1] = "drain" /\ Steps[2] = "telnet" /\ Steps[3] = "user" /\ Steps[4] = "pass"
  /\ Steps[5] = "again" /\ Steps[6] = "enable" /\ Steps[7] = "secret" /\ Steps[8] = "length"
  /\ \A i \in 1..Len(Shows) : Steps[8 + i] = Shows[i]
  /\ Steps[Len(Shows) + 9] = "exit" /\ Steps[Len(Shows) + 10] = "quit"
BY DiscoveryAssumption DEF DiscoveryAssumption, Steps

\* No show command is a framing step, and none occurs twice.
LEMMA ShownAre ==
  /\ Shown = {Shows[i] : i \in 1..Len(Shows)} /\ Shown \cap Framing = {}
  /\ \A i, j \in 1..Len(Shows) : Shows[i] = Shows[j] => i = j
BY DiscoveryAssumption DEF DiscoveryAssumption, Shown, ToSet

\* No step occurs twice, so that each has one that follows it.
LEMMA StepsDiffer ==
  ASSUME NEW i \in DOMAIN Steps, NEW j \in DOMAIN Steps, Steps[i] = Steps[j] PROVE i = j
<1>1. \A k \in DOMAIN Steps : \/ k \in 1..8 \/ k = Len(Shows) + 9 \/ k = Len(Shows) + 10
                              \/ k - 8 \in 1..Len(Shows) /\ Steps[k] = Shows[k - 8]
  <2>1. \A k \in 1..(Len(Shows) + 10) : \/ k \in 1..8 \/ k = Len(Shows) + 9 \/ k = Len(Shows) + 10
                                        \/ k - 8 \in 1..Len(Shows)
    BY StepsAre
  <2>2. \A k \in Nat : k - 8 \in 1..Len(Shows) => Steps[k] = Shows[k - 8]
    <3>1. ASSUME NEW k \in Nat, k - 8 \in 1..Len(Shows) PROVE Steps[k] = Shows[k - 8]
      <4>1. PICK m : m = k - 8
        OBVIOUS
      <4>2. m \in 1..Len(Shows) /\ k = 8 + m
        BY <3>1, <4>1, StepsAre
      <4>3. QED BY <4>1, <4>2, StepsAre
    <3>2. QED BY <3>1
  <2>3. \A k \in DOMAIN Steps : k \in Nat /\ k \in 1..(Len(Shows) + 10)
    BY StepsAre
  <2>4. QED BY <2>1, <2>2, <2>3
<1>2. \A k \in DOMAIN Steps : (k \in 1..8 \/ k = Len(Shows) + 9 \/ k = Len(Shows) + 10)
                                => Steps[k] \in Framing
  BY StepsAre DEF Framing
<1>3. CASE i - 8 \in 1..Len(Shows) /\ j - 8 \in 1..Len(Shows)
  <2>1. Shows[i - 8] = Shows[j - 8]
    BY <1>1, <1>3, StepsAre
  <2>2. i - 8 = j - 8
    BY <1>3, <2>1, ShownAre
  <2>3. QED BY <2>2, StepsAre
<1>4. CASE i - 8 \in 1..Len(Shows) /\ j - 8 \notin 1..Len(Shows)
  <2>1. Steps[i] = Shows[i - 8] /\ Steps[j] \in Framing
    BY <1>1, <1>2, <1>4
  <2>2. Shows[i - 8] \in Shown
    BY <1>4, ShownAre
  <2>3. QED BY <2>1, <2>2, ShownAre
<1>5. CASE i - 8 \notin 1..Len(Shows) /\ j - 8 \in 1..Len(Shows)
  <2>1. Steps[j] = Shows[j - 8] /\ Steps[i] \in Framing
    BY <1>1, <1>2, <1>5
  <2>2. Shows[j - 8] \in Shown
    BY <1>5, ShownAre
  <2>3. QED BY <2>1, <2>2, ShownAre
<1>6. CASE i - 8 \notin 1..Len(Shows) /\ j - 8 \notin 1..Len(Shows)
  <2> DEFINE place(s) == CASE s = "drain" -> 1 [] s = "telnet" -> 2 [] s = "user" -> 3
                           [] s = "pass" -> 4 [] s = "again" -> 5 [] s = "enable" -> 6
                           [] s = "secret" -> 7 [] s = "length" -> 8
                           [] s = "exit" -> Len(Shows) + 9 [] s = "quit" -> Len(Shows) + 10
  <2>1. \A k \in 1..8 : place(Steps[k]) = k
    <3>1. \A k \in 1..8 : k = 1 \/ k = 2 \/ k = 3 \/ k = 4 \/ k = 5 \/ k = 6 \/ k = 7 \/ k = 8
      OBVIOUS
    <3>2. QED BY <3>1, StepsAre
  <2>2. \A k \in {Len(Shows) + 9, Len(Shows) + 10} : place(Steps[k]) = k
    BY StepsAre
  <2> HIDE DEF place
  <2>3. place(Steps[i]) = i /\ place(Steps[j]) = j
    BY <1>1, <1>6, <2>1, <2>2
  <2>4. QED BY <2>3
<1>7. QED BY <1>3, <1>4, <1>5, <1>6

\* The step after the i-th one is the next.
LEMMA NextStep ==
  ASSUME NEW i \in DOMAIN Steps PROVE Following(Steps[i]) = Steps[i + 1]
<1> DEFINE m == CHOOSE j \in DOMAIN Steps : Steps[j] = Steps[i]
<1>1. m \in DOMAIN Steps /\ Steps[m] = Steps[i]
  OBVIOUS
<1>2. m = i
  BY <1>1, StepsDiffer
<1>3. QED BY <1>2 DEF Following

\* What a step may follow: a show command the one before it, or the first one
\* the paging; exit the last.
LEMMA FollowingAre ==
  /\ Following("drain") = "telnet" /\ Following("again") = "enable"
  /\ Following("secret") = "length"
  /\ Following("length") = IF Len(Shows) = 0 THEN "exit" ELSE Shows[1]
  /\ \A i \in 1..Len(Shows) :
       Following(Shows[i]) = IF i = Len(Shows) THEN "exit" ELSE Shows[i + 1]
<1>1. \A i \in 1..(Len(Shows) + 10) : Following(Steps[i]) = Steps[i + 1]
  BY NextStep, StepsAre
<1>2. Following("drain") = "telnet" /\ Following("again") = "enable" /\ Following("secret") = "length"
  BY <1>1, StepsAre
<1>3. Following("length") = Steps[9]
  BY <1>1, StepsAre
<1>4. Steps[9] = IF Len(Shows) = 0 THEN "exit" ELSE Shows[1]
  <2>1. Len(Shows) # 0 => 1 \in 1..Len(Shows) /\ Steps[8 + 1] = Shows[1]
    BY StepsAre
  <2>2. QED BY <2>1, StepsAre
<1>5. ASSUME NEW i \in 1..Len(Shows)
      PROVE  Following(Shows[i]) = IF i = Len(Shows) THEN "exit" ELSE Shows[i + 1]
  <2>1. Steps[8 + i] = Shows[i] /\ Following(Steps[8 + i]) = Steps[9 + i]
    BY <1>1, StepsAre
  <2>2. i # Len(Shows) => i + 1 \in 1..Len(Shows) /\ Steps[8 + (i + 1)] = Shows[i + 1]
    BY StepsAre
  <2>3. 8 + (i + 1) = 9 + i
    OBVIOUS
  <2>4. QED BY <2>1, <2>2, <2>3, StepsAre
<1>6. QED BY <1>2, <1>3, <1>4, <1>5

-----------------------------------------------------------------------------
(* Sequences.                                                              *)

\* A sequence of two entries is the pair of them.
LEMMA Pairs ==
  ASSUME NEW S, NEW p \in S, NEW q \in S, NEW s \in Seq(S), Len(s) = 2, s[1] = p, s[2] = q
  PROVE  s = <<p, q>> /\ s # <<>>
<1>1. <<p, q>> \in Seq(S)
  OBVIOUS
<1>2. Len(<<p, q>>) = 2 /\ <<p, q>>[1] = p /\ <<p, q>>[2] = q
  OBVIOUS
<1>3. \A i \in 1..2 : s[i] = <<p, q>>[i]
  BY <1>2
<1>4. QED BY <1>1, <1>2, <1>3

\* A sequence of two pieces is cut in front of the second one or after it.
LEMMA Halves ==
  ASSUME NEW S, NEW t \in Seq(S), NEW r \in Seq(S), NEW p \in S, NEW q \in S, t \o r = <<p, q>>, Len(t) > 0
  PROVE  \/ r = <<>> /\ t = <<p, q>>
         \/ r # <<>> /\ Len(t) = 1 /\ t[1] = p
<1>1. Len(t) \in Nat /\ Len(r) \in Nat /\ Len(t) + Len(r) = 2
  <2>1. Len(t \o r) = Len(t) + Len(r) 
    BY ConcatProperties
  <2>2. Len(<<p, q>>) = 2
    OBVIOUS
  <2>3. Len(t) + Len(r) = 2
    BY <2>1, <2>2, Zenon
  <2>4. QED BY <2>3, LenProperties
<1>2. t[1] = p
  <2>0. 1 \in 1..(Len(t) + Len(r)) /\ 1 <= Len(t)
    BY <1>1
  <2>4. \A i \in 1 .. Len(t) + Len(r) : (t \o r)[i] = IF i <= Len(t) THEN t[i] ELSE r[i - Len(t)]
    BY ConcatProperties
  <2>1. t[1] = (t \o r)[1]
    BY <2>0, <2>4, Zenon
  <2>2. <<p, q>>[1] = p
    OBVIOUS
  <2>3. QED BY <2>1, <2>2
<1>3. CASE r = <<>>
  <2>1. t \o r = t
    BY <1>3, ConcatEmptySeq
  <2>2. QED BY <1>3, <2>1
<1>4. CASE r # <<>>
  <2>1. Len(r) \in Nat \ {0}
    BY <1>4, EmptySeq
  <2>2. \A m, n \in Nat : m + n = 2 /\ m > 0 /\ n # 0 => m = 1
    OBVIOUS
  <2>3. Len(t) = 1
    BY <1>1, <2>1, <2>2
  <2>4. QED BY <1>2, <1>4, <2>3
<1>5. QED BY <1>3, <1>4

Cuts(b, o, k, t, r) ==
  /\ k \in 1..Len(o) /\ Len(t) = Len(b) + k /\ Len(r) = Len(o) - k
  /\ \A i \in 1..Len(b) : t[i] = b[i]
  /\ \A i \in (Len(b) + 1)..Len(t) : t[i] = o[i - Len(b)]
  /\ \A i \in 1..Len(r) : r[i] = o[k + i]

\* What a receive takes and what it leaves are what there was.
LEMMA Whole ==
  ASSUME NEW S, NEW b \in Seq(S), NEW o \in Seq(S), NEW t \in Seq(S), NEW r \in Seq(S),
         NEW k, Cuts(b, o, k, t, r)
  PROVE  t \o r = b \o o
<1>0. /\ k \in 1..Len(o) /\ Len(t) = Len(b) + k /\ Len(r) = Len(o) - k
      /\ \A i \in 1..Len(b) : t[i] = b[i]
      /\ \A i \in (Len(b) + 1)..Len(t) : t[i] = o[i - Len(b)]
      /\ \A i \in 1..Len(r) : r[i] = o[k + i]
  BY DEF Cuts
<1>1. PICK x : x = t \o r
  OBVIOUS
<1>2. PICK y : y = b \o o
  OBVIOUS
<1>3. /\ x \in Seq(S) /\ Len(x) = Len(t) + Len(r)
      /\ \A i \in 1..(Len(t) + Len(r)) : x[i] = IF i <= Len(t) THEN t[i] ELSE r[i - Len(t)]
  BY <1>1, ConcatProperties, Zenon
<1>4. /\ y \in Seq(S) /\ Len(y) = Len(b) + Len(o)
      /\ \A i \in 1..(Len(b) + Len(o)) : y[i] = IF i <= Len(b) THEN b[i] ELSE o[i - Len(b)]
  BY <1>2, ConcatProperties, Zenon
<1>5. Len(b) \in Nat /\ Len(o) \in Nat /\ Len(t) \in Nat /\ Len(r) \in Nat
  BY LenProperties
<1>6. Len(x) = Len(y)
  BY <1>0, <1>3, <1>4, <1>5
<1>7. ASSUME NEW i \in 1..Len(x) PROVE x[i] = y[i]
  <2>1. i \in Nat /\ i \in 1..(Len(t) + Len(r)) /\ i \in 1..(Len(b) + Len(o))
    BY <1>3, <1>4, <1>5, <1>6
  <2>2. CASE i <= Len(b)
    <3>1. i \in 1..Len(b) /\ i <= Len(t)
      BY <1>0, <1>5, <2>1, <2>2
    <3>2. QED BY <1>0, <1>3, <1>4, <2>1, <2>2, <3>1, Zenon
  <2>3. CASE ~(i <= Len(b)) /\ i <= Len(t)
    <3>1. i \in (Len(b) + 1)..Len(t)
      BY <1>0, <1>5, <2>1, <2>3
    <3>2. QED BY <1>0, <1>3, <1>4, <2>1, <2>3, <3>1, Zenon
  <2>4. CASE ~(i <= Len(b)) /\ ~(i <= Len(t))
    <3>1. i - Len(t) \in 1..Len(r) /\ k + (i - Len(t)) = i - Len(b)
      BY <1>0, <1>5, <2>1, <2>4
    <3>2. QED BY <1>0, <1>3, <1>4, <2>1, <2>4, <3>1, Zenon
  <2>5. QED BY <1>5, <2>1, <2>2, <2>3, <2>4
<1>8. QED BY <1>1, <1>2, <1>3, <1>4, <1>6, <1>7, SeqEqual, Zenon

-----------------------------------------------------------------------------
(* Types.                                                                  *)

Names   == Framing \cup Shown
States  == {"shell", "closed", "hang", "login", "password", "exec", "enable", "priv"}
Symbols == {"$", ">", "> ", "#", "# ", "Password", "Username"}
LineSet  == [host : Hosts, what : Names]
PieceSet == [by : 0..N, to : Names \cup {"login"}, marks : SUBSET Symbols]
FarSet   == [at : 0..N, state : States]
Gotten   == [Shown -> Seq(PieceSet)]

\* Only the jump host has a shell, and only it closes the channel.
Placed(f) == f \in FarSet /\ (f.at = 0 <=> f.state \in {"shell", "closed"})

DiscTypes ==
  /\ kind \in [Hosts -> AllKinds] /\ Placed(far)
  /\ typed \in Seq(LineSet) /\ out \in Seq(PieceSet) /\ buf \in Seq(PieceSet)
  /\ host \in 1..(N + 1) /\ step \in Names /\ waiting \in BOOLEAN /\ late \in Nat
  /\ waiting => step # "exit" /\ (host \in Hosts \/ step = "drain")
  /\ got \in Gotten
  /\ results \in [Hosts -> [status : {"none", "ok", "error"}, shows : Gotten]]

\* Devices are numbered from 1.
LEMMA Numbered == N \in Nat /\ Hosts = 1..N
BY DiscoveryAssumption DEF DiscoveryAssumption, Hosts

\* What each state of a device prompts with.
LEMMA Promises ==
  /\ DOMAIN Prompt = {"shell", "login", "password", "exec", "enable", "priv"}
  /\ Prompt["shell"] = {"$"} /\ Prompt["login"] = {"Username"} /\ Prompt["password"] = {"Password"}
  /\ Prompt["exec"] = {">"} /\ Prompt["enable"] = {"Password"} /\ Prompt["priv"] = {"#"}
BY DEF Prompt

\* What looks like a prompt in what a device shows.
LEMMA MarkedAre ==
  ASSUME NEW d
  PROVE  /\ Marked(d) \in SUBSET Symbols
         /\ kind[d] # "loud" => Marked(d) \subseteq {"#"}
         /\ kind[d] \notin {"noisy", "loud"} => Marked(d) = {}
<1>1. CASE kind[d] = "noisy"
  BY <1>1 DEF Marked, Symbols
<1>2. CASE kind[d] = "loud"
  BY <1>2 DEF Marked, Symbols
<1>3. CASE kind[d] \notin {"noisy", "loud"}
  BY <1>3 DEF Marked, Symbols
<1>4. QED BY <1>1, <1>2, <1>3

\* What is read is answered: first the output, then the prompt of where it led.
Tagged(next, l) ==
  IF next.state \in DOMAIN Prompt THEN <<Piece(next.at, l.what, Prompt[next.state])>> ELSE <<>>

\* Where a line leads is a place of the far end.
LEMMA LeadsType ==
  ASSUME DiscTypes, NEW l \in LineSet, NEW next \in Leads(l) PROVE Placed(next)
<1>1. far \in FarSet /\ Placed(far) /\ l.host \in 0..N /\ l.host # 0 /\ kind[l.host] \in AllKinds
  BY Numbered DEF DiscTypes, Placed, LineSet
<1>2. Placed(At(0, "shell")) /\ Placed(At(0, "closed"))
  BY Numbered DEF Placed, At, FarSet, States
<1>3. \A d \in 0..N, s \in {"hang", "login", "password", "exec", "enable", "priv"} :
        d # 0 => Placed(At(d, s))
  BY Numbered DEF Placed, At, FarSet, States
<1>4. far.state \notin {"shell", "closed"} => far.at \in 0..N /\ far.at # 0
  BY <1>1 DEF Placed, FarSet
<1>5. far.state \in States
  BY <1>1 DEF FarSet
<1>6. \/ next = far \/ next \in {At(0, "shell"), At(0, "closed")}
      \/ next.state \in {"hang", "login", "password"} /\ next = At(l.host, next.state)
      \/ /\ far.state \notin {"shell", "closed"}
         /\ next \in {At(far.at, "password"), At(far.at, "exec"), At(far.at, "priv"), At(far.at, "enable")}
  <2>1. CASE far.state = "shell"
    BY <2>1 DEF Leads, At
  <2>2. CASE far.state # "shell" /\ l.what = "quit"
    BY <2>2 DEF Leads
  <2>3. CASE far.state = "login" /\ l.what # "quit"
    BY <2>3 DEF Leads
  <2>4. CASE far.state = "password" /\ l.what # "quit"
    BY <2>4 DEF Leads
  <2>5. CASE far.state = "enable" /\ l.what # "quit"
    BY <2>5 DEF Leads
  <2>6. CASE far.state \in {"exec", "priv"} /\ l.what # "quit"
    BY <2>6 DEF Leads
  <2>7. CASE far.state \in {"closed", "hang"} /\ l.what # "quit"
    BY <2>7 DEF Leads
  <2>8. QED BY <1>5, <2>1, <2>2, <2>3, <2>4, <2>5, <2>6, <2>7 DEF States
<1>7. QED BY <1>1, <1>2, <1>3, <1>4, <1>6

\* What is written in answer to a line are pieces.
LEMMA AnswerType ==
  ASSUME DiscTypes, NEW l \in LineSet, NEW next, Placed(next)
  PROVE  Body(l) \in Seq(PieceSet) /\ Tagged(next, l) \in Seq(PieceSet)
<1>1. \A d \in 0..N, m \in SUBSET Symbols : Piece(d, l.what, m) \in PieceSet
  BY DEF Piece, PieceSet, LineSet
<1>2. Body(l) \in Seq(PieceSet)
  <2>1. far.at \in 0..N /\ {">", "> "} \subseteq Symbols
    BY DEF DiscTypes, Placed, FarSet, Symbols
  <2>2. 0 \in 0..N
    BY Numbered
  <2>4. Piece(0, "quit", {">", "> "}) \in PieceSet
    BY <2>1, <2>2 DEF Piece, PieceSet, Names, Framing
  <2>5. PICK m : m = Marked(far.at)
    OBVIOUS
  <2>6. Piece(far.at, l.what, m) \in PieceSet
    BY <1>1, <2>1, <2>5, MarkedAre
  <2>7. /\ <<Piece(far.at, l.what, m)>> \in Seq(PieceSet) /\ <<>> \in Seq(PieceSet)
        /\ <<Piece(0, "quit", {">", "> "})>> \in Seq(PieceSet)
    <3>1. \A p \in PieceSet : <<p>> \in Seq(PieceSet)
      OBVIOUS
    <3>2. <<>> \in Seq(PieceSet)
      OBVIOUS
    <3>3. QED BY <2>4, <2>6, <3>1, <3>2, Zenon
  <2>8. Body(l) \in {<<Piece(far.at, l.what, m)>>, <<Piece(0, "quit", {">", "> "})>>, <<>>}
    BY <2>5, Zenon DEF Body
  <2>9. QED BY <2>7, <2>8
<1>3. Tagged(next, l) \in Seq(PieceSet)
  <2>1. next.at \in 0..N
    BY DEF Placed, FarSet
  <2>2. next.state \in DOMAIN Prompt => Prompt[next.state] \subseteq Symbols
    BY Promises DEF Symbols
  <2>3. QED BY <1>1, <2>1, <2>2 DEF Tagged
<1>4. QED BY <1>2, <1>3

\* A line is read and answered.
ReadsLine(l, next) ==
  /\ typed # <<>> /\ l = Head(typed) /\ l \in LineSet /\ far.state \notin {"closed", "hang"}
  /\ next \in Leads(l) /\ Placed(next) /\ far' = next
  /\ Body(l) \in Seq(PieceSet) /\ Tagged(next, l) \in Seq(PieceSet)
  /\ out' = out \o Body(l) \o Tagged(next, l) /\ typed' = Tail(typed)
  /\ UNCHANGED <<kind, host, step, waiting, said, buf, got, results, late>>

\* Reads takes the first line typed and answers it (a line of the jump host or a device).
LEMMA ReadsDoes == ASSUME DiscTypes, Reads PROVE \E l, next : ReadsLine(l, next)
<1>1. PICK l : l = Head(typed)
  OBVIOUS
<1>2. typed # <<>> /\ far.state \notin {"closed", "hang"} /\ l \in LineSet
  BY <1>1 DEF Reads, DiscTypes
<1>3. PICK next \in Leads(l) : far' = next /\ out' = out \o Body(l) \o Tagged(next, l)
  BY <1>1 DEF Reads, Tagged
<1>4. Placed(next) /\ Body(l) \in Seq(PieceSet) /\ Tagged(next, l) \in Seq(PieceSet)
  BY <1>2, LeadsType, AnswerType
<1>5. typed' = Tail(typed) /\ UNCHANGED <<kind, host, step, waiting, said, buf, got, results, late>>
  BY DEF Reads, scriptVars
<1>6. QED BY <1>1, <1>2, <1>3, <1>4, <1>5 DEF ReadsLine

\* The script has a line to send.
SendsLine ==
  /\ ~waiting /\ host \in Hosts /\ far.state # "closed" /\ Line \in LineSet
  /\ typed' = Append(typed, Line) /\ buf' = <<>>
  /\ \/ step = "exit" /\ step' = "quit" /\ waiting' = FALSE
     \/ step # "exit" /\ step' = step /\ waiting' = TRUE
  /\ UNCHANGED <<kind, far, out, host, said, got, results, late>>

\* The channel is closed under it.
SendsNone ==
  /\ ~waiting /\ host \in Hosts /\ far.state = "closed" /\ Record(Entry("error", Nothing))
  /\ waiting' = FALSE /\ buf' = <<>> /\ UNCHANGED <<kind, far, typed, out, late>>

\* A step types its line, or finds the channel closed and records the error.
LEMMA SendsDoes == ASSUME DiscTypes, Sends PROVE SendsLine \/ SendsNone
<1>1. Line \in LineSet /\ waiting \in BOOLEAN
  BY DEF Sends, DiscTypes, Line, LineSet, Names, Framing
<1>2. QED BY <1>1 DEF Sends, SendsLine, SendsNone, Fresh

\* A receive that has its text goes on to the next step.
GoesOn(text) ==
  /\ step # "quit" /\ step' = Continue(Marks(text) \cup IF step = "user" THEN said ELSE {})
  /\ said' = Marks(text) /\ got' = IF step \in Shown THEN [got EXCEPT ![step] = text] ELSE got
  /\ UNCHANGED <<host, results>>

\* A receive that returns ends the entry, or the script goes on.
LEMMA ReturnsDoes ==
  ASSUME NEW text, Returns(text)
  PROVE  /\ waiting' = FALSE /\ buf' = text
         /\ (step = "quit" /\ Record(Entry("ok", got))) \/ GoesOn(text)
BY DEF Returns, GoesOn

\* The step that follows a receive is a step.
LEMMA ContinuesTo ==
  ASSUME step \in Names, step \notin {"exit", "quit"}, NEW marks PROVE Continue(marks) \in Names
<1>1. step \in {"telnet", "user", "pass", "enable"} => Continue(marks) \in Framing
  BY DEF Continue, Framing
<1>2. step \in {"drain", "again", "secret"} => Continue(marks) \in Framing
  BY FollowingAre DEF Continue, Framing
<1>3. step = "length" => Continue(marks) \in Names
  BY FollowingAre, ShownAre, StepsAre DEF Continue, Framing, Names
<1>4. step \in Shown => Continue(marks) \in Names
  <2>1. ASSUME NEW i \in 1..Len(Shows), step = Shows[i] PROVE Following(step) \in Names
    <3>1. i # Len(Shows) => i + 1 \in 1..Len(Shows)
      BY StepsAre
    <3>2. QED BY <2>1, <3>1, FollowingAre, ShownAre DEF Names, Framing
  <2>2. step \in Shown => step \notin {"telnet", "user", "pass", "enable"}
    BY ShownAre DEF Framing
  <2>3. QED BY <2>1, <2>2, ShownAre DEF Continue
<1>5. QED BY <1>1, <1>2, <1>3, <1>4 DEF Names, Framing

\* A recorded entry keeps the types.
LEMMA RecordType ==
  ASSUME DiscTypes, NEW status \in {"ok", "error"}, NEW shows \in Gotten, host \in Hosts,
         Record(Entry(status, shows))
  PROVE  /\ host' \in 1..(N + 1) /\ step' = "telnet" /\ got' \in Gotten
         /\ results' \in [Hosts -> [status : {"none", "ok", "error"}, shows : Gotten]]
<1>1. Nothing \in Gotten
  BY DEF Nothing, Gotten
<1>2. Entry(status, shows) \in [status : {"none", "ok", "error"}, shows : Gotten]
  BY DEF Entry
<1>3. host' \in 1..(N + 1)
  BY Numbered DEF Record
<1>4. QED BY <1>1, <1>2, <1>3 DEF Record, DiscTypes

\* What a receive took, and what it left, are pieces.
LEMMA TextType ==
  ASSUME DiscTypes, NEW k \in 1..Len(out)
  PROVE  buf \o SubSeq(out, 1, k) \in Seq(PieceSet) /\ SubSeq(out, k + 1, Len(out)) \in Seq(PieceSet)
<1>1. out \in Seq(PieceSet) /\ buf \in Seq(PieceSet)
  BY DEF DiscTypes
<1>2. QED BY <1>1

\* A receive that returns keeps the types.
LEMMA ReturnsType ==
  ASSUME DiscTypes, waiting, NEW text \in Seq(PieceSet), Returns(text),
         UNCHANGED <<kind, far, typed, late>> \/ UNCHANGED <<kind, far, typed>>, late' \in Nat,
         out' \in Seq(PieceSet)
  PROVE  DiscTypes'
<1>1. /\ waiting' = FALSE /\ buf' = text
      /\ (step = "quit" /\ Record(Entry("ok", got))) \/ GoesOn(text)
  BY ReturnsDoes
<1>2. Placed(far)' /\ kind' = kind /\ typed' \in Seq(LineSet)
  BY DEF DiscTypes, Placed
<1>3. CASE step = "quit" /\ Record(Entry("ok", got))
  <2>1. got \in Gotten /\ host \in Hosts
    BY <1>3 DEF DiscTypes
  <2>2. /\ host' \in 1..(N + 1) /\ step' = "telnet" /\ got' \in Gotten
        /\ results' \in [Hosts -> [status : {"none", "ok", "error"}, shows : Gotten]]
    BY <1>3, <2>1, RecordType
  <2>3. QED BY <1>1, <1>2, <2>2 DEF DiscTypes, Names, Framing
<1>4. CASE GoesOn(text)
  <2>1. step' \in Names
    BY <1>4, ContinuesTo DEF GoesOn, DiscTypes
  <2>2. got' \in Gotten
    BY <1>4 DEF GoesOn, DiscTypes, Gotten
  <2>3. QED BY <1>1, <1>2, <1>4, <2>1, <2>2 DEF DiscTypes, GoesOn
<1>5. QED BY <1>1, <1>3, <1>4

\* The script starts well typed.
LEMMA TypesInitially == DiscInit => DiscTypes
<1> SUFFICES ASSUME DiscInit PROVE DiscTypes
  OBVIOUS
<1>1. kind \in [Hosts -> AllKinds] /\ Placed(far)
  BY Numbered, DiscoveryAssumption
     DEF DiscInit, DiscoveryAssumption, Placed, FarSet, States
<1>2. out \in Seq(PieceSet)
  BY Numbered DEF DiscInit, Piece, PieceSet, Symbols
<1>3. host \in 1..(N + 1)
  BY Numbered DEF DiscInit
<1>4. Nothing \in Gotten /\ Entry("none", Nothing) \in [status : {"none", "ok", "error"}, shows : Gotten]
  BY DEF Nothing, Gotten, Entry
<1>5. QED BY <1>1, <1>2, <1>3, <1>4 DEF DiscInit, DiscTypes, Names, Framing

\* Every step keeps the types.
LEMMA TypesStep == DiscTypes /\ [DiscNext]_discVars => DiscTypes'
<1> SUFFICES ASSUME DiscTypes, [DiscNext]_discVars PROVE DiscTypes'
  OBVIOUS
<1>1. CASE Reads
  <2>1. PICK l, next : ReadsLine(l, next)
    BY <1>1, ReadsDoes
  <2>2. typed' \in Seq(LineSet) /\ out' \in Seq(PieceSet) /\ Placed(far)'
    BY <2>1 DEF ReadsLine, DiscTypes, Placed
  <2>3. QED BY <2>1, <2>2 DEF ReadsLine, DiscTypes
<1>2. CASE Escapes
  <2>1. typed' \in Seq(LineSet)
    <3>1. Last(typed) \in LineSet
      BY <1>2 DEF Escapes, DiscTypes, Last
    <3>2. QED BY <1>2, <3>1 DEF Escapes
  <2>2. QED BY <1>2, <2>1 DEF Escapes, DiscTypes, scriptVars, Placed
<1>3. CASE GivesUp
  <2>1. Placed(At(0, "shell")) /\ Piece(0, "telnet", {"$"}) \in PieceSet
    BY Numbered DEF Placed, At, FarSet, States, Piece, PieceSet, Names, Framing, Symbols
  <2>2. out' \in Seq(PieceSet) /\ Placed(far)'
    BY <1>3, <2>1 DEF GivesUp, DiscTypes, Placed
  <2>3. QED BY <1>3, <2>2 DEF GivesUp, DiscTypes, scriptVars
<1>4. CASE Sends
  <2>1. CASE SendsLine
    <3>1. typed' \in Seq(LineSet)
      BY <2>1 DEF SendsLine, DiscTypes
    <3>2. Placed(far)'
      BY <2>1 DEF SendsLine, DiscTypes, Placed
    <3>3. step' \in Names /\ (waiting' => step' # "exit") /\ waiting' \in BOOLEAN
      BY <2>1 DEF SendsLine, DiscTypes, Names, Framing
    <3>4. <<>> \in Seq(PieceSet)
      OBVIOUS
    <3>5. QED BY <2>1, <3>1, <3>2, <3>3, <3>4 DEF SendsLine, DiscTypes
  <2>2. CASE SendsNone
    <3>1. Nothing \in Gotten
      BY DEF Nothing, Gotten
    <3>2. /\ host' \in 1..(N + 1) /\ step' = "telnet" /\ got' \in Gotten
          /\ results' \in [Hosts -> [status : {"none", "ok", "error"}, shows : Gotten]]
      BY <2>2, <3>1, RecordType DEF SendsNone
    <3>3. Placed(far)'
      BY <2>2 DEF SendsNone, DiscTypes, Placed
    <3>4. step' \in Names
      BY <3>2 DEF Names, Framing
    <3>5. /\ kind' \in [Hosts -> AllKinds] /\ typed' \in Seq(LineSet) /\ out' \in Seq(PieceSet)
          /\ late' \in Nat /\ buf' \in Seq(PieceSet) /\ waiting' = FALSE
      <4>1. <<>> \in Seq(PieceSet)
        OBVIOUS
      <4>2. QED BY <2>2, <4>1 DEF SendsNone, DiscTypes
    <3>6. QED BY <3>2, <3>3, <3>4, <3>5 DEF DiscTypes
  <2>3. QED BY <1>4, <2>1, <2>2, SendsDoes
<1>5. CASE Receives
  <2>1. PICK k \in 1..Len(out) :
          /\ out' = SubSeq(out, k + 1, Len(out))
          /\ \/ Returns(buf \o SubSeq(out, 1, k))
             \/ /\ buf' = buf \o SubSeq(out, 1, k)
                /\ UNCHANGED <<host, step, waiting, said, got, results>>
    BY <1>5 DEF Receives
  <2>2. buf \o SubSeq(out, 1, k) \in Seq(PieceSet) /\ out' \in Seq(PieceSet)
    BY <2>1, TextType
  <2>3. UNCHANGED <<kind, far, typed, late>> /\ waiting
    BY <1>5 DEF Receives
  <2>4. CASE Returns(buf \o SubSeq(out, 1, k))
    BY <2>2, <2>3, <2>4, ReturnsType DEF DiscTypes
  <2>5. CASE /\ buf' = buf \o SubSeq(out, 1, k)
             /\ UNCHANGED <<host, step, waiting, said, got, results>>
    BY <2>2, <2>3, <2>5 DEF DiscTypes, Placed
  <2>6. QED BY <2>1, <2>4, <2>5
<1>6. CASE Expires
  <2>1. waiting /\ Returns(buf) /\ UNCHANGED <<kind, far, typed, out>> /\ late' \in Nat
    BY <1>6, DiscoveryAssumption DEF Expires, farVars, DiscTypes, DiscoveryAssumption
  <2>2. QED BY <2>1, ReturnsType DEF DiscTypes
<1>7. CASE UNCHANGED discVars
  BY <1>7 DEF discVars, farVars, scriptVars, DiscTypes, Placed
<1>8. QED BY <1>1, <1>2, <1>3, <1>4, <1>5, <1>6, <1>7 DEF DiscNext

\* The far end, the stream and the entries keep their types.
LEMMA TypesAlways == DiscSpec => []DiscTypes
BY TypesInitially, TypesStep, PTL DEF DiscSpec

-----------------------------------------------------------------------------
(* In step: where the far end and the stream are while the script is at    *)
(* each of its steps, if no receive has given up early and this device and *)
(* those before it answer.                                                 *)

AtShell == far = At(0, "shell")
Quits(lines) == \A i \in 1..Len(lines) : lines[i].what = "quit"

\* What is left of the session before: prompts of telnet and the shell.
Rest(p) == p.by = 0 /\ p.marks \in {{"$"}, {">", "> "}}
AllRest(pieces) == \A i \in 1..Len(pieces) : Rest(pieces[i])
Rested == AtShell /\ Quits(typed) /\ AllRest(out)

\* telnet has been typed: the shell is to read it, or the login prompt comes last.
Greeting == IF kind[host] = "user" THEN "login" ELSE "password"
Dials ==
  /\ AtShell /\ AllRest(out) /\ Len(typed) > 0
  /\ typed[Len(typed)] = [host |-> host, what |-> "telnet"]
  /\ \A i \in 1..(Len(typed) - 1) : typed[i].what = "quit"
Greeted ==
  /\ far = At(host, Greeting) /\ typed = <<>> /\ Len(out) > 0
  /\ out[Len(out)].marks = Prompt[Greeting]
  /\ \A i \in 1..(Len(out) - 1) : Rest(out[i])
Dialing == AllRest(buf) /\ (Dials \/ Greeted)

\* One command, one answer: nothing is under way when a command is sent.
Before(s) == CASE s = "user" -> {"login"} [] s = "pass" -> {"password"}
               [] s = "enable" -> {"exec", "priv"} [] s = "secret" -> {"enable"}
               [] OTHER -> {"priv"}
After(s) == CASE s = "user" -> {"password"} [] s = "pass" -> {"exec", "priv"}
              [] s = "enable" -> {"enable", "priv"} [] OTHER -> {"priv"}
Own(d, s) == <<Piece(d, s, {}), Piece(d, s, {"#"})>>
Idle == typed = <<>> /\ out = <<>> /\ far.at = host /\ far.state \in Before(step)
Asked ==
  /\ typed = <<[host |-> host, what |-> step]>> /\ out = <<>> /\ buf = <<>>
  /\ far.at = host /\ far.state \in Before(step)
Answered ==
  /\ typed = <<>> /\ far.at = host /\ far.state \in After(step)
  /\ IF step \in Shown THEN out # <<>> /\ buf \o out = Own(host, step)
     ELSE buf = <<>> /\ out = <<Piece(host, step, Prompt[far.state])>>

\* The prompts of a device that echoes prompts are not in step: its commands
\* are read in order, and exit and ^] quit after them.
Noise(pieces) == \A i \in 1..Len(pieces) : pieces[i].marks \subseteq {"#"}
\* The lines typed before the last one.
Earlier(i) ==
  \/ typed[i].what \in Shown
  \/ waiting /\ i = Len(typed) - 1 /\ typed[i].what = "exit"
Staying ==
  /\ far = At(host, "priv") /\ Noise(out)
  /\ step # "quit" => \A i \in 1..Len(typed) : typed[i].what \in Shown
  /\ step = "quit" =>
       /\ Len(typed) > 0 /\ typed[Len(typed)].what = IF waiting THEN "quit" ELSE "exit"
       /\ \A i \in 1..(Len(typed) - 1) : Earlier(i)
Gone ==
  /\ step = "quit" /\ AtShell /\ Quits(typed)
  /\ \E m \in 0..Len(out) : /\ \A i \in 1..m : out[i].marks \subseteq {"#"}
                            /\ \A i \in (m + 1)..Len(out) : Rest(out[i])
Leaving == (waiting => Noise(buf)) /\ (Staying \/ Gone)

\* The steps at which the device and the script take turns, and those after them.
Asking == \/ step \in {"user", "pass", "enable", "secret", "length"}
          \/ step \in Shown /\ kind[host] # "noisy"
Exiting == \/ step \in {"exit", "quit"}
           \/ step \in Shown /\ kind[host] = "noisy"

Stage ==
  /\ step # "again"
  /\ step = "drain" => waiting
  /\ step = "drain" \/ (step = "telnet" /\ ~waiting) => Rested
  /\ step = "telnet" /\ waiting => Dialing
  /\ Asking /\ waiting => Asked \/ Answered
  /\ Asking /\ ~waiting => Idle
  /\ Exiting => Leaving

\* The device answers and no receive has given up early; in step if those before
\* answered as well.
Attended == late = 0 /\ host \in Hosts /\ kind[host] \in Answering
InStep == late = 0 /\ host \in Hosts /\ \A e \in 1..host : kind[e] \in Answering
InStage == InStep => Stage

Past(i) == step \in {"exit", "quit"} \/ \E j \in 1..Len(Shows) : step = Shows[j] /\ i < j
GotRight == InStep /\ kind[host] # "noisy" =>
              \A i \in 1..Len(Shows) : Past(i) => got[Shows[i]] = Own(host, Shows[i])

Right(d) == Recorded(d) /\ \A s \in Shown : results[d].shows[s] = Own(d, s)
DoneRight ==
  \A d \in Hosts :
    IF d >= host THEN results[d].status = "none"
    ELSE (late = 0 /\ kind[d] \in {"line", "user"} /\ \A e \in 1..(d - 1) : kind[e] \in Answering)
           => Right(d)

-----------------------------------------------------------------------------
(* What a line that is read does in each stage.                            *)

\* A framing step is no show command.
LEMMA Plain == \A s \in Framing : s \notin Shown
BY ShownAre

\* What each receive of the login waits for.
LEMMA Endless ==
  /\ DOMAIN Ending = {"drain", "telnet", "user", "pass", "again", "enable", "secret", "quit"}
  /\ Ending["drain"] = {"$", "# ", "> "} /\ Ending["telnet"] = {"Password", "Username"}
  /\ Ending["user"] = {"Password"} /\ Ending["pass"] = {"#", ">", "Password"}
  /\ Ending["again"] = {"#", ">"} /\ Ending["enable"] = {"Password", "#"} /\ Ending["secret"] = {"#"}
  /\ Ending["quit"] = {"$", "# ", "> "}
BY DEF Ending, AtHost

\* The far end is where it is and in the state it is in.
LEMMA FarIs ==
  ASSUME DiscTypes
  PROVE  /\ far.at \in 0..N /\ far.state \in States /\ (far.at = 0 <=> far.state \in {"shell", "closed"})
         /\ \A d, s : far = At(d, s) <=> far.at = d /\ far.state = s
<1>1. far \in FarSet /\ (far.at = 0 <=> far.state \in {"shell", "closed"})
  BY DEF DiscTypes, Placed
<1>2. \A d, s : At(d, s).at = d /\ At(d, s).state = s
  BY DEF At
<1>3. far = [at |-> far.at, state |-> far.state]
  BY <1>1 DEF FarSet
<1>4. QED BY <1>1, <1>2, <1>3 DEF FarSet, At

\* A line that has no output of its own gets the prompt only.
LEMMA ReadsShort ==
  ASSUME DiscTypes, NEW l, NEW next, ReadsLine(l, next), Body(l) = <<>>, next.state \in DOMAIN Prompt
  PROVE  \E p : p = Piece(next.at, l.what, Prompt[next.state]) /\ p \in PieceSet /\ out' = Append(out, p)
<1>1. PICK p : p = Piece(next.at, l.what, Prompt[next.state])
  OBVIOUS
<1>2. Tagged(next, l) = <<p>>
  BY <1>1 DEF Tagged
<1>3. <<p>> \in Seq(PieceSet) /\ out' = out \o <<>> \o <<p>> /\ out \in Seq(PieceSet)
  BY <1>2 DEF ReadsLine, DiscTypes
<1>4. p \in PieceSet
  BY <1>3
<1>5. QED BY <1>1, <1>3, <1>4

\* ^] and quit at the shell are a command it does not know.
LEMMA ShellReadsQuit ==
  ASSUME DiscTypes, AtShell, Quits(typed), NEW l, NEW next, ReadsLine(l, next)
  PROVE  AtShell' /\ Quits(typed)' /\ \E p : Rest(p) /\ p \in PieceSet /\ out' = Append(out, p)
<1>1. l.what = "quit" /\ far.state = "shell" /\ far.at = 0
  BY FarIs DEF ReadsLine, Quits, DiscTypes, AtShell
<1>2. next = far
  BY <1>1 DEF ReadsLine, Leads
<1>3. Body(l) = <<>>
  BY <1>1, ShownAre DEF Body, Framing
<1>4. PICK p : p = Piece(next.at, l.what, Prompt[next.state]) /\ p \in PieceSet /\ out' = Append(out, p)
  BY <1>1, <1>2, <1>3, ReadsShort, Promises
<1>5. Rest(p)
  BY <1>1, <1>2, <1>4, Promises DEF Rest, Piece
<1>6. Quits(typed)'
  BY DEF ReadsLine, Quits, DiscTypes
<1>7. AtShell'
  BY <1>2 DEF AtShell, ReadsLine
<1>8. QED BY <1>4, <1>5, <1>6, <1>7

\* Between two devices a line read leaves the jump host's shell at rest.
LEMMA RestedReads ==
  ASSUME DiscTypes, Rested, NEW l, NEW next, ReadsLine(l, next) PROVE Rested'
<1>1. PICK p : Rest(p) /\ p \in PieceSet /\ out' = Append(out, p)
  BY ShellReadsQuit DEF Rested
<1>2. AllRest(out)'
  BY <1>1 DEF AllRest, Rested, DiscTypes
<1>3. QED BY <1>2, ShellReadsQuit DEF Rested

\* Once the shell reads telnet, the device's login prompt comes last.
LEMMA DialsReads ==
  ASSUME DiscTypes, Dials, host \in Hosts, kind[host] \in Answering, NEW l, NEW next, ReadsLine(l, next)
  PROVE  Dials' \/ Greeted'
<1>1. far.state = "shell" /\ far.at = 0
  BY FarIs DEF Dials, AtShell
<1>2. CASE Len(typed) > 1
  <2>1. l.what = "quit"
    BY <1>2 DEF Dials, ReadsLine, DiscTypes
  <2>2. next = far
    BY <1>1, <2>1 DEF ReadsLine, Leads
  <2>3. Body(l) = <<>>
    BY <1>1, <2>1, ShownAre DEF Body, Framing
  <2>4. PICK p : p = Piece(next.at, l.what, Prompt[next.state]) /\ p \in PieceSet /\ out' = Append(out, p)
    BY <1>1, <2>2, <2>3, ReadsShort, Promises
  <2>5. Rest(p)
    BY <1>1, <2>2, <2>4, Promises DEF Rest, Piece
  <2>6. AllRest(out)'
    BY <2>4, <2>5 DEF AllRest, Dials, DiscTypes
  <2>7. AtShell'
    BY <2>2 DEF AtShell, ReadsLine, Dials
  <2>8. /\ Len(typed') > 0 /\ typed'[Len(typed')] = [host |-> host, what |-> "telnet"]
        /\ \A i \in 1..(Len(typed') - 1) : typed'[i].what = "quit"
    BY <1>2 DEF Dials, ReadsLine, DiscTypes
  <2>9. QED BY <2>6, <2>7, <2>8 DEF Dials, ReadsLine
<1>3. CASE Len(typed) = 1
  <2>1. l = [host |-> host, what |-> "telnet"] /\ l.host = host /\ l.what = "telnet"
    BY <1>3 DEF Dials, ReadsLine, DiscTypes
  <2>2. next = At(host, Greeting)
    <3>1. kind[host] \in {"line", "user", "noisy"}
      BY DEF Answering
    <3>2. CASE kind[host] = "user"
      BY <1>1, <2>1, <3>2 DEF ReadsLine, Leads, Greeting
    <3>3. CASE kind[host] \in {"line", "noisy"}
      BY <1>1, <2>1, <3>3 DEF ReadsLine, Leads, Greeting
    <3>4. QED BY <3>1, <3>2, <3>3
  <2>3. next.at = host /\ next.state = Greeting /\ Greeting \in {"login", "password"}
    BY <2>2 DEF At, Greeting
  <2>4. Body(l) = <<>>
    BY <1>1, <2>1, ShownAre DEF Body, Framing
  <2>5. PICK p : p = Piece(next.at, l.what, Prompt[next.state]) /\ p \in PieceSet /\ out' = Append(out, p)
    BY <2>3, <2>4, ReadsShort, Promises
  <2>6. p.marks = Prompt[Greeting]
    BY <2>3, <2>5 DEF Piece
  <2>7. typed' = <<>>
    <3>1. typed \in Seq(LineSet) /\ typed' = Tail(typed) /\ Len(typed) = 1
      BY <1>3 DEF ReadsLine, DiscTypes
    <3>2. typed' \in Seq(LineSet) /\ Len(typed') = 0
      BY <3>1
    <3>3. QED BY <3>2
  <2>8. /\ Len(out') > 0 /\ out'[Len(out')].marks = Prompt[Greeting]
        /\ \A i \in 1..(Len(out') - 1) : Rest(out'[i])
    BY <2>5, <2>6 DEF Dials, AllRest, DiscTypes
  <2>9. Greeting' = Greeting /\ far' = At(host, Greeting)
    BY <2>2 DEF Greeting, ReadsLine
  <2>10. Greeted'
    BY <2>7, <2>8, <2>9 DEF Greeted, ReadsLine
  <2>11. QED BY <2>10
<1>4. Len(typed) = 1 \/ Len(typed) > 1
  <2>1. Len(typed) > 0
    BY DEF Dials
  <2>2. Len(typed) \in Nat
    BY DEF DiscTypes
  <2>3. \A n \in Nat : n > 0 => n = 1 \/ n > 1
    OBVIOUS
  <2>4. QED BY <2>1, <2>2, <2>3, Zenon
<1>5. QED BY <1>2, <1>3, <1>4

\* Each step is one line, and the device answers it with the prompt it comes to.
LEMMA AskedReads ==
  ASSUME DiscTypes, host \in Hosts, kind[host] \in Answering, Asked,
         step \in {"user", "pass", "enable", "secret", "length"} \cup Shown,
         step \in Shown => kind[host] # "noisy",
         NEW l, NEW next, ReadsLine(l, next)
  PROVE  Answered'
<1>1. l.what = step /\ typed' = <<>>
  BY DEF Asked, ReadsLine, DiscTypes
<1>2. far.at = host /\ far.at # 0 /\ far.state \in Before(step)
  BY Numbered DEF Asked
<1>3. step # "quit" /\ step # "exit" /\ step # "telnet"
  BY ShownAre DEF Framing
<1>4. next.at = host /\ next.state \in After(step)
  <2>1. CASE step = "user"
    <3>1. far.state = "login"
      BY <1>2, <2>1 DEF Before
    <3>2. next = At(far.at, "password")
      BY <1>1, <2>1, <3>1 DEF ReadsLine, Leads
    <3>3. QED BY <1>2, <2>1, <3>2 DEF At, After
  <2>2. CASE step = "pass"
    <3>1. far.state = "password" /\ kind[far.at] # "refusing"
      BY <1>2, <2>2 DEF Before, Answering
    <3>2. next \in {At(far.at, "exec"), At(far.at, "priv")}
      BY <1>1, <2>2, <3>1 DEF ReadsLine, Leads
    <3>3. QED BY <1>2, <2>2, <3>2 DEF At, After
  <2>3. CASE step = "enable"
    <3>1. far.state \in {"exec", "priv"}
      BY <1>2, <2>3 DEF Before
    <3>2. CASE far.state = "exec"
      <4>1. next = At(far.at, "enable")
        BY <1>1, <2>3, <3>2 DEF ReadsLine, Leads
      <4>2. QED BY <1>2, <2>3, <4>1 DEF At, After
    <3>3. CASE far.state = "priv"
      <4>1. next = far
        BY <1>1, <2>3, <3>3 DEF ReadsLine, Leads
      <4>2. QED BY <1>2, <2>3, <3>3, <4>1 DEF After
    <3>4. QED BY <3>1, <3>2, <3>3
  <2>4. CASE step = "secret"
    <3>1. far.state = "enable"
      BY <1>2, <2>4 DEF Before
    <3>2. next = At(far.at, "priv")
      BY <1>1, <2>4, <3>1 DEF ReadsLine, Leads
    <3>3. QED BY <1>2, <2>4, <3>2 DEF At, After
  <2>5. CASE step \in {"length"} \cup Shown
    <3>1. step \notin {"user", "pass", "enable", "secret"}
      BY <2>5, ShownAre DEF Framing
    <3>2. far.state = "priv"
      BY <1>2, <3>1 DEF Before
    <3>3. next = far
      BY <1>1, <1>3, <3>2 DEF ReadsLine, Leads
    <3>4. QED BY <1>2, <3>1, <3>2, <3>3 DEF After
  <2>6. QED BY <2>1, <2>2, <2>3, <2>4, <2>5
<1>5. next.state \in {"password", "exec", "priv", "enable"}
  BY <1>4 DEF After
<1>6. far' = next /\ buf' = buf /\ host' = host /\ step' = step /\ out = <<>> /\ buf = <<>>
  BY DEF ReadsLine, Asked
<1>7. CASE step \notin Shown
  <2>1. Body(l) = <<>>
    BY <1>1, <1>3, <1>7 DEF Body
  <2>2. PICK p : /\ p = Piece(next.at, l.what, Prompt[next.state]) /\ p \in PieceSet
                 /\ out' = Append(out, p)
    BY <1>5, <2>1, ReadsShort, Promises
  <2>3. out' = <<p>>
    BY <1>6, <2>2
  <2>4. out' = <<Piece(host, step, Prompt[next.state])>>
    BY <1>1, <1>4, <2>2, <2>3
  <2>5. QED BY <1>1, <1>4, <1>6, <1>7, <2>4 DEF Answered, After
<1>8. CASE step \in Shown
  <2>1. step \notin {"user", "pass", "enable", "secret"}
    BY <1>8, ShownAre DEF Framing
  <2>2. far.state = "priv" /\ next.state = "priv"
    BY <1>2, <1>4, <2>1 DEF Before, After
  <2>0. Marked(far.at) = {}
    BY <1>2, <1>8, MarkedAre DEF Answering
  <2>3. Body(l) = <<Piece(host, step, {})>>
    BY <1>1, <1>2, <1>8, <2>0, <2>2 DEF Body
  <2>4. Tagged(next, l) = <<Piece(host, step, {"#"})>>
    BY <1>1, <1>4, <2>2, Promises DEF Tagged
  <2>5. PICK p : p = Piece(host, step, {})
    OBVIOUS
  <2>6. PICK q : q = Piece(host, step, {"#"})
    OBVIOUS
  <2>7. p \in PieceSet /\ q \in PieceSet
    <3>1. <<p>> \in Seq(PieceSet) /\ <<q>> \in Seq(PieceSet)
      BY <2>3, <2>4, <2>5, <2>6 DEF ReadsLine
    <3>2. QED BY <3>1
  <2>8. out' = <<>> \o <<p>> \o <<q>>
    BY <1>6, <2>3, <2>4, <2>5, <2>6 DEF ReadsLine
  <2>9. out' = <<p, q>> /\ out' # <<>>
    <3>1. <<p>> \in Seq(PieceSet) /\ <<q>> \in Seq(PieceSet) /\ <<p, q>> \in Seq(PieceSet)
          /\ <<>> \in Seq(PieceSet)
      BY <2>7
    <3>2. out' \in Seq(PieceSet) /\ Len(out') = 2 /\ out'[1] = p /\ out'[2] = q
      BY <2>7, <2>8, <3>1
    <3>3. QED BY <2>7, <3>2, Pairs
  <2>10. buf' \o out' = <<p, q>>
    BY <1>6, <2>7, <2>9
  <2>11. buf' \o out' = Own(host, step)
    BY <2>5, <2>6, <2>10 DEF Own
  <2>12. QED BY <1>1, <1>4, <1>6, <1>8, <2>9, <2>11 DEF Answered, After
<1>9. QED BY <1>7, <1>8

\* A noisy device stays in its privileged mode until it reads exit.
LEMMA StayingReads ==
  ASSUME DiscTypes, host \in Hosts, kind[host] \in Answering, Staying, NEW l, NEW next,
         ReadsLine(l, next), step \in Shown \cup {"exit", "quit"}
  PROVE  Staying' \/ Gone'
<1>1. far.state = "priv" /\ far.at = host /\ far.at # 0
  BY FarIs, Numbered DEF Staying
<1>2. far' = next /\ typed' = Tail(typed) /\ l = Head(typed) /\ typed # <<>> /\ out \in Seq(PieceSet)
      /\ typed \in Seq(LineSet) /\ UNCHANGED <<host, step, waiting>>
  BY DEF ReadsLine, DiscTypes
<1>3. CASE l.what \in Shown
  <2>1. l.what # "quit" /\ l.what # "exit" /\ l.what # "enable"
    BY <1>3, ShownAre DEF Framing
  <2>2. next = far
    BY <1>1, <2>1 DEF ReadsLine, Leads
  <2>3. PICK m : m = Marked(far.at) /\ m \subseteq {"#"}
    BY <1>1, MarkedAre DEF Answering
  <2>4. PICK p : p = Piece(far.at, l.what, m)
    OBVIOUS
  <2>5. PICK q : q = Piece(far.at, l.what, {"#"})
    OBVIOUS
  <2>6. Body(l) = <<p>>
    BY <1>1, <1>3, <2>3, <2>4 DEF Body
  <2>7. Tagged(next, l) = <<q>>
    BY <1>1, <2>2, <2>5, Promises DEF Tagged
  <2>8. p \in PieceSet /\ q \in PieceSet /\ out' = out \o <<p>> \o <<q>>
    <3>1. <<p>> \in Seq(PieceSet) /\ <<q>> \in Seq(PieceSet)
      BY <2>6, <2>7 DEF ReadsLine
    <3>2. p \in PieceSet /\ q \in PieceSet
      BY <3>1
    <3>3. out' = out \o <<p>> \o <<q>>
      BY <2>6, <2>7, Zenon DEF ReadsLine
    <3>4. QED BY <3>2, <3>3
  <2>9. p.marks \subseteq {"#"} /\ q.marks \subseteq {"#"}
    BY <2>3, <2>4, <2>5 DEF Piece
  <2>10. Noise(out)'
    BY <1>2, <2>8, <2>9 DEF Noise, Staying
  <2>11. far' = At(host, "priv")'
    BY <1>2, <2>2 DEF Staying, At
  <2>12. step # "quit" => \A i \in 1..Len(typed') : typed'[i].what \in Shown
    BY <1>2 DEF Staying
  <2>13. step = "quit" =>
           /\ Len(typed') > 0 /\ typed'[Len(typed')].what = IF waiting THEN "quit" ELSE "exit"
           /\ \A i \in 1..(Len(typed') - 1) : Earlier(i)'
    <3>1. ASSUME step = "quit" PROVE Len(typed) > 1
      BY <1>2, <2>1, <3>1 DEF Staying
    <3>2. QED BY <1>2, <3>1 DEF Staying, Earlier
  <2>14. Staying'
    BY <1>2, <2>10, <2>11, <2>12, <2>13 DEF Staying
  <2>15. QED BY <2>14
<1>4. CASE l.what \in {"exit", "quit"}
  <2>0. l = typed[1] /\ l.what \notin Shown /\ Len(typed) \in Nat /\ Len(typed) > 0
    BY <1>2, <1>4, Plain DEF Framing
  <2>1. step = "quit"
    BY <2>0 DEF Staying
  <2>2. Quits(typed')
    <3>1. Len(typed) = 1 \/ (l.what = "exit" /\ waiting /\ Len(typed) = 2)
      <4>1. \A i \in 1..(Len(typed) - 1) : Earlier(i)
        BY <2>1 DEF Staying
      <4>2. Len(typed) # 1 => 1 \in 1..(Len(typed) - 1)
        <5>1. \A n \in Nat : n > 0 /\ n # 1 => 1 \in 1..(n - 1)
          OBVIOUS
        <5>2. QED BY <2>0, <5>1, Zenon
      <4>3. Earlier(1) => waiting /\ 1 = Len(typed) - 1 /\ l.what = "exit"
        BY <2>0 DEF Earlier
      <4>4. QED BY <2>0, <4>1, <4>2, <4>3
    <3>2. QED BY <1>2, <2>1, <3>1 DEF Staying, Quits
  <2>3. next = At(0, "shell") /\ next.state = "shell" /\ next.at = 0
    BY <1>1, <1>4 DEF ReadsLine, Leads, At
  <2>4. AtShell'
    BY <1>2, <2>3 DEF AtShell
  <2>5. PICK q : q = Piece(0, l.what, {"$"})
    OBVIOUS
  <2>6. Tagged(next, l) = <<q>>
    BY <2>3, <2>5, Promises DEF Tagged
  <2>7. Rest(q) /\ q \in PieceSet
    <3>1. <<q>> \in Seq(PieceSet)
      BY <2>6 DEF ReadsLine
    <3>2. QED BY <2>5, <3>1 DEF Rest, Piece
  <2>8. PICK p : p = Piece(0, "quit", {">", "> "})
    OBVIOUS
  <2>9. Rest(p)
    BY <2>8 DEF Rest, Piece
  <2>10. Body(l) = <<>> \/ Body(l) = <<p>>
    BY <1>4, <2>8, ShownAre DEF Body, Framing
  <2>11. \E m \in 0..Len(out') : /\ \A i \in 1..m : out'[i].marks \subseteq {"#"}
                                 /\ \A i \in (m + 1)..Len(out') : Rest(out'[i])
    <3>1. CASE Body(l) = <<>>
      <4>1. out' = out \o <<>> \o <<q>>
        BY <2>6, <3>1 DEF ReadsLine
      <4>2. Len(out) \in 0..Len(out') /\ Len(out') = Len(out) + 1
            /\ \A i \in 1..Len(out) : out'[i] = out[i]
        BY <1>2, <2>7, <4>1
      <4>3. out'[Len(out')] = q
        BY <1>2, <2>7, <4>1
      <4>4. \A i \in (Len(out) + 1)..Len(out') : i = Len(out')
        BY <1>2, <4>2
      <4>5. QED BY <2>7, <4>2, <4>3, <4>4 DEF Staying, Noise
    <3>2. CASE Body(l) = <<p>>
      <4>1. p \in PieceSet
        <5>1. <<p>> \in Seq(PieceSet)
          BY <3>2 DEF ReadsLine
        <5>2. QED BY <5>1
      <4>2. out' = out \o <<p>> \o <<q>>
        BY <2>6, <3>2 DEF ReadsLine
      <4>3. Len(out) \in 0..Len(out') /\ Len(out') = Len(out) + 2
            /\ \A i \in 1..Len(out) : out'[i] = out[i]
        BY <1>2, <2>7, <4>1, <4>2
      <4>4. out'[Len(out) + 1] = p /\ out'[Len(out) + 2] = q
        BY <1>2, <2>7, <4>1, <4>2
      <4>5. \A i \in (Len(out) + 1)..Len(out') : i = Len(out) + 1 \/ i = Len(out) + 2
        <5>1. Len(out) \in Nat /\ Len(out') = Len(out) + 2
          BY <1>2, <4>3
        <5>2. QED BY <5>1
      <4>6. QED BY <2>7, <2>9, <4>3, <4>4, <4>5 DEF Staying, Noise
    <3>3. QED BY <2>10, <3>1, <3>2
  <2>12. Gone'
    BY <1>2, <2>1, <2>2, <2>4, <2>11 DEF Gone
  <2>13. QED BY <2>12
<1>5. l.what \in Shown \cup {"exit", "quit"}
  BY <1>2 DEF Staying, Earlier
<1>6. QED BY <1>3, <1>4, <1>5

\* After exit the shell reads what is left, and answers with its prompts.
LEMMA GoneReads ==
  ASSUME DiscTypes, Gone, NEW l, NEW next, ReadsLine(l, next) PROVE Gone'
<1>1. AtShell' /\ Quits(typed)'
  BY ShellReadsQuit DEF Gone
<1>2. PICK p : Rest(p) /\ p \in PieceSet /\ out' = Append(out, p)
  BY ShellReadsQuit DEF Gone
<1>3. PICK m \in 0..Len(out) : /\ \A i \in 1..m : out[i].marks \subseteq {"#"}
                               /\ \A i \in (m + 1)..Len(out) : Rest(out[i])
  BY DEF Gone
<1>4. m \in 0..Len(out') /\ (\A i \in 1..m : out'[i].marks \subseteq {"#"})
      /\ \A i \in (m + 1)..Len(out') : Rest(out'[i])
  BY <1>2, <1>3 DEF DiscTypes
<1>5. step' = "quit"
  BY DEF Gone, ReadsLine
<1>6. QED BY <1>1, <1>4, <1>5 DEF Gone

\* A line read keeps the far end where the script expects it.
LEMMA StageReads == ASSUME DiscTypes, Attended, Stage, Reads PROVE Stage'
<1>1. PICK l, next : ReadsLine(l, next)
  BY ReadsDoes
<1>2. typed # <<>> /\ UNCHANGED <<kind, host, step, waiting, buf>>
  BY <1>1 DEF ReadsLine
<1>3. host \in Hosts /\ kind[host] \in Answering
  BY Numbered DEF Attended
<1>4. ASSUME step = "drain" \/ (step = "telnet" /\ ~waiting) PROVE Rested'
  BY <1>1, <1>4, RestedReads DEF Stage
<1>5. ASSUME step = "telnet", waiting PROVE Dialing'
  <2>1. AllRest(buf) /\ (Dials \/ Greeted)
    BY <1>5 DEF Stage, Dialing
  <2>2. Dials
    BY <1>2, <2>1 DEF Greeted
  <2>3. Dials' \/ Greeted'
    BY <1>1, <1>3, <2>2, DialsReads
  <2>4. AllRest(buf)'
    BY <1>2, <2>1 DEF AllRest
  <2>5. QED BY <2>3, <2>4 DEF Dialing
<1>6. ASSUME Asking PROVE waiting /\ Answered'
  <2>1. waiting /\ (Asked \/ Answered)
    BY <1>2, <1>6 DEF Stage, Idle
  <2>2. Asked
    BY <1>2, <2>1 DEF Answered
  <2>3. step \in {"user", "pass", "enable", "secret", "length"} \cup Shown
        /\ (step \in Shown => kind[host] # "noisy")
    BY <1>6, Plain DEF Asking, Framing
  <2>4. QED BY <1>1, <1>3, <2>1, <2>2, <2>3, AskedReads
<1>7. ASSUME Exiting PROVE Leaving'
  <2>1. (waiting => Noise(buf)) /\ (Staying \/ Gone)
    BY <1>7 DEF Stage, Leaving
  <2>2. step \in Shown \cup {"exit", "quit"}
    BY <1>7 DEF Exiting
  <2>3. Staying' \/ Gone'
    <3>1. CASE Staying
      BY <1>1, <1>3, <2>2, <3>1, StayingReads
    <3>2. CASE Gone
      BY <1>1, <3>2, GoneReads
    <3>3. QED BY <2>1, <3>1, <3>2
  <2>4. (waiting => Noise(buf))'
    BY <1>2, <2>1 DEF Noise
  <2>5. QED BY <2>3, <2>4 DEF Leaving
<1>8. (Asking' <=> Asking) /\ (Exiting' <=> Exiting)
  BY <1>2 DEF Asking, Exiting
<1>9. QED BY <1>2, <1>4, <1>5, <1>6, <1>7, <1>8 DEF Stage

\* ^] drops the lines before it; quit is still there.
LEMMA StageEscapes == ASSUME DiscTypes, Attended, Stage, Escapes PROVE Stage'
<1>1. /\ far.at # 0 /\ Len(typed) > 1 /\ typed' = <<typed[Len(typed)]>>
      /\ typed[Len(typed)].what = "quit" /\ UNCHANGED <<kind, far, out, host, step, waiting, buf>>
  BY DEF Escapes, Last, scriptVars
<1>2. far.at # 0 /\ far.state # "shell" /\ ~AtShell
  BY <1>1, FarIs DEF AtShell
<1>3. ~Rested /\ ~Dials /\ ~Gone
  BY <1>2 DEF Rested, Dials, Gone
<1>4. ~Greeted /\ ~Asked /\ ~Answered /\ ~Idle
  BY <1>1 DEF Greeted, Asked, Answered, Idle
<1>5. Exiting /\ Staying /\ (waiting => Noise(buf))
  <2>1. step \in Names /\ ~Asking /\ step \notin {"drain", "telnet"}
    BY <1>3, <1>4 DEF Stage, Dialing, DiscTypes
  <2>2. Exiting
    BY <2>1 DEF Stage, Asking, Exiting, Names, Framing
  <2>3. QED BY <1>3, <2>2 DEF Stage, Leaving
<1>6. Staying'
  <2>1. step = "quit"
    BY <1>1, <1>5, Plain DEF Staying, DiscTypes, Framing
  <2>2. waiting
    BY <1>1, <1>5, <2>1 DEF Staying
  <2>3. Len(typed') = 1 /\ typed'[1].what = "quit"
    BY <1>1
  <2>4. Noise(out)'
    BY <1>1, <1>5 DEF Staying, Noise
  <2>5. far' = At(host, "priv")'
    BY <1>1, <1>5 DEF Staying, At
  <2>6. QED BY <1>1, <2>1, <2>2, <2>3, <2>4, <2>5 DEF Staying
<1>7. Exiting' /\ ~Asking' /\ step' \notin {"drain", "telnet", "again"}
  <2>1. step \notin {"drain", "telnet", "again"} /\ ~Asking
    BY <1>5, Plain DEF Exiting, Asking, Framing
  <2>2. QED BY <1>1, <1>5, <2>1 DEF Exiting, Asking
<1>8. Leaving'
  BY <1>1, <1>5, <1>6 DEF Leaving, Noise
<1>9. QED BY <1>7, <1>8 DEF Stage

\* telnet hangs on a silent host only, and exit ends a session, never the shell.
LEMMA StageOpen ==
  ASSUME DiscTypes, Attended, Stage PROVE far.state \notin {"hang", "closed"}
<1> SUFFICES ASSUME far.state \in {"hang", "closed"} PROVE FALSE
  OBVIOUS
<1>1. \A d, s : far = At(d, s) => s \in {"hang", "closed"}
  BY FarIs
<1>2. ~Rested /\ ~Dials /\ ~Gone /\ ~Staying
  BY <1>1 DEF Rested, Dials, Gone, Staying, AtShell
<1>3. ~Greeted
  BY <1>1 DEF Greeted, Greeting
<1>4. ~Asked /\ ~Answered /\ ~Idle
  BY DEF Asked, Answered, Idle, Before, After
<1>5. step \in Names /\ waiting \in BOOLEAN
  BY DEF DiscTypes
<1>6. ~Asking /\ ~Exiting /\ step \notin {"drain", "telnet", "again"}
  BY <1>2, <1>3, <1>4, <1>5 DEF Stage, Dialing, Leaving
<1>7. QED BY <1>5, <1>6 DEF Asking, Exiting, Names, Framing

-----------------------------------------------------------------------------
(* What the script does in each stage.                                     *)

\* A line typed keeps the far end where the script expects it.
LEMMA StageSends == ASSUME DiscTypes, Attended, Stage, SendsLine PROVE Stage'
<1>1. /\ ~waiting /\ far' = far /\ out' = out /\ host' = host /\ kind' = kind /\ buf' = <<>>
      /\ typed' = Append(typed, Line)
  BY DEF SendsLine
<1>2. Line \in LineSet /\ typed \in Seq(LineSet) /\ step # "drain" /\ step # "again"
  BY <1>1 DEF SendsLine, DiscTypes, Stage
<1>3. Line = [host |-> host, what |-> step] /\ Line.what = step
  BY <1>2 DEF Line
<1>4. Len(typed') = Len(typed) + 1 /\ typed'[Len(typed')] = Line /\ Len(typed) \in Nat
      /\ \A i \in 1..Len(typed) : typed'[i] = typed[i]
  BY <1>1, <1>2
<1>5. CASE step = "telnet"
  <2>1. Rested /\ step' = step /\ waiting' = TRUE
    BY <1>1, <1>5 DEF Stage, SendsLine
  <2>2. AtShell' /\ AllRest(out)'
    BY <1>1, <2>1 DEF Rested, AtShell, AllRest
  <2>3. Dials'
    BY <1>1, <1>3, <1>4, <1>5, <2>1, <2>2 DEF Rested, Quits, Dials
  <2>4. AllRest(buf)'
    BY <1>1 DEF AllRest
  <2>5. ~Asking' /\ ~Exiting'
    BY <1>5, <2>1, Plain DEF Asking, Exiting, Framing
  <2>6. QED BY <1>5, <2>1, <2>3, <2>4, <2>5 DEF Stage, Dialing
<1>6. CASE Asking
  <2>1. step \notin {"exit", "quit", "drain", "telnet", "again"}
    BY <1>6, Plain DEF Asking, Framing
  <2>2. Idle /\ step' = step /\ waiting' = TRUE
    BY <1>1, <1>6, <2>1 DEF Stage, SendsLine
  <2>3. typed' = <<Line>>
    BY <1>1, <1>2, <2>2 DEF Idle
  <2>4. Asked'
    BY <1>1, <1>3, <2>2, <2>3 DEF Idle, Asked, Before
  <2>5. Asking' /\ ~Exiting'
    <3>1. ~Exiting
      BY <1>6, Plain DEF Asking, Exiting, Framing
    <3>2. QED BY <1>1, <1>6, <2>2, <3>1 DEF Asking, Exiting
  <2>6. QED BY <2>1, <2>2, <2>4, <2>5 DEF Stage
<1>7. CASE Exiting
  <2>1. step \notin {"drain", "telnet", "again"} /\ ~Asking
    BY <1>7, Plain DEF Exiting, Asking, Framing
  <2>2. Staying \/ Gone
    BY <1>7 DEF Stage, Leaving
  <2>3. Staying => far' = At(host, "priv")' /\ Noise(out)'
    BY <1>1, <2>2 DEF Staying, Noise, At
  <2>4. CASE step = "exit"
    <3>1. step' = "quit" /\ waiting' = FALSE
      BY <2>4 DEF SendsLine
    <3>2. Staying
      BY <2>2, <2>4 DEF Gone
    <3>3. \A i \in 1..(Len(typed') - 1) : Earlier(i)'
      BY <1>4, <2>4, <3>2 DEF Staying, Earlier
    <3>4. Staying'
      BY <1>3, <1>4, <2>3, <2>4, <3>1, <3>2, <3>3 DEF Staying
    <3>5. ~Asking'
      BY <3>1, Plain DEF Asking, Framing
    <3>6. QED BY <3>1, <3>4, <3>5 DEF Stage, Leaving
  <2>5. CASE step = "quit"
    <3>1. step' = "quit" /\ waiting' = TRUE
      BY <2>5 DEF SendsLine
    <3>2. ASSUME Staying PROVE Staying'
      <4>1. Len(typed) > 0 /\ typed[Len(typed)].what = "exit"
            /\ \A i \in 1..(Len(typed) - 1) : typed[i].what \in Shown
        BY <1>1, <2>5, <3>2 DEF Staying, Earlier
      <4>2. \A i \in 1..(Len(typed') - 1) : Earlier(i)'
        <5>1. \A i \in 1..Len(typed) : i = Len(typed) \/ i \in 1..(Len(typed) - 1)
          BY <1>4
        <5>2. QED BY <1>4, <3>1, <4>1, <5>1 DEF Earlier
      <4>3. far' = At(host, "priv")' /\ Noise(out)'
        BY <1>1, <3>2 DEF Staying, Noise, At
      <4>4. Len(typed') > 0 /\ typed'[Len(typed')].what = "quit"
        BY <1>3, <1>4, <2>5
      <4>5. QED BY <3>1, <4>2, <4>3, <4>4 DEF Staying
    <3>3. ASSUME Gone PROVE Gone'
      <4>1. Quits(typed)'
        <5>1. \A i \in 1..Len(typed') : i = Len(typed') \/ i \in 1..Len(typed)
          BY <1>4
        <5>2. QED BY <1>3, <1>4, <2>5, <3>3, <5>1 DEF Gone, Quits
      <4>2. AtShell'
        BY <1>1, <3>3 DEF Gone, AtShell
      <4>3. QED BY <1>1, <3>1, <3>3, <4>1, <4>2 DEF Gone
    <3>4. Noise(buf)'
      BY <1>1 DEF Noise
    <3>5. ~Asking'
      BY <3>1, Plain DEF Asking, Framing
    <3>6. QED BY <2>2, <3>1, <3>2, <3>3, <3>4, <3>5 DEF Stage, Leaving
  <2>6. CASE step \in Shown /\ kind[host] = "noisy"
    <3>1. step' = step /\ step # "quit" /\ step # "exit" /\ waiting' = TRUE
      BY <2>6, Plain DEF SendsLine, Framing
    <3>2. Staying
      BY <2>2, <3>1 DEF Gone
    <3>3. \A i \in 1..Len(typed') : typed'[i].what \in Shown
      <4>1. \A i \in 1..Len(typed') : i = Len(typed') \/ i \in 1..Len(typed)
        BY <1>4
      <4>2. QED BY <1>3, <1>4, <2>6, <3>1, <3>2, <4>1 DEF Staying
    <3>4. far' = At(host, "priv")' /\ Noise(out)' /\ Noise(buf)'
      BY <1>1, <3>2 DEF Staying, Noise, At
    <3>5. Staying'
      BY <3>1, <3>3, <3>4 DEF Staying
    <3>6. ~Asking'
      BY <1>1, <2>1, <2>6, <3>1, Plain DEF Asking, Framing
    <3>7. QED BY <2>1, <3>1, <3>4, <3>5, <3>6 DEF Stage, Leaving
  <2>7. QED BY <1>7, <2>4, <2>5, <2>6 DEF Exiting
<1>8. step \in Names
  BY DEF DiscTypes
<1>9. QED BY <1>2, <1>5, <1>6, <1>7, <1>8 DEF Names, Framing, Asking, Exiting

\* A receive takes the first k pieces of the stream.
Takes(k, t, r) == t \in Seq(PieceSet) /\ r \in Seq(PieceSet) /\ Cuts(buf, out, k, t, r)

\* A receive takes a prefix of the output and ends at a prompt or waits on.
LEMMA ReceivesDoes ==
  ASSUME DiscTypes, Receives
  PROVE  \E k, t, r : /\ Takes(k, t, r) /\ out' = r
                      /\ \/ EndsAt(t) /\ Returns(t)
                         \/ ~EndsAt(t) /\ buf' = t /\ UNCHANGED <<host, step, waiting, said, got, results>>
<1>1. PICK k \in 1..Len(out) :
        /\ out' = SubSeq(out, k + 1, Len(out))
        /\ IF EndsAt(buf \o SubSeq(out, 1, k)) THEN Returns(buf \o SubSeq(out, 1, k))
           ELSE /\ buf' = buf \o SubSeq(out, 1, k)
                /\ UNCHANGED <<host, step, waiting, said, got, results>>
  BY DEF Receives
<1>2. PICK t : t = buf \o SubSeq(out, 1, k)
  OBVIOUS
<1>3. PICK r : r = SubSeq(out, k + 1, Len(out))
  OBVIOUS
<1>4. t \in Seq(PieceSet) /\ r \in Seq(PieceSet)
  BY <1>2, <1>3, TextType
<1>5. out \in Seq(PieceSet) /\ buf \in Seq(PieceSet)
  BY DEF DiscTypes
<1>6. Len(t) = Len(buf) + k /\ Len(r) = Len(out) - k
  BY <1>2, <1>3, <1>5
<1>7. \A i \in 1..Len(buf) : t[i] = buf[i]
  BY <1>2, <1>5
<1>8. \A i \in (Len(buf) + 1)..Len(t) : t[i] = out[i - Len(buf)]
  BY <1>2, <1>5, <1>6
<1>9. \A i \in 1..Len(r) : r[i] = out[k + i]
  BY <1>3, <1>5, <1>6
<1>10. Takes(k, t, r)
  BY <1>4, <1>6, <1>7, <1>8, <1>9 DEF Takes, Cuts
<1>11. out' = r /\ \/ EndsAt(t) /\ Returns(t)
                   \/ ~EndsAt(t) /\ buf' = t /\ UNCHANGED <<host, step, waiting, said, got, results>>
  BY <1>1, <1>2, <1>3
<1>12. QED BY <1>10, <1>11

\* What a receive has taken and what it left is what there was.
LEMMA TakesWhole ==
  ASSUME DiscTypes, NEW k, NEW t, NEW r, Takes(k, t, r) PROVE t \o r = buf \o out
<1>1. buf \in Seq(PieceSet) /\ out \in Seq(PieceSet)
  BY DEF DiscTypes
<1>2. QED BY <1>1, Whole DEF Takes

\* The marks of a text are those of its pieces.
LEMMA MarksOf ==
  ASSUME NEW t \in Seq(PieceSet)
  PROVE  \A x : x \in Marks(t) <=> \E i \in 1..Len(t) : x \in t[i].marks
BY DEF Marks, ToSet

\* The next thing said to a device at its privileged prompt.
LEMMA AfterPriv ==
  ASSUME NEW s \in Shown \cup {"length"} PROVE Following(s) \in Shown \cup {"exit"}
<1>1. CASE s = "length"
  BY <1>1, FollowingAre, ShownAre, StepsAre
<1>2. ASSUME NEW i \in 1..Len(Shows), s = Shows[i] PROVE Following(s) \in Shown \cup {"exit"}
  <2>1. i # Len(Shows) => i + 1 \in 1..Len(Shows)
    BY StepsAre
  <2>2. QED BY <1>2, <2>1, FollowingAre, ShownAre
<1>3. QED BY <1>1, <1>2, ShownAre

\* A device at its privileged prompt is asked the next command.
LEMMA PrivNext ==
  ASSUME DiscTypes, far.at = host, far.state = "priv", typed' = <<>>, out' = <<>>, waiting' = FALSE,
         step' \in Shown \cup {"exit"}, UNCHANGED <<kind, far, host>>
  PROVE  Stage'
<1>1. step' \notin {"drain", "telnet", "again", "quit", "user", "pass", "enable", "secret"}
  BY Plain DEF Framing
<1>2. Idle'
  BY <1>1 DEF Idle, Before
<1>3. far' = At(host, "priv")'
  BY FarIs
<1>4. Noise(out)' /\ Staying'
  BY <1>1, <1>3 DEF Noise, Staying
<1>5. QED BY <1>1, <1>2, <1>4 DEF Stage, Leaving

\* A receive leaves the jump host at rest.
LEMMA RestedReceives ==
  ASSUME DiscTypes, Rested, NEW k, NEW t, NEW r, Takes(k, t, r), out' = r, UNCHANGED <<far, typed>>
  PROVE  Rested'
<1>1. \A i \in 1..Len(r) : k + i \in 1..Len(out)
  BY DEF Takes, Cuts, DiscTypes
<1>2. AllRest(out)'
  BY <1>1 DEF Rested, AllRest, Takes, Cuts
<1>3. QED BY <1>2 DEF Rested, AtShell, Quits

\* A prompt of the shell holds none of a device's login.
LEMMA RestMarks ==
  \A p : Rest(p) => /\ "Password" \notin p.marks /\ "Username" \notin p.marks
                    /\ "$" \in p.marks \/ "> " \in p.marks
BY Zenon DEF Rest

\* What collects while telnet connects has no prompt of a device.
LEMMA RestText ==
  ASSUME NEW t \in Seq(PieceSet), AllRest(t)
  PROVE  "Password" \notin Marks(t) /\ "Username" \notin Marks(t)
BY MarksOf, RestMarks DEF AllRest

\* The receive after telnet ends at the device's own login prompt.
LEMMA TelnetReceives ==
  ASSUME DiscTypes, Attended, step = "telnet", Dialing, UNCHANGED <<kind, far, typed>>,
         NEW k, NEW t, NEW r, Takes(k, t, r), out' = r,
         \/ EndsAt(t) /\ Returns(t)
         \/ ~EndsAt(t) /\ buf' = t /\ UNCHANGED <<host, step, waiting, said, got, results>>,
         waiting
  PROVE  Stage'
<1>1. out \in Seq(PieceSet) /\ buf \in Seq(PieceSet) /\ AllRest(buf) /\ Endings = {"Password", "Username"}
  BY Endless DEF DiscTypes, Dialing, Endings
<1>2. \A i \in 1..Len(r) : k + i \in 1..Len(out)
  BY <1>1 DEF Takes, Cuts
<1>3. ASSUME \A i \in 1..k : Rest(out[i]) PROVE AllRest(t) /\ ~EndsAt(t)
  <2>1. \A i \in 1..Len(t) : i \in 1..Len(buf) \/ (i \in (Len(buf) + 1)..Len(t) /\ i - Len(buf) \in 1..k)
    BY <1>1 DEF Takes, Cuts
  <2>2. AllRest(t)
    BY <1>1, <1>3, <2>1 DEF AllRest, Takes, Cuts
  <2>3. QED BY <1>1, <2>2, RestText DEF EndsAt, Takes, Cuts
<1>4. ASSUME ~EndsAt(t), AllRest(t), Dials' \/ Greeted' PROVE Stage'
  <2>1. buf' = t /\ step' = "telnet" /\ waiting' = TRUE
    BY <1>4
  <2>2. Dialing'
    BY <1>4, <2>1 DEF Dialing, AllRest
  <2>3. QED BY <2>1, <2>2, Plain DEF Stage, Asking, Exiting, Framing
<1>5. CASE Dials
  <2>1. \A i \in 1..k : Rest(out[i])
    BY <1>1, <1>5 DEF Dials, AllRest, Takes, Cuts
  <2>2. UNCHANGED host
    BY <1>3, <2>1
  <2>3. AllRest(out)'
    BY <1>2, <1>5 DEF Dials, AllRest, Takes, Cuts
  <2>4. Dials'
    BY <1>5, <2>2, <2>3 DEF Dials, AtShell
  <2>5. QED BY <1>3, <1>4, <2>1, <2>4
<1>6. CASE Greeted /\ k < Len(out)
  <2>1. \A i \in 1..k : Rest(out[i])
    <3>1. k \in Nat /\ Len(out) \in Nat /\ k < Len(out)
      BY <1>1, <1>6 DEF Takes, Cuts, DiscTypes
    <3>2. \A i \in 1..k : i \in 1..(Len(out) - 1)
      BY <3>1
    <3>3. QED BY <1>6, <3>2 DEF Greeted
  <2>2. UNCHANGED host
    BY <1>3, <2>1
  <2>3. Len(r) > 0 /\ k + Len(r) = Len(out) /\ r[Len(r)] = out[Len(out)]
    BY <1>1, <1>6 DEF Takes, Cuts
  <2>4. \A i \in 1..(Len(r) - 1) : i \in 1..Len(r) /\ k + i \in 1..(Len(out) - 1)
    BY <1>1 DEF Takes, Cuts
  <2>5. \A i \in 1..(Len(r) - 1) : Rest(r[i])
    BY <1>6, <2>4 DEF Greeted, Takes, Cuts
  <2>6. Greeting' = Greeting
    BY <2>2 DEF Greeting
  <2>7. Greeted'
    BY <1>6, <2>2, <2>3, <2>5, <2>6 DEF Greeted, At
  <2>8. QED BY <1>3, <1>4, <2>1, <2>7
<1>7. CASE Greeted /\ k = Len(out)
  <2>1. r = <<>> /\ Len(t) = Len(buf) + Len(out) /\ Len(out) > 0
    BY <1>1, <1>7 DEF Takes, Cuts, Greeted
  <2>2. t[Len(t)] = out[Len(out)]
    BY <1>1, <2>1 DEF Takes, Cuts
  <2>3. \A i \in 1..Len(t) : i = Len(t) \/ Rest(t[i])
    <3>1. \A i \in 1..Len(t) : \/ i = Len(t) \/ i \in 1..Len(buf)
                               \/ i \in (Len(buf) + 1)..Len(t) /\ i - Len(buf) \in 1..(Len(out) - 1)
      BY <1>1, <2>1
    <3>2. QED BY <1>1, <1>7, <3>1 DEF Greeted, AllRest, Takes, Cuts
  <2>4. Greeting \in {"login", "password"} /\ t[Len(t)].marks = Prompt[Greeting]
    BY <1>7, <2>2 DEF Greeted, Greeting
  <2>5. Len(t) \in 1..Len(t) /\ t \in Seq(PieceSet)
    BY <1>1, <2>1 DEF Takes, Cuts
  <2>6. Greeting = "login" => "Username" \in Marks(t)
    BY <2>4, <2>5, MarksOf, Promises
  <2>7. Greeting = "password" => "Password" \in Marks(t) /\ "Username" \notin Marks(t)
    <3>1. Greeting = "password" => t[Len(t)].marks = {"Password"}
      BY <2>4, Promises
    <3>2. Greeting = "password" => "Password" \in Marks(t)
      BY <2>5, <3>1, MarksOf
    <3>3. ASSUME Greeting = "password", NEW i \in 1..Len(t) PROVE "Username" \notin t[i].marks
      <4>1. CASE i = Len(t)
        BY <3>1, <3>3, <4>1
      <4>2. CASE i # Len(t)
        BY <2>3, <4>2, RestMarks
      <4>3. QED BY <4>1, <4>2
    <3>4. Greeting = "password" => "Username" \notin Marks(t)
      BY <2>5, <3>3, MarksOf
    <3>5. QED BY <3>2, <3>4
  <2>8. EndsAt(t)
    BY <1>1, <2>4, <2>6, <2>7 DEF EndsAt
  <2>9. waiting' = FALSE /\ GoesOn(t)
    BY <2>8, ReturnsDoes
  <2>10. step' = Continue(Marks(t)) /\ UNCHANGED host
    <3>1. Marks(t) \cup {} = Marks(t)
      OBVIOUS
    <3>2. QED BY <2>9, <3>1 DEF GoesOn
  <2>11. step' = IF Greeting = "login" THEN "user" ELSE "pass"
    BY <2>4, <2>6, <2>7, <2>10 DEF Continue
  <2>12. far.at = host /\ far.state = Greeting /\ typed = <<>>
    BY <1>7, FarIs DEF Greeted
  <2>13. Idle'
    BY <2>1, <2>4, <2>10, <2>11, <2>12 DEF Idle, Before
  <2>14. QED BY <2>9, <2>11, <2>13, Plain DEF Stage, Asking, Exiting, Framing
<1>8. Dials \/ (Greeted /\ k < Len(out)) \/ (Greeted /\ k = Len(out))
  <2>1. k < Len(out) \/ k = Len(out)
    BY <1>1 DEF Takes, Cuts
  <2>2. QED BY <2>1 DEF Dialing
<1>9. QED BY <1>5, <1>6, <1>7, <1>8

\* What the receive of each step waits for.
LEMMA EndingsAre ==
  /\ step = "user" => Endings = {"Password"}
  /\ step = "pass" => Endings = {"#", ">", "Password"}
  /\ step = "enable" => Endings = {"Password", "#"}
  /\ step = "secret" => Endings = {"#"}
  /\ step \in Shown \cup {"length"} => Endings = {"#", ">", "$"}
<1>1. step \in {"user", "pass", "enable", "secret"} => step \in DOMAIN Ending /\ Endings = Ending[step]
  BY Endless DEF Endings
<1>2. step \in Shown \cup {"length"} => step \notin DOMAIN Ending
  BY Plain, Endless DEF Framing
<1>3. QED BY <1>1, <1>2, Endless DEF Endings, Reply

\* A jump host at rest is ready for the next device.
LEMMA RestedNext ==
  ASSUME Rested', step' = "telnet", waiting' = FALSE PROVE Stage'
BY Plain DEF Stage, Asking, Exiting, Framing

\* A device at the state before a command is ready for it.
LEMMA CommandNext ==
  ASSUME typed' = <<>>, out' = <<>>, waiting' = FALSE, UNCHANGED <<far, host>>,
         step' \in {"user", "pass", "enable", "secret", "length"}, far.at = host,
         far.state \in Before(step)'
  PROVE  Stage'
<1>1. Idle'
  BY DEF Idle
<1>2. ~Exiting' /\ step' \notin {"drain", "telnet", "again"}
  BY Plain DEF Exiting, Framing
<1>3. QED BY <1>1, <1>2 DEF Stage

\* The receive after a login line, or after terminal length, takes all of its answer.
LEMMA CommandReceives ==
  ASSUME DiscTypes, step \in {"user", "pass", "enable", "secret", "length"},
         waiting, Asked \/ Answered, UNCHANGED <<kind, far, typed>>,
         NEW k, NEW t, NEW r, Takes(k, t, r), out' = r,
         \/ EndsAt(t) /\ Returns(t)
         \/ ~EndsAt(t) /\ buf' = t /\ UNCHANGED <<host, step, waiting, said, got, results>>
  PROVE  Stage'
<1>1. step \notin Shown
  BY Plain DEF Framing
<1>2. out \in Seq(PieceSet) /\ k \in 1..Len(out)
  BY DEF Takes, Cuts, DiscTypes
<1>3. Answered
  BY <1>2 DEF Asked
<1>4. /\ typed = <<>> /\ far.at = host /\ far.state \in After(step) /\ buf = <<>>
      /\ out = <<Piece(host, step, Prompt[far.state])>>
  BY <1>1, <1>3 DEF Answered
<1>5. PICK p : p = Piece(host, step, Prompt[far.state])
  OBVIOUS
<1>6. out = <<p>> /\ Len(out) = 1 /\ out[1] = p
  BY <1>4, <1>5
<1>7. k = 1 /\ r = <<>> /\ Len(t) = 1 /\ t[1] = p /\ t \in Seq(PieceSet)
  BY <1>4, <1>6 DEF Takes, Cuts
<1>8. p.marks = Prompt[far.state]
  BY <1>5 DEF Piece
<1>9. \A x : x \in Marks(t) <=> x \in Prompt[far.state]
  BY <1>7, <1>8, MarksOf
<1>10. /\ typed' = <<>> /\ out' = <<>> /\ UNCHANGED <<far, kind>>
       /\ EndsAt(t) => waiting' = FALSE /\ GoesOn(t) /\ UNCHANGED host
  BY <1>4, <1>7, ReturnsDoes DEF GoesOn
<1>11. CASE step = "user"
  <2>1. far.state = "password" /\ "Password" \in Marks(t)
    BY <1>4, <1>9, <1>11, Promises DEF After
  <2>2. EndsAt(t)
    BY <1>11, <2>1, EndingsAre DEF EndsAt
  <2>3. step' = "pass"
    BY <1>10, <1>11, <2>1, <2>2 DEF GoesOn, Continue
  <2>4. far.state \in Before(step)'
    BY <2>1, <2>3 DEF Before
  <2>5. QED BY <1>4, <1>10, <2>2, <2>3, <2>4, CommandNext
<1>12. CASE step = "pass"
  <2>1. far.state \in {"exec", "priv"} /\ "Password" \notin Marks(t)
        /\ (">" \in Marks(t) \/ "#" \in Marks(t))
    BY <1>4, <1>9, <1>12, Promises DEF After
  <2>2. EndsAt(t)
    BY <1>12, <2>1, EndingsAre DEF EndsAt
  <2>3. step' = "enable"
    BY <1>10, <1>12, <2>1, <2>2 DEF GoesOn, Continue
  <2>4. far.state \in Before(step)'
    BY <2>1, <2>3 DEF Before
  <2>5. QED BY <1>4, <1>10, <2>2, <2>3, <2>4, CommandNext
<1>13. CASE step = "enable"
  <2>1. \/ far.state = "enable" /\ "Password" \in Marks(t)
        \/ far.state = "priv" /\ "Password" \notin Marks(t) /\ "#" \in Marks(t)
    BY <1>4, <1>9, <1>13, Promises DEF After
  <2>2. EndsAt(t)
    BY <1>13, <2>1, EndingsAre DEF EndsAt
  <2>3. step' = IF far.state = "enable" THEN "secret" ELSE "length"
    BY <1>10, <1>13, <2>1, <2>2 DEF GoesOn, Continue
  <2>4. far.state \in Before(step)'
    BY <2>1, <2>3 DEF Before
  <2>5. QED BY <1>4, <1>10, <2>2, <2>3, <2>4, CommandNext
<1>14. CASE step = "secret"
  <2>1. far.state = "priv" /\ "#" \in Marks(t)
    BY <1>4, <1>9, <1>14, Promises DEF After
  <2>2. EndsAt(t)
    BY <1>14, <2>1, EndingsAre DEF EndsAt
  <2>3. step' = "length"
    BY <1>10, <1>14, <2>2, FollowingAre DEF GoesOn, Continue
  <2>4. far.state \in Before(step)'
    BY <2>1, <2>3 DEF Before
  <2>5. QED BY <1>4, <1>10, <2>2, <2>3, <2>4, CommandNext
<1>15. CASE step = "length"
  <2>1. far.state = "priv" /\ "#" \in Marks(t)
    BY <1>4, <1>9, <1>15, Promises DEF After
  <2>2. EndsAt(t)
    BY <1>15, <2>1, EndingsAre DEF EndsAt
  <2>3. step' = Following("length")
    BY <1>10, <1>15, <2>2 DEF GoesOn, Continue
  <2>4. step' \in Shown \cup {"exit"}
    BY <2>3, AfterPriv
  <2>5. QED BY <1>4, <1>10, <2>1, <2>2, <2>4, PrivNext
<1>16. QED BY <1>11, <1>12, <1>13, <1>14, <1>15

\* The prompt is the second piece: the answer is recorded whole, and nothing more.
LEMMA ShowReceives ==
  ASSUME DiscTypes, step \in Shown, kind[host] # "noisy", waiting, Asked \/ Answered,
         UNCHANGED <<kind, far, typed>>,
         NEW k, NEW t, NEW r, Takes(k, t, r), out' = r,
         \/ EndsAt(t) /\ Returns(t)
         \/ ~EndsAt(t) /\ buf' = t /\ UNCHANGED <<host, step, waiting, said, got, results>>
  PROVE  Stage' /\ (EndsAt(t) => t = Own(host, step))
<1>0. step \notin Framing
  BY Plain
<1>1. out \in Seq(PieceSet) /\ buf \in Seq(PieceSet) /\ k \in 1..Len(out) /\ r \in Seq(PieceSet)
      /\ t \in Seq(PieceSet)
  BY DEF Takes, Cuts, DiscTypes
<1>2. Answered
  BY <1>1 DEF Asked
<1>3. /\ typed = <<>> /\ far.at = host /\ far.state = "priv" /\ out # <<>>
      /\ buf \o out = Own(host, step)
  BY <1>0, <1>2 DEF Answered, After, Framing
<1>4. PICK p : p = Piece(host, step, {})
  OBVIOUS
<1>5. PICK q : q = Piece(host, step, {"#"})
  OBVIOUS
<1>6. buf \o out = <<p, q>> /\ p.marks = {} /\ q.marks = {"#"}
  BY <1>3, <1>4, <1>5 DEF Own, Piece
<1>7. p \in PieceSet /\ q \in PieceSet
  <2>1. host \in 0..N /\ step \in Names
    BY <1>0, Numbered DEF DiscTypes, Framing
  <2>2. {"#"} \subseteq Symbols /\ {} \subseteq Symbols
    BY DEF Symbols
  <2>3. QED BY <1>4, <1>5, <2>1, <2>2 DEF Piece, PieceSet
<1>8. t \o r = <<p, q>> /\ Len(t) > 0
  <2>1. t \o r = buf \o out
    BY TakesWhole
  <2>2. Len(t) > 0
    BY <1>1 DEF Takes, Cuts
  <2>3. QED BY <1>6, <2>1, <2>2
<1>9. Endings = {"#", ">", "$"}
  BY EndingsAre
<1>10. ASSUME r # <<>>, Len(t) = 1, t[1] = p PROVE Stage' /\ ~EndsAt(t)
  <2>1. ~EndsAt(t)
    BY <1>1, <1>6, <1>9, <1>10, MarksOf DEF EndsAt
  <2>2. buf' = t /\ UNCHANGED <<host, step, waiting, kind, far, typed>>
    BY <2>1
  <2>3. buf' \o out' = Own(host, step)
    BY <1>4, <1>5, <1>8, <2>2 DEF Own
  <2>4. Answered'
    <3>1. typed' = <<>> /\ far' = far /\ host' = host /\ step' = step
      BY <1>3, <2>2
    <3>2. QED BY <1>0, <1>3, <1>10, <2>3, <3>1 DEF Answered, After, Framing
  <2>5. Asking' /\ ~Exiting' /\ step' \notin {"drain", "telnet", "again"}
    BY <1>0, <2>2 DEF Asking, Exiting, Framing
  <2>6. QED BY <2>1, <2>2, <2>4, <2>5 DEF Stage
<1>11. ASSUME r = <<>>, t = <<p, q>> PROVE Stage' /\ t = Own(host, step)
  <2>1. t = Own(host, step)
    BY <1>4, <1>5, <1>11 DEF Own
  <2>2. "#" \in Marks(t)
    <3>1. Len(<<p, q>>) = 2 /\ <<p, q>>[2] = q /\ 2 \in 1..2
      OBVIOUS
    <3>2. 2 \in 1..Len(t) /\ "#" \in t[2].marks
      BY <1>6, <1>11, <3>1, Zenon
    <3>3. QED BY <1>1, <3>2, MarksOf
  <2>3. EndsAt(t)
    BY <1>9, <2>2 DEF EndsAt
  <2>4. waiting' = FALSE /\ GoesOn(t)
    BY <1>0, <2>3, ReturnsDoes DEF Framing
  <2>5. step' = Following(step) /\ UNCHANGED host
    BY <1>0, <2>4 DEF GoesOn, Continue, Framing
  <2>6. step' \in Shown \cup {"exit"}
    BY <2>5, AfterPriv
  <2>7. out' = <<>> /\ typed' = <<>>
    BY <1>3, <1>11
  <2>8. QED BY <1>3, <2>1, <2>4, <2>5, <2>6, <2>7, PrivNext
<1>12. QED BY <1>1, <1>7, <1>8, <1>10, <1>11, Halves

\* The prompts an exit or a quit waits for are not those of the device.
LEMMA ExitingReceives ==
  ASSUME DiscTypes, Attended, Exiting, Leaving, waiting, UNCHANGED <<kind, far, typed>>,
         NEW k, NEW t, NEW r, Takes(k, t, r), out' = r,
         \/ EndsAt(t) /\ Returns(t)
         \/ ~EndsAt(t) /\ buf' = t /\ UNCHANGED <<host, step, waiting, said, got, results>>
  PROVE  Stage'
<1>1. /\ out \in Seq(PieceSet) /\ buf \in Seq(PieceSet) /\ r \in Seq(PieceSet) /\ t \in Seq(PieceSet)
      /\ k \in 1..Len(out) /\ step # "exit"
  BY DEF Takes, Cuts, DiscTypes
<1>2. Noise(buf) /\ (Staying \/ Gone) /\ step \in Shown \cup {"quit"}
  BY <1>1 DEF Leaving, Exiting
<1>3. \A i \in 1..Len(r) : k + i \in 1..Len(out)
  BY <1>1 DEF Takes, Cuts
<1>4. ASSUME \A i \in 1..k : out[i].marks \subseteq {"#"} PROVE Noise(t)
  <2>1. \A i \in 1..Len(t) : \/ i \in 1..Len(buf)
                             \/ i \in (Len(buf) + 1)..Len(t) /\ i - Len(buf) \in 1..k
    BY <1>1 DEF Takes, Cuts
  <2>2. QED BY <1>2, <1>4, <2>1 DEF Noise, Takes, Cuts
<1>5. ASSUME step = "quit", Noise(t) PROVE ~EndsAt(t)
  <2>1. Endings = {"$", "# ", "> "}
    BY <1>5, Endless, Zenon DEF Endings
  <2>2. \A x \in Marks(t) : x = "#"
    BY <1>1, <1>5, MarksOf DEF Noise
  <2>3. "#" # "$" /\ "#" # "# " /\ "#" # "> "
    BY Zenon
  <2>4. QED BY <2>1, <2>2, <2>3, Zenon DEF EndsAt
<1>6. ASSUME ~EndsAt(t), Staying' \/ Gone', Noise(t) PROVE Stage'
  <2>1. buf' = t /\ UNCHANGED <<step, waiting, host, kind>>
    BY <1>6
  <2>2. Leaving'
    BY <1>6, <2>1 DEF Leaving, Noise
  <2>3. step' \notin {"drain", "telnet", "again"} /\ ~Asking'
    <3>1. step \notin {"drain", "telnet", "again"} /\ ~Asking
      BY Plain DEF Exiting, Asking, Framing
    <3>2. QED BY <2>1, <3>1 DEF Asking
  <2>4. QED BY <2>2, <2>3 DEF Stage
<1>7. ASSUME Staying PROVE Stage'
  <2>1. Noise(out)' /\ Noise(t)
    <3>1. \A i \in 1..k : out[i].marks \subseteq {"#"}
      <4>1. Noise(out) /\ \A i \in 1..k : i \in 1..Len(out)
        BY <1>1, <1>7 DEF Staying
      <4>2. QED BY <4>1 DEF Noise
    <3>2. QED BY <1>3, <1>4, <1>7, <3>1 DEF Staying, Noise, Takes, Cuts
  <2>2. CASE ~EndsAt(t)
    <3>1. UNCHANGED <<step, waiting, host, kind, far, typed>>
      BY <2>2
    <3>2. far' = At(host, "priv")'
      BY <1>7, <3>1 DEF Staying, At
    <3>3. Staying'
      BY <1>7, <2>1, <3>1, <3>2 DEF Staying, Earlier
    <3>4. QED BY <1>6, <2>1, <2>2, <3>3
  <2>3. CASE EndsAt(t)
    <3>1. step # "quit" /\ step \in Shown /\ kind[host] = "noisy"
      BY <1>1, <1>5, <2>1, <2>3 DEF Exiting
    <3>2. waiting' = FALSE /\ GoesOn(t)
      BY <2>3, <3>1, ReturnsDoes
    <3>3. step' = Following(step) /\ UNCHANGED <<host, kind, far, typed>>
      BY <3>1, <3>2, Plain DEF GoesOn, Continue, Framing
    <3>4. step' \in Shown \cup {"exit"}
      BY <3>1, <3>3, AfterPriv
    <3>5. step' \notin {"drain", "telnet", "again", "quit"} /\ ~Asking'
      BY <3>1, <3>3, <3>4, Plain DEF Asking, Framing
    <3>6. far' = At(host, "priv")'
      BY <1>7, <3>3 DEF Staying, At
    <3>7. Staying'
      BY <1>7, <2>1, <3>1, <3>3, <3>5, <3>6 DEF Staying
    <3>8. QED BY <3>2, <3>5, <3>7 DEF Stage, Leaving
  <2>4. QED BY <2>2, <2>3
<1>8. ASSUME Gone PROVE Stage'
  <2>1. PICK m \in 0..Len(out) : /\ \A i \in 1..m : out[i].marks \subseteq {"#"}
                                 /\ \A i \in (m + 1)..Len(out) : Rest(out[i])
    BY <1>8 DEF Gone
  <2>2. step = "quit" /\ AtShell' /\ Quits(typed)'
    BY <1>8 DEF Gone, AtShell, Quits
  <2>3. CASE k <= m
    <3>1. \A i \in 1..k : i \in 1..m
      BY <1>1, <2>1, <2>3
    <3>2. Noise(t) /\ ~EndsAt(t)
      BY <1>4, <1>5, <2>1, <2>2, <3>1
    <3>3. PICK n : n = m - k
      OBVIOUS
    <3>4. n \in 0..Len(r)
      BY <1>1, <2>1, <2>3, <3>3 DEF Takes, Cuts
    <3>5. \A i \in 1..n : i \in 1..Len(r) /\ k + i \in 1..m
      BY <1>1, <2>1, <2>3, <3>3, <3>4
    <3>6. \A i \in (n + 1)..Len(r) : i \in 1..Len(r) /\ k + i \in (m + 1)..Len(out)
      BY <1>1, <2>1, <2>3, <3>3, <3>4 DEF Takes, Cuts
    <3>7. (\A i \in 1..n : r[i].marks \subseteq {"#"}) /\ \A i \in (n + 1)..Len(r) : Rest(r[i])
      BY <2>1, <3>5, <3>6 DEF Takes, Cuts
    <3>8. Gone'
      BY <2>2, <3>2, <3>4, <3>7 DEF Gone
    <3>9. QED BY <1>6, <3>2, <3>8
  <2>4. CASE ~(k <= m)
    <3>1. m + 1 \in 1..k /\ m + 1 \in (m + 1)..Len(out)
      BY <1>1, <2>1, <2>4
    <3>2. PICK j : j = Len(buf) + (m + 1)
      OBVIOUS
    <3>3. j \in 1..Len(t) /\ t[j] = out[m + 1]
      <4>1. j \in (Len(buf) + 1)..Len(t) /\ j - Len(buf) = m + 1
        BY <1>1, <2>1, <3>1, <3>2 DEF Takes, Cuts
      <4>2. QED BY <1>1, <4>1 DEF Takes, Cuts
    <3>4. "$" \in t[j].marks \/ "> " \in t[j].marks
      BY <2>1, <3>1, <3>3, RestMarks, Zenon
    <3>5. \A x : x \in Marks(t) <=> \E i \in 1..Len(t) : x \in t[i].marks
      BY <1>1, MarksOf
    <3>6. Endings = {"$", "# ", "> "}
      BY <2>2, Endless, Zenon DEF Endings
    <3>7. EndsAt(t)
      BY <3>3, <3>4, <3>5, <3>6, Zenon DEF EndsAt
    <3>8. waiting' = FALSE /\ step' = "telnet"
      BY <2>2, <3>7, ReturnsDoes DEF GoesOn, Record
    <3>9. \A i \in 1..Len(r) : k + i \in (m + 1)..Len(out)
      BY <1>1, <1>3, <2>1, <2>4
    <3>10. AllRest(out)'
      BY <2>1, <3>9 DEF AllRest, Takes, Cuts
    <3>11. QED BY <2>2, <3>8, <3>10, RestedNext DEF Rested
  <2>5. QED BY <2>3, <2>4
<1>9. QED BY <1>2, <1>7, <1>8

\* A receive keeps the far end where the script expects it.
LEMMA StageReceives ==
  ASSUME DiscTypes, Attended, Stage, Receives PROVE Stage'
<1>1. PICK k, t, r : /\ Takes(k, t, r) /\ out' = r
                     /\ \/ EndsAt(t) /\ Returns(t)
                        \/ ~EndsAt(t) /\ buf' = t /\ UNCHANGED <<host, step, waiting, said, got, results>>
  BY ReceivesDoes
<1>2. waiting /\ UNCHANGED <<kind, far, typed, late>>
  BY DEF Receives
<1>3. CASE step = "drain"
  <2>1. Rested'
    BY <1>1, <1>2, <1>3, RestedReceives DEF Stage
  <2>2. CASE EndsAt(t)
    <3>1. waiting' = FALSE /\ GoesOn(t)
      BY <1>1, <1>3, <2>2, ReturnsDoes
    <3>2. step' = "telnet"
      BY <1>3, <3>1, FollowingAre DEF GoesOn, Continue
    <3>3. QED BY <2>1, <3>1, <3>2, RestedNext
  <2>3. CASE ~EndsAt(t)
    <3>1. step' = "drain" /\ waiting'
      BY <1>1, <1>2, <1>3, <2>3
    <3>2. QED BY <2>1, <3>1, Plain DEF Stage, Asking, Exiting, Framing
  <2>4. QED BY <2>2, <2>3
<1>4. CASE step = "telnet"
  BY <1>1, <1>2, <1>4, TelnetReceives DEF Stage
<1>5. CASE Asking
  <2>1. Asked \/ Answered
    BY <1>2, <1>5 DEF Stage
  <2>2. CASE step \in {"user", "pass", "enable", "secret", "length"}
    BY <1>1, <1>2, <2>1, <2>2, CommandReceives
  <2>3. CASE step \in Shown /\ kind[host] # "noisy"
    BY <1>1, <1>2, <2>1, <2>3, ShowReceives
  <2>4. QED BY <1>5, <2>2, <2>3 DEF Asking
<1>6. CASE Exiting
  BY <1>1, <1>2, <1>6, ExitingReceives DEF Stage
<1>7. step \in Names /\ step # "again"
  BY DEF DiscTypes, Stage
<1>8. QED BY <1>3, <1>4, <1>5, <1>6, <1>7 DEF Names, Framing, Asking, Exiting

\* A deadline that passes when nothing is to come passes for a device that is
\* not in step, or between two devices.
LEMMA QuietIs ==
  ASSUME DiscTypes, Attended, Stage, waiting, Quiet
  PROVE  step = "drain" \/ (Exiting /\ (step = "quit" => Gone))
<1>1. out = <<>> /\ typed = <<>>
  BY StageOpen DEF Quiet
<1>2. ~Dials /\ ~Greeted /\ ~Asked
  BY <1>1 DEF Dials, Greeted, Asked
<1>3. ~Answered
  BY <1>1 DEF Answered
<1>4. step = "quit" => ~Staying
  BY <1>1 DEF Staying
<1>5. step \in Names /\ step # "again" /\ step # "telnet" /\ ~Asking
  BY <1>2, <1>3 DEF DiscTypes, Stage, Dialing
<1>6. step = "drain" \/ Exiting
  BY <1>5 DEF Names, Framing, Asking, Exiting
<1>7. step = "quit" => Gone
  BY <1>4, <1>6 DEF Stage, Leaving, Exiting
<1>8. QED BY <1>6, <1>7

\* A deadline that passes too early is counted, as long as there is one at most.
LEMMA ExpiresLate ==
  ASSUME DiscTypes, Expires
  PROVE  /\ late' \in {late, late + 1} /\ late \in Nat /\ late' \in Nat
         /\ late' <= 1 => (Quiet /\ late' = late) \/ (late' = late + 1 /\ late = 0)
BY DiscoveryAssumption DEF Expires, DiscTypes, DiscoveryAssumption

\* A receive that ends at its deadline, with nothing more to come, keeps it too.
LEMMA StageExpires ==
  ASSUME DiscTypes, Attended, Stage, Expires, late' = 0 PROVE Stage'
<1>1. waiting /\ Returns(buf) /\ UNCHANGED <<kind, far, typed, out>> /\ Quiet
  BY ExpiresLate DEF Expires, farVars
<1>2. waiting' = FALSE /\ (step # "quit" => GoesOn(buf)) /\ (step = "quit" => Record(Entry("ok", got)))
  BY <1>1, ReturnsDoes DEF GoesOn
<1>3. CASE step = "drain"
  <2>1. step' = "telnet"
    BY <1>2, <1>3, FollowingAre DEF GoesOn, Continue
  <2>2. Rested'
    BY <1>1, <1>3 DEF Stage, Rested, AtShell, Quits, AllRest
  <2>3. QED BY <1>2, <2>1, <2>2, RestedNext
<1>4. CASE step = "quit"
  <2>1. Gone /\ step' = "telnet" /\ out = <<>>
    BY <1>1, <1>2, <1>4, QuietIs DEF Record, Quiet
  <2>2. Rested'
    BY <1>1, <2>1 DEF Gone, Rested, AtShell, Quits, AllRest
  <2>3. QED BY <1>2, <2>1, <2>2, RestedNext
<1>5. CASE Exiting /\ step # "quit"
  <2>1. step \in Shown /\ kind[host] = "noisy"
    BY <1>1, <1>5 DEF Exiting, DiscTypes
  <2>2. step' = Following(step) /\ UNCHANGED host
    BY <1>2, <1>5, <2>1, Plain DEF GoesOn, Continue, Framing
  <2>3. step' \in Shown \cup {"exit"}
    BY <2>1, <2>2, AfterPriv
  <2>4. step' \notin {"drain", "telnet", "again", "quit"} /\ ~Asking'
    BY <1>1, <2>1, <2>2, <2>3, Plain DEF Asking, Framing
  <2>5. Staying
    BY <1>5 DEF Stage, Leaving, Gone
  <2>6. far' = At(host, "priv")' /\ Noise(out)'
    BY <1>1, <2>2, <2>5 DEF Staying, At, Noise
  <2>7. Staying'
    BY <1>1, <1>5, <2>4, <2>5, <2>6 DEF Staying
  <2>8. QED BY <1>2, <2>4, <2>7 DEF Stage, Leaving
<1>6. QED BY <1>1, <1>3, <1>4, <1>5, QuietIs

-----------------------------------------------------------------------------
(* What is recorded.                                                       *)

\* Every step keeps the stage, as long as no receive gives up early.
LEMMA StageKept == ASSUME DiscTypes, Attended, Stage, DiscNext, late' = 0 PROVE Stage'
<1>1. CASE Reads
  BY <1>1, StageReads
<1>2. CASE Escapes
  BY <1>2, StageEscapes
<1>3. CASE GivesUp
  BY <1>3, StageOpen DEF GivesUp
<1>4. CASE Sends
  BY <1>4, SendsDoes, StageSends, StageOpen DEF SendsNone
<1>5. CASE Receives
  BY <1>5, StageReceives
<1>6. CASE Expires
  BY <1>6, StageExpires
<1>7. QED BY <1>1, <1>2, <1>3, <1>4, <1>5, <1>6 DEF DiscNext

\* Receives that gave up and devices done with only grow in number.
Onward ==
  /\ UNCHANGED kind /\ late' \in {late, late + 1}
  /\ \/ UNCHANGED <<host, results>>
     \/ host \in Hosts /\ ~(waiting') /\ \E e : Record(e)

\* The host and the entries change only when an entry is recorded, with nothing under way.
LEMMA GoesOnward == ASSUME DiscTypes, DiscNext PROVE Onward
<1>1. CASE Reads
  BY <1>1 DEF Reads, scriptVars, Onward
<1>2. CASE Escapes
  BY <1>2 DEF Escapes, scriptVars, Onward
<1>3. CASE GivesUp
  BY <1>3 DEF GivesUp, scriptVars, Onward
<1>4. CASE Sends
  BY <1>4, SendsDoes DEF SendsLine, SendsNone, Onward
<1>5. ASSUME NEW text, waiting, Returns(text)
      PROVE  UNCHANGED <<host, results>> \/ (host \in Hosts /\ ~(waiting') /\ \E e : Record(e))
  BY <1>5, ReturnsDoes DEF GoesOn, DiscTypes
<1>6. CASE Receives
  <2>1. waiting /\ UNCHANGED <<kind, late>>
    BY <1>6 DEF Receives
  <2>2. PICK k, t, r : \/ EndsAt(t) /\ Returns(t)
                       \/ ~EndsAt(t) /\ buf' = t /\ UNCHANGED <<host, step, waiting, said, got, results>>
    BY <1>6, ReceivesDoes
  <2>3. QED BY <1>5, <2>1, <2>2 DEF Onward
<1>7. CASE Expires
  <2>1. waiting /\ Returns(buf) /\ UNCHANGED kind /\ late' \in {late, late + 1}
    BY <1>7, ExpiresLate DEF Expires
  <2>2. QED BY <1>5, <2>1 DEF Onward
<1>8. QED BY <1>1, <1>2, <1>3, <1>4, <1>5, <1>6, <1>7 DEF DiscNext

\* The script does not get back in step: earlier devices and receives stay as they were.
LEMMA StaysInStep ==
  ASSUME DiscTypes, Onward, InStep' PROVE InStep /\ late = 0 /\ late' = 0
<1>1. late \in Nat /\ late' = 0 /\ late = 0 /\ host' \in Hosts /\ host \in 1..(N + 1)
  BY DEF InStep, Onward, DiscTypes
<1>2. host' = host \/ host' = host + 1
  BY DEF Onward, Record
<1>3. host \in Hosts /\ \A e \in 1..host : e \in 1..(host')
  BY <1>1, <1>2, Numbered
<1>4. \A e \in 1..(host') : kind[e] \in Answering
  BY DEF InStep, Onward
<1>5. QED BY <1>1, <1>3, <1>4 DEF InStep

\* In step, the device answers.
LEMMA StepIsAttended == ASSUME DiscTypes, InStep PROVE Attended
BY Numbered DEF InStep, Attended

\* The stage is inductive.
LEMMA InStageStep == ASSUME DiscTypes, InStage, DiscNext PROVE InStage'
BY GoesOnward, StaysInStep, StageKept, StepIsAttended DEF InStage

\* The entry recorded is this device's own, if it is in step to the end.
LEMMA RecordRight ==
  ASSUME DiscTypes, DoneRight, host \in Hosts, NEW status, NEW shows, Record(Entry(status, shows)),
         UNCHANGED kind, late' \in {late, late + 1},
         InStep /\ late' = 0 /\ kind[host] \in {"line", "user"}
           => status = "ok" /\ \A s \in Shown : shows[s] = Own(host, s)
  PROVE  GotRight' /\ DoneRight'
<1>1. /\ host' = host + 1 /\ step' = "telnet" /\ results' = [results EXCEPT ![host] = Entry(status, shows)]
      /\ late \in Nat /\ host \in 1..N
  BY Numbered DEF Record, DiscTypes
<1>2. GotRight'
  <2>1. \A i : ~(Past(i)')
    BY <1>1, ShownAre DEF Past, Framing
  <2>2. QED BY <2>1 DEF GotRight
<1>3. ASSUME NEW d \in Hosts
      PROVE  IF d >= host' THEN results'[d].status = "none"
             ELSE (late' = 0 /\ kind'[d] \in {"line", "user"} /\ \A e \in 1..(d - 1) : kind'[e] \in Answering)
                    => Right(d)'
  <2>1. d \in Nat /\ host \in Nat
    BY <1>1, Numbered
  <2>2. CASE d = host
    <3>1. ~(d >= host') /\ results'[d] = Entry(status, shows)
      BY <1>1, <2>1, <2>2 DEF DiscTypes
    <3>2. ASSUME late' = 0, kind'[d] \in {"line", "user"}, \A e \in 1..(d - 1) : kind'[e] \in Answering
          PROVE  Right(d)'
      <4>1. \A e \in 1..host : e = host \/ e \in 1..(host - 1)
        BY <2>1
      <4>2. InStep
        BY <1>1, <2>2, <3>2, <4>1 DEF InStep, Answering
      <4>3. status = "ok" /\ \A s \in Shown : shows[s] = Own(host, s)
        BY <2>2, <3>2, <4>2
      <4>4. QED BY <2>2, <3>1, <4>3 DEF Right, Recorded, Entry
    <3>3. QED BY <3>1, <3>2
  <2>3. CASE d # host
    <3>1. results'[d] = results[d] /\ (d >= host' => d >= host) /\ (~(d >= host') => ~(d >= host))
      BY <1>1, <2>1, <2>3 DEF DiscTypes
    <3>2. late' = 0 => late = 0
      BY <1>1
    <3>3. QED BY <3>1, <3>2 DEF DoneRight, Right, Recorded
  <2>4. QED BY <2>2, <2>3
<1>4. QED BY <1>2, <1>3 DEF DoneRight

\* The text of a command is kept under its name, and those before it stay.
LEMMA GoesOnRight ==
  ASSUME DiscTypes, GotRight, DoneRight, NEW text, GoesOn(text), waiting, UNCHANGED kind,
         late' \in {late, late + 1},
         InStep /\ late' = 0 /\ kind[host] # "noisy" /\ step \in Shown => text = Own(host, step)
  PROVE  GotRight' /\ DoneRight'
<1>1. late \in Nat /\ step \in Names /\ step # "exit" /\ step # "quit" /\ UNCHANGED <<host, results>>
  BY DEF GoesOn, DiscTypes
<1>2. DoneRight'
  BY <1>1 DEF DoneRight, Right, Recorded
<1>3. ASSUME InStep', kind[host] # "noisy", NEW i \in 1..Len(Shows), Past(i)'
      PROVE  got'[Shows[i]] = Own(host, Shows[i])
  <2>1. InStep /\ late' = 0
    BY <1>1, <1>3 DEF InStep
  <2>2. Shows[i] \in Shown /\ got \in Gotten
    BY ShownAre DEF DiscTypes
  <2>3. CASE step \in Shown
    <3>1. PICK j \in 1..Len(Shows) : step = Shows[j]
      BY <2>3, ShownAre
    <3>2. step' = IF j = Len(Shows) THEN "exit" ELSE Shows[j + 1]
      BY <2>3, <3>1, FollowingAre, Plain DEF GoesOn, Continue, Framing
    <3>3. i <= j
      <4>1. CASE j = Len(Shows)
        BY <4>1, StepsAre
      <4>2. CASE j # Len(Shows)
        <5>1. j + 1 \in 1..Len(Shows) /\ step' = Shows[j + 1] /\ step' \in Shown
          BY <3>2, <4>2, StepsAre, ShownAre
        <5>2. PICK n \in 1..Len(Shows) : step' = Shows[n] /\ i < n
          BY <1>3, <5>1, Plain DEF Past, Framing
        <5>3. n = j + 1
          BY <5>1, <5>2, ShownAre
        <5>4. QED BY <5>2, <5>3
      <4>3. QED BY <4>1, <4>2
    <3>4. got' = [got EXCEPT ![step] = text] /\ text = Own(host, step)
      BY <1>3, <2>1, <2>3 DEF GoesOn
    <3>5. CASE i = j
      BY <2>2, <3>1, <3>4, <3>5 DEF Gotten
    <3>6. CASE i # j
      <4>1. i < j /\ Shows[i] # Shows[j]
        BY <3>3, <3>6, ShownAre
      <4>2. Past(i)
        BY <3>1, <4>1 DEF Past
      <4>3. got[Shows[i]] = Own(host, Shows[i])
        BY <1>3, <2>1, <4>2 DEF GotRight
      <4>4. QED BY <2>2, <3>1, <3>4, <4>1, <4>3 DEF Gotten
    <3>7. QED BY <3>5, <3>6
  <2>4. CASE step \in {"length"}
    <3>1. step' = IF Len(Shows) = 0 THEN "exit" ELSE Shows[1]
      BY <2>4, FollowingAre DEF GoesOn, Continue
    <3>2. 1 \in 1..Len(Shows) /\ step' = Shows[1] /\ step' \in Shown
      BY <3>1, ShownAre, StepsAre
    <3>3. PICK n \in 1..Len(Shows) : step' = Shows[n] /\ i < n
      BY <1>3, <3>2, Plain DEF Past, Framing
    <3>4. n = 1
      BY <3>2, <3>3, ShownAre
    <3>5. QED BY <3>3, <3>4
  <2>5. CASE step \in Framing \ {"length", "exit", "quit"}
    <3>1. step' \in Framing \ {"exit", "quit"}
      BY <2>5, FollowingAre DEF GoesOn, Continue, Framing
    <3>2. QED BY <1>3, <3>1, ShownAre DEF Past
  <2>6. QED BY <1>1, <2>3, <2>4, <2>5 DEF Names
<1>4. GotRight'
  BY <1>1, <1>3 DEF GotRight
<1>5. QED BY <1>2, <1>4

\* A step that leaves the entries and the commands past alone keeps them right.
LEMMA RightStays ==
  ASSUME GotRight, DoneRight, UNCHANGED <<kind, host, got, results, late>>,
         step' = step \/ (step = "exit" /\ step' = "quit")
  PROVE  GotRight' /\ DoneRight'
<1>1. \A i : Past(i)' => Past(i)
  BY DEF Past
<1>2. GotRight'
  BY <1>1 DEF GotRight, InStep
<1>3. QED BY <1>2 DEF DoneRight, Right, Recorded

\* At quit every show command has been recorded.
LEMMA GotAll ==
  ASSUME GotRight, InStep, kind[host] \in {"line", "user"}, step = "quit"
  PROVE  \A s \in Shown : got[s] = Own(host, s)
<1>1. \A i \in 1..Len(Shows) : Past(i)
  BY DEF Past
<1>2. QED BY <1>1, ShownAre DEF GotRight

\* The entries, and the one in the making, hold each command's own output.
LEMMA RightStep ==
  ASSUME DiscTypes, InStage, GotRight, DoneRight, DiscNext PROVE GotRight' /\ DoneRight'
<1>1. CASE Reads
  BY <1>1, RightStays DEF Reads, scriptVars
<1>2. CASE Escapes
  BY <1>2, RightStays DEF Escapes, scriptVars
<1>3. CASE GivesUp
  BY <1>3, RightStays DEF GivesUp, scriptVars
<1>4. CASE Sends
  <2>1. CASE SendsLine
    BY <2>1, RightStays DEF SendsLine
  <2>2. CASE SendsNone
    <3>1. ~InStep
      BY <2>2, StageOpen, StepIsAttended DEF SendsNone, InStage
    <3>2. host \in Hosts /\ Record(Entry("error", Nothing)) /\ UNCHANGED <<kind, late>>
      BY <2>2 DEF SendsNone
    <3>3. QED BY <3>1, <3>2, RecordRight
  <2>3. QED BY <1>4, <2>1, <2>2, SendsDoes
<1>5. CASE Receives
  <2>1. waiting /\ UNCHANGED <<kind, far, typed, late>>
    BY <1>5 DEF Receives
  <2>2. PICK k, t, r : /\ Takes(k, t, r) /\ out' = r
                       /\ \/ EndsAt(t) /\ Returns(t)
                          \/ ~EndsAt(t) /\ buf' = t /\ UNCHANGED <<host, step, waiting, said, got, results>>
    BY <1>5, ReceivesDoes
  <2>3. CASE ~EndsAt(t)
    <3>1. UNCHANGED <<kind, host, got, results, late, step>>
      BY <2>1, <2>2, <2>3
    <3>2. QED BY <3>1, RightStays
  <2>4. CASE EndsAt(t) /\ step = "quit"
    <3>1. host \in Hosts /\ Record(Entry("ok", got))
      BY <2>1, <2>2, <2>4, ReturnsDoes DEF GoesOn, DiscTypes
    <3>2. QED BY <2>1, <2>4, <3>1, GotAll, RecordRight
  <2>5. CASE EndsAt(t) /\ step # "quit"
    <3>1. GoesOn(t)
      BY <2>2, <2>5, ReturnsDoes
    <3>2. ASSUME InStep, kind[host] # "noisy", step \in Shown PROVE t = Own(host, step)
      <4>1. Asked \/ Answered
        BY <2>1, <3>2 DEF InStage, Stage, Asking
      <4>2. QED BY <2>1, <2>2, <2>5, <3>2, <4>1, ShowReceives
    <3>3. QED BY <2>1, <3>1, <3>2, GoesOnRight
  <2>6. QED BY <2>3, <2>4, <2>5
<1>6. CASE Expires
  <2>1. waiting /\ Returns(buf) /\ UNCHANGED kind /\ late' \in {late, late + 1} /\ late \in Nat
        /\ (late' = 0 => Quiet)
    BY <1>6, ExpiresLate DEF Expires
  <2>2. CASE step = "quit"
    <3>1. host \in Hosts /\ Record(Entry("ok", got))
      BY <2>1, <2>2, ReturnsDoes DEF GoesOn, DiscTypes
    <3>2. QED BY <2>1, <2>2, <3>1, GotAll, RecordRight
  <2>3. CASE step # "quit"
    <3>1. GoesOn(buf)
      BY <2>1, <2>3, ReturnsDoes
    <3>2. ~(InStep /\ late' = 0 /\ kind[host] # "noisy" /\ step \in Shown)
      <4> SUFFICES ASSUME InStep, late' = 0, kind[host] # "noisy", step \in Shown PROVE FALSE
        OBVIOUS
      <4>1. Quiet /\ Stage
        BY <2>1 DEF InStep, InStage
      <4>2. step = "drain" \/ Exiting
        BY <2>1, <4>1, QuietIs, StepIsAttended
      <4>3. QED BY <4>2, Plain DEF Exiting, Framing
    <3>3. QED BY <2>1, <3>1, <3>2, GoesOnRight
  <2>4. QED BY <2>2, <2>3
<1>7. QED BY <1>1, <1>2, <1>3, <1>4, <1>5, <1>6 DEF DiscNext

\* The script starts at rest, at the jump host's first prompt.
LEMMA StageInitially == DiscInit => InStage /\ GotRight /\ DoneRight
<1> SUFFICES ASSUME DiscInit PROVE InStage /\ GotRight /\ DoneRight
  OBVIOUS
<1>1. step = "drain" /\ waiting /\ typed = <<>> /\ AtShell /\ host = 1
      /\ out = <<Piece(0, "login", {"$"})>>
  BY DEF DiscInit, AtShell, At
<1>2. Len(out) = 1 /\ Rest(out[1])
  BY <1>1 DEF Rest, Piece
<1>3. Rested
  BY <1>1, <1>2 DEF Rested, Quits, AllRest
<1>4. Stage
  BY <1>1, <1>3, Plain DEF Stage, Asking, Exiting, Framing
<1>5. GotRight
  BY <1>1, ShownAre DEF GotRight, Past, Framing
<1>6. \A d \in Hosts : d >= host /\ results[d].status = "none"
  BY <1>1, Numbered DEF DiscInit, Entry
<1>7. QED BY <1>4, <1>5, <1>6 DEF InStage, DoneRight

\* What is inductive with the types while in step.
StepInv == InStage /\ GotRight /\ DoneRight

\* In step, the stage holds and every entry recorded is right.
LEMMA StepInvAlways == DiscSpec => []StepInv
<1>1. DiscInit => StepInv
  BY StageInitially DEF StepInv
<1>2. DiscTypes /\ StepInv /\ [DiscNext]_discVars => StepInv'
  <2>1. ASSUME DiscTypes, StepInv, DiscNext PROVE StepInv'
    BY <2>1, InStageStep, RightStep DEF StepInv
  <2>2. ASSUME StepInv, UNCHANGED discVars PROVE StepInv'
    <3>1. Stage' = Stage /\ InStep' = InStep
      BY <2>2 DEF Stage, InStep, Asking, Exiting, Rested, AtShell, Quits, AllRest, Dialing, Dials, Greeted,
                  Greeting, Asked, Answered, Idle, Before, After, Leaving, Noise, Staying, Earlier,
                  Gone, discVars, farVars, scriptVars
    <3>2. GotRight' = GotRight
      BY <2>2, <3>1 DEF GotRight, Past, discVars, farVars, scriptVars, Own
    <3>3. DoneRight' = DoneRight
      BY <2>2 DEF DoneRight, Right, Recorded, discVars, farVars, scriptVars, Own
    <3>4. QED BY <2>2, <3>1, <3>2, <3>3 DEF StepInv, InStage
  <2>3. QED BY <2>1, <2>2
<1>3. QED BY <1>1, <1>2, TypesAlways, PTL DEF DiscSpec

\* While no receive has given up early and the devices answer, the entry of a
\* device holds each command's own output (collect_device_info, send_cmd).
THEOREM AnswersAlwaysOwn == DiscSpec => []OwnAnswers
<1>1. DiscTypes /\ StepInv => OwnAnswers
  <2> SUFFICES ASSUME DiscTypes, DoneRight PROVE OwnAnswers
    BY DEF StepInv
  <2>1. ASSUME NEW d \in Hosts, late = 0, kind[d] \in {"line", "user"}, results[d].status # "none",
               \A e \in 1..(d - 1) : kind[e] \in Answering
        PROVE  Recorded(d) /\ \A s \in Shown : results[d].shows[s] = Own(d, s)
    BY <2>1 DEF DoneRight, Right
  <2>2. QED BY <2>1 DEF OwnAnswers, Own
<1>2. QED BY <1>1, TypesAlways, StepInvAlways, PTL

-----------------------------------------------------------------------------
(* After a receive that gave up, and whatever the devices do: who may have *)
(* written what is in the stream.                                          *)

\* Each device writes what its behaviour has it write: only a loud one what the
\* jump host's prompt looks like; a refusing one asks for the password again and
\* again, and a silent or a dead one writes nothing.
Voice(p) ==
  IF p.by = 0 THEN Rest(p)
  ELSE /\ kind[p.by] \notin {"silent", "dead"}
       /\ kind[p.by] # "loud" => p.marks \subseteq {"#", ">", "Password", "Username"}
       /\ kind[p.by] = "refusing" => p.marks = {"Password"}
Seat(f) ==
  f.at # 0 => /\ kind[f.at] # "dead"
              /\ kind[f.at] = "refusing" => f.state = "password"
              /\ kind[f.at] = "silent" <=> f.state = "hang"
Voices == Seat(far) /\ \A i \in 1..Len(out) : Voice(out[i])

\* Where the jump host's shell leads.
LEMMA LeadsFromShell ==
  ASSUME DiscTypes, NEW l \in LineSet, NEW next \in Leads(l), far.at = 0, far.state # "closed"
  PROVE  /\ far.state = "shell"
         /\ l.what = "exit" => next = At(0, "closed")
         /\ l.what \notin {"exit", "telnet"} => next = far
         /\ l.what = "telnet" =>
              \/ kind[l.host] = "dead" /\ next = far
              \/ kind[l.host] = "silent" /\ next = At(l.host, "hang")
              \/ kind[l.host] = "user" /\ next = At(l.host, "login")
              \/ kind[l.host] \notin {"dead", "silent", "user"} /\ next = At(l.host, "password")
<1>1. far.state = "shell"
  BY FarIs
<1>2. QED BY <1>1 DEF Leads

\* Where a device's session leads: nowhere but to itself or to the shell.
LEMMA LeadsFromDevice ==
  ASSUME DiscTypes, Seat(far), NEW l \in LineSet, NEW next \in Leads(l), far.at # 0, far.state # "hang"
  PROVE  /\ next = At(0, "shell") \/ (next.at = far.at /\ l.what # "quit" /\ next.state # "hang")
         /\ far.state = "priv" => IF l.what \in {"exit", "quit"} THEN next = At(0, "shell")
                                  ELSE next = far
         /\ l.what \in Shown /\ far.state \in {"exec", "priv"} => next = far
         /\ kind[far.at] = "refusing" => next \in {far, At(0, "shell")}
<1>1. /\ far.state \in {"login", "password", "exec", "enable", "priv"}
      /\ kind[far.at] = "refusing" => far.state = "password"
  BY FarIs DEF Seat, States
<1>2. \A d, s : At(d, s).at = d /\ At(d, s).state = s
  BY DEF At
<1>3. l.what \in Shown => l.what \notin {"exit", "quit", "enable"}
  BY Plain DEF Framing
<1>4. CASE l.what = "quit"
  BY <1>1, <1>3, <1>4 DEF Leads
<1>5. CASE l.what # "quit" /\ far.state = "login"
  BY <1>1, <1>2, <1>5 DEF Leads
<1>6. CASE l.what # "quit" /\ far.state = "password"
  <2>1. \/ next = far \/ next = At(0, "shell")
        \/ kind[far.at] # "refusing" /\ next \in {At(far.at, "exec"), At(far.at, "priv")}
    BY <1>6 DEF Leads
  <2>2. QED BY <1>2, <1>6, <2>1
<1>7. CASE l.what # "quit" /\ far.state = "enable"
  BY <1>1, <1>2, <1>7 DEF Leads
<1>8. CASE l.what # "quit" /\ far.state = "exec"
  BY <1>1, <1>2, <1>3, <1>8 DEF Leads
<1>9. CASE l.what # "quit" /\ far.state = "priv"
  BY <1>1, <1>2, <1>3, <1>9 DEF Leads
<1>10. QED BY <1>1, <1>4, <1>5, <1>6, <1>7, <1>8, <1>9

\* A line leads where the device's behaviour has it lead.
LEMMA SeatNext ==
  ASSUME DiscTypes, Seat(far), NEW l \in LineSet, NEW next \in Leads(l), far.state \notin {"closed", "hang"}
  PROVE  Seat(next)
<1>1. \A d, s : At(d, s).at = d /\ At(d, s).state = s
  BY DEF At
<1>2. CASE far.at = 0
  BY <1>1, <1>2, LeadsFromShell DEF Seat
<1>3. CASE far.at # 0
  BY <1>1, <1>3, LeadsFromDevice DEF Seat
<1>4. QED BY <1>2, <1>3

\* What is written when a line is read is written by where the line led.
Grows(d) ==
  /\ Len(out') \in Nat /\ Len(out) <= Len(out') /\ \A i \in 1..Len(out) : out'[i] = out[i]
  /\ \A i \in (Len(out) + 1)..Len(out') : out'[i].by = d /\ Voice(out'[i])

\* The answer to a line is written by where it led.
LEMMA BodyBy ==
  ASSUME DiscTypes, Seat(far), NEW l, NEW next, ReadsLine(l, next)
  PROVE  \A i \in 1..Len(Body(l)) : Body(l)[i].by = next.at /\ Voice(Body(l)[i])
<1>1. l \in LineSet /\ next \in Leads(l) /\ far.state \notin {"closed", "hang"}
  BY DEF ReadsLine
<1>2. CASE l.what \in Shown /\ far.state \in {"exec", "priv"}
  <2>1. PICK m : m = Marked(far.at)
    OBVIOUS
  <2>2. PICK p : p = Piece(far.at, l.what, m)
    OBVIOUS
  <2>3. Body(l) = <<p>>
    BY <1>2, <2>1, <2>2, Zenon DEF Body
  <2>4. far.at # 0
    BY <1>2, FarIs
  <2>5. next = far
    BY <1>1, <1>2, <2>4, LeadsFromDevice
  <2>6. p.by = far.at /\ p.marks = m
    BY <2>2 DEF Piece
  <2>7. kind[far.at] \notin {"silent", "dead", "refusing"}
    BY <1>1, <1>2, <2>4 DEF Seat
  <2>8. kind[far.at] # "loud" => m \subseteq {"#", ">", "Password", "Username"}
    BY <2>1, MarkedAre
  <2>9. Voice(p)
    BY <2>4, <2>6, <2>7, <2>8 DEF Voice
  <2>10. QED BY <2>3, <2>5, <2>6, <2>9
<1>3. CASE ~(l.what \in Shown /\ far.state \in {"exec", "priv"}) /\ l.what = "quit" /\ far.at # 0
  <2>1. PICK p : p = Piece(0, "quit", {">", "> "})
    OBVIOUS
  <2>2. Body(l) = <<p>>
    BY <1>3, <2>1, Zenon DEF Body
  <2>3. next.at = 0
    BY <1>1, <1>3, LeadsFromDevice DEF At
  <2>4. p.by = 0 /\ p.marks = {">", "> "}
    BY <2>1, Zenon DEF Piece
  <2>5. Rest(p)
    BY <2>4, Zenon DEF Rest
  <2>6. p.by = 0 /\ Voice(p)
    BY <2>4, <2>5, Zenon DEF Voice
  <2>7. QED BY <2>2, <2>3, <2>6
<1>4. CASE ~(l.what \in Shown /\ far.state \in {"exec", "priv"}) /\ ~(l.what = "quit" /\ far.at # 0)
  <2>1. Body(l) = <<>>
    BY <1>4, Zenon DEF Body
  <2>2. QED BY <2>1
<1>5. QED BY <1>2, <1>3, <1>4

\* The prompt is written by where the line led, and there is one in a prompting state.
LEMMA TagBy ==
  ASSUME DiscTypes, NEW l, NEW next, Placed(next), Seat(next)
  PROVE  /\ \A i \in 1..Len(Tagged(next, l)) : Tagged(next, l)[i].by = next.at /\ Voice(Tagged(next, l)[i])
         /\ IF next.state \in DOMAIN Prompt
            THEN Len(Tagged(next, l)) = 1 /\ Tagged(next, l)[1].marks = Prompt[next.state]
            ELSE Len(Tagged(next, l)) = 0
<1>1. CASE next.state \in DOMAIN Prompt
  <2>1. PICK p : p = Piece(next.at, l.what, Prompt[next.state])
    OBVIOUS
  <2>2. Tagged(next, l) = <<p>> /\ p.by = next.at /\ p.marks = Prompt[next.state]
    BY <1>1, <2>1 DEF Tagged, Piece
  <2>3. ASSUME next.at = 0 PROVE Voice(p)
    <3>1. next.state = "shell"
      BY <1>1, <2>3, Promises DEF Placed
    <3>2. p.marks = {"$"} /\ p.by = 0
      BY <2>2, <2>3, <3>1, Promises
    <3>3. QED BY <3>2, Zenon DEF Voice, Rest
  <2>4. ASSUME next.at # 0 PROVE Voice(p)
    <3>1. next.state \in {"login", "password", "exec", "enable", "priv"}
      BY <1>1, <2>4, Promises DEF Placed
    <3>2. kind[next.at] \notin {"silent", "dead"} /\ (kind[next.at] = "refusing" => next.state = "password")
      BY <2>4, <3>1 DEF Seat
    <3>3. /\ p.marks \subseteq {"#", ">", "Password", "Username"}
          /\ kind[next.at] = "refusing" => p.marks = {"Password"}
      BY <2>2, <3>1, <3>2, Promises
    <3>4. QED BY <2>2, <2>4, <3>2, <3>3 DEF Voice
  <2>5. QED BY <1>1, <2>2, <2>3, <2>4
<1>2. CASE next.state \notin DOMAIN Prompt
  BY <1>2 DEF Tagged
<1>3. QED BY <1>1, <1>2

\* Reading a line adds to the stream what the place it led to writes.
LEMMA ReadsGrows ==
  ASSUME DiscTypes, Voices, NEW l, NEW next, ReadsLine(l, next)
  PROVE  /\ Grows(next.at) /\ Seat(next) /\ l \in LineSet /\ next \in Leads(l)
         /\ far.state \notin {"closed", "hang"}
         /\ Body(l) = <<>> => Len(out') = Len(out) + Len(Tagged(next, l))
                              /\ \A i \in 1..Len(Tagged(next, l)) : out'[Len(out) + i] = Tagged(next, l)[i]
         /\ \A i \in (Len(out) + 1)..Len(out') :
              \/ \E m \in 1..Len(Body(l)) : out'[i] = Body(l)[m]
              \/ \E m \in 1..Len(Tagged(next, l)) : out'[i] = Tagged(next, l)[m]
<1>1. PICK b, c, o : b = Body(l) /\ c = Tagged(next, l) /\ o = out'
  OBVIOUS
<1>2. /\ l \in LineSet /\ next \in Leads(l) /\ Placed(next) /\ far.state \notin {"closed", "hang"}
      /\ b \in Seq(PieceSet) /\ c \in Seq(PieceSet) /\ out \in Seq(PieceSet) /\ o = out \o b \o c
  BY <1>1 DEF ReadsLine, DiscTypes
<1>3. Seat(next) /\ Seat(far)
  BY <1>2, SeatNext DEF Voices
<1>4. \A i \in 1..Len(b) : b[i].by = next.at /\ Voice(b[i])
  BY <1>1, <1>3, BodyBy
<1>5. \A i \in 1..Len(c) : c[i].by = next.at /\ Voice(c[i])
  BY <1>1, <1>2, <1>3, TagBy
<1>6. Len(o) = Len(out) + Len(b) + Len(c) /\ Len(b) \in Nat /\ Len(c) \in Nat /\ Len(out) \in Nat
  BY <1>2
<1>7. \A i \in 1..Len(out) : o[i] = out[i]
  BY <1>2, <1>6
<1>8. \A i \in (Len(out) + 1)..Len(o) :
        IF i <= Len(out) + Len(b) THEN i - Len(out) \in 1..Len(b) /\ o[i] = b[i - Len(out)]
        ELSE i - Len(out) - Len(b) \in 1..Len(c) /\ o[i] = c[i - Len(out) - Len(b)]
  BY <1>2, <1>6
<1>9. \A i \in (Len(out) + 1)..Len(o) : o[i].by = next.at /\ Voice(o[i])
  <2> SUFFICES ASSUME NEW i \in (Len(out) + 1)..Len(o) PROVE o[i].by = next.at /\ Voice(o[i])
    OBVIOUS
  <2>1. CASE i <= Len(out) + Len(b)
    <3>1. i - Len(out) \in 1..Len(b) /\ o[i] = b[i - Len(out)]
      BY <1>8, <2>1
    <3>2. QED BY <1>4, <3>1
  <2>2. CASE ~(i <= Len(out) + Len(b))
    <3>1. i - Len(out) - Len(b) \in 1..Len(c) /\ o[i] = c[i - Len(out) - Len(b)]
      BY <1>8, <2>2
    <3>2. QED BY <1>5, <3>1
  <2>3. QED BY <2>1, <2>2
<1>10. Grows(next.at)
  BY <1>1, <1>6, <1>7, <1>9 DEF Grows
<1>11. ASSUME b = <<>> PROVE /\ Len(o) = Len(out) + Len(c)
                             /\ \A i \in 1..Len(c) : o[Len(out) + i] = c[i]
  <2>1. Len(b) = 0
    BY <1>11
  <2>2. \A i \in 1..Len(c) : Len(out) + i \in (Len(out) + 1)..Len(o) /\ ~(Len(out) + i <= Len(out) + Len(b))
                             /\ Len(out) + i - Len(out) - Len(b) = i
    BY <1>6, <2>1
  <2>3. QED BY <1>6, <1>8, <2>1, <2>2
<1>12. \A i \in (Len(out) + 1)..Len(o) : \/ \E m \in 1..Len(b) : o[i] = b[m]
                                         \/ \E m \in 1..Len(c) : o[i] = c[m]
  BY <1>8
<1>13. \A i \in (Len(out) + 1)..Len(out') :
         \/ \E m \in 1..Len(Body(l)) : out'[i] = Body(l)[m]
         \/ \E m \in 1..Len(Tagged(next, l)) : out'[i] = Tagged(next, l)[m]
  BY <1>1, <1>12, Zenon
<1>14. Body(l) = <<>> => Len(out') = Len(out) + Len(Tagged(next, l))
                         /\ \A i \in 1..Len(Tagged(next, l)) : out'[Len(out) + i] = Tagged(next, l)[i]
  BY <1>1, <1>11
<1>15. QED BY <1>2, <1>3, <1>10, <1>13, <1>14

-----------------------------------------------------------------------------
(* While at most one receive has given up early, after devices that are    *)
(* not loud, the stream is in one of three states: cut off, left to the    *)
(* device, or on its way to it.                                            *)

NoLine(what) == \A i \in 1..Len(typed) : typed[i].what # what

\* What the script types at a device ends with exit and quit; an exit that ^]
\* dropped, or that was read, is no longer there (j = 0).
Leaves(n, j) ==
  /\ n \in 0..Len(typed) /\ j \in 0..n
  /\ \A i \in 1..n : /\ typed[i].what # "telnet"
                     /\ i < j => typed[i].what # "exit"
                     /\ i = j => typed[i].what = "exit"
                     /\ i > j => typed[i].what = "quit"

\* From piece m on there is only what the device wrote, and the shell after it.
HostPart(m) ==
  /\ far.at \in {0, host} /\ NoLine("telnet")
  /\ \A i \in m..Len(out) : out[i].by \in {0, host}
  /\ \A i, j \in m..Len(out) : i < j /\ out[i].by = 0 => out[j].by = 0
  /\ far.at = host /\ far.state # "hang" => \A i \in m..Len(out) : out[i].by = host

\* The device and the shell are the only ones left to write.
Exits ==
  \E j \in 0..Len(typed) : /\ Leaves(Len(typed), j)
                           /\ waiting /\ far.at # 0 => j < Len(typed)
                           /\ far.state = "hang" => j > 0
Alone ==
  step \notin {"drain", "telnet"} /\ HostPart(1) /\ IF step = "quit" THEN Exits ELSE NoLine("exit")

\* Nobody but the shell will write again: it is closed, or will read exit before
\* any telnet.
CutOff ==
  /\ \A i \in 1..Len(out) : out[i].by = 0
  /\ \/ far.state = "closed"
     \/ /\ far.state \in {"shell", "hang"}
        /\ \E j \in 1..Len(typed) : typed[j].what = "exit" /\ \A i \in 1..j : typed[i].what # "telnet"
Over == far.state = "closed" /\ ~waiting
Lost == CutOff \/ Over

\* The device before is not done with: it is still connected, or was heard late.
Foreign(p) == p.by \notin {0, host}
Stale == far.at \notin {0, host} \/ \E i \in 1..Len(out) : Foreign(out[i])
NoHost == \A i \in 1..Len(out) : out[i].by # host

\* The telnet line is not read yet, and what the device before was sent is in
\* front of it.
Sent == step # "drain" /\ (step = "telnet" => waiting)
Queued(n) ==
  IF Sent THEN /\ n < Len(typed) /\ typed[n + 1] = [host |-> host, what |-> "telnet"]
               /\ \A i \in (n + 2)..Len(typed) : typed[i].what \notin {"telnet", "exit", "quit"}
  ELSE n = Len(typed)
Held(n, j) ==
  /\ far.at = host - 1 /\ far.at # 0 /\ j < n
  /\ far.state = "priv" \/ kind[host - 1] = "refusing"
  /\ \A i \in 1..Len(out) : out[i].by = host - 1
Underway ==
  /\ NoHost
  /\ \E n, j \in 0..Len(typed) : Leaves(n, j) /\ Queued(n) /\ (AtShell \/ Held(n, j))
\* It was read and the device writes nothing, or it will not be read.
Unanswered ==
  /\ NoHost /\ Sent
  /\ \/ far.state = "closed"
     \/ NoLine("telnet") /\ NoLine("exit") /\ (far.at = 0 \/ (far.at = host /\ far.state = "hang"))
\* The device has written its login prompt.
Login(p) == p.marks \in {{"Username"}, {"Password"}}
Greets ==
  /\ Sent /\ NoLine("exit")
  /\ \E m \in 1..Len(out) : /\ out[m].by = host /\ Login(out[m]) /\ HostPart(m)
                            /\ \A i \in 1..(m - 1) : out[i].by # host

\* A receive that ends at a prompt of the device before, or of the shell, leaves
\* the rest of them to the next one; at enable it is the device's own turn.
Turn == step \in {"drain", "telnet"} \/ (late > 0 /\ step \in {"pass", "again", "enable"})
TurnOf(d) == late > 0 /\ (step = "telnet" \/ (step \in {"pass", "again"} /\ kind[d] = "refusing"))
Behind ==
  /\ \A i \in 1..Len(out) : Foreign(out[i]) =>
       out[i].by = host - 1 /\ (kind[host - 1] = "refusing" \/ out[i].marks \subseteq {"#"})
  /\ \A i, j \in 1..Len(out) : i < j /\ ~Foreign(out[i]) => ~Foreign(out[j])
InTurn == Turn /\ (Stale => TurnOf(host - 1)) /\ Behind
Arriving == InTurn /\ (Underway \/ Unanswered \/ Greets)

\* No device before it shows what the jump host's prompt looks like.
Clear(d) == \A e \in 1..(d - 1) : kind[e] # "loud"
Apart == late <= 1 /\ host \in Hosts /\ Clear(host) => Lost \/ Alone \/ Arriving
Attends == Attended /\ Clear(host) => Stage \/ Lost

\* The drain is a receive; what a receive has so far does not end it.
Open == (step = "drain" => waiting) /\ (waiting => ~EndsAt(buf))

\* What is recorded is what the device or the shell wrote.
Ours(pieces, d) == \A i \in 1..Len(pieces) : pieces[i].by \in {0, d}
Heard ==
  late <= 1 /\ host \in Hosts /\ Clear(host) =>
    /\ step \in Shown /\ waiting => Ours(buf, host)
    /\ \A s \in Shown : Ours(got[s], host)
Done ==
  late <= 1 => \A d \in Hosts : Recorded(d) /\ Clear(d) =>
                 \A s \in Shown : Ours(results[d].shows[s], d)

-----------------------------------------------------------------------------
(* Voices, and the receive that goes on.                                   *)

\* A receive that took something left a later part of the stream.
Shrinks(k) ==
  /\ k \in 0..Len(out) /\ Len(out') = Len(out) - k
  /\ \A i \in 1..Len(out') : k + i \in 1..Len(out) /\ out'[i] = out[k + i]

\* What a receive takes is the front of the stream.
LEMMA TakesShrinks ==
  ASSUME DiscTypes, NEW k, NEW t, NEW r, Takes(k, t, r), out' = r
  PROVE  /\ Shrinks(k) /\ k \in 1..Len(out)
         /\ \A i \in 1..Len(t) : \/ i \in 1..Len(buf) /\ t[i] = buf[i]
                                 \/ i - Len(buf) \in 1..k /\ t[i] = out[i - Len(buf)]
         /\ \A i \in 1..k : Len(buf) + i \in 1..Len(t) /\ t[Len(buf) + i] = out[i]
<1>1. /\ k \in 1..Len(out) /\ Len(t) = Len(buf) + k /\ Len(r) = Len(out) - k
      /\ \A i \in 1..Len(buf) : t[i] = buf[i]
      /\ \A i \in (Len(buf) + 1)..Len(t) : t[i] = out[i - Len(buf)]
      /\ \A i \in 1..Len(r) : r[i] = out[k + i]
      /\ Len(out) \in Nat /\ Len(buf) \in Nat
  BY DEF Takes, Cuts, DiscTypes
<1>2. Shrinks(k)
  BY <1>1 DEF Shrinks
<1>3. \A i \in 1..Len(t) : i \in 1..Len(buf) \/ (i \in (Len(buf) + 1)..Len(t) /\ i - Len(buf) \in 1..k)
  BY <1>1
<1>4. \A i \in 1..k : Len(buf) + i \in (Len(buf) + 1)..Len(t) /\ (Len(buf) + i) - Len(buf) = i
                      /\ Len(buf) + i \in 1..Len(t)
  BY <1>1
<1>5. \A i \in 1..Len(t) : \/ i \in 1..Len(buf) /\ t[i] = buf[i]
                           \/ i - Len(buf) \in 1..k /\ t[i] = out[i - Len(buf)]
  BY <1>1, <1>3
<1>6. \A i \in 1..k : Len(buf) + i \in 1..Len(t) /\ t[Len(buf) + i] = out[i]
  BY <1>1, <1>4
<1>7. QED BY <1>1, <1>2, <1>5, <1>6

\* telnet gives up: the shell writes its prompt.
LEMMA GivesUpGrows ==
  ASSUME DiscTypes, GivesUp
  PROVE  /\ Grows(0) /\ far' = At(0, "shell") /\ far.state = "hang"
         /\ UNCHANGED <<kind, typed, host, step, waiting, said, buf, got, results, late>>
<1>1. PICK p : p = Piece(0, "telnet", {"$"})
  OBVIOUS
<1>2. out' = Append(out, p) /\ out \in Seq(PieceSet)
  BY <1>1 DEF GivesUp, DiscTypes
<1>3. p.by = 0 /\ Voice(p)
  BY <1>1, Zenon DEF Piece, Voice, Rest
<1>4. /\ Len(out') = Len(out) + 1 /\ Len(out) \in Nat /\ out'[Len(out) + 1] = p
      /\ \A i \in 1..Len(out) : out'[i] = out[i]
  BY <1>2
<1>5. Grows(0)
  <2>1. \A i \in (Len(out) + 1)..Len(out') : i = Len(out) + 1
    BY <1>4
  <2>2. QED BY <1>3, <1>4, <2>1 DEF Grows
<1>6. QED BY <1>5 DEF GivesUp, scriptVars

\* A stream that grew by one writer's pieces is still voiced.
LEMMA VoicesGrow ==
  ASSUME Voices, Len(out) \in Nat, NEW d, Grows(d), Seat(far'), kind' = kind PROVE Voices'
<1>1. Len(out') \in Nat /\ \A i \in 1..Len(out') : i \in 1..Len(out) \/ i \in (Len(out) + 1)..Len(out')
  BY DEF Grows
<1>2. \A i \in 1..Len(out') : Voice(out'[i])
  BY <1>1 DEF Voices, Grows
<1>3. QED BY <1>2 DEF Voices, Voice, Seat

\* A stream that shrank is still voiced.
LEMMA VoicesShrink ==
  ASSUME Voices, NEW k, Shrinks(k), UNCHANGED <<kind, far>> PROVE Voices'
BY DEF Voices, Voice, Seat, Shrinks

\* A stream that nobody touched is still voiced.
LEMMA VoicesStay ==
  ASSUME Voices, UNCHANGED <<kind, far, out>> PROVE Voices'
BY DEF Voices, Voice, Seat

\* Every step keeps who writes what.
LEMMA VoicesStep == ASSUME DiscTypes, Voices, DiscNext PROVE Voices'
<1>0. Len(out) \in Nat
  BY DEF DiscTypes
<1>1. CASE Reads
  <2>1. PICK l, next : ReadsLine(l, next)
    BY <1>1, ReadsDoes
  <2>2. Grows(next.at) /\ Seat(next) /\ far' = next /\ kind' = kind
    BY <2>1, ReadsGrows DEF ReadsLine
  <2>3. QED BY <1>0, <2>2, VoicesGrow
<1>2. CASE Escapes
  BY <1>2, VoicesStay DEF Escapes
<1>3. CASE GivesUp
  <2>1. Grows(0) /\ far'.at = 0 /\ kind' = kind
    BY <1>3, GivesUpGrows DEF At
  <2>2. QED BY <1>0, <2>1, VoicesGrow DEF Seat
<1>4. CASE Sends
  BY <1>4, SendsDoes, VoicesStay DEF SendsLine, SendsNone
<1>5. CASE Receives
  <2>1. PICK k, t, r : Takes(k, t, r) /\ out' = r
    BY <1>5, ReceivesDoes
  <2>2. UNCHANGED <<kind, far>>
    BY <1>5 DEF Receives
  <2>3. QED BY <2>1, <2>2, TakesShrinks, VoicesShrink
<1>6. CASE Expires
  BY <1>6, VoicesStay DEF Expires, farVars
<1>7. QED BY <1>1, <1>2, <1>3, <1>4, <1>5, <1>6 DEF DiscNext

\* A receive leads to drain, telnet or quit only at drain.
LEMMA GoesOnTo ==
  ASSUME DiscTypes, waiting, step \notin {"drain", "quit"}, NEW text, GoesOn(text)
  PROVE  step' \notin {"drain", "telnet", "quit"}
<1>1. PICK marks : step' = Continue(marks)
  BY DEF GoesOn
<1>2. step \in Names /\ step # "exit"
  BY DEF DiscTypes
<1>3. step \in {"telnet", "user", "pass", "enable"} => Continue(marks) \notin {"drain", "telnet", "quit"}
  BY DEF Continue
<1>4. step \in {"again", "secret"} => Continue(marks) \notin {"drain", "telnet", "quit"}
  BY FollowingAre DEF Continue
<1>5. step \in Shown \cup {"length"} => Continue(marks) \notin {"drain", "telnet", "quit"}
  <2>1. step \in Shown \cup {"length"} => Continue(marks) = Following(step)
    BY Plain DEF Continue, Framing
  <2>2. QED BY <2>1, AfterPriv, Plain DEF Framing
<1>6. QED BY <1>1, <1>2, <1>3, <1>4, <1>5 DEF Names, Framing

\* What a receive has so far does not end it.
LEMMA OpenStep == ASSUME DiscTypes, Open, DiscNext PROVE Open'
<1>0. ASSUME step' # "drain", waiting' => ~EndsAt(buf)' PROVE Open'
  BY <1>0 DEF Open
<1>1. ASSUME UNCHANGED <<step, waiting, buf>> PROVE Open'
  BY <1>1 DEF Open, EndsAt, Endings
<1>2. CASE Sends
  <2>1. step # "drain" /\ step' # "drain" /\ buf' = <<>>
    BY <1>2, SendsDoes DEF SendsLine, SendsNone, Open, Record
  <2>2. Marks(buf)' = {}
    <3>1. \A x : x \notin Marks(<<>>)
      BY DEF Marks, ToSet
    <3>2. QED BY <2>1, <3>1
  <2>3. ~EndsAt(buf)'
    BY <2>2, Zenon DEF EndsAt
  <2>4. QED BY <1>0, <2>1, <2>3
<1>3. ASSUME NEW text, Returns(text), waiting PROVE Open'
  <2>1. waiting' = FALSE /\ (GoesOn(text) \/ step' = "telnet")
    BY <1>3, ReturnsDoes DEF Record
  <2>2. step' # "drain"
    BY <1>3, <2>1, GoesOnTo, FollowingAre DEF GoesOn, Continue
  <2>3. QED BY <1>0, <2>1, <2>2
<1>4. CASE Receives
  <2>1. waiting
    BY <1>4 DEF Receives
  <2>2. PICK k, t, r : \/ EndsAt(t) /\ Returns(t)
                       \/ ~EndsAt(t) /\ buf' = t /\ UNCHANGED <<host, step, waiting, said, got, results>>
    BY <1>4, ReceivesDoes
  <2>3. ASSUME ~EndsAt(t), buf' = t, UNCHANGED <<step, waiting>> PROVE Open'
    BY <2>1, <2>3 DEF Open, EndsAt, Endings
  <2>4. QED BY <1>3, <2>1, <2>2, <2>3
<1>5. CASE Expires
  BY <1>3, <1>5 DEF Expires
<1>6. CASE Reads
  BY <1>1, <1>6 DEF Reads, scriptVars
<1>7. CASE Escapes
  BY <1>1, <1>7 DEF Escapes, scriptVars
<1>8. CASE GivesUp
  BY <1>1, <1>8 DEF GivesUp, scriptVars
<1>9. QED BY <1>2, <1>4, <1>5, <1>6, <1>7, <1>8 DEF DiscNext

-----------------------------------------------------------------------------
(* What is cut off stays so.                                               *)

\* Reading a line moves the others up.
LEMMA TailOf ==
  ASSUME DiscTypes, typed # <<>>, typed' = Tail(typed)
  PROVE  /\ Len(typed) \in Nat /\ Len(typed) >= 1 /\ Len(typed') = Len(typed) - 1
         /\ Head(typed) = typed[1] /\ \A i \in 1..Len(typed') : typed'[i] = typed[i + 1]
BY DEF DiscTypes

\* Sending a line leaves the others where they are.
LEMMA AppendOf ==
  ASSUME DiscTypes, NEW line \in LineSet, typed' = Append(typed, line)
  PROVE  /\ Len(typed) \in Nat /\ Len(typed') = Len(typed) + 1 /\ typed'[Len(typed')] = line
         /\ \A i \in 1..Len(typed) : typed'[i] = typed[i]
BY DEF DiscTypes

\* ^] leaves only the last line, a quit.
LEMMA LastOf ==
  ASSUME DiscTypes, Escapes
  PROVE  /\ far.at # 0 /\ far.state # "hang" /\ Len(typed) \in Nat /\ Len(typed) > 1
         /\ typed[Len(typed)].what = "quit" /\ typed' \in Seq(LineSet)
         /\ Len(typed') = 1 /\ typed'[1] = typed[Len(typed)]
         /\ UNCHANGED <<kind, far, out, host, step, waiting, said, buf, got, results, late>>
<1>1. Len(typed) \in Nat /\ Last(typed) = typed[Len(typed)] /\ Len(typed) > 1
  BY DEF DiscTypes, Last, Escapes
<1>2. Last(typed) \in LineSet
  BY <1>1 DEF DiscTypes
<1>3. typed' = <<Last(typed)>>
  BY DEF Escapes
<1>4. typed' \in Seq(LineSet) /\ Len(typed') = 1 /\ typed'[1] = Last(typed)
  BY <1>2, <1>3
<1>5. QED BY <1>1, <1>4 DEF Escapes, scriptVars

\* The shell logs out when it reads exit, and telnet gives up in front of it.
LEMMA CutOffStep == ASSUME DiscTypes, Voices, CutOff, DiscNext PROVE Lost'
<1>0. /\ Len(out) \in Nat /\ \A i \in 1..Len(out) : out[i].by = 0
      /\ far.state \in {"shell", "closed"} => far.at = 0
      /\ far.state \in {"closed", "shell", "hang"}
  BY FarIs DEF CutOff, DiscTypes
<1>1. ASSUME NEW d, Grows(d), d = 0 PROVE \A i \in 1..Len(out') : out'[i].by = 0
  <2>1. \A i \in 1..Len(out') : i \in 1..Len(out) \/ i \in (Len(out) + 1)..Len(out')
    BY <1>0, <1>1 DEF Grows
  <2>2. QED BY <1>0, <1>1, <2>1 DEF Grows
<1>2. CASE Reads
  <2>1. PICK l, next : ReadsLine(l, next)
    BY <1>2, ReadsDoes
  <2>2. l = Head(typed) /\ typed # <<>> /\ typed' = Tail(typed) /\ far' = next
    BY <2>1 DEF ReadsLine
  <2>3. Grows(next.at) /\ l \in LineSet /\ next \in Leads(l) /\ far.state \notin {"closed", "hang"}
    BY <2>1, ReadsGrows
  <2>4. PICK j \in 1..Len(typed) : typed[j].what = "exit" /\ \A i \in 1..j : typed[i].what # "telnet"
    BY <2>3 DEF CutOff
  <2>5. /\ Len(typed) \in Nat /\ Len(typed) >= 1 /\ Len(typed') = Len(typed) - 1 /\ l = typed[1]
        /\ \A i \in 1..Len(typed') : typed'[i] = typed[i + 1]
    BY <2>2, TailOf
  <2>6. l.what # "telnet" /\ 1 \in 1..j
    BY <2>4, <2>5
  <2>7. far.at = 0 /\ far.state = "shell"
    BY <1>0, <2>3
  <2>8. CASE l.what = "exit"
    <3>1. far' = At(0, "closed")
      BY <2>2, <2>3, <2>7, <2>8, LeadsFromShell
    <3>2. next.at = 0 /\ far'.state = "closed"
      BY <2>2, <3>1 DEF At
    <3>3. QED BY <1>1, <2>3, <3>2 DEF Lost, CutOff
  <2>9. CASE l.what # "exit"
    <3>1. far' = far /\ next.at = 0
      BY <2>2, <2>3, <2>6, <2>7, <2>9, LeadsFromShell
    <3>2. j # 1
      BY <2>4, <2>5, <2>9
    <3>3. /\ j - 1 \in 1..Len(typed') /\ (j - 1) + 1 = j
          /\ \A i \in 1..(j - 1) : i + 1 \in 1..j /\ i \in 1..Len(typed')
      BY <2>4, <2>5, <3>2
    <3>4. typed'[j - 1].what = "exit" /\ \A i \in 1..(j - 1) : typed'[i].what # "telnet"
      BY <2>4, <2>5, <3>3
    <3>5. QED BY <1>1, <2>3, <2>7, <3>1, <3>3, <3>4 DEF Lost, CutOff
  <2>10. QED BY <2>8, <2>9
<1>3. CASE Escapes
  BY <1>0, <1>3, LastOf
<1>4. CASE GivesUp
  <2>1. Grows(0) /\ far'.state = "shell" /\ typed' = typed /\ far.state = "hang"
    BY <1>4, GivesUpGrows DEF At
  <2>2. QED BY <1>1, <2>1 DEF Lost, CutOff
<1>5. CASE Sends
  <2>1. CASE SendsLine
    <3>1. /\ Len(typed) \in Nat /\ Len(typed') = Len(typed) + 1
          /\ \A i \in 1..Len(typed) : typed'[i] = typed[i]
      BY <2>1, AppendOf DEF SendsLine
    <3>2. UNCHANGED <<far, out>> /\ far.state # "closed"
      BY <2>1 DEF SendsLine
    <3>3. PICK j \in 1..Len(typed) : typed[j].what = "exit" /\ \A i \in 1..j : typed[i].what # "telnet"
      BY <3>2 DEF CutOff
    <3>4. j \in 1..Len(typed') /\ \A i \in 1..j : i \in 1..Len(typed)
      BY <3>1, <3>3
    <3>5. typed'[j].what = "exit" /\ \A i \in 1..j : typed'[i].what # "telnet"
      BY <3>1, <3>3, <3>4
    <3>6. QED BY <1>0, <3>2, <3>4, <3>5 DEF Lost, CutOff
  <2>2. CASE SendsNone
    BY <2>2 DEF SendsNone, Lost, Over
  <2>3. QED BY <1>5, <2>1, <2>2, SendsDoes
<1>6. CASE Receives
  <2>1. PICK k, t, r : Takes(k, t, r) /\ out' = r
    BY <1>6, ReceivesDoes
  <2>2. UNCHANGED <<far, typed>>
    BY <1>6 DEF Receives
  <2>3. \A i \in 1..Len(out') : out'[i].by = 0
    BY <1>0, <2>1, TakesShrinks DEF Shrinks
  <2>4. QED BY <2>2, <2>3 DEF CutOff, Lost
<1>7. CASE Expires
  BY <1>7 DEF Expires, farVars, CutOff, Lost
<1>8. QED BY <1>2, <1>3, <1>4, <1>5, <1>6, <1>7 DEF DiscNext

\* On a closed channel nothing is sent.
LEMMA OverStep == ASSUME DiscTypes, Over, DiscNext PROVE Over'
<1>1. far.state = "closed" /\ far.at = 0 /\ ~waiting
  BY FarIs DEF Over
<1>2. CASE Sends
  BY <1>1, <1>2, SendsDoes DEF SendsLine, SendsNone, Over
<1>3. QED BY <1>1, <1>2 DEF DiscNext, Reads, Escapes, GivesUp, Receives, Expires

\* Once nobody but the shell will write, nobody but the shell does.
LEMMA LostStep == ASSUME DiscTypes, Voices, Lost, DiscNext PROVE Lost'
BY CutOffStep, OverStep DEF Lost

-----------------------------------------------------------------------------
(* What is left to the device stays so until it is left.                   *)

\* Reading the first of the lines a device was sent off with.
LEMMA LeavesTail ==
  ASSUME DiscTypes, NEW n, NEW j, Leaves(n, j), n > 0, typed # <<>>, typed' = Tail(typed)
  PROVE  /\ j = 0 => Leaves(n - 1, 0)' /\ Head(typed).what = "quit"
         /\ j > 0 => Leaves(n - 1, j - 1)' /\ (j > 1 => Head(typed).what # "exit")
         /\ j = 1 => Head(typed).what = "exit"
         /\ Head(typed).what # "telnet"
<1>1. /\ Len(typed) \in Nat /\ Len(typed) >= 1 /\ Len(typed') = Len(typed) - 1 /\ Head(typed) = typed[1]
      /\ \A i \in 1..Len(typed') : typed'[i] = typed[i + 1]
  BY TailOf
<1>2. n \in 1..Len(typed) /\ j \in 0..n /\ 1 \in 1..n
  BY <1>1 DEF Leaves
<1>3. n - 1 \in 0..Len(typed') /\ \A i \in 1..(n - 1) : i + 1 \in 1..n /\ typed'[i] = typed[i + 1]
  BY <1>1, <1>2
<1>4. \A i \in 1..n : /\ typed[i].what # "telnet"
                      /\ i < j => typed[i].what # "exit"
                      /\ i = j => typed[i].what = "exit"
                      /\ i > j => typed[i].what = "quit"
  BY DEF Leaves
<1>5. ASSUME j = 0 PROVE Leaves(n - 1, 0)'
  <2>1. \A i \in 1..(n - 1) : typed'[i].what = "quit"
    <3>1. \A i \in 1..(n - 1) : i + 1 > j
      BY <1>2, <1>5
    <3>2. QED BY <1>3, <1>4, <3>1
  <2>2. \A i \in 1..(n - 1) : i > 0 /\ ~(i < 0) /\ i # 0
    BY <1>2
  <2>3. 0 \in 0..(n - 1)
    BY <1>2
  <2>4. QED BY <1>3, <2>1, <2>2, <2>3 DEF Leaves
<1>6. ASSUME j > 0 PROVE Leaves(n - 1, j - 1)'
  <2>1. j - 1 \in 0..(n - 1) /\ \A i \in 1..(n - 1) : /\ i < j - 1 <=> i + 1 < j
                                                      /\ i = j - 1 <=> i + 1 = j
                                                      /\ i > j - 1 <=> i + 1 > j
    BY <1>2, <1>6
  <2>2. QED BY <1>3, <1>4, <2>1 DEF Leaves
<1>7. QED BY <1>1, <1>2, <1>4, <1>5, <1>6

\* Sending a line after them.
LEMMA LeavesMore ==
  ASSUME DiscTypes, NEW line \in LineSet, typed' = Append(typed, line), NEW n, NEW j, Leaves(n, j)
  PROVE  /\ Leaves(n, j)'
         /\ n = Len(typed) /\ line.what = "quit" => Leaves(n + 1, j)'
<1>1. /\ Len(typed) \in Nat /\ Len(typed') = Len(typed) + 1 /\ typed'[Len(typed')] = line
      /\ \A i \in 1..Len(typed) : typed'[i] = typed[i]
  BY AppendOf
<1>2. n \in 0..Len(typed) /\ j \in 0..n /\ n \in 0..Len(typed') /\ \A i \in 1..n : i \in 1..Len(typed)
  BY <1>1 DEF Leaves
<1>3. Leaves(n, j)'
  BY <1>1, <1>2 DEF Leaves
<1>4. \A i \in 1..(n + 1) : i \in 1..n \/ i = n + 1
  BY <1>2
<1>5. ASSUME n = Len(typed), line.what = "quit" PROVE Leaves(n + 1, j)'
  <2>1. typed'[n + 1].what = "quit" /\ n + 1 > j /\ n + 1 \in 0..Len(typed') /\ j \in 0..(n + 1)
    BY <1>1, <1>2, <1>5
  <2>2. QED BY <1>2, <1>3, <1>4, <2>1 DEF Leaves
<1>6. QED BY <1>3, <1>5

\* The exit of a device is the first to be typed since the last one was read.
LEMMA LeavesEnd ==
  ASSUME DiscTypes, NEW line \in LineSet, typed' = Append(typed, line), line.what = "exit",
         NoLine("exit"), NoLine("telnet"), NEW n, n = Len(typed)
  PROVE  Leaves(n + 1, n + 1)'
<1>1. /\ n \in Nat /\ Len(typed') = n + 1 /\ typed'[n + 1] = line
      /\ \A i \in 1..n : typed'[i] = typed[i]
  BY AppendOf
<1>2. \A i \in 1..(n + 1) : i \in 1..n \/ i = n + 1
  BY <1>1
<1>3. n + 1 \in 0..Len(typed') /\ n + 1 \in 0..(n + 1)
  BY <1>1
<1>4. \A i \in 1..n : typed'[i].what \notin {"exit", "telnet"} /\ i < n + 1
  BY <1>1 DEF NoLine
<1>5. QED BY <1>1, <1>2, <1>3, <1>4 DEF Leaves

\* The device's part of the stream grows by the device, then by the shell.
LEMMA HostPartGrows ==
  ASSUME DiscTypes, host' = host, NEW m \in 1..(Len(out) + 1), HostPart(m), NEW d, Grows(d),
         NoLine("telnet")', far'.at \in {0, host}, d \in {0, host}, host \in Hosts,
         d = host => far.at = host /\ far.state # "hang",
         far'.at = host /\ far'.state # "hang" => far.at = host /\ far.state # "hang" /\ d = host
  PROVE  HostPart(m)' /\ m \in 1..(Len(out') + 1)
<1>1. /\ Len(out) \in Nat /\ Len(out') \in Nat /\ Len(out) <= Len(out') /\ host # 0
      /\ \A i \in 1..Len(out) : out'[i] = out[i]
      /\ \A i \in (Len(out) + 1)..Len(out') : out'[i].by = d
  BY Numbered DEF DiscTypes, Grows
<1>2. \A i \in m..Len(out') : i \in m..Len(out) \/ i \in (Len(out) + 1)..Len(out')
  BY <1>1
<1>3. \A i \in m..Len(out) : i \in 1..Len(out)
  BY <1>1
<1>4. \A i \in m..Len(out') : out'[i].by \in {0, host}
  BY <1>1, <1>2, <1>3 DEF HostPart
<1>5. ASSUME NEW i \in m..Len(out'), NEW j \in m..Len(out'), i < j, out'[i].by = 0 PROVE out'[j].by = 0
  <2>1. CASE j \in m..Len(out)
    <3>1. i \in m..Len(out)
      BY <1>1, <1>5, <2>1
    <3>2. QED BY <1>1, <1>3, <1>5, <2>1, <3>1 DEF HostPart
  <2>2. CASE i \in m..Len(out) /\ j \in (Len(out) + 1)..Len(out')
    <3>1. out[i].by = 0
      BY <1>1, <1>3, <1>5, <2>2
    <3>2. ~(far.at = host /\ far.state # "hang")
      BY <1>1, <2>2, <3>1 DEF HostPart
    <3>3. QED BY <1>1, <2>2, <3>2
  <2>3. CASE i \in (Len(out) + 1)..Len(out') /\ j \in (Len(out) + 1)..Len(out')
    BY <1>1, <1>5, <2>3
  <2>4. QED BY <1>1, <1>2, <1>5, <2>1, <2>2, <2>3
<1>6. ASSUME far'.at = host, far'.state # "hang", NEW i \in m..Len(out') PROVE out'[i].by = host
  BY <1>1, <1>2, <1>3, <1>6 DEF HostPart
<1>7. HostPart(m)'
  BY <1>4, <1>5, <1>6 DEF HostPart
<1>8. QED BY <1>1, <1>7

\* A receive leaves a later part of it.
LEMMA HostPartShrinks ==
  ASSUME DiscTypes, NEW m \in 1..(Len(out) + 1), HostPart(m), NEW k, Shrinks(k),
         NEW n \in Nat, n + k >= m, n >= 1, UNCHANGED <<far, typed, host>>
  PROVE  HostPart(n)'
<1>1. /\ Len(out) \in Nat /\ k \in 0..Len(out) /\ Len(out') = Len(out) - k
      /\ \A i \in 1..Len(out') : k + i \in 1..Len(out) /\ out'[i] = out[k + i]
  BY DEF Shrinks, DiscTypes
<1>2. \A i \in n..Len(out') : i \in 1..Len(out') /\ k + i \in m..Len(out) /\ out'[i] = out[k + i]
  BY <1>1
<1>3. \A i, j \in n..Len(out') : i < j => k + i < k + j
  BY <1>1
<1>4. \A i, j \in n..Len(out') : i < j /\ out'[i].by = 0 => out'[j].by = 0
  <2> SUFFICES ASSUME NEW i \in n..Len(out'), NEW j \in n..Len(out'), i < j, out'[i].by = 0
               PROVE  out'[j].by = 0
    OBVIOUS
  <2>1. k + i \in m..Len(out) /\ k + j \in m..Len(out) /\ out[k + i].by = 0
    BY <1>2
  <2>2. PICK a \in m..Len(out), b \in m..Len(out) : a = k + i /\ b = k + j
    BY <2>1
  <2>3. a < b /\ out[a].by = 0
    BY <1>3, <2>1, <2>2
  <2>4. out[b].by = 0
    BY <2>3 DEF HostPart
  <2>5. QED BY <1>2, <2>2, <2>4
<1>5. QED BY <1>2, <1>4 DEF HostPart, NoLine

\* A line that is not there is not there after reading another.
LEMMA NoLineTail ==
  ASSUME DiscTypes, typed # <<>>, typed' = Tail(typed), NEW what, NoLine(what)
  PROVE  NoLine(what)' /\ Head(typed).what # what
<1>1. \A i \in 1..Len(typed') : i + 1 \in 1..Len(typed)
  BY TailOf
<1>2. 1 \in 1..Len(typed)
  BY TailOf
<1>3. QED BY <1>1, <1>2, TailOf DEF NoLine

\* Nor after sending another.
LEMMA NoLineAppend ==
  ASSUME DiscTypes, NEW line \in LineSet, typed' = Append(typed, line),
         NEW what, NoLine(what), line.what # what
  PROVE  NoLine(what)'
<1>1. \A i \in 1..Len(typed') : i \in 1..Len(typed) \/ i = Len(typed')
  BY AppendOf
<1>2. QED BY <1>1, AppendOf DEF NoLine

\* What the far end writes where no telnet is to be read.
LEMMA ReadsHost ==
  ASSUME DiscTypes, Voices, host \in Hosts, far.at \in {0, host}, NoLine("telnet"),
         NEW l, NEW next, ReadsLine(l, next)
  PROVE  /\ Grows(next.at) /\ far' = next /\ NoLine("telnet")' /\ next.at \in {0, host}
         /\ typed # <<>> /\ typed' = Tail(typed) /\ l = Head(typed) /\ far.state # "hang"
         /\ next.at = host => far.at = host /\ next.state # "hang" /\ l.what # "quit"
         /\ next.state # "hang" /\ UNCHANGED <<kind, host, step, waiting, said, buf, got, results, late>>
<1>1. /\ Grows(next.at) /\ l \in LineSet /\ next \in Leads(l) /\ far.state \notin {"closed", "hang"}
      /\ Seat(far)
  BY ReadsGrows DEF Voices
<1>2. /\ typed # <<>> /\ l = Head(typed) /\ far' = next /\ typed' = Tail(typed)
      /\ UNCHANGED <<kind, host, step, waiting, said, buf, got, results, late>>
  BY DEF ReadsLine
<1>3. NoLine("telnet")' /\ l.what # "telnet"
  BY <1>2, NoLineTail
<1>4. host # 0
  BY Numbered
<1>5. CASE far.at = 0
  <2>1. far.state = "shell" /\ (next = far \/ next = At(0, "closed"))
    BY <1>1, <1>3, <1>5, LeadsFromShell
  <2>2. next.at = 0 /\ next.state # "hang"
    BY <1>5, <2>1 DEF At
  <2>3. QED BY <1>1, <1>2, <1>3, <1>4, <2>2
<1>6. CASE far.at = host
  <2>1. next = At(0, "shell") \/ (next.at = far.at /\ l.what # "quit" /\ next.state # "hang")
    BY <1>1, <1>4, <1>6, LeadsFromDevice
  <2>2. next.at \in {0, host} /\ next.state # "hang" /\ (next.at = host => l.what # "quit")
    BY <1>4, <1>6, <2>1 DEF At
  <2>3. QED BY <1>1, <1>2, <1>3, <1>6, <2>2
<1>7. QED BY <1>5, <1>6

\* Left to the device: a line is read.
LEMMA AloneReads ==
  ASSUME DiscTypes, Voices, host \in Hosts, Alone, Reads PROVE Alone'
<1>1. PICK l, next : ReadsLine(l, next)
  BY ReadsDoes
<1>2. HostPart(1) /\ step \notin {"drain", "telnet"} /\ far.at \in {0, host} /\ NoLine("telnet")
  BY DEF Alone, HostPart
<1>3. /\ Grows(next.at) /\ far' = next /\ NoLine("telnet")' /\ next.at \in {0, host}
      /\ typed # <<>> /\ typed' = Tail(typed) /\ l = Head(typed) /\ far.state # "hang"
      /\ next.at = host => far.at = host /\ next.state # "hang" /\ l.what # "quit"
      /\ next.state # "hang" /\ UNCHANGED <<kind, host, step, waiting, said, buf, got, results, late>>
  BY <1>1, <1>2, ReadsHost
<1>4. 1 \in 1..(Len(out) + 1) /\ host # 0
  BY Numbered DEF DiscTypes
<1>5. HostPart(1)'
  BY <1>2, <1>3, <1>4, HostPartGrows
<1>6. CASE step # "quit"
  <2>1. NoLine("exit")'
    BY <1>3, <1>6, NoLineTail DEF Alone
  <2>2. QED BY <1>2, <1>3, <1>5, <1>6, <2>1 DEF Alone
<1>7. CASE step = "quit"
  <2>1. PICK j \in 0..Len(typed) : Leaves(Len(typed), j) /\ (waiting /\ far.at # 0 => j < Len(typed))
    BY <1>7 DEF Alone, Exits
  <2>2. PICK n : n = Len(typed)
    OBVIOUS
  <2>0. n \in Nat /\ n >= 1 /\ Len(typed') = n - 1
    BY <1>3, <2>2, TailOf
  <2>3. CASE j = 0
    <3>1. Leaves(n - 1, 0)' /\ l.what = "quit"
      BY <1>3, <2>1, <2>2, <2>0, <2>3, LeavesTail
    <3>2. far'.at = 0 /\ far'.state # "hang" /\ 0 \in 0..Len(typed')
      BY <1>3, <2>0, <3>1
    <3>3. Exits'
      BY <2>0, <3>1, <3>2 DEF Exits
    <3>4. QED BY <1>2, <1>3, <1>5, <1>7, <3>3 DEF Alone
  <2>4. CASE j > 0
    <3>1. Leaves(n - 1, j - 1)' /\ j - 1 \in 0..Len(typed')
      BY <1>3, <2>1, <2>2, <2>0, <2>4, LeavesTail
    <3>2. far'.at # 0 => far.at # 0
      BY <1>3, <1>4
    <3>3. waiting' /\ far'.at # 0 => j - 1 < Len(typed')
      BY <1>3, <2>1, <2>2, <2>0, <2>4, <3>2
    <3>4. Exits'
      BY <1>3, <2>0, <3>1, <3>3 DEF Exits
    <3>5. QED BY <1>2, <1>3, <1>5, <1>7, <3>4 DEF Alone
  <2>5. QED BY <2>1, <2>3, <2>4
<1>8. QED BY <1>6, <1>7

\* What ^] leaves of the lines is one quit.
LEMMA OneQuit ==
  ASSUME DiscTypes, Escapes
  PROVE  /\ NoLine("telnet")' /\ NoLine("exit")' /\ Leaves(1, 0)'
         /\ Len(typed') = 1 /\ typed'[1].what = "quit"
<1>1. Len(typed') = 1 /\ typed'[1].what = "quit"
  BY LastOf
<1>2. \A i \in 1..1 : i = 1
  OBVIOUS
<1>3. \A i \in 1..Len(typed') : typed'[i].what = "quit"
  BY <1>1, <1>2
<1>4. 1 \in 0..Len(typed') /\ 0 \in 0..1 /\ \A i \in 1..1 : typed'[i].what = "quit" /\ ~(i < 0) /\ i # 0
  BY <1>1, <1>2
<1>5. Leaves(1, 0)'
  BY <1>4 DEF Leaves
<1>6. QED BY <1>1, <1>3, <1>5 DEF NoLine

\* Left to the device: ^] drops the lines.
LEMMA AloneEscapes ==
  ASSUME DiscTypes, host \in Hosts, Alone, Escapes PROVE Alone'
<1>1. /\ far.at # 0 /\ far.state # "hang"
      /\ UNCHANGED <<kind, far, out, host, step, waiting, said, buf, got, results, late>>
  BY LastOf
<1>2. NoLine("telnet")' /\ NoLine("exit")' /\ Leaves(1, 0)' /\ Len(typed') = 1
  BY OneQuit
<1>3. HostPart(1)'
  BY <1>1, <1>2 DEF Alone, HostPart
<1>4. Exits'
  <2>1. 0 \in 0..Len(typed') /\ Leaves(1, 0)' /\ Len(typed') = 1 /\ far'.state # "hang"
    BY <1>1, <1>2
  <2>2. QED BY <2>1 DEF Exits
<1>5. QED BY <1>1, <1>2, <1>3, <1>4 DEF Alone

\* Left to the device: the telnet to a dead one gives up.
LEMMA AloneGivesUp ==
  ASSUME DiscTypes, host \in Hosts, Alone, GivesUp PROVE Alone'
<1>1. /\ Grows(0) /\ far'.at = 0 /\ far'.state = "shell"
      /\ UNCHANGED <<kind, typed, host, step, waiting, said, buf, got, results, late>>
  BY GivesUpGrows DEF At
<1>2. HostPart(1) /\ NoLine("telnet")' /\ 1 \in 1..(Len(out) + 1) /\ host # 0
  BY <1>1, Numbered DEF Alone, HostPart, DiscTypes, NoLine
<1>3. HostPart(1)'
  BY <1>1, <1>2, HostPartGrows
<1>4. Exits => Exits'
  BY <1>1 DEF Exits, Leaves
<1>5. QED BY <1>1, <1>3, <1>4 DEF Alone, NoLine

\* Left to the device: a line is sent.
LEMMA AloneSends ==
  ASSUME DiscTypes, host \in Hosts, Alone, SendsLine PROVE Alone'
<1>1. /\ Line \in LineSet /\ typed' = Append(typed, Line) /\ UNCHANGED <<far, out, host>>
      /\ step \notin {"drain", "telnet"}
      /\ \/ step = "exit" /\ step' = "quit" /\ waiting' = FALSE
         \/ step # "exit" /\ step' = step /\ waiting' = TRUE
  BY DEF SendsLine, Alone
<1>2. Line.what = IF step = "again" THEN "pass" ELSE step
  BY DEF Line
<1>3. NoLine("telnet") /\ Line.what # "telnet"
  BY <1>1, <1>2 DEF Alone, HostPart
<1>4. NoLine("telnet")'
  BY <1>1, <1>3, NoLineAppend
<1>5. HostPart(1)'
  BY <1>1, <1>4 DEF Alone, HostPart
<1>6. Len(typed') = Len(typed) + 1 /\ Len(typed) \in Nat
  BY <1>1, AppendOf
<1>7. CASE step = "quit"
  <2>1. PICK j \in 0..Len(typed) : /\ Leaves(Len(typed), j)
                                   /\ far.state = "hang" => j > 0
    BY <1>7 DEF Alone, Exits
  <2>0. PICK n : n = Len(typed)
    OBVIOUS
  <2>2. Leaves(n + 1, j)' /\ j \in 0..Len(typed') /\ j < Len(typed')
    BY <1>1, <1>2, <1>6, <1>7, <2>1, <2>0, LeavesMore
  <2>3. Exits'
    BY <1>1, <1>6, <2>1, <2>0, <2>2 DEF Exits
  <2>4. QED BY <1>1, <1>5, <1>7, <2>3 DEF Alone
<1>8. CASE step = "exit"
  <2>1. NoLine("exit")
    BY <1>8 DEF Alone
  <2>2. PICK n : n = Len(typed)
    OBVIOUS
  <2>3. Leaves(n + 1, n + 1)'
    <3>1. NoLine("telnet")
      BY DEF Alone, HostPart
    <3>2. QED BY <1>1, <1>2, <1>8, <2>1, <2>2, <3>1, LeavesEnd
  <2>4. Exits'
    BY <1>1, <1>6, <1>8, <2>2, <2>3 DEF Exits
  <2>5. QED BY <1>1, <1>5, <1>8, <2>4 DEF Alone
<1>9. CASE step \notin {"exit", "quit"}
  <2>1. NoLine("exit")'
    BY <1>1, <1>2, <1>9, NoLineAppend DEF Alone
  <2>2. QED BY <1>1, <1>5, <1>9, <2>1 DEF Alone
<1>10. QED BY <1>7, <1>8, <1>9

\* A receive leaves a later part of the stream; the step it goes on to is one of
\* the same device.
LEMMA AloneShrinks ==
  ASSUME DiscTypes, Alone, NEW k, Shrinks(k), UNCHANGED <<far, typed, host>>,
         \/ UNCHANGED <<step, waiting>>
         \/ step # "quit" /\ step' \notin {"drain", "telnet", "quit"}
  PROVE  Alone'
<1>1. HostPart(1)'
  <2>1. 1 \in 1..(Len(out) + 1) /\ k \in Nat
    BY DEF Shrinks, DiscTypes
  <2>2. QED BY <2>1, HostPartShrinks DEF Alone
<1>2. CASE UNCHANGED <<step, waiting>>
  BY <1>1, <1>2 DEF Alone, Exits, Leaves, NoLine
<1>3. CASE step # "quit" /\ step' \notin {"drain", "telnet", "quit"}
  BY <1>1, <1>3 DEF Alone, NoLine
<1>4. QED BY <1>2, <1>3

-----------------------------------------------------------------------------
(* The end of quit: the next device is on its way, or will not be reached. *)

\* A receive leaves no piece the stream did not have.
LEMMA ShrinksFrom ==
  ASSUME DiscTypes, NEW k, Shrinks(k)
  PROVE  /\ \A i \in 1..Len(out') : k + i \in 1..Len(out) /\ out'[i] = out[k + i]
         /\ \A i, j \in 1..Len(out') : i < j => k + i < k + j
         /\ Len(out) \in Nat /\ Len(out') \in Nat /\ k \in Nat
BY DEF Shrinks, DiscTypes

\* What the device before left is behind its successor's turn.
LEMMA LeavesBehind ==
  ASSUME DiscTypes, host \in Hosts, HostPart(1), NEW k, Shrinks(k), UNCHANGED <<kind, far, typed>>,
         host' = host + 1, step' = "telnet", waiting' = FALSE, late' \in Nat,
         far.at = host \/ (\E i \in 1..Len(out') : out'[i].by = host) => late' > 0,
         \/ kind[host] = "refusing"
         \/ \A i \in 1..Len(out') : out'[i].by = host => out'[i].marks \subseteq {"#"}
  PROVE  InTurn' /\ NoHost'
<1>1. /\ \A i \in 1..Len(out') : k + i \in 1..Len(out) /\ out'[i] = out[k + i]
      /\ \A i, j \in 1..Len(out') : i < j => k + i < k + j
  BY ShrinksFrom
<1>2. host \in Nat /\ host # 0 /\ host' - 1 = host /\ host' \notin {0, host}
  BY Numbered
<1>3. \A i \in 1..Len(out') : out'[i].by \in {0, host}
  BY <1>1 DEF HostPart
<1>4. NoHost'
  BY <1>2, <1>3 DEF NoHost
<1>5. \A i \in 1..Len(out') : out'[i].by \notin {0, host'} <=> out'[i].by = host
  BY <1>2, <1>3 DEF Foreign
<1>6. Turn' /\ (Stale => TurnOf(host - 1))'
  <2>1. ASSUME Stale' PROVE late' > 0
    <3>1. far.at # 0 \/ \E i \in 1..Len(out') : out'[i].by \notin {0, host'}
      BY <1>2, <2>1 DEF Stale, Foreign
    <3>2. far.at \in {0, host}
      BY DEF HostPart
    <3>3. QED BY <1>5, <3>1, <3>2
  <2>2. QED BY <2>1 DEF Turn, TurnOf
<1>7. Behind'
  <2>1. ASSUME NEW i \in 1..Len(out'), out'[i].by \notin {0, host'}
        PROVE  out'[i].by = host' - 1 /\ (kind[host] = "refusing" \/ out'[i].marks \subseteq {"#"})
    BY <1>1, <1>2, <1>5, <2>1
  <2>2. ASSUME NEW i \in 1..Len(out'), NEW j \in 1..Len(out'), i < j, out'[i].by \in {0, host'}
        PROVE  out'[j].by \in {0, host'}
    <3>1. out'[i].by = 0
      BY <1>3, <1>5, <2>2
    <3>2. out[k + i].by = 0 /\ k + i < k + j /\ k + i \in 1..Len(out) /\ k + j \in 1..Len(out)
      BY <1>1, <2>2, <3>1
    <3>3. out'[j].by = 0
      BY <1>1, <2>2, <3>2 DEF HostPart
    <3>4. QED BY <1>2, <1>5, <2>2, <3>3
  <2>3. QED BY <1>2, <2>1, <2>2 DEF Behind, Foreign
<1>8. QED BY <1>4, <1>6, <1>7 DEF InTurn

\* quit ends at a mark of the shell or of telnet, or when nothing is to come, or
\* gives up early: on a device whose prompts end nothing at telnet.
LEMMA QuitLeaves ==
  ASSUME DiscTypes, Voices, Alone, step = "quit", waiting, host \in Hosts,
         NEW k, Shrinks(k), UNCHANGED <<kind, far, typed>>,
         host' = host + 1, step' = "telnet", waiting' = FALSE, late' \in Nat,
         \/ \E i \in 1..k : out[i].by = 0
         \/ Quiet
         \/ /\ late' > 0
            /\ \/ kind[host] = "refusing"
               \/ /\ \A i \in 1..Len(out) : out[i].by = host => out[i].marks \subseteq {"#"}
                  /\ far.at = host /\ far.state # "hang" => far.state = "priv"
  PROVE  Lost' \/ Arriving'
<1>1. /\ \A i \in 1..Len(out') : k + i \in 1..Len(out) /\ out'[i] = out[k + i]
      /\ Len(out) \in Nat /\ Len(out') \in Nat /\ k \in Nat /\ k <= Len(out)
  BY ShrinksFrom DEF Shrinks, DiscTypes
<1>2. HostPart(1) /\ host \in Nat /\ host # 0 /\ host' - 1 = host
  BY Numbered DEF Alone
<1>3. PICK j \in 0..Len(typed) : /\ Leaves(Len(typed), j)
                                 /\ far.at # 0 => j < Len(typed)
                                 /\ far.state = "hang" => j > 0
  BY DEF Alone, Exits
<1>4. PICK n : n = Len(typed)
  OBVIOUS
<1>5. n \in Nat /\ Len(typed') = n /\ Leaves(n, j)' /\ ~(Sent')
  BY <1>3, <1>4 DEF Leaves, Sent, DiscTypes
<1>6. ASSUME NoHost', AtShell \/ Held(n, j)' PROVE Underway'
  <2>1. Queued(n)'
    BY <1>5 DEF Queued
  <2>2. n \in 0..Len(typed') /\ j \in 0..Len(typed')
    BY <1>3, <1>4, <1>5
  <2>3. QED BY <1>5, <1>6, <2>1, <2>2 DEF Underway, AtShell, At
<1>7. far.state = "closed" => Lost'
  BY DEF Lost, Over
<1>8. CASE far.state = "hang"
  <2>1. far.at = host /\ kind[host] = "silent"
    BY <1>2, <1>8, FarIs DEF HostPart, Voices, Seat
  <2>2. \A i \in 1..Len(out) : out[i].by = 0
    BY <1>1, <1>2, <2>1 DEF HostPart, Voices, Voice
  <2>3. j \in 1..Len(typed) /\ typed[j].what = "exit" /\ \A i \in 1..j : typed[i].what # "telnet"
    BY <1>3, <1>4, <1>5, <1>8 DEF Leaves
  <2>4. QED BY <1>1, <1>8, <2>2, <2>3 DEF Lost, CutOff
<1>9. CASE ~(far.at = host) /\ far.state # "closed" /\ far.state # "hang"
  <2>1. AtShell
    BY <1>2, <1>9, FarIs DEF HostPart, AtShell, States
  <2>2. InTurn' /\ NoHost'
    <3>1. ASSUME late' > 0, \/ kind[host] = "refusing"
                           \/ \A i \in 1..Len(out) : out[i].by = host => out[i].marks \subseteq {"#"}
          PROVE  InTurn' /\ NoHost'
      <4>1. \/ kind[host] = "refusing"
            \/ \A i \in 1..Len(out') : out'[i].by = host => out'[i].marks \subseteq {"#"}
        BY <1>1, <3>1
      <4>2. QED BY <1>2, <3>1, <4>1, LeavesBehind
    <3>2. ASSUME \A i \in 1..Len(out') : out'[i].by = 0 PROVE InTurn' /\ NoHost'
      BY <1>2, <1>9, <3>2, LeavesBehind
    <3>3. ASSUME NEW i \in 1..k, out[i].by = 0 PROVE \A m \in 1..Len(out') : out'[m].by = 0
      <4>1. \A m \in 1..Len(out') : i < k + m /\ k + m \in 1..Len(out) /\ i \in 1..Len(out)
        BY <1>1
      <4>2. \A m \in 1..Len(out') : out[k + m].by = 0
        BY <1>2, <3>3, <4>1 DEF HostPart
      <4>3. QED BY <1>1, <4>2
    <3>4. Quiet => \A m \in 1..Len(out') : out'[m].by = 0
      BY <1>1 DEF Quiet
    <3>5. QED BY <3>1, <3>2, <3>3, <3>4
  <2>3. QED BY <1>6, <2>1, <2>2 DEF Arriving
<1>10. CASE far.at = host /\ far.state # "hang"
  <2>1. \A i \in 1..Len(out) : out[i].by = host
    BY <1>1, <1>2, <1>10 DEF HostPart
  <2>2. ~\E i \in 1..k : out[i].by = 0
    <3>1. \A i \in 1..k : i \in 1..Len(out)
      BY <1>1
    <3>2. QED BY <1>2, <2>1, <3>1
  <2>3. ~Quiet
    BY <1>2, <1>3, <1>4, <1>5, <1>10, FarIs DEF Quiet
  <2>4. /\ late' > 0
        /\ \/ kind[host] = "refusing"
           \/ \A i \in 1..Len(out) : out[i].by = host => out[i].marks \subseteq {"#"}
        /\ far.state = "priv" \/ kind[host] = "refusing"
    BY <1>10, <2>2, <2>3
  <2>5. \/ kind[host] = "refusing"
        \/ \A i \in 1..Len(out') : out'[i].by = host => out'[i].marks \subseteq {"#"}
    BY <1>1, <2>4
  <2>8. InTurn' /\ NoHost'
    BY <1>2, <2>4, <2>5, LeavesBehind
  <2>6. Held(n, j)'
    BY <1>1, <1>2, <1>3, <1>4, <1>10, <2>1, <2>4 DEF Held
  <2>7. QED BY <1>6, <2>8, <2>6 DEF Arriving
<1>11. QED BY <1>7, <1>8, <1>9, <1>10

-----------------------------------------------------------------------------
(* While the next device is on its way.                                    *)

\* What is written by who may write it keeps the order of the stream.
LEMMA InTurnGrows ==
  ASSUME DiscTypes, host \in Hosts, InTurn, NEW d, Grows(d), UNCHANGED <<kind, host, step, late>>,
         \/ d \in {0, host} /\ far'.at \in {0, host}
         \/ /\ d = host - 1 /\ d # 0 /\ far.at = d /\ \A i \in 1..Len(out) : out[i].by = d
            /\ \/ kind[d] = "refusing"
               \/ \A i \in (Len(out) + 1)..Len(out') : out'[i].marks \subseteq {"#"}
  PROVE  InTurn'
<1>1. /\ Len(out) \in Nat /\ Len(out') \in Nat /\ Len(out) <= Len(out')
      /\ \A i \in 1..Len(out) : i \in 1..Len(out') /\ out'[i] = out[i]
      /\ \A i \in (Len(out) + 1)..Len(out') : out'[i].by = d
      /\ \A i \in 1..Len(out') : i \in 1..Len(out) \/ i \in (Len(out) + 1)..Len(out')
      /\ \A i \in 1..Len(out), j \in (Len(out) + 1)..Len(out') : i < j /\ ~(j < i)
      /\ host \in Nat /\ host # 0 /\ host - 1 # host
  BY Numbered DEF Grows, DiscTypes
<1>2. CASE d \in {0, host} /\ far'.at \in {0, host}
  <2>1. Stale' => Stale
    BY <1>1, <1>2 DEF Stale, Foreign
  <2>2. Behind'
    <3>1. \A i \in 1..Len(out') : (Foreign(out[i]) /\ i \in 1..Len(out)) \/ out'[i].by \in {0, host}
      BY <1>1, <1>2 DEF Foreign
    <3>2. \A i \in 1..Len(out') : out'[i].by \notin {0, host} =>
            out'[i].by = host - 1 /\ (kind[host - 1] = "refusing" \/ out'[i].marks \subseteq {"#"})
      BY <1>1, <3>1 DEF InTurn, Behind, Foreign
    <3>3. \A i, j \in 1..Len(out') : i < j /\ out'[i].by \in {0, host} => out'[j].by \in {0, host}
      BY <1>1, <1>2 DEF InTurn, Behind, Foreign
    <3>4. QED BY <3>2, <3>3 DEF Behind, Foreign
  <2>3. QED BY <2>1, <2>2 DEF InTurn, Turn, TurnOf
<1>3. CASE /\ d = host - 1 /\ d # 0 /\ far.at = d /\ \A i \in 1..Len(out) : out[i].by = d
           /\ \/ kind[d] = "refusing"
              \/ \A i \in (Len(out) + 1)..Len(out') : out'[i].marks \subseteq {"#"}
  <2>1. Stale
    BY <1>1, <1>3 DEF Stale
  <2>2. \A i \in 1..Len(out') : out'[i].by = d /\ out'[i].by \notin {0, host}
    BY <1>1, <1>3
  <2>3. \A i \in 1..Len(out') : kind[host - 1] = "refusing" \/ out'[i].marks \subseteq {"#"}
    BY <1>1, <1>3 DEF InTurn, Behind, Foreign
  <2>4. Behind'
    BY <1>3, <2>2, <2>3 DEF Behind, Foreign
  <2>5. QED BY <2>1, <2>4 DEF InTurn, Turn, TurnOf
<1>4. QED BY <1>2, <1>3

\* What is taken from the front leaves the order as it is.
LEMMA BehindShrinks ==
  ASSUME DiscTypes, Behind, NEW k, Shrinks(k), UNCHANGED <<kind, host, far>>
  PROVE  Behind' /\ (Stale' => Stale)
<1>1. /\ \A i \in 1..Len(out') : k + i \in 1..Len(out) /\ out'[i] = out[k + i]
      /\ \A i, j \in 1..Len(out') : i < j => k + i < k + j
  BY ShrinksFrom
<1>2. Behind'
  <2>1. \A i \in 1..Len(out') : out'[i].by \notin {0, host} =>
          out'[i].by = host - 1 /\ (kind[host - 1] = "refusing" \/ out'[i].marks \subseteq {"#"})
    BY <1>1 DEF Behind, Foreign
  <2>2. \A i, j \in 1..Len(out') : i < j /\ out'[i].by \in {0, host} => out'[j].by \in {0, host}
    <3>1. ASSUME NEW i \in 1..Len(out'), NEW j \in 1..Len(out'), i < j, out'[i].by \in {0, host}
          PROVE  out'[j].by \in {0, host}
      <4>1. k + i \in 1..Len(out) /\ k + j \in 1..Len(out) /\ k + i < k + j /\ ~Foreign(out[k + i])
        BY <1>1, <3>1 DEF Foreign
      <4>2. ~Foreign(out[k + j])
        BY <4>1 DEF Behind
      <4>3. QED BY <1>1, <4>2 DEF Foreign
    <3>2. QED BY <3>1
  <2>3. QED BY <2>1, <2>2 DEF Behind, Foreign
<1>3. Stale' => Stale
  BY <1>1 DEF Stale, Foreign
<1>4. QED BY <1>2, <1>3

\* A device at its privileged prompt, that is not loud, writes no other mark.
LEMMA PrivWrites ==
  ASSUME DiscTypes, Voices, NEW l, NEW next, ReadsLine(l, next)
  PROVE  next = far /\ far.state = "priv" /\ kind[far.at] # "loud"
           => \A i \in (Len(out) + 1)..Len(out') : out'[i].marks \subseteq {"#"}
<1>1. l \in LineSet /\ next \in Leads(l) /\ Placed(next) /\ Seat(next)
  BY ReadsGrows DEF ReadsLine
<1>0. \A i \in (Len(out) + 1)..Len(out') :
        \/ \E m \in 1..Len(Body(l)) : out'[i] = Body(l)[m]
        \/ \E m \in 1..Len(Tagged(next, l)) : out'[i] = Tagged(next, l)[m]
  BY ReadsGrows, ZenonT(40)
<1> SUFFICES ASSUME next = far, far.state = "priv", kind[far.at] # "loud"
             PROVE  \A i \in (Len(out) + 1)..Len(out') : out'[i].marks \subseteq {"#"}
  OBVIOUS
<1>2. far.at # 0
  BY FarIs
<1>3. l.what # "quit"
  <2>1. next = At(0, "shell") \/ l.what # "quit"
    BY <1>1, <1>2, LeadsFromDevice DEF Voices
  <2>2. QED BY <2>1, FarIs
<1>4. \A m \in 1..Len(Body(l)) : Body(l)[m].marks \subseteq {"#"}
  <2>1. PICK s : s = Marked(far.at) /\ s \subseteq {"#"}
    BY MarkedAre
  <2>2. PICK p : p = Piece(far.at, l.what, s)
    OBVIOUS
  <2>3. Body(l) = <<p>> \/ Body(l) = <<>>
    BY <1>3, <2>1, <2>2, Zenon DEF Body
  <2>4. p.marks \subseteq {"#"}
    BY <2>1, <2>2 DEF Piece
  <2>5. QED BY <2>3, <2>4
<1>5. \A m \in 1..Len(Tagged(next, l)) : Tagged(next, l)[m].marks \subseteq {"#"}
  <2>1. Len(Tagged(next, l)) = 1 /\ Tagged(next, l)[1].marks = {"#"}
    BY <1>1, TagBy, Promises
  <2>2. QED BY <2>1
<1>6. QED BY <1>0, <1>4, <1>5

\* The telnet line moves up when a line is read.
LEMMA QueuedTail ==
  ASSUME DiscTypes, NEW n \in Nat, n > 0, Queued(n), typed # <<>>, typed' = Tail(typed),
         UNCHANGED <<host, step, waiting>>
  PROVE  Queued(n - 1)'
<1>1. /\ Len(typed) \in Nat /\ Len(typed) >= 1 /\ Len(typed') = Len(typed) - 1
      /\ \A i \in 1..Len(typed') : typed'[i] = typed[i + 1]
  BY TailOf
<1>2. Sent' <=> Sent
  BY DEF Sent
<1>3. CASE Sent
  <2>1. n < Len(typed) /\ n \in 1..Len(typed') /\ typed[n + 1] = [host |-> host, what |-> "telnet"]
    BY <1>1, <1>3 DEF Queued
  <2>2. n - 1 < Len(typed') /\ (n - 1) + 1 = n /\ typed'[n] = typed[n + 1]
    BY <1>1, <2>1
  <2>3. \A i \in ((n - 1) + 2)..Len(typed') : i + 1 \in (n + 2)..Len(typed) /\ typed'[i] = typed[i + 1]
    BY <1>1
  <2>4. \A i \in ((n - 1) + 2)..Len(typed') : typed'[i].what \notin {"telnet", "exit", "quit"}
    BY <1>3, <2>3 DEF Queued
  <2>5. QED BY <1>2, <1>3, <2>1, <2>2, <2>4 DEF Queued
<1>4. CASE ~Sent
  <2>1. n - 1 = Len(typed')
    BY <1>1, <1>4 DEF Queued
  <2>2. QED BY <1>2, <1>4, <2>1 DEF Queued
<1>5. QED BY <1>3, <1>4

\* The shell reads telnet: what the device answers, if anything, comes next.
LEMMA TelnetReads ==
  ASSUME DiscTypes, Voices, host \in Hosts, InTurn, NoHost, Queued(0), AtShell,
         NEW l, NEW next, ReadsLine(l, next)
  PROVE  Arriving'
<1>1. /\ Grows(next.at) /\ Seat(next) /\ l \in LineSet /\ next \in Leads(l)
      /\ Body(l) = <<>> => Len(out') = Len(out) + Len(Tagged(next, l))
                           /\ \A i \in 1..Len(Tagged(next, l)) : out'[Len(out) + i] = Tagged(next, l)[i]
  BY ReadsGrows
<1>2. /\ typed # <<>> /\ l = Head(typed) /\ far' = next /\ typed' = Tail(typed) /\ Placed(next)
      /\ UNCHANGED <<kind, host, step, waiting, said, buf, got, results, late>>
  BY DEF ReadsLine
<1>3. /\ Len(typed) \in Nat /\ Len(typed) >= 1 /\ Len(typed') = Len(typed) - 1 /\ l = typed[1]
      /\ \A i \in 1..Len(typed') : typed'[i] = typed[i + 1] /\ i + 1 \in 2..Len(typed)
  BY <1>2, TailOf
<1>4. /\ host \in Nat /\ host # 0 /\ far.at = 0 /\ far.state = "shell"
      /\ Len(out) \in Nat /\ Len(out') \in Nat /\ Len(out) <= Len(out')
      /\ \A i \in 1..Len(out) : out'[i] = out[i] /\ out[i].by # host
      /\ \A i \in (Len(out) + 1)..Len(out') : out'[i].by = next.at /\ Voice(out'[i])
      /\ \A i \in 1..Len(out') : i \in 1..Len(out) \/ i \in (Len(out) + 1)..Len(out')
  <2>1. host \in Nat /\ host # 0 /\ far.at = 0 /\ far.state = "shell" /\ Len(out) \in Nat
    BY Numbered, FarIs DEF DiscTypes, AtShell
  <2>2. Len(out') \in Nat /\ Len(out) <= Len(out')
    BY <1>1 DEF Grows
  <2>3. \A i \in 1..Len(out') : i \in 1..Len(out) \/ i \in (Len(out) + 1)..Len(out')
    BY <2>1, <2>2
  <2>4. QED BY <1>1, <2>1, <2>2, <2>3 DEF Grows, NoHost
<1>5. Sent /\ l.host = host /\ l.what = "telnet"
  BY <1>3 DEF Queued
<1>6. Sent' /\ NoLine("telnet")' /\ NoLine("exit")'
  <2>1. \A i \in 1..Len(typed') : typed'[i].what \notin {"telnet", "exit"}
    BY <1>3, <1>5 DEF Queued
  <2>2. QED BY <1>2, <1>5, <2>1 DEF Sent, NoLine
<1>7. next.at \in {0, host} => InTurn'
  BY <1>1, <1>2, InTurnGrows
<1>8. CASE kind[host] = "dead"
  <2>1. next.at = 0
    BY <1>1, <1>4, <1>5, <1>8, LeadsFromShell
  <2>2. NoHost'
    BY <1>2, <1>4, <2>1 DEF NoHost
  <2>3. QED BY <1>2, <1>6, <1>7, <2>1, <2>2 DEF Arriving, Unanswered
<1>9. CASE kind[host] = "silent"
  <2>1. next.at = host /\ next.state = "hang"
    BY <1>1, <1>4, <1>5, <1>9, LeadsFromShell DEF At
  <2>2. \A i \in (Len(out) + 1)..Len(out') : FALSE
    BY <1>4, <1>9, <2>1 DEF Voice
  <2>3. NoHost'
    BY <1>2, <1>4, <2>2 DEF NoHost
  <2>4. QED BY <1>2, <1>6, <1>7, <2>1, <2>3 DEF Arriving, Unanswered
<1>10. CASE kind[host] \notin {"dead", "silent"}
  <2>1. next.at = host /\ next.state \in {"login", "password"}
    BY <1>1, <1>4, <1>5, <1>10, LeadsFromShell DEF At
  <2>2. Body(l) = <<>>
    BY <1>4, <1>5, Plain, Zenon DEF Body, Framing
  <2>3. Len(Tagged(next, l)) = 1 /\ Tagged(next, l)[1].marks = Prompt[next.state]
    BY <1>1, <1>2, <2>1, TagBy, Promises
  <2>4. PICK m : m = Len(out) + 1
    OBVIOUS
  <2>5. Len(out') = m /\ out'[m] = Tagged(next, l)[1] /\ 1 \in 1..Len(Tagged(next, l))
    BY <1>1, <2>2, <2>3, <2>4
  <2>6. m \in 1..Len(out') /\ m \in (Len(out) + 1)..Len(out') /\ \A i \in 1..(m - 1) : i \in 1..Len(out)
    BY <1>4, <2>4, <2>5
  <2>7. out'[m].by = host /\ out'[m].marks \in {{"Username"}, {"Password"}}
    BY <1>4, <2>1, <2>3, <2>5, <2>6, Promises
  <2>8. HostPart(m)'
    <3>1. \A i \in m..Len(out') : i = m
      BY <1>4, <2>4, <2>5
    <3>2. QED BY <1>2, <1>4, <1>6, <2>1, <2>7, <3>1 DEF HostPart
  <2>9. Greets'
    <3>1. Login(out[m])' /\ (out[m].by = host)' /\ m \in 1..Len(out')
      BY <1>2, <2>6, <2>7 DEF Login
    <3>2. \A i \in 1..(m - 1) : (out[i].by # host)'
      BY <1>2, <1>4, <2>6
    <3>3. QED BY <1>6, <2>8, <3>1, <3>2 DEF Greets
  <2>10. QED BY <1>7, <2>1, <2>9 DEF Arriving
<1>11. QED BY <1>8, <1>9, <1>10

\* The lines in front of telnet are read one by one; exit at the shell closes it.
LEMMA UnderwayReads ==
  ASSUME DiscTypes, Voices, host \in Hosts, Clear(host), InTurn, Underway,
         NEW l, NEW next, ReadsLine(l, next)
  PROVE  Lost' \/ Arriving'
<1>1. /\ Grows(next.at) /\ l \in LineSet /\ next \in Leads(l) /\ far.state \notin {"closed", "hang"}
  BY ReadsGrows
<1>2. /\ typed # <<>> /\ l = Head(typed) /\ far' = next /\ typed' = Tail(typed)
      /\ UNCHANGED <<kind, host, step, waiting, said, buf, got, results, late>>
  BY DEF ReadsLine
<1>3. PICK n, j \in 0..Len(typed) : Leaves(n, j) /\ Queued(n) /\ (AtShell \/ Held(n, j))
  BY DEF Underway
<1>4. Len(typed) \in Nat /\ Len(typed) >= 1 /\ Len(typed') = Len(typed) - 1 /\ l = typed[1]
  BY <1>2, TailOf
<1>5. /\ host \in Nat /\ host # 0 /\ Len(out) \in Nat /\ Len(out') \in Nat
      /\ \A i \in 1..Len(out) : out'[i] = out[i] /\ out[i].by # host
      /\ \A i \in (Len(out) + 1)..Len(out') : out'[i].by = next.at
      /\ \A i \in 1..Len(out') : i \in 1..Len(out) \/ i \in (Len(out) + 1)..Len(out')
  <2>1. host \in Nat /\ host # 0 /\ Len(out) \in Nat /\ Len(out') \in Nat /\ Len(out) <= Len(out')
    BY <1>1, Numbered DEF DiscTypes, Grows
  <2>2. \A i \in 1..Len(out') : i \in 1..Len(out) \/ i \in (Len(out) + 1)..Len(out')
    BY <2>1
  <2>3. QED BY <1>1, <2>1, <2>2 DEF Grows, Underway, NoHost
<1>6. ASSUME next.at # host PROVE NoHost'
  BY <1>2, <1>5, <1>6 DEF NoHost
<1>7. ASSUME next.at = 0 PROVE InTurn'
  BY <1>1, <1>2, <1>7, InTurnGrows
<1>8. CASE n = 0
  <2>1. Sent
    BY <1>3, <1>4, <1>8 DEF Queued
  <2>2. AtShell /\ Queued(0) /\ NoHost
    BY <1>3, <1>8 DEF Held, Underway
  <2>3. QED BY <2>2, TelnetReads DEF Arriving
<1>9. CASE n # 0
  <2>1. PICK q, i : q = n - 1 /\ i = IF j = 0 THEN 0 ELSE j - 1
    OBVIOUS
  <2>2. n \in Nat /\ n > 0 /\ n <= Len(typed) /\ j \in 0..n /\ q \in 0..Len(typed') /\ i \in 0..Len(typed')
    BY <1>3, <1>4, <1>9, <2>1 DEF Leaves
  <2>3. /\ Leaves(q, i)' /\ l.what # "telnet" /\ (j = 0 => l.what = "quit")
        /\ j = 1 => l.what = "exit"
        /\ j > 1 => l.what # "exit"
    <3>1. CASE j = 0
      BY <1>2, <1>3, <2>1, <2>2, <3>1, LeavesTail
    <3>2. CASE j > 0
      BY <1>2, <1>3, <2>1, <2>2, <3>2, LeavesTail
    <3>3. QED BY <2>2, <3>1, <3>2
  <2>4. Queued(q)'
    BY <1>2, <1>3, <2>1, <2>2, QueuedTail
  <2>5. ASSUME NoHost', AtShell' \/ Held(q, i)' PROVE Underway'
    BY <2>2, <2>3, <2>4, <2>5 DEF Underway
  <2>6. CASE AtShell /\ l.what = "exit"
    <3>1. far.at = 0 /\ far.state = "shell"
      BY <2>6, FarIs DEF AtShell
    <3>2. next.at = 0 /\ far'.state = "closed"
      BY <1>1, <1>2, <2>6, <3>1, LeadsFromShell DEF At
    <3>3. NoHost' /\ InTurn'
      BY <1>5, <1>6, <1>7, <3>2
    <3>4. CASE Sent
      BY <1>2, <3>2, <3>3, <3>4 DEF Arriving, Unanswered, Sent
    <3>5. CASE step = "telnet" /\ ~waiting
      BY <1>2, <3>2, <3>5 DEF Lost, Over
    <3>6. CASE step = "drain"
      <4>1. ~Stale'
        BY <1>2, <3>3, <3>6 DEF InTurn, TurnOf
      <4>2. \A m \in 1..Len(out') : out'[m].by = 0
        BY <1>2, <3>3, <4>1 DEF Stale, Foreign, NoHost
      <4>3. QED BY <3>2, <4>2 DEF Lost, CutOff
    <3>7. QED BY <3>4, <3>5, <3>6 DEF Sent
  <2>7. CASE AtShell /\ l.what # "exit"
    <3>1. far.at = 0 /\ far.state = "shell"
      BY <2>7, FarIs DEF AtShell
    <3>2. next = far
      BY <1>1, <2>3, <2>7, <3>1, LeadsFromShell
    <3>3. NoHost' /\ InTurn'
      BY <1>5, <1>6, <1>7, <3>1, <3>2
    <3>4. AtShell'
      BY <1>2, <2>7, <3>2 DEF AtShell, At
    <3>5. QED BY <2>5, <3>3, <3>4 DEF Arriving
  <2>8. CASE Held(n, j)
    <3>1. /\ far.at = host - 1 /\ far.at # 0 /\ j < n /\ (far.state = "priv" \/ kind[far.at] = "refusing")
          /\ \A m \in 1..Len(out) : out[m].by = far.at
      BY <2>8 DEF Held
    <3>2. \/ next = At(0, "shell")
          \/ next = far /\ l.what # "quit"
      <4>1. /\ next = At(0, "shell") \/ (next.at = far.at /\ l.what # "quit" /\ next.state # "hang")
            /\ far.state = "priv" => IF l.what \in {"exit", "quit"} THEN next = At(0, "shell")
                                     ELSE next = far
            /\ kind[far.at] = "refusing" => next \in {far, At(0, "shell")}
        BY <1>1, <3>1, LeadsFromDevice DEF Voices
      <4>2. QED BY <3>1, <4>1
    <3>3. CASE next = At(0, "shell")
      <4>1. AtShell' /\ next.at = 0
        BY <1>2, <3>3 DEF AtShell, At
      <4>2. QED BY <1>5, <1>6, <1>7, <2>5, <4>1 DEF Arriving
    <3>4. CASE next = far /\ l.what # "quit"
      <4>1. far.at # host
        BY <1>5, <3>1
      <4>2. kind[far.at] = "refusing" \/ \A m \in (Len(out) + 1)..Len(out') : out'[m].marks \subseteq {"#"}
        <5>1. host - 1 \in 1..(host - 1) /\ far.at = host - 1
          BY <1>5, <3>1
        <5>2. kind[far.at] # "loud"
          BY <5>1 DEF Clear
        <5>3. QED BY <3>1, <3>4, <5>2, PrivWrites
      <4>3. InTurn'
        BY <1>1, <1>2, <3>1, <3>4, <4>2, InTurnGrows
      <4>4. i < q
        BY <2>1, <2>2, <2>3, <3>1, <3>4
      <4>5. \A m \in 1..Len(out') : out'[m].by = far.at
        BY <1>5, <3>1, <3>4
      <4>6. Held(q, i)'
        BY <1>2, <3>1, <3>4, <4>4, <4>5 DEF Held
      <4>7. NoHost'
        BY <1>6, <3>4, <4>1
      <4>8. QED BY <2>5, <4>3, <4>6, <4>7 DEF Arriving
    <3>5. QED BY <3>2, <3>3, <3>4
  <2>9. QED BY <1>3, <2>6, <2>7, <2>8
<1>10. QED BY <1>8, <1>9

\* What is typed after telnet does nothing at the shell.
LEMMA UnansweredReads ==
  ASSUME DiscTypes, Voices, host \in Hosts, InTurn, Unanswered, NEW l, NEW next, ReadsLine(l, next)
  PROVE  Arriving'
<1>1. /\ Grows(next.at) /\ l \in LineSet /\ next \in Leads(l) /\ far.state \notin {"closed", "hang"}
  BY ReadsGrows
<1>2. /\ typed # <<>> /\ l = Head(typed) /\ far' = next /\ typed' = Tail(typed)
      /\ UNCHANGED <<kind, host, step, waiting, said, buf, got, results, late>>
  BY DEF ReadsLine
<1>3. NoLine("telnet") /\ NoLine("exit") /\ far.at = 0
  BY <1>1 DEF Unanswered
<1>4. NoLine("telnet")' /\ NoLine("exit")' /\ l.what \notin {"telnet", "exit"}
  BY <1>2, <1>3, NoLineTail
<1>5. next = far
  BY <1>1, <1>3, <1>4, LeadsFromShell
<1>6. InTurn'
  BY <1>1, <1>2, <1>3, <1>5, InTurnGrows
<1>7. NoHost'
  <2>1. host # 0 /\ Len(out) \in Nat /\ Len(out') \in Nat /\ Len(out) <= Len(out')
    BY <1>1, Numbered DEF DiscTypes, Grows
  <2>2. \A i \in 1..Len(out') : i \in 1..Len(out) \/ i \in (Len(out) + 1)..Len(out')
    BY <2>1
  <2>3. QED BY <1>1, <1>2, <1>3, <1>5, <2>1, <2>2 DEF Grows, Unanswered, NoHost
<1>8. Sent'
  BY <1>2 DEF Unanswered, Sent
<1>9. QED BY <1>2, <1>3, <1>4, <1>5, <1>6, <1>7, <1>8 DEF Arriving, Unanswered

\* The device has greeted, and a line is read.
LEMMA GreetsReads ==
  ASSUME DiscTypes, Voices, host \in Hosts, InTurn, Greets, NEW l, NEW next, ReadsLine(l, next)
  PROVE  Arriving'
<1>1. PICK m \in 1..Len(out) : /\ out[m].by = host /\ Login(out[m]) /\ HostPart(m)
                               /\ \A i \in 1..(m - 1) : out[i].by # host
  BY DEF Greets
<1>2. far.at \in {0, host} /\ NoLine("telnet")
  BY <1>1 DEF HostPart
<1>3. /\ Grows(next.at) /\ far' = next /\ NoLine("telnet")' /\ next.at \in {0, host}
      /\ typed # <<>> /\ typed' = Tail(typed) /\ l = Head(typed) /\ far.state # "hang"
      /\ next.at = host => far.at = host /\ next.state # "hang" /\ l.what # "quit"
      /\ next.state # "hang" /\ UNCHANGED <<kind, host, step, waiting, said, buf, got, results, late>>
  BY <1>2, ReadsHost
<1>4. NoLine("exit")' /\ Sent'
  BY <1>3, NoLineTail DEF Greets, Sent
<1>5. InTurn'
  BY <1>3, InTurnGrows
<1>6. Len(out) \in Nat /\ m \in 1..(Len(out) + 1)
  BY DEF DiscTypes
<1>7. HostPart(m)'
  BY <1>1, <1>3, <1>6, HostPartGrows
<1>8. Greets'
  <2>1. /\ m \in 1..Len(out') /\ out'[m] = out[m]
        /\ \A i \in 1..(m - 1) : i \in 1..Len(out) /\ out'[i] = out[i]
    BY <1>3, <1>6 DEF Grows
  <2>2. Login(out[m])' /\ (out[m].by = host)'
    BY <1>1, <1>3, <2>1 DEF Login
  <2>3. \A i \in 1..(m - 1) : (out[i].by # host)'
    BY <1>1, <1>3, <2>1
  <2>4. QED BY <1>4, <1>7, <2>1, <2>2, <2>3 DEF Greets
<1>9. QED BY <1>5, <1>8 DEF Arriving

\* On the way to the device: a line is read.
LEMMA ArrivingReads ==
  ASSUME DiscTypes, Voices, host \in Hosts, Clear(host), Arriving, Reads PROVE Lost' \/ Arriving'
<1>1. PICK l, next : ReadsLine(l, next)
  BY ReadsDoes
<1>2. QED BY <1>1, UnderwayReads, UnansweredReads, GreetsReads DEF Arriving

\* ^] drops what is typed in front of it; the telnet line is never behind it.
LEMMA ArrivingEscapes ==
  ASSUME DiscTypes, Voices, host \in Hosts, Arriving, Escapes PROVE Arriving'
<1>1. /\ far.at # 0 /\ far.state # "hang" /\ Len(typed) \in Nat /\ Len(typed) > 1
      /\ typed[Len(typed)].what = "quit"
      /\ UNCHANGED <<kind, far, out, host, step, waiting, said, buf, got, results, late>>
  BY LastOf
<1>2. /\ NoLine("telnet")' /\ NoLine("exit")' /\ Leaves(1, 0)'
      /\ Len(typed') = 1 /\ typed'[1].what = "quit"
  BY OneQuit
<1>3. InTurn'
  BY <1>1 DEF Arriving, InTurn, Turn, TurnOf, Stale, Behind, Foreign
<1>4. CASE Underway
  <2>1. PICK n, j \in 0..Len(typed) : Leaves(n, j) /\ Queued(n) /\ (AtShell \/ Held(n, j))
    BY <1>4 DEF Underway
  <2>2. Held(n, j)
    BY <1>1, <2>1, FarIs DEF AtShell
  <2>3. ~Sent
    <3> SUFFICES ASSUME Sent PROVE FALSE
      OBVIOUS
    <3>1. n < Len(typed) /\ typed[n + 1].what = "telnet"
      BY <2>1 DEF Queued
    <3>2. Len(typed) = n + 1 \/ Len(typed) \in (n + 2)..Len(typed)
      BY <1>1, <3>1
    <3>3. QED BY <1>1, <2>1, <3>1, <3>2 DEF Queued
  <2>4. Queued(1)' /\ Held(1, 0)'
    BY <1>1, <1>2, <2>2, <2>3 DEF Queued, Held, Sent
  <2>5. 0 \in 0..Len(typed') /\ 1 \in 0..Len(typed')
    BY <1>2
  <2>6. NoHost'
    BY <1>1, <1>4 DEF Underway, NoHost
  <2>7. QED BY <1>2, <1>3, <2>4, <2>5, <2>6 DEF Arriving, Underway
<1>5. CASE Unanswered
  BY <1>1, <1>2, <1>3, <1>5, FarIs DEF Arriving, Unanswered, NoHost, Sent
<1>6. CASE Greets
  <2>1. PICK m \in 1..Len(out) : /\ out[m].by = host /\ Login(out[m]) /\ HostPart(m)
                                 /\ \A i \in 1..(m - 1) : out[i].by # host
    BY <1>6 DEF Greets
  <2>2. HostPart(m)'
    BY <1>1, <1>2, <2>1 DEF HostPart
  <2>3. Sent'
    BY <1>1, <1>6 DEF Greets, Sent
  <2>4. QED BY <1>1, <1>2, <1>3, <2>1, <2>2, <2>3 DEF Arriving, Greets, Login
<1>7. QED BY <1>4, <1>5, <1>6 DEF Arriving

\* telnet gives up on a silent device; what was typed for it goes to the shell.
LEMMA ArrivingGivesUp ==
  ASSUME DiscTypes, Voices, host \in Hosts, Arriving, GivesUp PROVE Arriving'
<1>1. /\ Grows(0) /\ far'.at = 0 /\ far'.state = "shell" /\ far.state = "hang" /\ far.at # 0
      /\ UNCHANGED <<kind, typed, host, step, waiting, said, buf, got, results, late>>
  BY GivesUpGrows, FarIs DEF At
<1>2. InTurn'
  BY <1>1, InTurnGrows DEF Arriving
<1>3. /\ host \in Nat /\ host # 0 /\ Len(out) \in Nat /\ Len(out') \in Nat /\ Len(out) <= Len(out')
      /\ \A i \in 1..Len(out) : out'[i] = out[i]
      /\ \A i \in (Len(out) + 1)..Len(out') : out'[i].by = 0
  BY <1>1, Numbered DEF DiscTypes, Grows
<1>4. ~Underway
  BY <1>1, FarIs DEF Underway, AtShell, Held, Voices, Seat
<1>5. CASE Unanswered
  <2>1. \A i \in 1..Len(out') : i \in 1..Len(out) \/ i \in (Len(out) + 1)..Len(out')
    BY <1>3
  <2>2. NoHost'
    BY <1>1, <1>3, <1>5, <2>1 DEF Unanswered, NoHost
  <2>3. NoLine("telnet")' /\ NoLine("exit")' /\ Sent'
    BY <1>1, <1>5 DEF Unanswered, NoLine, Sent
  <2>4. QED BY <1>1, <1>2, <2>2, <2>3 DEF Arriving, Unanswered
<1>6. CASE Greets
  <2>1. PICK m \in 1..Len(out) : /\ out[m].by = host /\ Login(out[m]) /\ HostPart(m)
                                 /\ \A i \in 1..(m - 1) : out[i].by # host
    BY <1>6 DEF Greets
  <2>2. NoLine("telnet")' /\ NoLine("exit")' /\ Sent'
    BY <1>1, <1>6, <2>1 DEF Greets, HostPart, NoLine, Sent
  <2>0. m \in 1..(Len(out) + 1)
    BY <1>3
  <2>3. HostPart(m)'
    BY <1>1, <1>3, <2>0, <2>1, <2>2, HostPartGrows
  <2>4. /\ m \in 1..Len(out') /\ out'[m] = out[m]
        /\ \A i \in 1..(m - 1) : i \in 1..Len(out) /\ out'[i] = out[i]
    BY <1>3
  <2>5. Login(out[m])' /\ (out[m].by = host)'
    BY <1>1, <2>1, <2>4 DEF Login
  <2>6. \A i \in 1..(m - 1) : (out[i].by # host)'
    BY <1>1, <2>1, <2>4
  <2>7. QED BY <1>2, <2>2, <2>3, <2>4, <2>5, <2>6 DEF Arriving, Greets
<1>7. QED BY <1>4, <1>5, <1>6 DEF Arriving

\* telnet is typed behind what is left for the device before; then what the login asks for.
LEMMA ArrivingSends ==
  ASSUME DiscTypes, Open, host \in Hosts, Arriving, SendsLine PROVE Arriving'
<1>1. /\ ~waiting /\ Line \in LineSet /\ typed' = Append(typed, Line) /\ far.state # "closed"
      /\ UNCHANGED <<kind, far, out, host, late>>
  BY DEF SendsLine
<1>2. step \in {"telnet", "pass", "again", "enable"}
  BY <1>1 DEF Arriving, InTurn, Turn, Open
<1>3. step' = step /\ waiting' = TRUE
  BY <1>2 DEF SendsLine
<1>4. /\ Line.host = host /\ Line.what = IF step = "again" THEN "pass" ELSE step
      /\ Line = [host |-> host, what |-> Line.what]
  BY DEF Line
<1>5. InTurn' /\ Sent'
  BY <1>1, <1>2, <1>3 DEF Arriving, InTurn, Turn, TurnOf, Stale, Behind, Foreign, Sent
<1>6. /\ Len(typed) \in Nat /\ Len(typed') = Len(typed) + 1 /\ typed'[Len(typed')] = Line
      /\ \A i \in 1..Len(typed) : typed'[i] = typed[i]
  BY <1>1, AppendOf
<1>7. CASE Underway
  <2>1. PICK n, j \in 0..Len(typed) : Leaves(n, j) /\ Queued(n) /\ (AtShell \/ Held(n, j))
    BY <1>7 DEF Underway
  <2>2. Leaves(n, j)'
    BY <1>1, <2>1, LeavesMore
  <2>3. Queued(n)'
    <3>1. CASE step = "telnet"
      <4>1. n = Len(typed) /\ Line = [host |-> host, what |-> "telnet"]
        BY <1>1, <1>4, <2>1, <3>1 DEF Queued, Sent
      <4>2. \A i \in (n + 2)..Len(typed') : FALSE
        BY <1>6, <4>1
      <4>3. QED BY <1>1, <1>5, <1>6, <4>1, <4>2 DEF Queued
    <3>2. CASE step # "telnet"
      <4>1. Sent /\ Line.what \notin {"telnet", "exit", "quit"}
        BY <1>2, <1>4, <3>2 DEF Sent
      <4>2. n < Len(typed) /\ n + 1 \in 1..Len(typed) /\ typed[n + 1] = [host |-> host, what |-> "telnet"]
            /\ \A i \in (n + 2)..Len(typed) : typed[i].what \notin {"telnet", "exit", "quit"}
        BY <1>6, <2>1, <4>1 DEF Queued
      <4>3. \A i \in (n + 2)..Len(typed') : \/ i \in (n + 2)..Len(typed) /\ i \in 1..Len(typed)
                                            \/ i = Len(typed')
        BY <1>6, <4>2
      <4>4. \A i \in (n + 2)..Len(typed') : typed'[i].what \notin {"telnet", "exit", "quit"}
        BY <1>6, <4>1, <4>2, <4>3
      <4>5. n < Len(typed') /\ typed'[n + 1] = [host |-> host', what |-> "telnet"]
        BY <1>1, <1>6, <4>2
      <4>6. QED BY <1>5, <4>4, <4>5 DEF Queued
    <3>3. QED BY <3>1, <3>2
  <2>4. AtShell' \/ Held(n, j)'
    BY <1>1, <2>1 DEF AtShell, At, Held
  <2>5. n \in 0..Len(typed') /\ j \in 0..Len(typed') /\ NoHost'
    BY <1>1, <1>6, <1>7 DEF Underway, NoHost
  <2>6. QED BY <1>5, <2>2, <2>3, <2>4, <2>5 DEF Arriving, Underway
<1>8. Sent /\ NoLine("telnet") /\ NoLine("exit") => NoLine("telnet")' /\ NoLine("exit")'
  <2> SUFFICES ASSUME Sent, NoLine("telnet"), NoLine("exit") PROVE NoLine("telnet")' /\ NoLine("exit")'
    OBVIOUS
  <2>1. Line.what \notin {"telnet", "exit"}
    BY <1>1, <1>2, <1>4 DEF Sent
  <2>2. QED BY <1>1, <2>1, NoLineAppend
<1>9. CASE Unanswered
  BY <1>1, <1>5, <1>8, <1>9 DEF Arriving, Unanswered, NoHost
<1>10. CASE Greets
  <2>1. PICK m \in 1..Len(out) : /\ out[m].by = host /\ Login(out[m]) /\ HostPart(m)
                                 /\ \A i \in 1..(m - 1) : out[i].by # host
    BY <1>10 DEF Greets
  <2>2. NoLine("telnet")' /\ NoLine("exit")'
    BY <1>8, <1>10, <2>1 DEF Greets, HostPart
  <2>3. HostPart(m)'
    BY <1>1, <2>1, <2>2 DEF HostPart
  <2>4. QED BY <1>1, <1>5, <2>1, <2>2, <2>3 DEF Arriving, Greets, Login
<1>11. QED BY <1>7, <1>9, <1>10 DEF Arriving

\* The mark a receive ends at is in what it took.
LEMMA TakesMark ==
  ASSUME DiscTypes, Open, waiting, NEW k, NEW t, NEW r, Takes(k, t, r), out' = r, EndsAt(t)
  PROVE  \E i \in 1..k : \E x \in Endings : x \in out[i].marks
<1>1. buf \in Seq(PieceSet) /\ t \in Seq(PieceSet)
  BY DEF DiscTypes, Takes
<1>2. PICK x \in Endings : x \in Marks(t)
  BY DEF EndsAt
<1>3. x \notin Marks(buf)
  BY DEF Open, EndsAt
<1>4. PICK i \in 1..Len(t) : x \in t[i].marks
  BY <1>1, <1>2, MarksOf
<1>5. ~(i \in 1..Len(buf) /\ t[i] = buf[i])
  BY <1>1, <1>3, <1>4, MarksOf
<1>6. i - Len(buf) \in 1..k /\ t[i] = out[i - Len(buf)]
  BY <1>5, TakesShrinks
<1>7. QED BY <1>4, <1>6

\* A receive that took nothing of the device leaves it on its way.
LEMMA StillComing ==
  ASSUME DiscTypes, host \in Hosts, Arriving, NEW k, Shrinks(k), UNCHANGED <<kind, far, typed, host>>,
         \A i \in 1..k : out[i].by # host, Sent' <=> Sent
  PROVE  Underway' \/ Unanswered' \/ Greets'
<1>1. /\ \A i \in 1..Len(out') : k + i \in 1..Len(out) /\ out'[i] = out[k + i]
      /\ Len(out) \in Nat /\ Len(out') \in Nat /\ k \in Nat /\ Len(out') = Len(out) - k
  BY ShrinksFrom DEF Shrinks
<1>2. NoHost => NoHost'
  BY <1>1 DEF NoHost
<1>3. CASE Underway
  <2>1. PICK n, j \in 0..Len(typed) : Leaves(n, j) /\ Queued(n) /\ (AtShell \/ Held(n, j))
    BY <1>3 DEF Underway
  <2>2. Leaves(n, j)' /\ Queued(n)'
    BY <2>1 DEF Leaves, Queued
  <2>3. AtShell' \/ Held(n, j)'
    BY <1>1, <2>1 DEF AtShell, At, Held
  <2>4. QED BY <1>2, <1>3, <2>2, <2>3 DEF Underway
<1>4. CASE Unanswered
  BY <1>2, <1>4 DEF Unanswered, NoLine
<1>5. CASE Greets
  <2>1. PICK m \in 1..Len(out) : /\ out[m].by = host /\ Login(out[m]) /\ HostPart(m)
                                 /\ \A i \in 1..(m - 1) : out[i].by # host
    BY <1>5 DEF Greets
  <2>2. PICK n : n = m - k
    OBVIOUS
  <2>3. n >= 1 /\ n \in 1..Len(out') /\ n + k = m /\ k + n = m /\ n \in Nat /\ m \in 1..(Len(out) + 1)
    BY <1>1, <2>1, <2>2
  <2>4. HostPart(n)'
    BY <2>1, <2>3, HostPartShrinks
  <2>5. Login(out[n])' /\ (out[n].by = host)'
    BY <1>1, <2>1, <2>3 DEF Login
  <2>6. \A i \in 1..(n - 1) : (out[i].by # host)'
    <3>1. \A i \in 1..(n - 1) : k + i \in 1..(m - 1) /\ i \in 1..Len(out')
      BY <1>1, <2>3
    <3>2. QED BY <1>1, <2>1, <3>1
  <2>7. NoLine("exit")' /\ Sent'
    BY <1>5 DEF Greets, NoLine
  <2>8. QED BY <2>3, <2>4, <2>5, <2>6, <2>7 DEF Greets
<1>6. QED BY <1>3, <1>4, <1>5 DEF Arriving

\* One that took something of it leaves the stream to it.
LEMMA HostTaken ==
  ASSUME DiscTypes, host \in Hosts, Arriving, NEW k, Shrinks(k), UNCHANGED <<kind, far, typed, host>>,
         NEW i \in 1..k, out[i].by = host
  PROVE  /\ Greets /\ \E m \in 1..k : Login(out[m])
         /\ step' \notin {"drain", "telnet", "quit"} => Alone'
<1>1. Len(out) \in Nat /\ k \in 0..Len(out) /\ i \in 1..Len(out)
  BY DEF DiscTypes, Shrinks
<1>2. Greets
  BY <1>1 DEF Arriving, Underway, Unanswered, NoHost
<1>3. PICK m \in 1..Len(out) : /\ out[m].by = host /\ Login(out[m]) /\ HostPart(m)
                               /\ \A j \in 1..(m - 1) : out[j].by # host
  BY <1>2 DEF Greets
<1>4. ~(i \in 1..(m - 1))
  BY <1>3
<1>5. m \in 1..k /\ m \in 1..(Len(out) + 1) /\ 1 + k >= m
  BY <1>1, <1>4
<1>6. HostPart(1)'
  BY <1>3, <1>5, HostPartShrinks
<1>7. QED BY <1>2, <1>3, <1>5, <1>6 DEF Alone, Greets, NoLine

\* One that took something of the shell took all there was of the device before.
LEMMA ShellTaken ==
  ASSUME DiscTypes, host \in Hosts, Arriving, NEW k, Shrinks(k), UNCHANGED <<far, host>>,
         NEW i \in 1..k, out[i].by = 0
  PROVE  ~Stale'
<1>1. /\ \A m \in 1..Len(out') : k + m \in 1..Len(out) /\ out'[m] = out[k + m]
      /\ Len(out) \in Nat /\ k \in 0..Len(out)
  BY ShrinksFrom DEF Shrinks, DiscTypes
<1>2. i \in 1..Len(out) /\ \A m \in 1..Len(out') : i < k + m
  BY <1>1
<1>3. \A m \in 1..Len(out') : ~Foreign(out[k + m])
  BY <1>1, <1>2 DEF Arriving, InTurn, Behind, Foreign
<1>4. far.at \in {0, host}
  BY <1>2, FarIs DEF Arriving, Underway, AtShell, Held, Unanswered, Greets, HostPart
<1>5. QED BY <1>1, <1>3, <1>4 DEF Stale, Foreign

\* The drain gives way to the first device.
LEMMA DrainNext ==
  ASSUME DiscTypes, host \in Hosts, Arriving, step = "drain", NEW k, Shrinks(k),
         UNCHANGED <<kind, far, typed, host>>, step' = "telnet", waiting' = FALSE
  PROVE  Arriving'
<1>1. ~Stale /\ NoHost
  BY DEF Arriving, InTurn, TurnOf, Underway, Unanswered, Greets, Sent
<1>2. Behind' /\ ~Stale'
  BY <1>1, BehindShrinks DEF Arriving, InTurn
<1>3. \A i \in 1..k : out[i].by # host
  <2>1. \A i \in 1..k : i \in 1..Len(out)
    BY DEF Shrinks, DiscTypes
  <2>2. QED BY <1>1, <2>1 DEF NoHost
<1>4. ~Sent /\ ~(Sent')
  BY DEF Sent
<1>5. Underway' \/ Unanswered' \/ Greets'
  BY <1>3, <1>4, StillComing
<1>6. QED BY <1>2, <1>5 DEF Arriving, InTurn, Turn

\* The shell's marks are neither a login prompt nor the device's privileged one.
LEMMA RestNot ==
  \A p : Rest(p) => "Password" \notin p.marks /\ "Username" \notin p.marks /\ "#" \notin p.marks
BY Zenon DEF Rest

\* A receive that is ended by the device before, or by the shell, leaves the
\* next step to the same turn.
LEMMA TurnPasses ==
  ASSUME DiscTypes, Voices, Open, host \in Hosts, Arriving, waiting, UNCHANGED <<kind, far, typed, late>>,
         NEW k, NEW t, NEW r, Takes(k, t, r), out' = r, EndsAt(t), GoesOn(t), step # "drain",
         \A i \in 1..k : out[i].by # host
  PROVE  InTurn'
<1>1. step \in {"telnet", "pass", "again", "enable"} /\ late \in Nat /\ (step # "telnet" => late > 0)
  BY DEF Arriving, InTurn, Turn, DiscTypes
<1>2. Shrinks(k) /\ t \in Seq(PieceSet) /\ buf \in Seq(PieceSet) /\ Len(out) \in Nat
      /\ (\A i \in 1..k : i \in 1..Len(out))
  BY TakesShrinks DEF Takes, DiscTypes, Shrinks
<1>3. UNCHANGED host /\ step' = Continue(Marks(t) \cup {})
  BY <1>1 DEF GoesOn
<1>4. Marks(t) \cup {} = Marks(t)
  OBVIOUS
<1>5. step' = Continue(Marks(t))
  BY <1>3, <1>4
<1>6. Behind' /\ (Stale' => Stale)
  BY <1>2, <1>3, BehindShrinks DEF Arriving, InTurn
<1>7. PICK i \in 1..k, x \in Endings : x \in out[i].marks
  BY TakesMark
<1>8. out[i].by # 0 => /\ Foreign(out[i]) /\ Stale /\ TurnOf(host - 1) /\ out[i].by = host - 1
                       /\ kind[host - 1] = "refusing" => out[i].marks = {"Password"}
                       /\ kind[host - 1] # "refusing" => out[i].marks \subseteq {"#"}
  <2> SUFFICES ASSUME out[i].by # 0
               PROVE  /\ Foreign(out[i]) /\ Stale /\ TurnOf(host - 1) /\ out[i].by = host - 1
                      /\ kind[host - 1] = "refusing" => out[i].marks = {"Password"}
                      /\ kind[host - 1] # "refusing" => out[i].marks \subseteq {"#"}
    OBVIOUS
  <2>1. i \in 1..Len(out) /\ Foreign(out[i])
    BY <1>2 DEF Foreign
  <2>2. Stale /\ TurnOf(host - 1)
    BY <2>1 DEF Stale, Arriving, InTurn
  <2>3. out[i].by = host - 1 /\ (kind[host - 1] = "refusing" \/ out[i].marks \subseteq {"#"})
    BY <2>1 DEF Arriving, InTurn, Behind
  <2>4. Voice(out[i])
    BY <2>1 DEF Voices
  <2>5. QED BY <2>1, <2>2, <2>3, <2>4 DEF Voice
<1>9. out[i].by = 0 => ~Stale' /\ "Password" # x /\ "Username" # x /\ "#" # x
  <2>1. out[i].by = 0 => ~Stale'
    BY <1>2, <1>3, ShellTaken
  <2>2. Voice(out[i])
    BY <1>2 DEF Voices
  <2>3. out[i].by = 0 => Rest(out[i])
    BY <2>2, Zenon DEF Voice
  <2>4. QED BY <1>7, <2>1, <2>3, RestNot
<1>10. CASE step = "telnet"
  <2>1. Endings = {"Password", "Username"}
    BY <1>10, Endless DEF Endings
  <2>2. out[i].by # 0
    BY <1>7, <1>9, <2>1
  <2>3. kind[host - 1] = "refusing" /\ x = "Password" /\ late > 0
    BY <1>7, <1>8, <2>1, <2>2 DEF TurnOf
  <2>4. "Password" \in Marks(t)
    <3>1. Len(buf) + i \in 1..Len(t) /\ t[Len(buf) + i] = out[i]
      BY TakesShrinks
    <3>2. QED BY <1>2, <1>7, <2>3, <3>1, MarksOf
  <2>5. "Username" \notin Marks(t)
    <3> SUFFICES ASSUME NEW m \in 1..Len(t), "Username" \in t[m].marks PROVE FALSE
      BY <1>2, MarksOf
    <3>1. CASE m \in 1..Len(buf) /\ t[m] = buf[m]
      <4>1. "Username" \in Marks(buf)
        BY <1>2, <3>1, MarksOf
      <4>2. QED BY <2>1, <4>1 DEF Open, EndsAt
    <3>2. CASE m - Len(buf) \in 1..k /\ t[m] = out[m - Len(buf)]
      <4>1. PICK q \in 1..k : t[m] = out[q]
        BY <3>2
      <4>2. q \in 1..Len(out) /\ Voice(out[q]) /\ out[q].by # host
        BY <1>2 DEF Voices
      <4>3. CASE out[q].by = 0
        <5>1. Rest(out[q])
          BY <4>2, <4>3, Zenon DEF Voice
        <5>2. QED BY <4>1, <5>1, RestNot
      <4>4. CASE out[q].by # 0
        <5>1. out[q].by = host - 1
          BY <4>2, <4>4 DEF Arriving, InTurn, Behind, Foreign
        <5>2. out[q].marks = {"Password"}
          BY <2>3, <4>2, <4>4, <5>1 DEF Voice
        <5>3. QED BY <4>1, <5>2
      <4>5. QED BY <4>3, <4>4
    <3>3. QED BY <3>1, <3>2, TakesShrinks
  <2>6. step' = "pass"
    BY <1>5, <1>10, <2>4, <2>5 DEF Continue
  <2>7. QED BY <1>3, <1>6, <2>3, <2>6 DEF InTurn, Turn, TurnOf
<1>11. CASE step \in {"pass", "again"} /\ step' = "again"
  <2>1. Stale => TurnOf(host - 1)
    BY DEF Arriving, InTurn
  <2>2. QED BY <1>1, <1>3, <1>6, <1>11, <2>1 DEF InTurn, Turn, TurnOf
<1>12. CASE step \in {"pass", "again"} /\ step' # "again"
  <2>1. step' = "enable" /\ (step = "pass" => "Password" \notin Marks(t))
    BY <1>5, <1>12, FollowingAre DEF Continue
  <2>2. x # "Password"
    <3>1. step = "again" => Endings = {"#", ">"}
      BY Endless DEF Endings
    <3>2. x \in Marks(t)
      <4>1. Len(buf) + i \in 1..Len(t) /\ t[Len(buf) + i] = out[i]
        BY TakesShrinks
      <4>2. QED BY <1>2, <1>7, <4>1, MarksOf
    <3>3. QED BY <1>12, <2>1, <3>1, <3>2
  <2>3. out[i].by = 0
    BY <1>7, <1>8, <1>12, <2>2 DEF TurnOf
  <2>4. QED BY <1>1, <1>3, <1>6, <1>9, <1>12, <2>1, <2>3 DEF InTurn, Turn
<1>13. CASE step = "enable"
  <2>1. Endings = {"Password", "#"}
    BY <1>13, EndingsAre
  <2>2. out[i].by # 0
    BY <1>7, <1>9, <2>1
  <2>3. QED BY <1>8, <1>13, <2>2 DEF TurnOf
<1>14. QED BY <1>1, <1>10, <1>11, <1>12, <1>13

\* On the way to the device: a receive takes something.
LEMMA ArrivingReceives ==
  ASSUME DiscTypes, Voices, Open, host \in Hosts, Arriving, Receives PROVE Alone' \/ Arriving'
<1>1. PICK k, t, r : /\ Takes(k, t, r) /\ out' = r
                     /\ \/ EndsAt(t) /\ Returns(t)
                        \/ ~EndsAt(t) /\ buf' = t /\ UNCHANGED <<host, step, waiting, said, got, results>>
  BY ReceivesDoes
<1>2. Shrinks(k) /\ t \in Seq(PieceSet)
  BY <1>1, TakesShrinks DEF Takes
<1>3. waiting /\ UNCHANGED <<kind, far, typed, late>>
  BY DEF Receives
<1>4. step \in {"drain", "telnet", "pass", "again", "enable"}
  BY DEF Arriving, InTurn, Turn
<1>5. CASE EndsAt(t)
  <2>1. waiting' = FALSE /\ GoesOn(t)
    BY <1>1, <1>4, <1>5, ReturnsDoes
  <2>2. UNCHANGED host
    BY <2>1 DEF GoesOn
  <2>3. CASE step = "drain"
    <3>1. step' = "telnet"
      BY <2>1, <2>3, FollowingAre DEF GoesOn, Continue
    <3>2. QED BY <1>2, <1>3, <2>1, <2>2, <2>3, <3>1, DrainNext
  <2>4. CASE step # "drain"
    <3>1. step' \notin {"drain", "telnet", "quit"}
      BY <1>3, <1>4, <2>1, <2>4, GoesOnTo
    <3>2. CASE \E i \in 1..k : out[i].by = host
      BY <1>2, <1>3, <2>2, <3>1, <3>2, HostTaken
    <3>3. CASE \A i \in 1..k : out[i].by # host
      <4>1. Sent' <=> Sent
        BY <1>3, <2>4, <3>1 DEF Sent
      <4>2. Underway' \/ Unanswered' \/ Greets'
        BY <1>2, <1>3, <2>2, <3>3, <4>1, StillComing
      <4>3. InTurn'
        BY <1>1, <1>3, <1>5, <2>1, <2>4, <3>3, TurnPasses
      <4>4. QED BY <4>2, <4>3 DEF Arriving
    <3>4. QED BY <3>2, <3>3
  <2>5. QED BY <2>3, <2>4
<1>6. CASE ~EndsAt(t)
  <2>1. UNCHANGED <<host, step, waiting>>
    BY <1>1, <1>6
  <2>2. CASE \E i \in 1..k : out[i].by = host
    <3>1. PICK m \in 1..k : Login(out[m])
      BY <1>2, <1>3, <2>1, <2>2, HostTaken
    <3>2. Greets
      BY <1>2, <1>3, <2>1, <2>2, HostTaken
    <3>3. step # "drain"
      BY <3>2 DEF Greets, Sent
    <3>4. ASSUME step = "telnet" PROVE FALSE
      <4>1. Endings = {"Password", "Username"}
        BY <3>4, Endless DEF Endings
      <4>2. Len(buf) + m \in 1..Len(t) /\ t[Len(buf) + m] = out[m]
        BY <1>1, TakesShrinks
      <4>3. "Password" \in out[m].marks \/ "Username" \in out[m].marks
        BY <3>1 DEF Login
      <4>4. "Password" \in Marks(t) \/ "Username" \in Marks(t)
        BY <1>2, <4>2, <4>3, MarksOf
      <4>5. QED BY <1>6, <4>1, <4>4 DEF EndsAt
    <3>5. step' \notin {"drain", "telnet", "quit"}
      BY <1>4, <2>1, <3>3, <3>4
    <3>6. QED BY <1>2, <1>3, <2>1, <2>2, <3>5, HostTaken
  <2>3. CASE \A i \in 1..k : out[i].by # host
    <3>1. Underway' \/ Unanswered' \/ Greets'
      BY <1>2, <1>3, <2>1, <2>3, StillComing DEF Sent
    <3>2. InTurn'
      <4>1. Behind' /\ (Stale' => Stale)
        BY <1>2, <1>3, <2>1, BehindShrinks DEF Arriving, InTurn
      <4>2. QED BY <1>3, <2>1, <4>1 DEF Arriving, InTurn, Turn, TurnOf
    <3>3. QED BY <3>1, <3>2 DEF Arriving
  <2>4. QED BY <2>2, <2>3
<1>7. QED BY <1>5, <1>6

\* A receive that gives up on the next device, for good reason or too early.
LEMMA ArrivingExpires ==
  ASSUME DiscTypes, Voices, Open, host \in Hosts, Arriving, Expires, late' <= 1
  PROVE  Lost' \/ Alone' \/ Arriving'
<1>1. /\ waiting /\ Returns(buf) /\ UNCHANGED <<kind, far, typed, out>>
      /\ (Quiet /\ late' = late) \/ (late' = late + 1 /\ late = 0)
  BY ExpiresLate DEF Expires, farVars
<1>2. step \in {"drain", "telnet", "pass", "again", "enable"} /\ (late = 0 => step \in {"drain", "telnet"})
  BY DEF Arriving, InTurn, Turn
<1>3. waiting' = FALSE /\ GoesOn(buf) /\ UNCHANGED host /\ buf \in Seq(PieceSet)
  BY <1>1, <1>2, ReturnsDoes DEF GoesOn, DiscTypes
<1>4. Shrinks(0)
  BY <1>1 DEF Shrinks, DiscTypes
<1>5. CASE step = "drain"
  <2>1. step' = "telnet"
    BY <1>3, <1>5, FollowingAre DEF GoesOn, Continue
  <2>2. QED BY <1>1, <1>3, <1>4, <1>5, <2>1, DrainNext
<1>6. CASE step # "drain" /\ Quiet
  <2>1. out = <<>> /\ Len(out) = 0 /\ (typed = <<>> \/ far.state \in {"closed", "hang"})
    BY <1>6 DEF Quiet
  <2>2. step' \notin {"drain", "telnet", "quit"}
    BY <1>1, <1>2, <1>3, <1>6, GoesOnTo
  <2>3. ~Underway
    <3>1. Sent
      BY <1>1, <1>6 DEF Sent
    <3>2. Underway => typed # <<>>
      BY <3>1 DEF Underway, Queued
    <3>3. Underway => far.state \notin {"closed", "hang"}
      BY FarIs DEF Underway, AtShell, Held, Voices, Seat
    <3>4. QED BY <2>1, <3>2, <3>3
  <2>4. ~Greets
    BY <2>1 DEF Greets
  <2>5. Unanswered
    BY <2>3, <2>4 DEF Arriving
  <2>6. CASE far.state = "closed"
    BY <1>1, <2>1, <2>6 DEF Lost, CutOff
  <2>7. CASE far.state # "closed"
    <3>1. /\ NoLine("telnet") /\ NoLine("exit")
          /\ far.at = 0 \/ (far.at = host /\ far.state = "hang")
      BY <2>5, <2>7 DEF Unanswered
    <3>2. HostPart(1)'
      BY <1>1, <1>3, <2>1, <3>1 DEF HostPart, NoLine
    <3>3. QED BY <1>1, <2>2, <3>1, <3>2 DEF Alone, NoLine
  <2>8. QED BY <2>6, <2>7
<1>7. CASE step # "drain" /\ ~Quiet
  <2>1. late' > 0 /\ late = 0 /\ step = "telnet"
    BY <1>1, <1>2, <1>7
  <2>2. Endings = {"Password", "Username"}
    BY <2>1, Endless DEF Endings
  <2>3. "Password" \notin Marks(buf) /\ "Username" \notin Marks(buf)
    BY <1>1, <2>2 DEF Open, EndsAt
  <2>4. step' = Continue(Marks(buf) \cup {}) /\ Marks(buf) \cup {} = Marks(buf)
    BY <1>3, <2>1 DEF GoesOn
  <2>5. step' = "enable"
    BY <2>1, <2>3, <2>4 DEF Continue
  <2>6. ~Stale
    BY <2>1 DEF Arriving, InTurn, TurnOf
  <2>7. Behind' /\ ~Stale'
    BY <1>1, <1>3, <1>4, <2>6, BehindShrinks DEF Arriving, InTurn
  <2>8. Sent /\ Sent'
    BY <1>1, <2>1, <2>5 DEF Sent
  <2>9. Underway' \/ Unanswered' \/ Greets'
    BY <1>1, <1>3, <1>4, <2>8, StillComing
  <2>10. QED BY <2>1, <2>5, <2>7, <2>9 DEF Arriving, InTurn, Turn
<1>8. QED BY <1>5, <1>6, <1>7

-----------------------------------------------------------------------------
(* The three states of the stream are all there are.                       *)

\* The stage of an attended device at quit: its marks end nothing at telnet.
LEMMA LeavingMarks ==
  ASSUME DiscTypes, host \in Hosts, Stage, step = "quit"
  PROVE  /\ \A i \in 1..Len(out) : out[i].by = host => out[i].marks \subseteq {"#"}
         /\ far.at = host /\ far.state # "hang" => far.state = "priv"
<1>1. (Staying \/ Gone) /\ host # 0 /\ Len(out) \in Nat
  BY Numbered DEF Stage, Exiting, Leaving, DiscTypes
<1>2. CASE Staying
  BY <1>2, FarIs DEF Staying, Noise
<1>3. CASE Gone
  <2>1. far.at = 0
    BY <1>3, FarIs DEF Gone, AtShell
  <2>2. PICK m \in 0..Len(out) : /\ \A i \in 1..m : out[i].marks \subseteq {"#"}
                                 /\ \A i \in (m + 1)..Len(out) : Rest(out[i])
    BY <1>3 DEF Gone
  <2>3. \A i \in 1..Len(out) : i \in 1..m \/ i \in (m + 1)..Len(out)
    BY <1>1, <2>2
  <2>4. \A i \in (m + 1)..Len(out) : out[i].by = 0
    BY <2>2, Zenon DEF Rest
  <2>5. QED BY <1>1, <2>1, <2>2, <2>3, <2>4
<1>4. QED BY <1>1, <1>2, <1>3

\* The next device is not clear when this one is loud.
LEMMA ClearedHost ==
  ASSUME host \in Hosts, host' = host + 1, kind' = kind, Clear(host)' PROVE kind[host] # "loud"
<1>1. host \in 1..(host' - 1)
  BY Numbered
<1>2. QED BY <1>1 DEF Clear

\* Left to the device: a receive takes something.
LEMMA AloneReceives ==
  ASSUME DiscTypes, Voices, Open, host \in Hosts, Alone, Receives, Clear(host)'
  PROVE  Lost' \/ Alone' \/ Arriving'
<1>1. PICK k, t, r : /\ Takes(k, t, r) /\ out' = r
                     /\ \/ EndsAt(t) /\ Returns(t)
                        \/ ~EndsAt(t) /\ buf' = t /\ UNCHANGED <<host, step, waiting, said, got, results>>
  BY ReceivesDoes
<1>2. Shrinks(k) /\ k \in 1..Len(out) /\ Len(out) \in Nat
  BY <1>1, TakesShrinks DEF DiscTypes
<1>3. waiting /\ UNCHANGED <<kind, far, typed, late>> /\ late \in Nat
  BY DEF Receives, DiscTypes
<1>4. CASE ~EndsAt(t)
  BY <1>1, <1>2, <1>3, <1>4, AloneShrinks
<1>5. CASE EndsAt(t) /\ step # "quit"
  <2>1. GoesOn(t) /\ UNCHANGED host
    BY <1>1, <1>5, ReturnsDoes DEF GoesOn
  <2>2. step' \notin {"drain", "telnet", "quit"}
    BY <1>3, <1>5, <2>1, GoesOnTo DEF Alone
  <2>3. QED BY <1>2, <1>3, <1>5, <2>1, <2>2, AloneShrinks
<1>6. CASE EndsAt(t) /\ step = "quit"
  <2>1. waiting' = FALSE /\ host' = host + 1 /\ step' = "telnet"
    BY <1>1, <1>6, ReturnsDoes DEF GoesOn, Record
  <2>2. PICK i \in 1..k, x \in Endings : x \in out[i].marks
    BY <1>1, <1>3, <1>6, TakesMark
  <2>3. Voice(out[i])
    BY <1>2 DEF Voices
  <2>4. out[i].by = 0
    <3>1. Endings = {"$", "# ", "> "}
      BY <1>6, Endless, Zenon DEF Endings
    <3>2. x \notin {"#", ">", "Password", "Username"}
      BY <3>1, <2>2, Zenon
    <3>3. out[i].by \in {0, host}
      BY <1>2 DEF Alone, HostPart
    <3>4. kind[host] # "loud"
      BY <1>3, <2>1, ClearedHost
    <3>5. QED BY <2>2, <2>3, <3>2, <3>3, <3>4 DEF Voice
  <2>5. QED BY <1>2, <1>3, <1>6, <2>1, <2>4, QuitLeaves
<1>7. QED BY <1>1, <1>4, <1>5, <1>6

\* Left to the device: a receive gives up.
LEMMA AloneExpires ==
  ASSUME DiscTypes, Voices, Attends, host \in Hosts, Alone, Expires, late' <= 1,
         Clear(host), Clear(host)'
  PROVE  Lost' \/ Alone' \/ Arriving'
<1>1. /\ waiting /\ Returns(buf) /\ UNCHANGED <<kind, far, typed, out>> /\ late' \in Nat
      /\ Quiet \/ (late' = late + 1 /\ late = 0)
  BY ExpiresLate DEF Expires, farVars
<1>2. Shrinks(0)
  BY <1>1 DEF Shrinks, DiscTypes
<1>3. CASE step # "quit"
  <2>1. GoesOn(buf) /\ UNCHANGED host
    BY <1>1, <1>3, ReturnsDoes DEF GoesOn
  <2>2. step' \notin {"drain", "telnet", "quit"}
    BY <1>1, <1>3, <2>1, GoesOnTo DEF Alone
  <2>3. QED BY <1>1, <1>2, <1>3, <2>1, <2>2, AloneShrinks
<1>4. CASE step = "quit"
  <2>1. waiting' = FALSE /\ host' = host + 1 /\ step' = "telnet"
    BY <1>1, <1>4, ReturnsDoes DEF GoesOn, Record
  <2>2. CASE Quiet
    BY <1>1, <1>2, <1>4, <2>1, <2>2, QuitLeaves
  <2>3. CASE ~Quiet
    <3>1. late' > 0 /\ late = 0
      BY <1>1, <2>3
    <3>2. CASE Lost
      BY <3>2, LostStep DEF DiscNext
    <3>3. CASE ~Lost /\ kind[host] \in Answering
      <4>1. Stage
        BY <3>1, <3>3 DEF Attends, Attended
      <4>2. /\ \A i \in 1..Len(out) : out[i].by = host => out[i].marks \subseteq {"#"}
            /\ far.at = host /\ far.state # "hang" => far.state = "priv"
        BY <1>4, <4>1, LeavingMarks
      <4>3. QED BY <1>1, <1>2, <1>4, <2>1, <3>1, <4>2, QuitLeaves
    <3>4. CASE kind[host] = "refusing"
      BY <1>1, <1>2, <1>4, <2>1, <3>1, <3>4, QuitLeaves
    <3>5. CASE kind[host] \in {"silent", "dead"}
      <4>1. host # 0
        BY Numbered
      <4>2. \A i \in 1..Len(out) : out[i].by # host
        BY <3>5, <4>1 DEF Voices, Voice
      <4>3. ~(far.at = host /\ far.state # "hang")
        BY <3>5, <4>1 DEF Voices, Seat
      <4>4. QED BY <1>1, <1>2, <1>4, <2>1, <3>1, <4>2, <4>3, QuitLeaves
    <3>6. kind[host] \in AllKinds /\ kind[host] # "loud"
      BY <1>1, <2>1, ClearedHost DEF DiscTypes
    <3>7. QED BY <3>2, <3>3, <3>4, <3>5, <3>6 DEF AllKinds, Answering
  <2>4. QED BY <2>2, <2>3
<1>5. QED BY <1>3, <1>4

\* Every step keeps the stream in one of its three states.
LEMMA ApartStep ==
  ASSUME DiscTypes, Voices, Open, Attends, Apart, DiscNext PROVE Apart'
<1> SUFFICES ASSUME late' <= 1, host' \in Hosts, Clear(host)' PROVE Lost' \/ Alone' \/ Arriving'
  BY DEF Apart
<1>0. kind' = kind /\ late' \in {late, late + 1} /\ late \in Nat /\ (host' = host \/ host' = host + 1)
      /\ host \in 1..(N + 1)
  BY GoesOnward DEF Onward, Record, DiscTypes
<1>1. late <= 1 /\ host \in Hosts /\ Clear(host)
  <2>1. late <= 1 /\ host \in Hosts
    BY <1>0, Numbered
  <2>2. \A e \in 1..(host - 1) : e \in 1..(host' - 1)
    <3>1. host \in Nat
      BY <1>0, Numbered
    <3>2. QED BY <1>0, <3>1
  <2>3. QED BY <1>0, <2>1, <2>2 DEF Clear
<1>2. Lost \/ Alone \/ Arriving
  BY <1>1 DEF Apart
<1>3. CASE Lost
  BY <1>3, LostStep
<1>4. SendsNone => Lost'
  BY DEF SendsNone, Lost, Over
<1>5. CASE Alone
  <2>1. CASE Reads
    BY <1>1, <1>5, <2>1, AloneReads
  <2>2. CASE Escapes
    BY <1>1, <1>5, <2>2, AloneEscapes
  <2>3. CASE GivesUp
    BY <1>1, <1>5, <2>3, AloneGivesUp
  <2>4. CASE Sends
    BY <1>1, <1>4, <1>5, <2>4, SendsDoes, AloneSends
  <2>5. CASE Receives
    BY <1>1, <1>5, <2>5, AloneReceives
  <2>6. CASE Expires
    BY <1>1, <1>5, <2>6, AloneExpires
  <2>7. QED BY <2>1, <2>2, <2>3, <2>4, <2>5, <2>6 DEF DiscNext
<1>6. CASE Arriving
  <2>1. CASE Reads
    BY <1>1, <1>6, <2>1, ArrivingReads
  <2>2. CASE Escapes
    BY <1>1, <1>6, <2>2, ArrivingEscapes
  <2>3. CASE GivesUp
    BY <1>1, <1>6, <2>3, ArrivingGivesUp
  <2>4. CASE Sends
    BY <1>1, <1>4, <1>6, <2>4, SendsDoes, ArrivingSends
  <2>5. CASE Receives
    BY <1>1, <1>6, <2>5, ArrivingReceives
  <2>6. CASE Expires
    BY <1>1, <1>6, <2>6, ArrivingExpires
  <2>7. QED BY <2>1, <2>2, <2>3, <2>4, <2>5, <2>6 DEF DiscNext
<1>7. QED BY <1>2, <1>3, <1>5, <1>6

\* A device that answers is in step, or its predecessors have shut the channel.
LEMMA AttendsStep ==
  ASSUME DiscTypes, Voices, Attends, DiscNext, Voices', Apart' PROVE Attends'
<1> SUFFICES ASSUME Attended', Clear(host)' PROVE Stage' \/ Lost'
  BY DEF Attends
<1>1. late = 0 /\ late' = 0 /\ kind' = kind /\ host' \in Hosts /\ kind[host'] \in Answering
  BY GoesOnward DEF Onward, Attended, DiscTypes
<1>2. CASE host' = host
  <2>1. Attended /\ Clear(host)
    BY <1>1, <1>2 DEF Attended, Clear
  <2>2. QED BY <1>1, <2>1, StageKept, LostStep DEF Attends
<1>3. CASE host' # host
  <2>1. step' = "telnet" /\ waiting' = FALSE
    <3>1. step' = "telnet" /\ ~(waiting')
      BY <1>3, GoesOnward DEF Onward, Record
    <3>2. waiting' \in BOOLEAN
      BY TypesStep DEF DiscTypes
    <3>3. QED BY <3>1, <3>2
  <2>2. Lost' \/ Arriving'
    BY <1>1, <2>1 DEF Apart, Alone
  <2>3. CASE Arriving'
    <3>1. ~Stale' /\ ~Sent'
      BY <1>1, <2>1, <2>3 DEF Arriving, InTurn, TurnOf, Sent
    <3>2. Underway'
      BY <2>3, <3>1 DEF Arriving, Unanswered, Greets
    <3>3. \A i \in 1..Len(out') : out'[i].by = 0
      BY <3>1, <3>2 DEF Underway, NoHost, Stale, Foreign
    <3>4. PICK n, j \in 0..Len(typed') : Leaves(n, j)' /\ Queued(n)' /\ (AtShell' \/ Held(n, j)')
      BY <3>2 DEF Underway
    <3>5. ~(Held(n, j)')
      <4> SUFFICES ASSUME Held(n, j)' PROVE FALSE
        OBVIOUS
      <4>1. far'.at = host' - 1 /\ far'.at # 0
        BY DEF Held
      <4>2. host' - 1 # host'
        <5>1. \A h \in Hosts : h - 1 # h
          BY Numbered
        <5>2. QED BY <1>1, <5>1
      <4>3. QED BY <3>1, <4>1, <4>2 DEF Stale
    <3>6. AtShell' /\ far'.state = "shell" /\ n = Len(typed')
      BY <3>1, <3>4, <3>5 DEF AtShell, At, Queued
    <3>7. CASE j = 0
      <4>1. Quits(typed)'
        BY <3>4, <3>6, <3>7 DEF Leaves, Quits
      <4>2. ASSUME NEW i \in 1..Len(out') PROVE Rest(out'[i])
        <5>1. Voice(out[i])'
          BY DEF Voices
        <5>2. out'[i].by = 0 => Rest(out'[i])
          BY <5>1 DEF Voice
        <5>3. QED BY <3>3, <5>2
      <4>3. AllRest(out)'
        BY <4>2 DEF AllRest, Rest
      <4>4. Rested'
        BY <3>6, <4>1, <4>3 DEF Rested
      <4>5. QED BY <2>1, <4>4, RestedNext
    <3>8. CASE j # 0
      <4>1. j \in 1..Len(typed') /\ typed'[j].what = "exit" /\ \A i \in 1..j : typed'[i].what # "telnet"
        BY <3>4, <3>6, <3>8 DEF Leaves
      <4>2. QED BY <3>3, <3>6, <4>1 DEF Lost, CutOff
    <3>9. QED BY <3>7, <3>8
  <2>4. QED BY <2>2, <2>3
<1>4. QED BY <1>2, <1>3

-----------------------------------------------------------------------------
(* What is heard and recorded is the device's own, or the shell's.         *)

\* What a show command's receive has taken.
LEMMA OursTaken ==
  ASSUME DiscTypes, Apart, Heard, late <= 1, host \in Hosts, Clear(host), step \in Shown, waiting,
         NEW k, NEW t, NEW r, Takes(k, t, r), out' = r
  PROVE  Ours(t, host)
<1>1. step \notin {"drain", "telnet", "pass", "again", "enable"}
  BY Plain DEF Framing
<1>2. Lost \/ Alone
  BY <1>1 DEF Apart, Arriving, InTurn, Turn
<1>3. \A i \in 1..Len(out) : out[i].by \in {0, host}
  BY <1>2 DEF Lost, CutOff, Over, Alone, HostPart
<1>4. /\ \A i \in 1..Len(t) : \/ i \in 1..Len(buf) /\ t[i] = buf[i]
                              \/ i - Len(buf) \in 1..k /\ t[i] = out[i - Len(buf)]
      /\ \A i \in 1..k : i \in 1..Len(out)
  BY TakesShrinks DEF Shrinks, DiscTypes
<1>5. Ours(buf, host)
  BY DEF Heard
<1>6. QED BY <1>3, <1>4, <1>5 DEF Ours

\* A receive that has returned is kept under the name of its command.
LEMMA OursKept ==
  ASSUME DiscTypes, Heard, Done, late' \in {late, late + 1}, host \in Hosts, NEW text, Returns(text),
         kind' = kind, late' <= 1 /\ step \in Shown /\ Clear(host) => Ours(text, host)
  PROVE  Heard' /\ Done'
<1>0. \A d : Clear(d)' <=> Clear(d)
  BY DEF Clear
<1>1. waiting' = FALSE /\ late \in Nat
  BY ReturnsDoes DEF DiscTypes
<1>2. CASE step = "quit" /\ Record(Entry("ok", got))
  <2>1. /\ step' = "telnet" /\ got' = Nothing /\ results' = [results EXCEPT ![host] = Entry("ok", got)]
        /\ results \in [Hosts -> [status : {"none", "ok", "error"}, shows : Gotten]]
    BY <1>2 DEF Record, DiscTypes
  <2>2. \A s \in Shown : got'[s] = <<>>
    BY <2>1 DEF Nothing
  <2>3. Heard'
    BY <1>1, <2>2 DEF Heard, Ours
  <2>4. ASSUME late' <= 1, NEW d \in Hosts, Recorded(d)', Clear(d), NEW s \in Shown
        PROVE  Ours(results'[d].shows[s], d)
    <3>1. late <= 1
      BY <1>1, <2>4
    <3>2. CASE d = host
      <4>1. results'[d].shows = got
        BY <2>1, <3>2 DEF Entry
      <4>2. QED BY <2>4, <3>1, <3>2, <4>1 DEF Heard
    <3>3. CASE d # host
      <4>1. results'[d] = results[d]
        BY <2>1, <3>3
      <4>2. QED BY <2>4, <3>1, <4>1 DEF Done, Recorded
    <3>4. QED BY <3>2, <3>3
  <2>5. QED BY <1>0, <2>3, <2>4 DEF Done, Ours
<1>3. CASE GoesOn(text)
  <2>1. UNCHANGED <<host, results>> /\ got' = IF step \in Shown THEN [got EXCEPT ![step] = text] ELSE got
    BY <1>3 DEF GoesOn
  <2>2. got \in [Shown -> Seq(PieceSet)]
    BY DEF DiscTypes, Gotten
  <2>3. ASSUME late' <= 1, Clear(host), NEW s \in Shown PROVE Ours(got'[s], host)
    <3>1. late <= 1 /\ Ours(got[s], host)
      BY <1>1, <2>3 DEF Heard
    <3>2. got'[s] = IF s = step THEN text ELSE got[s]
      BY <2>1, <2>2
    <3>3. QED BY <2>3, <3>1, <3>2
  <2>4. Heard'
    BY <1>0, <1>1, <2>1, <2>3 DEF Heard, Ours
  <2>5. late' <= 1 => late <= 1
    BY <1>1
  <2>6. Done'
    BY <1>0, <2>1, <2>5 DEF Done, Recorded, Ours
  <2>7. QED BY <2>4, <2>6
<1>4. QED BY <1>2, <1>3, ReturnsDoes

\* Every step keeps what was heard the device's own.
LEMMA HeardStep ==
  ASSUME DiscTypes, Apart, Heard, Done, DiscNext PROVE Heard' /\ Done'
<1>0. kind' = kind /\ \A d : Clear(d)' <=> Clear(d)
  BY GoesOnward DEF Onward, Clear
<1>1. ASSUME UNCHANGED <<host, step, waiting, buf, got, results, late>> PROVE Heard' /\ Done'
  BY <1>0, <1>1 DEF Heard, Done, Ours, Recorded
<1>2. CASE Reads
  BY <1>1, <1>2 DEF Reads, scriptVars
<1>3. CASE Escapes
  BY <1>1, <1>3 DEF Escapes, scriptVars
<1>4. CASE GivesUp
  BY <1>1, <1>4 DEF GivesUp, scriptVars
<1>5. CASE Sends
  <2>1. CASE SendsLine
    <3>1. buf' = <<>> /\ UNCHANGED <<host, got, results, late>>
      BY <2>1 DEF SendsLine
    <3>2. QED BY <1>0, <3>1 DEF Heard, Done, Ours, Recorded
  <2>2. CASE SendsNone
    <3>1. /\ waiting' = FALSE /\ late' = late /\ got' = Nothing /\ host \in Hosts
          /\ results' = [results EXCEPT ![host] = Entry("error", Nothing)]
          /\ results \in [Hosts -> [status : {"none", "ok", "error"}, shows : Gotten]]
      BY <2>2 DEF SendsNone, Record, DiscTypes
    <3>2. \A s \in Shown : got'[s] = <<>>
      BY <3>1 DEF Nothing
    <3>3. Heard'
      BY <3>1, <3>2 DEF Heard, Ours
    <3>4. \A d \in Hosts : Recorded(d)' => results'[d] = results[d] /\ Recorded(d)
      BY <3>1 DEF Recorded, Entry
    <3>5. Done'
      BY <1>0, <3>1, <3>4 DEF Done, Ours
    <3>6. QED BY <3>3, <3>5
  <2>3. QED BY <1>5, <2>1, <2>2, SendsDoes
<1>6. CASE Receives
  <2>1. /\ waiting /\ UNCHANGED late /\ (host \in Hosts \/ step = "drain")
        /\ step = "drain" => step \notin Shown
    BY <1>6, Plain DEF Receives, DiscTypes, Framing
  <2>2. PICK k, t, r : /\ Takes(k, t, r) /\ out' = r
                       /\ \/ EndsAt(t) /\ Returns(t)
                          \/ ~EndsAt(t) /\ buf' = t /\ UNCHANGED <<host, step, waiting, said, got, results>>
    BY <1>6, ReceivesDoes
  <2>3. late <= 1 /\ host \in Hosts /\ step \in Shown /\ Clear(host) => Ours(t, host)
    BY <2>1, <2>2, OursTaken
  <2>4. CASE ~EndsAt(t)
    <3>1. buf' = t /\ UNCHANGED <<host, step, waiting, got, results, late>>
      BY <2>1, <2>2, <2>4
    <3>2. QED BY <1>0, <2>3, <3>1 DEF Heard, Done, Ours, Recorded
  <2>5. CASE EndsAt(t)
    <3>1. host \in Hosts \/ (step = "drain" /\ host \notin Hosts)
      BY <2>1
    <3>2. CASE host \in Hosts
      BY <1>0, <2>1, <2>2, <2>3, <2>5, <3>2, OursKept
    <3>3. CASE step = "drain" /\ host \notin Hosts
      <4>1. GoesOn(t)
        BY <2>2, <2>5, <3>3, ReturnsDoes
      <4>2. UNCHANGED <<host, results, late>>
        BY <2>1, <4>1 DEF GoesOn
      <4>3. QED BY <1>0, <3>3, <4>2 DEF Heard, Done, Ours, Recorded
    <3>4. QED BY <3>1, <3>2, <3>3
  <2>6. QED BY <2>4, <2>5
<1>7. CASE Expires
  <2>1. /\ waiting /\ Returns(buf) /\ late' \in {late, late + 1} /\ late \in Nat
        /\ (host \in Hosts \/ step = "drain") /\ step # "exit" /\ UNCHANGED kind
    BY <1>7, ExpiresLate DEF Expires, DiscTypes
  <2>2. late' <= 1 /\ host \in Hosts /\ step \in Shown /\ Clear(host) => Ours(buf, host)
    BY <2>1 DEF Heard
  <2>3. CASE host \in Hosts
    BY <2>1, <2>2, <2>3, OursKept
  <2>4. CASE step = "drain" /\ host \notin Hosts
    <3>1. GoesOn(buf)
      BY <2>1, <2>4, ReturnsDoes
    <3>2. UNCHANGED <<host, results>> /\ (late' <= 1 => late <= 1)
      BY <2>1, <3>1 DEF GoesOn
    <3>3. QED BY <1>0, <2>4, <3>2 DEF Heard, Done, Ours, Recorded
  <2>5. QED BY <2>1, <2>3, <2>4
<1>8. QED BY <1>2, <1>3, <1>4, <1>5, <1>6, <1>7 DEF DiscNext

\* The script starts with nothing under way but the first device.
LEMMA ApartInitially == DiscInit => Voices /\ Open /\ Apart /\ Attends /\ Heard /\ Done
<1> SUFFICES ASSUME DiscInit PROVE Voices /\ Open /\ Apart /\ Attends /\ Heard /\ Done
  OBVIOUS
<1>1. /\ step = "drain" /\ waiting /\ typed = <<>> /\ AtShell /\ host = 1 /\ buf = <<>> /\ got = Nothing
      /\ far.at = 0 /\ far.state = "shell" /\ late = 0
      /\ \A d \in Hosts : results[d].status = "none"
  BY DEF DiscInit, AtShell, At, Entry
<1>2. PICK p : p = Piece(0, "login", {"$"}) /\ out = <<p>>
  BY DEF DiscInit
<1>3. p.by = 0 /\ Voice(p)
  BY <1>2, Zenon DEF Piece, Voice, Rest
<1>4. Len(out) = 1 /\ out[1] = p /\ (\A i \in 1..1 : i = 1) /\ Len(typed) = 0 /\ Len(buf) = 0
  BY <1>1, <1>2
<1>5. \A i \in 1..Len(out) : out[i].by = 0 /\ Voice(out[i])
  BY <1>3, <1>4
<1>6. Voices
  BY <1>1, <1>5 DEF Voices, Seat
<1>7. Open
  <2>1. \A x : x \notin Marks(buf)
    BY <1>1 DEF Marks, ToSet
  <2>2. ~EndsAt(buf)
    BY <2>1, Zenon DEF EndsAt
  <2>3. QED BY <1>1, <2>2 DEF Open
<1>8. Apart
  <2>1. InTurn
    BY <1>1, <1>5 DEF InTurn, Turn, Stale, Behind, Foreign
  <2>2. Leaves(0, 0) /\ Queued(0) /\ NoHost
    BY <1>1, <1>4, <1>5 DEF Leaves, Queued, Sent, NoHost
  <2>3. Underway
    BY <1>1, <1>4, <2>2 DEF Underway
  <2>4. QED BY <2>1, <2>3 DEF Apart, Arriving
<1>9. Attends
  <2>1. Attended => InStep
    BY <1>1 DEF Attended, InStep
  <2>2. QED BY <2>1, StageInitially DEF Attends, InStage
<1>10. Heard
  <2>1. \A s \in Shown : got[s] = <<>>
    BY <1>1 DEF Nothing
  <2>2. step \notin Shown
    BY <1>1, Plain DEF Framing
  <2>3. QED BY <2>1, <2>2 DEF Heard, Ours
<1>11. Done
  BY <1>1 DEF Done, Recorded
<1>12. QED BY <1>6, <1>7, <1>8, <1>9, <1>10, <1>11

\* What is inductive with the types.
ApartInv == Voices /\ Open /\ Apart /\ Attends /\ Heard /\ Done

\* The stream stays in one of its three states, and only what is the device's is heard.
LEMMA ApartInvAlways == DiscSpec => []ApartInv
<1>1. DiscInit => ApartInv
  BY ApartInitially DEF ApartInv
<1>2. DiscTypes /\ ApartInv /\ [DiscNext]_discVars => ApartInv'
  <2>1. ASSUME DiscTypes, ApartInv, DiscNext PROVE ApartInv'
    <3>1. Voices' /\ Open' /\ Apart' /\ Heard' /\ Done'
      BY <2>1, VoicesStep, OpenStep, ApartStep, HeardStep DEF ApartInv
    <3>2. QED BY <2>1, <3>1, AttendsStep DEF ApartInv
  <2>2. ASSUME ApartInv, UNCHANGED discVars PROVE ApartInv'
    <3> USE <2>2 DEF discVars, farVars, scriptVars
    <3>1. Voices' = Voices /\ Open' = Open
      BY DEF Voices, Seat, Voice, Rest, Open, EndsAt, Endings
    <3>2. Lost' = Lost /\ Alone' = Alone
      BY DEF Lost, CutOff, Over, Alone, HostPart, NoLine, Exits, Leaves
    <3>3. InTurn' = InTurn
      BY DEF InTurn, Turn, Stale, TurnOf, Behind, Foreign
    <3>4. Underway' = Underway
      BY DEF Underway, NoHost, Leaves, Queued, Sent, AtShell, Held
    <3>5. Unanswered' = Unanswered /\ Greets' = Greets
      BY DEF Unanswered, NoHost, Sent, NoLine, Greets, Login, HostPart
    <3>6. Apart' = Apart
      BY <3>2, <3>3, <3>4, <3>5 DEF Apart, Arriving, Clear
    <3>7. Stage' = Stage
      BY DEF Stage, Asking, Exiting, Rested, AtShell, Quits, AllRest, Dialing, Dials, Greeted,
             Greeting, Asked, Answered, Idle, Before, After, Leaving, Noise, Staying, Earlier, Gone
    <3>8. Attends' = Attends
      BY <3>2, <3>7 DEF Attends, Attended, Clear
    <3>9. Heard' = Heard /\ Done' = Done
      BY DEF Heard, Done, Ours, Recorded, Clear
    <3>10. QED BY <3>1, <3>6, <3>8, <3>9 DEF ApartInv
  <2>3. QED BY <2>1, <2>2
<1>3. QED BY <1>1, <1>2, TypesAlways, PTL DEF DiscSpec

\* No device's output is recorded under another's name, while at most one
\* receive gives up early and no device before shows what looks like the jump
\* host's prompt (the telnet, exit and quit of collect_device_info).
THEOREM NeverMixesUp == DiscSpec => []NoMixUp
<1>1. DiscTypes /\ ApartInv => NoMixUp
  <2> SUFFICES ASSUME DiscTypes, Done PROVE NoMixUp
    BY DEF ApartInv
  <2>1. ASSUME NEW d \in Hosts, late <= 1, Recorded(d), Clear(d), NEW s \in Shown, NEW p \in ToSet(results[d].shows[s])
        PROVE  p.by \in {0, d}
    <3>1. Ours(results[d].shows[s], d)
      BY <2>1 DEF Done
    <3>2. results[d].shows[s] \in Seq(PieceSet)
      BY DEF DiscTypes, Gotten
    <3>3. PICK i \in 1..Len(results[d].shows[s]) : p = results[d].shows[s][i]
      BY <2>1, <3>2 DEF ToSet
    <3>4. QED BY <3>1, <3>3 DEF Ours
  <2>2. QED BY <2>1 DEF NoMixUp, Clear
<1>2. QED BY <1>1, TypesAlways, ApartInvAlways, PTL
=============================================================================
