------------------------------- MODULE Discovery -------------------------------
(***************************************************************************)
(* discover_topology.py: one shell on a jump host, telnet from it to each  *)
(* device in turn, and receives that end at a prompt or at a deadline.     *)
(* What comes back is one stream: nothing in it says which command an      *)
(* answer is for, so an answer that is late, or that looks like a prompt   *)
(* half way, is taken for the answer to the next command.                  *)
(*                                                                         *)
(* The far end (the jump host's shell, telnet, the devices' logins) is     *)
(* external.  kind never changes; late is a history variable.              *)
(***************************************************************************)
EXTENDS Integers, Sequences, SequencesExt

CONSTANTS
  N,        \* how many devices are polled, in order
  Kinds,    \* how devices behave: see Silent, Barred, ... below
  Shows,    \* the show commands whose output is recorded, in order
  MaxLate   \* bound: the far end reads no more once more receives gave up too early

\* "line" asks for a password, "user" for a user name first, "noisy" prints a
\* prompt character in its output, "loud" what the other receives end at too;
\* "refusing" takes no password, "dead" refuses the connection and "silent"
\* leaves telnet connecting.
AllKinds == {"line", "user", "noisy", "loud", "refusing", "dead", "silent"}
Answering == {"line", "user", "noisy"}

\* The steps of collect_device_info around the show commands.
Framing == {"drain", "telnet", "user", "pass", "again", "enable", "secret", "length",
            "exit", "quit"}

\* Each command is sent once, and its output is recorded under a name of its own.
ASSUME DiscoveryAssumption ==
  /\ N \in Nat /\ Kinds \subseteq AllKinds /\ MaxLate \in Nat \ {0}
  /\ Shows \in Seq(STRING) /\ ToSet(Shows) \cap Framing = {}
  /\ \A i, j \in DOMAIN Shows : Shows[i] = Shows[j] => i = j

VARIABLES
  kind,     \* of each device
  far,      \* who reads what is typed: [at, state], at 0 for the jump host
  typed,    \* lines sent and not read yet
  out,      \* pieces of output not received yet
  host,     \* the device the script is at
  step,     \* the line it sends, or whose answer it waits for
  waiting,  \* is it receiving?
  said,     \* the prompts in what the receive before it returned
  buf,      \* what this receive has got
  got,      \* the entry of this device so far
  results,  \* the entries recorded: their status, and the output of each show command
  late      \* receives that gave up too early

farVars    == <<far, typed, out>>
scriptVars == <<host, step, waiting, said, buf, got, results>>
discVars   == <<kind, farVars, scriptVars, late>>

Hosts == 1..N
Shown == ToSet(Shows)
Nothing == [s \in Shown |-> <<>>]
Entry(status, shows) == [status |-> status, shows |-> shows]
Steps == <<"drain", "telnet", "user", "pass", "again", "enable", "secret", "length">>
           \o Shows \o <<"exit", "quit">>
Following(s) == Steps[(CHOOSE i \in DOMAIN Steps : Steps[i] = s) + 1]

\* A piece of output: who wrote it, in answer to what, and the prompts in it.
Piece(by, to, marks) == [by |-> by, to |-> to, marks |-> marks]
Marks(pieces) == UNION {p.marks : p \in ToSet(pieces)}

DiscInit ==
  /\ kind \in [Hosts -> Kinds]
  /\ far = [at |-> 0, state |-> "shell"]
  /\ typed = <<>> /\ out = <<Piece(0, "login", {"$"})>>
  /\ host = 1 /\ step = "drain" /\ waiting = TRUE
  /\ said = {} /\ buf = <<>> /\ got = Nothing
  /\ results = [d \in Hosts |-> Entry("none", Nothing)] /\ late = 0

-----------------------------------------------------------------------------
(* The far end.                                                            *)

At(d, state) == [at |-> d, state |-> state]
Prompt == [shell |-> {"$"}, login |-> {"Username"}, password |-> {"Password"},
           exec |-> {">"}, enable |-> {"Password"}, priv |-> {"#"}]

\* Where a line leads from where it is read.
Leads(l) ==
  LET d == far.at IN
  IF far.state # "shell" /\ l.what = "quit" THEN {At(0, "shell")}
  ELSE CASE far.state = "shell" ->
         IF l.what = "telnet"
           THEN CASE kind[l.host] = "dead"   -> {far}
                  [] kind[l.host] = "silent" -> {At(l.host, "hang")}
                  [] kind[l.host] = "user"   -> {At(l.host, "login")}
                  [] OTHER                   -> {At(l.host, "password")}
         ELSE IF l.what = "exit" THEN {At(0, "closed")} ELSE {far}
    [] far.state = "login" -> {At(d, "password")}
    [] far.state = "password" ->
         IF l.what = "pass" /\ kind[d] # "refusing" THEN {At(d, "exec"), At(d, "priv")}
                                                    ELSE {far, At(0, "shell")}
    [] far.state = "enable" ->
         IF l.what = "secret" THEN {At(d, "priv")} ELSE {far, At(d, "exec")}
    [] far.state \in {"exec", "priv"} ->
         IF l.what = "exit" THEN {At(0, "shell")}
         ELSE IF far.state = "exec" /\ l.what = "enable" THEN {At(d, "enable")} ELSE {far}
    [] OTHER -> {far}

\* What looks like a prompt in what a device shows.
Marked(d) == CASE kind[d] = "noisy" -> {"#"}
               [] kind[d] = "loud"  -> {"#", "# ", "Password"}
               [] OTHER             -> {}

\* A show command has output before the prompt; ^] and quit have telnet's own.
Body(l) ==
  IF l.what \in Shown /\ far.state \in {"exec", "priv"}
    THEN <<Piece(far.at, l.what, Marked(far.at))>>
  ELSE IF l.what = "quit" /\ far.at # 0
    THEN <<Piece(0, "quit", {">", "> "})>> ELSE <<>>

Reads ==
  /\ typed # <<>> /\ far.state \notin {"closed", "hang"} /\ late <= MaxLate
  /\ \E next \in Leads(Head(typed)) :
       /\ far' = next
       /\ out' = out \o Body(Head(typed))
                  \o IF next.state \in DOMAIN Prompt
                       THEN <<Piece(next.at, Head(typed).what, Prompt[next.state])>> ELSE <<>>
  /\ typed' = Tail(typed)
  /\ UNCHANGED <<kind, scriptVars, late>>

\* telnet itself reads ^]: what was typed before is lost with the connection.
Escapes ==
  /\ far.at # 0 /\ far.state # "hang" /\ Len(typed) > 1 /\ Last(typed).what = "quit"
  /\ typed' = <<Last(typed)>>
  /\ UNCHANGED <<kind, far, out, scriptVars, late>>

GivesUp ==
  /\ far.state = "hang" /\ far' = At(0, "shell")
  /\ out' = Append(out, Piece(0, "telnet", {"$"}))
  /\ UNCHANGED <<kind, typed, scriptVars, late>>

-----------------------------------------------------------------------------
(* The script.                                                             *)

Reply == {"#", ">", "$"}   \* what send_cmd waits for
AtHost == {"$", "# ", "> "}   \* and, at the jump host's prompt, main and quit
Ending == [drain |-> AtHost, telnet |-> {"Password", "Username"},
           user |-> {"Password"}, pass |-> {"#", ">", "Password"}, again |-> {"#", ">"},
           enable |-> {"Password", "#"}, secret |-> {"#"}, quit |-> AtHost]
Endings == IF step \in DOMAIN Ending THEN Ending[step] ELSE Reply

\* What collect_device_info does next, given the prompts it has been shown.
Continue(marks) ==
  CASE step \in {"telnet", "user"} ->
         IF step = "telnet" /\ "Username" \in marks THEN "user"
         ELSE IF "Password" \in marks THEN "pass" ELSE "enable"
    [] step = "pass"   -> IF "Password" \in marks THEN "again" ELSE "enable"
    [] step = "enable" -> IF "Password" \in marks THEN "secret" ELSE "length"
    [] OTHER -> Following(step)

\* The next device, whose entry is not begun.
Record(entry) ==
  /\ results' = [results EXCEPT ![host] = entry]
  /\ host' = host + 1 /\ step' = "telnet" /\ got' = Nothing /\ said' = {}

Line == [host |-> host, what |-> IF step = "again" THEN "pass" ELSE step]

Kept == buf     \* mutant: what was received before is kept
Fresh == <<>>   \* recv_until starts from nothing

\* A line is typed; exit is not waited for.  On a closed channel send raises:
\* the device gets an error for its entry.
Sends ==
  /\ ~waiting /\ host \in Hosts
  /\ IF far.state = "closed"
       THEN Record(Entry("error", Nothing)) /\ UNCHANGED <<typed, waiting>>
       ELSE /\ typed' = Append(typed, Line)
            /\ IF step = "exit" THEN step' = "quit" /\ UNCHANGED waiting
                                ELSE waiting' = TRUE /\ UNCHANGED step
            /\ UNCHANGED <<host, got, said, results>>
  /\ buf' = Fresh
  /\ UNCHANGED <<kind, far, out, late>>

\* recv_until returns text.
Returns(text) ==
  /\ waiting' = FALSE /\ buf' = text
  /\ IF step = "quit"
       THEN Record(Entry("ok", got))
       ELSE /\ step' = Continue(Marks(text) \cup IF step = "user" THEN said ELSE {})
            /\ said' = Marks(text)
            /\ got' = IF step \in Shown THEN [got EXCEPT ![step] = text] ELSE got
            /\ UNCHANGED <<host, results>>

EndsAny(text) == text # <<>>   \* mutant: the first piece is the answer
EndsAt(text) == Marks(text) \cap Endings # {}

Receives ==
  /\ waiting
  /\ \E k \in 1..Len(out) :
       LET text == buf \o SubSeq(out, 1, k) IN
       /\ out' = SubSeq(out, k + 1, Len(out))
       /\ IF EndsAt(text)
            THEN Returns(text)
            ELSE buf' = text /\ UNCHANGED <<host, step, waiting, said, got, results>>
  /\ UNCHANGED <<kind, far, typed, late>>

Quiet == out = <<>> /\ (typed = <<>> \/ far.state \in {"closed", "hang"})

ExpiresNever == FALSE /\ UNCHANGED discVars   \* mutant: no deadline
\* The deadline passes, with an answer still to come or without.
Expires ==
  /\ waiting /\ Returns(buf)
  /\ late' = IF Quiet \/ late > MaxLate THEN late ELSE late + 1
  /\ UNCHANGED <<kind, farVars>>

DiscNext == Reads \/ Escapes \/ GivesUp \/ Sends \/ Receives \/ Expires

\* The script runs and its clock does; nothing is asked of the far end.
DiscSpec == DiscInit /\ [][DiscNext]_discVars /\ WF_discVars(Sends) /\ WF_discVars(Expires)

-----------------------------------------------------------------------------

Recorded(d) == results[d].status = "ok"

\* The entry of a device that lets the script in holds, for each command, its
\* own output up to its own prompt, no more and no less, whatever the sizes of
\* the pieces the stream comes in: if no receive gave up early and every device
\* before it answered.
OwnAnswers ==
  \A d \in Hosts :
    /\ late = 0 /\ kind[d] \in {"line", "user"} /\ results[d].status # "none"
    /\ \A e \in 1..(d - 1) : kind[e] \in Answering
    => /\ Recorded(d)
       /\ \A s \in Shown : results[d].shows[s] = <<Piece(d, s, {}), Piece(d, s, {"#"})>>

\* No device's output is recorded under another's name, even when the output
\* looks like a device's prompt, devices refuse or hang, and one receive gives
\* up early: the stream is brought back to the jump host's prompt between two
\* devices, unless the output of a device before looks like that prompt too.
NoMixUp ==
  \A d \in Hosts :
    /\ late <= 1 /\ Recorded(d)
    /\ \A e \in 1..(d - 1) : kind[e] # "loud"
    => \A s \in Shown : \A p \in ToSet(results[d].shows[s]) : p.by \in {0, d}

\* Every device gets its entry, whatever the far end does: it may answer late
\* each time, or never again.
Finishes == <>(\A d \in Hosts : results[d].status # "none")

================================================================================
