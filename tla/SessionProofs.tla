---------------------------- MODULE SessionProofs ----------------------------
(***************************************************************************)
(* What MCSession checks of sessions on an instance, proved for any jobs,  *)
(* cookies and limits: the executor and the host stay in step through the  *)
(* handshake, the reader of messages never loses its place on a link that  *)
(* delivers them whole, crashes on the console are reported, and nothing   *)
(* of a session of the manager is left.  At the end, what is proved of the *)
(* buffer of the console (Console).                                        *)
(***************************************************************************)
EXTENDS Session, Console, SequenceTheorems, TLAPS

Phases ==
    {"start", "ssh", "copy", "launch", "accept", "hello", "request", "reply", "info",
     "inforeply", "triaged", "exec", "check", "wait", "cleanup", "kill", "join", "done"}
Parts == [part : {"size", "body"}, of : Messages]

TypeOK ==
    /\ job \in Jobs
    /\ host \in Phases /\ cookie \in Cookies \cup {None}
    /\ reading \in {"size", "body"} /\ waited \in Nat
    /\ guarded \in BOOLEAN
    /\ vm \in {"off", "up", "gone", "reaped"}
    /\ ssh \in {"none", "running", "exited", "reaped"}
    /\ reader \in {"none", "running", "ended", "joined"}
    /\ panic \in Crashes \cup {None} /\ serial \in Crashes \cup {None}
    /\ toExecutor \in Seq(Messages) /\ toHost \in Seq(Parts)
    /\ sending \in Messages \cup {None}
    /\ garbled \in BOOLEAN /\ faults \in Nat

-----------------------------------------------------------------------------
(* In step: what the executor was sent and what it has heard               *)

Open == Phases \ {"cleanup", "kill", "join", "done"}
Stages == {"off", "hello", "reply", "inforeply", "triaged", "exec", "busy", "idle"}

(* Where a message to the executor has its place among them, ...           *)
Place(kind) ==
    CASE kind = "hello" -> 1 [] kind = "reply" -> 2 [] kind = "inforeply" -> 3
      [] kind = "triaged" -> 4 [] kind = "exec" -> 5 [] OTHER -> 0

(* ... how many of them the executor has taken, ...                        *)
Taken(stage) ==
    CASE stage = "reply" -> 1 [] stage = "inforeply" -> 2 [] stage = "triaged" -> 3
      [] stage = "exec" -> 4 [] stage \in {"busy", "idle"} -> 5 [] OTHER -> 0

(* ... how many the host has sent, and how many it has seen to be taken.   *)
Sent(phase) ==
    CASE phase \in {"request", "reply"} -> 1 [] phase \in {"info", "inforeply"} -> 2
      [] phase = "triaged" -> 3 [] phase = "exec" -> 4 [] phase \in {"check", "wait"} -> 5
      [] OTHER -> 0
Seen(phase) ==
    CASE phase \in {"reply", "info"} -> 1
      [] phase \in {"inforeply", "triaged", "exec", "check", "wait"} -> 2 [] OTHER -> 0

(* The messages under way to the executor are those it waits for.          *)
InStep ==
    /\ executor \in Stages \cup {"gone"}
    /\ executor # "gone" =>
        /\ Taken(executor) + Len(toExecutor) <= 5
        /\ \A i \in 1..Len(toExecutor) : Place(toExecutor[i].kind) = Taken(executor) + i
        /\ host \in Open => /\ Taken(executor) + Len(toExecutor) = Sent(host)
                            /\ Taken(executor) >= Seen(host)

-----------------------------------------------------------------------------
(* What is under way to the host                                           *)

Quiet == toHost = <<>> /\ sending = None

(* Sizes and bodies take turns, and a size without its body is the last.   *)
TakeTurns(parts, rest) ==
    /\ \A i \in 1..Len(parts) - 1 :
        parts[i + 1].part = "body" <=> parts[i].part = "size"
    /\ \A i \in 1..Len(parts) - 1 :
        parts[i].part = "size" => parts[i + 1] = Body(parts[i].of)
    /\ parts # <<>> =>
        rest = IF parts[Len(parts)].part = "size" THEN parts[Len(parts)].of ELSE None

(* A body comes next on the link.                                          *)
BodyIsNext == IF toHost = <<>> THEN sending # None ELSE toHost[1].part = "body"

InTheMiddle ==   \* recv_raw may have given up a message of which the rest is to come
    job.slow \/ (toHost = <<>> /\ executor = "gone")

(* Where the host reads, and what.                                         *)
Link ==
    /\ host \in Open => TakeTurns(toHost, sending)
    /\ host \in Open \ {"request", "info", "check", "wait"} => Quiet /\ reading = "size"
    /\ executor # "gone" =>
        /\ host = "request" /\ Taken(executor) = 0 => Quiet
        /\ host = "info" /\ Taken(executor) = 1 => Quiet
        /\ host \in {"check", "wait"} /\ Taken(executor) < 5 => Quiet
    /\ host \in {"request", "info"} =>
        /\ Len(toHost) \in 0..2 /\ (reading = "body" => Len(toHost) \in 0..1)
        /\ reading = "body" <=> BodyIsNext
    /\ host \in {"check", "wait"} =>
        /\ \A i \in 1..Len(toHost) : toHost[i].of.kind \in {"chatter", "result"}
        /\ sending # None => sending.kind \in {"chatter", "result"}
        /\ reading = "body" => BodyIsNext
        /\ reading = "size" /\ BodyIsNext => InTheMiddle
    /\ ~job.slow => ~garbled

-----------------------------------------------------------------------------
(* What there is to clean up                                               *)

Tidied ==
    /\ host \in {"join", "done"} => vm \in {"off", "reaped"}
    /\ host = "done" => reader \in {"none", "joined"}
    /\ job.keeper = "manager" =>
        /\ ssh = "none" \/ guarded
        /\ host \in {"kill", "join", "done"} => ssh \in {"none", "reaped"}

IInv == TypeOK /\ InStep /\ Link /\ Tidied

-----------------------------------------------------------------------------
(* Lemmas on messages and on the link                                      *)

(* Every message is one of those that have a constructor.                  *)
LEMMA MessageTypes ==
    /\ \A c \in Cookies : ConnectHello(c) \in Messages /\ ConnectRequest(AuthHash(c)) \in Messages
    /\ {ConnectReply, InfoRequest, InfoReply, CorpusTriaged, ExecRequest, Chatter} \subseteq Messages
    /\ \A h \in BOOLEAN, t \in Crashes \cup {None} : ExecResult(h, t) \in Messages
    /\ \A m \in Messages : Size(m) \in Parts /\ Body(m) \in Parts
    /\ \A m \in Messages : m.kind = "hello" => m.cookie \in Cookies
    /\ \A m \in Messages : m.kind = "result" => /\ m.hanged \in BOOLEAN
                                                /\ m.title \in Crashes \cup {None}
  BY DEF Messages, Parts, Size, Body, ConnectHello, ConnectRequest, ConnectReply, InfoRequest,
         InfoReply, CorpusTriaged, ExecRequest, Chatter, ExecResult

(* The size of a new message follows only what has arrived whole.          *)
LEMMA SizeTakesItsTurn ==
    ASSUME NEW q \in Seq(Parts), NEW m \in Messages, TakeTurns(q, None)
    PROVE  /\ Append(q, Size(m)) \in Seq(Parts)
           /\ TakeTurns(Append(q, Size(m)), m)
  <1> DEFINE r == Append(q, Size(m))
  <1>1. Size(m) \in Parts /\ None \notin Messages
    BY MessageTypes, SessionAssumption
  <1>2. /\ r \in Seq(Parts) /\ Len(r) = Len(q) + 1 /\ r[Len(r)] = Size(m)
        /\ \A i \in 1..Len(q) : r[i] = q[i]
    BY <1>1
  <1>3. q # <<>> => q[Len(q)].part = "body"
    <2>1. q # <<>> => q[Len(q)] \in Parts
      OBVIOUS
    <2>2. \A p \in Parts : p.part \in {"size", "body"} /\ p.of \in Messages
      BY DEF Parts
    <2> QED BY <1>1, <2>1, <2>2 DEF TakeTurns
  <1>4. \A i \in 1..Len(r) - 1 : i \in 1..Len(q) /\ (i + 1 \in 1..Len(q) \/ i = Len(q))
    BY <1>2
  <1> HIDE DEF r
  <1>5. /\ Size(m).part = "size" /\ Size(m).of = m /\ r # <<>>
    BY <1>2 DEF Size
  <1>6. TakeTurns(r, m)
    BY <1>2, <1>3, <1>4, <1>5 DEF TakeTurns
  <1> QED BY <1>2, <1>6 DEF r

(* The body of a message follows its size, if that is not read yet.        *)
LEMMA BodyTakesItsTurn ==
    ASSUME NEW q \in Seq(Parts), NEW m \in Messages, TakeTurns(q, m)
    PROVE  /\ Append(q, Body(m)) \in Seq(Parts)
           /\ TakeTurns(Append(q, Body(m)), None)
  <1> DEFINE r == Append(q, Body(m))
  <1>1. Body(m) \in Parts /\ None \notin Messages
    BY MessageTypes, SessionAssumption
  <1>2. /\ r \in Seq(Parts) /\ Len(r) = Len(q) + 1 /\ r[Len(r)] = Body(m)
        /\ \A i \in 1..Len(q) : r[i] = q[i]
    BY <1>1
  <1>3. q # <<>> => q[Len(q)].part = "size" /\ q[Len(q)].of = m
    <2>1. q # <<>> => q[Len(q)] \in Parts
      OBVIOUS
    <2>2. \A p \in Parts : p.part \in {"size", "body"} /\ p.of \in Messages
      BY DEF Parts
    <2> QED BY <1>1, <2>1, <2>2 DEF TakeTurns
  <1>4. \A i \in 1..Len(r) - 1 : i \in 1..Len(q) /\ (i + 1 \in 1..Len(q) \/ i = Len(q))
    BY <1>2
  <1> HIDE DEF r
  <1>5. /\ Body(m).part = "body" /\ r # <<>>
    BY <1>2 DEF Body
  <1>6. TakeTurns(r, None)
    BY <1>2, <1>3, <1>4, <1>5 DEF TakeTurns
  <1> QED BY <1>2, <1>6 DEF r

(* What is left when a part is read: after a size comes its body, here or  *)
(* still to be sent; after a body a size, if anything.                     *)
LEMMA TurnsGoOn ==
    ASSUME NEW q \in Seq(Parts), NEW rest \in Messages \cup {None}, TakeTurns(q, rest), q # <<>>
    PROVE  /\ Tail(q) \in Seq(Parts) /\ Len(Tail(q)) = Len(q) - 1
           /\ q[1] \in Parts
           /\ TakeTurns(Tail(q), rest)
           /\ \A i \in 1..Len(Tail(q)) : Tail(q)[i] = q[i + 1] /\ i + 1 \in 1..Len(q)
           /\ q[1].part = "size" => IF Tail(q) = <<>> THEN rest # None
                                                      ELSE Tail(q)[1].part = "body"
           /\ q[1].part = "body" => IF Tail(q) = <<>> THEN rest = None
                                                      ELSE Tail(q)[1].part = "size"
  <1> DEFINE r == Tail(q)
  <1>1. /\ r \in Seq(Parts) /\ Len(r) = Len(q) - 1 /\ Len(q) \in Nat \ {0}
        /\ \A i \in 1..Len(r) : r[i] = q[i + 1]
        /\ \A i \in 1..Len(q) : q[i] \in Parts
    <2>1. Len(q) \in Nat \ {0} /\ \A i \in 1..Len(q) : q[i] \in Parts
      BY EmptySeq
    <2>2. q # <<>>
      OBVIOUS
    <2> QED BY <2>1, <2>2, HeadTailProperties
  <1> HIDE DEF r
  <1>2. r = <<>> <=> Len(q) = 1
    BY <1>1, EmptySeq
  <1>3. TakeTurns(r, rest)
    <2>1. \A i \in 1..Len(r) - 1 : i + 1 \in 1..Len(q) - 1 /\ i \in 1..Len(r) /\ i + 1 \in 1..Len(r)
      BY <1>1
    <2>2. r # <<>> => r[Len(r)] = q[Len(q)]
      BY <1>1, <1>2
    <2> QED BY <1>1, <2>1, <2>2 DEF TakeTurns
  <1>4. None \notin Messages /\ q[1].of \in Messages /\ q[1].part \in {"size", "body"}
    BY <1>1, SessionAssumption DEF Parts
  <1>5. CASE r = <<>>
    BY <1>1, <1>2, <1>3, <1>4, <1>5 DEF TakeTurns, r
  <1>6. CASE r # <<>>
    <2>1. 1 \in 1..Len(q) - 1 /\ 1 \in 1..Len(r) /\ r[1] = q[2] /\ q[2] \in Parts
      BY <1>1, <1>2, <1>6
    <2>2. q[2].part = "body" <=> q[1].part = "size"
      BY <2>1 DEF TakeTurns
    <2>3. q[2].part \in {"size", "body"}
      BY <2>1 DEF Parts
    <2> QED BY <1>1, <1>3, <1>4, <1>6, <2>1, <2>2, <2>3 DEF r
  <1> QED BY <1>5, <1>6

-----------------------------------------------------------------------------
(* The steps that say the most                                             *)

(* A part is read: the size of a message, the body of one whose size was   *)
(* read, or, on a slow link, the rest of one that was given up.            *)
LEMMA PartRead ==
    ASSUME IInv, ReadPart
    PROVE  /\ host \in {"request", "info", "wait"} /\ toHost # <<>> /\ toHost' = Tail(toHost)
           /\ \/ /\ reading = "size" /\ toHost[1].part = "size"
                 /\ reading' = "body"
                 /\ host' = host /\ waited' = waited /\ garbled' = garbled
              \/ /\ reading = "body" /\ toHost[1].part = "body"
                 /\ reading' = "size" /\ waited' \in {0, waited} /\ garbled' = garbled
                 /\ \/ host = "request" /\ host' \in {"reply", "cleanup"}
                    \/ host = "info" /\ host' = "inforeply"
                    \/ host = "wait" /\ host' = "check"
                    \/ /\ host = "wait" /\ host' = "cleanup"
                       /\ serial # None => outcome'.title # None
              \/ /\ reading = "size"
                 /\ host' = "cleanup" /\ reading' = "size" /\ waited' = 0
                 /\ job.slow /\ garbled' = TRUE
                 /\ job.keeper = "worker" /\ host = "wait" /\ serial # None
                       => outcome'.title # None
  <1> DEFINE p == Head(toHost)
  <1>1. /\ host \in {"request", "info", "wait"} /\ toHost # <<>> /\ toHost' = Tail(toHost)
        /\ toHost \in Seq(Parts) /\ reading \in {"size", "body"} /\ waited \in Nat
    BY DEF ReadPart, Receiving, IInv, TypeOK
  <1>2. p = toHost[1] /\ p \in Parts
    BY <1>1, HeadTailProperties
  <1>3. 1 \in 1..Len(toHost)
    BY <1>1, EmptySeq
  <1>4. p.part \in {"size", "body"}
    BY <1>2 DEF Parts
  <1>5. host = "wait" => p.of.kind \in {"chatter", "result"}
    BY <1>2, <1>3 DEF IInv, Link
  <1> HIDE DEF p
  <1>6. BodyIsNext <=> p.part = "body"
    BY <1>1, <1>2 DEF BodyIsNext
  <1>7. CASE reading = "size" /\ p.part = "size"
    BY <1>1, <1>2, <1>7 DEF ReadPart, p
  <1>8. CASE reading = "body"
    <2>1. p.part = "body"
      BY <1>1, <1>6, <1>8 DEF IInv, Link
    <2>2. Handle(p.of) /\ UNCHANGED garbled
      BY <1>8 DEF ReadPart, p
    <2>3. CASE host = "request"
      BY <1>2, <2>1, <1>1, <1>8, <2>2, <2>3 DEF Handle, Enter, Fail
    <2>4. CASE host = "info"
      BY <1>2, <2>1, <1>1, <1>8, <2>2, <2>4 DEF Handle, Enter, Fail
    <2>5. CASE host = "wait" /\ p.of.kind = "chatter"
      BY <1>2, <2>1, <1>1, <1>8, <2>2, <2>5 DEF Handle
    <2>6. CASE host = "wait" /\ p.of.kind = "result"
      <3>1. Enter("cleanup") /\ outcome' = Observed(FALSE, p.of.hanged, Title(p.of))
        BY <2>2, <2>6 DEF Handle
      <3>2. outcome'.title = Title(p.of)
        BY <3>1 DEF Observed
      <3> QED BY <1>2, <2>1, <1>1, <1>8, <2>2, <2>6, <3>1, <3>2 DEF Enter, Title
    <2> QED BY <1>1, <1>5, <2>3, <2>4, <2>5, <2>6
  <1>9. CASE reading = "size" /\ p.part = "body"
    <2>1. Enter("cleanup") /\ outcome' = Unread /\ garbled' = TRUE
      BY <1>9 DEF ReadPart, p
    <2>2. job.slow
      BY <1>1, <1>6, <1>9 DEF IInv, Link, InTheMiddle
    <2>3. job.keeper = "worker" /\ host = "wait" /\ serial # None => outcome'.title = serial
      BY <2>1 DEF Unread, Broken, Observed
    <2> QED BY <1>1, <1>9, <2>1, <2>2, <2>3 DEF Enter
  <1> QED BY <1>1, <1>4, <1>7, <1>8, <1>9

(* The executor hears what it waits for, and answers the first two.        *)
LEMMA Heard ==
    ASSUME IInv, Listen
    PROVE  /\ executor \in Stages \ {"off", "busy", "idle"} /\ executor' \in Stages
           /\ Taken(executor') = Taken(executor) + 1
           /\ toExecutor # <<>> /\ toExecutor' = Tail(toExecutor)
           /\ \/ executor = "hello" /\ \E c \in Cookies : Sends(ConnectRequest(AuthHash(c)))
              \/ executor = "reply" /\ Sends(InfoRequest)
              \/ executor \notin {"hello", "reply"} /\ UNCHANGED <<toHost, sending>>
  <1> DEFINE m == Head(toExecutor)
  <1>1. /\ executor \in {"hello", "reply", "inforeply", "triaged", "exec"}
        /\ toExecutor # <<>> /\ toExecutor' = Tail(toExecutor)
    BY DEF Listen, After
  <1>2. m \in Messages /\ m = toExecutor[1] /\ 1 \in 1..Len(toExecutor)
    BY <1>1, HeadTailProperties, EmptySeq DEF IInv, TypeOK
  <1>3. Place(m.kind) = Taken(executor) + 1
    BY <1>1, <1>2 DEF IInv, InStep
  <1>4. m.kind = executor
    BY <1>1, <1>3 DEF Place, Taken
  <1>5. executor' = After[executor]
    BY <1>4 DEF Listen
  <1>6. executor' \in Stages /\ Taken(executor') = Taken(executor) + 1
    BY <1>1, <1>5 DEF After, Taken, Stages
  <1>7. CASE m.kind = "hello"
    BY <1>1, <1>2, <1>4, <1>6, <1>7, MessageTypes DEF Listen, Stages
  <1>8. CASE m.kind = "reply"
    BY <1>1, <1>4, <1>6, <1>8 DEF Listen, Stages
  <1>9. CASE m.kind \notin {"hello", "reply"}
    BY <1>1, <1>4, <1>6, <1>9 DEF Listen, Stages
  <1> QED BY <1>7, <1>8, <1>9

-----------------------------------------------------------------------------
(* The invariant is kept, part by part                                     *)

LEMMA InitIInv == Init => IInv
  <1> SUFFICES ASSUME Init PROVE IInv
    OBVIOUS
  <1>1. TypeOK
    BY SessionAssumption, EmptySeq DEF Init, TypeOK, Phases
  <1>2. InStep /\ Link /\ Tidied
    BY EmptySeq DEF Init, InStep, Link, Tidied, TakeTurns, Quiet, BodyIsNext, Taken, Sent, Seen,
                    Stages
  <1> QED BY <1>1, <1>2 DEF IInv

LEMMA TypeOKNext == ASSUME IInv, [Next]_vars PROVE TypeOK'
  <1> USE DEF IInv
  <1> SUFFICES ASSUME TypeOK PROVE TypeOK'
    OBVIOUS
  <1>1. CASE StartVm
    BY <1>1 DEF TypeOK, Phases, StartVm, Enter, Fail, Fault, wait, processes, guest, link
  <1>2. CASE SshReady
    BY <1>2 DEF TypeOK, Phases, SshReady, Enter, wait, processes, guest, link
  <1>3. CASE SshGivesUp
    BY <1>3 DEF TypeOK, Phases, SshGivesUp, Enter, Fail, wait, processes, guest, link
  <1>4. CASE Copy
    BY <1>4 DEF TypeOK, Phases, Copy, Enter, Fail, Fault, wait, processes, guest, link
  <1>5. CASE Launch
    BY <1>5 DEF TypeOK, Phases, Launch, Enter, GuardedAtOnce, wait, processes, guest, link
  <1>6. CASE Accept
    BY <1>6 DEF TypeOK, Phases, Accept, Enter, wait, processes, guest, link
  <1>7. CASE AcceptGivesUp
    BY <1>7 DEF TypeOK, Phases, AcceptGivesUp, Enter, Fail, wait, processes, guest, link
  <1>8. CASE SendHello
    BY <1>8, MessageTypes DEF TypeOK, Phases, SendHello, Send, Enter, processes, guest
  <1>9. CASE SendReply
    BY <1>9, MessageTypes DEF TypeOK, Phases, SendReply, Send, Enter, processes, guest
  <1>10. CASE SendInfoReply
    BY <1>10, MessageTypes DEF TypeOK, Phases, SendInfoReply, Send, Enter, processes, guest
  <1>11. CASE SendTriaged
    BY <1>11, MessageTypes DEF TypeOK, Phases, SendTriaged, Send, Enter, processes, guest
  <1>12. CASE SendExec
    BY <1>12, MessageTypes DEF TypeOK, Phases, SendExec, Send, Enter, processes, guest
  <1>13. CASE Check
    BY <1>13 DEF TypeOK, Phases, Check, Enter, Observed, wait, processes, guest, link
  <1>14. CASE ReadTimesOut
    BY <1>14, SessionAssumption DEF TypeOK, Phases, ReadTimesOut, Enter, Fail, Least, wait, processes, guest, link
  <1>15. CASE ReadFails
    BY <1>15 DEF TypeOK, Phases, ReadFails, Enter, wait, processes, guest, link
  <1>16. CASE EndSsh
    BY <1>16 DEF TypeOK, Phases, EndSsh, wait, processes, guest, link
  <1>17. CASE KillVm
    BY <1>17 DEF TypeOK, Phases, KillVm, wait, processes, guest, link
  <1>18. CASE JoinReader
    BY <1>18 DEF TypeOK, Phases, JoinReader, wait, processes, guest, link
  <1>19. CASE Tick
    BY <1>19, SessionAssumption DEF TypeOK, Phases, Tick, Least, wait, processes, guest, link
  <1>20. CASE Connect
    BY <1>20 DEF TypeOK, Phases, Connect, wait, processes, guest, link
  <1>21. CASE Panic
    BY <1>21 DEF TypeOK, Phases, Panic, Gone, Fault, wait, processes, guest, link
  <1>22. CASE ExecutorDies
    BY <1>22 DEF TypeOK, Phases, ExecutorDies, Fault, wait, processes, guest, link
  <1>23. CASE VmExits
    BY <1>23 DEF TypeOK, Phases, VmExits, Gone, Fault, wait, processes, guest, link
  <1>24. CASE SshExits
    BY <1>24 DEF TypeOK, Phases, SshExits, wait, processes, guest, link
  <1>25. CASE ReadConsole
    BY <1>25 DEF TypeOK, Phases, ReadConsole, wait, processes, guest, link
  <1>26. CASE ReaderEnds
    BY <1>26 DEF TypeOK, Phases, ReaderEnds, wait, processes, guest, link
  <1>27. CASE ReadPart
    <2>1. toHost' \in Seq(Parts)
      BY <1>27, PartRead, HeadTailProperties DEF TypeOK
    <2>2. UNCHANGED <<cookie, guarded, processes, guest, toExecutor, sending, faults, job>>
      BY <1>27 DEF ReadPart
    <2>3. /\ host' \in {host, "reply", "inforeply", "check", "cleanup"}
          /\ reading' \in {"size", "body"} /\ waited' \in {0, waited}
      BY <1>27, PartRead
    <2>4. garbled' = TRUE \/ garbled' = garbled
      BY <1>27, PartRead
    <2>5. host' \in Phases /\ waited' \in Nat
      BY <2>3 DEF TypeOK, Phases
    <2>6. garbled' \in BOOLEAN
      BY <2>4 DEF TypeOK
    <2> QED BY <2>1, <2>2, <2>3, <2>5, <2>6 DEF TypeOK, processes, guest
  <1>28. CASE Listen
    <2>1. toExecutor' \in Seq(Messages)
      BY <1>28, Heard, HeadTailProperties DEF TypeOK
    <2>2. \A m \in Messages : Sends(m) => toHost' \in Seq(Parts) /\ sending' \in Messages
      BY MessageTypes DEF TypeOK, Sends
    <2>3. toHost' \in Seq(Parts) /\ sending' \in Messages \cup {None}
      BY <1>28, <2>2, Heard, MessageTypes DEF TypeOK
    <2>4. UNCHANGED <<wait, cookie, guarded, processes, panic, serial, garbled, faults, job>>
      BY <1>28 DEF Listen
    <2> QED BY <2>1, <2>3, <2>4 DEF TypeOK, wait, processes
  <1>29. CASE Report
    <2>1. toHost' \in Seq(Parts) /\ sending' \in Messages \cup {None}
      BY <1>29, MessageTypes DEF TypeOK, Report, Sends
    <2> QED BY <1>29, <2>1 DEF TypeOK, Report, wait, processes, guest
  <1>30. CASE Answer
    <2>1. toHost' \in Seq(Parts) /\ sending' \in Messages \cup {None}
      BY <1>30, MessageTypes DEF TypeOK, Answer, Sends
    <2> QED BY <1>30, <2>1 DEF TypeOK, Answer, wait, processes, guest
  <1>31. CASE Deliver
    <2>1. toHost' \in Seq(Parts)
      BY <1>31, MessageTypes DEF TypeOK, Deliver
    <2> QED BY <1>31, <2>1 DEF TypeOK, Deliver, wait, processes, guest
  <1>32. CASE SendFails
    BY <1>32 DEF TypeOK, Phases, SendFails, Enter, Fail, Fault, wait, processes, guest, link
  <1>33. CASE UNCHANGED vars
    BY <1>33 DEF TypeOK, vars, wait, processes, guest, link
  <1> QED BY <1>1, <1>2, <1>3, <1>4, <1>5, <1>6, <1>7, <1>8, <1>9, <1>10, <1>11, <1>12, <1>13, <1>14, <1>15, <1>16, <1>17, <1>18, <1>19, <1>20, <1>21, <1>22, <1>23, <1>24, <1>25, <1>26, <1>27, <1>28, <1>29, <1>30, <1>31, <1>32, <1>33 DEF Next, HostStep

(* The host goes on without a message, or is done with the executor.       *)
LEMMA InStepAsBefore ==
    ASSUME InStep, UNCHANGED <<executor, toExecutor>>,
           host' \in Open => host \in Open /\ Sent(host') = Sent(host) /\ Seen(host') = Seen(host)
    PROVE  InStep'
  BY DEF InStep

(* The host sends the next message.                                        *)
LEMMA InStepSending ==
    ASSUME IInv, NEW m \in Messages, Send(m), host \in Open,
           Place(m.kind) = Sent(host) + 1, Sent(host) + 1 <= 5,
           Sent(host') = Sent(host) + 1, Seen(host') <= Seen(host)
    PROVE  InStep'
  <1>1. CASE executor = "gone"
    BY <1>1 DEF Send, guest, InStep, IInv
  <1>2. CASE executor # "gone"
    <2>1. /\ toExecutor \in Seq(Messages) /\ executor' = executor
          /\ toExecutor' = Append(toExecutor, m)
      BY <1>2 DEF Send, guest, IInv, TypeOK
    <2>2. /\ Len(toExecutor) \in Nat /\ Len(toExecutor') = Len(toExecutor) + 1
          /\ \A i \in 1..Len(toExecutor) : toExecutor'[i] = toExecutor[i]
          /\ toExecutor'[Len(toExecutor')] = m
      BY <2>1
    <2>3. /\ executor \in Stages
          /\ Taken(executor) + Len(toExecutor) = Sent(host) /\ Taken(executor) >= Seen(host)
          /\ \A i \in 1..Len(toExecutor) : Place(toExecutor[i].kind) = Taken(executor) + i
      BY <1>2 DEF IInv, InStep
    <2>4. Taken(executor) \in 0..5 /\ Sent(host) \in 0..5 /\ Seen(host) \in 0..2 /\ Seen(host') \in 0..2
      BY DEF Taken, Sent, Seen
    <2>5. Taken(executor) + Len(toExecutor') <= 5
      BY <2>2, <2>3, <2>4
    <2>6. \A i \in 1..Len(toExecutor') : Place(toExecutor'[i].kind) = Taken(executor) + i
      <3> TAKE i \in 1..Len(toExecutor')
      <3>1. CASE i \in 1..Len(toExecutor)
        BY <2>2, <2>3, <3>1
      <3>2. CASE i = Len(toExecutor')
        BY <2>2, <2>3, <2>4, <3>2
      <3> QED BY <2>2, <3>1, <3>2
    <2>7. Taken(executor) + Len(toExecutor') = Sent(host') /\ Taken(executor) >= Seen(host')
      BY <2>2, <2>3, <2>4
    <2> QED BY <2>1, <2>3, <2>5, <2>6, <2>7 DEF InStep
  <1> QED BY <1>1, <1>2

LEMMA InStepNext == ASSUME IInv, [Next]_vars PROVE InStep'
  <1> USE DEF Sent, Seen, Open, Phases
  <1>1. CASE StartVm \/ SshReady \/ SshGivesUp \/ Copy \/ Launch \/ Accept \/ AcceptGivesUp
    BY <1>1, InStepAsBefore DEF IInv, StartVm, SshReady, SshGivesUp, Copy, Launch, Accept,
                                AcceptGivesUp, Enter, Fail, guest, link
  <1>2. CASE SendFails \/ Check \/ ReadTimesOut \/ ReadFails
    BY <1>2, InStepAsBefore DEF IInv, SendFails, Check, ReadTimesOut, ReadFails, Receiving, Enter,
                                Fail, guest, link
  <1>3. CASE EndSsh \/ KillVm \/ JoinReader
    BY <1>3, InStepAsBefore DEF IInv, EndSsh, KillVm, JoinReader, guest, link
  <1>4. CASE Tick \/ SshExits \/ ReadConsole \/ ReaderEnds
    BY <1>4, InStepAsBefore DEF IInv, Tick, SshExits, ReadConsole, ReaderEnds, wait, guest, link
  <1>5. CASE SendHello
    <2>1. PICK c \in Cookies : Send(ConnectHello(c))
      BY <1>5 DEF SendHello
    <2>2. ConnectHello(c) \in Messages /\ ConnectHello(c).kind = "hello"
      BY MessageTypes DEF ConnectHello
    <2>3. host = "hello" /\ host' = "request"
      BY <1>5 DEF SendHello, Enter
    <2> QED BY <2>1, <2>2, <2>3, InStepSending DEF Place
  <1>6. CASE SendReply
    <2>1. ConnectReply \in Messages /\ ConnectReply.kind = "reply"
      BY MessageTypes DEF ConnectReply
    <2>2. host = "reply" /\ host' = "info" /\ Send(ConnectReply)
      BY <1>6 DEF SendReply, Enter
    <2> QED BY <2>1, <2>2, InStepSending DEF Place
  <1>7. CASE SendInfoReply
    <2>1. InfoReply \in Messages /\ InfoReply.kind = "inforeply"
      BY MessageTypes DEF InfoReply
    <2>2. host = "inforeply" /\ host' = "triaged" /\ Send(InfoReply)
      BY <1>7 DEF SendInfoReply, Enter
    <2> QED BY <2>1, <2>2, InStepSending DEF Place
  <1>8. CASE SendTriaged
    <2>1. CorpusTriaged \in Messages /\ CorpusTriaged.kind = "triaged"
      BY MessageTypes DEF CorpusTriaged
    <2>2. host = "triaged" /\ host' = "exec" /\ Send(CorpusTriaged)
      BY <1>8 DEF SendTriaged, Enter
    <2> QED BY <2>1, <2>2, InStepSending DEF Place
  <1>9. CASE SendExec
    <2>1. ExecRequest \in Messages /\ ExecRequest.kind = "exec"
      BY MessageTypes DEF ExecRequest
    <2>2. host = "exec" /\ host' = "check" /\ Send(ExecRequest)
      BY <1>9 DEF SendExec, Enter
    <2> QED BY <2>1, <2>2, InStepSending DEF Place
  <1>10. CASE ReadPart
    <2>1. UNCHANGED <<executor, toExecutor>>
      BY <1>10 DEF ReadPart, guest
    <2>2. CASE host' \in {host, "cleanup"} \/ (host = "wait" /\ host' = "check")
      BY <2>1, <2>2, InStepAsBefore DEF IInv, TypeOK
    <2>3. CASE host = "request" /\ host' = "reply"
      <3>1. executor # "gone" => Taken(executor) # 0
        BY <1>10, <2>3, PartRead DEF IInv, Link, Quiet
      <3>2. Taken(executor) \in Nat
        BY DEF Taken
      <3> QED BY <2>1, <2>3, <3>1, <3>2 DEF IInv, InStep
    <2>4. CASE host = "info" /\ host' = "inforeply"
      <3>1. executor # "gone" => Taken(executor) # 1
        BY <1>10, <2>4, PartRead DEF IInv, Link, Quiet
      <3>2. Taken(executor) \in Nat
        BY DEF Taken
      <3> QED BY <2>1, <2>4, <3>1, <3>2 DEF IInv, InStep
    <2> QED BY <1>10, <2>2, <2>3, <2>4, PartRead
  <1>11. CASE Connect
    BY <1>11 DEF Connect, IInv, InStep, Taken, Stages, wait, link
  <1>12. CASE Listen
    <2>1. /\ toExecutor \in Seq(Messages) /\ toExecutor # <<>> /\ toExecutor' = Tail(toExecutor)
          /\ executor \in Stages /\ executor' \in Stages /\ Taken(executor') = Taken(executor) + 1
      BY <1>12, Heard DEF IInv, TypeOK
    <2>2. /\ Len(toExecutor) \in Nat \ {0} /\ Len(toExecutor') = Len(toExecutor) - 1
          /\ \A i \in 1..Len(toExecutor') : toExecutor'[i] = toExecutor[i + 1] /\ i + 1 \in 1..Len(toExecutor)
      BY <2>1, EmptySeq, HeadTailProperties
    <2>3. "gone" \notin Stages /\ Taken(executor) \in Nat
      BY DEF Stages, Taken
    <2>4. host' = host
      BY <1>12 DEF Listen, wait
    <2>5. \A i \in 1..Len(toExecutor') : Place(toExecutor'[i].kind) = Taken(executor') + i
      BY <2>1, <2>2, <2>3 DEF IInv, InStep
    <2>6. Taken(executor') + Len(toExecutor') = Taken(executor) + Len(toExecutor)
      BY <2>1, <2>2, <2>3
    <2> HIDE DEF Open, Sent, Seen
    <2>7. Seen(host) \in Nat
      BY DEF Seen
    <2> QED BY <2>1, <2>2, <2>3, <2>4, <2>5, <2>6, <2>7 DEF IInv, InStep
  <1>13. CASE Report
    BY <1>13, InStepAsBefore DEF IInv, Report, guest, wait
  <1>14. CASE Answer
    BY <1>14 DEF IInv, Answer, InStep, Taken, Stages, wait
  <1>15. CASE Deliver
    BY <1>15, InStepAsBefore DEF IInv, Deliver, guest, wait
  <1>16. CASE Panic \/ ExecutorDies \/ VmExits
    <2>1. host' = host /\ toExecutor' = toExecutor /\ executor' \in {"gone", executor}
      BY <1>16 DEF Panic, ExecutorDies, VmExits, Gone, wait, link
    <2> QED BY <2>1 DEF IInv, InStep
  <1>17. CASE UNCHANGED vars
    BY <1>17, InStepAsBefore DEF IInv, vars, wait, guest, link
  <1> QED BY <1>1, <1>2, <1>3, <1>4, <1>5, <1>6, <1>7, <1>8, <1>9, <1>10, <1>11, <1>12, <1>13,
             <1>14, <1>15, <1>16, <1>17 DEF Next, HostStep

(* The host is done with the link.                                         *)
LEMMA LinkGivenUp ==
    ASSUME host' \notin Open, ~job'.slow => ~garbled'
    PROVE  Link'
  BY DEF Link, Open, Phases

(* Nothing is under way.                                                   *)
LEMMA LinkQuiet ==
    ASSUME Quiet', reading' = "size", ~job'.slow => ~garbled'
    PROVE  Link'
  BY EmptySeq DEF Link, Quiet, TakeTurns, BodyIsNext

(* The executor sends the size of a message when it is its turn to.        *)
LEMMA LinkSends ==
    ASSUME IInv, NEW m \in Messages, Sends(m), UNCHANGED <<wait, garbled, job>>,
           executor' \in Stages,
           host \in Open => \/ host = "request" /\ Quiet /\ Taken(executor') = 1
                            \/ host = "info" /\ Quiet /\ Taken(executor') = 2
                            \/ /\ host \in {"check", "wait"} /\ m.kind \in {"chatter", "result"}
                               /\ Taken(executor') = 5
    PROVE  Link'
  <1>1. CASE host \notin Open
    BY <1>1, LinkGivenUp DEF wait, IInv, Link
  <1>2. CASE host \in Open
    <2>1. /\ toHost \in Seq(Parts) /\ sending = None /\ sending' = m
          /\ toHost' = Append(toHost, Size(m)) /\ TakeTurns(toHost, None)
          /\ host' = host /\ reading' = reading /\ job' = job /\ garbled' = garbled
      BY <1>2 DEF Sends, IInv, TypeOK, Link, wait
    <2>2. TakeTurns(toHost', sending')
      BY <2>1, SizeTakesItsTurn
    <2>3. Size(m) \in Parts /\ Size(m).part = "size" /\ Size(m).of = m /\ m # None
      BY MessageTypes, SessionAssumption DEF Size
    <2>4. /\ Len(toHost') = Len(toHost) + 1 /\ toHost' # <<>> /\ Len(toHost) \in Nat
          /\ \A i \in 1..Len(toHost) : toHost'[i] = toHost[i]
          /\ toHost'[Len(toHost')] = Size(m)
      BY <2>1, <2>3
    <2>5. BodyIsNext' <=> BodyIsNext
      <3>1. CASE toHost = <<>>
        BY <2>1, <2>3, <2>4, <3>1, EmptySeq DEF BodyIsNext
      <3>2. CASE toHost # <<>>
        <4>1. 1 \in 1..Len(toHost)
          BY <2>1, <3>2, EmptySeq
        <4> QED BY <2>4, <3>2, <4>1 DEF BodyIsNext
      <3> QED BY <3>1, <3>2
    <2>6. "gone" \notin Stages
      BY DEF Stages
    <2>7. CASE host \in {"request", "info"}
      <3>1. toHost = <<>> /\ Len(toHost') = 1 /\ ~BodyIsNext /\ Taken(executor') \in {1, 2}
        BY <1>2, <2>1, <2>4, <2>7, EmptySeq DEF Quiet, BodyIsNext
      <3> QED BY <1>2, <2>1, <2>2, <2>5, <2>6, <2>7, <3>1 DEF IInv, Link
    <2>8. CASE host \in {"check", "wait"}
      <3>1. m.kind \in {"chatter", "result"} /\ Taken(executor') = 5
        BY <1>2, <2>8
      <3>2. \A i \in 1..Len(toHost') : toHost'[i].of.kind \in {"chatter", "result"}
        <4> TAKE i \in 1..Len(toHost')
        <4>1. CASE i \in 1..Len(toHost)
          BY <2>4, <2>8, <4>1 DEF IInv, Link
        <4>2. CASE i = Len(toHost')
          BY <2>3, <2>4, <3>1, <4>2
        <4> QED BY <2>4, <4>1, <4>2
      <3>3. reading = "size" /\ BodyIsNext => job.slow
        BY <2>1, <2>8 DEF IInv, Link, InTheMiddle, BodyIsNext
      <3> QED BY <2>1, <2>2, <2>5, <2>8, <3>1, <3>2, <3>3 DEF IInv, Link, InTheMiddle
    <2> QED BY <1>2, <2>7, <2>8
  <1> QED BY <1>1, <1>2

LEMMA LinkNext == ASSUME IInv, [Next]_vars PROVE Link'
  <1> USE DEF Open, Phases
  <1>1. CASE StartVm \/ SshReady \/ SshGivesUp \/ Copy \/ Launch \/ Accept \/ AcceptGivesUp
    <2>1. Quiet /\ UNCHANGED <<toHost, sending, garbled, job>> /\ reading' = "size"
      BY <1>1 DEF IInv, Link, StartVm, SshReady, SshGivesUp, Copy, Launch, Accept, AcceptGivesUp,
                  Enter, Fail, link
    <2> QED BY <2>1, LinkQuiet DEF IInv, Link, Quiet
  <1>2. CASE SendHello \/ SendReply \/ SendInfoReply \/ SendTriaged \/ SendExec
    <2>1. Quiet /\ UNCHANGED <<toHost, sending, garbled, job>> /\ reading' = "size"
      BY <1>2 DEF IInv, Link, SendHello, SendReply, SendInfoReply, SendTriaged, SendExec, Enter, Send
    <2> QED BY <2>1, LinkQuiet DEF IInv, Link, Quiet
  <1>3. CASE Check
    <2>1. /\ host = "check" /\ UNCHANGED <<toHost, sending, executor, garbled, job>>
          /\ host' = "cleanup" \/ (host' = "wait" /\ reading' = reading)
      BY <1>3 DEF Check, Enter, link, guest
    <2> QED BY <2>1, LinkGivenUp DEF IInv, Link, TakeTurns, Quiet, BodyIsNext, InTheMiddle
  <1>4. CASE ReadPart
    <2>1. UNCHANGED <<executor, sending, job>>
      BY <1>4 DEF ReadPart, guest
    <2>2. /\ toHost \in Seq(Parts) /\ sending \in Messages \cup {None} /\ TakeTurns(toHost, sending)
          /\ toHost # <<>> /\ host \in {"request", "info", "wait"} /\ toHost' = Tail(toHost)
      BY <1>4, PartRead DEF IInv, TypeOK, Link
    <2>3. TakeTurns(toHost', sending')
      BY <2>1, <2>2, TurnsGoOn
    <2>4. /\ Len(toHost') = Len(toHost) - 1 /\ Len(toHost) \in Nat \ {0} /\ toHost' \in Seq(Parts)
          /\ \A i \in 1..Len(toHost') : toHost'[i] = toHost[i + 1] /\ i + 1 \in 1..Len(toHost)
      BY <2>2, TurnsGoOn, EmptySeq
    <2>5. /\ toHost[1].part = "size" => BodyIsNext'
          /\ toHost[1].part = "body" => ~BodyIsNext'
      BY <2>1, <2>2, TurnsGoOn DEF BodyIsNext
    <2>6. ~Quiet
      BY <2>2 DEF Quiet
    <2>7. host = "wait" => \A i \in 1..Len(toHost') : toHost'[i].of.kind \in {"chatter", "result"}
      BY <2>4 DEF IInv, Link
    <2>8. CASE /\ reading = "size" /\ toHost[1].part = "size" /\ reading' = "body"
               /\ host' = host /\ garbled' = garbled
      <3>1. host \in {"request", "info"} => Len(toHost') \in 0..1
        BY <2>4, <2>8 DEF IInv, Link
      <3> QED BY <2>1, <2>2, <2>3, <2>5, <2>6, <2>7, <2>8, <3>1 DEF IInv, Link
    <2>9. CASE /\ reading = "body" /\ toHost[1].part = "body" /\ reading' = "size"
               /\ garbled' = garbled
      <3>1. CASE host' = "cleanup"
        BY <2>1, <2>9, <3>1, LinkGivenUp DEF IInv, Link
      <3>2. CASE host' \in {"reply", "inforeply"}
        <4>1. host \in {"request", "info"}
          BY <1>4, <3>2, <2>2, PartRead
        <4>2. Len(toHost') = 0
          BY <2>4, <2>9, <4>1 DEF IInv, Link
        <4>3. toHost' = <<>>
          BY <2>4, <4>2, EmptySeq
        <4> QED BY <2>1, <2>5, <2>9, <4>3, LinkQuiet DEF IInv, Link, Quiet, BodyIsNext
      <3>3. CASE host = "wait" /\ host' = "check"
        BY <2>1, <2>3, <2>5, <2>6, <2>7, <2>9, <3>3 DEF IInv, Link
      <3> QED BY <1>4, <2>9, <3>1, <3>2, <3>3, PartRead
    <2>10. CASE host' = "cleanup" /\ job.slow
      BY <2>1, <2>10, LinkGivenUp
    <2> QED BY <1>4, <2>8, <2>9, <2>10, PartRead
  <1>5. CASE ReadTimesOut
    <2>1. /\ UNCHANGED <<toHost, sending, executor, garbled, job>> /\ toHost = <<>>
          /\ sending = None \/ job.slow \/ executor = "gone"
          /\ host' = "cleanup" \/ (host = "wait" /\ host' = "check" /\ reading' = "size")
      BY <1>5 DEF ReadTimesOut, Enter, Fail, link, guest
    <2> QED BY <2>1, LinkGivenUp DEF IInv, Link, TakeTurns, Quiet, BodyIsNext, InTheMiddle
  <1>6. CASE SendFails \/ ReadFails \/ EndSsh \/ KillVm \/ JoinReader
    <2>1. host' \in {"cleanup", "kill", "join", "done"} /\ UNCHANGED <<garbled, job>>
      BY <1>6 DEF SendFails, ReadFails, EndSsh, KillVm, JoinReader, Enter, Fail
    <2> QED BY <2>1, LinkGivenUp DEF IInv, Link
  <1>7. CASE \/ Tick \/ SshExits \/ ReadConsole \/ ReaderEnds \/ Panic \/ ExecutorDies \/ VmExits
             \/ UNCHANGED vars
    <2>1. /\ UNCHANGED <<host, reading, toHost, sending, garbled, job>>
          /\ executor' \in {executor, "gone"}
      BY <1>7 DEF Tick, SshExits, ReadConsole, ReaderEnds, Panic, ExecutorDies, VmExits, Gone,
                  vars, wait, guest, link
    <2> QED BY <2>1 DEF IInv, Link, TakeTurns, Quiet, BodyIsNext, InTheMiddle
  <1>8. CASE Connect
    <2>1. Quiet /\ UNCHANGED <<toHost, sending, garbled, job, reading>> /\ reading = "size"
      BY <1>8 DEF Connect, IInv, Link, wait, link
    <2> QED BY <2>1, LinkQuiet DEF IInv, Link, Quiet
  <1>9. CASE Listen
    <2>1. UNCHANGED <<wait, garbled, job>>
      BY <1>9 DEF Listen
    <2>2. /\ executor \in Stages /\ executor' \in Stages /\ "gone" \notin Stages
          /\ Taken(executor') = Taken(executor) + 1 /\ Len(toExecutor) \in Nat \ {0}
      BY <1>9, Heard, EmptySeq DEF IInv, TypeOK, Stages
    <2>3. host \in Open => /\ Taken(executor) + Len(toExecutor) = Sent(host)
                           /\ Taken(executor) >= Seen(host)
      BY <2>2 DEF IInv, InStep
    <2>4. CASE executor = "hello" /\ \E c \in Cookies : Sends(ConnectRequest(AuthHash(c)))
      <3>1. Taken(executor) = 0
        BY <2>4 DEF Taken
      <3>2. host \in Open => host = "request"
        BY <2>2, <2>3, <3>1 DEF Sent, Seen
      <3>3. host \in Open => Quiet
        BY <2>2, <3>1, <3>2 DEF IInv, Link
      <3> QED BY <2>1, <2>2, <2>4, <3>1, <3>2, <3>3, LinkSends, MessageTypes
    <2>5. CASE executor = "reply" /\ Sends(InfoRequest)
      <3>1. Taken(executor) = 1
        BY <2>5 DEF Taken
      <3>2. host \in Open => host = "info"
        BY <2>2, <2>3, <3>1 DEF Sent, Seen
      <3>3. host \in Open => Quiet
        BY <2>2, <3>1, <3>2 DEF IInv, Link
      <3> QED BY <2>1, <2>2, <2>5, <3>1, <3>2, <3>3, LinkSends, MessageTypes
    <2>6. CASE executor \notin {"hello", "reply"} /\ UNCHANGED <<toHost, sending>>
      <3>1. Taken(executor) \in Nat /\ (executor # "off" => Taken(executor) >= 2)
        BY <2>2, <2>6 DEF Taken, Stages
      <3>2. executor # "off"
        BY <1>9, Heard
      <3>3. host' = host /\ reading' = reading /\ garbled' = garbled /\ job' = job
        BY <2>1 DEF wait
      <3> QED BY <2>2, <2>6, <3>1, <3>2, <3>3 DEF IInv, Link, TakeTurns, Quiet, BodyIsNext, InTheMiddle
    <2> QED BY <1>9, <2>4, <2>5, <2>6, Heard
  <1>10. CASE Report \/ Answer
    <2>1. /\ UNCHANGED <<wait, garbled, job>> /\ executor = "busy" /\ executor' \in {"busy", "idle"}
          /\ \E m \in Messages : Sends(m) /\ m.kind \in {"chatter", "result"}
      <3>1. Chatter.kind = "chatter"
        BY DEF Chatter
      <3>2. \A h \in BOOLEAN, t \in Crashes \cup {None} : ExecResult(h, t).kind = "result"
        BY DEF ExecResult
      <3>3. CASE Report
        BY <3>1, <3>3, MessageTypes DEF Report, guest
      <3>4. CASE Answer
        BY <3>2, <3>4, MessageTypes DEF Answer
      <3> QED BY <1>10, <3>3, <3>4
    <2>2. Taken(executor) = 5 /\ Taken(executor') = 5 /\ executor' \in Stages /\ executor # "gone"
      BY <2>1 DEF Taken, Stages
    <2>3. Len(toExecutor) \in Nat
      BY DEF IInv, TypeOK
    <2>4. host \in Open => host \in {"check", "wait"}
      BY <2>2, <2>3 DEF IInv, InStep, Sent
    <2> QED BY <2>1, <2>2, <2>4, LinkSends
  <1>11. CASE Deliver
    <2>1. /\ UNCHANGED <<host, reading, executor, garbled, job>> /\ executor # "gone"
          /\ toHost \in Seq(Parts) /\ sending \in Messages /\ sending # None
          /\ toHost' = Append(toHost, Body(sending)) /\ sending' = None
      BY <1>11 DEF Deliver, IInv, TypeOK, wait, guest
    <2>2. CASE host \notin Open
      BY <2>1, <2>2, LinkGivenUp DEF IInv, Link
    <2>3. CASE host \in Open
      <3>1. TakeTurns(toHost, sending) /\ TakeTurns(toHost', sending') /\ ~Quiet
        BY <2>1, <2>3, BodyTakesItsTurn DEF IInv, Link, Quiet
      <3>2. Body(sending) \in Parts /\ Body(sending).part = "body" /\ Body(sending).of = sending
        BY <2>1, MessageTypes DEF Body
      <3>3. /\ Len(toHost') = Len(toHost) + 1 /\ toHost' # <<>> /\ Len(toHost) \in Nat
            /\ \A i \in 1..Len(toHost) : toHost'[i] = toHost[i]
            /\ toHost'[Len(toHost')] = Body(sending)
        BY <2>1, <3>2
      <3>4. BodyIsNext' <=> BodyIsNext
        <4>1. CASE toHost = <<>>
          BY <2>1, <3>2, <3>3, <4>1, EmptySeq DEF BodyIsNext
        <4>2. CASE toHost # <<>>
          <5>1. 1 \in 1..Len(toHost)
            BY <2>1, <4>2, EmptySeq
          <5> QED BY <3>3, <4>2, <5>1 DEF BodyIsNext
        <4> QED BY <4>1, <4>2
      <3>5. CASE host \in {"request", "info"}
        <4>1. toHost # <<>> => toHost[Len(toHost)].part # "body"
          BY <2>1, <3>1 DEF TakeTurns
        <4>2. CASE reading = "body"
          <5>1. toHost = <<>>
            <6> SUFFICES ASSUME toHost # <<>> PROVE FALSE
              OBVIOUS
            <6>1. toHost[1].part = "body"
              BY <3>5, <4>2 DEF IInv, Link, BodyIsNext
            <6>2. Len(toHost) \in 0..1
              BY <3>5, <4>2 DEF IInv, Link
            <6>3. Len(toHost) \in Nat \ {0}
              BY <2>1, EmptySeq
            <6>4. Len(toHost) = 1
              BY <6>2, <6>3
            <6> QED BY <4>1, <6>1, <6>4
          <5>2. Len(toHost') = 1
            BY <3>3, <5>1, EmptySeq
          <5>3. reading' = "body" /\ BodyIsNext'
            BY <2>1, <3>4, <3>5, <4>2 DEF IInv, Link
          <5> QED BY <2>1, <3>1, <3>3, <3>5, <5>2, <5>3 DEF IInv, Link
        <4>3. CASE reading = "size"
          <5>1. toHost # <<>> /\ toHost[1].part # "body" /\ Len(toHost) \in 0..2
            BY <2>1, <3>5, <4>3 DEF IInv, Link, BodyIsNext
          <5>2. Len(toHost) \in 1..2
            <6>1. Len(toHost) \in Nat \ {0}
              BY <2>1, <5>1, EmptySeq
            <6> QED BY <5>1, <6>1
          <5>3. toHost[1] \in Parts /\ toHost[1].part = "size"
            <6>1. toHost[1] \in Parts
              BY <2>1, <5>1
            <6> QED BY <5>1, <6>1 DEF Parts
          <5>4. Len(toHost) # 2
            BY <3>1, <4>1, <5>3 DEF TakeTurns
          <5> QED BY <2>1, <3>1, <3>3, <3>4, <3>5, <4>3, <5>1, <5>2, <5>4 DEF IInv, Link
        <4> QED BY <4>2, <4>3 DEF IInv, TypeOK
      <3>6. CASE host \in {"check", "wait"}
        <4>1. \A i \in 1..Len(toHost') : toHost'[i].of.kind \in {"chatter", "result"}
          <5> TAKE i \in 1..Len(toHost')
          <5>1. CASE i \in 1..Len(toHost)
            BY <3>3, <3>6, <5>1 DEF IInv, Link
          <5>2. CASE i = Len(toHost')
            BY <2>1, <3>2, <3>3, <3>6, <5>2 DEF IInv, Link
          <5> QED BY <3>3, <5>1, <5>2
        <4> QED BY <2>1, <3>1, <3>4, <3>6, <4>1 DEF IInv, Link, InTheMiddle
      <3> QED BY <2>3, <3>1, <3>5, <3>6 DEF IInv, Link
    <2> QED BY <2>2, <2>3
  <1> QED BY <1>1, <1>2, <1>3, <1>4, <1>5, <1>6, <1>7, <1>8, <1>9, <1>10, <1>11 DEF Next, HostStep

LEMMA TidiedNext == ASSUME IInv, [Next]_vars PROVE Tidied'
  <1> USE DEF IInv, Tidied
  <1>1. CASE StartVm \/ SshReady \/ SshGivesUp \/ Copy \/ Launch \/ Accept \/ AcceptGivesUp
    <2>1. /\ host' \notin {"kill", "join", "done"} /\ job' = job
          /\ (ssh' = ssh /\ (guarded => guarded')) \/ (job.keeper = "manager" => guarded')
      BY <1>1 DEF StartVm, SshReady, SshGivesUp, Copy, Launch, Accept, AcceptGivesUp, Enter, Fail,
                  GuardedAtOnce, processes
    <2> QED BY <2>1
  <1>2. CASE SendHello \/ SendReply \/ SendInfoReply \/ SendTriaged \/ SendExec
    <2>1. /\ host' \notin {"kill", "join", "done"} /\ job' = job /\ ssh' = ssh
          /\ guarded => guarded'
      BY <1>2 DEF SendHello, SendReply, SendInfoReply, SendTriaged, SendExec, Enter, Send, processes
    <2> QED BY <2>1
  <1>3. CASE SendFails \/ Check \/ ReadTimesOut \/ ReadFails
    <2>1. host' \notin {"kill", "join", "done"} /\ UNCHANGED <<job, ssh, guarded>>
      BY <1>3 DEF SendFails, Check, ReadTimesOut, ReadFails, Enter, Fail, processes
    <2> QED BY <2>1
  <1>4. CASE ReadPart
    <2>1. host' \notin {"kill", "join", "done"}
      BY <1>4, PartRead
    <2>2. UNCHANGED <<job, ssh, guarded>>
      BY <1>4 DEF ReadPart, processes
    <2> QED BY <2>1, <2>2
  <1>5. CASE EndSsh
    BY <1>5 DEF EndSsh
  <1>6. CASE KillVm
    BY <1>6 DEF KillVm
  <1>7. CASE JoinReader
    BY <1>7 DEF JoinReader
  <1>8. CASE \/ Tick \/ Connect \/ Listen \/ Report \/ Answer \/ Deliver \/ Panic \/ ExecutorDies
             \/ ReadConsole \/ UNCHANGED vars
    <2>1. UNCHANGED <<host, job, ssh, guarded, vm, reader>>
      BY <1>8 DEF Tick, Connect, Listen, Report, Answer, Deliver, Panic, ExecutorDies,
                  ReadConsole, vars, wait, processes
    <2> QED BY <2>1
  <1>9. CASE VmExits
    BY <1>9 DEF VmExits, wait
  <1>10. CASE SshExits
    BY <1>10 DEF SshExits, wait
  <1>11. CASE ReaderEnds
    BY <1>11 DEF ReaderEnds, wait
  <1> QED BY <1>1, <1>2, <1>3, <1>4, <1>5, <1>6, <1>7, <1>8, <1>9, <1>10, <1>11 DEF Next, HostStep

(* The invariant as a whole: every state of every session.                 *)
THEOREM SessionInvariant == Spec => []IInv
  <1>1. IInv /\ [Next]_vars => IInv'
    BY TypeOKNext, InStepNext, LinkNext, TidiedNext DEF IInv
  <1> QED BY InitIInv, <1>1, PTL DEF Spec

-----------------------------------------------------------------------------
(* What follows                                                            *)

(* recv_raw never returns what is not a message, unless a message stops in *)
(* the middle for a read timeout, and the executor gets every message of   *)
(* the handshake when it waits for it.                                     *)
THEOREM SessionMessagesStayWhole == Spec => []MessagesStayWhole
  <1>1. IInv => MessagesStayWhole
    BY DEF IInv, InStep, Link, MessagesStayWhole, Stages
  <1> QED BY SessionInvariant, <1>1, PTL

(* A VM that the manager is done with leaves no process and no thread.     *)
THEOREM SessionNothingIsLeft == Spec => []NothingIsLeft
  <1>1. IInv => NothingIsLeft
    BY DEF IInv, Tidied, NothingIsLeft
  <1> QED BY SessionInvariant, <1>1, PTL

(* Whatever ends the wait for an answer once the program was sent, be it   *)
(* the answer, a broken connection or the time limit: a crash that the     *)
(* reader of the console has seen by then becomes the title of the         *)
(* observation, or gives way to the title that the answer itself carries.  *)
THEOREM SessionCrashesAreReported == Spec => CrashesAreReported
  <1> DEFINE Reported == (/\ job.keeper = "worker" /\ host \in {"check", "wait"} /\ host' = "cleanup"
                          /\ serial # None) => outcome'.title # None
  <1>1. ASSUME IInv, [Next]_vars PROVE [Reported]_vars
    <2> SUFFICES ASSUME job.keeper = "worker", host \in {"check", "wait"}, host' = "cleanup", serial # None
                 PROVE  outcome'.title # None
      OBVIOUS
    <2>1. CASE ReadPart
      BY <1>1, <2>1, PartRead
    <2>2. CASE ReadFails
      BY <2>2 DEF ReadFails, Receiving, Unread, Broken, Observed
    <2>3. CASE ReadTimesOut
      BY <2>3 DEF ReadTimesOut, Receiving
    <2>4. CASE Check
      BY <2>4 DEF Check, Observed
    <2>5. ReadPart \/ ReadFails \/ ReadTimesOut \/ Check
      BY <1>1 DEF Next, HostStep, StartVm, SshReady, SshGivesUp, Copy, Launch, Accept, AcceptGivesUp,
                  SendHello, SendReply, SendInfoReply, SendTriaged, SendExec, SendFails, EndSsh, KillVm,
                  JoinReader, Tick, Connect, Listen, Report, Answer, Deliver, Panic, ExecutorDies,
                  VmExits, SshExits, ReadConsole, ReaderEnds, vars, wait
    <2> QED BY <2>1, <2>2, <2>3, <2>4, <2>5
  <1> QED BY SessionInvariant, <1>1, PTL DEF Spec, CrashesAreReported

-----------------------------------------------------------------------------
(* The console keeps what was printed last, for every size of the buffer,  *)
(* of what is kept of it and of the lines.                                 *)

(* The line of the crash is in the buffer, or it is too long ago.          *)
CrashIsFoundOrOld == crash # NoCrash => (start <= crash \/ total - crash > Kept)

CrashType == crash = NoCrash \/ crash \in 0 .. total

ConsoleInv == ConsoleTypeOK /\ CrashType /\ CrashIsFoundOrOld

(* What stays of the buffer when bytes up to end were added.               *)
LEMMA DrainedKeeps ==
    ASSUME NEW end \in Nat, ConsoleTypeOK, total <= end
    PROVE  /\ Drained(end) \in 0 .. end
           /\ end - Drained(end) <= Limit
           /\ Drained(end) = start \/ Drained(end) = end - Kept
BY ConsoleAssumption DEF Drained, ConsoleTypeOK, Held

LEMMA ConsoleInitInv == ConsoleInit => ConsoleInv
BY ConsoleAssumption DEF ConsoleInit, ConsoleInv, ConsoleTypeOK, CrashType, CrashIsFoundOrOld, Held

(* A line is added, be it the one of the crash or not.                     *)
LEMMA ConsoleNextInv == ConsoleInv /\ [ConsoleNext]_consoleVars => ConsoleInv'
<1> SUFFICES ASSUME ConsoleInv, [ConsoleNext]_consoleVars PROVE ConsoleInv'
  OBVIOUS
<1>1. NoCrash \notin Nat /\ Limit \in Nat /\ Kept \in Nat /\ Kept <= Limit /\ MaxTotal \in Nat /\ MaxLine \in Nat
  BY ConsoleAssumption
<1>2. total \in Nat /\ total <= MaxTotal /\ start \in Nat /\ start <= total /\ ConsoleTypeOK
  BY <1>1 DEF ConsoleInv, ConsoleTypeOK
<1>3. ASSUME NEW n \in 1 .. MaxLine, total + n <= MaxTotal,
             total' = total + n, start' = Drained(total + n)
      PROVE  /\ ConsoleTypeOK' /\ n \in Nat
             /\ start' = start \/ start' = total' - Kept
  <2>1. n \in Nat /\ total + n \in Nat /\ total <= total + n
    BY <1>3, <1>1, <1>2
  <2>2. /\ Drained(total + n) \in 0 .. (total + n)
        /\ (total + n) - Drained(total + n) <= Limit
        /\ Drained(total + n) = start \/ Drained(total + n) = (total + n) - Kept
    BY <2>1, <1>2, DrainedKeeps
  <2> QED
    BY <2>1, <2>2, <1>3, <1>1, <1>2 DEF ConsoleTypeOK, Held
<1>4. ASSUME NEW n \in 1 .. MaxLine, ReadLine(n)
      PROVE  ConsoleInv'
  <2>1. ConsoleTypeOK' /\ n \in Nat /\ (start' = start \/ start' = total' - Kept)
    BY <1>4, <1>3 DEF ReadLine
  <2>2. crash' = crash /\ total' = total + n
    BY <1>4 DEF ReadLine
  <2>3. CrashType'
    BY <2>1, <2>2, <1>1, <1>2 DEF ConsoleInv, CrashType
  <2>4. CrashIsFoundOrOld'
    BY <2>1, <2>2, <1>1, <1>2 DEF ConsoleInv, CrashType, CrashIsFoundOrOld
  <2> QED
    BY <2>1, <2>3, <2>4 DEF ConsoleInv
<1>5. ASSUME NEW n \in 1 .. MaxLine, ReadCrash(n)
      PROVE  ConsoleInv'
  <2>1. ConsoleTypeOK' /\ n \in Nat /\ (start' = start \/ start' = total' - Kept)
    BY <1>5, <1>3 DEF ReadCrash
  <2>2. crash' = total /\ total' = total + n
    BY <1>5 DEF ReadCrash
  <2>3. CrashType'
    BY <2>1, <2>2, <1>1, <1>2 DEF CrashType
  <2>4. CrashIsFoundOrOld'
    BY <2>1, <2>2, <1>1, <1>2 DEF CrashIsFoundOrOld
  <2> QED
    BY <2>1, <2>3, <2>4 DEF ConsoleInv
<1>6. CASE UNCHANGED consoleVars
  BY <1>6 DEF consoleVars, ConsoleInv, ConsoleTypeOK, CrashType, CrashIsFoundOrOld, Held
<1> QED
  BY <1>4, <1>5, <1>6 DEF ConsoleNext

(* The buffer of the console stays within its limit (serial_output in      *)
(* qemu.rs), whatever the lines.                                           *)
THEOREM ConsoleTypeCorrect == ConsoleSpec => []ConsoleTypeOK
<1>1. ConsoleInv => ConsoleTypeOK
  BY DEF ConsoleInv
<1> QED
  BY ConsoleInitInv, ConsoleNextInv, <1>1, PTL DEF ConsoleSpec

(* A crash is found in a copy of the console as long as no more than what  *)
(* is kept when the buffer is cut was printed from its line on.            *)
THEOREM ConsoleRecentCrashIsFound == ConsoleSpec => []RecentCrashIsFound
<1>1. ConsoleInv => RecentCrashIsFound
  <2> SUFFICES ASSUME ConsoleInv, crash # NoCrash, total - crash <= Kept PROVE start <= crash
    BY DEF RecentCrashIsFound, Found
  <2>1. start <= crash \/ total - crash > Kept
    BY DEF ConsoleInv, CrashIsFoundOrOld
  <2>2. total - crash \in Int /\ Kept \in Int
    BY ConsoleAssumption DEF ConsoleInv, ConsoleTypeOK, CrashType
  <2> QED
    BY <2>1, <2>2
<1> QED
  BY ConsoleInitInv, ConsoleNextInv, <1>1, PTL DEF ConsoleSpec
=============================================================================
