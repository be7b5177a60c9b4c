------------------------------ MODULE Session -------------------------------
(***************************************************************************)
(* One VM from its start to its end: SSH, the copy of the executor, the    *)
(* connection and its handshake, one request, and the clean-up, as the     *)
(* replay worker and the manager go through it (job says which).           *)
(* At the other end: the guest with its console and the executor in it,    *)
(* the ssh process that runs the executor, and the thread that reads the   *)
(* console.                                                                *)
(*                                                                         *)
(* A message on its way to the host is its size and then its body, as      *)
(* recv_raw reads it.  Time is counted in read timeouts (5 s).             *)
(***************************************************************************)
EXTENDS Integers, Sequences

CONSTANTS
    None,
    Jobs,                                  \* what sessions there are: see job
    SshLimit, AcceptLimit, RequestLimit,   \* in read timeouts
    Cookies,                               \* cookies a hello may carry
    MaxFaults                              \* bound: failures of the outside world

VARIABLES
    job,       \* whose VM it is, what is replayed, and whether a message may stop in
               \* the middle for a read timeout
    host,      \* what the host does
    cookie,    \* of its hello
    reading,   \* the part of a message recv_raw reads: "size" or "body"
    waited,    \* time in this wait
    outcome,   \* of the request: ReplayObservation
    guarded,   \* there is a guard that ends the ssh process
    vm, ssh, reader,   \* the QEMU process, the ssh process, the console thread
    panic,     \* the crash of the guest: None, "same" as the artifact's, or "other"
    serial,    \* what of it is in serial_output
    executor,  \* what the executor does
    toExecutor, toHost,   \* the connection
    sending,   \* the message of which the size is on its way already
    garbled,   \* history: the middle of a message was read as its start
    faults

wait == <<host, reading, waited>>
processes == <<vm, ssh, reader>>
guest == <<panic, serial, executor>>
link == <<toExecutor, toHost, sending>>
vars == <<job, wait, cookie, outcome, guarded, processes, guest, link, garbled, faults>>

Fault == faults < MaxFaults /\ faults' = faults + 1

Least(a, b) == IF a < b THEN a ELSE b

-----------------------------------------------------------------------------
(* Messages                                                                *)

AuthHash(c) == <<"hash", c>>   \* auth_hash: one to one, as the prime is odd

ConnectHello(c) == [kind |-> "hello", cookie |-> c]
ConnectRequest(hash) == [kind |-> "request", cookie |-> hash]
ConnectReply == [kind |-> "reply"]
InfoRequest == [kind |-> "info"]
InfoReply == [kind |-> "inforeply"]
CorpusTriaged == [kind |-> "triaged"]
ExecRequest == [kind |-> "exec"]
Chatter == [kind |-> "chatter"]   \* Executing, State
ExecResult(hanged, title) == [kind |-> "result", hanged |-> hanged, title |-> title]

Crashes == {"same", "other"}   \* the crash of the artifact, and any other

Messages ==
    [kind : {"hello"}, cookie : Cookies]
    \cup [kind : {"request"}, cookie : {AuthHash(c) : c \in Cookies}]
    \cup [kind : {"reply", "info", "inforeply", "triaged", "exec", "chatter"}]
    \cup [kind : {"result"}, hanged : BOOLEAN, title : Crashes \cup {None}]

ASSUME SessionAssumption ==
    /\ Jobs \subseteq [keeper : {"manager", "worker"}, artifact : {"crash", "timeout"},
                       slow : BOOLEAN]
    /\ SshLimit \in Nat /\ AcceptLimit \in Nat /\ RequestLimit \in Nat
    /\ None \notin Cookies /\ None \notin Crashes /\ None \notin Messages
    /\ MaxFaults \in Nat

Size(m) == [part |-> "size", of |-> m]
Body(m) == [part |-> "body", of |-> m]

-----------------------------------------------------------------------------
(* The host                                                                *)

Enter(phase) == host' = phase /\ waited' = 0 /\ reading' = "size"

(* An error of replay_once: the attempt counts as failed.                  *)
Errored == [reproduced |-> FALSE, title |-> None, queue |-> "failed"]
Fail == Enter("cleanup") /\ outcome' = Errored

Init ==
    /\ job \in Jobs
    /\ host = "start" /\ cookie = None /\ reading = "size" /\ waited = 0
    /\ outcome = None /\ guarded = FALSE
    /\ vm = "off" /\ ssh = "none" /\ reader = "none"
    /\ panic = None /\ serial = None /\ executor = "off"
    /\ toExecutor = <<>> /\ toHost = <<>> /\ sending = None
    /\ garbled = FALSE /\ faults = 0

(* QemuInstance::start                                                     *)
StartVm ==
    /\ host = "start"
    /\ \/ /\ Enter("ssh") /\ vm' = "up" /\ reader' = "running"
          /\ UNCHANGED <<outcome, faults>>
       \/ Fault /\ Fail /\ UNCHANGED <<vm, reader>>
    /\ UNCHANGED <<cookie, guarded, ssh, guest, link, garbled, job>>

(* wait_for_ssh; Tick sees to the time that attempts cost.                 *)
SshReady ==
    /\ host = "ssh" /\ waited <= SshLimit /\ vm = "up"
    /\ Enter("copy")
    /\ UNCHANGED <<cookie, outcome, guarded, processes, guest, link, garbled, faults, job>>

SshGivesUp ==
    /\ host = "ssh" /\ waited > SshLimit
    /\ Fail
    /\ UNCHANGED <<cookie, guarded, processes, guest, link, garbled, faults, job>>

Copy ==
    /\ host = "copy"
    /\ \/ vm = "up" /\ Enter("launch") /\ UNCHANGED <<outcome, faults>>
       \/ vm = "up" /\ Fault /\ Fail
       \/ vm # "up" /\ Fail /\ UNCHANGED faults
    /\ UNCHANGED <<cookie, guarded, processes, guest, link, garbled, job>>

GuardedLater == FALSE   \* mutant: the manager, too, makes its guard after the handshake
GuardedAtOnce == job.keeper = "manager"

(* run_with_forward.  The manager makes its ExecutorSshSession of the      *)
(* child, the worker keeps the child as it is.                             *)
Launch ==
    /\ host = "launch"
    /\ Enter("accept") /\ ssh' = "running" /\ guarded' = GuardedAtOnce
    /\ UNCHANGED <<cookie, outcome, vm, reader, guest, link, garbled, faults, job>>

Accept ==
    /\ host = "accept" /\ executor # "off"
    /\ Enter("hello")
    /\ UNCHANGED <<cookie, outcome, guarded, processes, guest, link, garbled, faults, job>>

AcceptGivesUp ==
    /\ host = "accept" /\ executor = "off"
    /\ waited > AcceptLimit \/ vm # "up"
    /\ Fail
    /\ UNCHANGED <<cookie, guarded, processes, guest, link, garbled, faults, job>>

(* A message goes out whole.  Of an executor that is gone the host may not *)
(* know yet: then it goes nowhere.                                         *)
Send(m) ==
    /\ toExecutor' = IF executor = "gone" THEN toExecutor ELSE Append(toExecutor, m)
    /\ UNCHANGED <<outcome, processes, guest, toHost, sending, garbled, faults, job>>

SendHello ==
    /\ host = "hello"
    /\ \E c \in Cookies : cookie' = c /\ Send(ConnectHello(c))
    /\ Enter("request") /\ UNCHANGED guarded

SendReply ==
    /\ host = "reply"
    /\ Send(ConnectReply)
    /\ Enter("info") /\ UNCHANGED <<cookie, guarded>>

(* After it the worker makes its ExecutorSession.                          *)
SendInfoReply ==
    /\ host = "inforeply"
    /\ Send(InfoReply)
    /\ Enter("triaged") /\ guarded' = TRUE /\ UNCHANGED cookie

SendTriaged ==
    /\ host = "triaged"
    /\ Send(CorpusTriaged)
    /\ Enter("exec") /\ UNCHANGED <<cookie, guarded>>

SendExec ==
    /\ host = "exec"
    /\ Send(ExecRequest)
    /\ Enter("check") /\ UNCHANGED <<cookie, guarded>>

(* send_raw fails: the connection is closed, or takes nothing for the      *)
(* write timeout.  Every send returns the error at once, of the request as *)
(* well, and nobody looks at the console.                                  *)
SendFails ==
    /\ host \in {"hello", "reply", "inforeply", "triaged", "exec"}
    /\ \/ executor = "gone" /\ UNCHANGED faults
       \/ Fault
    /\ Fail
    /\ UNCHANGED <<cookie, guarded, processes, guest, link, garbled, job>>

-----------------------------------------------------------------------------
(* Waiting for the answer                                                  *)

(* classify_observation                                                    *)
Observed(timedOut, hanged, title) ==
    LET reproduced == IF job.artifact = "timeout" THEN timedOut \/ hanged ELSE title = "same"
    IN  [reproduced |-> reproduced, title |-> title,
         queue |-> IF reproduced THEN "reproduced"
                   ELSE IF timedOut \/ hanged THEN "timed_out" ELSE "failed"]

CheckAnew ==   \* mutant: the clock starts again with every round
    /\ host = "check"
    /\ \/ waited > RequestLimit /\ Enter("cleanup") /\ outcome' = Observed(TRUE, FALSE, serial)
       \/ waited <= RequestLimit /\ Enter("wait") /\ UNCHANGED outcome
    /\ UNCHANGED <<cookie, guarded, processes, guest, link, garbled, faults, job>>

(* The top of the loop.                                                    *)
Check ==
    /\ host = "check"
    /\ \/ waited > RequestLimit /\ Enter("cleanup") /\ outcome' = Observed(TRUE, FALSE, serial)
       \/ waited <= RequestLimit /\ host' = "wait" /\ UNCHANGED <<reading, waited, outcome>>
    /\ UNCHANGED <<cookie, guarded, processes, guest, link, garbled, faults, job>>

Title(r) == IF r.title # None THEN r.title ELSE serial

Authentic(hash) == hash = AuthHash(cookie)

(* What is done with a message that was read.                              *)
Handle(m) ==
    CASE host = "request" -> IF Authentic(m.cookie) THEN Enter("reply") /\ UNCHANGED outcome ELSE Fail
      [] host = "info" -> Enter("inforeply") /\ UNCHANGED outcome
      [] host = "wait" /\ m.kind = "chatter" ->
            host' = "check" /\ reading' = "size" /\ UNCHANGED <<waited, outcome>>
      [] host = "wait" /\ m.kind = "result" ->
            Enter("cleanup") /\ outcome' = Observed(FALSE, m.hanged, Title(m))

(* recv_executor_message fails: the worker looks for a crash on the        *)
(* console if that happens while it waits for the answer.                  *)
BrokenUnseen == Errored   \* mutant: a broken connection is not looked into
Broken == IF job.keeper = "worker" /\ serial # None THEN Observed(FALSE, FALSE, serial) ELSE Errored
Unread == IF host = "wait" THEN Broken ELSE Errored

Receiving == host \in {"request", "info", "wait"}

ReadSizeOnly ==   \* mutant: recv_raw returns before the body has arrived
    /\ Receiving /\ toHost # <<>>
    /\ toHost' = Tail(toHost)
    /\ \/ Head(toHost).part = "size" /\ Handle(Head(toHost).of) /\ UNCHANGED garbled
       \/ Head(toHost).part = "body" /\ Fail /\ garbled' = TRUE
    /\ UNCHANGED <<cookie, guarded, processes, guest, toExecutor, sending, faults, job>>

(* recv_raw reads a size, and then as much.  What is read for a size where *)
(* there is none is too large, or leads to a message that is none.         *)
ReadPart ==
    /\ Receiving /\ toHost # <<>>
    /\ toHost' = Tail(toHost)
    /\ LET p == Head(toHost)
       IN  \/ /\ reading = "size" /\ p.part = "size"
              /\ reading' = "body"
              /\ UNCHANGED <<host, waited, outcome, garbled>>
           \/ /\ reading = "body"
              /\ Handle(p.of)
              /\ UNCHANGED garbled
           \/ /\ reading = "size" /\ p.part = "body"
              /\ Enter("cleanup") /\ outcome' = Unread /\ garbled' = TRUE
    /\ UNCHANGED <<cookie, guarded, processes, guest, toExecutor, sending, faults, job>>

(* Nothing arrives for a read timeout, in the middle of a message only if  *)
(* the link is slow or broken: the end of a handshake, and another round   *)
(* of the loop, which starts with a size.                                  *)
ReadTimesOut ==
    /\ Receiving /\ toHost = <<>>
    /\ sending = None \/ job.slow \/ executor = "gone"
    /\ \/ host # "wait" /\ Fail
       \/ /\ host = "wait"
          /\ host' = "check" /\ reading' = "size"
          /\ waited' = Least(waited + 1, RequestLimit + 1)
          /\ UNCHANGED outcome
    /\ UNCHANGED <<cookie, guarded, processes, guest, link, garbled, faults, job>>

(* The connection is closed.                                               *)
ReadFails ==
    /\ Receiving /\ toHost = <<>> /\ executor = "gone"
    /\ Enter("cleanup")
    /\ outcome' = Unread
    /\ UNCHANGED <<cookie, guarded, processes, guest, link, garbled, faults, job>>

-----------------------------------------------------------------------------
(* The end: the drop of the guard, of the VM, and of its reader.           *)

EndSsh ==
    /\ host = "cleanup"
    /\ host' = "kill"
    /\ ssh' = IF guarded THEN "reaped" ELSE ssh
    /\ UNCHANGED <<reading, waited, cookie, outcome, guarded, vm, reader, guest, link, garbled, faults, job>>

KillVm ==
    /\ host = "kill"
    /\ host' = "join"
    /\ vm' = IF vm = "off" THEN "off" ELSE "reaped"
    /\ UNCHANGED <<reading, waited, cookie, outcome, guarded, ssh, reader, guest, link, garbled, faults, job>>

JoinReader ==
    /\ host = "join" /\ reader \in {"none", "ended"}
    /\ host' = "done"
    /\ reader' = IF reader = "none" THEN "none" ELSE "joined"
    /\ UNCHANGED <<reading, waited, cookie, outcome, guarded, vm, ssh, guest, link, garbled, faults, job>>

(* Time goes by.                                                           *)
Tick ==
    /\ host \in {"ssh", "accept", "check", "wait"}
    /\ waited' = Least(waited + 1, 1 + (CASE host = "ssh" -> SshLimit
                                          [] host = "accept" -> AcceptLimit
                                          [] OTHER -> RequestLimit))
    /\ UNCHANGED <<host, reading, cookie, outcome, guarded, processes, guest, link, garbled, faults, job>>

-----------------------------------------------------------------------------
(* The executor                                                            *)

Running == vm = "up" /\ ssh = "running" /\ panic = None

Connect ==
    /\ Running /\ executor = "off" /\ host = "accept"
    /\ executor' = "hello"
    /\ UNCHANGED <<wait, cookie, outcome, guarded, processes, panic, serial, link, garbled, faults, job>>

(* What it waits for in turn.                                              *)
After == [hello |-> "reply", reply |-> "inforeply", inforeply |-> "triaged",
          triaged |-> "exec", exec |-> "busy"]

(* A message is sent: its size first.                                      *)
Sends(m) == sending = None /\ toHost' = Append(toHost, Size(m)) /\ sending' = m

Listen ==
    /\ Running /\ executor \in DOMAIN After /\ toExecutor # <<>>
    /\ toExecutor' = Tail(toExecutor)
    /\ LET m == Head(toExecutor)
       IN  /\ executor' = IF m.kind = executor THEN After[executor] ELSE "confused"
           /\ CASE m.kind = "hello" -> Sends(ConnectRequest(AuthHash(m.cookie)))
                [] m.kind = "reply" -> Sends(InfoRequest)
                [] OTHER -> UNCHANGED <<toHost, sending>>
    /\ UNCHANGED <<wait, cookie, outcome, guarded, processes, panic, serial, garbled, faults, job>>

Report ==
    /\ Running /\ executor = "busy" /\ toHost = <<>>
    /\ Sends(Chatter)
    /\ UNCHANGED <<wait, cookie, outcome, guarded, processes, guest, toExecutor, garbled, faults, job>>

Answer ==
    /\ Running /\ executor = "busy"
    /\ \E hanged \in BOOLEAN, title \in Crashes \cup {None} : Sends(ExecResult(hanged, title))
    /\ executor' = "idle"
    /\ UNCHANGED <<wait, cookie, outcome, guarded, processes, panic, serial, toExecutor, garbled, faults, job>>

(* The rest of the message arrives.                                        *)
Deliver ==
    /\ Running /\ executor # "gone" /\ sending # None
    /\ toHost' = Append(toHost, Body(sending)) /\ sending' = None
    /\ UNCHANGED <<wait, cookie, outcome, guarded, processes, guest, toExecutor, garbled, faults, job>>

-----------------------------------------------------------------------------
(* ... and what may happen to it.                                          *)

Gone == executor' = IF executor = "off" THEN "off" ELSE "gone"

Panic ==
    /\ vm = "up" /\ panic = None /\ Fault
    /\ panic' \in Crashes /\ Gone
    /\ UNCHANGED <<wait, cookie, outcome, guarded, processes, serial, link, garbled, job>>

ExecutorDies ==
    /\ Running /\ executor \notin {"off", "gone"} /\ Fault
    /\ executor' = "gone"
    /\ UNCHANGED <<wait, cookie, outcome, guarded, processes, panic, serial, link, garbled, job>>

VmExits ==
    /\ vm = "up"
    /\ IF panic = None THEN Fault ELSE UNCHANGED faults
    /\ vm' = "gone" /\ Gone
    /\ UNCHANGED <<wait, cookie, outcome, guarded, ssh, reader, panic, serial, link, garbled, job>>

SshExits ==
    /\ ssh = "running" /\ (vm # "up" \/ executor = "gone")
    /\ ssh' = "exited"
    /\ UNCHANGED <<wait, cookie, outcome, guarded, vm, reader, guest, link, garbled, faults, job>>

(* The thread that reads the console, until its end.                       *)
ReadConsole ==
    /\ reader = "running" /\ panic # serial
    /\ serial' = panic
    /\ UNCHANGED <<wait, cookie, outcome, guarded, processes, panic, executor, link, garbled, faults, job>>

ReaderEnds ==
    /\ reader = "running" /\ vm # "up" /\ panic = serial
    /\ reader' = "ended"
    /\ UNCHANGED <<wait, cookie, outcome, guarded, vm, ssh, guest, link, garbled, faults, job>>

HostStep ==
    \/ StartVm \/ SshGivesUp \/ Copy \/ Launch \/ Accept \/ AcceptGivesUp
    \/ SendHello \/ SendReply \/ SendInfoReply \/ SendTriaged \/ SendExec \/ SendFails
    \/ Check \/ ReadPart \/ ReadTimesOut \/ ReadFails
    \/ EndSsh \/ KillVm \/ JoinReader

Next ==
    \/ HostStep \/ SshReady \/ Tick
    \/ Connect \/ Listen \/ Report \/ Answer \/ Deliver
    \/ Panic \/ ExecutorDies \/ VmExits \/ SshExits
    \/ ReadConsole \/ ReaderEnds

Spec == Init /\ [][Next]_vars

(* The host goes on, time too, and the thread reads what there is.  scp is *)
(* taken to end, with or without success: nothing in the code limits it.   *)
(* A link that is not slow delivers the rest of a message.  Nothing else   *)
(* is asked of the guest, the executor or the link.                        *)
FairSpec ==
    Spec /\ WF_vars(HostStep) /\ WF_vars(Tick)
         /\ WF_vars(ReadConsole) /\ WF_vars(ReaderEnds)
         /\ WF_vars(~job.slow /\ Deliver)

-----------------------------------------------------------------------------
(* recv_raw: the bytes it returns are those of a message, never what       *)
(* follows the start of one that it has given up, as long as no message    *)
(* stops in the middle for a read timeout.  What arrives whole makes       *)
(* sense: the executor gets each message of the handshake when it expects  *)
(* it, and the program only after it was told everything else.             *)
MessagesStayWhole == (~job.slow => ~garbled) /\ executor # "confused"

(* From the moment the program has been sent, a crash on the console that  *)
(* the reader has seen is reported by a replay, however the wait for the   *)
(* answer ends: by the answer, by a broken connection or by the time limit *)
(* (unless the output of the program shows another crash).  A program that *)
(* could not be sent is an error without a look at the console, and so is  *)
(* all that fails before it.                                               *)
CrashesAreReported ==
    [][(job.keeper = "worker" /\ host \in {"check", "wait"} /\ host' = "cleanup" /\ serial # None)
          => outcome'.title # None]_vars

(* When a VM of the manager is done with, nothing of it is left: QEMU has  *)
(* been waited for, the reader of its console joined, and the ssh process  *)
(* waited for.                                                             *)
NothingIsLeft ==
    host = "done" => /\ vm \in {"off", "reaped"} /\ reader \in {"none", "joined"}
                     /\ job.keeper = "manager" => ssh \in {"none", "reaped"}

(* Every session comes to an end, whatever the VM, ssh and the executor    *)
(* do or fail to do, and if they talk without end.                         *)
SessionsEnd == <>(host = "done")
=============================================================================
