------------------------------ MODULE Manager -------------------------------
(***************************************************************************)
(* The manager: it boots a VM, connects to the executor in it, sends one   *)
(* program at a time and waits for the answer, until the VM has to be      *)
(* replaced or max_execs requests have been made.  With it the parts of    *)
(* the outside world it talks to: the guest, its serial console and the    *)
(* link to the executor, and the corpus snapshot on disk.                  *)
(*                                                                         *)
(* Of timeout avoidance (module Avoidance) only its outcome is here: the   *)
(* programs refused by exact match or shape (remembered, in memory), and   *)
(* by syscall or edge (avoided, which survives a restart).                 *)
(***************************************************************************)
EXTENDS Corpus, Integers

CONSTANTS
    None,
    MaxExecs,        \* max_execs of the configuration
    CheckInterval,   \* the console is searched for a crash every 10 executions
    MaxFaults        \* bound: crashes of the guest, failures of the disk or the
                     \* link, kills of the manager, changes of the descriptions

ASSUME ManagerAssumption ==
    /\ None \notin Programs
    /\ MaxExecs \in Nat /\ CheckInterval \in Nat \ {0} /\ MaxFaults \in Nat

VARIABLES
    pc,           \* of the manager
    corpus,
    disk,         \* corpus.json
    remembered, avoided,
    attempts,     \* total_attempts: requests sent
    execs,        \* total_execs: requests answered
    prog, reqId,  \* the request in hand
    vm,           \* "off", "up", or "gone": the QEMU process has exited
    console,      \* the serial console shows a crash
    link,         \* the connection to the executor
    wire,         \* requests on their way or in execution
    answers,      \* answers not yet read
    known,        \* the signal the executor does not report any more
    updates,      \* signal on its way to the executor
    reports,      \* history: crashes on a console that were saved
    hits,         \* history: the signal each program has produced
    missed,       \* history: an update could not be sent in this VM
    rebased,      \* history: a load skipped programs, or failed
    faults

manager == <<corpus, disk, remembered, avoided, attempts, execs, prog, reqId>>
guest == <<vm, console, link, wire, answers, known, updates>>
history == <<reports, hits, missed, rebased, faults>>
vars == <<pc, manager, guest, history>>

Requests == [id : Nat, prog : Programs]
Answers == [id : Nat, prog : Programs, hanged : BOOLEAN, signal : SUBSET Signals]

Fault ==
    /\ faults < MaxFaults
    /\ faults' = faults + 1

-----------------------------------------------------------------------------
LimitReachedByAnswers == execs >= MaxExecs   \* mutant: counts the answered requests only

(* exec_limit_reached: requests that never got an answer count too.        *)
LimitReached == attempts >= MaxExecs

Refused(p) == p \in remembered \cup avoided

(* The VM and everything on the way to or from it is dropped.              *)
Discard ==
    /\ pc' = "outer"
    /\ vm' = "off" /\ console' = FALSE /\ link' = "none"
    /\ wire' = {} /\ answers' = {} /\ known' = {} /\ updates' = {}

Init ==
    /\ pc = "down"
    /\ corpus = NewCorpus
    /\ disk = Snapshot(NewCorpus)
    /\ remembered = {} /\ avoided = {}
    /\ attempts = 0 /\ execs = 0
    /\ prog = None /\ reqId = 0
    /\ vm = "off" /\ console = FALSE /\ link = "none"
    /\ wire = {} /\ answers = {} /\ known = {} /\ updates = {}
    /\ reports = 0 /\ hits = [p \in Programs |-> {}]
    /\ missed = FALSE /\ rebased = FALSE /\ faults = 0

(* The manager starts.  Descriptions that changed since the snapshot was   *)
(* written invalidate programs in it; if it cannot be read, the corpus is  *)
(* empty.                                                                  *)
Load ==
    /\ pc = "down"
    /\ pc' = "outer"
    /\ \/ /\ corpus' = Loaded(disk, Programs)
          /\ UNCHANGED <<rebased, faults>>
       \/ /\ Fault
          /\ corpus' \in {Loaded(disk, valid) : valid \in SUBSET Programs} \cup {NewCorpus}
          /\ rebased' = TRUE
    /\ remembered' = {}
    /\ attempts' = 0 /\ execs' = 0
    /\ UNCHANGED <<disk, avoided, prog, reqId, guest, reports, hits, missed>>

Kill ==
    /\ pc \notin {"down", "stopped"}
    /\ Fault
    /\ pc' = "down"
    /\ vm' = "off" /\ console' = FALSE /\ link' = "none"
    /\ wire' = {} /\ answers' = {} /\ known' = {} /\ updates' = {}
    /\ UNCHANGED <<manager, reports, hits, missed, rebased>>

StopByAnswers ==   \* mutant: here the limit is one on answers
    /\ pc = "outer" /\ LimitReachedByAnswers
    /\ pc' = "stopped"
    /\ UNCHANGED <<manager, guest, history>>

Stop ==
    /\ pc = "outer" /\ LimitReached
    /\ pc' = "stopped"
    /\ UNCHANGED <<manager, guest, history>>

(* run_instance, up to the wait for the executor.                          *)
Boot ==
    /\ pc = "outer" /\ ~LimitReached
    /\ pc' = "booting"
    /\ vm' = "up"
    /\ UNCHANGED <<manager, console, link, wire, answers, known, updates, history>>

BootFails ==
    /\ pc = "booting"
    /\ \/ (vm = "gone" \/ console) /\ UNCHANGED faults
       \/ vm = "up" /\ ~console /\ Fault
    /\ Discard
    /\ UNCHANGED <<manager, reports, hits, missed, rebased>>

(* The executor connects; after the handshake it is told all the signal of *)
(* the corpus.                                                             *)
Connect ==
    /\ pc = "booting" /\ vm = "up"
    /\ pc' = "top"
    /\ link' = "open"
    /\ updates' = corpus.signal
    /\ reqId' = 0
    /\ missed' = FALSE
    /\ UNCHANGED <<corpus, disk, remembered, avoided, attempts, execs, prog, vm, console,
                   wire, answers, known, reports, hits, rebased, faults>>

-----------------------------------------------------------------------------
(* The fuzz loop.                                                          *)

ConsoleIsDue == execs % CheckInterval = 0

(* The VM has exited, or it is the turn of the console and it shows a      *)
(* crash: the crash is saved, if the disk lets it.                         *)
Replace ==
    /\ pc = "top"
    /\ vm = "gone" \/ (ConsoleIsDue /\ console)
    /\ \/ ~console /\ UNCHANGED <<reports, faults>>
       \/ console /\ reports' = reports + 1 /\ UNCHANGED faults
       \/ console /\ Fault /\ UNCHANGED reports
    /\ Discard
    /\ UNCHANGED <<manager, hits, missed, rebased>>

GoOn == pc = "top" /\ vm = "up" /\ ~(ConsoleIsDue /\ console)

Skip(p) ==
    /\ GoOn /\ Refused(p)
    /\ UNCHANGED vars

Send(p) ==
    /\ GoOn /\ ~Refused(p)
    /\ pc' = "waiting"
    /\ prog' = p
    /\ attempts' = attempts + 1
    /\ wire' = IF link = "open" THEN wire \cup {[id |-> reqId, prog |-> p]} ELSE wire
    /\ UNCHANGED <<corpus, disk, remembered, avoided, execs, reqId, vm, console, link,
                   answers, known, updates, history>>

SendFails ==
    /\ GoOn /\ link = "closed"
    /\ Discard
    /\ UNCHANGED <<manager, history>>

(* What is learned from a program that timed out or hung: it is refused    *)
(* from now on, and others of its shape, its syscalls or its edges may be. *)
Learn ==
    /\ \E similar \in SUBSET Programs : remembered' = remembered \cup {prog} \cup similar
    /\ \E similar \in SUBSET Programs : avoided' = avoided \cup similar

ExpireInPlace ==   \* mutant: a timeout does not replace the VM
    /\ pc = "waiting"
    /\ Learn
    /\ pc' = "top"
    /\ reqId' = reqId + 1
    /\ UNCHANGED <<corpus, disk, attempts, execs, prog, guest, history>>

(* No answer within 15 seconds, or the executor reports one retry after    *)
(* the other.                                                              *)
Expire ==
    /\ pc = "waiting"
    /\ Learn
    /\ Discard
    /\ UNCHANGED <<corpus, disk, attempts, execs, prog, reqId, history>>

(* recv_executor_message fails with anything but a timeout.                *)
RecvFails ==
    /\ pc = "waiting" /\ link = "closed"
    /\ Discard
    /\ UNCHANGED <<manager, history>>

(* An answer is processed, as one to the program in hand.  New signal goes *)
(* to the executor (sent) and to disk (saved), neither failure is fatal; a *)
(* crash report in the output of the program that cannot be saved is, and  *)
(* so is the last request.                                                 *)
Receive(a) ==
    LET new == HasNew(corpus, a.signal)
        added == Added(corpus, prog, a.signal)
    IN  /\ pc = "waiting" /\ a \in answers
        /\ execs' = execs + 1
        /\ \/ a.hanged /\ Learn
           \/ ~a.hanged /\ avoided' \in SUBSET avoided /\ UNCHANGED remembered
        /\ \E sent, saved, reported \in BOOLEAN :
              /\ (~sent \/ ~saved) => new
              /\ IF (sent \/ link = "closed") /\ saved /\ reported THEN UNCHANGED faults ELSE Fault
              /\ corpus' = IF new THEN Taken(added) ELSE corpus
              /\ disk' = IF new /\ saved THEN Snapshot(added) ELSE disk
              /\ missed' = (missed \/ ~sent)
              /\ \/ /\ LimitReached \/ ~reported
                    /\ Discard
                    /\ UNCHANGED reqId
                 \/ /\ ~LimitReached /\ reported
                    /\ pc' = "top"
                    /\ reqId' = reqId + 1
                    /\ answers' = answers \ {a}
                    /\ updates' = IF new /\ sent THEN updates \cup added.fresh ELSE updates
                    /\ UNCHANGED <<vm, console, link, wire, known>>
        /\ UNCHANGED <<attempts, prog, reports, hits, rebased>>

-----------------------------------------------------------------------------
(* The guest and the link.                                                 *)

Answer(r, hanged, signal) ==
    /\ r \in wire /\ vm = "up" /\ link = "open"
    /\ wire' = wire \ {r}
    /\ answers' = answers \cup
          {[id |-> r.id, prog |-> r.prog, hanged |-> hanged, signal |-> signal]}
    /\ hits' = [hits EXCEPT ![r.prog] = @ \cup signal]
    /\ UNCHANGED <<pc, manager, vm, console, link, known, updates, reports, missed, rebased, faults>>

Absorb ==
    /\ link = "open" /\ vm = "up"
    /\ known' = known \cup updates /\ updates' = {}
    /\ UNCHANGED <<pc, manager, vm, console, link, wire, answers, history>>

Crash ==
    /\ vm = "up" /\ ~console
    /\ Fault
    /\ console' = TRUE
    /\ UNCHANGED <<pc, manager, vm, link, wire, answers, known, updates, reports, hits, missed, rebased>>

Exit ==
    /\ vm = "up"
    /\ \/ console /\ UNCHANGED faults
       \/ ~console /\ Fault
    /\ vm' = "gone"
    /\ UNCHANGED <<pc, manager, console, link, wire, answers, known, updates, reports, hits, missed, rebased>>

LinkDrops ==
    /\ link = "open"
    /\ \/ (console \/ vm = "gone") /\ UNCHANGED faults
       \/ vm = "up" /\ ~console /\ Fault
    /\ link' = "closed"
    /\ UNCHANGED <<pc, manager, vm, console, wire, answers, known, updates, reports, hits, missed, rebased>>

ManagerStep ==
    \/ Load \/ Stop \/ Boot \/ BootFails \/ Connect \/ Replace
    \/ SendFails \/ Expire \/ RecvFails
    \/ \E p \in Programs : Send(p)
    \/ \E a \in answers : Receive(a)

GuestStep ==
    \/ \E r \in wire, hanged \in BOOLEAN, signal \in SUBSET Signals : Answer(r, hanged, signal)
    \/ Absorb \/ Crash \/ Exit \/ LinkDrops

Next ==
    \/ ManagerStep
    \/ GuestStep
    \/ Kill
    \/ \E p \in Programs : Skip(p)

Spec == Init /\ [][Next]_vars

(* The manager keeps running; in particular, a program that is not refused *)
(* is generated at some time.                                              *)
FairSpec == Spec /\ WF_vars(ManagerStep)

-----------------------------------------------------------------------------
(* Types, and the life of a VM: one exists exactly while an instance runs, *)
(* and a link to it while the instance is in the fuzz loop.                *)
TypeOK ==
    /\ pc \in {"down", "outer", "booting", "top", "waiting", "stopped"}
    /\ corpus \in Corpora /\ disk \in Snapshots
    /\ remembered \subseteq Programs /\ avoided \subseteq Programs
    /\ attempts \in Nat /\ execs \in Nat /\ reqId \in Nat /\ faults \in Nat /\ reports \in Nat
    /\ prog \in Programs \cup {None} /\ (pc = "waiting" => prog \in Programs)
    /\ vm \in {"off", "up", "gone"} /\ (vm = "off" <=> pc \in {"down", "outer", "stopped"})
    /\ link \in {"none", "open", "closed"} /\ (link # "none" <=> pc \in {"top", "waiting"})
    /\ console \in BOOLEAN /\ missed \in BOOLEAN /\ rebased \in BOOLEAN
    /\ wire \subseteq Requests /\ answers \subseteq Answers
    /\ known \subseteq Signals /\ updates \subseteq Signals
    /\ hits \in [Programs -> SUBSET Signals]

(* run_instance never compares the id of an ExecResult: every answer that  *)
(* can arrive while it waits is one to the request in hand, because a      *)
(* request is given up only together with the VM.                          *)
AnswersMatchRequest ==
    pc = "waiting" => \A a \in answers : a.id = reqId /\ a.prog = prog

(* While the link is up, and unless an update could not be sent, the       *)
(* executor knows exactly the signal of the corpus, or is about to: it     *)
(* neither reports old signal as new nor hides signal the corpus lacks.    *)
ExecutorKnowsTheCorpus ==
    link = "open" /\ ~missed => known \cup updates = corpus.signal

(* max_execs bounds the requests of all VMs together, answered or not, and *)
(* each answer is counted once.                                            *)
LimitRespected == execs <= attempts /\ attempts <= MaxExecs

(* As long as no load skipped programs, there is a program in the corpus   *)
(* for all signal in it that really produced it; add_result drops signal   *)
(* no listed program can reach again otherwise.                            *)
SignalsAreWitnessed ==
    ~rebased => corpus.signal \subseteq UNION {hits[p] : p \in corpus.programs}

(* The snapshot on disk is never overwritten by one with less in it,       *)
(* through failed saves, kills and restarts, unless a load skipped         *)
(* programs or failed.                                                     *)
DiskNeverForgets ==
    [][~rebased => disk.signal \subseteq disk'.signal /\ disk.programs \subseteq disk'.programs]_vars

(* The manager stops at max_execs, if it is not left with nothing but      *)
(* programs it refuses: then it generates and skips programs forever.      *)
StopsOrStarves ==
    <>(pc = "stopped") \/ <>[](pc = "top" /\ \A p \in Programs : Refused(p))

(* A crash that shows on the console while programs are run is saved       *)
(* before the VM is dropped, if the manager lives.                         *)
EveryConsoleCrashIsSaved ==
    [][/\ pc \in {"top", "waiting"}
       /\ console /\ ~console' /\ pc' # "down"
       => reports' = reports + 1]_vars
=============================================================================
