--------------------------- MODULE ManagerProofs ----------------------------
(***************************************************************************)
(* Proofs about Manager for any set of programs and signals, any max_execs *)
(* and any number of faults.                                               *)
(***************************************************************************)
EXTENDS Manager, TLAPS

-----------------------------------------------------------------------------
(* The inductive invariant.                                                *)

(* At most one request is outstanding, and it is the one in hand: it is on *)
(* the wire or answered, not both, and only while the manager waits.       *)
WireInv ==
    /\ pc # "waiting" => wire = {} /\ answers = {}
    /\ \A r \in wire : r.id = reqId /\ r.prog = prog
    /\ \A r, q \in wire : r = q
    /\ \A a \in answers : a.id = reqId /\ a.prog = prog /\ wire = {}
    /\ \A a, b \in answers : a = b

(* In the loop the limit is still ahead, and the request in hand is not    *)
(* answered yet.                                                           *)
LimitInv ==
    /\ execs <= attempts /\ attempts <= MaxExecs
    /\ pc \in {"booting", "top"} => attempts < MaxExecs
    /\ pc = "waiting" => execs < attempts

(* Between two steps no new signal is left over, and what the executor was *)
(* told is dropped with the link.                                          *)
KnowInv ==
    /\ corpus.fresh = {}
    /\ link = "none" => known = {} /\ updates = {}
    /\ link = "open" /\ ~missed => known \cup updates = corpus.signal

Witnessed(c) == \A s \in c.signal : \E p \in c.programs : s \in hits[p]

(* Answers carry what their programs produced; the corpus and the snapshot *)
(* list a producer of all their signal.                                    *)
WitnessInv ==
    /\ \A a \in answers : a.signal \subseteq hits[a.prog]
    /\ ~rebased => Witnessed(corpus) /\ Witnessed(disk)

(* The snapshot is behind the corpus in memory, never ahead of it.         *)
DiskInv ==
    ~rebased /\ pc # "down" =>
        disk.signal \subseteq corpus.signal /\ disk.programs \subseteq corpus.programs

IInv == TypeOK /\ WireInv /\ LimitInv /\ KnowInv /\ WitnessInv /\ DiskInv

-----------------------------------------------------------------------------
LEMMA InitInv == Init => IInv
<1>1. Init => TypeOK
  <2> SUFFICES ASSUME Init PROVE TypeOK
    OBVIOUS
  <2>1. console \in BOOLEAN /\ missed \in BOOLEAN /\ rebased \in BOOLEAN
    BY DEF Init
  <2>2. corpus \in Corpora /\ disk \in Snapshots /\ hits \in [Programs -> SUBSET Signals]
    BY DEF Init, NewCorpus, Snapshot, Corpora, Snapshots
  <2> QED BY <2>1, <2>2 DEF Init, TypeOK
<1>2. Init => WireInv /\ LimitInv /\ KnowInv /\ WitnessInv /\ DiskInv
  BY ManagerAssumption DEF Init, WireInv, LimitInv, KnowInv, WitnessInv, Witnessed, DiskInv,
     NewCorpus, Snapshot
<1> QED BY <1>1, <1>2 DEF IInv

(* The corpus operations stay within their types.                          *)
LEMMA CorpusTypes ==
    ASSUME NEW c \in Corpora, NEW p \in Programs, NEW signal \in SUBSET Signals
    PROVE  /\ Added(c, p, signal) \in Corpora /\ Taken(Added(c, p, signal)) \in Corpora
           /\ Snapshot(Added(c, p, signal)) \in Snapshots
  BY DEF Corpora, Snapshots, Added, Taken, Snapshot

(* What a load makes of the snapshot.                                      *)
LEMMA LoadedFacts ==
    ASSUME NEW d \in Snapshots, NEW valid \in SUBSET Programs
    PROVE  /\ Loaded(d, valid) \in Corpora
           /\ Loaded(d, valid).fresh = {}
           /\ Loaded(d, valid).signal = d.signal
           /\ Loaded(d, valid).programs = d.programs \cap valid
           /\ d.programs \subseteq Programs
  BY DEF Corpora, Snapshots, Loaded

(* What recording an answer does to a corpus.                              *)
LEMMA AddedFacts ==
    ASSUME NEW c \in Corpora, NEW p \in Programs, NEW signal \in SUBSET Signals, c.fresh = {}
    PROVE  LET added == Added(c, p, signal)
               new == HasNew(c, signal)
           IN  /\ added.signal = c.signal \cup signal
               /\ added.programs = IF new THEN c.programs \cup {p} ELSE c.programs
               /\ added.fresh = signal \ c.signal
               /\ Taken(added).signal = c.signal \cup signal
               /\ Taken(added).programs = added.programs
               /\ Taken(added).fresh = {}
               /\ Snapshot(added).signal = c.signal \cup signal
               /\ Snapshot(added).programs = added.programs
               /\ ~new => signal \subseteq c.signal
  BY DEF Corpora, Added, Taken, Snapshot, HasNew

-----------------------------------------------------------------------------
LEMMA TypeStep == TypeOK /\ [Next]_vars => TypeOK'
<1> SUFFICES ASSUME TypeOK, [Next]_vars PROVE TypeOK'
  OBVIOUS
<1> USE ManagerAssumption
<1>1. CASE Load
  <2>1. corpus' \in Corpora
    <3>1. NewCorpus \in Corpora
      BY DEF NewCorpus, Corpora
    <3>2. disk \in Snapshots /\ Programs \in SUBSET Programs
      BY DEF TypeOK
    <3>3. \A valid \in SUBSET Programs : Loaded(disk, valid) \in Corpora
      BY <3>2, LoadedFacts
    <3> QED BY <1>1, <3>1, <3>2, <3>3 DEF Load
  <2>2. rebased' \in BOOLEAN
    <3>1. rebased' = rebased \/ rebased' = TRUE
      BY <1>1 DEF Load
    <3> QED BY <3>1 DEF TypeOK
  <2>3. faults' \in Nat
    BY <1>1 DEF Load, TypeOK, Fault
  <2>4. /\ pc' = "outer" /\ remembered' = {} /\ attempts' = 0 /\ execs' = 0
        /\ UNCHANGED <<disk, avoided, prog, reqId, guest, reports, hits, missed>>
        /\ pc = "down"
    BY <1>1 DEF Load
  <2> QED BY <2>1, <2>2, <2>3, <2>4 DEF TypeOK, guest
<1>2. CASE Stop
  BY <1>2 DEF Stop, TypeOK, manager, guest, history
<1>3. CASE Boot
  BY <1>3 DEF Boot, TypeOK, manager, history
<1>4. CASE BootFails
  <2>1. console' \in BOOLEAN
    BY <1>4 DEF BootFails, Discard
  <2> QED BY <1>4, <2>1 DEF BootFails, TypeOK, Discard, Fault, manager
<1>5. CASE Connect
  BY <1>5 DEF Connect, TypeOK, Corpora
<1>6. CASE Replace
  <2>1. console' \in BOOLEAN
    BY <1>6 DEF Replace, Discard
  <2> QED BY <1>6, <2>1 DEF Replace, TypeOK, Discard, Fault, manager
<1>7. CASE SendFails
  <2>1. console' \in BOOLEAN
    BY <1>7 DEF SendFails, Discard
  <2> QED BY <1>7, <2>1 DEF SendFails, TypeOK, Discard, manager, history, GoOn
<1>8. CASE Expire
  <2>1. console' \in BOOLEAN
    BY <1>8 DEF Expire, Discard
  <2> QED BY <1>8, <2>1 DEF Expire, TypeOK, Discard, history, Learn
<1>9. CASE RecvFails
  <2>1. console' \in BOOLEAN
    BY <1>9 DEF RecvFails, Discard
  <2> QED BY <1>9, <2>1 DEF RecvFails, TypeOK, Discard, manager, history
<1>10. ASSUME NEW p \in Programs, Send(p) PROVE TypeOK'
  <2>1. [id |-> reqId, prog |-> p] \in Requests
    BY DEF TypeOK, Requests
  <2> QED BY <1>10, <2>1 DEF Send, GoOn, TypeOK, history
<1>11. ASSUME NEW a \in answers, Receive(a) PROVE TypeOK'
  <2> DEFINE added == Added(corpus, prog, a.signal)
  <2>1. a \in Answers /\ prog \in Programs /\ a.signal \in SUBSET Signals
    BY <1>11 DEF Receive, TypeOK, Answers
  <2>2. added \in Corpora /\ Taken(added) \in Corpora /\ Snapshot(added) \in Snapshots
    BY <2>1, CorpusTypes DEF TypeOK
  <2>3. added.fresh \subseteq Signals
    BY <2>2 DEF Corpora
  <2>4. PICK sent \in BOOLEAN, saved \in BOOLEAN, reported \in BOOLEAN :
          /\ IF (sent \/ link = "closed") /\ saved /\ reported THEN UNCHANGED faults ELSE Fault
          /\ corpus' = IF HasNew(corpus, a.signal) THEN Taken(added) ELSE corpus
          /\ disk' = IF HasNew(corpus, a.signal) /\ saved THEN Snapshot(added) ELSE disk
          /\ missed' = (missed \/ ~sent)
          /\ \/ /\ LimitReached \/ ~reported
                /\ Discard
                /\ UNCHANGED reqId
             \/ /\ ~LimitReached /\ reported
                /\ pc' = "top"
                /\ reqId' = reqId + 1
                /\ answers' = answers \ {a}
                /\ updates' = IF HasNew(corpus, a.signal) /\ sent THEN updates \cup added.fresh ELSE updates
                /\ UNCHANGED <<vm, console, link, wire, known>>
    BY <1>11 DEF Receive
  <2>5. remembered' \subseteq Programs /\ avoided' \subseteq Programs
    BY <1>11, <2>1 DEF Receive, Learn, TypeOK
  <2>6. corpus' \in Corpora /\ disk' \in Snapshots /\ faults' \in Nat /\ missed' \in BOOLEAN
    BY <2>2, <2>4 DEF TypeOK, Fault
  <2> HIDE DEF added
  <2>7. /\ execs' = execs + 1 /\ pc = "waiting"
        /\ UNCHANGED <<attempts, prog, reports, hits, rebased>>
    BY <1>11 DEF Receive
  <2>8. CASE Discard /\ UNCHANGED reqId
    <3>1. console' \in BOOLEAN
      BY <2>8 DEF Discard
    <3> QED BY <2>5, <2>6, <2>7, <2>8, <3>1 DEF TypeOK, Discard
  <2>9. CASE /\ pc' = "top"
             /\ reqId' = reqId + 1
             /\ answers' = answers \ {a}
             /\ updates' = IF HasNew(corpus, a.signal) /\ sent THEN updates \cup added.fresh ELSE updates
             /\ UNCHANGED <<vm, console, link, wire, known>>
    BY <2>3, <2>5, <2>6, <2>7, <2>9 DEF TypeOK
  <2> QED BY <2>4, <2>8, <2>9
<1>12. ASSUME NEW r \in wire, NEW hanged \in BOOLEAN, NEW signal \in SUBSET Signals, Answer(r, hanged, signal)
       PROVE  TypeOK'
  <2>1. r.id \in Nat /\ r.prog \in Programs
    BY DEF TypeOK, Requests
  <2>2. [id |-> r.id, prog |-> r.prog, hanged |-> hanged, signal |-> signal] \in Answers
    BY <2>1 DEF Answers
  <2>3. hits' \in [Programs -> SUBSET Signals]
    BY <1>12, <2>1 DEF Answer, TypeOK
  <2>4. wire' \subseteq Requests /\ answers' \subseteq Answers
    BY <1>12, <2>2 DEF Answer, TypeOK
  <2> QED BY <1>12, <2>3, <2>4 DEF Answer, TypeOK, manager
<1>13. CASE Absorb
  BY <1>13 DEF Absorb, TypeOK, manager, history
<1>14. CASE Crash
  BY <1>14 DEF Crash, TypeOK, Fault, manager
<1>15. CASE Exit
  BY <1>15 DEF Exit, TypeOK, Fault, manager
<1>16. CASE LinkDrops
  BY <1>16 DEF LinkDrops, TypeOK, Fault, manager
<1>17. CASE Kill
  <2>1. console' \in BOOLEAN
    BY <1>17 DEF Kill
  <2> QED BY <1>17, <2>1 DEF Kill, TypeOK, Fault, manager
<1>18. CASE UNCHANGED vars
  BY <1>18 DEF vars, manager, guest, history, TypeOK
<1> QED
  BY <1>1, <1>2, <1>3, <1>4, <1>5, <1>6, <1>7, <1>8, <1>9, <1>10, <1>11, <1>12, <1>13, <1>14,
     <1>15, <1>16, <1>17, <1>18 DEF Next, ManagerStep, GuestStep, Skip

-----------------------------------------------------------------------------
LEMMA WireStep == TypeOK /\ WireInv /\ [Next]_vars => WireInv'
<1> SUFFICES ASSUME TypeOK, WireInv, [Next]_vars PROVE WireInv'
  OBVIOUS
<1>1. CASE Load \/ Stop \/ Boot
  BY <1>1 DEF Load, Stop, Boot, manager, guest, WireInv
<1>2. CASE BootFails \/ Replace \/ SendFails \/ Expire \/ RecvFails \/ Kill
  <2>1. pc' # "waiting" /\ wire' = {} /\ answers' = {}
    BY <1>2 DEF BootFails, Replace, SendFails, Expire, RecvFails, Kill, Discard
  <2> QED BY <2>1 DEF WireInv
<1>3. CASE Connect
  BY <1>3 DEF Connect, WireInv
<1>4. ASSUME NEW p \in Programs, Send(p) PROVE WireInv'
  BY <1>4 DEF Send, GoOn, WireInv
<1>5. ASSUME NEW a \in answers, Receive(a) PROVE WireInv'
  <2>1. answers \ {a} = {} /\ wire = {}
    BY DEF WireInv
  <2>2. \/ Discard
        \/ pc' = "top" /\ answers' = answers \ {a} /\ wire' = wire
    BY <1>5 DEF Receive
  <2> QED BY <2>1, <2>2 DEF Discard, WireInv
<1>6. ASSUME NEW r \in wire, NEW hanged \in BOOLEAN, NEW signal \in SUBSET Signals, Answer(r, hanged, signal)
      PROVE  WireInv'
  <2> DEFINE a == [id |-> r.id, prog |-> r.prog, hanged |-> hanged, signal |-> signal]
  <2>1. a.id = reqId /\ a.prog = prog /\ pc = "waiting"
    BY DEF WireInv
  <2>2. answers = {} /\ wire \ {r} = {}
    BY DEF WireInv
  <2>3. wire' = {} /\ answers' = {a} /\ UNCHANGED <<pc, reqId, prog>>
    BY <1>6, <2>2 DEF Answer, manager
  <2> HIDE DEF a
  <2> QED BY <2>1, <2>3 DEF WireInv
<1>7. CASE Absorb \/ Crash \/ Exit \/ LinkDrops \/ UNCHANGED vars
  <2>1. UNCHANGED <<pc, wire, answers, reqId, prog>>
    BY <1>7 DEF Absorb, Crash, Exit, LinkDrops, vars, manager, guest
  <2> QED BY <2>1 DEF WireInv
<1> QED
  BY <1>1, <1>2, <1>3, <1>4, <1>5, <1>6, <1>7 DEF Next, ManagerStep, GuestStep, Skip

-----------------------------------------------------------------------------
LEMMA LimitStep == TypeOK /\ LimitInv /\ [Next]_vars => LimitInv'
<1> SUFFICES ASSUME TypeOK, LimitInv, [Next]_vars PROVE LimitInv'
  OBVIOUS
<1> USE ManagerAssumption
<1>1. attempts \in Nat /\ execs \in Nat
  BY DEF TypeOK
<1>2. CASE Load
  BY <1>1, <1>2 DEF Load, LimitInv
<1>3. CASE Stop \/ Boot
  BY <1>1, <1>3 DEF Stop, Boot, LimitReached, manager, LimitInv
<1>4. CASE BootFails \/ Replace \/ SendFails \/ Expire \/ RecvFails \/ Kill
  <2>1. pc' \in {"outer", "down"} /\ UNCHANGED <<attempts, execs>>
    BY <1>4 DEF BootFails, Replace, SendFails, Expire, RecvFails, Kill, Discard, manager
  <2> QED BY <1>1, <2>1 DEF LimitInv
<1>5. CASE Connect
  BY <1>1, <1>5 DEF Connect, LimitInv
<1>6. ASSUME NEW p \in Programs, Send(p) PROVE LimitInv'
  BY <1>1, <1>6 DEF Send, GoOn, LimitInv
<1>7. ASSUME NEW a \in answers, Receive(a) PROVE LimitInv'
  <2>1. pc = "waiting" /\ execs' = execs + 1 /\ attempts' = attempts
    BY <1>7 DEF Receive
  <2>2. pc' = "outer" \/ (pc' = "top" /\ ~LimitReached)
    BY <1>7 DEF Receive, Discard
  <2> QED BY <1>1, <2>1, <2>2 DEF LimitReached, LimitInv
<1>8. ASSUME NEW r \in wire, NEW hanged \in BOOLEAN, NEW signal \in SUBSET Signals, Answer(r, hanged, signal)
      PROVE  LimitInv'
  BY <1>8 DEF Answer, manager, LimitInv
<1>9. CASE Absorb \/ Crash \/ Exit \/ LinkDrops \/ UNCHANGED vars
  <2>1. UNCHANGED <<pc, attempts, execs>>
    BY <1>9 DEF Absorb, Crash, Exit, LinkDrops, vars, manager
  <2> QED BY <2>1 DEF LimitInv
<1> QED
  BY <1>2, <1>3, <1>4, <1>5, <1>6, <1>7, <1>8, <1>9 DEF Next, ManagerStep, GuestStep, Skip

-----------------------------------------------------------------------------
(* What processing an answer does to the corpus, its snapshot and the link.*)
LEMMA ReceiveFacts ==
    ASSUME TypeOK, WireInv, KnowInv, NEW a \in answers, Receive(a)
    PROVE  /\ a.prog = prog /\ prog \in Programs
           /\ corpus'.fresh = {}
           /\ corpus'.signal = corpus.signal \cup a.signal
           /\ corpus.programs \subseteq corpus'.programs
           /\ a.signal \subseteq corpus.signal \/ prog \in corpus'.programs
           /\ disk' = disk \/ (disk'.signal = corpus'.signal /\ disk'.programs = corpus'.programs)
           /\ \/ Discard
              \/ /\ pc' = "top" /\ answers' = {} /\ UNCHANGED <<link, known>>
                 /\ missed' \/ (~missed /\ updates' = updates \cup (a.signal \ corpus.signal))
<1> DEFINE added == Added(corpus, prog, a.signal)
           new == HasNew(corpus, a.signal)
<1>1. /\ a.prog = prog /\ prog \in Programs /\ a.signal \in SUBSET Signals
      /\ corpus \in Corpora /\ corpus.fresh = {} /\ answers \ {a} = {}
  BY DEF Receive, TypeOK, WireInv, KnowInv, Answers
<1>2. PICK sent \in BOOLEAN, saved \in BOOLEAN, reported \in BOOLEAN :
        /\ (~sent \/ ~saved) => new
        /\ corpus' = IF new THEN Taken(added) ELSE corpus
        /\ disk' = IF new /\ saved THEN Snapshot(added) ELSE disk
        /\ missed' = (missed \/ ~sent)
        /\ \/ Discard
           \/ /\ pc' = "top"
              /\ answers' = answers \ {a}
              /\ updates' = IF new /\ sent THEN updates \cup added.fresh ELSE updates
              /\ UNCHANGED <<vm, console, link, wire, known>>
  BY DEF Receive
<1>3. /\ added.fresh = a.signal \ corpus.signal
      /\ Taken(added).signal = corpus.signal \cup a.signal
      /\ Taken(added).programs = added.programs
      /\ Taken(added).fresh = {}
      /\ Snapshot(added).signal = corpus.signal \cup a.signal
      /\ Snapshot(added).programs = added.programs
      /\ added.programs = IF new THEN corpus.programs \cup {prog} ELSE corpus.programs
      /\ ~new => a.signal \subseteq corpus.signal
  BY <1>1, AddedFacts
<1> HIDE DEF added, new
<1>4. /\ corpus'.fresh = {}
      /\ corpus'.signal = corpus.signal \cup a.signal
      /\ corpus.programs \subseteq corpus'.programs
      /\ a.signal \subseteq corpus.signal \/ prog \in corpus'.programs
  BY <1>1, <1>2, <1>3
<1>5. disk' = disk \/ (disk'.signal = corpus'.signal /\ disk'.programs = corpus'.programs)
  BY <1>2, <1>3
<1>6. CASE Discard
  BY <1>1, <1>4, <1>5, <1>6
<1>7. CASE ~Discard
  <2>1. /\ pc' = "top" /\ answers' = {} /\ UNCHANGED <<link, known>>
        /\ updates' = IF new /\ sent THEN updates \cup added.fresh ELSE updates
    BY <1>1, <1>2, <1>7
  <2>2. missed' \/ (~missed /\ sent)
    BY <1>2
  <2>3. sent => updates' = updates \cup (a.signal \ corpus.signal)
    BY <1>3, <2>1
  <2> QED BY <1>1, <1>4, <1>5, <2>1, <2>2, <2>3
<1> QED BY <1>6, <1>7

LEMMA KnowStep == TypeOK /\ WireInv /\ KnowInv /\ [Next]_vars => KnowInv'
<1> SUFFICES ASSUME TypeOK, WireInv, KnowInv, [Next]_vars PROVE KnowInv'
  OBVIOUS
<1>1. CASE Load
  <2>1. corpus'.fresh = {}
    <3>1. NewCorpus.fresh = {}
      BY DEF NewCorpus
    <3>2. \A valid \in SUBSET Programs : Loaded(disk, valid).fresh = {}
      BY LoadedFacts DEF TypeOK
    <3>3. Loaded(disk, Programs).fresh = {}
      BY <3>2
    <3> QED BY <1>1, <3>1, <3>2, <3>3 DEF Load
  <2>2. link = "none" /\ UNCHANGED <<link, known, updates>>
    BY <1>1 DEF Load, TypeOK, guest
  <2> QED BY <2>1, <2>2 DEF KnowInv
<1>2. CASE BootFails \/ Replace \/ SendFails \/ Expire \/ RecvFails \/ Kill
  <2>1. link' = "none" /\ known' = {} /\ updates' = {} /\ corpus' = corpus
    BY <1>2 DEF BootFails, Replace, SendFails, Expire, RecvFails, Kill, Discard, manager
  <2> QED BY <2>1 DEF KnowInv
<1>3. CASE Connect
  <2>1. link = "none"
    BY <1>3 DEF Connect, TypeOK
  <2> QED BY <1>3, <2>1 DEF Connect, KnowInv
<1>4. ASSUME NEW a \in answers, Receive(a) PROVE KnowInv'
  <2>1. /\ corpus'.fresh = {}
        /\ corpus'.signal = corpus.signal \cup a.signal
        /\ \/ Discard
           \/ /\ pc' = "top" /\ UNCHANGED <<link, known>>
              /\ missed' \/ (~missed /\ updates' = updates \cup (a.signal \ corpus.signal))
    BY <1>4, ReceiveFacts
  <2>2. CASE Discard
    BY <2>1, <2>2 DEF Discard, KnowInv
  <2>3. CASE /\ UNCHANGED <<link, known>>
             /\ missed' \/ (~missed /\ updates' = updates \cup (a.signal \ corpus.signal))
    <3>1. link # "none"
      BY <1>4 DEF Receive, TypeOK
    <3> QED BY <2>1, <2>3, <3>1 DEF KnowInv
  <2> QED BY <2>1, <2>2, <2>3
<1>5. CASE Absorb
  BY <1>5 DEF Absorb, manager, history, KnowInv
<1>6. CASE LinkDrops
  BY <1>6 DEF LinkDrops, manager, KnowInv
<1>7. ASSUME NEW p \in Programs, Send(p) PROVE KnowInv'
  BY <1>7 DEF Send, history, KnowInv
<1>8. ASSUME NEW r \in wire, NEW hanged \in BOOLEAN, NEW signal \in SUBSET Signals, Answer(r, hanged, signal)
      PROVE  KnowInv'
  BY <1>8 DEF Answer, manager, KnowInv
<1>9. CASE Stop \/ Boot \/ Crash \/ Exit \/ UNCHANGED vars
  <2>1. UNCHANGED <<corpus, link, known, updates, missed>>
    BY <1>9 DEF Stop, Boot, Crash, Exit, vars, manager, guest, history
  <2> QED BY <2>1 DEF KnowInv
<1> QED
  BY <1>1, <1>2, <1>3, <1>4, <1>5, <1>6, <1>7, <1>8, <1>9 DEF Next, ManagerStep, GuestStep, Skip

-----------------------------------------------------------------------------
(* With descriptions that validate everything, a load restores the snapshot.*)
LEMMA FullLoad ==
    ASSUME NEW d \in Snapshots
    PROVE  Loaded(d, Programs).signal = d.signal /\ Loaded(d, Programs).programs = d.programs
<1>1. Programs \in SUBSET Programs
  OBVIOUS
<1>2. /\ Loaded(d, Programs).signal = d.signal
      /\ Loaded(d, Programs).programs = d.programs \cap Programs
      /\ d.programs \subseteq Programs
  BY <1>1, LoadedFacts
<1>3. d.programs \cap Programs = d.programs
  BY <1>2
<1> QED BY <1>2, <1>3

LEMMA WitnessStep == TypeOK /\ WireInv /\ KnowInv /\ WitnessInv /\ [Next]_vars => WitnessInv'
<1> SUFFICES ASSUME TypeOK, WireInv, KnowInv, WitnessInv, [Next]_vars PROVE WitnessInv'
  OBVIOUS
<1>1. CASE Load
  <2>1. answers' = answers /\ hits' = hits /\ disk' = disk
    BY <1>1 DEF Load, guest
  <2>2. rebased' \/ (~rebased /\ corpus' = Loaded(disk, Programs))
    BY <1>1 DEF Load, TypeOK
  <2>3. /\ Loaded(disk, Programs).signal = disk.signal
        /\ Loaded(disk, Programs).programs = disk.programs
    BY FullLoad DEF TypeOK
  <2>4. ~rebased' => Witnessed(corpus)' /\ Witnessed(disk)'
    BY <2>1, <2>2, <2>3 DEF WitnessInv, Witnessed
  <2> QED BY <2>1, <2>4 DEF WitnessInv
<1>2. ASSUME NEW a \in answers, Receive(a) PROVE WitnessInv'
  <2>1. /\ a.prog = prog
        /\ corpus'.signal = corpus.signal \cup a.signal
        /\ corpus.programs \subseteq corpus'.programs
        /\ a.signal \subseteq corpus.signal \/ prog \in corpus'.programs
        /\ disk' = disk \/ (disk'.signal = corpus'.signal /\ disk'.programs = corpus'.programs)
        /\ Discard \/ answers' = {}
    BY <1>2, ReceiveFacts
  <2>2. hits' = hits /\ rebased' = rebased
    BY <1>2 DEF Receive
  <2>3. answers' = {}
    BY <2>1 DEF Discard
  <2>4. a.signal \subseteq hits[prog]
    BY <2>1 DEF WitnessInv
  <2>5. ~rebased => Witnessed(corpus)'
    BY <2>1, <2>2, <2>4 DEF WitnessInv, Witnessed
  <2>6. ~rebased => Witnessed(disk)'
    BY <2>1, <2>2, <2>5 DEF WitnessInv, Witnessed
  <2> QED BY <2>2, <2>3, <2>5, <2>6 DEF WitnessInv
<1>3. ASSUME NEW r \in wire, NEW hanged \in BOOLEAN, NEW signal \in SUBSET Signals, Answer(r, hanged, signal)
      PROVE  WitnessInv'
  <2> DEFINE b == [id |-> r.id, prog |-> r.prog, hanged |-> hanged, signal |-> signal]
  <2>1. /\ answers' = answers \cup {b}
        /\ hits' = [hits EXCEPT ![r.prog] = @ \cup signal]
        /\ UNCHANGED <<corpus, disk, rebased>>
    BY <1>3 DEF Answer, manager
  <2>2. r.prog \in Programs /\ hits \in [Programs -> SUBSET Signals]
    BY DEF TypeOK, Requests
  <2>3. b.signal = signal /\ b.prog = r.prog
    OBVIOUS
  <2> HIDE DEF b
  <2>4. \A p \in Programs : hits[p] \subseteq hits'[p]
    BY <2>1, <2>2
  <2>5. signal \subseteq hits'[r.prog]
    BY <2>1, <2>2
  <2>6. \A a \in answers : a.prog \in Programs /\ a.signal \subseteq hits[a.prog]
    BY DEF TypeOK, Answers, WitnessInv
  <2>7. \A a \in answers' : a.signal \subseteq hits'[a.prog]
    BY <2>1, <2>3, <2>4, <2>5, <2>6
  <2>8. corpus.programs \subseteq Programs /\ disk.programs \subseteq Programs
    BY DEF TypeOK, Corpora, Snapshots
  <2>9. ~rebased => Witnessed(corpus)' /\ Witnessed(disk)'
    BY <2>1, <2>4, <2>8 DEF WitnessInv, Witnessed
  <2> QED BY <2>1, <2>7, <2>9 DEF WitnessInv
<1>4. CASE BootFails \/ Replace \/ SendFails \/ Expire \/ RecvFails \/ Kill
  <2>1. answers' = {} /\ UNCHANGED <<corpus, disk, hits, rebased>>
    BY <1>4 DEF BootFails, Replace, SendFails, Expire, RecvFails, Kill, Discard, manager, history
  <2> QED BY <2>1 DEF WitnessInv, Witnessed
<1>5. ASSUME NEW p \in Programs, Send(p) PROVE WitnessInv'
  BY <1>5 DEF Send, history, WitnessInv, Witnessed
<1>6. CASE Stop \/ Boot \/ Connect \/ Absorb \/ Crash \/ Exit \/ LinkDrops \/ UNCHANGED vars
  <2>1. UNCHANGED <<answers, corpus, disk, hits, rebased>>
    BY <1>6 DEF Stop, Boot, Connect, Absorb, Crash, Exit, LinkDrops, vars, manager, guest, history
  <2> QED BY <2>1 DEF WitnessInv, Witnessed
<1> QED
  BY <1>1, <1>2, <1>3, <1>4, <1>5, <1>6 DEF Next, ManagerStep, GuestStep, Skip

-----------------------------------------------------------------------------
Keeps == disk.signal \subseteq disk'.signal /\ disk.programs \subseteq disk'.programs

LEMMA DiskStep ==
    TypeOK /\ WireInv /\ KnowInv /\ DiskInv /\ [Next]_vars => DiskInv' /\ (~rebased => Keeps)
<1> SUFFICES ASSUME TypeOK, WireInv, KnowInv, DiskInv, [Next]_vars
             PROVE  DiskInv' /\ (~rebased => Keeps)
  OBVIOUS
<1>1. CASE Load
  <2>1. disk' = disk /\ (rebased' \/ (~rebased /\ corpus' = Loaded(disk, Programs)))
    BY <1>1 DEF Load, TypeOK
  <2>2. /\ Loaded(disk, Programs).signal = disk.signal
        /\ Loaded(disk, Programs).programs = disk.programs
    BY FullLoad DEF TypeOK
  <2> QED BY <2>1, <2>2 DEF DiskInv, Keeps
<1>2. ASSUME NEW a \in answers, Receive(a) PROVE DiskInv' /\ (~rebased => Keeps)
  <2>1. /\ corpus'.signal = corpus.signal \cup a.signal
        /\ corpus.programs \subseteq corpus'.programs
        /\ disk' = disk \/ (disk'.signal = corpus'.signal /\ disk'.programs = corpus'.programs)
    BY <1>2, ReceiveFacts
  <2>2. pc = "waiting" /\ rebased' = rebased
    BY <1>2 DEF Receive
  <2> QED BY <2>1, <2>2 DEF DiskInv, Keeps
<1>3. ASSUME NEW p \in Programs, Send(p) PROVE DiskInv' /\ (~rebased => Keeps)
  BY <1>3 DEF Send, GoOn, history, DiskInv, Keeps
<1>4. ASSUME NEW r \in wire, NEW hanged \in BOOLEAN, NEW signal \in SUBSET Signals, Answer(r, hanged, signal)
      PROVE  DiskInv' /\ (~rebased => Keeps)
  BY <1>4 DEF Answer, manager, DiskInv, Keeps
<1>5. CASE \/ Stop \/ Boot \/ BootFails \/ Connect \/ Replace \/ SendFails \/ Expire \/ RecvFails
           \/ Kill \/ Absorb \/ Crash \/ Exit \/ LinkDrops \/ UNCHANGED vars
  <2>1. UNCHANGED <<corpus, disk, rebased>> /\ (pc' = "down" \/ pc # "down" \/ pc' = pc)
    BY <1>5 DEF Stop, Boot, BootFails, Connect, Replace, GoOn, SendFails, Expire, RecvFails, Kill,
       Discard, Absorb, Crash, Exit, LinkDrops, vars, manager, guest, history
  <2> QED BY <2>1 DEF DiskInv, Keeps
<1> QED
  BY <1>1, <1>2, <1>3, <1>4, <1>5 DEF Next, ManagerStep, GuestStep, Skip

-----------------------------------------------------------------------------
THEOREM Invariance == Spec => []IInv
<1>1. IInv /\ [Next]_vars => IInv'
  BY TypeStep, WireStep, LimitStep, KnowStep, WitnessStep, DiskStep DEF IInv
<1> QED BY InitInv, <1>1, PTL DEF Spec

(* Types, and the life of a VM and of its link, over any sequence of       *)
(* crashes, kills and failures.                                            *)
THEOREM TypeCorrect == Spec => []TypeOK
<1>1. IInv => TypeOK
  BY DEF IInv
<1> QED BY Invariance, <1>1, PTL

(* Every answer run_instance can read is one to the request in hand.       *)
THEOREM AnswersAreAttributed == Spec => []AnswersMatchRequest
<1>1. IInv => AnswersMatchRequest
  BY DEF IInv, WireInv, AnswersMatchRequest
<1> QED BY Invariance, <1>1, PTL

(* The executor of an intact VM knows the signal of the corpus.            *)
THEOREM ExecutorIsInStep == Spec => []ExecutorKnowsTheCorpus
<1>1. IInv => ExecutorKnowsTheCorpus
  BY DEF IInv, KnowInv, ExecutorKnowsTheCorpus
<1> QED BY Invariance, <1>1, PTL

(* No more than max_execs requests are made in the life of a manager.      *)
THEOREM LimitHolds == Spec => []LimitRespected
<1>1. IInv => LimitRespected
  BY DEF IInv, LimitInv, LimitRespected
<1> QED BY Invariance, <1>1, PTL

(* All signal of the corpus comes from a program that is listed in it.     *)
THEOREM SignalsAreReachable == Spec => []SignalsAreWitnessed
<1>1. IInv => SignalsAreWitnessed
  BY DEF IInv, WitnessInv, Witnessed, SignalsAreWitnessed
<1> QED BY Invariance, <1>1, PTL

(* No save overwrites the snapshot with less than it holds.                *)
THEOREM SnapshotGrows == Spec => DiskNeverForgets
<1>1. IInv /\ [Next]_vars
      => [~rebased => disk.signal \subseteq disk'.signal /\ disk.programs \subseteq disk'.programs]_vars
  BY DiskStep DEF IInv, Keeps
<1> QED BY Invariance, <1>1, PTL DEF Spec, DiskNeverForgets
=============================================================================
