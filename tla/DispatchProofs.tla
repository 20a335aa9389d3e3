--------------------------- MODULE DispatchProofs ---------------------------
(***************************************************************************)
(* The queue, the rows and the passes agree, and no receipt is forgotten,  *)
(* for every number of receipts, files, workers and entries.               *)
(*                                                                         *)
(* DispatchInv is inductive. Its heart is FoundInv: a pending receipt is   *)
(* just committed, or in the queue, or ahead of the pass, or excused from  *)
(* it by something that starts another one. It needs the others: QueueInv  *)
(* says that who is in the map is in the channel or with a worker, so that *)
(* the entry is given up; CreditInv that one worker at most probes, so     *)
(* that the pass is moved by nobody else; PassInv that the pass is where   *)
(* that worker is; RowInv that what is queued has been committed.          *)
(***************************************************************************)
EXTENDS DeferredDispatch, Lemmas, FiniteSetTheorems, SequenceTheorems

ProbePcs == {"probe", "select", "read", "examine", "admit"}
WorkPcs == {"work", "claimed", "finish", "mark", "release"}
PagePcs == {"examine", "admit"}
Pcs == {"idle"} \cup ProbePcs \cup WorkPcs

Time == Nat \cup {Null}
Files == 1 .. MaxFile

Entry == [state : {"free", "queued"}, epoch : Nat, revisit : BOOLEAN,
          complete : BOOLEAN]
Cursor == [ceiling : Nat, retry : BOOLEAN, after : Nat, seen : SUBSET Receipt]
Pass == [active : {TRUE}, historical : BOOLEAN, epoch : Nat,
         files : (SUBSET Files) \cup {Null}, file : Files \cup {Null},
         currentDone : BOOLEAN, cursor : Cursor \cup {Null},
         later : SUBSET Receipt, leased : SUBSET Receipt]
Recovery == [ready : BOOLEAN, probing : BOOLEAN, turn : BOOLEAN,
             capacityBlocked : BOOLEAN, creditReserved : BOOLEAN,
             dirty : [Class -> BOOLEAN], fresh : [Class -> BOOLEAN],
             clockFresh : BOOLEAN, deadline : [Class -> Time],
             currentPath : Files, behind : Nat]
Service == [paused : BOOLEAN, epoch : Nat, excluded : SUBSET Files,
            transition : BOOLEAN]
Page == UNION {[S -> [leased : BOOLEAN, left : Nat]] : S \in SUBSET Receipt}
Slot == [pc : Pcs, receipt : Receipt \cup {Null}, epoch : Nat, owned : BOOLEAN,
         completed : BOOLEAN, page : Page, full : BOOLEAN]

Types ==
    /\ row \in [Receipt -> {"none", "pending", "complete"}]
    /\ wait \in [Receipt -> Time]
    /\ lease \in [Receipt -> Nat]
    /\ hook \in [Receipt -> {"absent", "evaluating", "committed", "done"}]
    /\ current \in Files
    /\ events \in Seq(Work)
    /\ queued \in [Receipt -> Entry]
    /\ queuedBytes \in 0 .. ByteLimit
    /\ service \in Service
    /\ recovery \in Recovery
    /\ pass = NoPass \/ pass \in Pass
    /\ worker \in [Worker -> Slot]
    /\ lifecycle \in {"none", "begun", "pausing", "drained", "published", "changed"}

\* A worker that has work has a receipt, and so has one about to admit it: the
\* least of its page.
Receipts ==
    \A w \in Worker :
        /\ worker[w].pc \in WorkPcs \cup {"admit"} => worker[w].receipt \in Receipt
        /\ worker[w].pc = "admit" =>
              /\ worker[w].receipt \in DOMAIN worker[w].page
              /\ \A s \in DOMAIN worker[w].page : worker[w].receipt <= s

\* The map, the channel and the workers have the same receipts, each once.
EventsInMap ==
    \A i \in 1 .. Len(events) :
       /\ InQueueMap(events[i].receipt)
       /\ events[i].epoch = queued[events[i].receipt].epoch
EventsDistinct ==
    \A i, j \in 1 .. Len(events) : events[i].receipt = events[j].receipt => i = j
HeldInMap ==
    \A w \in Worker, r \in Receipt : Holds(w, r) =>
       /\ InQueueMap(r)
       /\ worker[w].epoch = queued[r].epoch
       /\ \A v \in Worker : Holds(v, r) => v = w
       /\ \A i \in 1 .. Len(events) : events[i].receipt # r
MapHeld ==
    \A r \in Receipt : InQueueMap(r) =>
       \/ \E i \in 1 .. Len(events) : events[i].receipt = r
       \/ \E w \in Worker : Holds(w, r)
BytesCounted == queuedBytes = Cardinality({r \in Receipt : InQueueMap(r)})

QueueInv == EventsInMap /\ EventsDistinct /\ HeldInMap /\ MapHeld /\ BytesCounted

CreditInv ==
    /\ recovery.capacityBlocked => queuedBytes > 0
    /\ recovery.creditReserved => pass.active
    /\ recovery.probing <=> \E w \in Worker : worker[w].pc \in ProbePcs
    /\ \A v, w \in Worker :
          worker[v].pc \in ProbePcs /\ worker[w].pc \in ProbePcs => v = w

\* How far the pass is says what the worker that probes has to do.
PassInv ==
    /\ \A w \in Worker :
          /\ worker[w].pc \in ProbePcs \ {"probe"} => pass.active
          /\ worker[w].pc \in {"read", "examine", "admit"} => pass.file # Null
          /\ worker[w].pc \in PagePcs =>
                /\ pass.cursor \in Cursor
                /\ \A r \in DOMAIN worker[w].page : FileOf[r] = pass.file
    /\ pass.active =>
          /\ pass.file = Null => pass.cursor = Null
          /\ pass.file # Null => pass.file <= current
          /\ pass.files # Null => pass.files \subseteq 1 .. current
          /\ pass.epoch <= service.epoch
          /\ \A r \in pass.later : wait[r] # Null

RowInv ==
    /\ \A r \in Receipt :
          /\ row[r] # "none" => hook[r] \in {"committed", "done"}
          /\ hook[r] = "committed" => row[r] # "none"
          /\ hook[r] # "absent" => FileOf[r] <= current
          /\ InQueueMap(r) => row[r] # "none"
          /\ InQueueMap(r) /\ queued[r].complete => row[r] = "complete"
    /\ \A w \in Worker : worker[w].pc \in WorkPcs /\ worker[w].completed =>
          row[worker[w].receipt] = "complete"
    /\ \A w \in Worker : worker[w].pc \in PagePcs =>
          \A r \in DOMAIN worker[w].page : row[r] # "none"
    /\ recovery.currentPath <= current

-----------------------------------------------------------------------------
(* What leads the daemon to a receipt.                                      *)

\* A pass of the class will follow: the one in progress does not acknowledge it.
Wake(c) ==
    /\ recovery.dirty[c]
    /\ ~ /\ pass.active
         /\ pass.epoch = service.epoch
         /\ recovery.clockFresh
         /\ recovery.fresh[c]
         /\ c = "history" => pass.historical

Excused(f) ==
    \/ \E c \in {classOf(f), "history"} : Wake(c) \/ recovery.deadline[c] # Null
    \/ recovery.currentPath # current
    \/ f \in service.excluded

\* The pass has not come to f yet.
ToCome(f) ==
    /\ pass.active
    /\ IF pass.historical THEN pass.files = Null \/ f \in pass.files
       ELSE ~pass.currentDone /\ f = current

\* Neither the cursor nor the page of the worker has passed r.
AtCursor(r) ==
    IF wait[r] = Null
    THEN /\ ~pass.cursor.retry
         /\ pass.cursor.after < r /\ r <= pass.cursor.ceiling
         /\ \A w \in Worker : worker[w].pc \in PagePcs =>
               \/ r \in DOMAIN worker[w].page
               \/ worker[w].full /\ \A s \in DOMAIN worker[w].page : s < r
    ELSE \/ r \in pass.later
         \/ /\ r \notin pass.cursor.seen
            /\ pass.cursor.retry => \A w \in Worker : worker[w].pc \in PagePcs =>
                  r \in DOMAIN worker[w].page \/ worker[w].full

\* The pass is in the file of r, and has not passed it.
InFile(r) ==
    /\ pass.active
    /\ pass.file = FileOf[r]
    /\ \/ pass.cursor = Null /\ \A w \in Worker : worker[w].pc \notin PagePcs
       \/ pass.cursor \in Cursor /\ AtCursor(r)

\* It is queued or worked on, and when it is given up it is looked for again.
QueueLeads(r) ==
    /\ InQueueMap(r)
    /\ queued[r].revisit \/ \A w \in Worker : Holds(w, r) => worker[w].pc # "release"

\* Alone in its file with a time for the next attempt, or without one.
Alone(r) ==
    \/ wait[r] = Null
    \/ \A s \in Receipt : FileOf[s] = FileOf[r] /\ wait[s] # Null => s = r

Found(r) ==
    \/ hook[r] = "committed" /\ ~InQueueMap(r)
    \/ QueueLeads(r)
    \/ Excused(FileOf[r])
    \/ ToCome(FileOf[r])
    \/ InFile(r)

FoundInv == \A r \in Receipt : row[r] = "pending" /\ Alone(r) => Found(r)

\* A new file is to follow only while there is one.
LifecycleInv ==
    /\ lifecycle = "none" => ~service.transition
    /\ lifecycle \in {"begun", "pausing", "drained"} /\ service.transition =>
          current < MaxFile

DispatchInv == /\ Types /\ Receipts /\ QueueInv /\ CreditInv /\ PassInv
               /\ RowInv /\ FoundInv

(* What the types say of each part of the state.                             *)
LEMMA TypeFacts ==
    ASSUME Types
    PROVE  /\ recovery \in Recovery
           /\ service \in Service /\ service.epoch \in Nat
           /\ service.excluded \subseteq Files
           /\ current \in Files /\ current \in Nat
           /\ worker \in [Worker -> Slot]
           /\ pass.active => pass \in Pass /\ pass.epoch \in Nat
           /\ \A r \in Receipt : FileOf[r] \in Files
  <1>1. pass.active => pass \in Pass
    BY DEF Types, NoPass
  <1>2. pass \in Pass => pass.epoch \in Nat
    BY DEF Pass
  <1>3. service \in Service => service.epoch \in Nat /\ service.excluded \subseteq Files
    BY DEF Service
  <1> QED BY <1>1, <1>2, <1>3, DispatchAssumption DEF Types, Files

-----------------------------------------------------------------------------
(* The recovery state: what is raised stays raised until it is acknowledged. *)

Raised(rec, c) == rec.dirty[c] /\ ~rec.fresh[c]

\* What rec leads to, new leads to as well.
Grows(rec, new) ==
    \/ Raised(new, "history")
    \/ /\ new.currentPath = rec.currentPath
       /\ new.clockFresh => rec.clockFresh
       /\ \A c \in Class :
             \/ Raised(new, c)
             \/ /\ rec.dirty[c] => new.dirty[c]
                /\ new.fresh[c] => rec.fresh[c]
                /\ rec.deadline[c] # Null => new.deadline[c] # Null

\* The parts of the recovery state that only the workers use.
SameCredit(rec, new) ==
    /\ new.capacityBlocked = rec.capacityBlocked
    /\ new.creditReserved = rec.creditReserved
    /\ new.probing = rec.probing

(* A worker's class is one of the two.                                       *)
LEMMA ClassFacts ==
    /\ "current" \in Class /\ "history" \in Class
    /\ \A f \in Files : classOf(f) \in Class
  BY DEF Class, classOf

(* Raising the generations of some classes loses nothing.                    *)
LEMMA RaiseFacts ==
    ASSUME NEW rec \in Recovery, NEW C \in SUBSET Class
    PROVE  /\ raise(rec, C) \in Recovery
           /\ \A c \in C : Raised(raise(rec, C), c)
           /\ Grows(rec, raise(rec, C))
           /\ SameCredit(rec, raise(rec, C))
           /\ raise(rec, C).currentPath = rec.currentPath
  <1>1. raise(rec, C) \in Recovery
    BY DEF raise, Recovery
  <1>2. \A c \in Class : /\ raise(rec, C).dirty[c] = (rec.dirty[c] \/ c \in C)
                         /\ raise(rec, C).fresh[c] = (rec.fresh[c] /\ c \notin C)
    BY DEF raise, Recovery
  <1>3. /\ SameCredit(rec, raise(rec, C))
        /\ raise(rec, C).currentPath = rec.currentPath
        /\ raise(rec, C).clockFresh = rec.clockFresh
        /\ raise(rec, C).deadline = rec.deadline
    BY DEF raise, Recovery, SameCredit
  <1>4. Grows(rec, raise(rec, C))
    BY <1>1, <1>2, <1>3 DEF Grows
  <1> QED BY <1>1, <1>2, <1>3, <1>4 DEF Raised

(* The earlier of two deadlines is none only if both are.                    *)
LEMMA EarlierFacts ==
    ASSUME NEW old \in Time, NEW new \in Time
    PROVE  /\ earlierDeadline(old, new) \in Time
           /\ earlierDeadline(old, new) = Null <=> old = Null /\ new = Null
  BY DispatchAssumption DEF earlierDeadline, Time

(* A deadline of the file's class is set, and nothing else changes.          *)
LEMMA DeferFacts ==
    ASSUME NEW rec \in Recovery, NEW f \in Files, NEW delay \in Nat
    PROVE  /\ deferDiscovery(rec, f, delay) \in Recovery
           /\ deferDiscovery(rec, f, delay).deadline[classOf(f)] # Null
           /\ Grows(rec, deferDiscovery(rec, f, delay))
           /\ SameCredit(rec, deferDiscovery(rec, f, delay))
           /\ deferDiscovery(rec, f, delay).currentPath = rec.currentPath
  <1> DEFINE new == deferDiscovery(rec, f, delay)
             d == earlierDeadline(rec.deadline[classOf(f)], delay)
  <1>1. classOf(f) \in Class /\ rec.deadline \in [Class -> Time]
    BY ClassFacts DEF Recovery
  <1>2. d \in Time /\ d # Null
    BY <1>1, EarlierFacts, DispatchAssumption DEF Time
  <1>3. new = [rec EXCEPT !.deadline[classOf(f)] = d]
    BY DEF deferDiscovery
  <1> HIDE DEF d, new
  <1>4. [rec.deadline EXCEPT ![classOf(f)] = d] \in [Class -> Time]
    BY <1>1, <1>2
  <1>5. new \in Recovery
    BY <1>3, <1>4 DEF Recovery
  <1>6. /\ new.deadline = [rec.deadline EXCEPT ![classOf(f)] = d]
        /\ new.dirty = rec.dirty /\ new.fresh = rec.fresh
        /\ new.clockFresh = rec.clockFresh /\ new.currentPath = rec.currentPath
        /\ SameCredit(rec, new)
    BY <1>3 DEF Recovery, SameCredit
  <1>7. Grows(rec, new)
    BY <1>1, <1>2, <1>6 DEF Grows
  <1>8. new.deadline[classOf(f)] # Null
    BY <1>1, <1>2, <1>6
  <1> QED BY <1>5, <1>6, <1>7, <1>8 DEF new

(* What grows twice grows.                                                   *)
LEMMA GrowsTrans ==
    ASSUME NEW a \in Recovery, NEW b \in Recovery, NEW c \in Recovery,
           Grows(a, b), Grows(b, c)
    PROVE  Grows(a, c)
  <1>1. CASE Raised(c, "history")
    BY <1>1 DEF Grows
  <1>2. CASE ~Raised(c, "history")
    <2>1. ~Raised(b, "history")
      BY <1>2, ClassFacts DEF Grows, Raised
    <2> QED BY <1>2, <2>1 DEF Grows, Raised
  <1> QED BY <1>1, <1>2

(* A change of other parts is none.                                          *)
LEMMA GrowsSame ==
    ASSUME NEW rec \in Recovery, NEW new \in Recovery,
           new.currentPath = rec.currentPath, new.clockFresh = rec.clockFresh,
           new.dirty = rec.dirty, new.fresh = rec.fresh,
           new.deadline = rec.deadline
    PROVE  Grows(rec, new)
  BY DEF Grows

(* A reset raises everything and gives the credit back.                      *)
LEMMA ResetFacts ==
    ASSUME NEW rec \in Recovery
    PROVE  /\ reset(rec) \in Recovery
           /\ \A c \in Class : Raised(reset(rec), c)
           /\ reset(rec).capacityBlocked = FALSE
           /\ reset(rec).creditReserved = FALSE
           /\ reset(rec).probing = rec.probing
           /\ reset(rec).currentPath = rec.currentPath
           /\ reset(rec).deadline = rec.deadline
  <1>1. raise(rec, Class) \in Recovery /\ \A c \in Class : Raised(raise(rec, Class), c)
    BY RaiseFacts
  <1>2. /\ raise(rec, Class).probing = rec.probing
        /\ raise(rec, Class).currentPath = rec.currentPath
        /\ raise(rec, Class).deadline = rec.deadline
    BY DEF raise, Recovery
  <1>3. reset(rec) = [raise(rec, Class) EXCEPT !.capacityBlocked = FALSE,
                                               !.creditReserved = FALSE]
    BY DEF reset
  <1> HIDE DEF raise
  <1> QED BY <1>1, <1>2, <1>3 DEF Recovery, Raised

(* A new current file raises everything.                                     *)
LEMMA StorageFacts ==
    ASSUME NEW rec \in Recovery, current \in Files
    PROVE  /\ storageChanged(rec) \in Recovery
           /\ Grows(rec, storageChanged(rec))
           /\ SameCredit(rec, storageChanged(rec))
           /\ storageChanged(rec).currentPath = current
  <1>1. CASE rec.currentPath = current
    BY <1>1, GrowsSame DEF storageChanged, SameCredit
  <1>2. CASE rec.currentPath # current
    <2> DEFINE up == raise(rec, Class)
               dl == [c \in Class |-> IF c = "current" THEN Null
                        ELSE earlierDeadline(up.deadline["history"],
                                             up.deadline["current"])]
    <2>1. up \in Recovery /\ Raised(up, "history") /\ SameCredit(rec, up)
      BY RaiseFacts, ClassFacts
    <2>2. storageChanged(rec) = [up EXCEPT !.currentPath = current, !.deadline = dl]
      BY <1>2 DEF storageChanged
    <2> HIDE DEF up
    <2>3. dl \in [Class -> Time]
      BY <2>1, EarlierFacts DEF Recovery, Class, Time
    <2> HIDE DEF dl
    <2>4. storageChanged(rec) \in Recovery
      BY <2>1, <2>2, <2>3 DEF Recovery
    <2>5. /\ Raised(storageChanged(rec), "history")
          /\ SameCredit(rec, storageChanged(rec))
          /\ storageChanged(rec).currentPath = current
      BY <2>1, <2>2 DEF Recovery, Raised, SameCredit
    <2> QED BY <2>4, <2>5 DEF Grows
  <1> QED BY <1>1, <1>2

(* The end of a pass acknowledges what is no wake.                           *)
LEMMA AcknowledgedFacts ==
    ASSUME NEW rec \in Recovery
    PROVE  /\ acknowledged(rec) \in Recovery
           /\ acknowledged(rec).creditReserved = FALSE
           /\ acknowledged(rec).capacityBlocked = rec.capacityBlocked
           /\ acknowledged(rec).probing = rec.probing
           /\ acknowledged(rec).currentPath = rec.currentPath
           /\ acknowledged(rec).deadline = rec.deadline
           /\ \A c \in Class : acknowledged(rec).dirty[c] =
                 (rec.dirty[c] /\ ~(/\ pass.epoch = service.epoch
                                    /\ rec.clockFresh
                                    /\ rec.fresh[c]
                                    /\ c = "history" => pass.historical))
  BY DEF acknowledged, Recovery

-----------------------------------------------------------------------------
(* What leads to a receipt, from a state to the next.                        *)

(* What is raised excuses, whatever the pass in progress is.                 *)
LEMMA RaisedExcuses ==
    ASSUME NEW f,
           Raised(recovery', "history") \/ Raised(recovery', classOf(f)')
    PROVE  Excused(f)'
  BY DEF Raised, Excused, Wake

(* An excuse stays while the recovery state grows and the pass in progress   *)
(* is the same or there is none of this epoch.                               *)
LEMMA ExcusedKept ==
    ASSUME NEW f \in Files, Excused(f), Grows(recovery, recovery'),
           current' = current,
           service.excluded \subseteq service'.excluded \/ Raised(recovery', "history"),
           pass'.active /\ pass'.epoch = service'.epoch =>
              /\ pass.active /\ pass.epoch = service.epoch
              /\ pass'.historical = pass.historical
    PROVE  Excused(f)'
  <1>1. CASE Raised(recovery', "history")
    BY <1>1, RaisedExcuses
  <1>2. CASE ~Raised(recovery', "history")
    <2>1. classOf(f)' = classOf(f) /\ classOf(f) \in Class /\ "history" \in Class
      BY ClassFacts DEF classOf
    <2>2. /\ recovery'.currentPath = recovery.currentPath
          /\ recovery'.clockFresh => recovery.clockFresh
          /\ \A c \in Class :
                \/ Raised(recovery', c)
                \/ /\ recovery.dirty[c] => recovery'.dirty[c]
                   /\ recovery'.fresh[c] => recovery.fresh[c]
                   /\ recovery.deadline[c] # Null => recovery'.deadline[c] # Null
      BY <1>2 DEF Grows
    <2>3. ASSUME NEW c \in {classOf(f), "history"}, Wake(c)
          PROVE  Wake(c)'
      BY <2>1, <2>2, <2>3 DEF Wake, Raised
    <2>4. ASSUME NEW c \in {classOf(f), "history"}, recovery.deadline[c] # Null
          PROVE  Wake(c)' \/ recovery'.deadline[c] # Null
      BY <2>1, <2>2, <2>4 DEF Wake, Raised
    <2>5. CASE \E c \in {classOf(f), "history"} : Wake(c) \/ recovery.deadline[c] # Null
      BY <2>1, <2>3, <2>4, <2>5 DEF Excused
    <2>6. CASE recovery.currentPath # current \/ f \in service.excluded
      BY <1>2, <2>2, <2>6 DEF Excused
    <2> QED BY <2>5, <2>6 DEF Excused
  <1> QED BY <1>1, <1>2

(* A file whose class gets a deadline is excused.                            *)
LEMMA DeadlineExcuses ==
    ASSUME NEW f, current' = current, recovery'.deadline[classOf(f)] # Null
    PROVE  Excused(f)'
  BY DEF Excused, classOf

(* A receipt that leads by the queue does so until it is given up.           *)
LEMMA QueueLeadsKept ==
    ASSUME NEW r \in Receipt, QueueLeads(r), InQueueMap(r)',
           queued[r].revisit => queued'[r].revisit,
           \A v \in Worker : Holds(v, r)' /\ worker'[v].pc = "release" =>
              Holds(v, r) /\ worker[v].pc = "release"
    PROVE  QueueLeads(r)'
  BY DEF QueueLeads

(* A pass that is to come to a file still is.                                *)
LEMMA ToComeKept ==
    ASSUME NEW f, ToCome(f), current' = current, pass'.active,
           pass'.historical = pass.historical, pass'.files = pass.files,
           pass'.currentDone = pass.currentDone
    PROVE  ToCome(f)'
  BY DEF ToCome

\* No worker begins or goes on with a page.
PagesKept ==
    \A v \in Worker : worker'[v].pc \in PagePcs =>
       /\ worker[v].pc \in PagePcs
       /\ DOMAIN worker'[v].page = DOMAIN worker[v].page
       /\ worker'[v].full = worker[v].full

(* A receipt ahead of the pass in its file still is.                         *)
LEMMA InFileKept ==
    ASSUME NEW r \in Receipt, InFile(r), PagesKept,
           pass'.active, pass'.file = pass.file, pass'.cursor = pass.cursor,
           pass.later \subseteq pass'.later,
           wait'[r] = Null <=> wait[r] = Null
    PROVE  InFile(r)'
  <1>1. CASE pass.cursor = Null /\ \A w \in Worker : worker[w].pc \notin PagePcs
    BY <1>1 DEF InFile, PagesKept
  <1>2. CASE pass.cursor \in Cursor /\ AtCursor(r)
    <2>1. AtCursor(r)'
      <3>1. CASE wait[r] = Null
        BY <1>2, <3>1 DEF AtCursor, PagesKept
      <3>2. CASE wait[r] # Null
        BY <1>2, <3>2 DEF AtCursor, PagesKept
      <3> QED BY <3>1, <3>2
    <2> QED BY <1>2, <2>1 DEF InFile
  <1> QED BY <1>1, <1>2 DEF InFile

-----------------------------------------------------------------------------
(* Steps that leave the queue, the workers and the pass alone.              *)

(* All but the rows and what leads to them is as it was.                     *)
LEMMA QuietOutside ==
    ASSUME DispatchInv, UNCHANGED <<events, queued, queuedBytes, worker, pass>>,
           \A r \in Receipt : wait[r] # Null => wait'[r] # Null,
           SameCredit(recovery, recovery'),
           current' \in Nat, current <= current',
           service'.epoch \in Nat, service.epoch <= service'.epoch
    PROVE  Receipts' /\ QueueInv' /\ CreditInv' /\ PassInv'
  <1> USE DEF DispatchInv
  <1>1. Receipts'
    BY DEF Receipts
  <1>2. QueueInv'
    BY DEF QueueInv, EventsInMap, EventsDistinct, HeldInMap, MapHeld, BytesCounted,
           Holds, InQueueMap
  <1>3. CreditInv'
    BY DEF CreditInv, SameCredit
  <1>4. PassInv'
    <2>1. ASSUME pass.active, pass.files # Null
          PROVE  pass.files \subseteq 1 .. current'
      BY <2>1 DEF PassInv, Types, Files
    <2>2. ASSUME pass.active
          PROVE  /\ pass.file # Null => pass.file <= current'
                 /\ pass.epoch <= service'.epoch
                 /\ \A r \in pass.later : wait'[r] # Null
      <3>1. pass \in Pass
        BY <2>2 DEF Types, NoPass
      <3> QED BY <2>2, <3>1 DEF PassInv, Types, Pass, Service, Files
    <2> QED BY <2>1, <2>2 DEF PassInv
  <1> QED BY <1>1, <1>2, <1>3, <1>4

(* What led to a receipt still does when the recovery state only grows.      *)
LEMMA FoundOutside ==
    ASSUME DispatchInv, UNCHANGED <<queued, worker, pass, wait, current>>,
           Grows(recovery, recovery'),
           service.excluded \subseteq service'.excluded \/ Raised(recovery', "history"),
           pass.active /\ pass.epoch = service'.epoch => pass.epoch = service.epoch,
           NEW r \in Receipt, Found(r),
           hook[r] = "committed" /\ ~InQueueMap(r) =>
              hook'[r] = "committed" \/ Excused(FileOf[r])'
    PROVE  Found(r)'
  <1>1. FileOf[r] \in Files
    BY DispatchAssumption DEF Files
  <1>2. Excused(FileOf[r]) => Excused(FileOf[r])'
    BY <1>1, ExcusedKept
  <1>3. ToCome(FileOf[r]) => ToCome(FileOf[r])'
    BY DEF ToCome
  <1>4. InFile(r) => InFile(r)'
    BY DEF InFile, AtCursor
  <1>5. InQueueMap(r)' = InQueueMap(r)
    BY DEF InQueueMap
  <1>6. QueueLeads(r) => QueueLeads(r)'
    BY DEF QueueLeads, Holds, InQueueMap
  <1> QED BY <1>2, <1>3, <1>4, <1>5, <1>6 DEF Found

(* The invariant after a step that changes at most the hook calls, the       *)
(* service and what the recovery state grows by.                             *)
LEMMA OutsideStep ==
    ASSUME DispatchInv,
           UNCHANGED <<rows, events, queued, queuedBytes, worker, pass, current>>,
           recovery' \in Recovery, service' \in Service, Types',
           Grows(recovery, recovery'), SameCredit(recovery, recovery'),
           recovery'.currentPath \in {recovery.currentPath, current},
           service.excluded \subseteq service'.excluded \/ Raised(recovery', "history"),
           service.epoch <= service'.epoch,
           \A r \in Receipt :
              /\ hook[r] \in {"committed", "done"} => hook'[r] \in {"committed", "done"}
              /\ hook[r] = "committed" /\ ~InQueueMap(r) =>
                    hook'[r] = "committed" \/ Excused(FileOf[r])'
              /\ hook'[r] # "absent" => hook[r] # "absent" \/ FileOf[r] = current
              /\ hook'[r] = "committed" => hook[r] = "committed"
    PROVE  DispatchInv'
  <1> USE DEF DispatchInv
  <1>1. Receipts' /\ QueueInv' /\ CreditInv' /\ PassInv'
    BY QuietOutside DEF Types, Service, Files, rows
  <1>2. RowInv'
    <2>1. \A r \in Receipt : /\ InQueueMap(r)' = InQueueMap(r)
                             /\ FileOf[r] <= current
                                \/ (hook'[r] # "absent" => FileOf[r] = current)
      BY DEF InQueueMap, RowInv
    <2> QED BY <2>1 DEF RowInv, rows, Types, Files
  <1>3. FoundInv'
    <2> SUFFICES ASSUME NEW r \in Receipt, row'[r] = "pending", Alone(r)'
                 PROVE  Found(r)'
      BY DEF FoundInv
    <2>1. Found(r)
      BY DEF FoundInv, Alone, rows
    <2>2. pass.active /\ pass.epoch = service'.epoch => pass.epoch = service.epoch
      <3> SUFFICES ASSUME pass.active PROVE pass.epoch <= service.epoch /\ pass.epoch \in Nat
        BY TypeFacts
      <3> QED BY TypeFacts DEF PassInv
    <2> QED BY <2>1, <2>2, FoundOutside DEF rows
  <1> QED BY <1>1, <1>2, <1>3

(* A receipt is numbered in the current file.                                *)
LEMMA AppendReceiptStep ==
    ASSUME DispatchInv, NEW r \in Receipt, AppendReceipt(r)
    PROVE  DispatchInv'
  <1>1. Types'
    BY DEF DispatchInv, Types, AppendReceipt, rows, queue
  <1>2. Grows(recovery, recovery') /\ SameCredit(recovery, recovery')
    BY GrowsSame DEF AppendReceipt, DispatchInv, Types, SameCredit
  <1>3. hook' = [hook EXCEPT ![r] = "evaluating"] /\ hook[r] = "absent" /\ FileOf[r] = current
    BY DEF AppendReceipt
  <1>4. \A s \in Receipt : /\ hook[s] \in {"committed", "done"} => hook'[s] = hook[s]
                           /\ hook'[s] # "absent" => hook[s] # "absent" \/ FileOf[s] = current
                           /\ hook'[s] = "committed" => hook[s] = "committed"
    BY <1>3 DEF DispatchInv, Types
  <1>5. UNCHANGED <<rows, events, queued, queuedBytes, worker, pass, current, recovery, service>>
    BY DEF AppendReceipt, queue
  <1>6. recovery \in Recovery /\ service \in Service /\ service.epoch <= service.epoch
    BY DEF DispatchInv, Types, Service
  <1> QED BY <1>1, <1>2, <1>4, <1>5, <1>6, OutsideStep

(* Work is paused: what the pass in progress was to do, another one will.    *)
LEMMA PauseStep ==
    ASSUME DispatchInv, pause PROVE DispatchInv'
  <1>0. service \in Service /\ service.epoch \in Nat
    BY TypeFacts DEF DispatchInv
  <1>2. Grows(recovery, recovery') /\ SameCredit(recovery, recovery')
    BY TypeFacts, GrowsSame DEF pause, DispatchInv, SameCredit
  <1>3. /\ UNCHANGED <<rows, hook, events, queued, queuedBytes, worker, pass, current, recovery>>
        /\ service' = [service EXCEPT !.paused = TRUE, !.epoch = @ + 1]
    BY DEF pause, queue
  <1> DEFINE next == service.epoch + 1
  <1>4. /\ service'.excluded = service.excluded
        /\ service.epoch <= service'.epoch
        /\ service' \in Service
    <2>1. next \in Nat /\ service.epoch <= next
      BY <1>0
    <2>2. service' = [service EXCEPT !.paused = TRUE, !.epoch = next]
      BY <1>3
    <2> HIDE DEF next
    <2>3. service' \in Service /\ service'.excluded = service.excluded /\ service'.epoch = next
      BY <1>0, <2>1, <2>2 DEF Service
    <2> QED BY <2>1, <2>3
  <1>5. recovery \in Recovery
    BY TypeFacts DEF DispatchInv
  <1>6. Types'
    BY <1>3, <1>4 DEF DispatchInv, Types, pause, rows
  <1> QED BY <1>2, <1>3, <1>4, <1>5, <1>6, OutsideStep

(* A transition begins.                                                      *)
LEMMA BeginRecoveryTransitionStep ==
    ASSUME DispatchInv, beginRecoveryTransition PROVE DispatchInv'
  <1>0. service \in Service /\ service.epoch \in Nat
    BY TypeFacts DEF DispatchInv
  <1>2. Grows(recovery, recovery') /\ SameCredit(recovery, recovery')
    BY TypeFacts, GrowsSame DEF beginRecoveryTransition, DispatchInv, SameCredit
  <1>3. /\ UNCHANGED <<rows, hook, events, queued, queuedBytes, worker, pass, current, recovery>>
        /\ service' = [service EXCEPT !.transition = TRUE]
    BY DEF beginRecoveryTransition, queue
  <1>4. /\ service'.excluded = service.excluded
        /\ service.epoch <= service'.epoch
        /\ service' \in Service
    <2>1. /\ service'.excluded = service.excluded
          /\ service.epoch = service'.epoch
          /\ service' \in Service
      BY <1>0, <1>3 DEF Service
    <2> QED BY <1>0, <2>1
  <1>5. recovery \in Recovery
    BY TypeFacts DEF DispatchInv
  <1>6. Types'
    BY <1>3, <1>4 DEF DispatchInv, Types, beginRecoveryTransition, rows
  <1> QED BY <1>2, <1>3, <1>4, <1>5, <1>6, OutsideStep

(* The scheduler's rotation raises every class.                              *)
LEMMA ChangeStorageStep ==
    ASSUME DispatchInv, changeStorage PROVE DispatchInv'
  <1>1. /\ recovery' \in Recovery /\ Grows(recovery, recovery')
        /\ SameCredit(recovery, recovery') /\ recovery'.currentPath = current
    BY StorageFacts DEF changeStorage, DispatchInv, Types
  <1>2. UNCHANGED <<rows, hook, events, queued, queuedBytes, worker, pass, current, service>>
    BY DEF changeStorage, queue
  <1>3. Types'
    BY <1>1 DEF DispatchInv, Types, changeStorage, rows, queue
  <1>4. service \in Service /\ service.epoch <= service.epoch
    BY DEF DispatchInv, Types, Service
  <1> QED BY <1>1, <1>2, <1>3, <1>4, OutsideStep

(* A transition ends.                                                        *)
LEMMA EndRecoveryTransitionStep ==
    ASSUME DispatchInv, endRecoveryTransition PROVE DispatchInv'
  <1>0. service \in Service /\ service.epoch \in Nat
    BY TypeFacts DEF DispatchInv
  <1>2. Grows(recovery, recovery') /\ SameCredit(recovery, recovery')
    BY TypeFacts, GrowsSame DEF endRecoveryTransition, DispatchInv, SameCredit
  <1>3. /\ UNCHANGED <<rows, hook, events, queued, queuedBytes, worker, pass, current, recovery>>
        /\ service' = [service EXCEPT !.transition = FALSE]
    BY DEF endRecoveryTransition, queue
  <1>4. /\ service'.excluded = service.excluded
        /\ service.epoch <= service'.epoch
        /\ service' \in Service
    <2>1. /\ service'.excluded = service.excluded
          /\ service.epoch = service'.epoch
          /\ service' \in Service
      BY <1>0, <1>3 DEF Service
    <2> QED BY <1>0, <2>1
  <1>5. recovery \in Recovery
    BY TypeFacts DEF DispatchInv
  <1>6. Types'
    BY <1>3, <1>4 DEF DispatchInv, Types, endRecoveryTransition, rows
  <1> QED BY <1>2, <1>3, <1>4, <1>5, <1>6, OutsideStep

(* Files that were excluded are looked at again.                             *)
LEMMA ConfigureStep ==
    ASSUME DispatchInv, configure PROVE DispatchInv'
  <1> DEFINE rec == IF service.excluded = {} THEN recovery
                    ELSE raise(recovery, {"history"})
  <1>1. /\ rec \in Recovery /\ Grows(recovery, rec) /\ SameCredit(recovery, rec)
        /\ service.excluded = {} \/ Raised(rec, "history")
        /\ recovery \in Recovery /\ current \in Files
    BY RaiseFacts, ClassFacts, GrowsSame DEF DispatchInv, Types, SameCredit
  <1>2. recovery' = storageChanged(rec)
    BY DEF configure
  <1> HIDE DEF rec
  <1>3. /\ recovery' \in Recovery /\ Grows(rec, recovery')
        /\ SameCredit(rec, recovery') /\ recovery'.currentPath = current
    BY <1>1, <1>2, StorageFacts
  <1>4. Grows(recovery, recovery') /\ SameCredit(recovery, recovery')
    BY <1>1, <1>3, GrowsTrans DEF SameCredit
  <1>5. service.excluded = {} \/ Raised(recovery', "history")
    BY <1>1, <1>3, ClassFacts DEF Grows, Raised
  <1>6. /\ UNCHANGED <<rows, hook, events, queued, queuedBytes, worker, pass, current>>
        /\ service' = [service EXCEPT !.paused = FALSE, !.transition = FALSE,
                                      !.excluded = {}]
        /\ lifecycle' = "none"
    BY DEF configure, queue
  <1>7. service.epoch <= service'.epoch /\ service' \in Service
    <2>1. service \in Service /\ service.epoch \in Nat
      BY TypeFacts DEF DispatchInv
    <2>2. service.epoch = service'.epoch /\ service' \in Service
      BY <1>6, <2>1 DEF Service
    <2> QED BY <2>1, <2>2
  <1>8. Types'
    BY <1>3, <1>6, <1>7 DEF DispatchInv, Types, rows
  <1>9. service.excluded \subseteq service'.excluded \/ Raised(recovery', "history")
    BY <1>5
  <1> QED BY <1>3, <1>4, <1>6, <1>7, <1>8, <1>9, OutsideStep

(* Recovery begins.                                                          *)
LEMMA StartStep ==
    ASSUME DispatchInv, start PROVE DispatchInv'
  <1> DEFINE rec == raise(recovery, {"history"})
  <1>1. /\ rec \in Recovery /\ Grows(recovery, rec) /\ SameCredit(recovery, rec)
        /\ recovery \in Recovery /\ rec.currentPath = recovery.currentPath
    BY RaiseFacts, ClassFacts DEF DispatchInv, Types
  <1>2. recovery' = [rec EXCEPT !.ready = TRUE]
    BY DEF start
  <1> HIDE DEF rec
  <1>3. /\ recovery' \in Recovery /\ SameCredit(rec, recovery')
        /\ recovery'.currentPath = rec.currentPath
        /\ recovery'.clockFresh = rec.clockFresh
        /\ recovery'.dirty = rec.dirty
        /\ recovery'.fresh = rec.fresh
        /\ recovery'.deadline = rec.deadline
    BY <1>1, <1>2 DEF Recovery, SameCredit
  <1>4. Grows(recovery, recovery') /\ SameCredit(recovery, recovery')
    BY <1>1, <1>3, GrowsSame, GrowsTrans DEF SameCredit
  <1>5. UNCHANGED <<rows, hook, events, queued, queuedBytes, worker, pass, current, service>>
    BY DEF start, queue
  <1>6. Types'
    BY <1>3 DEF DispatchInv, Types, start, rows, queue
  <1>7. service \in Service /\ service.epoch <= service.epoch
    BY DEF DispatchInv, Types, Service
  <1> QED BY <1>1, <1>3, <1>4, <1>5, <1>6, <1>7, OutsideStep

(* A deadline that has passed has raised its class.                          *)
LEMMA RecoveryTickStep ==
    ASSUME DispatchInv, recoveryTick PROVE DispatchInv'
  <1> DEFINE due == {c \in Class : recovery.deadline[c] = 0}
             back == recovery.behind > 0
             C == IF back THEN Class ELSE due
             rec == raise(recovery, C)
             dl == [c \in Class |-> IF c \in due THEN Null ELSE rec.deadline[c]]
  <1>1. /\ rec \in Recovery /\ Grows(recovery, rec) /\ SameCredit(recovery, rec)
        /\ \A c \in due : Raised(rec, c)
        /\ recovery \in Recovery /\ rec.currentPath = recovery.currentPath
    BY RaiseFacts DEF DispatchInv, Types
  <1>2. recovery' = [rec EXCEPT !.clockFresh = @ /\ ~back, !.behind = 0, !.deadline = dl]
    BY DEF recoveryTick
  <1> HIDE DEF rec
  <1>3. dl \in [Class -> Time]
    BY <1>1 DEF Recovery, Time
  <1>4. /\ recovery' \in Recovery /\ SameCredit(rec, recovery')
        /\ recovery'.currentPath = rec.currentPath
        /\ recovery'.clockFresh => rec.clockFresh
        /\ recovery'.dirty = rec.dirty
        /\ recovery'.fresh = rec.fresh
        /\ \A c \in Class : recovery'.deadline[c] = rec.deadline[c] \/ Raised(recovery', c)
    BY <1>1, <1>2, <1>3 DEF Recovery, SameCredit, Raised
  <1> HIDE DEF dl
  <1>5. Grows(rec, recovery')
    BY <1>4 DEF Grows
  <1>6. Grows(recovery, recovery') /\ SameCredit(recovery, recovery')
    BY <1>1, <1>4, <1>5, GrowsTrans DEF SameCredit
  <1>7. UNCHANGED <<rows, hook, events, queued, queuedBytes, worker, pass, current, service>>
    BY DEF recoveryTick, queue
  <1>8. Types'
    BY <1>4 DEF DispatchInv, Types, recoveryTick, rows, queue
  <1>9. service \in Service /\ service.epoch <= service.epoch
    BY DEF DispatchInv, Types, Service
  <1> QED BY <1>1, <1>4, <1>6, <1>7, <1>8, <1>9, OutsideStep

(* A pending receipt is about to be submitted.                               *)
LEMMA CommitHotStep ==
    ASSUME DispatchInv, NEW r \in Receipt, NEW deferredPending \in BOOLEAN,
           CommitHot(r, deferredPending)
    PROVE  DispatchInv'
  <1>1. /\ hook[r] = "evaluating"
        /\ row' = [row EXCEPT ![r] = IF deferredPending THEN "pending" ELSE @]
        /\ hook' = [hook EXCEPT ![r] = IF deferredPending THEN "committed" ELSE "done"]
        /\ UNCHANGED <<wait, lease, current, events, queued, queuedBytes, service,
                       recovery, pass, lifecycle, worker>>
    BY DEF CommitHot, queue
  <1>2. row[r] = "none" /\ ~InQueueMap(r)
    BY <1>1 DEF DispatchInv, RowInv, Types
  <1>3. Types'
    BY <1>1 DEF DispatchInv, Types
  <1>4. \A s \in Receipt \ {r} : row'[s] = row[s] /\ hook'[s] = hook[s]
    BY <1>1 DEF DispatchInv, Types
  <1>5. /\ hook'[r] \in {"committed", "done"}
        /\ row'[r] \in {"none", "pending"}
        /\ row'[r] = "pending" => hook'[r] = "committed"
    BY <1>1, <1>2 DEF DispatchInv, Types
  <1>6. hook'[r] = "committed" => row'[r] = "pending"
    BY <1>1 DEF DispatchInv, Types
  <1>7. Receipts' /\ QueueInv' /\ CreditInv' /\ PassInv'
    BY <1>1, TypeFacts, QuietOutside DEF DispatchInv, SameCredit
  <1>8. RowInv'
    <2>1. \A s \in Receipt : InQueueMap(s)' = InQueueMap(s)
      BY <1>1 DEF InQueueMap
    <2>2. ASSUME NEW w \in Worker, worker[w].pc \in WorkPcs
          PROVE  worker[w].receipt \in Receipt \ {r}
      <3>1. worker[w].receipt \in Receipt
        BY <2>2 DEF DispatchInv, Receipts
      <3>2. Holds(w, worker[w].receipt)
        BY <2>2 DEF Holds, WorkPcs
      <3> QED BY <1>2, <3>1, <3>2
        DEF DispatchInv, QueueInv, EventsInMap, EventsDistinct, HeldInMap, MapHeld, BytesCounted
    <2>3. ASSUME NEW s \in Receipt
          PROVE  /\ row'[s] # "none" => hook'[s] \in {"committed", "done"}
                 /\ hook'[s] = "committed" => row'[s] # "none"
                 /\ hook'[s] # "absent" => FileOf[s] <= current'
                 /\ InQueueMap(s)' => row'[s] # "none"
                 /\ InQueueMap(s)' /\ queued'[s].complete => row'[s] = "complete"
      <3>1. CASE s = r
        BY <1>1, <1>2, <1>5, <1>6, <2>1, <3>1 DEF DispatchInv, RowInv
      <3>2. CASE s # r
        BY <1>1, <1>4, <2>1, <3>2 DEF DispatchInv, RowInv
      <3> QED BY <3>1, <3>2
    <2>4. \A w \in Worker : worker'[w].pc \in WorkPcs /\ worker'[w].completed =>
             row'[worker'[w].receipt] = "complete"
      BY <1>1, <1>4, <2>2 DEF DispatchInv, RowInv
    <2> QED BY <1>1, <2>3, <2>4 DEF DispatchInv, RowInv
  <1>9. FoundInv'
    <2> SUFFICES ASSUME NEW s \in Receipt, row'[s] = "pending", Alone(s)'
                 PROVE  Found(s)'
      BY DEF FoundInv
    <2>1. CASE s = r
      BY <1>1, <1>2, <1>5, <2>1 DEF Found, InQueueMap
    <2>2. CASE s # r
      <3>1. Found(s)
        BY <1>1, <1>4, <2>2 DEF DispatchInv, FoundInv, Alone
      <3>2. Grows(recovery, recovery')
        BY <1>1, TypeFacts, GrowsSame DEF DispatchInv
      <3> QED BY <1>1, <1>4, <2>2, <3>1, <3>2, FoundOutside
    <2> QED BY <2>1, <2>2
  <1> QED BY <1>3, <1>7, <1>8, <1>9 DEF DispatchInv

(* Once there is a new file, the recovery state does not know it yet.        *)
LEMMA PublishStep ==
    ASSUME DispatchInv, LifecycleInv, publish PROVE DispatchInv'
  <1>1. /\ lifecycle \in {"begun", "drained"} /\ service.transition
        /\ current' = current + 1
        /\ lifecycle' = "published"
        /\ UNCHANGED <<row, wait, lease, hook, events, queued, queuedBytes, service,
                       recovery, pass, worker>>
    BY DEF publish, queue, rows
  <1>2. current \in 1 .. MaxFile /\ current < MaxFile
    BY <1>1 DEF DispatchInv, Types, LifecycleInv, Files
  <1>3. current' \in Files /\ current' \in Nat /\ current < current'
    BY <1>1, <1>2, DispatchAssumption DEF Files
  <1>4. Types'
    BY <1>1, <1>3 DEF DispatchInv, Types
  <1>5. Receipts' /\ QueueInv' /\ CreditInv' /\ PassInv'
    BY <1>1, <1>2, <1>3, TypeFacts, QuietOutside DEF DispatchInv, SameCredit
  <1>6. recovery.currentPath \in Nat /\ recovery.currentPath <= current
    BY TypeFacts DEF DispatchInv, RowInv, Recovery, Files
  <1>7. RowInv'
    <2>1. \A s \in Receipt : InQueueMap(s)' = InQueueMap(s)
      BY <1>1 DEF InQueueMap
    <2>2. \A s \in Receipt : hook[s] # "absent" => FileOf[s] <= current'
      BY <1>2, <1>3, TypeFacts DEF DispatchInv, RowInv, Files
    <2>3. recovery.currentPath <= current'
      BY <1>2, <1>3, <1>6
    <2> QED BY <1>1, <2>1, <2>2, <2>3 DEF DispatchInv, RowInv
  <1>8. FoundInv'
    <2>1. recovery'.currentPath # current'
      BY <1>1, <1>2, <1>3, <1>6
    <2> QED BY <2>1 DEF FoundInv, Found, Excused
  <1> QED BY <1>4, <1>5, <1>7, <1>8 DEF DispatchInv

(* Submitting what the queue has, or cannot take.                            *)
LEMMA SubmitElsewhereStep ==
    ASSUME DispatchInv, NEW r \in Receipt, submit(r), InQueueMap(r) \/ ~Admits(r)
    PROVE  DispatchInv'
  <1>1. /\ hook[r] = "committed"
        /\ hook' = [hook EXCEPT ![r] = "done"]
        /\ UNCHANGED <<row, wait, lease, events, queued, queuedBytes, current, service,
                       pass, lifecycle, worker>>
        /\ recovery' = IF InQueueMap(r) THEN recovery
                       ELSE markDiscovery(recovery, FileOf[r])
    BY DEF submit, queue, rows
  <1>2. /\ FileOf[r] \in Files /\ classOf(FileOf[r]) \in Class
        /\ classOf(FileOf[r])' = classOf(FileOf[r])
    BY <1>1, TypeFacts, ClassFacts DEF DispatchInv, classOf
  <1>3. /\ recovery' \in Recovery /\ Grows(recovery, recovery')
        /\ SameCredit(recovery, recovery')
        /\ recovery'.currentPath = recovery.currentPath
    <2>1. CASE InQueueMap(r)
      BY <1>1, <2>1, TypeFacts, GrowsSame DEF DispatchInv, SameCredit
    <2>2. CASE ~InQueueMap(r)
      BY <1>1, <1>2, <2>2, TypeFacts, RaiseFacts DEF DispatchInv, markDiscovery
    <2> QED BY <2>1, <2>2
  <1>4. ~InQueueMap(r) => Excused(FileOf[r])'
    <2> HAVE ~InQueueMap(r)
    <2>1. Raised(recovery', classOf(FileOf[r]))
      BY <1>1, <1>2, TypeFacts, RaiseFacts DEF DispatchInv, markDiscovery
    <2> QED BY <1>2, <2>1, RaisedExcuses
  <1>5. \A s \in Receipt :
           /\ hook[s] \in {"committed", "done"} => hook'[s] \in {"committed", "done"}
           /\ hook[s] = "committed" /\ ~InQueueMap(s) =>
                 hook'[s] = "committed" \/ Excused(FileOf[s])'
           /\ hook'[s] # "absent" => hook[s] # "absent"
           /\ hook'[s] = "committed" => hook[s] = "committed"
    BY <1>1, <1>4 DEF DispatchInv, Types
  <1>6. Types'
    BY <1>1, <1>3 DEF DispatchInv, Types
  <1>7. service \in Service /\ service.epoch <= service.epoch
    BY TypeFacts DEF DispatchInv
  <1> QED BY <1>1, <1>3, <1>5, <1>6, <1>7, OutsideStep DEF rows

-----------------------------------------------------------------------------
(* Steps of the time, and those that empty the queue.                       *)

(* A second less is a time, and none if there was none.                      *)
LEMMA LeftFacts ==
    ASSUME NEW t \in Time
    PROVE  /\ Left(t) \in Time /\ (Left(t) = Null <=> t = Null)
           /\ t \in Nat => Left(t) \in Nat
  BY DispatchAssumption DEF Left, Time

\* The workers are where they were, with the receipts of the same pages.
SameWork ==
    \A w \in Worker :
       /\ worker'[w].pc = worker[w].pc
       /\ worker'[w].receipt = worker[w].receipt
       /\ worker'[w].epoch = worker[w].epoch
       /\ worker'[w].completed = worker[w].completed
       /\ worker'[w].full = worker[w].full
       /\ DOMAIN worker'[w].page = DOMAIN worker[w].page

(* The invariant after a step that only changes how long things wait.        *)
LEMMA TimeStep ==
    ASSUME DispatchInv, Types', SameWork,
           UNCHANGED <<row, hook, current, events, queued, queuedBytes, service, pass>>,
           Grows(recovery, recovery'), SameCredit(recovery, recovery'),
           recovery'.currentPath = recovery.currentPath,
           \A r \in Receipt : wait'[r] = Null <=> wait[r] = Null
    PROVE  DispatchInv'
  <1>1. \A w \in Worker, r \in Receipt : Holds(w, r)' = Holds(w, r)
    BY DEF SameWork, Holds
  <1>2. \A r \in Receipt : InQueueMap(r)' = InQueueMap(r)
    BY DEF InQueueMap
  <1>3. Receipts'
    BY DEF DispatchInv, Receipts, SameWork
  <1>4. QueueInv'
    BY <1>1, <1>2
      DEF DispatchInv, QueueInv, EventsInMap, EventsDistinct, HeldInMap, MapHeld,
          BytesCounted, SameWork, InQueueMap
  <1>5. CreditInv'
    BY DEF DispatchInv, CreditInv, SameCredit, SameWork
  <1>6. PassInv'
    <2>1. pass.active => \A r \in pass.later : r \in Receipt /\ wait[r] # Null
      BY TypeFacts DEF DispatchInv, PassInv, Pass
    <2> QED BY <2>1 DEF DispatchInv, PassInv, SameWork
  <1>7. RowInv'
    BY <1>2 DEF DispatchInv, RowInv, SameWork
  <1>8. FoundInv'
    <2> SUFFICES ASSUME NEW r \in Receipt, row'[r] = "pending", Alone(r)'
                 PROVE  Found(r)'
      BY DEF FoundInv
    <2>1. Found(r)
      BY DEF DispatchInv, FoundInv, Alone
    <2>2. Excused(FileOf[r]) => Excused(FileOf[r])'
      BY ExcusedKept, TypeFacts DEF DispatchInv
    <2>3. ToCome(FileOf[r]) => ToCome(FileOf[r])'
      BY DEF ToCome
    <2>4. InFile(r) => InFile(r)'
      <3>1. PagesKept
        BY DEF PagesKept, SameWork
      <3>2. InFile(r) => pass'.active
        BY DEF InFile
      <3> QED BY <3>1, <3>2, InFileKept
    <2>5. QueueLeads(r) => QueueLeads(r)'
      BY <1>1, <1>2, QueueLeadsKept DEF SameWork, QueueLeads
    <2> QED BY <1>2, <2>1, <2>2, <2>3, <2>4, <2>5 DEF Found
  <1> QED BY <1>3, <1>4, <1>5, <1>6, <1>7, <1>8 DEF DispatchInv

(* A second passes.                                                          *)
LEMMA TickStep ==
    ASSUME DispatchInv, Tick PROVE DispatchInv'
  <1> DEFINE dl == [c \in Class |-> Left(recovery.deadline[c])]
  <1>0. worker' = [w \in Worker |-> [worker[w] EXCEPT !.page = aged(worker[w].page)]]
    BY DEF Tick
  <1>1. /\ wait' = [r \in Receipt |-> Left(wait[r])]
        /\ lease' = [r \in Receipt |-> IF Renewed(r) THEN lease[r] ELSE Left(lease[r])]
        /\ recovery' = [recovery EXCEPT !.deadline = dl, !.behind = Left(@)]
        /\ UNCHANGED <<row, hook, current, events, queued, queuedBytes, service, pass,
                       lifecycle>>
    BY DEF Tick, queue
  <1>2. /\ recovery \in Recovery /\ worker \in [Worker -> Slot]
        /\ recovery.deadline \in [Class -> Time] /\ recovery.behind \in Nat
        /\ wait \in [Receipt -> Time] /\ lease \in [Receipt -> Nat]
    BY TypeFacts DEF DispatchInv, Types, Recovery
  <1>3. dl \in [Class -> Time] /\ \A c \in Class : dl[c] = Null <=> recovery.deadline[c] = Null
    BY <1>2, LeftFacts
  <1>4. Left(recovery.behind) \in Nat
    BY <1>2, LeftFacts DEF Time
  <1> HIDE DEF dl
  <1>5. /\ recovery' \in Recovery /\ recovery'.deadline = dl
        /\ recovery'.dirty = recovery.dirty /\ recovery'.fresh = recovery.fresh
        /\ recovery'.clockFresh = recovery.clockFresh
        /\ recovery'.currentPath = recovery.currentPath
        /\ SameCredit(recovery, recovery')
    BY <1>1, <1>2, <1>3, <1>4 DEF Recovery, SameCredit
  <1>6. Grows(recovery, recovery')
    BY <1>3, <1>5 DEF Grows
  <1>7. /\ wait' \in [Receipt -> Time] /\ lease' \in [Receipt -> Nat]
        /\ \A r \in Receipt : wait'[r] = Null <=> wait[r] = Null
    BY <1>1, <1>2, LeftFacts DEF Time
  <1>8. ASSUME NEW page \in Page
        PROVE  aged(page) \in Page /\ DOMAIN aged(page) = DOMAIN page
    <2>1. PICK S \in SUBSET Receipt : page \in [S -> [leased : BOOLEAN, left : Nat]]
      BY DEF Page
    <2>2. ASSUME NEW r \in S
          PROVE  [page[r] EXCEPT !.left = Left(@)] \in [leased : BOOLEAN, left : Nat]
      <3>1. page[r] \in [leased : BOOLEAN, left : Nat]
        BY <2>1
      <3>2. Left(page[r].left) \in Nat
        BY <3>1, LeftFacts DEF Time
      <3> QED BY <3>1, <3>2
    <2>3. aged(page) \in [S -> [leased : BOOLEAN, left : Nat]]
      BY <2>1, <2>2 DEF aged
    <2> QED BY <2>1, <2>3 DEF Page
  <1>9. ASSUME NEW w \in Worker
        PROVE  /\ worker'[w] \in Slot
               /\ worker'[w].pc = worker[w].pc
               /\ worker'[w].receipt = worker[w].receipt
               /\ worker'[w].epoch = worker[w].epoch
               /\ worker'[w].completed = worker[w].completed
               /\ worker'[w].full = worker[w].full
               /\ DOMAIN worker'[w].page = DOMAIN worker[w].page
    <2> DEFINE page == aged(worker[w].page)
    <2>1. worker[w] \in Slot /\ worker'[w] = [worker[w] EXCEPT !.page = page]
      BY <1>0, <1>2
    <2>2. worker[w].page \in Page
      BY <2>1 DEF Slot
    <2>3. page \in Page /\ DOMAIN page = DOMAIN worker[w].page
      BY <1>8, <2>2
    <2> HIDE DEF page
    <2> QED BY <2>1, <2>3 DEF Slot
  <1>10. worker' \in [Worker -> Slot]
    BY <1>0, <1>9
  <1>11. SameWork
    BY <1>9 DEF SameWork
  <1>12. Types'
    BY <1>1, <1>5, <1>7, <1>10 DEF DispatchInv, Types
  <1> QED BY <1>1, <1>5, <1>6, <1>7, <1>11, <1>12, TimeStep

(* The clock is set back.                                                    *)
LEMMA ClockBackStep ==
    ASSUME DispatchInv, NEW recent \in SUBSET Receipt, ClockBack(recent)
    PROVE  DispatchInv'
  <1> DEFINE later(time) == IF time = Null THEN Null ELSE time + 1
             dl == [c \in Class |-> later(recovery.deadline[c])]
  <1>1. /\ wait' = [r \in Receipt |-> IF wait[r] = 0 /\ r \notin recent THEN 0
                                      ELSE later(wait[r])]
        /\ lease' = [r \in Receipt |-> IF lease[r] = 0 THEN 0 ELSE lease[r] + 1]
        /\ recovery' = [recovery EXCEPT !.deadline = dl, !.behind = @ + 1]
        /\ UNCHANGED <<row, hook, current, events, queued, queuedBytes, service, pass,
                       lifecycle, worker>>
    BY DEF ClockBack, queue
  <1>2. /\ recovery \in Recovery
        /\ recovery.deadline \in [Class -> Time] /\ recovery.behind \in Nat
        /\ wait \in [Receipt -> Time] /\ lease \in [Receipt -> Nat]
    BY TypeFacts DEF DispatchInv, Types, Recovery
  <1>3. \A t \in Time : later(t) \in Time /\ (later(t) = Null <=> t = Null)
    BY DispatchAssumption DEF Time
  <1> HIDE DEF later
  <1>4. dl \in [Class -> Time] /\ \A c \in Class : dl[c] = Null <=> recovery.deadline[c] = Null
    BY <1>2, <1>3
  <1>5. recovery.behind + 1 \in Nat
    BY <1>2
  <1> HIDE DEF dl
  <1>6. /\ recovery' \in Recovery /\ recovery'.deadline = dl
        /\ recovery'.dirty = recovery.dirty /\ recovery'.fresh = recovery.fresh
        /\ recovery'.clockFresh = recovery.clockFresh
        /\ recovery'.currentPath = recovery.currentPath
        /\ SameCredit(recovery, recovery')
    BY <1>1, <1>2, <1>4, <1>5 DEF Recovery, SameCredit
  <1>7. Grows(recovery, recovery')
    BY <1>4, <1>6 DEF Grows
  <1>8. /\ wait' \in [Receipt -> Time]
        /\ \A r \in Receipt : wait'[r] = Null <=> wait[r] = Null
    BY <1>1, <1>2, <1>3, DispatchAssumption DEF Time
  <1>9. lease' \in [Receipt -> Nat]
    BY <1>1, <1>2
  <1>10. SameWork
    BY <1>1 DEF SameWork
  <1>11. Types'
    BY <1>1, <1>6, <1>8, <1>9 DEF DispatchInv, Types
  <1> QED BY <1>1, <1>6, <1>7, <1>8, <1>10, <1>11, TimeStep

(* An idle worker has a type, and holds nothing.                             *)
LEMMA IdleFacts ==
    /\ IdleWorker \in Slot
    /\ IdleWorker.pc = "idle"
    /\ NotQueued \in Entry /\ NotQueued.state = "free"
  <1>1. NoPage \in [{} -> [leased : BOOLEAN, left : Nat]]
    BY DEF NoPage
  <1>2. NoPage \in Page
    BY <1>1 DEF Page
  <1> QED BY <1>2 DEF IdleWorker, Slot, Pcs, NotQueued, Entry

(* The invariant once nothing is queued and nobody works.                    *)
LEMMA EmptyStep ==
    ASSUME DispatchInv, Types', events' = <<>>, queuedBytes' = 0, pass' = NoPass,
           \A r \in Receipt : ~InQueueMap(r)',
           \A w \in Worker : worker'[w].pc = "idle",
           ~recovery'.capacityBlocked, ~recovery'.creditReserved,
           ~recovery'.probing, recovery'.currentPath <= current',
           Raised(recovery', "history") \/ Wake("history")',
           UNCHANGED <<row, current>>,
           \A r \in Receipt : /\ hook[r] \in {"committed", "done"} =>
                                    hook'[r] \in {"committed", "done"}
                              /\ hook'[r] # "absent" => hook[r] # "absent"
                              /\ hook'[r] = "committed" => hook[r] = "committed"
    PROVE  DispatchInv'
  <1>1. Receipts'
    BY DEF Receipts, WorkPcs
  <1>2. \A w \in Worker, r \in Receipt : ~Holds(w, r)'
    BY DEF Holds
  <1>3. QueueInv'
    <2>1. {r \in Receipt : InQueueMap(r)'} = {}
      OBVIOUS
    <2>2. Len(events') = 0
      OBVIOUS
    <2>3. BytesCounted'
      BY <2>1, FS_EmptySet DEF BytesCounted
    <2>4. EventsInMap' /\ EventsDistinct' /\ HeldInMap' /\ MapHeld'
      BY <1>2, <2>2 DEF EventsInMap, EventsDistinct, HeldInMap, MapHeld
    <2> QED BY <2>3, <2>4 DEF QueueInv
  <1>4. CreditInv'
    BY DEF CreditInv, ProbePcs
  <1>5. PassInv'
    BY DEF PassInv, NoPass, ProbePcs, PagePcs
  <1>6. RowInv'
    BY DEF DispatchInv, RowInv, WorkPcs, PagePcs
  <1>7. FoundInv'
    BY DEF FoundInv, Found, Excused, Raised, Wake, NoPass
  <1> QED BY <1>1, <1>3, <1>4, <1>5, <1>6, <1>7 DEF DispatchInv

(* Every job has ended and what was queued is dropped.                       *)
LEMMA DrainStep ==
    ASSUME DispatchInv, drain PROVE DispatchInv'
  <1>1. /\ \A w \in Worker : worker[w].pc = "idle"
        /\ recovery' = reset(recovery)
        /\ pass' = NoPass /\ events' = <<>> /\ queuedBytes' = 0
        /\ queued' = [r \in Receipt |-> NotQueued]
        /\ lifecycle' = "drained"
        /\ UNCHANGED <<row, wait, lease, hook, current, service, worker>>
    BY DEF drain, rows
  <1>2. /\ recovery' \in Recovery /\ Raised(recovery', "history")
        /\ ~recovery'.capacityBlocked /\ ~recovery'.creditReserved
        /\ recovery'.probing = recovery.probing
        /\ recovery'.currentPath = recovery.currentPath
    BY <1>1, TypeFacts, ResetFacts, ClassFacts DEF DispatchInv
  <1>3. ~recovery.probing
    BY <1>1, TypeFacts DEF DispatchInv, CreditInv, ProbePcs, Recovery
  <1>4. /\ queued' \in [Receipt -> Entry] /\ \A r \in Receipt : ~InQueueMap(r)'
        /\ events' \in Seq(Work)
    BY <1>1, IdleFacts DEF InQueueMap
  <1>5. Types'
    BY <1>1, <1>2, <1>4, DispatchAssumption DEF DispatchInv, Types
  <1>6. recovery.currentPath <= current
    BY DEF DispatchInv, RowInv
  <1> QED BY <1>1, <1>2, <1>3, <1>4, <1>5, <1>6, EmptyStep

(* The next daemon starts with the rows only, and looks at every file.       *)
LEMMA RestartStep ==
    ASSUME DispatchInv, Restart PROVE DispatchInv'
  <1>1. /\ hook' = [r \in Receipt |-> IF hook[r] = "absent" THEN "absent" ELSE "done"]
        /\ service' = EmptyService /\ recovery' = EmptyRecovery
        /\ pass' = NoPass /\ events' = <<>> /\ queuedBytes' = 0
        /\ queued' = [r \in Receipt |-> NotQueued]
        /\ lifecycle' = "none"
        /\ worker' = [w \in Worker |-> IdleWorker]
        /\ UNCHANGED <<row, wait, lease, current>>
    BY DEF Restart, rows
  <1>2. /\ recovery' \in Recovery /\ recovery'.dirty["history"]
        /\ ~recovery'.capacityBlocked /\ ~recovery'.creditReserved
        /\ ~recovery'.probing /\ recovery'.currentPath = current
    BY <1>1, TypeFacts DEF DispatchInv, EmptyRecovery, Recovery, Class, Time
  <1>3. service' \in Service
    BY <1>1 DEF EmptyService, Service
  <1>4. /\ queued' \in [Receipt -> Entry] /\ \A r \in Receipt : ~InQueueMap(r)'
        /\ events' \in Seq(Work)
        /\ worker' \in [Worker -> Slot] /\ \A w \in Worker : worker'[w].pc = "idle"
    BY <1>1, IdleFacts DEF InQueueMap
  <1>5. /\ hook' \in [Receipt -> {"absent", "evaluating", "committed", "done"}]
        /\ \A r \in Receipt : /\ hook[r] \in {"committed", "done"} =>
                                    hook'[r] \in {"committed", "done"}
                              /\ hook'[r] # "absent" => hook[r] # "absent"
                              /\ hook'[r] = "committed" => hook[r] = "committed"
    BY <1>1
  <1>6. Types'
    BY <1>1, <1>2, <1>3, <1>4, <1>5, DispatchAssumption DEF DispatchInv, Types
  <1>7. Wake("history")' /\ current <= current
    BY <1>1, <1>2, TypeFacts DEF Wake, NoPass, DispatchInv
  <1> QED BY <1>1, <1>2, <1>4, <1>5, <1>6, <1>7, EmptyStep

-----------------------------------------------------------------------------
(* Steps of the queue.                                                      *)

(* What is in the channel is work, and in the map.                           *)
LEMMA EventFacts ==
    ASSUME DispatchInv, NEW i \in 1 .. Len(events)
    PROVE  /\ events[i] \in Work /\ events[i].receipt \in Receipt
           /\ InQueueMap(events[i].receipt)
           /\ events[i].epoch = queued[events[i].receipt].epoch
  <1>1. events \in Seq(Work) /\ EventsInMap
    BY DEF DispatchInv, Types, QueueInv
  <1>2. events[i] \in Work
    BY <1>1
  <1>3. events[i].receipt \in Receipt
    BY <1>2 DEF Work
  <1> QED BY <1>1, <1>2, <1>3 DEF EventsInMap

(* The receipts in the map are finitely many.                                *)
LEMMA MapFinite ==
    /\ IsFiniteSet({r \in Receipt : InQueueMap(r)})
    /\ Cardinality({r \in Receipt : InQueueMap(r)}) \in Nat
  BY FS_Subset, FS_CardinalityType, DispatchAssumption

(* One more receipt in the map, which was not there.                         *)
LEMMA MapGrows ==
    ASSUME NEW r \in Receipt, ~InQueueMap(r), InQueueMap(r)',
           \A s \in Receipt \ {r} : InQueueMap(s)' = InQueueMap(s)
    PROVE  Cardinality({s \in Receipt : InQueueMap(s)'}) =
               Cardinality({s \in Receipt : InQueueMap(s)}) + 1
  <1>1. {s \in Receipt : InQueueMap(s)'} = {s \in Receipt : InQueueMap(s)} \cup {r}
    OBVIOUS
  <1> QED BY <1>1, MapFinite, FS_AddElement

(* Less the receipts of a set that were in the map.                          *)
LEMMA MapShrinks ==
    ASSUME NEW S \in SUBSET {r \in Receipt : InQueueMap(r)},
           \A s \in Receipt : InQueueMap(s)' = (InQueueMap(s) /\ s \notin S)
    PROVE  /\ Cardinality({s \in Receipt : InQueueMap(s)'}) =
                 Cardinality({s \in Receipt : InQueueMap(s)}) - Cardinality(S)
           /\ Cardinality({s \in Receipt : InQueueMap(s)'}) \in Nat
           /\ Cardinality(S) \in Nat
  <1>1. {s \in Receipt : InQueueMap(s)'} = {s \in Receipt : InQueueMap(s)} \ S
    OBVIOUS
  <1>2. {s \in Receipt : InQueueMap(s)} \cap S = S
    OBVIOUS
  <1>3. IsFiniteSet(S)
    BY MapFinite, FS_Subset
  <1> QED BY <1>1, <1>2, <1>3, MapFinite, FS_Difference, FS_CardinalityType

(* The channel takes a receipt that the map does not have yet.               *)
LEMMA SubmitQueuedStep ==
    ASSUME DispatchInv, NEW r \in Receipt, submit(r), ~InQueueMap(r), Admits(r)
    PROVE  DispatchInv'
  <1> DEFINE work == [receipt |-> r, epoch |-> service.epoch]
  <1>1. /\ hook[r] = "committed"
        /\ events' = Append(events, work)
        /\ queued' = [queued EXCEPT ![r] = queuedReplay(service.epoch)]
        /\ queuedBytes' = queuedBytes + 1
        /\ hook' = [hook EXCEPT ![r] = "done"]
        /\ UNCHANGED <<row, wait, lease, current, service, recovery, pass, lifecycle,
                       worker>>
        /\ queuedBytes + 1 <= ByteLimit
    BY DEF submit, Admits, rows
  <1>2. /\ events \in Seq(Work) /\ queued \in [Receipt -> Entry]
        /\ hook \in [Receipt -> {"absent", "evaluating", "committed", "done"}]
        /\ queuedBytes \in 0 .. ByteLimit /\ service.epoch \in Nat
    BY TypeFacts DEF DispatchInv, Types
  <1>3. /\ queuedReplay(service.epoch) \in Entry
        /\ queuedReplay(service.epoch).state = "queued"
        /\ queuedReplay(service.epoch).epoch = service.epoch
        /\ ~queuedReplay(service.epoch).complete
    BY <1>2 DEF queuedReplay, NotQueued, Entry
  <1>4. work \in Work
    BY <1>2 DEF Work
  <1>5. /\ queued' \in [Receipt -> Entry]
        /\ queued'[r].state = "queued" /\ queued'[r].epoch = service.epoch
        /\ ~queued'[r].complete
        /\ \A s \in Receipt \ {r} : queued'[s] = queued[s]
    BY <1>1, <1>2, <1>3
  <1>6. InQueueMap(r)' /\ \A s \in Receipt \ {r} : InQueueMap(s)' = InQueueMap(s)
    BY <1>5 DEF InQueueMap
  <1> HIDE DEF work
  <1>7. /\ events' \in Seq(Work) /\ Len(events') = Len(events) + 1
        /\ Len(events) \in Nat
        /\ events'[Len(events) + 1] = work
        /\ \A i \in 1 .. Len(events) : events'[i] = events[i]
    BY <1>1, <1>2, <1>4
  <1>8. Types'
    <2>1. queuedBytes' \in 0 .. ByteLimit
      BY <1>1, <1>2, DispatchAssumption
    <2> QED BY <1>1, <1>2, <1>5, <1>7, <2>1 DEF DispatchInv, Types
  <1>9. \A w \in Worker, s \in Receipt : /\ Holds(w, s)' = Holds(w, s)
                                         /\ Holds(w, s) => s # r
    BY <1>1
      DEF Holds, DispatchInv, QueueInv, HeldInMap
  <1>10. \A i \in 1 .. Len(events) : events[i] \in Work /\ events[i].receipt \in Receipt \ {r}
    BY EventFacts
  <1>11. QueueInv'
    <2>1. work.receipt = r /\ work.epoch = service.epoch
      BY DEF work
    <2>2. \A i \in 1 .. Len(events') : \/ i \in 1 .. Len(events) /\ events'[i] = events[i]
                                       \/ i = Len(events) + 1 /\ events'[i] = work
      BY <1>7
    <2>3. \A i \in 1 .. Len(events') :
             /\ InQueueMap(events[i].receipt)'
             /\ events'[i].epoch = queued'[events'[i].receipt].epoch
      BY <1>5, <1>6, <1>10, <2>1, <2>2, EventFacts DEF InQueueMap
    <2>4. \A i, j \in 1 .. Len(events') :
             events'[i].receipt = events'[j].receipt => i = j
      BY <1>10, <2>1, <2>2 DEF DispatchInv, QueueInv, EventsDistinct
    <2>5. ASSUME NEW w \in Worker, NEW s \in Receipt, Holds(w, s)'
          PROVE  /\ InQueueMap(s)'
                 /\ worker'[w].epoch = queued'[s].epoch
                 /\ \A v \in Worker : Holds(v, s)' => v = w
                 /\ \A i \in 1 .. Len(events') : events'[i].receipt # s
      <3>1. Holds(w, s) /\ s # r
        BY <1>9, <2>5
      <3> QED BY <1>1, <1>5, <1>6, <1>9, <2>1, <2>2, <3>1
            DEF DispatchInv, QueueInv, HeldInMap
    <2>6. ASSUME NEW s \in Receipt, InQueueMap(s)'
          PROVE  \/ \E i \in 1 .. Len(events') : events'[i].receipt = s
                 \/ \E w \in Worker : Holds(w, s)'
      <3>1. CASE s = r
        BY <1>7, <2>1, <3>1
      <3>2. CASE s # r
        <4>1. InQueueMap(s)
          BY <1>6, <2>6, <3>2
        <4>2. \A i \in 1 .. Len(events) : i \in 1 .. Len(events') /\ events'[i] = events[i]
          BY <1>7
        <4> QED BY <1>9, <4>1, <4>2 DEF DispatchInv, QueueInv, MapHeld
      <3> QED BY <3>1, <3>2
    <2>7. BytesCounted'
      <3>1. queuedBytes' = Cardinality({s \in Receipt : InQueueMap(s)'})
        BY <1>1, <1>6, MapGrows DEF DispatchInv, QueueInv, BytesCounted
      <3> QED BY <3>1 DEF BytesCounted
    <2>8. EventsInMap' /\ EventsDistinct'
      BY <2>3, <2>4 DEF EventsInMap, EventsDistinct
    <2>9. HeldInMap'
      BY <2>5 DEF HeldInMap
    <2>10. MapHeld'
      BY <2>6 DEF MapHeld
    <2> QED BY <2>7, <2>8, <2>9, <2>10 DEF QueueInv
  <1>12. Receipts' /\ PassInv'
    BY <1>1 DEF DispatchInv, Receipts, PassInv
  <1>13. CreditInv'
    BY <1>1, <1>2 DEF DispatchInv, CreditInv
  <1>14. RowInv'
    <2>1. \A s \in Receipt :
             /\ row'[s] # "none" => hook'[s] \in {"committed", "done"}
             /\ hook'[s] = "committed" => row'[s] # "none"
             /\ hook'[s] # "absent" => FileOf[s] <= current'
      BY <1>1, <1>2 DEF DispatchInv, RowInv
    <2>2. \A s \in Receipt :
             /\ InQueueMap(s)' => row'[s] # "none"
             /\ InQueueMap(s)' /\ queued'[s].complete => row'[s] = "complete"
      BY <1>1, <1>5, <1>6 DEF DispatchInv, RowInv
    <2> QED BY <1>1, <2>1, <2>2 DEF DispatchInv, RowInv
  <1>15. FoundInv'
    <2> SUFFICES ASSUME NEW s \in Receipt, row'[s] = "pending", Alone(s)'
                 PROVE  Found(s)'
      BY DEF FoundInv
    <2>1. CASE s = r
      BY <1>6, <1>9, <2>1 DEF Found, QueueLeads
    <2>2. CASE s # r
      <3>1. Found(s)
        BY <1>1 DEF DispatchInv, FoundInv, Alone
      <3>2. hook'[s] = hook[s] /\ InQueueMap(s)' = InQueueMap(s)
        BY <1>1, <1>2, <1>6, <2>2
      <3>3. QueueLeads(s) => QueueLeads(s)'
        BY <1>1, <1>5, <1>9, <2>2, <3>2 DEF QueueLeads
      <3>4. Excused(FileOf[s]) => Excused(FileOf[s])'
        BY <1>1 DEF Excused, Wake, classOf
      <3>5. ToCome(FileOf[s]) => ToCome(FileOf[s])'
        BY <1>1 DEF ToCome
      <3>6. InFile(s) => InFile(s)'
        BY <1>1 DEF InFile, AtCursor
      <3> QED BY <3>1, <3>2, <3>3, <3>4, <3>5, <3>6 DEF Found
    <2> QED BY <2>1, <2>2
  <1> QED BY <1>8, <1>11, <1>12, <1>13, <1>14, <1>15 DEF DispatchInv

(* A hook call submits its receipt.                                          *)
LEMMA SubmitStep ==
    ASSUME DispatchInv, NEW r \in Receipt, submit(r) PROVE DispatchInv'
  BY SubmitQueuedStep, SubmitElsewhereStep

(* The element i of a sequence is taken out, and what was before it goes to  *)
(* the end.                                                                  *)
LEMMA RotateFacts ==
    ASSUME NEW S, NEW s \in Seq(S), NEW i \in 1 .. Len(s)
    PROVE  LET t == SubSeq(s, i + 1, Len(s)) \o SubSeq(s, 1, i - 1)
           IN  /\ t \in Seq(S)
               /\ Len(t) = Len(s) - 1
               /\ \A j \in 1 .. Len(t) :
                     t[j] = s[IF i + j <= Len(s) THEN i + j ELSE i + j - Len(s)]
  <1> DEFINE a == SubSeq(s, i + 1, Len(s))
             b == SubSeq(s, 1, i - 1)
             n == Len(s)
             t == a \o b
  <1>1. n \in Nat /\ i \in Nat /\ 1 <= i /\ i <= n
    OBVIOUS
  <1>2. \A j \in 1 .. n : s[j] \in S
    OBVIOUS
  <1>3. /\ a \in Seq(S) /\ Len(a) = n - i
        /\ \A j \in 1 .. n - i : a[j] = s[i + j]
    BY <1>1, <1>2
  <1>4. /\ b \in Seq(S) /\ Len(b) = i - 1
        /\ \A j \in 1 .. i - 1 : b[j] = s[j]
    BY <1>1, <1>2
  <1> HIDE DEF a, b, n
  <1>5. t \in Seq(S) /\ Len(t) = Len(a) + Len(b)
    BY <1>3, <1>4, ConcatProperties
  <1>6. \A j \in 1 .. Len(a) + Len(b) :
           t[j] = IF j <= Len(a) THEN a[j] ELSE b[j - Len(a)]
    BY <1>3, <1>4, ConcatProperties
  <1> HIDE DEF t
  <1>7. Len(t) = n - 1
    BY <1>1, <1>3, <1>4, <1>5
  <1>8. ASSUME NEW j \in 1 .. n - 1
        PROVE  t[j] = s[IF i + j <= n THEN i + j ELSE i + j - n]
    <2>1. CASE i + j <= n
      <3>1. j \in 1 .. n - i /\ j <= Len(a) /\ j \in 1 .. Len(a) + Len(b)
        BY <1>1, <1>3, <1>4, <2>1
      <3> QED BY <1>3, <1>6, <2>1, <3>1
    <2>2. CASE ~(i + j <= n)
      <3>1. /\ j - Len(a) = i + j - n /\ i + j - n \in 1 .. i - 1
            /\ ~(j <= Len(a)) /\ j \in 1 .. Len(a) + Len(b)
        BY <1>1, <1>3, <1>4, <2>2
      <3>2. t[j] = b[i + j - n]
        BY <1>6, <3>1
      <3> QED BY <1>4, <2>2, <3>1, <3>2
    <2> QED BY <2>1, <2>2
  <1> QED BY <1>5, <1>7, <1>8 DEF t, a, b, n

(* A worker takes the first event it may run: the receipt goes from the      *)
(* channel to the worker.                                                    *)
LEMMA TakeEventStep ==
    ASSUME DispatchInv, NEW w \in Worker, takeEvent(w) PROVE DispatchInv'
  <1>1. PICK i \in 1 .. Len(events) :
           /\ events' = SubSeq(events, i + 1, Len(events)) \o SubSeq(events, 1, i - 1)
           /\ worker' = [worker EXCEPT ![w] = [IdleWorker EXCEPT
                            !.pc = "work",
                            !.receipt = events[i].receipt,
                            !.epoch = events[i].epoch]]
    BY DEF takeEvent
  <1>2. /\ worker[w].pc = "idle"
        /\ recovery' = [recovery EXCEPT !.turn = TRUE]
        /\ UNCHANGED <<row, wait, lease, hook, current, queued, queuedBytes, service,
                       pass, lifecycle>>
    BY DEF takeEvent, rows
  <1> DEFINE r == events[i].receipt
             old(j) == IF i + j <= Len(events) THEN i + j ELSE i + j - Len(events)
  <1>3. /\ recovery \in Recovery /\ worker \in [Worker -> Slot]
        /\ events \in Seq(Work) /\ Len(events) \in Nat
    BY TypeFacts DEF DispatchInv, Types
  <1>4. events[i] \in Work /\ r \in Receipt /\ events[i].epoch \in Nat
        /\ InQueueMap(r) /\ events[i].epoch = queued[r].epoch
    BY EventFacts DEF Work
  <1>5. /\ events' \in Seq(Work) /\ Len(events') = Len(events) - 1
        /\ \A j \in 1 .. Len(events') : events'[j] = events[old(j)]
    <2>1. /\ events' \in Seq(Work) /\ Len(events') = Len(events) - 1
          /\ \A j \in 1 .. Len(events') :
                events'[j] = events[IF i + j <= Len(events) THEN i + j
                                    ELSE i + j - Len(events)]
      <3>1. events' = SubSeq(events, i + 1, Len(events)) \o SubSeq(events, 1, i - 1)
        BY <1>1
      <3> HIDE DEF old
      <3> QED BY <1>3, <3>1, RotateFacts
    <2> QED BY <2>1
  <1>6. /\ \A j \in 1 .. Len(events') : old(j) \in 1 .. Len(events) /\ old(j) # i
        /\ \A j, k \in 1 .. Len(events') : old(j) = old(k) => j = k
        /\ \A k \in 1 .. Len(events) : k # i =>
              \E j \in 1 .. Len(events') : old(j) = k
    <2>1. \A j \in 1 .. Len(events') : old(j) \in 1 .. Len(events) /\ old(j) # i
      BY <1>3, <1>5
    <2>2. \A j, k \in 1 .. Len(events') : old(j) = old(k) => j = k
      BY <1>3, <1>5
    <2>3. ASSUME NEW k \in 1 .. Len(events), k # i
          PROVE  \E j \in 1 .. Len(events') : old(j) = k
      <3> DEFINE j == IF k > i THEN k - i ELSE k + Len(events) - i
      <3>1. j \in 1 .. Len(events') /\ old(j) = k
        BY <1>3, <1>5, <2>3
      <3> QED BY <3>1
    <2> QED BY <2>1, <2>2, <2>3
  <1> HIDE DEF old
  <1>7. /\ worker' \in [Worker -> Slot]
        /\ worker'[w].pc = "work" /\ worker'[w].receipt = r
        /\ worker'[w].epoch = events[i].epoch /\ ~worker'[w].completed
        /\ \A v \in Worker \ {w} : worker'[v] = worker[v]
    <2> DEFINE new == [IdleWorker EXCEPT !.pc = "work", !.receipt = events[i].receipt,
                                         !.epoch = events[i].epoch]
    <2>0. "work" \in Pcs
      BY DEF WorkPcs, Pcs
    <2>1. new \in Slot
      BY <1>4, <2>0, IdleFacts DEF Slot
    <2>2. new.pc = "work" /\ new.receipt = r /\ new.epoch = events[i].epoch /\ ~new.completed
      BY DEF IdleWorker
    <2> HIDE DEF new
    <2>3. worker' = [worker EXCEPT ![w] = new]
      BY <1>1 DEF new
    <2> QED BY <1>3, <2>1, <2>2, <2>3
  <1>8. /\ recovery' \in Recovery /\ SameCredit(recovery, recovery')
        /\ recovery'.currentPath = recovery.currentPath
        /\ recovery'.clockFresh = recovery.clockFresh
        /\ recovery'.dirty = recovery.dirty
        /\ recovery'.fresh = recovery.fresh
        /\ recovery'.deadline = recovery.deadline
    BY <1>2, <1>3 DEF Recovery, SameCredit
  <1>9. Types'
    BY <1>2, <1>5, <1>7, <1>8 DEF DispatchInv, Types
  <1>10. /\ \A s \in Receipt : InQueueMap(s)' = InQueueMap(s)
         /\ \A v \in Worker \ {w}, s \in Receipt : Holds(v, s)' = Holds(v, s)
         /\ \A s \in Receipt : Holds(w, s)' = (s = r)
         /\ \A s \in Receipt : ~Holds(w, s)
         /\ \A v \in Worker : ~Holds(v, r)
    <2>1. \A v \in Worker : ~Holds(v, r)
      BY <1>4 DEF DispatchInv, QueueInv, HeldInMap
    <2> QED BY <1>2, <1>7, <2>1 DEF InQueueMap, Holds
  <1>11. Receipts'
    BY <1>4, <1>7 DEF DispatchInv, Receipts
  <1>12. QueueInv'
    <2>1. EventsInMap'
      <3>1. ASSUME NEW j \in 1 .. Len(events')
            PROVE  /\ queued[events'[j].receipt].state # "free"
                   /\ events'[j].epoch = queued[events'[j].receipt].epoch
        BY <1>5, <1>6, EventFacts DEF InQueueMap
      <3> QED BY <1>2, <3>1 DEF EventsInMap, InQueueMap
    <2>2. EventsDistinct'
      BY <1>5, <1>6 DEF DispatchInv, QueueInv, EventsDistinct
    <2>3. HeldInMap'
      <3>1. ASSUME NEW v \in Worker, NEW s \in Receipt, Holds(v, s)'
            PROVE  /\ InQueueMap(s)'
                   /\ worker'[v].epoch = queued'[s].epoch
                   /\ \A u \in Worker : Holds(u, s)' => u = v
                   /\ \A j \in 1 .. Len(events') : events'[j].receipt # s
        <4>1. CASE v = w
          <5>1. s = r
            BY <1>10, <3>1, <4>1
          <5>2. \A j \in 1 .. Len(events') : events'[j].receipt # r
            BY <1>5, <1>6 DEF DispatchInv, QueueInv, EventsDistinct
          <5> QED BY <1>2, <1>4, <1>7, <1>10, <4>1, <5>1, <5>2
        <4>2. CASE v # w
          <5>1. Holds(v, s) /\ s # r
            BY <1>10, <3>1, <4>2
          <5>2. /\ InQueueMap(s) /\ worker[v].epoch = queued[s].epoch
                /\ \A u \in Worker : Holds(u, s) => u = v
                /\ \A j \in 1 .. Len(events) : events[j].receipt # s
            BY <5>1 DEF DispatchInv, QueueInv, HeldInMap
          <5>3. \A j \in 1 .. Len(events') : events'[j].receipt # s
            BY <1>5, <1>6, <5>2
          <5> QED BY <1>2, <1>7, <1>10, <4>2, <5>1, <5>2, <5>3
        <4> QED BY <4>1, <4>2
      <3> QED BY <3>1 DEF HeldInMap
    <2>4. MapHeld'
      <3> SUFFICES ASSUME NEW s \in Receipt, InQueueMap(s)'
                   PROVE  \/ \E j \in 1 .. Len(events') : events'[j].receipt = s
                          \/ \E v \in Worker : Holds(v, s)'
        BY DEF MapHeld
      <3>1. CASE s = r
        BY <1>10, <3>1
      <3>2. CASE s # r
        <4>1. \/ \E k \in 1 .. Len(events) : events[k].receipt = s
              \/ \E v \in Worker : Holds(v, s)
          BY <1>10 DEF DispatchInv, QueueInv, MapHeld
        <4>2. ASSUME NEW k \in 1 .. Len(events), events[k].receipt = s
              PROVE  \E j \in 1 .. Len(events') : events'[j].receipt = s
          BY <1>5, <1>6, <3>2, <4>2
        <4> QED BY <1>10, <4>1, <4>2
      <3> QED BY <3>1, <3>2
    <2>5. BytesCounted'
      <3>1. {s \in Receipt : InQueueMap(s)'} = {s \in Receipt : InQueueMap(s)}
        BY <1>10
      <3> QED BY <1>2, <3>1 DEF DispatchInv, QueueInv, BytesCounted
    <2> QED BY <2>1, <2>2, <2>3, <2>4, <2>5 DEF QueueInv
  <1>13. CreditInv'
    <2>1. \A v \in Worker : worker'[v].pc \in ProbePcs <=> worker[v].pc \in ProbePcs
      BY <1>2, <1>7 DEF ProbePcs
    <2> QED BY <1>2, <1>8, <2>1 DEF DispatchInv, CreditInv, SameCredit
  <1>14. PassInv'
    <2>1. \A v \in Worker :
             \/ worker'[v] = worker[v]
             \/ worker'[v].pc \notin ProbePcs /\ worker'[v].pc \notin PagePcs
                /\ worker'[v].pc \notin {"read", "examine", "admit"}
      BY <1>7 DEF ProbePcs, PagePcs
    <2> QED BY <1>2, <2>1 DEF DispatchInv, PassInv
  <1>15. RowInv'
    BY <1>2, <1>7, <1>8, <1>10 DEF DispatchInv, RowInv, PagePcs
  <1>16. FoundInv'
    <2> SUFFICES ASSUME NEW s \in Receipt, row'[s] = "pending", Alone(s)'
                 PROVE  Found(s)'
      BY DEF FoundInv
    <2>1. Found(s)
      BY <1>2 DEF DispatchInv, FoundInv, Alone
    <2>2. QueueLeads(s) => QueueLeads(s)'
      <3>1. \A v \in Worker : Holds(v, s)' /\ worker'[v].pc = "release" =>
               Holds(v, s) /\ worker[v].pc = "release"
        BY <1>7, <1>10
      <3>2. InQueueMap(s)' = InQueueMap(s) /\ queued' = queued
        BY <1>2, <1>10
      <3> QED BY <3>1, <3>2, QueueLeadsKept DEF QueueLeads
    <2>3. Excused(FileOf[s]) => Excused(FileOf[s])'
      BY <1>2, <1>8 DEF Excused, Wake, classOf
    <2>4. ToCome(FileOf[s]) => ToCome(FileOf[s])'
      BY <1>2 DEF ToCome
    <2>5. InFile(s) => InFile(s)'
      <3>1. PagesKept
        BY <1>7 DEF PagesKept, PagePcs
      <3>2. InFile(s) => pass'.active
        BY <1>2 DEF InFile
      <3> QED BY <1>2, <3>1, <3>2, InFileKept
    <2> QED BY <1>2, <1>10, <2>1, <2>2, <2>3, <2>4, <2>5 DEF Found
  <1> QED BY <1>9, <1>11, <1>12, <1>13, <1>14, <1>15, <1>16 DEF DispatchInv

(* An increasing function onto as many indices as it has takes every one.    *)
LEMMA FilterFacts ==
    ASSUME NEW L \in Nat, NEW kept \in SUBSET (1 .. L),
           NEW next \in [1 .. Cardinality(kept) -> kept],
           \A i, j \in DOMAIN next : i < j => next[i] < next[j]
    PROVE  /\ Cardinality(kept) \in Nat
           /\ \A i, j \in 1 .. Cardinality(kept) : next[i] = next[j] => i = j
           /\ \A k \in kept : \E i \in 1 .. Cardinality(kept) : next[i] = k
  <1> DEFINE n == Cardinality(kept)
  <1>1. IsFiniteSet(kept) /\ n \in Nat
    <2>1. IsFiniteSet(1 .. L)
      BY FS_Interval
    <2> QED BY <2>1, FS_Subset, FS_CardinalityType
  <1>2. IsFiniteSet(1 .. n) /\ Cardinality(1 .. n) = n
    BY <1>1, FS_Interval
  <1>3. DOMAIN next = 1 .. n /\ \A i \in 1 .. n : next[i] \in kept /\ next[i] \in Nat
    <2>1. \A k \in kept : k \in Nat
      OBVIOUS
    <2> HIDE DEF n
    <2>2. next \in [1 .. n -> kept]
      BY DEF n
    <2> QED BY <2>1, <2>2
  <1>4. \A i, j \in 1 .. n : next[i] = next[j] => i = j
    <2> SUFFICES ASSUME NEW i \in 1 .. n, NEW j \in 1 .. n, next[i] = next[j], i # j
                 PROVE  FALSE
      OBVIOUS
    <2>1. i \in Nat /\ j \in Nat /\ next[i] \in Nat
      BY <1>1, <1>3
    <2>2. CASE i < j
      BY <1>3, <2>1, <2>2
    <2>3. CASE j < i
      BY <1>3, <2>1, <2>3
    <2> QED BY <2>1, <2>2, <2>3
  <1>5. next \in Injection(1 .. n, kept)
    BY <1>4 DEF Injection, IsInjective
  <1>6. next \in Surjection(1 .. n, kept)
    BY <1>1, <1>2, <1>5, FS_Injection
  <1>7. \A k \in kept : \E i \in 1 .. n : next[i] = k
    BY <1>6 DEF Surjection
  <1> QED BY <1>1, <1>4, <1>7

(* What was queued for files about to be pruned is dropped.                  *)
LEMMA CancelFilesStep ==
    ASSUME DispatchInv, NEW paths \in SUBSET (1 .. current - 1), cancelFiles(paths)
    PROVE  DispatchInv'
  <1> DEFINE out(i) == FileOf[events[i].receipt] \in paths
             kept == {i \in 1 .. Len(events) : ~out(i)}
             gone == {events[i].receipt : i \in 1 .. Len(events) \ kept}
             rec == IF service.excluded \subseteq paths THEN recovery
                    ELSE raise(recovery, {"history"})
  <1>1. /\ queued' = [r \in Receipt |-> IF r \in gone THEN NotQueued ELSE queued[r]]
        /\ queuedBytes' = queuedBytes - Cardinality(gone)
        /\ recovery' = [rec EXCEPT !.capacityBlocked = @ /\ gone = {}]
        /\ service' = [service EXCEPT !.excluded = paths]
        /\ UNCHANGED <<row, wait, lease, hook, current, pass, lifecycle, worker>>
    BY DEF cancelFiles, rows
  <1>2. PICK next \in [1 .. Cardinality(kept) -> kept] :
           /\ \A i, j \in DOMAIN next : i < j => next[i] < next[j]
           /\ events' = [i \in DOMAIN next |-> events[next[i]]]
    BY DEF cancelFiles
  <1>3. /\ recovery \in Recovery /\ service \in Service
        /\ events \in Seq(Work) /\ queued \in [Receipt -> Entry]
        /\ queuedBytes \in 0 .. ByteLimit /\ worker \in [Worker -> Slot]
        /\ current \in Files /\ service.epoch \in Nat
    BY TypeFacts DEF DispatchInv, Types
  <1>4. paths \in SUBSET Files
    BY <1>3, DispatchAssumption DEF Files
  <1>5. /\ events' \in Seq(Work)
        /\ \A i \in 1 .. Len(events') : next[i] \in kept /\ events'[i] = events[next[i]]
        /\ \A i, j \in 1 .. Len(events') : next[i] = next[j] => i = j
        /\ \A k \in kept : \E i \in 1 .. Len(events') : next[i] = k
    <2> HIDE DEF kept
    <2>1. kept \in SUBSET (1 .. Len(events)) /\ Len(events) \in Nat
      BY <1>3 DEF kept
    <2>2. /\ Cardinality(kept) \in Nat
          /\ \A i, j \in 1 .. Cardinality(kept) : next[i] = next[j] => i = j
          /\ \A k \in kept : \E i \in 1 .. Cardinality(kept) : next[i] = k
      BY <1>2, <2>1, FilterFacts, ZenonT(30)
    <2>3. events' = [i \in 1 .. Cardinality(kept) |-> events[next[i]]]
      BY <1>2
    <2>4. \A i \in 1 .. Cardinality(kept) : next[i] \in kept /\ events[next[i]] \in Work
      <3>1. \A k \in kept : events[k] \in Work
        BY <1>3, <2>1
      <3>2. next \in [1 .. Cardinality(kept) -> kept]
        OBVIOUS
      <3> QED BY <3>1, <3>2
    <2>5. /\ events' \in Seq(Work) /\ Len(events') = Cardinality(kept)
          /\ \A i \in 1 .. Cardinality(kept) : events'[i] = events[next[i]]
      BY <2>2, <2>3, <2>4
    <2> QED BY <2>2, <2>4, <2>5
  <1>6. /\ rec \in Recovery /\ Grows(recovery, rec) /\ SameCredit(recovery, rec)
        /\ service.excluded \subseteq paths \/ Raised(rec, "history")
        /\ rec.currentPath = recovery.currentPath
    BY <1>3, RaiseFacts, ClassFacts, GrowsSame DEF SameCredit
  <1> HIDE DEF rec
  <1>7. /\ recovery' \in Recovery
        /\ recovery'.currentPath = rec.currentPath
        /\ recovery'.clockFresh = rec.clockFresh
        /\ recovery'.dirty = rec.dirty
        /\ recovery'.fresh = rec.fresh
        /\ recovery'.deadline = rec.deadline
        /\ recovery'.creditReserved = rec.creditReserved
        /\ recovery'.probing = rec.probing
        /\ recovery'.capacityBlocked = (rec.capacityBlocked /\ gone = {})
    BY <1>1, <1>6 DEF Recovery
  <1>8. /\ Grows(recovery, recovery')
        /\ service.excluded \subseteq paths \/ Raised(recovery', "history")
    BY <1>3, <1>6, <1>7, GrowsSame, GrowsTrans DEF Raised
  <1>9. gone \subseteq {r \in Receipt : InQueueMap(r)}
    BY EventFacts
  <1>10. \A v \in Worker, s \in Receipt : /\ Holds(v, s)' = Holds(v, s)
                                          /\ Holds(v, s) => s \notin gone
    BY <1>1 DEF Holds, DispatchInv, QueueInv, HeldInMap
  <1>11. \A i \in kept : i \in 1 .. Len(events) /\ events[i].receipt \notin gone
    BY DEF DispatchInv, QueueInv, EventsDistinct
  <1>12. \A s \in gone : FileOf[s] \in paths
    OBVIOUS
  <1>13. \A i \in 1 .. Len(events) : i \in kept \/ events[i].receipt \in gone
    OBVIOUS
  <1> HIDE DEF gone, kept
  <1>14. \A s \in Receipt : /\ s \in gone => queued'[s] = NotQueued
                            /\ s \notin gone => queued'[s] = queued[s]
    BY <1>1
  <1>15. /\ queued' \in [Receipt -> Entry]
         /\ \A s \in Receipt : InQueueMap(s)' = (InQueueMap(s) /\ s \notin gone)
    BY <1>1, <1>3, <1>14, IdleFacts DEF InQueueMap
  <1>16. /\ queuedBytes' = Cardinality({s \in Receipt : InQueueMap(s)'})
         /\ queuedBytes' \in 0 .. ByteLimit
         /\ gone = {} => queuedBytes' = queuedBytes
    <2>1. queuedBytes = Cardinality({s \in Receipt : InQueueMap(s)})
      BY DEF DispatchInv, QueueInv, BytesCounted
    <2>2. /\ Cardinality({s \in Receipt : InQueueMap(s)'}) =
                Cardinality({s \in Receipt : InQueueMap(s)}) - Cardinality(gone)
          /\ Cardinality({s \in Receipt : InQueueMap(s)'}) \in Nat
          /\ Cardinality(gone) \in Nat
      BY <1>9, <1>15, MapShrinks
    <2>3. gone = {} => Cardinality(gone) = 0
      BY FS_EmptySet
    <2> QED BY <1>1, <1>3, <2>1, <2>2, <2>3, DispatchAssumption, SMTT(20)
  <1>17. /\ service' \in Service /\ service'.excluded = paths
         /\ service'.epoch = service.epoch
    BY <1>1, <1>3, <1>4 DEF Service
  <1>18. Types'
    BY <1>1, <1>5, <1>7, <1>15, <1>16, <1>17 DEF DispatchInv, Types
  <1>19. Receipts'
    BY <1>1 DEF DispatchInv, Receipts
  <1>20. QueueInv'
    <2>1. EventsInMap'
      <3>1. ASSUME NEW i \in 1 .. Len(events')
            PROVE  /\ queued'[events'[i].receipt].state # "free"
                   /\ events'[i].epoch = queued'[events'[i].receipt].epoch
        <4>1. /\ next[i] \in 1 .. Len(events) /\ events[next[i]].receipt \notin gone
              /\ events'[i] = events[next[i]]
          BY <1>5, <1>11
        <4>2. PICK r \in Receipt : /\ r = events[next[i]].receipt /\ InQueueMap(r)
                                   /\ events[next[i]].epoch = queued[r].epoch
          BY <4>1, EventFacts
        <4>3. InQueueMap(r)' /\ queued'[r] = queued[r]
          BY <1>14, <1>15, <4>1, <4>2
        <4> QED BY <4>1, <4>2, <4>3 DEF InQueueMap
      <3> QED BY <3>1 DEF EventsInMap, InQueueMap
    <2>2. EventsDistinct'
      <3> SUFFICES ASSUME NEW i \in 1 .. Len(events'), NEW j \in 1 .. Len(events'),
                          events'[i].receipt = events'[j].receipt
                   PROVE  i = j
        BY DEF EventsDistinct
      <3>1. /\ next[i] \in 1 .. Len(events) /\ events'[i] = events[next[i]]
            /\ next[j] \in 1 .. Len(events) /\ events'[j] = events[next[j]]
        BY <1>5, <1>11
      <3>2. next[i] = next[j]
        BY <3>1 DEF DispatchInv, QueueInv, EventsDistinct
      <3> QED BY <1>5, <3>2
    <2>3. HeldInMap'
      <3>1. ASSUME NEW v \in Worker, NEW s \in Receipt, Holds(v, s)'
            PROVE  /\ InQueueMap(s)'
                   /\ worker'[v].epoch = queued'[s].epoch
                   /\ \A u \in Worker : Holds(u, s)' => u = v
                   /\ \A i \in 1 .. Len(events') : events'[i].receipt # s
        <4>1. Holds(v, s) /\ s \notin gone
          BY <1>10, <3>1
        <4>2. /\ InQueueMap(s) /\ worker[v].epoch = queued[s].epoch
              /\ \A u \in Worker : Holds(u, s) => u = v
              /\ \A i \in 1 .. Len(events) : events[i].receipt # s
          BY <4>1 DEF DispatchInv, QueueInv, HeldInMap
        <4>3. \A i \in 1 .. Len(events') : events'[i].receipt # s
          BY <1>5, <1>11, <4>2
        <4> QED BY <1>1, <1>10, <1>14, <1>15, <4>1, <4>2, <4>3
      <3> QED BY <3>1 DEF HeldInMap
    <2>4. MapHeld'
      <3> SUFFICES ASSUME NEW s \in Receipt, InQueueMap(s)'
                   PROVE  \/ \E i \in 1 .. Len(events') : events'[i].receipt = s
                          \/ \E v \in Worker : Holds(v, s)'
        BY DEF MapHeld
      <3>1. InQueueMap(s) /\ s \notin gone
        BY <1>15
      <3>2. \/ \E k \in 1 .. Len(events) : events[k].receipt = s
            \/ \E v \in Worker : Holds(v, s)
        BY <3>1 DEF DispatchInv, QueueInv, MapHeld
      <3>3. ASSUME NEW k \in 1 .. Len(events), events[k].receipt = s
            PROVE  \E i \in 1 .. Len(events') : events'[i].receipt = s
        <4>1. k \in kept
          BY <1>13, <3>1, <3>3
        <4> QED BY <1>5, <3>3, <4>1
      <3> QED BY <1>10, <3>2, <3>3
    <2>5. BytesCounted'
      BY <1>16 DEF BytesCounted
    <2> QED BY <2>1, <2>2, <2>3, <2>4, <2>5 DEF QueueInv
  <1>21. CreditInv'
    BY <1>1, <1>6, <1>7, <1>16 DEF DispatchInv, CreditInv, SameCredit
  <1>22. PassInv'
    BY <1>1, <1>17 DEF DispatchInv, PassInv
  <1>23. RowInv'
    <2>1. \A s \in Receipt :
             /\ InQueueMap(s)' => row'[s] # "none"
             /\ InQueueMap(s)' /\ queued'[s].complete => row'[s] = "complete"
      BY <1>1, <1>14, <1>15 DEF DispatchInv, RowInv
    <2> QED BY <1>1, <1>6, <1>7, <2>1 DEF DispatchInv, RowInv
  <1>24. FoundInv'
    <2> SUFFICES ASSUME NEW s \in Receipt, row'[s] = "pending", Alone(s)'
                 PROVE  Found(s)'
      BY DEF FoundInv
    <2>1. Found(s)
      BY <1>1 DEF DispatchInv, FoundInv, Alone
    <2>2. QueueLeads(s) => QueueLeads(s)' \/ Excused(FileOf[s])'
      <3>1. CASE s \in gone
        BY <1>12, <1>17, <3>1 DEF Excused
      <3>2. CASE s \notin gone
        BY <1>1, <1>10, <1>14, <1>15, <3>2 DEF QueueLeads
      <3> QED BY <3>1, <3>2
    <2>3. Excused(FileOf[s]) => Excused(FileOf[s])'
      <3>1. FileOf[s] \in Files
        BY TypeFacts DEF DispatchInv
      <3> QED BY <1>1, <1>8, <1>17, <3>1, ExcusedKept
    <2>4. ToCome(FileOf[s]) => ToCome(FileOf[s])'
      BY <1>1 DEF ToCome
    <2>5. InFile(s) => InFile(s)'
      BY <1>1 DEF InFile, AtCursor
    <2> QED BY <1>1, <1>15, <2>1, <2>2, <2>3, <2>4, <2>5 DEF Found
  <1> QED BY <1>18, <1>19, <1>20, <1>21, <1>22, <1>23, <1>24 DEF DispatchInv

-----------------------------------------------------------------------------
(* The steps of a worker that has a receipt to work on.                     *)

(* A worker that changes its place changes nothing else.                     *)
LEMMA SlotMoves ==
    ASSUME worker \in [Worker -> Slot], NEW w \in Worker, NEW p \in Pcs,
           worker' = [worker EXCEPT ![w].pc = p]
    PROVE  /\ worker' \in [Worker -> Slot]
           /\ worker'[w].pc = p
           /\ worker'[w].receipt = worker[w].receipt
           /\ worker'[w].epoch = worker[w].epoch
           /\ worker'[w].completed = worker[w].completed
           /\ worker'[w].page = worker[w].page
           /\ worker'[w].full = worker[w].full
           /\ \A v \in Worker \ {w} : worker'[v] = worker[v]
  <1> DEFINE new == [worker[w] EXCEPT !.pc = p]
  <1>1. /\ new \in Slot /\ new.pc = p
        /\ new.receipt = worker[w].receipt /\ new.epoch = worker[w].epoch
        /\ new.completed = worker[w].completed /\ new.page = worker[w].page
        /\ new.full = worker[w].full
    BY DEF Slot
  <1>2. worker' = [worker EXCEPT ![w] = new]
    OBVIOUS
  <1> HIDE DEF new
  <1> QED BY <1>1, <1>2

\* The worker w goes on with its receipt; the channel and the map stay, and the
\* pass in progress learns at most of claims and of times for the next attempt.
WorkMoves(w) ==
    /\ worker[w].pc \in WorkPcs /\ worker'[w].pc \in WorkPcs
    /\ worker'[w].receipt = worker[w].receipt
    /\ worker'[w].epoch = worker[w].epoch
    /\ \A v \in Worker \ {w} : worker'[v] = worker[v]
    /\ UNCHANGED <<hook, current, events, queuedBytes, service>>
    /\ \A s \in Receipt : /\ queued'[s].epoch = queued[s].epoch
                          /\ queued'[s].state # "free" <=> queued[s].state # "free"
                          /\ queued[s].revisit => queued'[s].revisit
    /\ Grows(recovery, recovery') /\ SameCredit(recovery, recovery')
    /\ recovery'.currentPath = recovery.currentPath
    /\ pass'.active <=> pass.active
    /\ pass.active => /\ pass'.historical = pass.historical
                      /\ pass'.epoch = pass.epoch
                      /\ pass'.files = pass.files
                      /\ pass'.file = pass.file
                      /\ pass'.currentDone = pass.currentDone
                      /\ pass'.cursor = pass.cursor
                      /\ pass.later \subseteq pass'.later

(* What it has is its own, in the map, and already numbered and committed.   *)
LEMMA WorkFacts ==
    ASSUME DispatchInv, NEW w \in Worker, worker[w].pc \in WorkPcs
    PROVE  /\ worker[w].receipt \in Receipt
           /\ FileOf[worker[w].receipt] \in Files
           /\ Holds(w, worker[w].receipt)
           /\ InQueueMap(worker[w].receipt)
           /\ queued[worker[w].receipt].epoch = worker[w].epoch
           /\ row[worker[w].receipt] # "none"
           /\ \A v \in Worker : Holds(v, worker[w].receipt) => v = w
           /\ \A i \in 1 .. Len(events) : events[i].receipt # worker[w].receipt
  <1>1. worker[w].receipt \in Receipt
    BY DEF DispatchInv, Receipts
  <1>2. Holds(w, worker[w].receipt)
    BY DEF Holds, WorkPcs
  <1>3. /\ InQueueMap(worker[w].receipt)
        /\ queued[worker[w].receipt].epoch = worker[w].epoch
        /\ \A v \in Worker : Holds(v, worker[w].receipt) => v = w
        /\ \A i \in 1 .. Len(events) : events[i].receipt # worker[w].receipt
    BY <1>1, <1>2 DEF DispatchInv, QueueInv, HeldInMap
  <1>4. row[worker[w].receipt] # "none"
    BY <1>1, <1>3 DEF DispatchInv, RowInv
  <1> QED BY <1>1, <1>2, <1>3, <1>4, TypeFacts DEF DispatchInv

(* The work of one worker moves nothing into or out of the queue.            *)
LEMMA WorkMovesHold ==
    ASSUME NEW w \in Worker, WorkMoves(w)
    PROVE  /\ \A v \in Worker, s \in Receipt : Holds(v, s)' = Holds(v, s)
           /\ \A v \in Worker : worker'[v].epoch = worker[v].epoch
           /\ \A s \in Receipt : InQueueMap(s)' = InQueueMap(s)
  <1>1. \A s \in Receipt : Holds(w, s)' = Holds(w, s)
    BY DEF WorkMoves, Holds, WorkPcs
  <1>2. \A v \in Worker \ {w}, s \in Receipt : Holds(v, s)' = Holds(v, s)
    BY DEF WorkMoves, Holds
  <1> QED BY <1>1, <1>2 DEF WorkMoves, InQueueMap

(* The invariant but for what leads to the receipts.                         *)
LEMMA WorkMovesKeeps ==
    ASSUME DispatchInv, Types', NEW w \in Worker, WorkMoves(w),
           worker'[w].completed => row'[worker[w].receipt] = "complete",
           pass'.active => \A s \in pass'.later : wait'[s] # Null,
           \A s \in Receipt : /\ row'[s] = row[s] \/ (row[s] # "none" /\ row'[s] = "complete")
                              /\ queued'[s].complete =>
                                    queued[s].complete \/ row'[s] = "complete"
    PROVE  Receipts' /\ QueueInv' /\ CreditInv' /\ PassInv' /\ RowInv'
  <1> USE DEF DispatchInv
  <1>1. /\ \A v \in Worker, s \in Receipt : Holds(v, s)' = Holds(v, s)
        /\ \A v \in Worker : worker'[v].epoch = worker[v].epoch
        /\ \A s \in Receipt : InQueueMap(s)' = InQueueMap(s)
    BY WorkMovesHold
  <1>2. worker[w].receipt \in Receipt
    BY WorkFacts DEF WorkMoves
  <1>3. Receipts'
    BY <1>2 DEF Receipts, WorkMoves, WorkPcs
  <1>4. QueueInv'
    <2>1. EventsInMap'
      <3>1. \A i \in 1 .. Len(events) :
               /\ queued'[events[i].receipt].state # "free"
               /\ events[i].epoch = queued'[events[i].receipt].epoch
        BY EventFacts DEF WorkMoves, InQueueMap
      <3> QED BY <3>1 DEF EventsInMap, InQueueMap, WorkMoves
    <2>2. EventsDistinct'
      BY DEF QueueInv, EventsDistinct, WorkMoves
    <2>3. HeldInMap'
      BY <1>1 DEF QueueInv, HeldInMap, WorkMoves
    <2>4. MapHeld'
      BY <1>1 DEF QueueInv, MapHeld, WorkMoves
    <2>5. {s \in Receipt : InQueueMap(s)'} = {s \in Receipt : InQueueMap(s)}
      BY <1>1
    <2> QED BY <2>1, <2>2, <2>3, <2>4, <2>5 DEF QueueInv, BytesCounted, WorkMoves
  <1>5. \A v \in Worker : \/ v # w /\ worker'[v] = worker[v]
                          \/ v = w /\ worker[v].pc \notin ProbePcs
                                   /\ worker'[v].pc \notin ProbePcs
    BY DEF WorkMoves, WorkPcs, ProbePcs
  <1>6. CreditInv'
    BY <1>5 DEF CreditInv, WorkMoves, SameCredit
  <1>7. PassInv'
    <2>1. ASSUME NEW v \in Worker
          PROVE  /\ worker'[v].pc \in ProbePcs \ {"probe"} => pass'.active
                 /\ worker'[v].pc \in {"read", "examine", "admit"} => pass'.file # Null
                 /\ worker'[v].pc \in PagePcs =>
                       /\ pass'.cursor \in Cursor
                       /\ \A s \in DOMAIN worker'[v].page : FileOf[s] = pass'.file
      <3>1. CASE v = w
        BY <1>5, <3>1 DEF ProbePcs, PagePcs
      <3>2. CASE v # w /\ worker[v].pc \in ProbePcs \ {"probe"}
        BY <1>5, <3>2 DEF PassInv, WorkMoves
      <3>3. CASE v # w /\ worker[v].pc \notin ProbePcs \ {"probe"}
        BY <1>5, <3>3 DEF ProbePcs, PagePcs
      <3> QED BY <3>1, <3>2, <3>3
    <2>2. ASSUME pass'.active
          PROVE  /\ pass'.file = Null => pass'.cursor = Null
                 /\ pass'.file # Null => pass'.file <= current'
                 /\ pass'.files # Null => pass'.files \subseteq 1 .. current'
                 /\ pass'.epoch <= service'.epoch
                 /\ \A s \in pass'.later : wait'[s] # Null
      BY <2>2 DEF PassInv, WorkMoves
    <2> QED BY <2>1, <2>2 DEF PassInv
  <1>8. RowInv'
    <2>1. ASSUME NEW s \in Receipt
          PROVE  /\ row'[s] # "none" => hook'[s] \in {"committed", "done"}
                 /\ hook'[s] = "committed" => row'[s] # "none"
                 /\ hook'[s] # "absent" => FileOf[s] <= current'
                 /\ InQueueMap(s)' => row'[s] # "none"
                 /\ InQueueMap(s)' /\ queued'[s].complete => row'[s] = "complete"
      BY <1>1 DEF RowInv, WorkMoves
    <2>2. ASSUME NEW v \in Worker, worker'[v].pc \in WorkPcs, worker'[v].completed
          PROVE  row'[worker'[v].receipt] = "complete"
      <3>1. CASE v = w
        BY <2>2, <3>1 DEF WorkMoves
      <3>2. CASE v # w
        <4>1. worker[v].receipt \in Receipt /\ row[worker[v].receipt] = "complete"
          BY <1>5, <2>2, <3>2, WorkFacts DEF RowInv
        <4> QED BY <1>5, <3>2, <4>1
      <3> QED BY <3>1, <3>2
    <2>3. ASSUME NEW v \in Worker, worker'[v].pc \in PagePcs,
                 NEW s \in DOMAIN worker'[v].page
          PROVE  row'[s] # "none"
      <3>1. worker'[v] = worker[v] /\ row[s] # "none"
        BY <1>5, <2>3 DEF RowInv, PagePcs, ProbePcs
      <3>2. s \in Receipt
        <4>1. worker[v].page \in Page
          BY DEF Types, Slot
        <4> QED BY <2>3, <3>1, <4>1 DEF Page
      <3> QED BY <3>1, <3>2
    <2> QED BY <2>1, <2>2, <2>3 DEF RowInv, WorkMoves
  <1> QED BY <1>3, <1>4, <1>6, <1>7, <1>8

(* What leads to a receipt still does, unless it is the one given up.        *)
LEMMA WorkMovesFound ==
    ASSUME DispatchInv, NEW w \in Worker, WorkMoves(w), NEW r \in Receipt, Found(r),
           wait'[r] = Null <=> wait[r] = Null,
           worker[w].receipt = r /\ worker'[w].pc = "release" =>
              worker[w].pc = "release" \/ Excused(FileOf[r])'
    PROVE  Found(r)'
  <1>1. /\ \A v \in Worker, s \in Receipt : Holds(v, s)' = Holds(v, s)
        /\ \A s \in Receipt : InQueueMap(s)' = InQueueMap(s)
    BY WorkMovesHold
  <1>2. QueueLeads(r) => QueueLeads(r)' \/ Excused(FileOf[r])'
    <2> SUFFICES ASSUME QueueLeads(r), ~Excused(FileOf[r])'
                 PROVE  QueueLeads(r)'
      OBVIOUS
    <2>1. ASSUME NEW v \in Worker, Holds(v, r), worker'[v].pc = "release"
          PROVE  worker[v].pc = "release"
      BY <2>1 DEF WorkMoves, Holds
    <2>2. queued[r].revisit => queued'[r].revisit
      BY DEF WorkMoves
    <2>3. InQueueMap(r)'
      BY <1>1 DEF QueueLeads
    <2> QED BY <1>1, <2>1, <2>2, <2>3, QueueLeadsKept
  <1>3. Excused(FileOf[r]) => Excused(FileOf[r])'
    BY ExcusedKept, TypeFacts DEF WorkMoves, DispatchInv
  <1>4. ToCome(FileOf[r]) => ToCome(FileOf[r])'
    <2> HAVE ToCome(FileOf[r])
    <2>1. pass.active
      BY DEF ToCome
    <2> QED BY <2>1, ToComeKept DEF WorkMoves
  <1>5. InFile(r) => InFile(r)'
    <2> HAVE InFile(r)
    <2>1. pass.active
      BY DEF InFile
    <2>2. PagesKept
      BY DEF PagesKept, WorkMoves, WorkPcs, PagePcs
    <2> QED BY <2>1, <2>2, InFileKept DEF WorkMoves
  <1>6. hook'[r] = hook[r]
    BY DEF WorkMoves
  <1> QED BY <1>1, <1>2, <1>3, <1>4, <1>5, <1>6 DEF Found

(* The invariant after such a step: a receipt is given up only when a pass   *)
(* over its file will follow, or when it is settled.                         *)
LEMMA WorkStep ==
    ASSUME DispatchInv, Types', NEW w \in Worker, WorkMoves(w),
           worker'[w].completed => row'[worker[w].receipt] = "complete",
           pass'.active => \A s \in pass'.later : wait'[s] # Null,
           \A s \in Receipt : /\ row'[s] = row[s] \/ (row[s] # "none" /\ row'[s] = "complete")
                              /\ queued'[s].complete =>
                                    queued[s].complete \/ row'[s] = "complete"
                              /\ wait'[s] = wait[s],
           worker'[w].pc = "release" =>
              \/ worker[w].pc = "release"
              \/ Excused(FileOf[worker[w].receipt])'
              \/ row'[worker[w].receipt] = "complete"
    PROVE  DispatchInv'
  <1>1. Receipts' /\ QueueInv' /\ CreditInv' /\ PassInv' /\ RowInv'
    BY WorkMovesKeeps
  <1>2. FoundInv'
    <2> SUFFICES ASSUME NEW r \in Receipt, row'[r] = "pending", Alone(r)'
                 PROVE  Found(r)'
      BY DEF FoundInv
    <2>1. row[r] = "pending" /\ Alone(r)
      BY DEF Alone
    <2>2. Found(r)
      BY <2>1 DEF DispatchInv, FoundInv
    <2>3. worker'[w].receipt = worker[w].receipt
      BY DEF WorkMoves
    <2>4. ASSUME worker[w].receipt = r, worker'[w].pc = "release"
          PROVE  worker[w].pc = "release" \/ Excused(FileOf[r])'
      BY <2>3, <2>4
    <2> QED BY <2>2, <2>4, WorkMovesFound
  <1> QED BY <1>1, <1>2 DEF DispatchInv

(* A worker in one of the places of work is in one of the places.            *)
LEMMA PcFacts ==
    /\ "work" \in Pcs /\ "claimed" \in Pcs /\ "finish" \in Pcs
    /\ "mark" \in Pcs /\ "release" \in Pcs /\ "idle" \in Pcs
    /\ "probe" \in Pcs /\ "select" \in Pcs /\ "read" \in Pcs
    /\ "examine" \in Pcs /\ "admit" \in Pcs
  BY DEF Pcs, WorkPcs, ProbePcs

(* A worker that goes from one place of work to another, and at most lets    *)
(* the recovery state grow.                                                  *)
LEMMA WorkGoesOn ==
    ASSUME DispatchInv, NEW w \in Worker, NEW p \in WorkPcs,
           worker[w].pc \in WorkPcs,
           worker' = [worker EXCEPT ![w].pc = p],
           UNCHANGED <<rows, hook, current, queue, service, pass, lifecycle>>,
           recovery' \in Recovery, Grows(recovery, recovery'),
           SameCredit(recovery, recovery'),
           recovery'.currentPath = recovery.currentPath,
           p = "release" => Excused(FileOf[worker[w].receipt])'
    PROVE  DispatchInv'
  <1>1. worker \in [Worker -> Slot] /\ p \in Pcs
    BY TypeFacts DEF DispatchInv, Pcs
  <1>2. /\ worker' \in [Worker -> Slot]
        /\ worker'[w].pc = p
        /\ worker'[w].receipt = worker[w].receipt
        /\ worker'[w].epoch = worker[w].epoch
        /\ worker'[w].completed = worker[w].completed
        /\ \A v \in Worker \ {w} : worker'[v] = worker[v]
    BY <1>1, SlotMoves
  <1>3. Types'
    BY <1>2 DEF DispatchInv, Types, rows, queue
  <1>4. WorkMoves(w)
    BY <1>2 DEF WorkMoves, queue
  <1>5. \A s \in Receipt : /\ row'[s] = row[s] /\ wait'[s] = wait[s]
                           /\ queued'[s] = queued[s]
    BY DEF rows, queue
  <1>6. worker'[w].completed => row'[worker[w].receipt] = "complete"
    BY <1>2 DEF DispatchInv, RowInv, rows
  <1>7. pass'.active => \A s \in pass'.later : wait'[s] # Null
    BY DEF DispatchInv, PassInv, rows
  <1> QED BY <1>2, <1>3, <1>4, <1>5, <1>6, <1>7, WorkStep

(* The recovery state as it is.                                              *)
LEMMA GrowsNot ==
    ASSUME DispatchInv, recovery' = recovery
    PROVE  /\ recovery' \in Recovery /\ Grows(recovery, recovery')
           /\ SameCredit(recovery, recovery')
           /\ recovery'.currentPath = recovery.currentPath
  BY TypeFacts, GrowsSame DEF DispatchInv, SameCredit

(* A job that waits for a transition, and one whose receipt cannot be        *)
(* claimed.                                                                  *)
LEMMA PrepareDelayedStep ==
    ASSUME DispatchInv, NEW w \in Worker, prepareDelayed(w) \/ processSkips(w)
    PROVE  DispatchInv'
  <1> PICK p \in {"mark", "finish"} :
          /\ worker[w].pc = "work"
          /\ worker' = [worker EXCEPT ![w].pc = p]
          /\ UNCHANGED <<rows, hook, current, queue, service, recovery, pass, lifecycle>>
    BY DEF prepareDelayed, processSkips, to
  <1>1. p \in WorkPcs /\ p # "release" /\ worker[w].pc \in WorkPcs
    BY DEF WorkPcs
  <1> QED BY <1>1, GrowsNot, WorkGoesOn

(* A job that fails before its receipt is claimed: a deadline in a second.   *)
LEMMA PrepareFailsStep ==
    ASSUME DispatchInv, NEW w \in Worker, prepareFails(w)
    PROVE  DispatchInv'
  <1> DEFINE f == FileOf[worker[w].receipt]
  <1>1. /\ worker[w].pc = "work"
        /\ worker' = [worker EXCEPT ![w].pc = "release"]
        /\ recovery' = deferDiscovery(recovery, f, 1)
        /\ UNCHANGED <<rows, hook, current, queue, service, pass, lifecycle>>
    BY DEF prepareFails, to
  <1>2. "release" \in WorkPcs /\ worker[w].pc \in WorkPcs
    BY <1>1 DEF WorkPcs
  <1>3. f \in Files /\ recovery \in Recovery /\ worker \in [Worker -> Slot]
    BY <1>2, WorkFacts, TypeFacts DEF DispatchInv
  <1>4. /\ recovery' \in Recovery /\ Grows(recovery, recovery')
        /\ SameCredit(recovery, recovery')
        /\ recovery'.currentPath = recovery.currentPath
        /\ recovery'.deadline[classOf(f)] # Null
    BY <1>1, <1>3, DeferFacts
  <1>5. worker'[w].receipt = worker[w].receipt
    BY <1>1, <1>3, PcFacts, SlotMoves
  <1>6. Excused(FileOf[worker[w].receipt])'
    <2> PICK g \in Files : g = f
      BY <1>3
    <2>1. Excused(g)'
      BY <1>1, <1>4, DeadlineExcuses
    <2> QED BY <1>5, <2>1
  <1> QED BY <1>1, <1>2, <1>4, <1>6, WorkGoesOn

(* Work that was not settled: a pass over its file will follow.              *)
LEMMA MarkUnsettledStep ==
    ASSUME DispatchInv, NEW w \in Worker, markUnsettled(w)
    PROVE  DispatchInv'
  <1> DEFINE f == FileOf[worker[w].receipt]
  <1>1. /\ worker[w].pc = "mark"
        /\ worker' = [worker EXCEPT ![w].pc = "release"]
        /\ recovery' = raise(recovery, {classOf(f)})
        /\ UNCHANGED <<rows, hook, current, queue, service, pass, lifecycle>>
    BY DEF markUnsettled, to, markDiscovery
  <1>2. "release" \in WorkPcs /\ worker[w].pc \in WorkPcs
    BY <1>1 DEF WorkPcs
  <1>3. f \in Files /\ recovery \in Recovery /\ worker \in [Worker -> Slot]
    BY <1>2, WorkFacts, TypeFacts DEF DispatchInv
  <1>4. /\ recovery' \in Recovery /\ Grows(recovery, recovery')
        /\ SameCredit(recovery, recovery')
        /\ recovery'.currentPath = recovery.currentPath
        /\ Raised(recovery', classOf(f))
    BY <1>1, <1>3, RaiseFacts, ClassFacts
  <1>5. worker'[w].receipt = worker[w].receipt
    BY <1>1, <1>3, PcFacts, SlotMoves
  <1>6. Excused(FileOf[worker[w].receipt])'
    <2> PICK g \in Files : g = f
      BY <1>3
    <2>1. classOf(g)' = classOf(g)
      BY <1>1 DEF classOf
    <2>2. Excused(g)'
      BY <1>4, <2>1, RaisedExcuses
    <2> QED BY <1>5, <2>2
  <1> QED BY <1>1, <1>2, <1>4, <1>6, WorkGoesOn

(* The receipt is claimed, and the pass in progress told.                    *)
LEMMA ClaimStep ==
    ASSUME DispatchInv, NEW w \in Worker, claim(w)
    PROVE  DispatchInv'
  <1> DEFINE r == worker[w].receipt
  <1>1. /\ worker[w].pc = "work"
        /\ lease' = [lease EXCEPT ![r] = Lease]
        /\ pass' = IF pass.active THEN [pass EXCEPT !.leased = @ \cup {r}] ELSE pass
        /\ worker' = [worker EXCEPT ![w].pc = "claimed"]
        /\ UNCHANGED <<row, wait, hook, current, queue, service, recovery, lifecycle>>
    BY DEF claim, to
  <1>2. worker[w].pc \in WorkPcs
    BY <1>1 DEF WorkPcs
  <1>3. r \in Receipt /\ worker \in [Worker -> Slot]
    BY <1>2, WorkFacts, TypeFacts DEF DispatchInv
  <1>4. /\ worker' \in [Worker -> Slot]
        /\ worker'[w].pc = "claimed"
        /\ worker'[w].receipt = worker[w].receipt
        /\ worker'[w].epoch = worker[w].epoch
        /\ worker'[w].completed = worker[w].completed
        /\ \A v \in Worker \ {w} : worker'[v] = worker[v]
    BY <1>1, <1>3, PcFacts, SlotMoves
  <1> HIDE DEF r
  <1>5. /\ pass' = NoPass \/ pass' \in Pass
        /\ pass'.active <=> pass.active
        /\ pass.active => /\ pass'.historical = pass.historical
                          /\ pass'.epoch = pass.epoch
                          /\ pass'.files = pass.files
                          /\ pass'.file = pass.file
                          /\ pass'.currentDone = pass.currentDone
                          /\ pass'.cursor = pass.cursor
                          /\ pass'.later = pass.later
    <2>1. CASE pass.active
      <3>1. pass \in Pass /\ pass' = [pass EXCEPT !.leased = @ \cup {r}]
        BY <1>1, <2>1, TypeFacts DEF DispatchInv
      <3> QED BY <1>3, <3>1 DEF Pass
    <2>2. CASE ~pass.active
      BY <1>1, <2>2 DEF DispatchInv, Types
    <2> QED BY <2>1, <2>2
  <1>6. lease' \in [Receipt -> Nat]
    BY <1>1, <1>3, DispatchAssumption DEF DispatchInv, Types
  <1>7. Types'
    BY <1>1, <1>4, <1>5, <1>6 DEF DispatchInv, Types, queue
  <1>8. WorkMoves(w)
    BY <1>1, <1>2, <1>4, <1>5, GrowsNot DEF WorkMoves, queue, WorkPcs
  <1>9. \A s \in Receipt : /\ row'[s] = row[s] /\ wait'[s] = wait[s]
                           /\ queued'[s] = queued[s]
    BY <1>1 DEF queue
  <1>10. worker'[w].completed => row'[worker[w].receipt] = "complete"
    BY <1>1, <1>2, <1>4 DEF DispatchInv, RowInv
  <1>11. pass'.active => \A s \in pass'.later : wait'[s] # Null
    BY <1>1, <1>5 DEF DispatchInv, PassInv
  <1> QED BY <1>4, <1>7, <1>8, <1>9, <1>10, <1>11, WorkStep

(* The receipt is settled.                                                   *)
LEMMA ProcessDoneStep ==
    ASSUME DispatchInv, NEW w \in Worker, processDone(w)
    PROVE  DispatchInv'
  <1> DEFINE r == worker[w].receipt
             new == [worker[w] EXCEPT !.pc = "finish", !.completed = TRUE]
  <1>1. /\ worker[w].pc = "claimed"
        /\ row' = [row EXCEPT ![r] = "complete"]
        /\ lease' = [lease EXCEPT ![r] = 0]
        /\ worker' = [worker EXCEPT ![w].pc = "finish", ![w].completed = TRUE]
        /\ UNCHANGED <<wait, hook, current, queue, service, recovery, pass, lifecycle>>
    BY DEF processDone
  <1>2. worker[w].pc \in WorkPcs
    BY <1>1 DEF WorkPcs
  <1>3. r \in Receipt /\ worker \in [Worker -> Slot] /\ row[r] # "none"
    BY <1>2, WorkFacts, TypeFacts DEF DispatchInv
  <1>4. /\ new \in Slot /\ new.pc = "finish" /\ new.receipt = r
        /\ new.epoch = worker[w].epoch
    BY <1>3, PcFacts DEF Slot
  <1>5. worker' = [worker EXCEPT ![w] = new]
    BY <1>1
  <1> HIDE DEF new
  <1>6. /\ worker' \in [Worker -> Slot]
        /\ worker'[w].pc = "finish"
        /\ worker'[w].receipt = r
        /\ worker'[w].epoch = worker[w].epoch
        /\ \A v \in Worker \ {w} : worker'[v] = worker[v]
    BY <1>3, <1>4, <1>5
  <1> HIDE DEF r
  <1>7. /\ row' \in [Receipt -> {"none", "pending", "complete"}]
        /\ lease' \in [Receipt -> Nat]
    BY <1>1, <1>3 DEF DispatchInv, Types
  <1>8. Types'
    BY <1>1, <1>6, <1>7 DEF DispatchInv, Types, queue
  <1>9. WorkMoves(w)
    BY <1>1, <1>2, <1>6, GrowsNot DEF WorkMoves, queue, WorkPcs, r
  <1>10. row'[r] = "complete" /\ \A s \in Receipt \ {r} : row'[s] = row[s]
    BY <1>1, <1>3 DEF DispatchInv, Types
  <1>11. \A s \in Receipt :
            /\ row'[s] = row[s] \/ (row[s] # "none" /\ row'[s] = "complete")
            /\ wait'[s] = wait[s] /\ queued'[s] = queued[s]
    BY <1>1, <1>3, <1>10 DEF queue
  <1>12. row'[worker[w].receipt] = "complete"
    BY <1>10 DEF r
  <1>13. pass'.active => \A s \in pass'.later : wait'[s] # Null
    BY <1>1 DEF DispatchInv, PassInv
  <1> QED BY <1>6, <1>8, <1>9, <1>11, <1>12, <1>13, WorkStep

(* A claimed receipt is given back with a time for the next attempt: it is   *)
(* still held by its worker.                                                 *)
LEMMA GiveBackStep ==
    ASSUME DispatchInv, NEW w \in Worker, NEW r, r = worker[w].receipt,
           worker[w].pc = "claimed",
           wait' = [wait EXCEPT ![r] = RetryDelay],
           lease' = [lease EXCEPT ![r] = 0],
           pass' = IF pass.active THEN [pass EXCEPT !.later = @ \cup {r}] ELSE pass,
           worker' = [worker EXCEPT ![w].pc = "finish"],
           UNCHANGED <<row, hook, current, queue, service, recovery, lifecycle>>
    PROVE  DispatchInv'
  <1>2. worker[w].pc \in WorkPcs
    BY DEF WorkPcs
  <1>3. /\ r \in Receipt /\ worker \in [Worker -> Slot]
        /\ Holds(w, r) /\ InQueueMap(r)
        /\ \A v \in Worker : Holds(v, r) => v = w
    BY <1>2, WorkFacts, TypeFacts DEF DispatchInv
  <1>4. /\ worker' \in [Worker -> Slot]
        /\ worker'[w].pc = "finish"
        /\ worker'[w].receipt = worker[w].receipt
        /\ worker'[w].epoch = worker[w].epoch
        /\ worker'[w].completed = worker[w].completed
        /\ \A v \in Worker \ {w} : worker'[v] = worker[v]
    BY <1>3, PcFacts, SlotMoves
  <1>5. /\ pass' = NoPass \/ pass' \in Pass
        /\ pass'.active <=> pass.active
        /\ pass.active => /\ pass'.historical = pass.historical
                          /\ pass'.epoch = pass.epoch
                          /\ pass'.files = pass.files
                          /\ pass'.file = pass.file
                          /\ pass'.currentDone = pass.currentDone
                          /\ pass'.cursor = pass.cursor
                          /\ pass'.later = pass.later \cup {r}
    <2>1. CASE pass.active
      <3> DEFINE later == pass.later \cup {r}
      <3>1. pass \in Pass /\ pass' = [pass EXCEPT !.later = later]
        BY <2>1, TypeFacts DEF DispatchInv
      <3>2. later \in SUBSET Receipt
        BY <1>3, <3>1 DEF Pass
      <3>3. later = pass.later \cup {r}
        OBVIOUS
      <3> HIDE DEF later
      <3>4. pass'.later = later /\ pass' \in Pass
        BY <3>1, <3>2 DEF Pass
      <3> QED BY <2>1, <3>1, <3>3, <3>4 DEF Pass
    <2>2. CASE ~pass.active
      BY <2>2 DEF DispatchInv, Types
    <2> QED BY <2>1, <2>2
  <1>6. /\ lease' \in [Receipt -> Nat]
        /\ wait' \in [Receipt -> Time]
        /\ wait'[r] # Null
        /\ \A s \in Receipt \ {r} : wait'[s] = wait[s]
    BY <1>3, DispatchAssumption DEF DispatchInv, Types, Time
  <1>7. Types'
    BY <1>4, <1>5, <1>6 DEF DispatchInv, Types, queue
  <1>8. WorkMoves(w)
    BY <1>2, <1>4, <1>5, GrowsNot DEF WorkMoves, queue, WorkPcs
  <1>9. \A s \in Receipt : row'[s] = row[s] /\ queued'[s] = queued[s]
    BY DEF queue
  <1>10. worker'[w].completed => row'[worker[w].receipt] = "complete"
    BY <1>2, <1>4 DEF DispatchInv, RowInv
  <1>11. pass'.active => \A s \in pass'.later : wait'[s] # Null
    <2>1. pass.active => pass.later \subseteq Receipt /\ \A s \in pass.later : wait[s] # Null
      BY TypeFacts DEF DispatchInv, PassInv, Pass
    <2> QED BY <1>5, <1>6, <2>1
  <1>12. Receipts' /\ QueueInv' /\ CreditInv' /\ PassInv' /\ RowInv'
    BY <1>7, <1>8, <1>9, <1>10, <1>11, WorkMovesKeeps
  <1>13. FoundInv'
    <2> SUFFICES ASSUME NEW s \in Receipt, row'[s] = "pending", Alone(s)'
                 PROVE  Found(s)'
      BY DEF FoundInv
    <2>1. CASE s = r
      <3>1. InQueueMap(s)' /\ \A v \in Worker : Holds(v, s)' => v = w
        BY <1>3, <1>8, <2>1, WorkMovesHold
      <3>2. QueueLeads(s)'
        BY <1>4, <3>1 DEF QueueLeads
      <3> QED BY <3>2 DEF Found
    <2>2. CASE s # r
      <3>1. wait'[s] = wait[s] /\ \A x \in Receipt : wait[x] # Null => wait'[x] # Null
        BY <1>6, <2>2
      <3>2. Alone(s)
        BY <3>1 DEF Alone
      <3>3. Found(s)
        BY <3>2, <1>9 DEF DispatchInv, FoundInv
      <3> QED BY <1>4, <1>8, <3>1, <3>3, WorkMovesFound
    <2> QED BY <2>1, <2>2
  <1> QED BY <1>7, <1>12, <1>13 DEF DispatchInv

(* The job fails.                                                            *)
LEMMA ProcessFailsStep ==
    ASSUME DispatchInv, NEW w \in Worker, processFails(w)
    PROVE  DispatchInv'
  <1>1. /\ worker[w].pc \in {"work", "claimed"}
        /\ worker' = [worker EXCEPT ![w].pc = "finish"]
        /\ UNCHANGED <<row, hook, current, queue, service, recovery, lifecycle>>
    BY DEF processFails, to, rows
  <1>2. CASE UNCHANGED <<rows, pass>>
    <2>1. "finish" \in WorkPcs /\ worker[w].pc \in WorkPcs
      BY <1>1 DEF WorkPcs
    <2> QED BY <1>1, <1>2, <2>1, GrowsNot, WorkGoesOn DEF rows
  <1>3. CASE ~UNCHANGED <<rows, pass>>
    <2> PICK r : r = worker[w].receipt
      OBVIOUS
    <2>1. /\ worker[w].pc = "claimed"
          /\ wait' = [wait EXCEPT ![r] = RetryDelay]
          /\ lease' = [lease EXCEPT ![r] = 0]
          /\ pass' = IF pass.active THEN [pass EXCEPT !.later = @ \cup {r}] ELSE pass
      BY <1>3 DEF processFails
    <2> QED BY <1>1, <2>1, GiveBackStep
  <1> QED BY <1>2, <1>3

-----------------------------------------------------------------------------
(* A finite set of naturals has a greatest element.                          *)
LEMMA GreatestNatural ==
    ASSUME NEW S, S \subseteq Nat, S # {}, IsFiniteSet(S)
    PROVE  \E x \in S : \A y \in S : y <= x
  <1> DEFINE Good(U) == U = {} \/ \E x \in U : \A y \in U : y <= x
             T == {n \in Nat : \A U \in SUBSET Nat :
                      IsFiniteSet(U) /\ Cardinality(U) = n => Good(U)}
  <1>1. 0 \in T
    <2>1. ASSUME NEW U \in SUBSET Nat, IsFiniteSet(U), Cardinality(U) = 0
          PROVE  Good(U)
      BY <2>1, FS_EmptySet
    <2> QED BY <2>1
  <1>2. ASSUME NEW n \in Nat, n \in T PROVE n + 1 \in T
    <2>1. ASSUME NEW U \in SUBSET Nat, IsFiniteSet(U), Cardinality(U) = n + 1
          PROVE  Good(U)
      <3> HIDE DEF Good
      <3>1. U # {}
        <4>1. Cardinality(U) # 0
          BY <2>1
        <4> QED BY <4>1, FS_EmptySet
      <3>2. PICK u \in U : TRUE
        BY <3>1
      <3>3. IsFiniteSet(U \ {u}) /\ Cardinality(U \ {u}) = Cardinality(U) - 1
        BY <2>1, FS_RemoveElement
      <3>4. Cardinality(U \ {u}) = n /\ U \ {u} \in SUBSET Nat
        BY <2>1, <3>3
      <3>5. Good(U \ {u})
        BY <1>2, <3>3, <3>4
      <3> USE DEF Good
      <3>6. CASE U \ {u} = {}
        BY <3>2, <3>6
      <3>7. CASE \E x \in U \ {u} : \A y \in U \ {u} : y <= x
        <4>1. PICK x \in U \ {u} : \A y \in U \ {u} : y <= x
          BY <3>7
        <4>2. x \in Nat /\ u \in Nat
          BY <3>2
        <4>3. CASE x <= u
          <5>1. \A y \in U : y <= u
            BY <4>1, <4>2, <4>3
          <5> QED BY <3>2, <5>1
        <4>4. CASE u <= x
          <5>1. \A y \in U : y <= x
            BY <4>1, <4>4
          <5> QED BY <4>1, <5>1
        <4> QED BY <4>2, <4>3, <4>4
      <3> QED BY <3>5, <3>6, <3>7
    <2> QED BY <2>1
  <1> HIDE DEF T
  <1>3. \A n \in Nat : n \in T
    BY <1>1, <1>2, SetInduction
  <1>4. Cardinality(S) \in T
    BY <1>3, FS_CardinalityType
  <1> USE DEF T
  <1> QED BY <1>4

(* The greatest of them is one of them.                                      *)
LEMMA MaxFacts ==
    ASSUME NEW S, S \subseteq Nat, S # {}, IsFiniteSet(S)
    PROVE  Max(S) \in S /\ \A y \in S : y <= Max(S)
  <1>1. \E x \in S : \A y \in S : x >= y
    BY GreatestNatural
  <1> QED BY <1>1 DEF Max

-----------------------------------------------------------------------------
(* The end of a job.                                                         *)

(* The time until a receipt may be tried again.                              *)
LEMMA FinishDelay ==
    ASSUME Types, NEW r \in Receipt
    PROVE  Max({1, lease[r]} \cup (IF wait[r] = Null THEN {} ELSE {wait[r]})) \in Nat
  <1> DEFINE X == IF wait[r] = Null THEN {} ELSE {wait[r]}
             S == {1, lease[r]} \cup X
  <1>1. lease[r] \in Nat /\ X \subseteq Nat
    BY DEF Types, Time
  <1>2. IsFiniteSet(X)
    BY FS_EmptySet, FS_Singleton
  <1>3. IsFiniteSet({1}) /\ IsFiniteSet({lease[r]})
    BY FS_Singleton
  <1> HIDE DEF X
  <1>4. IsFiniteSet({1} \cup {lease[r]})
    BY <1>3, FS_Union
  <1>5. S = ({1} \cup {lease[r]}) \cup X
    OBVIOUS
  <1>6. IsFiniteSet(S)
    BY <1>2, <1>4, <1>5, FS_Union
  <1>7. S \subseteq Nat /\ S # {}
    <2>1. 1 \in S
      OBVIOUS
    <2>2. \A x \in S : x \in Nat
      BY <1>1
    <2> HIDE DEF S
    <2> QED BY <2>1, <2>2
  <1> HIDE DEF S
  <1>8. Max(S) \in Nat
    BY <1>6, <1>7, MaxFacts
  <1> QED BY <1>8 DEF S, X

(* The receipt is settled, or a deadline is set for it.                      *)
LEMMA FinishJobStep ==
    ASSUME DispatchInv, NEW w \in Worker, NEW fails, finishJob(w, fails)
    PROVE  DispatchInv'
  <1> PICK r : r = worker[w].receipt
    OBVIOUS
  <1>1. /\ worker[w].pc = "finish"
        /\ worker' = [worker EXCEPT ![w].pc = "release"]
        /\ UNCHANGED <<rows, hook, current, events, queuedBytes, service, pass, lifecycle>>
    BY DEF finishJob, to
  <1>2. worker[w].pc \in WorkPcs /\ "release" \in WorkPcs
    BY <1>1 DEF WorkPcs
  <1>3. /\ r \in Receipt /\ FileOf[r] \in Files /\ InQueueMap(r) /\ row[r] # "none"
        /\ worker \in [Worker -> Slot] /\ recovery \in Recovery
        /\ queued \in [Receipt -> Entry]
    BY <1>2, WorkFacts, TypeFacts DEF DispatchInv, Types
  <1>4. /\ worker' \in [Worker -> Slot]
        /\ worker'[w].pc = "release"
        /\ worker'[w].receipt = worker[w].receipt
        /\ worker'[w].epoch = worker[w].epoch
        /\ worker'[w].completed = worker[w].completed
        /\ \A v \in Worker \ {w} : worker'[v] = worker[v]
    BY <1>1, <1>3, PcFacts, SlotMoves
  <1>5. \/ /\ UNCHANGED queued
           /\ \E delay \in Nat : recovery' = deferDiscovery(recovery, FileOf[r], delay)
        \/ /\ row[r] = "complete"
           /\ queued' = [queued EXCEPT ![r].complete = TRUE, ![r].state = "queued"]
           /\ \/ recovery' = recovery
              \/ \E delay \in Nat : recovery' = deferDiscovery(recovery, FileOf[r], delay)
    <2>1. CASE ~worker[w].completed /\ (fails \/ row[r] = "pending")
      BY <2>1, <1>3, FinishDelay, DispatchAssumption DEF finishJob, DispatchInv
    <2>2. CASE worker[w].completed \/ row[r] # "pending"
      <3>1. row[r] \in {"none", "pending", "complete"}
        BY <1>3 DEF DispatchInv, Types
      <3>2. worker[w].completed => row[r] = "complete"
        BY <1>2 DEF DispatchInv, RowInv
      <3>3. row[r] = "complete"
        BY <1>3, <2>2, <3>1, <3>2
      <3> QED BY <3>3, DispatchAssumption DEF finishJob
    <2> QED BY <2>1, <2>2
  <1>6. /\ queued' \in [Receipt -> Entry]
        /\ \A s \in Receipt : /\ queued'[s].epoch = queued[s].epoch
                              /\ queued'[s].state # "free" <=> queued[s].state # "free"
                              /\ queued[s].revisit => queued'[s].revisit
                              /\ queued'[s].complete =>
                                    queued[s].complete \/ row[s] = "complete"
    <2>1. CASE queued' = queued
      BY <1>3, <2>1
    <2>2. CASE row[r] = "complete" /\
               queued' = [queued EXCEPT ![r].complete = TRUE, ![r].state = "queued"]
      <3> DEFINE e == [queued[r] EXCEPT !.complete = TRUE, !.state = "queued"]
      <3>1. queued' = [queued EXCEPT ![r] = e]
        BY <2>2
      <3>2. /\ e \in Entry /\ e.epoch = queued[r].epoch /\ e.state = "queued"
            /\ e.revisit = queued[r].revisit
        BY <1>3 DEF Entry
      <3> HIDE DEF e
      <3> QED BY <1>3, <2>2, <3>1, <3>2 DEF InQueueMap
    <2> QED BY <1>5, <2>1, <2>2
  <1>7. /\ recovery' \in Recovery /\ Grows(recovery, recovery')
        /\ SameCredit(recovery, recovery')
        /\ recovery'.currentPath = recovery.currentPath
        /\ recovery'.deadline[classOf(FileOf[r])] # Null \/ row[r] = "complete"
    BY <1>3, <1>5, DeferFacts, GrowsNot
  <1>8. Types'
    BY <1>1, <1>4, <1>6, <1>7 DEF DispatchInv, Types, rows
  <1>9. WorkMoves(w)
    BY <1>1, <1>2, <1>4, <1>6, <1>7 DEF WorkMoves
  <1>10. \A s \in Receipt : /\ row'[s] = row[s] /\ wait'[s] = wait[s]
                            /\ queued'[s].complete =>
                                  queued[s].complete \/ row'[s] = "complete"
    BY <1>1, <1>6 DEF rows
  <1>11. worker'[w].completed => row'[worker[w].receipt] = "complete"
    BY <1>1, <1>2, <1>4 DEF DispatchInv, RowInv, rows
  <1>12. pass'.active => \A s \in pass'.later : wait'[s] # Null
    BY <1>1 DEF DispatchInv, PassInv, rows
  <1>13. Excused(FileOf[worker[w].receipt])' \/ row'[worker[w].receipt] = "complete"
    <2>1. CASE row[r] = "complete"
      BY <1>1, <2>1 DEF rows
    <2>2. CASE row[r] # "complete"
      <3> PICK g \in Files : g = FileOf[r]
        BY <1>3
      <3>1. Excused(g)'
        BY <1>1, <1>7, <2>2, DeadlineExcuses
      <3> QED BY <1>4, <3>1
    <2> QED BY <2>1, <2>2
  <1> QED BY <1>4, <1>8, <1>9, <1>10, <1>11, <1>12, <1>13, WorkStep

(* The entry goes and its credit comes back; what was to be looked at again  *)
(* is marked.                                                                *)
LEMMA FinishDispatchStep ==
    ASSUME DispatchInv, NEW w \in Worker, finishDispatch(w)
    PROVE  DispatchInv'
  <1> PICK r : r = worker[w].receipt
    OBVIOUS
  <1>1. worker[w].pc = "release" /\ worker[w].pc \in WorkPcs
    BY DEF finishDispatch, WorkPcs
  <1>2. /\ r \in Receipt /\ FileOf[r] \in Files /\ Holds(w, r) /\ InQueueMap(r)
        /\ queued[r].epoch = worker[w].epoch
        /\ \A v \in Worker : Holds(v, r) => v = w
        /\ \A i \in 1 .. Len(events) : events[i].receipt # r
    BY <1>1, WorkFacts
  <1> DEFINE rec == IF queued[r].revisit /\ ~queued[r].complete
                    THEN markDiscovery(recovery, FileOf[r]) ELSE recovery
  <1>3. /\ queuedBytes' = queuedBytes - 1
        /\ queued' = [queued EXCEPT ![r] = NotQueued]
        /\ recovery' = [rec EXCEPT !.capacityBlocked = FALSE]
        /\ worker' = [worker EXCEPT ![w] = IdleWorker]
        /\ UNCHANGED <<row, wait, lease, hook, current, events, service, pass,
                       lifecycle>>
    BY <1>2 DEF finishDispatch, rows
  <1>4. /\ recovery \in Recovery /\ worker \in [Worker -> Slot]
        /\ queued \in [Receipt -> Entry]
    BY TypeFacts DEF DispatchInv, Types
  <1>5. /\ rec \in Recovery /\ Grows(recovery, rec) /\ SameCredit(recovery, rec)
        /\ rec.currentPath = recovery.currentPath
        /\ queued[r].revisit /\ ~queued[r].complete => Raised(rec, classOf(FileOf[r]))
    BY <1>2, <1>4, RaiseFacts, ClassFacts, GrowsSame DEF markDiscovery, SameCredit
  <1> HIDE DEF rec
  <1>6. /\ recovery' \in Recovery
        /\ ~recovery'.capacityBlocked
        /\ recovery'.creditReserved = recovery.creditReserved
        /\ recovery'.probing = recovery.probing
        /\ recovery'.currentPath = recovery.currentPath
        /\ queued[r].revisit /\ ~queued[r].complete =>
              Raised(recovery', classOf(FileOf[r]))
    BY <1>3, <1>5 DEF Recovery, Raised, SameCredit
  <1>7. Grows(recovery, recovery')
    <2>1. Grows(rec, recovery')
      <3>1. /\ recovery'.currentPath = rec.currentPath
            /\ recovery'.clockFresh = rec.clockFresh
            /\ recovery'.dirty = rec.dirty /\ recovery'.fresh = rec.fresh
            /\ recovery'.deadline = rec.deadline
        BY <1>3, <1>5 DEF Recovery
      <3> QED BY <1>5, <1>6, <3>1, GrowsSame
    <2> QED BY <1>4, <1>5, <1>6, <2>1, GrowsTrans
  <1>8. /\ worker' \in [Worker -> Slot]
        /\ worker'[w].pc = "idle"
        /\ \A v \in Worker \ {w} : worker'[v] = worker[v]
    BY <1>3, <1>4, IdleFacts
  <1>9. /\ queued' \in [Receipt -> Entry]
        /\ queued'[r] = NotQueued
        /\ \A s \in Receipt \ {r} : queued'[s] = queued[s]
    BY <1>2, <1>3, <1>4, IdleFacts
  <1>10. /\ \A s \in Receipt : InQueueMap(s)' = (InQueueMap(s) /\ s # r)
         /\ \A s \in Receipt : ~Holds(w, s)'
         /\ \A v \in Worker \ {w}, s \in Receipt : Holds(v, s)' = Holds(v, s)
         /\ \A v \in Worker : ~Holds(v, r)'
    <2>1. \A s \in Receipt : InQueueMap(s)' = (InQueueMap(s) /\ s # r)
      BY <1>9, IdleFacts DEF InQueueMap
    <2>2. /\ \A s \in Receipt : ~Holds(w, s)'
          /\ \A v \in Worker \ {w}, s \in Receipt : Holds(v, s)' = Holds(v, s)
      BY <1>8 DEF Holds
    <2> QED BY <1>2, <2>1, <2>2
  <1>11. /\ queuedBytes' = Cardinality({s \in Receipt : InQueueMap(s)'})
         /\ queuedBytes' \in 0 .. ByteLimit
    <2>1. {r} \in SUBSET {s \in Receipt : InQueueMap(s)}
      BY <1>2
    <2>2. \A s \in Receipt : InQueueMap(s)' = (InQueueMap(s) /\ s \notin {r})
      BY <1>10
    <2>3. Cardinality({r}) = 1
      BY FS_Singleton
    <2>4. /\ Cardinality({s \in Receipt : InQueueMap(s)'}) =
                Cardinality({s \in Receipt : InQueueMap(s)}) - 1
          /\ Cardinality({s \in Receipt : InQueueMap(s)'}) \in Nat
      BY <2>1, <2>2, <2>3, MapShrinks
    <2>5. /\ queuedBytes = Cardinality({s \in Receipt : InQueueMap(s)})
          /\ queuedBytes \in 0 .. ByteLimit
      BY DEF DispatchInv, QueueInv, BytesCounted, Types
    <2> QED BY <1>3, <2>4, <2>5, DispatchAssumption
  <1>12. Types'
    BY <1>3, <1>6, <1>8, <1>9, <1>11 DEF DispatchInv, Types
  <1>13. Receipts'
    BY <1>8 DEF DispatchInv, Receipts, WorkPcs
  <1>14. QueueInv'
    <2>1. EventsInMap'
      <3>1. \A i \in 1 .. Len(events) :
               /\ queued'[events[i].receipt].state # "free"
               /\ events[i].epoch = queued'[events[i].receipt].epoch
        BY <1>2, <1>9, EventFacts DEF InQueueMap
      <3> QED BY <1>3, <3>1 DEF EventsInMap, InQueueMap
    <2>2. EventsDistinct'
      BY <1>3 DEF DispatchInv, QueueInv, EventsDistinct
    <2>3. HeldInMap'
      <3>1. ASSUME NEW v \in Worker, NEW s \in Receipt, Holds(v, s)'
            PROVE  /\ InQueueMap(s)'
                   /\ worker'[v].epoch = queued'[s].epoch
                   /\ \A u \in Worker : Holds(u, s)' => u = v
                   /\ \A i \in 1 .. Len(events') : events'[i].receipt # s
        <4>1. v # w /\ s # r /\ Holds(v, s)
          BY <1>10, <3>1
        <4>2. /\ InQueueMap(s) /\ worker[v].epoch = queued[s].epoch
              /\ \A u \in Worker : Holds(u, s) => u = v
              /\ \A i \in 1 .. Len(events) : events[i].receipt # s
          BY <4>1 DEF DispatchInv, QueueInv, HeldInMap
        <4> QED BY <1>3, <1>8, <1>9, <1>10, <4>1, <4>2
      <3> QED BY <3>1 DEF HeldInMap
    <2>4. MapHeld'
      <3>1. ASSUME NEW s \in Receipt, InQueueMap(s)'
            PROVE  \/ \E i \in 1 .. Len(events') : events'[i].receipt = s
                   \/ \E v \in Worker : Holds(v, s)'
        <4>1. InQueueMap(s) /\ s # r
          BY <1>10, <3>1
        <4>2. \/ \E i \in 1 .. Len(events) : events[i].receipt = s
              \/ \E v \in Worker : Holds(v, s)
          BY <4>1 DEF DispatchInv, QueueInv, MapHeld
        <4>3. ~Holds(w, s)
          BY <1>2, <4>1 DEF Holds
        <4> QED BY <1>3, <1>10, <4>2, <4>3
      <3> QED BY <3>1 DEF MapHeld
    <2>5. BytesCounted'
      BY <1>11 DEF BytesCounted
    <2> QED BY <2>1, <2>2, <2>3, <2>4, <2>5 DEF QueueInv
  <1>15. \A v \in Worker : \/ v # w /\ worker'[v] = worker[v]
                           \/ v = w /\ worker[v].pc \notin ProbePcs
                                    /\ worker'[v].pc \notin ProbePcs
    BY <1>1, <1>8 DEF ProbePcs
  <1>16. CreditInv'
    BY <1>3, <1>6, <1>15 DEF DispatchInv, CreditInv
  <1>17. PassInv'
    <2>1. \A v \in Worker : \/ worker'[v] = worker[v]
                            \/ /\ worker'[v].pc \notin ProbePcs
                               /\ worker'[v].pc \notin PagePcs
                               /\ worker'[v].pc \notin {"read", "examine", "admit"}
      BY <1>15 DEF ProbePcs, PagePcs
    <2> QED BY <1>3, <2>1 DEF DispatchInv, PassInv
  <1>18. RowInv'
    BY <1>3, <1>6, <1>8, <1>9, <1>10, ZenonT(30) DEF DispatchInv, RowInv, WorkPcs, PagePcs
  <1>19. FoundInv'
    <2> SUFFICES ASSUME NEW s \in Receipt, row'[s] = "pending", Alone(s)'
                 PROVE  Found(s)'
      BY DEF FoundInv
    <2>1. Found(s) /\ row[s] = "pending"
      BY <1>3 DEF DispatchInv, FoundInv, Alone
    <2>2. QueueLeads(s) => QueueLeads(s)' \/ Excused(FileOf[s])'
      <3> HAVE QueueLeads(s)
      <3>1. CASE s = r
        <4>1. queued[r].revisit
          BY <1>1, <1>2, <3>1 DEF QueueLeads
        <4>2. ~queued[r].complete
          BY <1>2, <2>1, <3>1 DEF DispatchInv, RowInv
        <4>3. classOf(FileOf[s])' = classOf(FileOf[s])
          BY <1>3 DEF classOf
        <4> QED BY <1>6, <3>1, <4>1, <4>2, <4>3, RaisedExcuses
      <3>2. CASE s # r
        BY <1>8, <1>9, <1>10, <3>2 DEF QueueLeads
      <3> QED BY <3>1, <3>2
    <2>3. Excused(FileOf[s]) => Excused(FileOf[s])'
      <3>1. FileOf[s] \in Files
        BY TypeFacts DEF DispatchInv
      <3> QED BY <1>3, <1>7, <3>1, ExcusedKept
    <2>4. ToCome(FileOf[s]) => ToCome(FileOf[s])'
      BY <1>3 DEF ToCome
    <2>5. InFile(s) => InFile(s)'
      <3>1. PagesKept
        BY <1>8 DEF PagesKept, PagePcs
      <3>2. InFile(s) => pass'.active
        BY <1>3 DEF InFile
      <3> QED BY <1>3, <3>1, <3>2, InFileKept
    <2>6. hook[s] = "committed" /\ ~InQueueMap(s) =>
             hook'[s] = "committed" /\ ~InQueueMap(s)'
      BY <1>3, <1>10
    <2> QED BY <2>1, <2>2, <2>3, <2>4, <2>5, <2>6 DEF Found
  <1> QED BY <1>12, <1>13, <1>14, <1>16, <1>17, <1>18, <1>19 DEF DispatchInv

-----------------------------------------------------------------------------
(* The steps of the worker that probes.                                      *)

\* The worker w, the only one that probes, goes on or ends; the channel stays,
\* and entries of the map are at most to be looked at again.
ProbeMoves(w) ==
    /\ worker[w].pc \in ProbePcs \cup {"idle"}
    /\ worker'[w].pc \in ProbePcs \cup {"idle"}
    /\ worker' \in [Worker -> Slot]
    /\ \A v \in Worker \ {w} : worker'[v] = worker[v] /\ worker[v].pc \notin ProbePcs
    /\ UNCHANGED <<row, wait, lease, hook, current, events, queuedBytes, service,
                   lifecycle>>
    /\ queued' \in [Receipt -> Entry]
    /\ \A s \in Receipt : /\ queued'[s].epoch = queued[s].epoch
                          /\ queued'[s].state = queued[s].state
                          /\ queued'[s].complete = queued[s].complete
                          /\ queued[s].revisit => queued'[s].revisit
    /\ recovery' \in Recovery
    /\ recovery'.probing <=> worker'[w].pc \in ProbePcs
    /\ recovery'.currentPath = recovery.currentPath
    /\ recovery'.capacityBlocked => queuedBytes > 0
    /\ recovery'.creditReserved => pass'.active
    /\ pass' = NoPass \/ pass' \in Pass

\* Where the worker and the pass are after a step fits together.
ProbePlaced(w) ==
    /\ worker[w].pc = "admit" =>
          /\ worker[w].receipt \in Receipt
          /\ worker[w].receipt \in DOMAIN worker[w].page
          /\ \A s \in DOMAIN worker[w].page : worker[w].receipt <= s
    /\ worker[w].pc \in ProbePcs \ {"probe"} => pass.active
    /\ worker[w].pc \in {"read", "examine", "admit"} => pass.file # Null
    /\ worker[w].pc \in PagePcs =>
          /\ pass.cursor \in Cursor
          /\ \A r \in DOMAIN worker[w].page : FileOf[r] = pass.file /\ row[r] # "none"
    /\ pass.active =>
          /\ pass.file = Null => pass.cursor = Null
          /\ pass.file # Null => pass.file <= current
          /\ pass.files # Null => pass.files \subseteq 1 .. current
          /\ pass.epoch <= service.epoch
          /\ \A r \in pass.later : wait[r] # Null

(* Nobody holds anything else than before, and the map is the same.          *)
LEMMA ProbeMovesHold ==
    ASSUME NEW w \in Worker, ProbeMoves(w)
    PROVE  /\ \A v \in Worker, s \in Receipt : Holds(v, s)' = Holds(v, s)
           /\ \A v \in Worker, s \in Receipt : Holds(v, s) =>
                 v # w /\ worker'[v] = worker[v]
           /\ \A s \in Receipt : InQueueMap(s)' = InQueueMap(s)
  <1>1. \A s \in Receipt : Holds(w, s)' = Holds(w, s) /\ ~Holds(w, s)
    BY DEF ProbeMoves, Holds, ProbePcs
  <1>2. \A v \in Worker \ {w}, s \in Receipt : Holds(v, s)' = Holds(v, s)
    BY DEF ProbeMoves, Holds
  <1>3. \A v \in Worker \ {w} : worker'[v] = worker[v]
    BY DEF ProbeMoves
  <1>4. \A s \in Receipt : InQueueMap(s)' = InQueueMap(s)
    BY DEF ProbeMoves, InQueueMap
  <1> QED BY <1>1, <1>2, <1>3, <1>4

(* The invariant but for what leads to the receipts.                         *)
LEMMA ProbeMovesKeeps ==
    ASSUME DispatchInv, NEW w \in Worker, ProbeMoves(w), ProbePlaced(w)'
    PROVE  Types' /\ Receipts' /\ QueueInv' /\ CreditInv' /\ PassInv' /\ RowInv'
  <1> USE DEF DispatchInv
  <1>1. /\ \A v \in Worker, s \in Receipt : Holds(v, s)' = Holds(v, s)
        /\ \A v \in Worker, s \in Receipt : Holds(v, s) =>
              v # w /\ worker'[v] = worker[v]
        /\ \A s \in Receipt : InQueueMap(s)' = InQueueMap(s)
    BY ProbeMovesHold
  <1>2. Types'
    BY DEF Types, ProbeMoves
  <1>3. /\ worker'[w].pc \notin WorkPcs
        /\ \A v \in Worker : v # w => worker'[v].pc \notin ProbePcs
        /\ \A v \in Worker : v # w => worker'[v].pc \notin PagePcs /\
              worker'[v].pc \notin {"read", "examine", "admit"}
    BY DEF ProbeMoves, WorkPcs, ProbePcs, PagePcs
  <1>4. Receipts'
    <2>1. ASSUME NEW v \in Worker
          PROVE  /\ worker'[v].pc \in WorkPcs \cup {"admit"} =>
                       worker'[v].receipt \in Receipt
                 /\ worker'[v].pc = "admit" =>
                       /\ worker'[v].receipt \in DOMAIN worker'[v].page
                       /\ \A s \in DOMAIN worker'[v].page : worker'[v].receipt <= s
      <3>1. CASE v = w
        BY <1>3, <3>1 DEF ProbePlaced
      <3>2. CASE v # w
        BY <3>2 DEF Receipts, ProbeMoves
      <3> QED BY <3>1, <3>2
    <2> QED BY <2>1 DEF Receipts
  <1>5. QueueInv'
    <2>1. EventsInMap'
      <3>1. \A i \in 1 .. Len(events) :
               /\ queued'[events[i].receipt].state # "free"
               /\ events[i].epoch = queued'[events[i].receipt].epoch
        BY EventFacts DEF ProbeMoves, InQueueMap
      <3> QED BY <3>1 DEF EventsInMap, InQueueMap, ProbeMoves
    <2>2. EventsDistinct'
      BY DEF QueueInv, EventsDistinct, ProbeMoves
    <2>3. HeldInMap'
      BY <1>1 DEF QueueInv, HeldInMap, ProbeMoves
    <2>4. MapHeld'
      BY <1>1 DEF QueueInv, MapHeld, ProbeMoves
    <2>5. {s \in Receipt : InQueueMap(s)'} = {s \in Receipt : InQueueMap(s)}
      BY <1>1
    <2> QED BY <2>1, <2>2, <2>3, <2>4, <2>5 DEF QueueInv, BytesCounted, ProbeMoves
  <1>6. CreditInv'
    BY <1>3 DEF CreditInv, ProbeMoves
  <1>7. PassInv'
    BY <1>3 DEF PassInv, ProbePlaced, ProbePcs
  <1>8. RowInv'
    <2>1. ASSUME NEW s \in Receipt
          PROVE  /\ row'[s] # "none" => hook'[s] \in {"committed", "done"}
                 /\ hook'[s] = "committed" => row'[s] # "none"
                 /\ hook'[s] # "absent" => FileOf[s] <= current'
                 /\ InQueueMap(s)' => row'[s] # "none"
                 /\ InQueueMap(s)' /\ queued'[s].complete => row'[s] = "complete"
      BY <1>1 DEF RowInv, ProbeMoves
    <2>2. ASSUME NEW v \in Worker, worker'[v].pc \in WorkPcs, worker'[v].completed
          PROVE  row'[worker'[v].receipt] = "complete"
      <3>1. v # w /\ worker'[v] = worker[v]
        BY <1>3, <2>2 DEF ProbeMoves
      <3> QED BY <2>2, <3>1 DEF RowInv, ProbeMoves
    <2>3. ASSUME NEW v \in Worker, worker'[v].pc \in PagePcs
          PROVE  \A s \in DOMAIN worker'[v].page : row'[s] # "none"
      BY <1>3, <2>3 DEF ProbePlaced
    <2> QED BY <2>1, <2>2, <2>3 DEF RowInv, ProbeMoves
  <1> QED BY <1>2, <1>4, <1>5, <1>6, <1>7, <1>8

(* What leads to a receipt through the queue or its hook call still does, so *)
(* that only the rest has to be followed.                                    *)
LEMMA ProbeStep ==
    ASSUME DispatchInv, NEW w \in Worker, ProbeMoves(w), ProbePlaced(w)',
           \A r \in Receipt :
              /\ row[r] = "pending" /\ Alone(r)
              /\ Excused(FileOf[r]) \/ ToCome(FileOf[r]) \/ InFile(r)
              => Found(r)'
    PROVE  DispatchInv'
  <1>1. Types' /\ Receipts' /\ QueueInv' /\ CreditInv' /\ PassInv' /\ RowInv'
    BY ProbeMovesKeeps
  <1>2. FoundInv'
    <2> SUFFICES ASSUME NEW r \in Receipt, row'[r] = "pending", Alone(r)'
                 PROVE  Found(r)'
      BY DEF FoundInv
    <2>1. row[r] = "pending" /\ Alone(r)
      BY DEF Alone, ProbeMoves
    <2>2. Found(r)
      BY <2>1 DEF DispatchInv, FoundInv
    <2>3. /\ \A v \in Worker : Holds(v, r)' = Holds(v, r)
          /\ \A v \in Worker : Holds(v, r) => worker'[v] = worker[v]
          /\ InQueueMap(r)' = InQueueMap(r)
      BY ProbeMovesHold
    <2>4. QueueLeads(r) => QueueLeads(r)'
      BY <2>3, QueueLeadsKept DEF QueueLeads, ProbeMoves
    <2>5. hook'[r] = hook[r]
      BY DEF ProbeMoves
    <2>6. CASE Excused(FileOf[r]) \/ ToCome(FileOf[r]) \/ InFile(r)
      BY <2>1, <2>6
    <2> QED BY <2>2, <2>3, <2>4, <2>5, <2>6 DEF Found
  <1> QED BY <1>1, <1>2 DEF DispatchInv

(* The worker that probes is the only one.                                   *)
LEMMA ProbeFacts ==
    ASSUME DispatchInv, NEW w \in Worker, worker[w].pc \in ProbePcs
    PROVE  /\ \A v \in Worker \ {w} : worker[v].pc \notin ProbePcs
           /\ recovery.probing
           /\ worker[w].pc # "probe" => pass.active /\ pass \in Pass
           /\ recovery.capacityBlocked => queuedBytes > 0
           /\ recovery.creditReserved => pass.active
           /\ recovery \in Recovery /\ worker \in [Worker -> Slot]
           /\ queued \in [Receipt -> Entry]
           /\ pass = NoPass \/ pass \in Pass
  <1>1. /\ \A v \in Worker \ {w} : worker[v].pc \notin ProbePcs
        /\ recovery.probing
        /\ recovery.capacityBlocked => queuedBytes > 0
        /\ recovery.creditReserved => pass.active
    BY DEF DispatchInv, CreditInv
  <1>2. worker[w].pc # "probe" => pass.active
    BY DEF DispatchInv, PassInv
  <1> QED BY <1>1, <1>2, TypeFacts DEF DispatchInv, Types

(* Where the worker and the pass are before the step fits together as well.  *)
LEMMA PlacedBefore ==
    ASSUME DispatchInv, NEW w \in Worker
    PROVE  ProbePlaced(w)
  BY DEF DispatchInv, Receipts, PassInv, RowInv, ProbePlaced

(* A probe that ends leaves an idle worker and the recovery state it says.   *)
LEMMA EndProbeFacts ==
    ASSUME DispatchInv, NEW w \in Worker, worker[w].pc \in ProbePcs,
           NEW rec \in Recovery, EndProbe(w, rec)
    PROVE  /\ worker' \in [Worker -> Slot]
           /\ worker'[w].pc = "idle"
           /\ \A v \in Worker \ {w} :
                 worker'[v] = worker[v] /\ worker[v].pc \notin ProbePcs
           /\ \A v \in Worker : worker'[v].pc \notin PagePcs
           /\ recovery' \in Recovery /\ ~recovery'.probing
           /\ recovery'.capacityBlocked = rec.capacityBlocked
           /\ recovery'.creditReserved = rec.creditReserved
           /\ recovery'.dirty = rec.dirty /\ recovery'.fresh = rec.fresh
           /\ recovery'.clockFresh = rec.clockFresh
           /\ recovery'.deadline = rec.deadline
           /\ recovery'.currentPath = rec.currentPath
           /\ Grows(rec, recovery')
  <1>1. /\ recovery' = [rec EXCEPT !.probing = FALSE]
        /\ worker' = [worker EXCEPT ![w] = IdleWorker]
    BY DEF EndProbe
  <1>2. /\ worker \in [Worker -> Slot]
        /\ \A v \in Worker \ {w} : worker[v].pc \notin ProbePcs
    BY ProbeFacts
  <1>3. /\ worker' \in [Worker -> Slot]
        /\ worker'[w].pc = "idle"
        /\ \A v \in Worker \ {w} : worker'[v] = worker[v]
    BY <1>1, <1>2, IdleFacts
  <1>4. \A v \in Worker : worker'[v].pc \notin PagePcs
    BY <1>2, <1>3 DEF PagePcs, ProbePcs
  <1>5. /\ recovery' \in Recovery /\ ~recovery'.probing
        /\ recovery'.capacityBlocked = rec.capacityBlocked
        /\ recovery'.creditReserved = rec.creditReserved
        /\ recovery'.dirty = rec.dirty /\ recovery'.fresh = rec.fresh
        /\ recovery'.clockFresh = rec.clockFresh
        /\ recovery'.deadline = rec.deadline
        /\ recovery'.currentPath = rec.currentPath
    BY <1>1 DEF Recovery
  <1>6. Grows(rec, recovery')
    BY <1>5, GrowsSame
  <1> QED BY <1>2, <1>3, <1>4, <1>5, <1>6

(* A probe that ends with the pass as it is loses nothing.                   *)
LEMMA EndProbeStep ==
    ASSUME DispatchInv, NEW w \in Worker, worker[w].pc \in ProbePcs,
           NEW rec \in Recovery, EndProbe(w, rec), Grows(recovery, rec),
           rec.currentPath = recovery.currentPath,
           rec.capacityBlocked => queuedBytes > 0,
           rec.creditReserved => pass.active,
           UNCHANGED <<rows, hook, current, queue, service, pass, lifecycle>>
    PROVE  DispatchInv'
  <1>1. /\ worker' \in [Worker -> Slot]
        /\ worker'[w].pc = "idle"
        /\ \A v \in Worker \ {w} :
              worker'[v] = worker[v] /\ worker[v].pc \notin ProbePcs
        /\ \A v \in Worker : worker'[v].pc \notin PagePcs
        /\ recovery' \in Recovery /\ ~recovery'.probing
        /\ recovery'.capacityBlocked = rec.capacityBlocked
        /\ recovery'.creditReserved = rec.creditReserved
        /\ recovery'.currentPath = rec.currentPath
        /\ Grows(rec, recovery')
    BY EndProbeFacts
  <1>2. recovery \in Recovery /\ queued \in [Receipt -> Entry]
        /\ (pass = NoPass \/ pass \in Pass)
    BY ProbeFacts
  <1>3. ProbeMoves(w)
    BY <1>1, <1>2 DEF ProbeMoves, rows, queue, ProbePcs
  <1>4. ProbePlaced(w)'
    BY <1>1, PlacedBefore DEF ProbePlaced, ProbePcs, PagePcs, rows
  <1>5. Grows(recovery, recovery')
    BY <1>1, <1>2, GrowsTrans
  <1>6. ASSUME NEW r \in Receipt,
               Excused(FileOf[r]) \/ ToCome(FileOf[r]) \/ InFile(r)
        PROVE  Found(r)'
    <2>1. Excused(FileOf[r]) => Excused(FileOf[r])'
      BY <1>5, ExcusedKept, TypeFacts DEF DispatchInv
    <2>2. ToCome(FileOf[r]) => ToCome(FileOf[r])'
      BY DEF ToCome
    <2>3. InFile(r) => InFile(r)'
      <3>1. PagesKept
        BY <1>1 DEF PagesKept
      <3> QED BY <3>1, InFileKept DEF InFile, rows
    <2> QED BY <1>6, <2>1, <2>2, <2>3 DEF Found
  <1> QED BY <1>3, <1>4, <1>6, ProbeStep

(* An idle worker takes the probe.                                           *)
LEMMA TakeProbeStep ==
    ASSUME DispatchInv, NEW w \in Worker, takeProbe(w)
    PROVE  DispatchInv'
  <1> DEFINE new == [IdleWorker EXCEPT !.pc = "probe"]
  <1>1. /\ worker[w].pc = "idle" /\ ~recovery.probing
        /\ recovery' = [recovery EXCEPT !.probing = TRUE, !.turn = FALSE]
        /\ worker' = [worker EXCEPT ![w] = new]
        /\ UNCHANGED <<rows, hook, current, queue, service, pass, lifecycle>>
    BY DEF takeProbe, ProbeDue
  <1>2. /\ recovery \in Recovery /\ worker \in [Worker -> Slot]
        /\ queued \in [Receipt -> Entry] /\ (pass = NoPass \/ pass \in Pass)
        /\ recovery.capacityBlocked => queuedBytes > 0
        /\ recovery.creditReserved => pass.active
        /\ \A v \in Worker : worker[v].pc \notin ProbePcs
    BY <1>1 DEF DispatchInv, Types, CreditInv
  <1>3. new \in Slot /\ new.pc = "probe"
    BY IdleFacts, PcFacts DEF Slot
  <1> HIDE DEF new
  <1>4. /\ worker' \in [Worker -> Slot]
        /\ worker'[w].pc = "probe"
        /\ \A v \in Worker \ {w} : worker'[v] = worker[v]
    BY <1>1, <1>2, <1>3
  <1>5. /\ recovery' \in Recovery /\ recovery'.probing
        /\ recovery'.capacityBlocked = recovery.capacityBlocked
        /\ recovery'.creditReserved = recovery.creditReserved
        /\ recovery'.dirty = recovery.dirty /\ recovery'.fresh = recovery.fresh
        /\ recovery'.clockFresh = recovery.clockFresh
        /\ recovery'.deadline = recovery.deadline
        /\ recovery'.currentPath = recovery.currentPath
    BY <1>1, <1>2 DEF Recovery
  <1>6. ProbeMoves(w)
    BY <1>1, <1>2, <1>4, <1>5 DEF ProbeMoves, rows, queue, ProbePcs
  <1>7. ProbePlaced(w)'
    BY <1>1, <1>4, PlacedBefore DEF ProbePlaced, PagePcs, rows
  <1>8. ASSUME NEW r \in Receipt,
               Excused(FileOf[r]) \/ ToCome(FileOf[r]) \/ InFile(r)
        PROVE  Found(r)'
    <2>1. Excused(FileOf[r]) => Excused(FileOf[r])'
      BY <1>1, <1>5 DEF Excused, Wake, classOf
    <2>2. ToCome(FileOf[r]) => ToCome(FileOf[r])'
      BY <1>1 DEF ToCome
    <2>3. InFile(r) => InFile(r)'
      <3>1. PagesKept
        BY <1>4 DEF PagesKept, PagePcs
      <3> QED BY <1>1, <3>1, InFileKept DEF InFile, rows
    <2> QED BY <1>8, <2>1, <2>2, <2>3 DEF Found
  <1> QED BY <1>6, <1>7, <1>8, ProbeStep

(* A worker that probes goes to another place of the probe.                  *)
LEMMA ProbeGoes ==
    ASSUME DispatchInv, NEW w \in Worker, worker[w].pc \in ProbePcs,
           NEW p \in {"select", "read"}, worker' = [worker EXCEPT ![w].pc = p]
    PROVE  /\ worker' \in [Worker -> Slot]
           /\ worker'[w].pc = p
           /\ \A v \in Worker \ {w} :
                 worker'[v] = worker[v] /\ worker[v].pc \notin ProbePcs
           /\ \A v \in Worker : worker'[v].pc \notin PagePcs
           /\ worker'[w].pc \in ProbePcs /\ worker'[w].pc # "admit"
  <1>1. /\ worker \in [Worker -> Slot]
        /\ \A v \in Worker \ {w} : worker[v].pc \notin ProbePcs
    BY ProbeFacts
  <1>2. p \in Pcs
    BY PcFacts
  <1>3. /\ worker' \in [Worker -> Slot]
        /\ worker'[w].pc = p
        /\ \A v \in Worker \ {w} : worker'[v] = worker[v]
    BY <1>1, <1>2, SlotMoves
  <1> QED BY <1>1, <1>3 DEF ProbePcs, PagePcs

(* A pass begins: one that is not historical leaves what it does not come to *)
(* to a deadline, a file that becomes current or one that is put aside.      *)
LEMMA NewPassStep ==
    ASSUME DispatchInv, NEW w \in Worker, beginPass(w),
           ~pass.active \/ pass.epoch # service.epoch \/ ~recovery.clockFresh
    PROVE  DispatchInv'
  <1> DEFINE stale == /\ pass.active
                      /\ pass.epoch # service.epoch \/ ~recovery.clockFresh
             rec == IF stale THEN reset(recovery) ELSE recovery
             history == rec.dirty["history"]
             later == {r \in Receipt : wait[r] # Null /\ wait[r] > 0}
             leased == {r \in Receipt : lease[r] > 0}
             fresh == [c \in Class |-> TRUE]
  <1>1. /\ worker[w].pc = "probe" /\ worker[w].pc \in ProbePcs
        /\ pass' = [active |-> TRUE, historical |-> history, epoch |-> service.epoch,
                    files |-> Null, file |-> Null, currentDone |-> FALSE,
                    cursor |-> Null, later |-> later, leased |-> leased]
        /\ recovery' = [rec EXCEPT !.fresh = fresh, !.clockFresh = TRUE]
        /\ worker' = [worker EXCEPT ![w].pc = "select"]
        /\ UNCHANGED <<rows, hook, current, queue, service, lifecycle>>
    BY DEF beginPass, ProbePcs
  <1>2. /\ recovery \in Recovery /\ recovery.probing
        /\ queued \in [Receipt -> Entry]
        /\ recovery.capacityBlocked => queuedBytes > 0
    BY <1>1, ProbeFacts
  <1>3. /\ worker' \in [Worker -> Slot]
        /\ worker'[w].pc = "select"
        /\ \A v \in Worker \ {w} :
              worker'[v] = worker[v] /\ worker[v].pc \notin ProbePcs
        /\ \A v \in Worker : worker'[v].pc \notin PagePcs
        /\ worker'[w].pc \in ProbePcs /\ worker'[w].pc # "admit"
    BY <1>1, ProbeGoes
  <1>4. /\ rec \in Recovery /\ rec.probing
        /\ rec.currentPath = recovery.currentPath
        /\ rec.deadline = recovery.deadline
        /\ rec.capacityBlocked => recovery.capacityBlocked
        /\ stale => history
        /\ ~stale => rec = recovery
    BY <1>2, ResetFacts, ClassFacts DEF Raised
  <1>5. /\ history \in BOOLEAN /\ service.epoch \in Nat
        /\ later \in SUBSET Receipt /\ leased \in SUBSET Receipt
        /\ \A r \in later : wait[r] # Null
        /\ fresh \in [Class -> BOOLEAN] /\ \A c \in Class : fresh[c] = TRUE
    BY <1>4, TypeFacts, ClassFacts DEF DispatchInv, Recovery
  <1>6. ~stale => ~pass.active
    OBVIOUS
  <1> DEFINE dirty == rec.dirty
  <1>7. rec.dirty = dirty /\ history = dirty["history"] /\ (~stale => dirty = recovery.dirty)
    BY <1>4
  <1> HIDE DEF stale, rec, later, leased, history, fresh, dirty
  <1>8. /\ pass' \in Pass
        /\ pass'.active /\ pass'.historical = history
        /\ pass'.epoch = service.epoch /\ pass'.files = Null /\ pass'.file = Null
        /\ pass'.currentDone = FALSE /\ pass'.cursor = Null /\ pass'.later = later
    <2>1. /\ pass'.active /\ pass'.historical = history
          /\ pass'.epoch = service.epoch /\ pass'.files = Null /\ pass'.file = Null
          /\ pass'.currentDone = FALSE /\ pass'.cursor = Null /\ pass'.later = later
      BY <1>1
    <2>2. /\ Null \in (SUBSET Files) \cup {Null} /\ Null \in Files \cup {Null}
          /\ Null \in Cursor \cup {Null} /\ TRUE \in {TRUE} /\ FALSE \in BOOLEAN
      OBVIOUS
    <2>3. pass' \in Pass
      BY <1>1, <1>5, <2>2 DEF Pass
    <2> QED BY <2>1, <2>3
  <1>9. /\ recovery' \in Recovery /\ recovery'.probing
        /\ recovery'.capacityBlocked => queuedBytes > 0
        /\ recovery'.currentPath = recovery.currentPath
        /\ recovery'.deadline = recovery.deadline
        /\ recovery'.dirty = dirty
    BY <1>1, <1>2, <1>4, <1>5, <1>7 DEF Recovery
  <1>10. ProbeMoves(w)
    BY <1>1, <1>2, <1>3, <1>8, <1>9 DEF ProbeMoves, rows, queue
  <1>11. ProbePlaced(w)'
    BY <1>1, <1>3, <1>5, <1>8 DEF ProbePlaced, PagePcs, rows
  <1>12. ASSUME NEW r \in Receipt,
                Excused(FileOf[r]) \/ ToCome(FileOf[r]) \/ InFile(r)
         PROVE  Found(r)'
    <2>1. CASE history
      BY <1>8, <2>1 DEF Found, ToCome
    <2>2. CASE ~history
      <3> PICK f \in Files : f = FileOf[r]
        BY TypeFacts DEF DispatchInv
      <3>1. ~pass.active /\ dirty = recovery.dirty /\ ~recovery.dirty["history"]
        BY <1>4, <1>6, <1>7, <2>2
      <3>2. Excused(f)
        BY <1>12, <3>1 DEF ToCome, InFile
      <3>3. classOf(f)' = classOf(f) /\ UNCHANGED <<current, service>>
        BY <1>1 DEF classOf
      <3>4. CASE Wake(classOf(f)) \/ Wake("history")
        <4>1. recovery.dirty[classOf(f)]
          BY <3>1, <3>4 DEF Wake
        <4>2. f = current
          BY <3>1, <4>1 DEF classOf
        <4>3. ToCome(f)'
          BY <1>1, <1>8, <2>2, <4>2 DEF ToCome
        <4> QED BY <4>3 DEF Found
      <3>5. CASE ~Wake(classOf(f)) /\ ~Wake("history")
        <4>1. Excused(f)'
          BY <1>9, <3>2, <3>3, <3>5 DEF Excused
        <4> QED BY <4>1 DEF Found
      <3> QED BY <3>4, <3>5
    <2> QED BY <2>1, <2>2
  <1> QED BY <1>10, <1>11, <1>12, ProbeStep

(* A probe that goes on with the pass as it is.                              *)
LEMMA PassKeptStep ==
    ASSUME DispatchInv, NEW w \in Worker, worker[w].pc \in ProbePcs,
           NEW p \in {"select", "read"}, worker' = [worker EXCEPT ![w].pc = p],
           pass.active, p = "read" => pass.file # Null,
           UNCHANGED <<rows, hook, current, queue, service, pass, recovery, lifecycle>>
    PROVE  DispatchInv'
  <1>1. /\ worker' \in [Worker -> Slot]
        /\ worker'[w].pc = p
        /\ \A v \in Worker \ {w} :
              worker'[v] = worker[v] /\ worker[v].pc \notin ProbePcs
        /\ \A v \in Worker : worker'[v].pc \notin PagePcs
        /\ worker'[w].pc \in ProbePcs /\ worker'[w].pc # "admit"
    BY ProbeGoes
  <1>2. ProbeMoves(w)
    BY <1>1, ProbeFacts DEF ProbeMoves, rows, queue
  <1>3. ProbePlaced(w)'
    BY <1>1, PlacedBefore DEF ProbePlaced, rows
  <1>4. ASSUME NEW r \in Receipt,
               Excused(FileOf[r]) \/ ToCome(FileOf[r]) \/ InFile(r)
        PROVE  Found(r)'
    <2>1. Excused(FileOf[r]) => Excused(FileOf[r])'
      BY DEF Excused, Wake, classOf
    <2>2. ToCome(FileOf[r]) => ToCome(FileOf[r])'
      BY DEF ToCome
    <2>3. InFile(r) => InFile(r)'
      <3>1. PagesKept
        BY <1>1 DEF PagesKept
      <3> QED BY <3>1, InFileKept DEF InFile, rows
    <2> QED BY <1>4, <2>1, <2>2, <2>3 DEF Found
  <1> QED BY <1>2, <1>3, <1>4, ProbeStep

(* The probe that takes up a pass.                                           *)
LEMMA BeginPassStep ==
    ASSUME DispatchInv, NEW w \in Worker, beginPass(w)
    PROVE  DispatchInv'
  <1>1. CASE ~pass.active \/ pass.epoch # service.epoch \/ ~recovery.clockFresh
    BY <1>1, NewPassStep
  <1>2. CASE pass.active /\ pass.epoch = service.epoch /\ recovery.clockFresh
    <2>1. /\ worker[w].pc \in ProbePcs
          /\ worker' = [worker EXCEPT ![w].pc = "select"]
          /\ UNCHANGED <<rows, hook, current, queue, service, pass, recovery, lifecycle>>
      BY <1>2 DEF beginPass, ProbePcs
    <2> QED BY <1>2, <2>1, PassKeptStep
  <1> QED BY <1>1, <1>2

(* The next file is taken up: the receipts of it are now ahead of the cursor.*)
LEMMA NextFileStep ==
    ASSUME DispatchInv, NEW w \in Worker, worker[w].pc = "select", pass.file = Null,
           worker' = [worker EXCEPT ![w].pc = "read"],
           NEW f \in 1 .. current,
           pass' \in Pass, pass'.active, pass'.historical = pass.historical,
           pass'.epoch = pass.epoch, pass'.file = f, pass'.cursor = pass.cursor,
           pass'.later = pass.later,
           pass'.files # Null => pass'.files \subseteq 1 .. current,
           \A g \in 1 .. current : ToCome(g) => g = f \/ ToCome(g)',
           UNCHANGED <<rows, hook, current, queue, service, recovery, lifecycle>>
    PROVE  DispatchInv'
  <1>1. worker[w].pc \in ProbePcs /\ worker[w].pc # "probe"
    BY DEF ProbePcs
  <1>2. /\ worker' \in [Worker -> Slot]
        /\ worker'[w].pc = "read"
        /\ \A v \in Worker \ {w} :
              worker'[v] = worker[v] /\ worker[v].pc \notin ProbePcs
        /\ \A v \in Worker : worker'[v].pc \notin PagePcs
        /\ worker'[w].pc \in ProbePcs /\ worker'[w].pc # "admit"
    BY <1>1, ProbeGoes
  <1>3. pass.active /\ pass.cursor = Null /\ pass.epoch <= service.epoch
    BY <1>1, ProbeFacts DEF DispatchInv, PassInv
  <1>4. \A r \in pass.later : wait[r] # Null
    BY <1>3 DEF DispatchInv, PassInv
  <1>5. f # Null /\ f <= current /\ f \in Files
    BY TypeFacts, DispatchAssumption DEF DispatchInv, Files
  <1>6. ProbeMoves(w)
    BY <1>1, <1>2, ProbeFacts DEF ProbeMoves, rows, queue
  <1>7. ProbePlaced(w)'
    BY <1>2, <1>3, <1>4, <1>5 DEF ProbePlaced, PagePcs, rows
  <1>8. ASSUME NEW r \in Receipt, row[r] = "pending",
               Excused(FileOf[r]) \/ ToCome(FileOf[r]) \/ InFile(r)
        PROVE  Found(r)'
    <2> PICK g \in Files : g = FileOf[r]
      BY TypeFacts DEF DispatchInv
    <2>1. g \in 1 .. current
      BY <1>8, TypeFacts DEF DispatchInv, RowInv, Files
    <2>2. Excused(g) => Excused(g)'
      BY <1>3 DEF Excused, Wake, classOf
    <2>3. ToCome(g) => ToCome(g)' \/ InFile(r)'
      <3>1. CASE g = f
        BY <1>2, <1>3, <3>1 DEF InFile
      <3>2. CASE g # f
        BY <2>1, <3>2
      <3> QED BY <3>1, <3>2
    <2>4. ~InFile(r)
      BY <2>1, TypeFacts, DispatchAssumption DEF InFile, DispatchInv, Files
    <2> QED BY <1>8, <2>2, <2>3, <2>4 DEF Found
  <1> QED BY <1>6, <1>7, <1>8, ProbeStep

(* The pass ends: what it was to find it has found, and what has been raised *)
(* since it began is not acknowledged.                                       *)
LEMMA EndPassStep ==
    ASSUME DispatchInv, NEW w \in Worker, worker[w].pc = "select", pass.file = Null,
           NEW rec \in Recovery, EndProbe(w, acknowledged(rec)), pass' = NoPass,
           rec.capacityBlocked = recovery.capacityBlocked,
           rec.currentPath = recovery.currentPath,
           \/ rec.deadline["history"] # Null
           \/ rec = recovery /\ \A g \in 1 .. current : ~ToCome(g),
           UNCHANGED <<rows, hook, current, queue, service, lifecycle>>
    PROVE  DispatchInv'
  <1>1. worker[w].pc \in ProbePcs /\ worker[w].pc # "probe"
    BY DEF ProbePcs
  <1>2. /\ acknowledged(rec) \in Recovery
        /\ acknowledged(rec).creditReserved = FALSE
        /\ acknowledged(rec).capacityBlocked = rec.capacityBlocked
        /\ acknowledged(rec).currentPath = rec.currentPath
        /\ acknowledged(rec).deadline = rec.deadline
        /\ \A c \in Class : acknowledged(rec).dirty[c] =
              (rec.dirty[c] /\ ~(/\ pass.epoch = service.epoch
                                 /\ rec.clockFresh
                                 /\ rec.fresh[c]
                                 /\ c = "history" => pass.historical))
    BY AcknowledgedFacts
  <1> PICK ack \in Recovery : ack = acknowledged(rec)
    BY <1>2
  <1>3. EndProbe(w, ack)
    OBVIOUS
  <1>4. /\ worker' \in [Worker -> Slot]
        /\ worker'[w].pc = "idle"
        /\ \A v \in Worker \ {w} :
              worker'[v] = worker[v] /\ worker[v].pc \notin ProbePcs
        /\ \A v \in Worker : worker'[v].pc \notin PagePcs
        /\ recovery' \in Recovery /\ ~recovery'.probing
        /\ recovery'.capacityBlocked = ack.capacityBlocked
        /\ recovery'.creditReserved = ack.creditReserved
        /\ recovery'.dirty = ack.dirty
        /\ recovery'.deadline = ack.deadline
        /\ recovery'.currentPath = ack.currentPath
    BY <1>1, <1>3, EndProbeFacts
  <1>5. ~pass'.active
    BY DEF NoPass
  <1>6. ProbeMoves(w)
    BY <1>1, <1>2, <1>4, <1>5, ProbeFacts DEF ProbeMoves, rows, queue, ProbePcs
  <1>7. ProbePlaced(w)'
    BY <1>4, <1>5 DEF ProbePlaced, ProbePcs, PagePcs
  <1>8. ASSUME NEW r \in Receipt, row[r] = "pending",
               Excused(FileOf[r]) \/ ToCome(FileOf[r]) \/ InFile(r)
        PROVE  Found(r)'
    <2> PICK g \in Files : g = FileOf[r]
      BY TypeFacts DEF DispatchInv
    <2>1. g \in 1 .. current
      BY <1>8, TypeFacts DEF DispatchInv, RowInv, Files
    <2>2. classOf(g)' = classOf(g) /\ classOf(g) \in Class /\ "history" \in Class
      BY ClassFacts DEF classOf
    <2>3. CASE rec.deadline["history"] # Null
      <3>1. Excused(g)'
        BY <1>2, <1>4, <2>3 DEF Excused
      <3> QED BY <3>1 DEF Found
    <2>4. CASE rec = recovery /\ \A h \in 1 .. current : ~ToCome(h)
      <3>1. ~InFile(r)
        BY <2>1, TypeFacts, DispatchAssumption DEF InFile, DispatchInv, Files
      <3>2. Excused(g)
        BY <1>8, <2>1, <2>4, <3>1
      <3>3. ASSUME NEW c \in Class, Wake(c)
            PROVE  Wake(c)'
        <4>1. recovery'.dirty[c]
          <5>1. pass.active
            BY <1>1, ProbeFacts
          <5> QED BY <1>2, <1>4, <2>4, <3>3, <5>1 DEF Wake
        <4> QED BY <1>5, <4>1 DEF Wake
      <3>4. recovery'.deadline = recovery.deadline
        BY <1>2, <1>4, <2>4
      <3>5. Excused(g)'
        BY <1>2, <1>4, <2>2, <3>2, <3>3, <3>4 DEF Excused
      <3> QED BY <3>5 DEF Found
    <2> QED BY <2>3, <2>4
  <1> QED BY <1>6, <1>7, <1>8, ProbeStep

(* The next file of the pass, or its end.                                    *)
LEMMA SelectFileStep ==
    ASSUME DispatchInv, NEW w \in Worker, selectFile(w)
    PROVE  DispatchInv'
  <1> DEFINE rest == IF pass.files = Null THEN 1 .. current ELSE pass.files
  <1>1. /\ worker[w].pc = "select" /\ worker[w].pc \in ProbePcs
        /\ UNCHANGED <<rows, hook, current, queue, service, lifecycle>>
    BY DEF selectFile, ProbePcs
  <1>2. /\ pass.active /\ pass \in Pass /\ recovery \in Recovery
        /\ current \in Files /\ current \in 1 .. current /\ rest \subseteq 1 .. current
        /\ 1 .. current \subseteq Files
    <2>1. pass.active /\ pass \in Pass /\ recovery \in Recovery
      BY <1>1, ProbeFacts
    <2>2. current \in Files /\ current \in 1 .. current /\ 1 .. current \subseteq Files
      BY DispatchAssumption DEF DispatchInv, Types, Files
    <2> QED BY <2>1, <2>2 DEF DispatchInv, PassInv
  <1>3. ASSUME pass.file # Null PROVE DispatchInv'
    <2>1. worker' = [worker EXCEPT ![w].pc = "read"] /\ UNCHANGED <<pass, recovery>>
      BY <1>3 DEF selectFile
    <2> QED BY <1>1, <1>2, <1>3, <2>1, PassKeptStep
  <1>4. ASSUME pass.file = Null, ~pass.historical, ~pass.currentDone
        PROVE  DispatchInv'
    <2>1. /\ pass' = [pass EXCEPT !.file = current, !.currentDone = TRUE]
          /\ worker' = [worker EXCEPT ![w].pc = "read"] /\ UNCHANGED recovery
      BY <1>4 DEF selectFile
    <2>2. /\ pass' \in Pass /\ pass'.active /\ pass'.historical = pass.historical
          /\ pass'.epoch = pass.epoch /\ pass'.file = current
          /\ pass'.cursor = pass.cursor /\ pass'.later = pass.later
          /\ pass'.files = pass.files
      BY <1>2, <2>1 DEF Pass
    <2>3. pass'.files # Null => pass'.files \subseteq 1 .. current
      BY <1>2, <2>2
    <2>4. \A g \in 1 .. current : ToCome(g) => g = current
      BY <1>4 DEF ToCome
    <2> QED BY <1>1, <1>2, <1>4, <2>1, <2>2, <2>3, <2>4, NextFileStep
  <1>5. ASSUME pass.file = Null, pass.historical, NEW f \in rest,
               pass' = [pass EXCEPT !.file = f, !.files = rest \ {f}],
               worker' = [worker EXCEPT ![w].pc = "read"], UNCHANGED recovery
        PROVE  DispatchInv'
    <2> DEFINE files == rest \ {f}
    <2>1. /\ files \in SUBSET Files /\ files \subseteq 1 .. current
          /\ f \in Files /\ f \in 1 .. current
          /\ \A g \in 1 .. current : ToCome(g) => g = f \/ g \in files
      BY <1>2, <1>5 DEF ToCome
    <2>2. pass' = [pass EXCEPT !.file = f, !.files = files]
      BY <1>5
    <2> HIDE DEF files
    <2>3. /\ pass' \in Pass /\ pass'.active /\ pass'.historical = pass.historical
          /\ pass'.epoch = pass.epoch /\ pass'.file = f
          /\ pass'.cursor = pass.cursor /\ pass'.later = pass.later
          /\ pass'.files = files
      BY <1>2, <2>1, <2>2 DEF Pass
    <2>4. \A g \in 1 .. current : ToCome(g) => g = f \/ ToCome(g)'
      BY <1>1, <1>5, <2>1, <2>3 DEF ToCome
    <2> QED BY <1>1, <1>5, <2>1, <2>3, <2>4, NextFileStep
  <1>6. ASSUME pass.file = Null, IF pass.historical THEN rest = {} ELSE pass.currentDone,
               pass' = NoPass, EndProbe(w, acknowledged(recovery))
        PROVE  DispatchInv'
    <2>1. \A g \in 1 .. current : ~ToCome(g)
      BY <1>2, <1>6 DEF ToCome
    <2> QED BY <1>1, <1>2, <1>6, <2>1, EndPassStep
  <1> QED BY <1>3, <1>4, <1>5, <1>6 DEF selectFile

(* The directory cannot be read: a deadline stands for the history.          *)
LEMMA TraversalFailsStep ==
    ASSUME DispatchInv, NEW w \in Worker, traversalFails(w)
    PROVE  DispatchInv'
  <1> DEFINE d == earlierDeadline(recovery.deadline["history"], ErrorDelay)
             rec == [recovery EXCEPT !.deadline["history"] = d]
  <1>1. /\ worker[w].pc = "select" /\ pass.file = Null /\ pass' = NoPass
        /\ EndProbe(w, acknowledged(rec))
        /\ UNCHANGED <<rows, hook, current, queue, service, lifecycle>>
    BY DEF traversalFails
  <1>2. recovery \in Recovery /\ recovery.deadline \in [Class -> Time]
    BY TypeFacts DEF DispatchInv, Recovery
  <1>3. d \in Time /\ d # Null
    BY <1>2, EarlierFacts, ClassFacts, DispatchAssumption, ZenonT(30) DEF Time
  <1> HIDE DEF d
  <1>4. [recovery.deadline EXCEPT !["history"] = d] \in [Class -> Time]
    BY <1>2, <1>3
  <1>5. rec \in Recovery
    BY <1>2, <1>4 DEF Recovery
  <1>6. /\ rec.capacityBlocked = recovery.capacityBlocked
        /\ rec.currentPath = recovery.currentPath
        /\ rec.deadline["history"] # Null
    BY <1>2, <1>3, ClassFacts DEF Recovery
  <1> HIDE DEF rec
  <1> QED BY <1>1, <1>5, <1>6, EndPassStep

(* The file is given up: a deadline stands for it, or it is put aside.       *)
LEMMA ClearFileStep ==
    ASSUME DispatchInv, NEW w \in Worker, worker[w].pc \in {"read", "examine"},
           NEW rec \in Recovery, EndProbe(w, rec), Grows(recovery, rec),
           rec.currentPath = recovery.currentPath,
           rec.capacityBlocked = recovery.capacityBlocked,
           pass' = clearFile,
           UNCHANGED <<row, wait, lease, hook, current, events, queuedBytes, service,
                       lifecycle>>,
           queued' \in [Receipt -> Entry],
           \A s \in Receipt : /\ queued'[s].epoch = queued[s].epoch
                              /\ queued'[s].state = queued[s].state
                              /\ queued'[s].complete = queued[s].complete
                              /\ queued[s].revisit => queued'[s].revisit,
           \A r \in Receipt : row[r] = "pending" /\ Alone(r) /\ InFile(r) => Found(r)'
    PROVE  DispatchInv'
  <1>1. worker[w].pc \in ProbePcs /\ worker[w].pc # "probe"
    BY DEF ProbePcs
  <1>2. /\ worker' \in [Worker -> Slot]
        /\ worker'[w].pc = "idle"
        /\ \A v \in Worker \ {w} :
              worker'[v] = worker[v] /\ worker[v].pc \notin ProbePcs
        /\ \A v \in Worker : worker'[v].pc \notin PagePcs
        /\ recovery' \in Recovery /\ ~recovery'.probing
        /\ recovery'.capacityBlocked = rec.capacityBlocked
        /\ recovery'.creditReserved = rec.creditReserved
        /\ recovery'.currentPath = rec.currentPath
        /\ Grows(rec, recovery')
    BY <1>1, EndProbeFacts
  <1>3. /\ pass.active /\ pass \in Pass /\ recovery \in Recovery
        /\ recovery.capacityBlocked => queuedBytes > 0
    BY <1>1, ProbeFacts
  <1>4. /\ pass' \in Pass /\ pass'.active /\ pass'.historical = pass.historical
        /\ pass'.epoch = pass.epoch /\ pass'.files = pass.files
        /\ pass'.file = Null /\ pass'.cursor = Null
        /\ pass'.currentDone = pass.currentDone /\ pass'.later = pass.later
    BY <1>3 DEF clearFile, Pass
  <1>5. ProbeMoves(w)
    BY <1>1, <1>2, <1>3, <1>4 DEF ProbeMoves, ProbePcs
  <1>6. ProbePlaced(w)'
    <2>1. /\ pass.files # Null => pass.files \subseteq 1 .. current
          /\ pass.epoch <= service.epoch
          /\ \A r \in pass.later : wait[r] # Null
      BY <1>3 DEF DispatchInv, PassInv
    <2> QED BY <1>2, <1>4, <2>1 DEF ProbePlaced, ProbePcs, PagePcs
  <1>7. Grows(recovery, recovery')
    BY <1>2, <1>3, GrowsTrans
  <1>8. ASSUME NEW r \in Receipt, row[r] = "pending", Alone(r),
               Excused(FileOf[r]) \/ ToCome(FileOf[r]) \/ InFile(r)
        PROVE  Found(r)'
    <2>1. Excused(FileOf[r]) => Excused(FileOf[r])'
      BY <1>3, <1>4, <1>7, ExcusedKept, TypeFacts DEF DispatchInv
    <2>2. ToCome(FileOf[r]) => ToCome(FileOf[r])'
      BY <1>4, ToComeKept
    <2> QED BY <1>8, <2>1, <2>2 DEF Found
  <1> QED BY <1>5, <1>6, <1>8, ProbeStep

(* A file that is put aside, or that has to wait.                            *)
LEMMA SkipFileStep ==
    ASSUME DispatchInv, NEW w \in Worker, skipFile(w)
    PROVE  DispatchInv'
  <1>1. /\ worker[w].pc = "read" /\ worker[w].pc \in ProbePcs
        /\ EndProbe(w, recovery)
        /\ UNCHANGED <<rows, hook, current, queue, service, lifecycle>>
    BY DEF skipFile, ProbePcs
  <1>2. /\ recovery \in Recovery /\ Grows(recovery, recovery)
        /\ recovery.capacityBlocked => queuedBytes > 0
        /\ recovery.creditReserved => pass.active
        /\ queued \in [Receipt -> Entry]
    BY <1>1, ProbeFacts, GrowsSame
  <1>3. CASE pass.file \in service.excluded /\ pass' = clearFile
    <2>1. ASSUME NEW r \in Receipt, InFile(r) PROVE Found(r)'
      <3> PICK g \in Files : g = FileOf[r]
        BY TypeFacts DEF DispatchInv
      <3>1. g \in service'.excluded
        BY <1>1, <1>3, <2>1 DEF InFile
      <3>2. Excused(g)'
        BY <3>1 DEF Excused
      <3> QED BY <3>2 DEF Found
    <2>2. UNCHANGED <<row, wait, lease, hook, current, events, queuedBytes, service,
                      lifecycle, queued>>
      BY <1>1 DEF rows, queue
    <2> QED BY <1>1, <1>2, <1>3, <2>1, <2>2, ClearFileStep
  <1>4. CASE UNCHANGED pass
    BY <1>1, <1>2, <1>4, EndProbeStep
  <1> QED BY <1>3, <1>4 DEF skipFile

(* A file that cannot be read: a deadline stands for it.                     *)
LEMMA ReadFailsStep ==
    ASSUME DispatchInv, NEW w \in Worker, readFails(w)
    PROVE  DispatchInv'
  <1> DEFINE rec == deferDiscovery(recovery, pass.file, ErrorDelay)
  <1>1. /\ worker[w].pc \in {"read", "examine"} /\ worker[w].pc \in ProbePcs
        /\ EndProbe(w, rec) /\ pass' = clearFile
        /\ UNCHANGED <<rows, hook, current, queue, service, lifecycle>>
    BY DEF readFails, ProbePcs
  <1>2. /\ recovery \in Recovery /\ queued \in [Receipt -> Entry]
        /\ pass.file \in Files
    <2>1. pass.active /\ pass \in Pass /\ pass.file # Null
      BY <1>1, ProbeFacts DEF DispatchInv, PassInv
    <2> QED BY <1>1, <2>1, ProbeFacts DEF Pass
  <1>3. /\ rec \in Recovery /\ Grows(recovery, rec)
        /\ rec.currentPath = recovery.currentPath
        /\ rec.capacityBlocked = recovery.capacityBlocked
        /\ rec.deadline[classOf(pass.file)] # Null
    BY <1>2, DeferFacts, DispatchAssumption DEF SameCredit
  <1> HIDE DEF rec
  <1>4. recovery'.deadline = rec.deadline
    BY <1>1, <1>3, EndProbeFacts
  <1>5. ASSUME NEW r \in Receipt, InFile(r) PROVE Found(r)'
    <2> PICK g \in Files : g = FileOf[r]
      BY TypeFacts DEF DispatchInv
    <2>1. recovery'.deadline[classOf(g)] # Null
      BY <1>3, <1>4, <1>5 DEF InFile
    <2>2. Excused(g)'
      BY <1>1, <2>1, DeadlineExcuses
    <2> QED BY <2>2 DEF Found
  <1>6. UNCHANGED <<row, wait, lease, hook, current, events, queuedBytes, service,
                    lifecycle, queued>>
    BY <1>1 DEF rows, queue
  <1> QED BY <1>1, <1>2, <1>3, <1>5, <1>6, ClearFileStep

(* A cursor that is just made starts before every receipt of its file.       *)
LEMMA NewCursorFacts ==
    ASSUME DispatchInv
    PROVE  /\ NewCursor \in Cursor
           /\ ~NewCursor.retry /\ NewCursor.after = 0 /\ NewCursor.seen = {}
           /\ \A r \in Receipt : FileOf[r] = pass.file /\ row[r] = "pending" =>
                 0 < r /\ r <= NewCursor.ceiling
  <1> DEFINE S == {0} \cup {r \in Receipt : FileOf[r] = pass.file
                                            /\ hook[r] # "absent"}
  <1>1. S \subseteq Nat /\ S # {}
    <2>1. 0 \in S
      OBVIOUS
    <2>2. \A x \in S : x \in Nat
      BY DispatchAssumption
    <2> HIDE DEF S
    <2> QED BY <2>1, <2>2
  <1>2. IsFiniteSet(S)
    <2>1. IsFiniteSet({r \in Receipt : FileOf[r] = pass.file /\ hook[r] # "absent"})
      BY DispatchAssumption, FS_Subset
    <2>2. IsFiniteSet({0})
      BY FS_Singleton
    <2> QED BY <2>1, <2>2, FS_Union
  <1>3. ASSUME NEW r \in Receipt, FileOf[r] = pass.file, row[r] = "pending"
        PROVE  r \in S /\ 0 < r
    BY <1>3, DispatchAssumption DEF DispatchInv, RowInv
  <1> HIDE DEF S
  <1>4. Max(S) \in S /\ \A r \in S : r <= Max(S)
    BY <1>1, <1>2, MaxFacts
  <1>5. NewCursor = [ceiling |-> Max(S), retry |-> FALSE, after |-> 0, seen |-> {}]
    BY DEF NewCursor, S
  <1> PICK top \in Nat : top = Max(S)
    BY <1>1, <1>4
  <1> QED BY <1>3, <1>4, <1>5 DEF Cursor

(* A page is read: what is ahead of the cursor is on it, or behind its last  *)
(* row if it is full.                                                        *)
LEMMA ReadPageStep ==
    ASSUME DispatchInv, NEW w \in Worker, readPage(w)
    PROVE  DispatchInv'
  <1> PICK cursor : cursor = IF pass.cursor = Null THEN NewCursor ELSE pass.cursor
    OBVIOUS
  <1> DEFINE entry(r) == [leased |-> r \in pass.leased, left |-> lease[r]]
  <1>1. /\ worker[w].pc = "read" /\ worker[w].pc \in ProbePcs
        /\ pass' = [pass EXCEPT !.cursor = cursor]
        /\ UNCHANGED <<rows, hook, current, queue, service, recovery, lifecycle>>
    BY DEF readPage, ProbePcs
  <1>2. PICK page \in SUBSET Listed(cursor) :
           /\ IsPage(page, Listed(cursor))
           /\ worker' = [worker EXCEPT ![w].pc = "examine",
                            ![w].page = [r \in page |-> entry(r)],
                            ![w].full = (Cardinality(page) = PageLimit)]
    BY DEF readPage
  <1>3. /\ pass.active /\ pass \in Pass /\ pass.file # Null
        /\ recovery \in Recovery /\ queued \in [Receipt -> Entry]
        /\ worker \in [Worker -> Slot]
        /\ \A v \in Worker \ {w} : worker[v].pc \notin ProbePcs
    BY <1>1, ProbeFacts DEF DispatchInv, PassInv
  <1>4. /\ cursor \in Cursor
        /\ pass.cursor = Null => cursor = NewCursor
        /\ pass.cursor # Null => cursor = pass.cursor
    BY <1>3, NewCursorFacts DEF Pass
  <1>5. /\ pass' \in Pass /\ pass'.active /\ pass'.historical = pass.historical
        /\ pass'.epoch = pass.epoch /\ pass'.files = pass.files
        /\ pass'.file = pass.file /\ pass'.cursor = cursor
        /\ pass'.currentDone = pass.currentDone /\ pass'.later = pass.later
    BY <1>1, <1>3, <1>4 DEF Pass
  <1>6. \A r \in page : r \in Receipt /\ FileOf[r] = pass.file /\ row[r] = "pending"
    BY DEF Listed
  <1> DEFINE pg == [r \in page |-> entry(r)]
             fl == (Cardinality(page) = PageLimit)
             new == [worker[w] EXCEPT !.pc = "examine", !.page = pg, !.full = fl]
  <1>7. pg \in Page /\ DOMAIN pg = page
    <2>1. \A r \in Receipt : lease[r] \in Nat
      BY DEF DispatchInv, Types
    <2>2. \A r \in page : entry(r) \in [leased : BOOLEAN, left : Nat]
      BY <1>6, <2>1
    <2> HIDE DEF entry
    <2>3. pg \in [page -> [leased : BOOLEAN, left : Nat]]
      BY <2>2
    <2>4. page \in SUBSET Receipt
      BY <1>6
    <2> QED BY <2>3, <2>4 DEF Page
  <1> HIDE DEF pg
  <1>8. worker' = [worker EXCEPT ![w] = new]
    BY <1>2 DEF pg
  <1>9. fl \in BOOLEAN /\ (fl <=> Cardinality(page) = PageLimit)
    OBVIOUS
  <1> HIDE DEF fl
  <1>10. new \in Slot /\ new.pc = "examine" /\ new.page = pg /\ new.full = fl
    BY <1>3, <1>7, <1>9, PcFacts DEF Slot
  <1> HIDE DEF new
  <1>11. /\ worker' \in [Worker -> Slot]
         /\ worker'[w].pc = "examine" /\ worker'[w].pc \in ProbePcs
         /\ DOMAIN worker'[w].page = page /\ worker'[w].full = fl
         /\ \A v \in Worker \ {w} : worker'[v] = worker[v] /\ worker'[v].pc \notin PagePcs
    BY <1>3, <1>7, <1>8, <1>10 DEF ProbePcs, PagePcs
  <1>12. ProbeMoves(w)
    BY <1>1, <1>3, <1>5, <1>11, ProbeFacts DEF ProbeMoves, rows, queue
  <1>13. ProbePlaced(w)'
    <2>1. /\ pass.file <= current
          /\ pass.files # Null => pass.files \subseteq 1 .. current
          /\ pass.epoch <= service.epoch
          /\ \A r \in pass.later : wait[r] # Null
      BY <1>3 DEF DispatchInv, PassInv
    <2> QED BY <1>1, <1>3, <1>4, <1>5, <1>6, <1>11, <2>1 DEF ProbePlaced, rows
  <1>14. ASSUME NEW r \in Receipt, row[r] = "pending", Alone(r),
                Excused(FileOf[r]) \/ ToCome(FileOf[r]) \/ InFile(r)
         PROVE  Found(r)'
    <2>1. Excused(FileOf[r]) => Excused(FileOf[r])'
      BY <1>1, <1>3, <1>5 DEF Excused, Wake, classOf
    <2>2. ToCome(FileOf[r]) => ToCome(FileOf[r])'
      BY <1>1, <1>5, ToComeKept
    <2>3. ASSUME InFile(r) PROVE InFile(r)'
      <3>1. FileOf[r] = pass.file
        BY <2>3 DEF InFile
      <3>2. IF wait[r] = Null
            THEN ~cursor.retry /\ cursor.after < r /\ r <= cursor.ceiling
            ELSE r \in pass.later \/ r \notin cursor.seen
        <4>1. CASE pass.cursor = Null
          BY <1>4, <1>14, <3>1, <4>1, NewCursorFacts
        <4>2. CASE pass.cursor # Null
          BY <1>4, <2>3, <4>2 DEF InFile, AtCursor
        <4> QED BY <4>1, <4>2
      <3>3. AtCursor(r)'
        <4>1. CASE wait[r] = Null
          <5>1. r \in Listed(cursor)
            BY <1>14, <3>1, <3>2, <4>1 DEF Listed
          <5>2. r \in page \/ (fl /\ \A s \in page : s < r)
            BY <1>2, <1>9, <5>1 DEF IsPage
          <5>3. \A v \in Worker : worker'[v].pc \in PagePcs =>
                   \/ r \in DOMAIN worker'[v].page
                   \/ worker'[v].full /\ \A s \in DOMAIN worker'[v].page : s < r
            BY <1>11, <5>2
          <5> QED BY <1>1, <1>5, <3>2, <4>1, <5>3 DEF AtCursor, rows
        <4>2. CASE wait[r] # Null /\ r \in pass.later
          BY <1>1, <1>5, <4>2 DEF AtCursor, rows
        <4>3. CASE wait[r] # Null /\ r \notin pass.later
          <5>1. cursor.retry => r \in Listed(cursor)
            BY <1>14, <3>1, <3>2, <4>3 DEF Listed
          <5>2. cursor.retry => r \in page \/ fl
            BY <1>2, <1>9, <5>1 DEF IsPage
          <5>3. cursor.retry => \A v \in Worker : worker'[v].pc \in PagePcs =>
                   r \in DOMAIN worker'[v].page \/ worker'[v].full
            BY <1>11, <5>2
          <5> QED BY <1>1, <1>5, <3>2, <4>3, <5>3 DEF AtCursor, rows
        <4> QED BY <4>1, <4>2, <4>3
      <3> QED BY <1>4, <1>5, <3>1, <3>3 DEF InFile
    <2> QED BY <1>14, <2>1, <2>2, <2>3 DEF Found
  <1> QED BY <1>12, <1>13, <1>14, ProbeStep

(* A page less what was examined is a page.                                  *)
LEMMA RestrictPage ==
    ASSUME NEW page \in Page, NEW S \in SUBSET DOMAIN page
    PROVE  Restrict(page, S) \in Page /\ DOMAIN Restrict(page, S) = S
  <1>1. PICK D \in SUBSET Receipt : page \in [D -> [leased : BOOLEAN, left : Nat]]
    BY DEF Page
  <1>2. Restrict(page, S) = [x \in S |-> page[x]]
    BY DEF Restrict
  <1>3. S \in SUBSET Receipt /\ \A x \in S : page[x] \in [leased : BOOLEAN, left : Nat]
    BY <1>1
  <1>4. [x \in S |-> page[x]] \in [S -> [leased : BOOLEAN, left : Nat]]
    BY <1>3
  <1> QED BY <1>2, <1>3, <1>4 DEF Page

(* The cursor passes a receipt.                                              *)
LEMMA AdvancedFacts ==
    ASSUME pass \in Pass, pass.cursor \in Cursor, NEW r \in Receipt
    PROVE  /\ advanced(r) \in Pass
           /\ advanced(r).active /\ advanced(r).historical = pass.historical
           /\ advanced(r).epoch = pass.epoch /\ advanced(r).files = pass.files
           /\ advanced(r).file = pass.file /\ advanced(r).later = pass.later
           /\ advanced(r).currentDone = pass.currentDone
           /\ advanced(r).cursor \in Cursor
           /\ advanced(r).cursor.retry = pass.cursor.retry
           /\ advanced(r).cursor.ceiling = pass.cursor.ceiling
           /\ advanced(r).cursor.after =
                 IF pass.cursor.retry THEN pass.cursor.after ELSE r
           /\ advanced(r).cursor.seen \subseteq pass.cursor.seen \cup {r}
  <1> DEFINE after == IF pass.cursor.retry THEN pass.cursor.after ELSE r
             seen == IF pass.cursor.retry THEN pass.cursor.seen \cup {r}
                     ELSE pass.cursor.seen
             cursor == [pass.cursor EXCEPT !.after = after, !.seen = seen]
  <1>1. after \in Nat /\ seen \in SUBSET Receipt /\ seen \subseteq pass.cursor.seen \cup {r}
    BY DispatchAssumption DEF Cursor
  <1>2. advanced(r) = [pass EXCEPT !.cursor = cursor]
    <2>1. advanced(r) = [pass EXCEPT !.cursor.after = after, !.cursor.seen = seen]
      BY DEF advanced
    <2> HIDE DEF after, seen
    <2> QED BY <2>1 DEF Pass
  <1> HIDE DEF after, seen
  <1>3. /\ cursor \in Cursor /\ cursor.after = after /\ cursor.seen = seen
        /\ cursor.retry = pass.cursor.retry /\ cursor.ceiling = pass.cursor.ceiling
    BY <1>1 DEF Cursor
  <1> HIDE DEF cursor
  <1>4. /\ advanced(r) \in Pass
        /\ advanced(r).active /\ advanced(r).historical = pass.historical
        /\ advanced(r).epoch = pass.epoch /\ advanced(r).files = pass.files
        /\ advanced(r).file = pass.file /\ advanced(r).later = pass.later
        /\ advanced(r).currentDone = pass.currentDone
        /\ advanced(r).cursor = cursor
    BY <1>2, <1>3 DEF Pass
  <1> QED BY <1>1, <1>3, <1>4 DEF after

(* An entry is passed: it is queued and to be looked at again, or leased and *)
(* looked for once the lease may have ended.                                 *)
LEMMA PassEntryStep ==
    ASSUME DispatchInv, NEW w \in Worker, worker[w].pc = "examine",
           NEW r \in DOMAIN worker[w].page,
           \A s \in DOMAIN worker[w].page : r <= s,
           pass' = advanced(r),
           worker' = [worker EXCEPT ![w].page =
                         Restrict(worker[w].page, DOMAIN worker[w].page \ {r})],
           \/ /\ InQueueMap(r) /\ queued' = [queued EXCEPT ![r].revisit = TRUE]
              /\ UNCHANGED recovery
           \/ /\ \E delay \in Nat : recovery' = deferDiscovery(recovery, pass.file, delay)
              /\ UNCHANGED queued,
           UNCHANGED <<rows, hook, current, events, queuedBytes, service, lifecycle>>
    PROVE  DispatchInv'
  <1>1. worker[w].pc \in ProbePcs /\ worker[w].pc \in PagePcs /\ worker[w].pc # "probe"
    BY DEF ProbePcs, PagePcs
  <1>2. /\ pass.active /\ pass \in Pass /\ pass.file # Null /\ pass.cursor \in Cursor
        /\ pass.file \in Files
        /\ recovery \in Recovery /\ queued \in [Receipt -> Entry]
        /\ recovery.probing
        /\ worker \in [Worker -> Slot] /\ worker[w].page \in Page
        /\ \A v \in Worker \ {w} : worker[v].pc \notin ProbePcs
        /\ \A s \in DOMAIN worker[w].page : FileOf[s] = pass.file /\ row[s] # "none"
    <2>1. /\ pass.active /\ pass \in Pass /\ pass.file # Null /\ pass.cursor \in Cursor
          /\ \A s \in DOMAIN worker[w].page : FileOf[s] = pass.file /\ row[s] # "none"
      BY <1>1, ProbeFacts DEF DispatchInv, PassInv, RowInv
    <2>2. worker \in [Worker -> Slot] /\ worker[w].page \in Page
      BY <1>1, ProbeFacts DEF Slot
    <2> QED BY <1>1, <2>1, <2>2, ProbeFacts DEF Pass
  <1>3. r \in Receipt /\ DOMAIN worker[w].page \subseteq Receipt
    BY <1>2 DEF Page
  <1> PICK page \in Page : /\ page = Restrict(worker[w].page, DOMAIN worker[w].page \ {r})
                           /\ DOMAIN page = DOMAIN worker[w].page \ {r}
    BY <1>2, RestrictPage
  <1>4. /\ worker' \in [Worker -> Slot]
        /\ worker'[w].pc = "examine" /\ worker'[w].full = worker[w].full
        /\ DOMAIN worker'[w].page = DOMAIN worker[w].page \ {r}
        /\ \A v \in Worker \ {w} : worker'[v] = worker[v] /\ worker'[v].pc \notin PagePcs
    <2> DEFINE new == [worker[w] EXCEPT !.page = page]
    <2>1. /\ new \in Slot /\ new.pc = "examine" /\ new.full = worker[w].full
          /\ new.page = page
      BY <1>2 DEF Slot
    <2>2. worker' = [worker EXCEPT ![w] = new]
      OBVIOUS
    <2> HIDE DEF new
    <2> QED BY <1>2, <2>1, <2>2 DEF PagePcs, ProbePcs
  <1>5. /\ pass' \in Pass /\ pass'.active /\ pass'.historical = pass.historical
        /\ pass'.epoch = pass.epoch /\ pass'.files = pass.files
        /\ pass'.file = pass.file /\ pass'.later = pass.later
        /\ pass'.currentDone = pass.currentDone /\ pass'.cursor \in Cursor
        /\ pass'.cursor.retry = pass.cursor.retry
        /\ pass'.cursor.ceiling = pass.cursor.ceiling
        /\ pass'.cursor.after = IF pass.cursor.retry THEN pass.cursor.after ELSE r
        /\ pass'.cursor.seen \subseteq pass.cursor.seen \cup {r}
    BY <1>2, <1>3, AdvancedFacts
  <1>6. /\ queued' \in [Receipt -> Entry]
        /\ \A s \in Receipt : /\ queued'[s].epoch = queued[s].epoch
                              /\ queued'[s].state = queued[s].state
                              /\ queued'[s].complete = queued[s].complete
                              /\ queued[s].revisit => queued'[s].revisit
        /\ (InQueueMap(r) /\ queued'[r].revisit) \/ queued' = queued
    <2>1. CASE queued' = queued
      BY <1>2, <2>1
    <2>2. CASE InQueueMap(r) /\ queued' = [queued EXCEPT ![r].revisit = TRUE]
      <3> DEFINE e == [queued[r] EXCEPT !.revisit = TRUE]
      <3>1. queued' = [queued EXCEPT ![r] = e]
        BY <2>2
      <3>2. /\ e \in Entry /\ e.epoch = queued[r].epoch /\ e.state = queued[r].state
            /\ e.revisit /\ e.complete = queued[r].complete
        BY <1>2, <1>3 DEF Entry
      <3> HIDE DEF e
      <3> QED BY <1>2, <1>3, <2>2, <3>1, <3>2
    <2> QED BY <2>1, <2>2
  <1>7. /\ recovery' \in Recovery /\ Grows(recovery, recovery')
        /\ SameCredit(recovery, recovery')
        /\ recovery'.currentPath = recovery.currentPath
        /\ (InQueueMap(r) /\ queued'[r].revisit)
           \/ recovery'.deadline[classOf(pass.file)] # Null
    <2>1. CASE recovery' = recovery /\ InQueueMap(r)
               /\ queued' = [queued EXCEPT ![r].revisit = TRUE]
      <3>1. queued'[r].revisit
        BY <1>2, <1>3, <2>1 DEF Entry
      <3> QED BY <1>2, <2>1, <3>1, GrowsSame DEF SameCredit
    <2>2. CASE \E delay \in Nat : recovery' = deferDiscovery(recovery, pass.file, delay)
      BY <1>2, <2>2, DeferFacts
    <2> QED BY <2>1, <2>2
  <1>8. ProbeMoves(w)
    <2>1. worker'[w].pc \in ProbePcs
      BY <1>4 DEF ProbePcs
    <2> QED BY <1>1, <1>2, <1>4, <1>5, <1>6, <1>7, <2>1, ProbeFacts
          DEF ProbeMoves, rows, SameCredit
  <1>9. ProbePlaced(w)'
    <2>1. /\ pass.file <= current
          /\ pass.files # Null => pass.files \subseteq 1 .. current
          /\ pass.epoch <= service.epoch
          /\ \A s \in pass.later : wait[s] # Null
      BY <1>2 DEF DispatchInv, PassInv
    <2> QED BY <1>2, <1>4, <1>5, <2>1 DEF ProbePlaced, rows
  <1>10. ASSUME NEW s \in Receipt, row[s] = "pending", Alone(s),
                Excused(FileOf[s]) \/ ToCome(FileOf[s]) \/ InFile(s)
         PROVE  Found(s)'
    <2>1. Excused(FileOf[s]) => Excused(FileOf[s])'
      BY <1>2, <1>5, <1>7, ExcusedKept, TypeFacts DEF DispatchInv
    <2>2. ToCome(FileOf[s]) => ToCome(FileOf[s])'
      BY <1>5, ToComeKept
    <2>3. ASSUME InFile(s), s = r PROVE Found(s)'
      <3>1. CASE InQueueMap(r) /\ queued'[r].revisit
        <4>1. QueueLeads(s)'
          BY <1>8, <2>3, <3>1, ProbeMovesHold DEF QueueLeads
        <4> QED BY <4>1 DEF Found
      <3>2. CASE recovery'.deadline[classOf(pass.file)] # Null
        <4> PICK g \in Files : g = FileOf[s]
          BY TypeFacts DEF DispatchInv
        <4>1. g = pass.file
          BY <2>3 DEF InFile
        <4>2. Excused(g)'
          BY <3>2, <4>1, DeadlineExcuses
        <4> QED BY <4>2 DEF Found
      <3> QED BY <1>7, <3>1, <3>2
    <2>4. ASSUME InFile(s), s # r PROVE InFile(s)'
      <3>1. AtCursor(s) /\ FileOf[s] = pass.file
        BY <1>1, <2>4 DEF InFile
      <3>2. AtCursor(s)'
        <4>1. CASE wait[s] = Null
          <5>1. /\ ~pass.cursor.retry /\ pass.cursor.after < s /\ s <= pass.cursor.ceiling
                /\ \/ s \in DOMAIN worker[w].page
                   \/ worker[w].full /\ \A x \in DOMAIN worker[w].page : x < s
            BY <1>1, <3>1, <4>1 DEF AtCursor
          <5>2. r < s
            <6>1. r <= s
              BY <5>1, <1>3, DispatchAssumption
            <6> QED BY <1>3, <2>4, <6>1, DispatchAssumption
          <5>3. \A v \in Worker : worker'[v].pc \in PagePcs =>
                   \/ s \in DOMAIN worker'[v].page
                   \/ worker'[v].full /\ \A x \in DOMAIN worker'[v].page : x < s
            BY <1>4, <2>4, <5>1
          <5> QED BY <1>5, <4>1, <5>1, <5>2, <5>3 DEF AtCursor, rows
        <4>2. CASE wait[s] # Null
          <5>1. \/ s \in pass.later
                \/ /\ s \notin pass.cursor.seen
                   /\ pass.cursor.retry => s \in DOMAIN worker[w].page \/ worker[w].full
            BY <1>1, <3>1, <4>2 DEF AtCursor
          <5>2. \/ s \in pass'.later
                \/ /\ s \notin pass'.cursor.seen
                   /\ pass'.cursor.retry => \A v \in Worker : worker'[v].pc \in PagePcs =>
                         s \in DOMAIN worker'[v].page \/ worker'[v].full
            BY <1>4, <1>5, <2>4, <5>1
          <5> QED BY <4>2, <5>2 DEF AtCursor, rows
        <4> QED BY <4>1, <4>2
      <3> QED BY <1>5, <3>1, <3>2 DEF InFile
    <2>5. Alone(s)
      BY <1>10
    <2> QED BY <1>10, <2>1, <2>2, <2>3, <2>4 DEF Found
  <1> QED BY <1>8, <1>9, <1>10, ProbeStep

(* An entry that is neither queued nor leased is a candidate; the page stays *)
(* until it is admitted.                                                     *)
LEMMA CandidateStep ==
    ASSUME DispatchInv, NEW w \in Worker, worker[w].pc = "examine",
           NEW r \in DOMAIN worker[w].page,
           \A s \in DOMAIN worker[w].page : r <= s,
           worker' = [worker EXCEPT ![w].receipt = r, ![w].pc = "admit"],
           UNCHANGED <<rows, hook, current, queue, service, recovery, pass, lifecycle>>
    PROVE  DispatchInv'
  <1>1. worker[w].pc \in ProbePcs /\ worker[w].pc \in PagePcs /\ worker[w].pc # "probe"
    BY DEF ProbePcs, PagePcs
  <1>2. /\ worker \in [Worker -> Slot] /\ worker[w].page \in Page
        /\ \A v \in Worker \ {w} : worker[v].pc \notin ProbePcs
    BY <1>1, ProbeFacts DEF Slot
  <1>3. r \in Receipt
    BY <1>2 DEF Page
  <1>4. /\ worker' \in [Worker -> Slot]
        /\ worker'[w].pc = "admit" /\ worker'[w].receipt = r
        /\ worker'[w].full = worker[w].full /\ worker'[w].page = worker[w].page
        /\ \A v \in Worker \ {w} : worker'[v] = worker[v]
    <2> DEFINE new == [worker[w] EXCEPT !.receipt = r, !.pc = "admit"]
    <2>1. /\ new \in Slot /\ new.pc = "admit" /\ new.receipt = r
          /\ new.full = worker[w].full /\ new.page = worker[w].page
      BY <1>2, <1>3, PcFacts DEF Slot
    <2>2. worker' = [worker EXCEPT ![w] = new]
      OBVIOUS
    <2> HIDE DEF new
    <2> QED BY <1>2, <2>1, <2>2
  <1>5. ProbeMoves(w)
    BY <1>1, <1>2, <1>4, ProbeFacts DEF ProbeMoves, rows, queue, ProbePcs
  <1>6. ProbePlaced(w)'
    BY <1>1, <1>3, <1>4, PlacedBefore DEF ProbePlaced, rows
  <1>7. ASSUME NEW s \in Receipt,
               Excused(FileOf[s]) \/ ToCome(FileOf[s]) \/ InFile(s)
        PROVE  Found(s)'
    <2>1. Excused(FileOf[s]) => Excused(FileOf[s])'
      BY DEF Excused, Wake, classOf
    <2>2. ToCome(FileOf[s]) => ToCome(FileOf[s])'
      BY DEF ToCome
    <2>3. InFile(s) => InFile(s)'
      <3>1. PagesKept
        BY <1>1, <1>4 DEF PagesKept
      <3> QED BY <3>1, InFileKept DEF InFile, rows
    <2> QED BY <1>7, <2>1, <2>2, <2>3 DEF Found
  <1> QED BY <1>5, <1>6, <1>7, ProbeStep

(* One entry of the page.                                                    *)
LEMMA ExamineStep ==
    ASSUME DispatchInv, NEW w \in Worker, examine(w)
    PROVE  DispatchInv'
  <1> DEFINE page == worker[w].page
             next(rest) == worker' = [worker EXCEPT ![w].page = Restrict(page, rest)]
  <1>1. /\ worker[w].pc = "examine" /\ worker[w].pc \in ProbePcs
        /\ UNCHANGED <<rows, hook, current, events, queuedBytes, service, lifecycle>>
    BY DEF examine, ProbePcs
  <1>2. PICK r \in DOMAIN page :
          /\ \A s \in DOMAIN page : r <= s
          /\ \/ /\ InQueueMap(r)
                /\ queued' = [queued EXCEPT ![r].revisit = TRUE]
                /\ pass' = advanced(r)
                /\ next(DOMAIN page \ {r})
                /\ UNCHANGED recovery
             \/ /\ ~InQueueMap(r) /\ page[r].leased
                /\ recovery' = deferDiscovery(recovery, pass.file, page[r].left)
                /\ pass' = advanced(r)
                /\ next(DOMAIN page \ {r})
                /\ UNCHANGED queued
             \/ /\ ~InQueueMap(r) /\ ~page[r].leased
                /\ worker' = [worker EXCEPT ![w].receipt = r, ![w].pc = "admit"]
                /\ UNCHANGED <<pass, recovery, queued>>
    BY DEF examine
  <1>3. page[r].left \in Nat
    <2>1. page \in Page
      BY <1>1, ProbeFacts DEF Slot
    <2>2. PICK D \in SUBSET Receipt : page \in [D -> [leased : BOOLEAN, left : Nat]]
      BY <2>1 DEF Page
    <2> HIDE DEF page
    <2> QED BY <2>2
  <1>4. CASE worker' = [worker EXCEPT ![w].receipt = r, ![w].pc = "admit"]
             /\ UNCHANGED <<pass, recovery, queued>>
    BY <1>1, <1>2, <1>4, CandidateStep DEF queue
  <1>5. CASE /\ pass' = advanced(r) /\ next(DOMAIN page \ {r})
             /\ \/ /\ InQueueMap(r) /\ queued' = [queued EXCEPT ![r].revisit = TRUE]
                   /\ UNCHANGED recovery
                \/ /\ \E delay \in Nat :
                         recovery' = deferDiscovery(recovery, pass.file, delay)
                   /\ UNCHANGED queued
    BY <1>1, <1>2, <1>5, PassEntryStep
  <1> QED BY <1>2, <1>3, <1>4, <1>5

(* The page is examined: on to the next, to the retry range, or to the       *)
(* earliest of the receipts that are to be tried later.                      *)
LEMMA EndPageStep ==
    ASSUME DispatchInv, NEW w \in Worker, NEW fails \in BOOLEAN, endPage(w, fails)
    PROVE  DispatchInv'
  <1>1. /\ worker[w].pc = "examine" /\ worker[w].pc \in ProbePcs
        /\ worker[w].pc \in PagePcs /\ worker[w].pc # "probe"
        /\ DOMAIN worker[w].page = {}
        /\ UNCHANGED <<row, wait, lease, hook, current, events, queuedBytes, service,
                       lifecycle>>
    BY DEF endPage, ProbePcs, PagePcs, rows
  <1>2. /\ pass.active /\ pass \in Pass /\ pass.cursor \in Cursor
        /\ pass.file # Null /\ pass.file \in Files
        /\ recovery \in Recovery /\ queued \in [Receipt -> Entry]
        /\ recovery.capacityBlocked => queuedBytes > 0
        /\ recovery.creditReserved => pass.active
        /\ Grows(recovery, recovery)
    <2>1. pass.active /\ pass \in Pass /\ pass.cursor \in Cursor /\ pass.file # Null
      BY <1>1, ProbeFacts DEF DispatchInv, PassInv
    <2> QED BY <1>1, <2>1, ProbeFacts, GrowsSame DEF Pass
  <1>3. CASE worker[w].full /\ EndProbe(w, recovery) /\ UNCHANGED <<pass, queued>>
    BY <1>1, <1>2, <1>3, EndProbeStep DEF rows, queue
  <1>4. CASE /\ ~worker[w].full /\ ~pass.cursor.retry
             /\ pass' = [pass EXCEPT !.cursor.retry = TRUE]
             /\ EndProbe(w, recovery) /\ UNCHANGED queued
    <2> DEFINE cursor == [pass.cursor EXCEPT !.retry = TRUE]
    <2>1. /\ cursor \in Cursor /\ cursor.retry /\ cursor.seen = pass.cursor.seen
      BY <1>2 DEF Cursor
    <2>2. pass' = [pass EXCEPT !.cursor = cursor]
      BY <1>4
    <2> HIDE DEF cursor
    <2>3. /\ pass' \in Pass /\ pass'.active /\ pass'.historical = pass.historical
          /\ pass'.epoch = pass.epoch /\ pass'.files = pass.files
          /\ pass'.file = pass.file /\ pass'.cursor = cursor
          /\ pass'.currentDone = pass.currentDone /\ pass'.later = pass.later
      BY <1>2, <2>1, <2>2 DEF Pass
    <2>4. /\ worker' \in [Worker -> Slot]
          /\ worker'[w].pc = "idle"
          /\ \A v \in Worker \ {w} :
                worker'[v] = worker[v] /\ worker[v].pc \notin ProbePcs
          /\ \A v \in Worker : worker'[v].pc \notin PagePcs
          /\ recovery' \in Recovery /\ ~recovery'.probing
          /\ recovery'.capacityBlocked = recovery.capacityBlocked
          /\ recovery'.creditReserved = recovery.creditReserved
          /\ recovery'.currentPath = recovery.currentPath
          /\ Grows(recovery, recovery')
      BY <1>1, <1>2, <1>4, EndProbeFacts
    <2>5. ProbeMoves(w)
      BY <1>1, <1>2, <1>4, <2>3, <2>4 DEF ProbeMoves, ProbePcs
    <2>6. ProbePlaced(w)'
      <3>1. /\ pass.file <= current
            /\ pass.files # Null => pass.files \subseteq 1 .. current
            /\ pass.epoch <= service.epoch
            /\ \A s \in pass.later : wait[s] # Null
        BY <1>2 DEF DispatchInv, PassInv
      <3> QED BY <1>1, <1>2, <2>3, <2>4, <3>1 DEF ProbePlaced, ProbePcs, PagePcs
    <2>7. ASSUME NEW s \in Receipt,
                 Excused(FileOf[s]) \/ ToCome(FileOf[s]) \/ InFile(s)
          PROVE  Found(s)'
      <3>1. Excused(FileOf[s]) => Excused(FileOf[s])'
        BY <1>1, <1>2, <2>3, <2>4, ExcusedKept, TypeFacts DEF DispatchInv
      <3>2. ToCome(FileOf[s]) => ToCome(FileOf[s])'
        BY <1>1, <2>3, ToComeKept
      <3>3. ASSUME InFile(s) PROVE InFile(s)'
        <4>1. AtCursor(s) /\ FileOf[s] = pass.file
          BY <1>1, <3>3 DEF InFile
        <4>2. wait[s] # Null /\ (s \in pass.later \/ s \notin pass.cursor.seen)
          BY <1>1, <1>4, <4>1 DEF AtCursor
        <4>3. AtCursor(s)'
          BY <1>1, <2>1, <2>3, <2>4, <4>2 DEF AtCursor
        <4> QED BY <2>1, <2>3, <4>1, <4>3 DEF InFile
      <3> QED BY <2>7, <3>1, <3>2, <3>3 DEF Found
    <2> QED BY <2>5, <2>6, <2>7, ProbeStep
  <1>5. CASE /\ ~worker[w].full /\ pass.cursor.retry /\ pass' = clearFile
    <2>1. PICK rec \in Recovery :
             /\ Grows(recovery, rec) /\ SameCredit(recovery, rec)
             /\ rec.currentPath = recovery.currentPath
             /\ \/ Future = {} /\ EndProbe(w, rec) /\ UNCHANGED queued
                \/ \E x \in Future :
                     IF InQueueMap(x)
                     THEN /\ queued' = [queued EXCEPT ![x].revisit = TRUE]
                          /\ EndProbe(w, rec)
                     ELSE /\ EndProbe(w, deferDiscovery(rec, pass.file, wait[x]))
                          /\ UNCHANGED queued
      <3> DEFINE rec == IF fails /\ pass.file # current
                        THEN deferDiscovery(recovery, pass.file, ErrorDelay)
                        ELSE recovery
      <3>1. /\ rec \in Recovery /\ Grows(recovery, rec) /\ SameCredit(recovery, rec)
            /\ rec.currentPath = recovery.currentPath
        BY <1>2, DeferFacts, DispatchAssumption DEF SameCredit
      <3>2. \/ Future = {} /\ EndProbe(w, rec) /\ UNCHANGED queued
            \/ \E x \in Future :
                 IF InQueueMap(x)
                 THEN /\ queued' = [queued EXCEPT ![x].revisit = TRUE]
                      /\ EndProbe(w, rec)
                 ELSE /\ EndProbe(w, deferDiscovery(rec, pass.file, wait[x]))
                      /\ UNCHANGED queued
        BY <1>5 DEF endPage
      <3> HIDE DEF rec
      <3> QED BY <3>1, <3>2
    <2>2. \A r \in Receipt : row[r] = "pending" /\ InFile(r) =>
             r \in Future /\ wait[r] # Null /\ FileOf[r] = pass.file
      <3> SUFFICES ASSUME NEW r \in Receipt, row[r] = "pending", InFile(r)
                   PROVE  r \in Future /\ wait[r] # Null /\ FileOf[r] = pass.file
        OBVIOUS
      <3>1. AtCursor(r) /\ FileOf[r] = pass.file
        BY <1>1 DEF InFile
      <3>2. wait[r] # Null /\ r \in pass.later
        BY <1>1, <1>5, <3>1 DEF AtCursor
      <3> QED BY <3>1, <3>2 DEF Future
    <2>3. CASE Future = {} /\ EndProbe(w, rec) /\ UNCHANGED queued
      <3>1. \A r \in Receipt : ~(row[r] = "pending" /\ InFile(r))
        BY <2>2, <2>3
      <3> QED BY <1>1, <1>2, <1>5, <2>1, <2>3, <3>1, ClearFileStep DEF SameCredit
    <2>4. ASSUME NEW x \in Future, InQueueMap(x), EndProbe(w, rec),
                 queued' = [queued EXCEPT ![x].revisit = TRUE]
          PROVE  DispatchInv'
      <3> DEFINE e == [queued[x] EXCEPT !.revisit = TRUE]
      <3>1. x \in Receipt /\ wait[x] # Null /\ FileOf[x] = pass.file
        BY DEF Future
      <3>2. queued' = [queued EXCEPT ![x] = e]
        BY <2>4
      <3>3. /\ e \in Entry /\ e.epoch = queued[x].epoch /\ e.state = queued[x].state
            /\ e.revisit /\ e.complete = queued[x].complete
        BY <1>2, <3>1 DEF Entry
      <3> HIDE DEF e
      <3>4. /\ queued' \in [Receipt -> Entry] /\ queued'[x].revisit
            /\ queued'[x].state = queued[x].state
            /\ \A s \in Receipt : /\ queued'[s].epoch = queued[s].epoch
                                  /\ queued'[s].state = queued[s].state
                                  /\ queued'[s].complete = queued[s].complete
                                  /\ queued[s].revisit => queued'[s].revisit
        BY <1>2, <3>1, <3>2, <3>3
      <3>5. ASSUME NEW r \in Receipt, row[r] = "pending", Alone(r), InFile(r)
            PROVE  Found(r)'
        <4>1. x = r
          BY <2>2, <3>1, <3>5 DEF Alone
        <4>2. QueueLeads(r)'
          BY <2>4, <3>4, <4>1 DEF QueueLeads, InQueueMap
        <4> QED BY <4>2 DEF Found
      <3> QED BY <1>1, <1>2, <1>5, <2>1, <2>4, <3>4, <3>5, ClearFileStep DEF SameCredit
    <2>5. ASSUME NEW x \in Future, UNCHANGED queued,
                 EndProbe(w, deferDiscovery(rec, pass.file, wait[x]))
          PROVE  DispatchInv'
      <3>1. x \in Receipt /\ wait[x] # Null /\ FileOf[x] = pass.file
        BY DEF Future
      <3>2. wait[x] \in Nat
        BY <3>1 DEF DispatchInv, Types, Time
      <3> PICK new : new = deferDiscovery(rec, pass.file, wait[x])
        OBVIOUS
      <3>3. /\ new \in Recovery /\ Grows(rec, new) /\ SameCredit(rec, new)
            /\ new.currentPath = rec.currentPath
            /\ new.deadline[classOf(pass.file)] # Null
        BY <1>2, <3>2, DeferFacts
      <3>4. Grows(recovery, new)
        BY <1>2, <2>1, <3>3, GrowsTrans
      <3>5. recovery'.deadline = new.deadline
        BY <1>1, <2>5, <3>3, EndProbeFacts
      <3>6. ASSUME NEW r \in Receipt, InFile(r)
            PROVE  Found(r)'
        <4> PICK g \in Files : g = FileOf[r]
          BY TypeFacts DEF DispatchInv
        <4>1. recovery'.deadline[classOf(g)] # Null
          BY <3>3, <3>5, <3>6 DEF InFile
        <4>2. Excused(g)'
          BY <1>1, <4>1, DeadlineExcuses
        <4> QED BY <4>2 DEF Found
      <3> QED BY <1>1, <1>2, <1>5, <2>1, <2>5, <3>3, <3>4, <3>6, ClearFileStep
            DEF SameCredit
    <2> QED BY <2>1, <2>3, <2>4, <2>5
  <1> QED BY <1>3, <1>4, <1>5 DEF endPage

(* The candidate becomes the work of the worker that found it.               *)
LEMMA AdmittedStep ==
    ASSUME DispatchInv, NEW w \in Worker, worker[w].pc = "admit",
           NEW r, r = worker[w].receipt, ~refused(r), queuedBytes + 1 <= ByteLimit,
           queued' = [queued EXCEPT ![r] = queuedReplay(pass.epoch)],
           queuedBytes' = queuedBytes + 1,
           pass' = advanced(r),
           recovery' = [recovery EXCEPT !.creditReserved = FALSE, !.probing = FALSE],
           worker' = [worker EXCEPT ![w] = [IdleWorker EXCEPT
                         !.pc = "work", !.receipt = r, !.epoch = pass.epoch,
                         !.owned = TRUE]],
           UNCHANGED <<rows, hook, current, events, service, lifecycle>>
    PROVE  DispatchInv'
  <1>1. worker[w].pc \in ProbePcs /\ worker[w].pc \in PagePcs /\ worker[w].pc # "probe"
    BY DEF ProbePcs, PagePcs
  <1>2. /\ pass.active /\ pass \in Pass /\ pass.file # Null /\ pass.cursor \in Cursor
        /\ pass.epoch \in Nat
        /\ recovery \in Recovery /\ queued \in [Receipt -> Entry]
        /\ worker \in [Worker -> Slot]
        /\ recovery.capacityBlocked => queuedBytes > 0
        /\ \A v \in Worker \ {w} : worker[v].pc \notin ProbePcs
    BY <1>1, ProbeFacts, TypeFacts DEF DispatchInv, PassInv
  <1>3. /\ r \in Receipt /\ r \in DOMAIN worker[w].page
        /\ \A s \in DOMAIN worker[w].page : r <= s
        /\ \A s \in DOMAIN worker[w].page : FileOf[s] = pass.file
        /\ DOMAIN worker[w].page \subseteq Receipt
    <2>1. worker[w].page \in Page
      BY <1>2 DEF Slot
    <2> QED BY <1>1, <2>1 DEF DispatchInv, Receipts, PassInv, Page
  <1>4. ~InQueueMap(r) /\ FileOf[r] \notin service.excluded
    BY DEF refused
  <1>5. /\ queued' \in [Receipt -> Entry]
        /\ queued'[r].state = "queued" /\ queued'[r].epoch = pass.epoch
        /\ ~queued'[r].complete /\ ~queued'[r].revisit
        /\ \A s \in Receipt \ {r} : queued'[s] = queued[s]
    <2> DEFINE e == queuedReplay(pass.epoch)
    <2>1. e \in Entry /\ e.state = "queued" /\ e.epoch = pass.epoch
          /\ ~e.complete /\ ~e.revisit
      BY <1>2 DEF queuedReplay, NotQueued, Entry
    <2> HIDE DEF e
    <2>2. queued' = [queued EXCEPT ![r] = e]
      BY DEF e
    <2> QED BY <1>2, <1>3, <2>1, <2>2
  <1>6. /\ worker' \in [Worker -> Slot]
        /\ worker'[w].pc = "work" /\ worker'[w].receipt = r
        /\ worker'[w].epoch = pass.epoch /\ ~worker'[w].completed
        /\ \A v \in Worker \ {w} : worker'[v] = worker[v]
    <2> DEFINE new == [IdleWorker EXCEPT !.pc = "work", !.receipt = r,
                                         !.epoch = pass.epoch, !.owned = TRUE]
    <2>1. new \in Slot
      BY <1>2, <1>3, PcFacts, IdleFacts DEF Slot
    <2>2. new.pc = "work" /\ new.receipt = r /\ new.epoch = pass.epoch /\ ~new.completed
      BY DEF IdleWorker
    <2> HIDE DEF new
    <2>3. worker' = [worker EXCEPT ![w] = new]
      BY DEF new
    <2> QED BY <1>2, <2>1, <2>2, <2>3
  <1>7. /\ pass' \in Pass /\ pass'.active /\ pass'.historical = pass.historical
        /\ pass'.epoch = pass.epoch /\ pass'.files = pass.files
        /\ pass'.file = pass.file /\ pass'.later = pass.later
        /\ pass'.currentDone = pass.currentDone /\ pass'.cursor \in Cursor
        /\ pass'.cursor.retry = pass.cursor.retry
        /\ pass'.cursor.ceiling = pass.cursor.ceiling
        /\ pass'.cursor.after = IF pass.cursor.retry THEN pass.cursor.after ELSE r
        /\ pass'.cursor.seen \subseteq pass.cursor.seen \cup {r}
    BY <1>2, <1>3, AdvancedFacts
  <1>8. /\ recovery' \in Recovery /\ ~recovery'.probing /\ ~recovery'.creditReserved
        /\ recovery'.capacityBlocked = recovery.capacityBlocked
        /\ recovery'.dirty = recovery.dirty /\ recovery'.fresh = recovery.fresh
        /\ recovery'.clockFresh = recovery.clockFresh
        /\ recovery'.deadline = recovery.deadline
        /\ recovery'.currentPath = recovery.currentPath
    BY <1>2 DEF Recovery
  <1>9. /\ \A s \in Receipt : InQueueMap(s)' = (InQueueMap(s) \/ s = r)
        /\ \A v \in Worker \ {w}, s \in Receipt : Holds(v, s)' = Holds(v, s)
        /\ \A s \in Receipt : Holds(w, s)' = (s = r)
        /\ \A s \in Receipt : ~Holds(w, s)
        /\ \A v \in Worker : ~Holds(v, r)
        /\ \A i \in 1 .. Len(events) : events[i].receipt # r
        /\ InQueueMap(r)' /\ Holds(w, r)'
        /\ \A v \in Worker : Holds(v, r)' => v = w
    <2>1. \A s \in Receipt : InQueueMap(s)' = (InQueueMap(s) \/ s = r)
      BY <1>5 DEF InQueueMap
    <2>2. \A v \in Worker : ~Holds(v, r)
      BY <1>3, <1>4 DEF DispatchInv, QueueInv, HeldInMap
    <2>3. \A i \in 1 .. Len(events) : events[i].receipt # r
      BY <1>4 DEF DispatchInv, QueueInv, EventsInMap
    <2>4. \A v \in Worker \ {w}, s \in Receipt : Holds(v, s)' = Holds(v, s)
      BY <1>6 DEF Holds
    <2>5. \A s \in Receipt : Holds(w, s)' = (s = r) /\ ~Holds(w, s)
      BY <1>1, <1>6 DEF Holds, ProbePcs
    <2>6. InQueueMap(r)' /\ Holds(w, r)' /\ \A v \in Worker : Holds(v, r)' => v = w
      BY <1>3, <2>1, <2>2, <2>4, <2>5
    <2> QED BY <2>1, <2>2, <2>3, <2>4, <2>5, <2>6
  <1>10. queuedBytes' = Cardinality({s \in Receipt : InQueueMap(s)'})
    <2>1. InQueueMap(r)' /\ \A s \in Receipt \ {r} : InQueueMap(s)' = InQueueMap(s)
      BY <1>3, <1>5 DEF InQueueMap
    <2>2. r \in Receipt
      BY <1>3
    <2> QED BY <1>4, <2>1, <2>2, MapGrows DEF DispatchInv, QueueInv, BytesCounted
  <1>11. queuedBytes' \in 0 .. ByteLimit /\ queuedBytes' > 0
    BY DispatchAssumption DEF DispatchInv, Types
  <1>12. Types'
    BY <1>5, <1>6, <1>7, <1>8, <1>11 DEF DispatchInv, Types, rows
  <1>13. Receipts'
    BY <1>3, <1>6 DEF DispatchInv, Receipts
  <1>14. QueueInv'
    <2>1. EventsInMap'
      <3>1. \A i \in 1 .. Len(events) :
               /\ queued'[events[i].receipt].state # "free"
               /\ events[i].epoch = queued'[events[i].receipt].epoch
        BY <1>5, <1>9, EventFacts DEF InQueueMap
      <3> QED BY <3>1 DEF EventsInMap, InQueueMap
    <2>2. EventsDistinct'
      BY DEF DispatchInv, QueueInv, EventsDistinct
    <2>3. HeldInMap'
      <3>1. ASSUME NEW v \in Worker, NEW s \in Receipt, Holds(v, s)'
            PROVE  /\ InQueueMap(s)'
                   /\ worker'[v].epoch = queued'[s].epoch
                   /\ \A u \in Worker : Holds(u, s)' => u = v
                   /\ \A i \in 1 .. Len(events') : events'[i].receipt # s
        <4>1. CASE s = r
          <5>1. v = w
            BY <1>9, <3>1, <4>1
          <5> QED BY <1>5, <1>6, <1>9, <4>1, <5>1
        <4>2. CASE s # r
          <5>1. v # w /\ Holds(v, s)
            BY <1>9, <3>1, <4>2
          <5>2. /\ InQueueMap(s) /\ worker[v].epoch = queued[s].epoch
                /\ \A u \in Worker : Holds(u, s) => u = v
                /\ \A i \in 1 .. Len(events) : events[i].receipt # s
            BY <5>1 DEF DispatchInv, QueueInv, HeldInMap
          <5>3. queued'[s] = queued[s] /\ worker'[v] = worker[v] /\ InQueueMap(s)'
            BY <1>5, <1>6, <1>9, <4>2, <5>1, <5>2
          <5>4. \A u \in Worker : Holds(u, s)' => u = v
            BY <1>9, <4>2, <5>2
          <5> QED BY <5>2, <5>3, <5>4
        <4> QED BY <4>1, <4>2
      <3> QED BY <3>1 DEF HeldInMap
    <2>4. MapHeld'
      <3>1. ASSUME NEW s \in Receipt, InQueueMap(s)'
            PROVE  \/ \E i \in 1 .. Len(events') : events'[i].receipt = s
                   \/ \E v \in Worker : Holds(v, s)'
        <4>1. CASE s = r
          BY <1>9, <4>1
        <4>2. CASE s # r
          <5>1. \/ \E i \in 1 .. Len(events) : events[i].receipt = s
                \/ \E v \in Worker : Holds(v, s)
            BY <1>9, <3>1, <4>2 DEF DispatchInv, QueueInv, MapHeld
          <5> QED BY <1>9, <5>1
        <4> QED BY <4>1, <4>2
      <3> QED BY <3>1 DEF MapHeld
    <2>5. BytesCounted'
      BY <1>10 DEF BytesCounted
    <2> QED BY <2>1, <2>2, <2>3, <2>4, <2>5 DEF QueueInv
  <1>15. \A v \in Worker : worker'[v].pc \notin ProbePcs /\ worker'[v].pc \notin PagePcs
            /\ worker'[v].pc \notin {"read", "examine", "admit"}
    BY <1>2, <1>6 DEF ProbePcs, PagePcs
  <1>16. CreditInv'
    BY <1>8, <1>11, <1>15 DEF CreditInv
  <1>17. PassInv'
    <2>1. /\ pass.file <= current
          /\ pass.files # Null => pass.files \subseteq 1 .. current
          /\ pass.epoch <= service.epoch
          /\ \A s \in pass.later : wait[s] # Null
      BY <1>2 DEF DispatchInv, PassInv
    <2> QED BY <1>2, <1>7, <1>15, <2>1 DEF PassInv, rows
  <1>18. RowInv'
    <2>1. row[r] # "none"
      BY <1>1, <1>3 DEF DispatchInv, RowInv
    <2>2. ASSUME NEW s \in Receipt
          PROVE  /\ InQueueMap(s)' => row'[s] # "none"
                 /\ InQueueMap(s)' /\ queued'[s].complete => row'[s] = "complete"
      BY <1>5, <1>9, <2>1 DEF DispatchInv, RowInv, rows
    <2>3. \A v \in Worker : worker'[v].pc \in WorkPcs /\ worker'[v].completed =>
             row'[worker'[v].receipt] = "complete"
      BY <1>6 DEF DispatchInv, RowInv, rows
    <2> QED BY <1>8, <1>15, <2>2, <2>3 DEF DispatchInv, RowInv, rows
  <1>19. FoundInv'
    <2> SUFFICES ASSUME NEW s \in Receipt, row'[s] = "pending", Alone(s)'
                 PROVE  Found(s)'
      BY DEF FoundInv
    <2>1. CASE s = r
      <3>1. QueueLeads(s)'
        BY <1>6, <1>9, <2>1 DEF QueueLeads
      <3> QED BY <3>1 DEF Found
    <2>2. CASE s # r
      <3>1. Found(s)
        BY DEF DispatchInv, FoundInv, Alone, rows
      <3>2. QueueLeads(s) => QueueLeads(s)'
        BY <1>5, <1>6, <1>9, <2>2 DEF QueueLeads
      <3>3. Excused(FileOf[s]) => Excused(FileOf[s])'
        BY <1>2, <1>7, <1>8 DEF Excused, Wake, classOf
      <3>4. ToCome(FileOf[s]) => ToCome(FileOf[s])'
        BY <1>7, ToComeKept
      <3>5. ASSUME InFile(s) PROVE InFile(s)'
        <4>1. AtCursor(s) /\ FileOf[s] = pass.file
          BY <1>1, <3>5 DEF InFile
        <4>2. AtCursor(s)'
          <5>1. CASE wait[s] = Null
            <6>1. /\ ~pass.cursor.retry /\ s <= pass.cursor.ceiling
                  /\ \/ s \in DOMAIN worker[w].page
                     \/ worker[w].full /\ \A x \in DOMAIN worker[w].page : x < s
              BY <1>1, <4>1, <5>1 DEF AtCursor
            <6>2. r <= s /\ r \in Nat /\ s \in Nat
              BY <1>3, <6>1, DispatchAssumption
            <6>3. r < s
              BY <2>2, <6>2
            <6> QED BY <1>7, <1>15, <5>1, <6>1, <6>3 DEF AtCursor, rows
          <5>2. CASE wait[s] # Null
            <6>1. s \in pass.later \/ s \notin pass.cursor.seen
              BY <4>1, <5>2 DEF AtCursor
            <6> QED BY <1>7, <1>15, <2>2, <5>2, <6>1 DEF AtCursor, rows
          <5> QED BY <5>1, <5>2
        <4> QED BY <1>7, <4>1, <4>2 DEF InFile
      <3>6. hook[s] = "committed" /\ ~InQueueMap(s) =>
               hook'[s] = "committed" /\ ~InQueueMap(s)'
        BY <1>9, <2>2
      <3> QED BY <3>1, <3>2, <3>3, <3>4, <3>5, <3>6 DEF Found
    <2> QED BY <2>1, <2>2
  <1> QED BY <1>12, <1>13, <1>14, <1>16, <1>17, <1>18, <1>19 DEF DispatchInv

(* The candidate is refused, and read again by the next probe; or there is   *)
(* no credit for it; or it is work.                                          *)
LEMMA AdmitRecoveredStep ==
    ASSUME DispatchInv, NEW w \in Worker, admitRecovered(w)
    PROVE  DispatchInv'
  <1> PICK r : r = worker[w].receipt
    OBVIOUS
  <1>1. /\ worker[w].pc = "admit" /\ worker[w].pc \in ProbePcs
        /\ UNCHANGED <<rows, hook, current, events, service, lifecycle>>
    BY DEF admitRecovered, ProbePcs
  <1>2. /\ recovery \in Recovery /\ Grows(recovery, recovery) /\ pass.active
        /\ recovery.capacityBlocked => queuedBytes > 0
    BY <1>1, ProbeFacts, GrowsSame
  <1>3. CASE EndProbe(w, recovery) /\ UNCHANGED <<queued, queuedBytes, pass>>
    BY <1>1, <1>2, <1>3, EndProbeStep DEF queue
  <1> DEFINE rec == [recovery EXCEPT !.capacityBlocked = TRUE, !.creditReserved = TRUE]
  <1>4. CASE /\ queuedBytes + 1 > ByteLimit /\ EndProbe(w, rec)
             /\ UNCHANGED <<queued, queuedBytes, pass>>
    <2>1. queuedBytes > 0
      BY <1>4, DispatchAssumption DEF DispatchInv, Types
    <2>2. /\ rec \in Recovery /\ rec.currentPath = recovery.currentPath
          /\ rec.clockFresh = recovery.clockFresh
          /\ rec.dirty = recovery.dirty /\ rec.fresh = recovery.fresh
          /\ rec.deadline = recovery.deadline
      BY <1>2 DEF Recovery
    <2> HIDE DEF rec
    <2>3. Grows(recovery, rec)
      BY <1>2, <2>2, GrowsSame
    <2> QED BY <1>1, <1>2, <1>4, <2>1, <2>2, <2>3, EndProbeStep DEF queue
  <1>5. CASE /\ ~refused(r)
             /\ queuedBytes + 1 <= ByteLimit
             /\ queued' = [queued EXCEPT ![r] = queuedReplay(pass.epoch)]
             /\ queuedBytes' = queuedBytes + 1
             /\ pass' = advanced(r)
             /\ recovery' = [recovery EXCEPT !.creditReserved = FALSE,
                                             !.probing = FALSE]
             /\ worker' = [worker EXCEPT ![w] = [IdleWorker EXCEPT
                             !.pc = "work", !.receipt = r, !.epoch = pass.epoch,
                             !.owned = TRUE]]
    BY <1>1, <1>5, AdmittedStep
  <1> QED BY <1>3, <1>4, <1>5 DEF admitRecovered

-----------------------------------------------------------------------------
(* The invariant as a whole.                                                 *)

(* Lifecycle operations come one after the other: a new file is to follow    *)
(* only while there is one.                                                  *)
LEMMA LifecycleKept ==
    ASSUME Types, LifecycleInv, [Next]_vars
    PROVE  LifecycleInv'
  <1>0. service \in Service /\ current \in Nat
    BY TypeFacts
  <1>1. ASSUME UNCHANGED <<current, lifecycle>>, service'.transition = service.transition
        PROVE  LifecycleInv'
    BY <1>1 DEF LifecycleInv
  <1>2. ASSUME UNCHANGED <<current, service, lifecycle>> PROVE LifecycleInv'
    BY <1>2 DEF LifecycleInv
  <1>3. CASE \E r \in Receipt : HookNext(r)
    BY <1>2, <1>3 DEF HookNext, AppendReceipt, CommitHot, submit
  <1>4. CASE \E w \in Worker : TakeWork(w)
    BY <1>2, <1>4 DEF TakeWork, takeProbe, takeEvent
  <1>5. CASE \E w \in Worker : WorkerStep(w) \/ WorkerFails(w)
    <2> PICK w \in Worker : WorkerStep(w) \/ WorkerFails(w)
      BY <1>5
    <2>1. UNCHANGED <<current, service, lifecycle>>
      <3>1. CASE beginPass(w) \/ selectFile(w) \/ skipFile(w) \/ readPage(w)
                 \/ examine(w) \/ admitRecovered(w) \/ endPage(w, FALSE)
        BY <3>1 DEF beginPass, selectFile, skipFile, readPage, examine,
                    admitRecovered, endPage
      <3>2. CASE prepareDelayed(w) \/ claim(w) \/ processDone(w) \/ processSkips(w)
                 \/ finishJob(w, FALSE) \/ markUnsettled(w) \/ finishDispatch(w)
        BY <3>2 DEF prepareDelayed, claim, processDone, processSkips, finishJob,
                    markUnsettled, finishDispatch
      <3>3. CASE WorkerFails(w)
        BY <3>3 DEF WorkerFails, traversalFails, readFails, endPage, prepareFails,
                    processFails, finishJob
      <3> QED BY <3>1, <3>2, <3>3 DEF WorkerStep
    <2> QED BY <1>2, <2>1
  <1>6. CASE LifecycleStep
    BY <1>0, <1>2, <1>6 DEF LifecycleStep, drain, publish, changeStorage,
          endRecoveryTransition, configure, LifecycleInv, Service
  <1>7. CASE start \/ recoveryTick \/ Tick
    BY <1>2, <1>7 DEF start, recoveryTick, Tick
  <1>8. CASE pause
    BY <1>0, <1>8 DEF pause, LifecycleInv, Service
  <1>9. CASE beginRecoveryTransition
    BY <1>9 DEF beginRecoveryTransition, LifecycleInv
  <1>10. CASE \E paths \in SUBSET (1 .. current - 1) : cancelFiles(paths)
    BY <1>0, <1>1, <1>10 DEF cancelFiles, Service
  <1>11. CASE \E recent \in SUBSET Receipt : ClockBack(recent)
    BY <1>2, <1>11 DEF ClockBack
  <1>12. CASE Restart
    BY <1>12 DEF Restart, LifecycleInv, EmptyService
  <1>13. CASE UNCHANGED vars
    BY <1>2, <1>13 DEF vars
  <1> QED BY <1>3, <1>4, <1>5, <1>6, <1>7, <1>8, <1>9, <1>10, <1>11, <1>12, <1>13
          DEF Next, Disturbance

(* The daemon starts with nothing to find.                                   *)
LEMMA DispatchInit == Init => DispatchInv /\ LifecycleInv
  <1> SUFFICES ASSUME Init PROVE DispatchInv /\ LifecycleInv
    OBVIOUS
  <1> USE DEF Init
  <1>1. 1 \in Files /\ 0 \in Nat /\ current = 1 /\ ByteLimit \in Nat
    BY DispatchAssumption DEF Files
  <1>2. recovery \in Recovery /\ ~recovery.capacityBlocked /\ ~recovery.creditReserved
        /\ ~recovery.probing /\ recovery.currentPath = 1
    BY <1>1 DEF EmptyRecovery, Recovery, Time
  <1>3. service \in Service /\ ~service.transition
    BY DEF EmptyService, Service
  <1>4. /\ \A w \in Worker : worker[w] = IdleWorker
        /\ worker \in [Worker -> Slot]
        /\ \A r \in Receipt : queued[r] = NotQueued
        /\ queued \in [Receipt -> Entry]
    BY IdleFacts
  <1>5. /\ \A w \in Worker : worker[w].pc = "idle"
        /\ \A r \in Receipt : ~InQueueMap(r)
    BY <1>4, IdleFacts DEF InQueueMap
  <1>6. Types
    BY <1>1, <1>2, <1>3, <1>4 DEF Types, Time
  <1>7. Receipts
    BY <1>5 DEF Receipts, WorkPcs
  <1>8. QueueInv
    <2>1. {r \in Receipt : InQueueMap(r)} = {}
      BY <1>5
    <2>2. BytesCounted
      BY <2>1, FS_EmptySet DEF BytesCounted
    <2>3. \A w \in Worker, r \in Receipt : ~Holds(w, r)
      BY <1>5 DEF Holds
    <2>4. EventsInMap /\ EventsDistinct /\ HeldInMap /\ MapHeld
      BY <1>5, <2>3 DEF EventsInMap, EventsDistinct, HeldInMap, MapHeld
    <2> QED BY <2>2, <2>4 DEF QueueInv
  <1>9. CreditInv
    BY <1>2, <1>5 DEF CreditInv, ProbePcs
  <1>10. PassInv
    BY <1>5 DEF PassInv, NoPass, ProbePcs, PagePcs
  <1>11. RowInv
    BY <1>1, <1>2, <1>5 DEF RowInv, WorkPcs, PagePcs
  <1>12. FoundInv
    BY DEF FoundInv
  <1>13. LifecycleInv
    BY <1>3 DEF LifecycleInv
  <1> QED BY <1>6, <1>7, <1>8, <1>9, <1>10, <1>11, <1>12, <1>13 DEF DispatchInv

(* Every step keeps the invariant.                                           *)
LEMMA DispatchNext ==
    ASSUME DispatchInv, LifecycleInv, [Next]_vars
    PROVE  DispatchInv'
  <1>1. CASE \E r \in Receipt : HookNext(r)
    BY <1>1, AppendReceiptStep, CommitHotStep, SubmitStep DEF HookNext
  <1>2. CASE \E w \in Worker : TakeWork(w)
    BY <1>2, TakeProbeStep, TakeEventStep DEF TakeWork
  <1>3. CASE \E w \in Worker : WorkerStep(w)
    <2> PICK w \in Worker : WorkerStep(w)
      BY <1>3
    <2>1. CASE beginPass(w) \/ selectFile(w) \/ skipFile(w) \/ readPage(w)
               \/ examine(w) \/ admitRecovered(w) \/ endPage(w, FALSE)
      BY <2>1, BeginPassStep, SelectFileStep, SkipFileStep, ReadPageStep, ExamineStep,
         AdmitRecoveredStep, EndPageStep
    <2>2. CASE prepareDelayed(w) \/ claim(w) \/ processDone(w) \/ processSkips(w)
               \/ finishJob(w, FALSE) \/ markUnsettled(w) \/ finishDispatch(w)
      BY <2>2, PrepareDelayedStep, ClaimStep, ProcessDoneStep, FinishJobStep,
         MarkUnsettledStep, FinishDispatchStep
    <2> QED BY <2>1, <2>2 DEF WorkerStep
  <1>4. CASE \E w \in Worker : WorkerFails(w)
    BY <1>4, TraversalFailsStep, ReadFailsStep, EndPageStep, PrepareFailsStep,
       ProcessFailsStep, FinishJobStep DEF WorkerFails
  <1>5. CASE LifecycleStep
    BY <1>5, DrainStep, PublishStep, ChangeStorageStep, EndRecoveryTransitionStep,
       ConfigureStep DEF LifecycleStep
  <1>6. CASE start \/ recoveryTick \/ Tick
    BY <1>6, StartStep, RecoveryTickStep, TickStep
  <1>7. CASE Disturbance
    BY <1>7, PauseStep, BeginRecoveryTransitionStep, CancelFilesStep, ClockBackStep,
       RestartStep DEF Disturbance
  <1>8. CASE UNCHANGED vars
    <2> USE <1>8 DEF vars, rows, queue
    <2>1. Types' /\ Receipts' /\ CreditInv' /\ PassInv'
      BY DEF DispatchInv, Types, Receipts, CreditInv, PassInv
    <2>2. QueueInv'
      BY DEF DispatchInv, QueueInv, EventsInMap, EventsDistinct, HeldInMap, MapHeld,
             BytesCounted, Holds, InQueueMap
    <2>3. RowInv'
      BY DEF DispatchInv, RowInv, InQueueMap
    <2>4. FoundInv'
      BY DEF DispatchInv, FoundInv, Alone, Found, QueueLeads, Excused, ToCome, InFile,
             AtCursor, Wake, classOf, Holds, InQueueMap
    <2> QED BY <2>1, <2>2, <2>3, <2>4 DEF DispatchInv
  <1> QED BY <1>1, <1>2, <1>3, <1>4, <1>5, <1>6, <1>7, <1>8 DEF Next

(* Whatever is deferred, recovered, cancelled, paused and restarted, and in  *)
(* whatever order: the map, the channel and the workers have the same        *)
(* receipts, each once, the pass in progress is where its worker is, and     *)
(* every pending receipt is queued, ahead of the pass, or excused from it by *)
(* something that will start another one (replay_scheduler.go,               *)
(* deferred_service.go, recovery.go).                                        *)
THEOREM DispatchInvariance == Spec => [](DispatchInv /\ LifecycleInv)
  <1>1. Init => DispatchInv /\ LifecycleInv
    BY DispatchInit
  <1>2. (DispatchInv /\ LifecycleInv) /\ [Next]_vars => (DispatchInv /\ LifecycleInv)'
    BY DispatchNext, LifecycleKept DEF DispatchInv
  <1> QED BY <1>1, <1>2, PTL DEF Spec

(* What the map has is in the channel or with a worker, once.                *)
LEMMA QueueCounted ==
    ASSUME DispatchInv
    PROVE  QueueExact
  <1> SUFFICES ASSUME NEW r \in Receipt
               PROVE  LET inEvents == {i \in 1 .. Len(events) : events[i].receipt = r}
                          held == {w \in Worker : Holds(w, r)}
                      IN  /\ Cardinality(inEvents) + Cardinality(held) =
                                 IF InQueueMap(r) THEN 1 ELSE 0
                          /\ \A i \in inEvents : events[i].epoch = queued[r].epoch
                          /\ \A w \in held : worker[w].epoch = queued[r].epoch
    BY DEF QueueExact, DispatchInv, QueueInv, BytesCounted
  <1> DEFINE inEvents == {i \in 1 .. Len(events) : events[i].receipt = r}
             held == {w \in Worker : Holds(w, r)}
  <1>1. \A i \in inEvents : InQueueMap(r) /\ events[i].epoch = queued[r].epoch
    BY DEF DispatchInv, QueueInv, EventsInMap
  <1>2. \A w \in held : /\ InQueueMap(r) /\ worker[w].epoch = queued[r].epoch
                        /\ held = {w} /\ inEvents = {}
    BY DEF DispatchInv, QueueInv, HeldInMap
  <1>3. \A i \in inEvents : inEvents = {i} /\ held = {}
    BY <1>2 DEF DispatchInv, QueueInv, EventsDistinct
  <1>4. InQueueMap(r) => inEvents # {} \/ held # {}
    BY DEF DispatchInv, QueueInv, MapHeld
  <1>5. Cardinality({}) = 0 /\ \A x : Cardinality({x}) = 1
    BY FS_EmptySet, FS_Singleton
  <1> HIDE DEF inEvents, held
  <1>6. Cardinality(inEvents) + Cardinality(held) = IF InQueueMap(r) THEN 1 ELSE 0
    <2>1. CASE inEvents # {}
      <3> PICK i \in inEvents : TRUE
        BY <2>1
      <3>1. Cardinality(inEvents) = 1 /\ Cardinality(held) = 0 /\ InQueueMap(r)
        BY <1>1, <1>3, <1>5
      <3> QED BY <3>1
    <2>2. CASE held # {}
      <3> PICK w \in held : TRUE
        BY <2>2
      <3>1. Cardinality(held) = 1 /\ Cardinality(inEvents) = 0 /\ InQueueMap(r)
        BY <1>2, <1>5
      <3> QED BY <3>1
    <2>3. CASE inEvents = {} /\ held = {}
      <3>1. Cardinality(held) = 0 /\ Cardinality(inEvents) = 0 /\ ~InQueueMap(r)
        BY <1>4, <1>5, <2>3
      <3> QED BY <3>1
    <2> QED BY <2>1, <2>2, <2>3
  <1> QED BY <1>1, <1>2, <1>6 DEF inEvents, held

(* What the dispatcher, the workers and the recovery know of each other's    *)
(* work is exact: each receipt is held once, every entry and every credit    *)
(* has somebody who gives it back, and recovery waits for credit only while  *)
(* some is held (deferred_service.go, replay_scheduler.go).                  *)
THEOREM QueueStaysInOrder == Spec => []QueueInOrder
  <1>1. DispatchInv => QueueInOrder
    <2> SUFFICES ASSUME DispatchInv PROVE QueueInOrder
      OBVIOUS
    <2>1. TypeOK
      <3>1. /\ recovery.deadline \in [Class -> Time]
            /\ \A w \in Worker : worker[w].receipt \in Receipt \cup {Null}
        BY TypeFacts DEF DispatchInv, Recovery, Slot
      <3> QED BY <3>1, TypeFacts DEF DispatchInv, Types, TypeOK, Time, Files
    <2>2. QueueExact
      BY QueueCounted
    <2>3. CreditReturns
      BY DEF DispatchInv, CreditInv, CreditReturns, ProbePcs
    <2> QED BY <2>1, <2>2, <2>3 DEF QueueInOrder
  <1> QED BY <1>1, DispatchInvariance, PTL

(* No wakeup is lost: every pending receipt is queued, ahead of the pass, or *)
(* in a file that something leads the next pass to, whatever pauses, clock   *)
(* changes, prunings, errors and restarts come between. A receipt that waits *)
(* for its next attempt is the only one of its file that does: two that wait *)
(* have one deadline (recovery.go: acknowledgePass, deferDiscovery;          *)
(* replay_scheduler.go: finishJob, finishDispatch).                          *)
THEOREM ReceiptsStayLedTo == Spec => []NoReceiptForgotten
  <1>1. DispatchInv => NoReceiptForgotten
    <2> SUFFICES ASSUME DispatchInv, NEW r \in Receipt, row[r] = "pending",
                        \/ wait[r] = Null
                        \/ {s \in Receipt : FileOf[s] = FileOf[r] /\ wait[s] # Null} = {r}
                 PROVE  LedTo(r)
      BY DEF NoReceiptForgotten
    <2>1. Alone(r)
      BY DEF Alone
    <2>2. Found(r)
      BY <2>1 DEF DispatchInv, FoundInv
    <2>3. Excused(FileOf[r]) => Discoverable(FileOf[r])
      BY DEF Excused, Discoverable, Wake
    <2>4. ToCome(FileOf[r]) => PassComesTo(FileOf[r])
      BY DEF ToCome, PassComesTo
    <2>5. InFile(r) => PassComesTo(FileOf[r])
      BY DEF InFile, PassComesTo
    <2> QED BY <2>2, <2>3, <2>4, <2>5 DEF Found, LedTo, QueueLeads, Discoverable
  <1> QED BY <1>1, DispatchInvariance, PTL
=============================================================================
