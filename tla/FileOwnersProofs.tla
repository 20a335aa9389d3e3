-------------------------- MODULE FileOwnersProofs --------------------------
(* The holders of every audit file are counted, and it is opened, closed and *)
(* finalized in order, for every number of files, receipts and workers.      *)
EXTENDS FileOwners, FiniteSetTheorems, TLAPS

----------------------------------------------------------------------------
(* The inductive invariant.                                                  *)

WorkerPcs == {"idle", "next", "probe", "selected", "prepared", "event",
              "eventPrepared", "borrowing", "opening", "borrowed", "reading",
              "working", "jobDone", "closeFile", "idleOwners", "finalize",
              "probeEnd", "jobEnd"}
Path == File \cup {None}
WorkerRecord == [pc : WorkerPcs, path : Path, receipt : Receipt \cup {None},
                 session : Path, job : Path, retain : BOOLEAN, version : Nat]

OwnersType == TypeOK /\ worker \in [Worker -> WorkerRecord]

\* What may hold a reference, and the file it holds.  A session or a job is of
\* one worker, a reference to be dropped is of an agent and comes from a worker.
Kind == {"session", "job", "drop", "snapshot", "new", "old"}
Holding == Kind \X Agent \X Agent
Held(kind, a, b) ==
    IF kind = "session" /\ a = b /\ a \in Worker THEN worker[a].session
    ELSE IF kind = "job" /\ a = b /\ a \in Worker THEN worker[a].job
    ELSE IF kind = "drop" /\ b \in Worker THEN drop[a][b]
    ELSE IF a # Server \/ b # Server THEN None
    ELSE IF kind = "snapshot" THEN snapshot
    ELSE IF kind = "new" /\ server.pc = "borrowed" THEN server.file
    ELSE IF kind = "old" /\ server.pc = "published" THEN server.old
    ELSE None
held == [h \in Holding |-> Held(h[1], h[2], h[3])]
HoldersIn(g, f) == {h \in Holding : g[h] = f}
Count(g, f) == Cardinality(HoldersIn(g, f))

\* The registry counts the holders; nobody holds a file that is not open.
Counted ==
    \A f \in File :
       /\ handles[f] = IF entry[f] \in {"open", "closing"} THEN 1 ELSE 0
       /\ entry[f] = "open" => references[f] = Count(held, f) /\ references[f] > 0
       /\ entry[f] # "open" => Count(held, f) = 0
       /\ entry[f] = "opening" => references[f] = 1

\* A pending entry has one agent that opens it, or one that closes it.
Opening(a) == IF a = Server
              THEN IF server.pc = "opening" THEN server.file ELSE None
              ELSE IF worker[a].pc = "opening" THEN worker[a].path ELSE None
Exclusive ==
    \A a \in Agent :
       /\ Opening(a) # None => entry[Opening(a)] = "opening"
       /\ closing[a] # None => entry[closing[a]] = "closing"
       /\ \A b \in Agent \ {a} : /\ Opening(a) # None => Opening(b) # Opening(a)
                                 /\ closing[a] # None => closing[b] # closing[a]

\* What a worker has at each point.  While it holds a file or is about to, a
\* session on another file means that it works on the current one and no
\* transition has begun; and what it would keep is not the file of its session.
Unplaced == {"idle", "next", "probe"}
Holds == {"borrowed", "reading", "working", "jobDone"}
Careful == Holds \cup {"prepared", "eventPrepared", "borrowing", "opening"}
Searching == Unplaced \cup {"selected", "prepared", "borrowed", "reading", "probeEnd"}
Places(w, v) ==
    /\ v.pc \in Searching => v.receipt = None
    /\ v.pc \notin Unplaced => v.path \in File
    /\ v.path <= catalogCurrent
    /\ v.job = IF v.pc \in Holds THEN v.path ELSE None
    /\ v.pc \in {"probe", "selected", "event"} => \A x \in Worker : drop[w][x] = None
    /\ v.pc \in Careful /\ v.session \notin {None, v.path} =>
          v.path = snapshot /\ ~transition
    /\ v.retain =>
          /\ v.pc \in {"borrowing", "opening", "borrowed"}
          /\ v.session # v.path /\ v.receipt = None
          /\ \/ v.version < cacheVersion
             \/ v.version = cacheVersion /\ ~transition /\ v.path # snapshot
InPlace == \A w \in Worker : Places(w, worker[w])

\* What waits is of a file that the catalog has assigned.
Queues ==
    /\ due \subseteq 1 .. catalogCurrent
    /\ \A r \in events : FileOf[r] <= catalogCurrent

\* The order of a replacement of the snapshot.
Rotation ==
    /\ snapshot <= catalogCurrent /\ catalogCurrent <= snapshot + 1
    /\ server.pc = "begun" => transition /\ server.file = snapshot + 1
    /\ server.pc # "begun" => \A x \in Worker : drop[Server][x] = None
    /\ server.pc \in {"borrowing", "opening", "borrowed"} =>
          /\ server.file = catalogCurrent
          /\ transition \/ server.file = snapshot
    /\ server.pc \in {"begun", "borrowing", "opening", "borrowed", "published"} =>
          server.file \in File
    /\ server.pc = "published" => server.old \in File

OwnersInv == /\ OwnersType /\ Counted /\ Exclusive /\ InPlace /\ Queues
             /\ Rotation /\ FinalizedIsFinished

----------------------------------------------------------------------------
(* Counting.                                                                 *)

\* Files are numbers, and a path is a file or none.
LEMMA NamesFacts == /\ File \subseteq Nat /\ Path \subseteq Nat /\ None \notin File
                    /\ FirstFile \in File /\ MaxFile \in File
                    /\ \A f \in Path : f # None => f \in File
  BY OwnersAssumption DEF File, Path, None

\* There are finitely many places to hold a file.
LEMMA HoldingFinite == IsFiniteSet(Holding)
  <1>1. IsFiniteSet(Agent)
    BY OwnersAssumption, FS_AddElement DEF Agent
  <1>2. IsFiniteSet(Agent \X Agent)
    BY <1>1, FS_Product
  <1>3. IsFiniteSet(Kind)
    <2>1. Kind = ((((({} \cup {"session"}) \cup {"job"}) \cup {"drop"}) \cup {"snapshot"})
                    \cup {"new"}) \cup {"old"}
      BY DEF Kind
    <2> QED BY <2>1, FS_EmptySet, FS_AddElement
  <1> DEFINE pi == [h \in Kind \X (Agent \X Agent) |-> <<h[1], h[2][1], h[2][2]>>]
  <1>4. IsFiniteSet(Kind \X (Agent \X Agent))
    BY <1>2, <1>3, FS_Product
  <1>5. pi \in Bijection(Kind \X (Agent \X Agent), Holding)
    <2>1. pi \in Injection(Kind \X (Agent \X Agent), Holding)
      BY DEF Injection, IsInjective, Holding
    <2>2. ASSUME NEW h \in Holding PROVE \E x \in Kind \X (Agent \X Agent) : pi[x] = h
      <3>1. <<h[1], <<h[2], h[3]>>>> \in Kind \X (Agent \X Agent)
        BY DEF Holding
      <3>2. pi[<<h[1], <<h[2], h[3]>>>>] = h
        BY <3>1 DEF Holding
      <3> QED BY <3>1, <3>2
    <2>3. pi \in Surjection(Kind \X (Agent \X Agent), Holding)
      BY <2>1, <2>2 DEF Surjection, Injection
    <2> QED BY <2>1, <2>3 DEF Bijection
  <1> QED BY <1>4, <1>5, FS_Bijection DEF ExistsBijection

\* The places that hold a file are finitely many, and none of them when the count is zero.
LEMMA CountFacts ==
    ASSUME NEW g, NEW f
    PROVE  /\ IsFiniteSet(HoldersIn(g, f)) /\ Count(g, f) \in Nat
           /\ Count(g, f) = 0 <=> \A h \in Holding : g[h] # f
  <1>1. HoldersIn(g, f) \in SUBSET Holding
    BY DEF HoldersIn
  <1>2. IsFiniteSet(HoldersIn(g, f))
    BY <1>1, HoldingFinite, FS_Subset
  <1> QED BY <1>2, FS_EmptySet, FS_CardinalityType DEF Count, HoldersIn

\* The places change hands: what one held another holds now.
LEMMA CountMoved ==
    ASSUME NEW g, NEW g2, NEW f,
           NEW pi \in [Holding -> Holding], NEW rho \in [Holding -> Holding],
           \A h \in Holding : pi[rho[h]] = h /\ rho[pi[h]] = h /\ g2[h] = g[pi[h]]
    PROVE  Count(g2, f) = Count(g, f)
  <1> DEFINE S == HoldersIn(g2, f)
             T == HoldersIn(g, f)
             mu == [h \in S |-> pi[h]]
  <1>1. mu \in Injection(S, T)
    <2>1. mu \in [S -> T]
      BY DEF HoldersIn
    <2>2. \A h, k \in S : mu[h] = mu[k] => h = k
      <3>1. ASSUME NEW h \in S, NEW k \in S, mu[h] = mu[k] PROVE h = k
        <4>1. h \in Holding /\ k \in Holding /\ pi[h] = pi[k]
          BY <3>1 DEF HoldersIn
        <4>2. rho[pi[h]] = h /\ rho[pi[k]] = k
          BY <4>1
        <4> QED BY <4>1, <4>2
      <3> QED BY <3>1
    <2> HIDE DEF mu, S, T
    <2> QED BY <2>1, <2>2 DEF Injection, IsInjective
  <1>2. ASSUME NEW h \in T PROVE \E k \in S : mu[k] = h
    <2>1. h \in Holding /\ g[h] = f
      BY DEF HoldersIn
    <2>2. rho[h] \in Holding /\ pi[rho[h]] = h /\ g2[rho[h]] = g[pi[rho[h]]]
      BY <2>1
    <2>3. rho[h] \in S
      BY <2>1, <2>2 DEF HoldersIn
    <2> QED BY <2>2, <2>3
  <1>3. mu \in Surjection(S, T)
    BY <1>1, <1>2 DEF Surjection, Injection
  <1>4. ExistsBijection(S, T)
    BY <1>1, <1>3 DEF Bijection, ExistsBijection
  <1>5. IsFiniteSet(S)
    BY CountFacts
  <1> HIDE DEF S, T
  <1>6. Cardinality(T) = Cardinality(S)
    BY <1>4, <1>5, FS_Bijection
  <1> QED BY <1>6 DEF Count, S, T

----------------------------------------------------------------------------
(* What the operations of the registry do to the count.                      *)

HeldSame == \A h \in Holding : held'[h] = held[h]
HeldPut(h, f) == /\ h \in Holding /\ held'[h] = f
                 /\ \A k \in Holding \ {h} : held'[k] = held[k]

\* The entry of `held` at a place is what the state says of that place.
LEMMA HeldAt ==
    \A kind \in Kind, a \in Agent, b \in Agent :
       /\ <<kind, a, b>> \in Holding
       /\ held[<<kind, a, b>>] = Held(kind, a, b)
       /\ held'[<<kind, a, b>>] = Held(kind, a, b)'
  BY DEF held, Holding

\* Who holds a file holds it open.
LEMMA HeldIsOpen ==
    ASSUME OwnersType, Counted, NEW h \in Holding, held[h] \in File
    PROVE  /\ entry[held[h]] = "open" /\ handles[held[h]] = 1
           /\ references[held[h]] \in Nat \ {0}
  <1> DEFINE f == held[h]
  <1>1. Count(held, f) # 0
    BY CountFacts
  <1> HIDE DEF f
  <1>2. f \in File
    BY DEF f
  <1>3. entry[f] = "open" /\ handles[f] = 1 /\ references[f] > 0
    BY <1>1, <1>2 DEF Counted
  <1>4. references[f] \in Nat
    BY <1>2 DEF OwnersType, TypeOK
  <1> QED BY <1>3, <1>4 DEF f

\* One place changes: it takes a file or gives one up.
LEMMA CountedPut ==
    ASSUME NEW h, NEW f, HeldPut(h, f), NEW g
    PROVE  Count(held', g) = Count(held, g) - (IF held[h] = g THEN 1 ELSE 0)
                                            + (IF f = g THEN 1 ELSE 0)
  <1> DEFINE R == HoldersIn(held, g) \ {h}
  <1>1. IsFiniteSet(HoldersIn(held, g)) /\ Count(held, g) \in Nat
    BY CountFacts
  <1>2. /\ IsFiniteSet(R)
        /\ Cardinality(R) = Count(held, g) - (IF held[h] = g THEN 1 ELSE 0)
    <2>1. h \in HoldersIn(held, g) <=> held[h] = g
      BY DEF HoldersIn, HeldPut
    <2>2. /\ IsFiniteSet(R)
          /\ Cardinality(R) = IF h \in HoldersIn(held, g) THEN Count(held, g) - 1
                              ELSE Count(held, g)
      BY <1>1, FS_RemoveElement DEF Count
    <2> HIDE DEF R
    <2> QED BY <1>1, <2>1, <2>2
  <1>3. HoldersIn(held', g) = IF f = g THEN R \cup {h} ELSE R
    BY DEF HoldersIn, HeldPut
  <1>4. h \notin R
    OBVIOUS
  <1> HIDE DEF R
  <1>5. Cardinality(R \cup {h}) = Cardinality(R) + 1
    BY <1>2, <1>4, FS_AddElement
  <1> QED BY <1>1, <1>2, <1>3, <1>5 DEF Count

\* A step that touches neither the registry nor a holder keeps the count.
LEMMA CountedQuiet ==
    ASSUME Counted, HeldSame, UNCHANGED registry
    PROVE  Counted'
  <1>1. \A f : HoldersIn(held', f) = HoldersIn(held, f)
    BY DEF HoldersIn, HeldSame
  <1>2. \A f : Count(held', f) = Count(held, f)
    BY <1>1 DEF Count
  <1> QED BY <1>2 DEF Counted, registry

\* A pending entry has no holder yet (borrow, file_owner.go).
LEMMA CountedBeginOpen ==
    ASSUME OwnersType, Counted, HeldSame, NEW f \in File, beginOpen(f)
    PROVE  Counted'
  <1>1. \A g : HoldersIn(held', g) = HoldersIn(held, g)
    BY DEF HoldersIn, HeldSame
  <1>2. \A g : Count(held', g) = Count(held, g)
    BY <1>1 DEF Count
  <1> QED BY <1>2 DEF Counted, beginOpen, OwnersType, TypeOK

\* The entry of a failed opening goes, and nobody held it.
LEMMA CountedOpenFails ==
    ASSUME OwnersType, Counted, HeldSame, NEW f \in File, entry[f] = "opening", openFails(f)
    PROVE  Counted'
  <1>1. \A g : HoldersIn(held', g) = HoldersIn(held, g)
    BY DEF HoldersIn, HeldSame
  <1>2. \A g : Count(held', g) = Count(held, g)
    BY <1>1 DEF Count
  <1> QED BY <1>2 DEF Counted, openFails, OwnersType, TypeOK

\* The handle of an entry that is closing goes with the entry, and nobody holds it.
LEMMA CountedClose ==
    ASSUME OwnersType, Counted, HeldSame, NEW a \in Agent, closeHandle(a),
           entry[closing[a]] = "closing"
    PROVE  Counted'
  <1>1. \A g : HoldersIn(held', g) = HoldersIn(held, g)
    BY DEF HoldersIn, HeldSame
  <1>2. \A g : Count(held', g) = Count(held, g)
    BY <1>1 DEF Count
  <1>3. closing[a] \in File
    BY NamesFacts DEF OwnersType, TypeOK, closeHandle, Path
  <1> QED BY <1>2, <1>3 DEF Counted, closeHandle, OwnersType, TypeOK

\* A share of an open entry is one reference and one holder more.
LEMMA CountedShare ==
    ASSUME OwnersType, Counted, NEW f \in File, NEW h \in Holding, held[h] = None,
           HeldPut(h, f), share(f)
    PROVE  Counted'
  <1>1. \A g \in File : Count(held', g) = Count(held, g) + (IF f = g THEN 1 ELSE 0)
    BY CountedPut, NamesFacts, CountFacts
  <1> QED BY <1>1, CountFacts DEF Counted, share, OwnersType, TypeOK

\* The opener of a pending entry is its first holder.
LEMMA CountedOpened ==
    ASSUME OwnersType, Counted, NEW f \in File, NEW h \in Holding, held[h] = None,
           HeldPut(h, f), entry[f] = "opening", openSucceeds(f)
    PROVE  Counted'
  <1>1. \A g \in File : Count(held', g) = Count(held, g) + (IF f = g THEN 1 ELSE 0)
    BY CountedPut, NamesFacts, CountFacts
  <1> QED BY <1>1, CountFacts DEF Counted, openSucceeds, OwnersType, TypeOK

\* A release is one reference and one holder fewer; the last one starts the closing.
LEMMA CountedRelease ==
    ASSUME OwnersType, Counted, NEW f \in File, NEW h \in Holding, held[h] = f,
           HeldPut(h, None), NEW a \in Agent, release(a, f)
    PROVE  Counted'
  <1>1. \A g \in File : Count(held', g) = Count(held, g) - (IF f = g THEN 1 ELSE 0)
    BY CountedPut, NamesFacts, CountFacts
  <1>2. entry[f] = "open" /\ references[f] \in Nat \ {0}
    BY HeldIsOpen
  <1>3. references[f] = Count(held, f) /\ handles[f] = 1
    BY <1>2 DEF Counted
  <1>4. /\ references' = [references EXCEPT ![f] = references[f] - 1]
        /\ entry' = [entry EXCEPT ![f] = IF references[f] = 1 THEN "closing" ELSE "open"]
        /\ handles' = handles
    BY <1>2 DEF release
  <1>5. entry \in [File -> {"absent", "opening", "open", "closing"}]
        /\ references \in [File -> Nat]
    BY DEF OwnersType, TypeOK
  <1>6. ASSUME NEW g \in File, g # f PROVE
           entry'[g] = entry[g] /\ references'[g] = references[g] /\ Count(held', g) = Count(held, g)
    BY <1>1, <1>4, <1>5, <1>6, CountFacts
  <1>7. Count(held', f) = references[f] - 1 /\ references'[f] = references[f] - 1
    BY <1>1, <1>3, <1>4, <1>5
  <1> QED BY <1>2, <1>3, <1>4, <1>5, <1>6, <1>7 DEF Counted

\* References that change hands are counted as before.
LEMMA CountedMoved ==
    ASSUME Counted, UNCHANGED registry,
           NEW pi \in [Holding -> Holding], NEW rho \in [Holding -> Holding],
           \A h \in Holding : pi[rho[h]] = h /\ rho[pi[h]] = h /\ held'[h] = held[pi[h]]
    PROVE  Counted'
  <1>1. \A f : Count(held', f) = Count(held, f)
    BY CountMoved
  <1> QED BY <1>1 DEF Counted, registry

----------------------------------------------------------------------------
(* The steps of a worker.                                                    *)

\* What the invariant says of one worker and of the state around it.
LEMMA WorkerFacts ==
    ASSUME OwnersInv, NEW w \in Worker
    PROVE  /\ worker \in [Worker -> WorkerRecord] /\ worker[w] \in WorkerRecord
           /\ Places(w, worker[w])
           /\ w \in Agent /\ w # Server /\ Server \in Agent
           /\ catalogCurrent \in File /\ snapshot \in File /\ transition \in BOOLEAN
           /\ cacheVersion \in Nat
           /\ due \subseteq 1 .. catalogCurrent /\ 1 .. catalogCurrent \subseteq File
           /\ 1 .. catalogCurrent = {f \in File : f <= catalogCurrent}
  BY OwnersAssumption DEF OwnersInv, OwnersType, TypeOK, InPlace, Queues, Agent, File

\* A mark for discovery names files that the catalog has.
LEMMA MarkFacts ==
    ASSUME catalogCurrent \in File, NEW f \in File, f <= catalogCurrent
    PROVE  mark(f) \subseteq 1 .. catalogCurrent
  BY NamesFacts DEF mark, currentFile, File

\* The queues and the receipts as a worker may leave them: no receipt comes.
Served ==
    /\ due' \subseteq 1 .. catalogCurrent
    /\ events' \subseteq events
    /\ revisit' \subseteq Receipt
    /\ probing' \in BOOLEAN
    /\ row' \in [Receipt -> {"absent", "pending", "done"}]
    /\ \A r \in Receipt : row'[r] = "pending" => row[r] = "pending"

\* What is left to show of a worker's step, sessions taken away aside.
LEMMA WorkerLeaves ==
    ASSUME OwnersInv, NEW w \in Worker, NEW v \in WorkerRecord,
           worker' = [worker EXCEPT ![w] = v], Places(w, v), Served,
           UNCHANGED <<catalogCurrent, snapshot, server, service, drop>>,
           registry' \in [File -> {"absent", "opening", "open", "closing"}]
                           \X [File -> Nat] \X [File -> Nat],
           closing' \in [Agent -> File \cup {None}],
           Counted', Exclusive', FinalizedIsFinished', complete' \subseteq File
    PROVE  OwnersInv'
  <1>1. worker' \in [Worker -> WorkerRecord]
    BY WorkerFacts
  <1>2. TypeOK'
    <2>1. /\ entry' \in [File -> {"absent", "opening", "open", "closing"}]
          /\ references' \in [File -> Nat] /\ handles' \in [File -> Nat]
      BY DEF registry
    <2>2. /\ complete' \subseteq File /\ due' \subseteq File
          /\ catalogCurrent' \in File /\ snapshot' \in File
          /\ transition' \in BOOLEAN /\ cacheVersion' \in Nat /\ probing' \in BOOLEAN
          /\ events' \subseteq Receipt /\ revisit' \subseteq Receipt
      BY WorkerFacts DEF Served, service, OwnersInv, OwnersType, TypeOK
    <2>3. /\ row' \in [Receipt -> {"absent", "pending", "done"}]
          /\ drop' \in [Agent -> [Worker -> File \cup {None}]]
          /\ closing' \in [Agent -> File \cup {None}]
          /\ server' \in [pc : {"idle", "begun", "borrowing", "opening", "borrowed",
                                "published", "closed", "ending"},
                          file : File \cup {None}, old : File \cup {None}]
      BY DEF Served, OwnersInv, OwnersType, TypeOK
    <2>4. \A x \in Worker :
             /\ worker'[x].path \in File \cup {None} /\ worker'[x].session \in File \cup {None}
             /\ worker'[x].job \in File \cup {None} /\ worker'[x].receipt \in Receipt \cup {None}
      BY <1>1 DEF WorkerRecord, Path
    <2> QED BY <2>1, <2>2, <2>3, <2>4 DEF TypeOK
  <1>3. InPlace'
    <2>1. ASSUME NEW x \in Worker PROVE Places(x, worker'[x])
      BY WorkerFacts DEF OwnersInv, InPlace
    <2> QED BY <2>1 DEF InPlace, Places, service
  <1>4. Queues' /\ Rotation'
    BY DEF OwnersInv, Queues, Rotation, Served, service
  <1> QED BY <1>1, <1>2, <1>3, <1>4 DEF OwnersInv, OwnersType

\* A step of one worker keeps the invariant when its new place, the registry and the
\* count are right.
LEMMA WorkerMoves ==
    ASSUME OwnersInv, NEW w \in Worker, NEW v \in WorkerRecord,
           worker' = [worker EXCEPT ![w] = v], Places(w, v), Served,
           UNCHANGED <<complete, catalogCurrent, snapshot, server, service, drop>>,
           registry' \in [File -> {"absent", "opening", "open", "closing"}]
                           \X [File -> Nat] \X [File -> Nat],
           closing' \in [Agent -> File \cup {None}],
           Counted', Exclusive',
           \A f \in complete : handles'[f] = 0
    PROVE  OwnersInv'
  <1>1. FinalizedIsFinished'
    BY DEF OwnersInv, FinalizedIsFinished, Served, Pending
  <1>2. complete' \subseteq File
    BY DEF OwnersInv, OwnersType, TypeOK
  <1> QED BY <1>1, <1>2, WorkerLeaves

\* A step that leaves the registry and the references as they are.
LEMMA WorkerKeeps ==
    ASSUME OwnersInv, NEW w \in Worker, NEW v \in WorkerRecord,
           worker' = [worker EXCEPT ![w] = v],
           v.session = worker[w].session, v.job = worker[w].job, v.pc # "opening",
           UNCHANGED <<snapshot, server, drop, registry, closing>>
    PROVE  /\ Counted' /\ Exclusive'
           /\ registry' \in [File -> {"absent", "opening", "open", "closing"}]
                              \X [File -> Nat] \X [File -> Nat]
           /\ closing' \in [Agent -> File \cup {None}]
  <1>1. HeldSame
    <2>1. ASSUME NEW x \in Worker
          PROVE  worker'[x].session = worker[x].session /\ worker'[x].job = worker[x].job
      BY WorkerFacts
    <2>2. \A kind \in Kind, a \in Agent, b \in Agent : Held(kind, a, b)' = Held(kind, a, b)
      BY <2>1 DEF Held
    <2> QED BY <2>2 DEF HeldSame, held, Holding
  <1>2. Counted'
    BY <1>1, CountedQuiet DEF OwnersInv
  <1>3. Exclusive'
    <2>1. \A a \in Agent : Opening(a)' \in {Opening(a), None}
      BY WorkerFacts DEF Opening, Agent
    <2>2. entry' = entry /\ closing' = closing
      BY DEF registry
    <2> QED BY <2>1, <2>2 DEF OwnersInv, Exclusive
  <1>4. /\ registry' \in [File -> {"absent", "opening", "open", "closing"}]
                           \X [File -> Nat] \X [File -> Nat]
        /\ closing' \in [Agent -> File \cup {None}]
    BY DEF registry, OwnersInv, OwnersType, TypeOK
  <1> QED BY <1>2, <1>3, <1>4

\* A step of one worker that neither gains nor gives up a reference.
LEMMA WorkerQuiet ==
    ASSUME OwnersInv, NEW w \in Worker, NEW v \in WorkerRecord,
           worker' = [worker EXCEPT ![w] = v], Places(w, v), Served,
           v.session = worker[w].session, v.job = worker[w].job, v.pc # "opening",
           UNCHANGED <<complete, catalogCurrent, snapshot, server, service, drop>>,
           UNCHANGED <<registry, closing>>
    PROVE  OwnersInv'
  <1>1. \A f \in complete : handles'[f] = 0
    BY DEF registry, OwnersInv, FinalizedIsFinished
  <1> QED BY <1>1, WorkerKeeps, WorkerMoves

\* A worker beyond the choice of its work has a file.
LEMMA PathFacts ==
    ASSUME OwnersInv, NEW w \in Worker, worker[w].pc \notin Unplaced
    PROVE  /\ worker[w].path \in File /\ worker[w].path \in 1 .. catalogCurrent
           /\ mark(worker[w].path) \subseteq 1 .. catalogCurrent
  BY WorkerFacts, NamesFacts, MarkFacts DEF Places

\* A worker starts a pass over the files to visit.
LEMMA TakeProbeStep ==
    ASSUME OwnersInv, NEW w \in Worker, takeProbe(w)
    PROVE  OwnersInv'
  <1> DEFINE v == [worker[w] EXCEPT !.pc = "probe", !.path = None]
  <1>1. v \in WorkerRecord /\ worker' = [worker EXCEPT ![w] = v]
    <2>1. "probe" \in WorkerPcs /\ None \in Path
      BY DEF WorkerPcs, Path
    <2>2. v \in WorkerRecord
      BY <2>1, WorkerFacts DEF WorkerRecord
    <2> QED BY <2>2, WorkerFacts DEF takeProbe
  <1>2. Places(w, v)
    BY WorkerFacts, NamesFacts, OwnersAssumption
      DEF takeProbe, Places, WorkerRecord, WorkerPcs, Holds, Careful, Unplaced,
          Searching, Released, OwnersInv, Queues
  <1>3. Served
    BY WorkerFacts, PathFacts
      DEF takeProbe, Unplaced, Served, OwnersInv, OwnersType, TypeOK, durable, queue
  <1>4. v.session = worker[w].session /\ v.job = worker[w].job /\ v.pc # "opening"
    BY WorkerFacts DEF WorkerRecord
  <1>5. UNCHANGED <<complete, catalogCurrent, snapshot, server, service, drop, registry, closing>>
    BY DEF takeProbe, durable, releases
  <1> HIDE DEF v
  <1> QED BY <1>1, <1>2, <1>3, <1>4, <1>5, WorkerQuiet

\* The pass takes its next file.
LEMMA SelectFileStep ==
    ASSUME OwnersInv, NEW w \in Worker, NEW f \in File, selectFile(w, f)
    PROVE  OwnersInv'
  <1> DEFINE v == [worker[w] EXCEPT !.pc = "selected", !.path = f]
  <1>1. v \in WorkerRecord /\ worker' = [worker EXCEPT ![w] = v]
    <2>1. "selected" \in WorkerPcs /\ f \in Path
      BY DEF WorkerPcs, Path
    <2>2. v \in WorkerRecord
      BY <2>1, WorkerFacts DEF WorkerRecord
    <2> QED BY <2>2, WorkerFacts DEF selectFile
  <1>2. Places(w, v)
    BY WorkerFacts, NamesFacts, OwnersAssumption
      DEF selectFile, Places, WorkerRecord, WorkerPcs, Holds, Careful, Unplaced,
          Searching, Released, OwnersInv, Queues
  <1>3. Served
    BY WorkerFacts, PathFacts
      DEF selectFile, Unplaced, Served, OwnersInv, OwnersType, TypeOK, durable, queue
  <1>4. v.session = worker[w].session /\ v.job = worker[w].job /\ v.pc # "opening"
    BY WorkerFacts DEF WorkerRecord
  <1>5. UNCHANGED <<complete, catalogCurrent, snapshot, server, service, drop, registry, closing>>
    BY DEF selectFile, durable, releases
  <1> HIDE DEF v
  <1> QED BY <1>1, <1>2, <1>3, <1>4, <1>5, WorkerQuiet

\* A file without pending rows is not opened.
LEMMA SkipCompleteStep ==
    ASSUME OwnersInv, NEW w \in Worker, NEW f \in File, skipComplete(w, f)
    PROVE  OwnersInv'
  <1> DEFINE v == [worker[w] EXCEPT !.pc = "probeEnd", !.path = f]
  <1>1. v \in WorkerRecord /\ worker' = [worker EXCEPT ![w] = v]
    <2>1. "probeEnd" \in WorkerPcs /\ f \in Path
      BY DEF WorkerPcs, Path
    <2>2. v \in WorkerRecord
      BY <2>1, WorkerFacts DEF WorkerRecord
    <2> QED BY <2>2, WorkerFacts DEF skipComplete
  <1>2. Places(w, v)
    BY WorkerFacts, NamesFacts, OwnersAssumption
      DEF skipComplete, Places, WorkerRecord, WorkerPcs, Holds, Careful, Unplaced,
          Searching, Released, OwnersInv, Queues
  <1>3. Served
    BY WorkerFacts, PathFacts
      DEF skipComplete, Unplaced, Served, OwnersInv, OwnersType, TypeOK, durable, queue
  <1>4. v.session = worker[w].session /\ v.job = worker[w].job /\ v.pc # "opening"
    BY WorkerFacts DEF WorkerRecord
  <1>5. UNCHANGED <<complete, catalogCurrent, snapshot, server, service, drop, registry, closing>>
    BY DEF skipComplete, durable, releases
  <1> HIDE DEF v
  <1> QED BY <1>1, <1>2, <1>3, <1>4, <1>5, WorkerQuiet

\* No borrowing of a historical file during a transition.
LEMMA SessionRefusedStep ==
    ASSUME OwnersInv, NEW w \in Worker, sessionRefused(w)
    PROVE  OwnersInv'
  <1> DEFINE v == [worker[w] EXCEPT !.pc = "probeEnd"]
  <1>1. v \in WorkerRecord /\ worker' = [worker EXCEPT ![w] = v]
    <2>1. "probeEnd" \in WorkerPcs
      BY DEF WorkerPcs
    <2>2. v \in WorkerRecord
      BY <2>1, WorkerFacts DEF WorkerRecord
    <2> QED BY <2>2, WorkerFacts DEF sessionRefused, step
  <1>2. Places(w, v)
    BY WorkerFacts, NamesFacts, OwnersAssumption
      DEF sessionRefused, Places, WorkerRecord, WorkerPcs, Holds, Careful, Unplaced,
          Searching, Released, OwnersInv, Queues
  <1>3. Served
    BY WorkerFacts, PathFacts
      DEF sessionRefused, Unplaced, Served, OwnersInv, OwnersType, TypeOK, durable,
          queue
  <1>4. v.session = worker[w].session /\ v.job = worker[w].job /\ v.pc # "opening"
    BY WorkerFacts DEF WorkerRecord
  <1>5. UNCHANGED <<complete, catalogCurrent, snapshot, server, service, drop, registry, closing>>
    BY DEF sessionRefused, durable, releases
  <1> HIDE DEF v
  <1> QED BY <1>1, <1>2, <1>3, <1>4, <1>5, WorkerQuiet

\* During a transition the job of a historical file is left to a later pass.
LEMMA JobDelayedStep ==
    ASSUME OwnersInv, NEW w \in Worker, jobDelayed(w)
    PROVE  OwnersInv'
  <1> DEFINE v == [worker[w] EXCEPT !.pc = "jobEnd"]
  <1>1. v \in WorkerRecord /\ worker' = [worker EXCEPT ![w] = v]
    <2>1. "jobEnd" \in WorkerPcs
      BY DEF WorkerPcs
    <2>2. v \in WorkerRecord
      BY <2>1, WorkerFacts DEF WorkerRecord
    <2> QED BY <2>2, WorkerFacts DEF jobDelayed, step
  <1>2. Places(w, v)
    BY WorkerFacts, NamesFacts, OwnersAssumption
      DEF jobDelayed, Places, WorkerRecord, WorkerPcs, Holds, Careful, Unplaced,
          Searching, Released, OwnersInv, Queues
  <1>3. Served
    BY WorkerFacts, PathFacts
      DEF jobDelayed, Unplaced, Served, OwnersInv, OwnersType, TypeOK, durable, queue
  <1>4. v.session = worker[w].session /\ v.job = worker[w].job /\ v.pc # "opening"
    BY WorkerFacts DEF WorkerRecord
  <1>5. UNCHANGED <<complete, catalogCurrent, snapshot, server, service, drop, registry, closing>>
    BY DEF jobDelayed, durable, releases
  <1> HIDE DEF v
  <1> QED BY <1>1, <1>2, <1>3, <1>4, <1>5, WorkerQuiet

\* The header is unreadable, or the context ends while the worker waits.
LEMMA BorrowCanceledStep ==
    ASSUME OwnersInv, NEW w \in Worker, borrowCanceled(w)
    PROVE  OwnersInv'
  <1> DEFINE v == [worker[w] EXCEPT !.retain = FALSE, !.version = 0,
                                 !.pc = IF worker[w].receipt = None THEN "probeEnd" ELSE "jobEnd"]
  <1>1. v \in WorkerRecord /\ worker' = [worker EXCEPT ![w] = v]
    <2>1. "probeEnd" \in WorkerPcs /\ "jobEnd" \in WorkerPcs
      BY DEF WorkerPcs
    <2>2. v \in WorkerRecord
      BY <2>1, WorkerFacts DEF WorkerRecord
    <2> QED BY <2>2, WorkerFacts DEF borrowCanceled
  <1>2. Places(w, v)
    BY WorkerFacts, NamesFacts, OwnersAssumption
      DEF borrowCanceled, Places, WorkerRecord, WorkerPcs, Holds, Careful, Unplaced,
          Searching, Released, OwnersInv, Queues
  <1>3. Served
    BY WorkerFacts, PathFacts
      DEF borrowCanceled, Unplaced, Served, OwnersInv, OwnersType, TypeOK, durable,
          queue
  <1>4. v.session = worker[w].session /\ v.job = worker[w].job /\ v.pc # "opening"
    BY WorkerFacts DEF WorkerRecord
  <1>5. UNCHANGED <<complete, catalogCurrent, snapshot, server, service, drop, registry, closing>>
    BY DEF borrowCanceled, durable, releases
  <1> HIDE DEF v
  <1> QED BY <1>1, <1>2, <1>3, <1>4, <1>5, WorkerQuiet

\* A worker takes a receipt from the queue.
LEMMA TakeEventStep ==
    ASSUME OwnersInv, NEW w \in Worker, NEW r \in Receipt, takeEvent(w, r)
    PROVE  OwnersInv'
  <1> DEFINE v == [worker[w] EXCEPT !.pc = "event", !.path = FileOf[r], !.receipt = r]
  <1>1. v \in WorkerRecord /\ worker' = [worker EXCEPT ![w] = v]
    <2>1. FileOf[r] \in Path
      BY OwnersAssumption DEF Path, File
    <2>2. worker' = [worker EXCEPT ![w] = v]
      BY WorkerFacts DEF takeEvent
    <2> QED BY <2>1, <2>2, WorkerFacts DEF WorkerRecord, WorkerPcs
  <1>2. Places(w, v)
    BY WorkerFacts, NamesFacts, OwnersAssumption
      DEF takeEvent, Places, WorkerRecord, WorkerPcs, Holds, Careful, Unplaced,
          Searching, Released, OwnersInv, Queues
  <1>3. Served
    BY WorkerFacts, PathFacts
      DEF takeEvent, Unplaced, Served, OwnersInv, OwnersType, TypeOK, durable, queue
  <1>4. v.session = worker[w].session /\ v.job = worker[w].job /\ v.pc # "opening"
    BY WorkerFacts DEF WorkerRecord
  <1>5. UNCHANGED <<complete, catalogCurrent, snapshot, server, service, drop, registry, closing>>
    BY DEF takeEvent, durable, releases
  <1> HIDE DEF v
  <1> QED BY <1>1, <1>2, <1>3, <1>4, <1>5, WorkerQuiet

\* The pass admits a pending receipt, and its owner goes to the job.
LEMMA FindWorkStep ==
    ASSUME OwnersInv, NEW w \in Worker, NEW r \in Receipt, findWork(w, r)
    PROVE  OwnersInv'
  <1> DEFINE v == [worker[w] EXCEPT !.pc = "working", !.receipt = r]
  <1>1. v \in WorkerRecord /\ worker' = [worker EXCEPT ![w] = v]
    <2>1. "event" \in WorkerPcs /\ "opening" \in WorkerPcs /\ "working" \in WorkerPcs
      BY DEF WorkerPcs
    <2>2. v \in WorkerRecord
      BY <2>1, WorkerFacts DEF WorkerRecord
    <2> QED BY <2>2, WorkerFacts DEF findWork
  <1>2. Places(w, v)
    BY WorkerFacts, NamesFacts, OwnersAssumption
      DEF findWork, Places, WorkerRecord, WorkerPcs, Holds, Careful, Unplaced,
          Searching, Released, OwnersInv, Queues
  <1>3. Served
    BY WorkerFacts, PathFacts
      DEF findWork, Unplaced, Served, OwnersInv, OwnersType, TypeOK, durable, queue
  <1>4. v.session = worker[w].session /\ v.job = worker[w].job /\ v.pc # "opening"
    BY WorkerFacts DEF WorkerRecord
  <1>5. UNCHANGED <<complete, catalogCurrent, snapshot, server, service, drop, registry, closing>>
    BY DEF findWork, durable, releases
  <1> HIDE DEF v
  <1> QED BY <1>1, <1>2, <1>3, <1>4, <1>5, WorkerQuiet

\* The receipt is completed.
LEMMA WorkDoneStep ==
    ASSUME OwnersInv, NEW w \in Worker, workDone(w)
    PROVE  OwnersInv'
  <1> DEFINE v == [worker[w] EXCEPT !.pc = "jobDone"]
  <1>1. v \in WorkerRecord /\ worker' = [worker EXCEPT ![w] = v]
    <2>1. "jobDone" \in WorkerPcs
      BY DEF WorkerPcs
    <2>2. v \in WorkerRecord
      BY <2>1, WorkerFacts DEF WorkerRecord
    <2> QED BY <2>2, WorkerFacts DEF workDone, step
  <1>2. Places(w, v)
    BY WorkerFacts, NamesFacts, OwnersAssumption
      DEF workDone, Places, WorkerRecord, WorkerPcs, Holds, Careful, Unplaced,
          Searching, Released, OwnersInv, Queues
  <1>3. Served
    BY WorkerFacts, PathFacts
      DEF workDone, Unplaced, Served, OwnersInv, OwnersType, TypeOK, durable, queue
  <1>4. v.session = worker[w].session /\ v.job = worker[w].job /\ v.pc # "opening"
    BY WorkerFacts DEF WorkerRecord
  <1>5. UNCHANGED <<complete, catalogCurrent, snapshot, server, service, drop, registry, closing>>
    BY DEF workDone, durable, releases
  <1> HIDE DEF v
  <1> QED BY <1>1, <1>2, <1>3, <1>4, <1>5, WorkerQuiet

\* Finalization fails and the file is marked again.
LEMMA FinalizeFailsStep ==
    ASSUME OwnersInv, NEW w \in Worker, finalizeFails(w)
    PROVE  OwnersInv'
  <1> DEFINE v == [worker[w] EXCEPT !.pc = IF worker[w].receipt = None THEN "probeEnd" ELSE "jobEnd"]
  <1>1. v \in WorkerRecord /\ worker' = [worker EXCEPT ![w] = v]
    <2>1. "probeEnd" \in WorkerPcs /\ "jobEnd" \in WorkerPcs
      BY DEF WorkerPcs
    <2>2. v \in WorkerRecord
      BY <2>1, WorkerFacts DEF WorkerRecord
    <2> QED BY <2>2, WorkerFacts DEF finalizeFails, AfterFinalize, step
  <1>2. Places(w, v)
    BY WorkerFacts, NamesFacts, OwnersAssumption
      DEF finalizeFails, Places, WorkerRecord, WorkerPcs, Holds, Careful, Unplaced,
          Searching, Released, OwnersInv, Queues, AfterFinalize
  <1>3. Served
    BY WorkerFacts, PathFacts
      DEF finalizeFails, Unplaced, Served, OwnersInv, OwnersType, TypeOK, durable, queue
  <1>4. v.session = worker[w].session /\ v.job = worker[w].job /\ v.pc # "opening"
    BY WorkerFacts DEF WorkerRecord
  <1>5. UNCHANGED <<complete, catalogCurrent, snapshot, server, service, drop, registry, closing>>
    BY DEF finalizeFails, durable, releases
  <1> HIDE DEF v
  <1> QED BY <1>1, <1>2, <1>3, <1>4, <1>5, WorkerQuiet

\* A pass ends.
LEMMA EndProbeStep ==
    ASSUME OwnersInv, NEW w \in Worker, endProbe(w)
    PROVE  OwnersInv'
  <1> DEFINE v == [worker[w] EXCEPT !.pc = "next"]
  <1>1. v \in WorkerRecord /\ worker' = [worker EXCEPT ![w] = v]
    <2>1. "next" \in WorkerPcs
      BY DEF WorkerPcs
    <2>2. v \in WorkerRecord
      BY <2>1, WorkerFacts DEF WorkerRecord
    <2> QED BY <2>2, WorkerFacts DEF endProbe, step
  <1>2. Places(w, v)
    BY WorkerFacts, NamesFacts, OwnersAssumption
      DEF endProbe, Places, WorkerRecord, WorkerPcs, Holds, Careful, Unplaced,
          Searching, Released, OwnersInv, Queues
  <1>3. Served
    BY WorkerFacts, PathFacts
      DEF endProbe, Unplaced, Served, OwnersInv, OwnersType, TypeOK, durable, queue
  <1>4. v.session = worker[w].session /\ v.job = worker[w].job /\ v.pc # "opening"
    BY WorkerFacts DEF WorkerRecord
  <1>5. UNCHANGED <<complete, catalogCurrent, snapshot, server, service, drop, registry, closing>>
    BY DEF endProbe, durable, releases
  <1> HIDE DEF v
  <1> QED BY <1>1, <1>2, <1>3, <1>4, <1>5, WorkerQuiet

\* A job ends, and a receipt that a pass saw owned is looked for again.
LEMMA EndJobStep ==
    ASSUME OwnersInv, NEW w \in Worker, endJob(w)
    PROVE  OwnersInv'
  <1> DEFINE v == [worker[w] EXCEPT !.pc = "next", !.receipt = None]
  <1>1. v \in WorkerRecord /\ worker' = [worker EXCEPT ![w] = v]
    <2>1. "next" \in WorkerPcs
      BY DEF WorkerPcs
    <2>2. v \in WorkerRecord
      BY <2>1, WorkerFacts DEF WorkerRecord
    <2> QED BY <2>2, WorkerFacts DEF endJob
  <1>2. Places(w, v)
    BY WorkerFacts, NamesFacts, OwnersAssumption
      DEF endJob, Places, WorkerRecord, WorkerPcs, Holds, Careful, Unplaced, Searching,
          Released, OwnersInv, Queues
  <1>3. Served
    BY WorkerFacts, PathFacts
      DEF endJob, Unplaced, Served, OwnersInv, OwnersType, TypeOK, durable, queue
  <1>4. v.session = worker[w].session /\ v.job = worker[w].job /\ v.pc # "opening"
    BY WorkerFacts DEF WorkerRecord
  <1>5. UNCHANGED <<complete, catalogCurrent, snapshot, server, service, drop, registry, closing>>
    BY DEF endJob, durable, releases
  <1> HIDE DEF v
  <1> QED BY <1>1, <1>2, <1>3, <1>4, <1>5, WorkerQuiet

\* Whoever opens or closes has a file to open or close.
LEMMA OpeningIsFile ==
    ASSUME OwnersType
    PROVE  \A a \in Agent : /\ Opening(a) # None => Opening(a) \in File
                            /\ closing[a] # None => closing[a] \in File
  BY NamesFacts DEF OwnersType, TypeOK, Opening, Agent, WorkerRecord, Path

\* Whoever makes an entry pending to close it is the only one to do so.
LEMMA ExclusiveRelease ==
    ASSUME OwnersType, Exclusive, NEW a \in Agent, NEW f \in File, entry[f] = "open",
           release(a, f), \A b \in Agent : Opening(b)' \in {Opening(b), None}
    PROVE  Exclusive'
  <1>1. /\ closing[a] = None /\ closing'[a] \in {None, f}
        /\ \A b \in Agent \ {a} : closing'[b] = closing[b]
        /\ \A g \in File \ {f} : entry'[g] = entry[g]
        /\ closing'[a] # None => closing'[a] = f /\ entry'[f] = "closing"
    BY NamesFacts DEF release, OwnersType, TypeOK
  <1>2. \A b \in Agent : Opening(b) # f /\ closing[b] # f
    BY NamesFacts DEF Exclusive
  <1>3. \A b \in Agent : /\ Opening(b)' # None => Opening(b)' = Opening(b)
                         /\ Opening(b)' # None => entry'[Opening(b)'] = "opening"
    BY <1>1, <1>2, OpeningIsFile DEF Exclusive
  <1>4. \A b \in Agent : closing'[b] # None => entry'[closing'[b]] = "closing"
    BY <1>1, <1>2, OpeningIsFile DEF Exclusive
  <1>5. \A b \in Agent : \A c \in Agent \ {b} :
           /\ Opening(b)' # None => Opening(c)' # Opening(b)'
           /\ closing'[b] # None => closing'[c] # closing'[b]
    BY <1>1, <1>2, <1>3 DEF Exclusive
  <1> QED BY <1>3, <1>4, <1>5 DEF Exclusive

\* A release keeps the types of the registry and opens no handle.
LEMMA ReleaseTypes ==
    ASSUME OwnersType, NEW a \in Agent, NEW f \in File, references[f] \in Nat \ {0},
           release(a, f)
    PROVE  /\ registry' \in [File -> {"absent", "opening", "open", "closing"}]
                           \X [File -> Nat] \X [File -> Nat]
           /\ closing' \in [Agent -> File \cup {None}] /\ handles' = handles
  <1>1. /\ entry \in [File -> {"absent", "opening", "open", "closing"}]
        /\ references \in [File -> Nat] /\ handles \in [File -> Nat]
        /\ closing \in [Agent -> File \cup {None}]
    BY DEF OwnersType, TypeOK
  <1>2. references[f] - 1 \in Nat
    OBVIOUS
  <1>3. /\ entry' \in [File -> {"absent", "opening", "open", "closing"}]
        /\ references' \in [File -> Nat] /\ handles' = handles
        /\ closing' \in [Agent -> File \cup {None}]
    BY <1>1, <1>2 DEF release
  <1> QED BY <1>1, <1>3 DEF registry

\* The file that is current is not finalized.
LEMMA CurrentIsOpen ==
    ASSUME OwnersInv
    PROVE  catalogCurrent \notin complete /\ snapshot \notin complete
  <1>1. snapshot <= catalogCurrent /\ \A f \in complete : f < snapshot
    BY DEF OwnersInv, Rotation, FinalizedIsFinished
  <1>2. snapshot \in Nat /\ catalogCurrent \in Nat
    BY NamesFacts DEF OwnersInv, OwnersType, TypeOK
  <1> QED BY <1>1, <1>2

\* The file of the published snapshot is open.
LEMMA SnapshotOpen ==
    ASSUME OwnersInv
    PROVE  /\ snapshot \in File /\ entry[snapshot] = "open" /\ handles[snapshot] = 1
           /\ held[<<"snapshot", Server, Server>>] = snapshot
           /\ <<"snapshot", Server, Server>> \in Holding
  <1>1. /\ held[<<"snapshot", Server, Server>>] = snapshot
        /\ <<"snapshot", Server, Server>> \in Holding
    BY OwnersAssumption DEF held, Held, Holding, Kind, Agent
  <1>2. snapshot \in File /\ OwnersType /\ Counted
    BY DEF OwnersInv, OwnersType, TypeOK
  <1> QED BY <1>1, <1>2, HeldIsOpen

\* What one worker holds changes by a job or by a session.
LEMMA WorkerHolds ==
    ASSUME OwnersInv, NEW w \in Worker, NEW v \in WorkerRecord,
           worker' = [worker EXCEPT ![w] = v], UNCHANGED <<snapshot, server, drop>>
    PROVE  /\ <<"job", w, w>> \in Holding /\ held[<<"job", w, w>>] = worker[w].job
           /\ <<"session", w, w>> \in Holding
           /\ held[<<"session", w, w>>] = worker[w].session
           /\ v.session = worker[w].session => HeldPut(<<"job", w, w>>, v.job)
           /\ v.job = worker[w].job => HeldPut(<<"session", w, w>>, v.session)
  <1>1. /\ <<"job", w, w>> \in Holding /\ held[<<"job", w, w>>] = worker[w].job
        /\ <<"session", w, w>> \in Holding
        /\ held[<<"session", w, w>>] = worker[w].session
    BY WorkerFacts DEF Holding, Kind, held, Held
  <1>2. /\ worker'[w] = v
        /\ \A x \in Worker \ {w} : worker'[x] = worker[x]
    BY WorkerFacts
  <1>3. held'[<<"job", w, w>>] = v.job /\ held'[<<"session", w, w>>] = v.session
    BY <1>1, <1>2 DEF held, Held
  <1>4. ASSUME v.session = worker[w].session,
               NEW kind \in Kind, NEW a \in Agent, NEW b \in Agent,
               <<kind, a, b>> # <<"job", w, w>>
        PROVE  Held(kind, a, b)' = Held(kind, a, b)
    BY <1>2, <1>4 DEF Held
  <1>5. ASSUME v.job = worker[w].job,
               NEW kind \in Kind, NEW a \in Agent, NEW b \in Agent,
               <<kind, a, b>> # <<"session", w, w>>
        PROVE  Held(kind, a, b)' = Held(kind, a, b)
    BY <1>2, <1>5 DEF Held
  <1>6. ASSUME NEW h \in Holding
        PROVE  /\ h[1] \in Kind /\ h[2] \in Agent /\ h[3] \in Agent
               /\ h = <<h[1], h[2], h[3]>>
               /\ held[h] = Held(h[1], h[2], h[3]) /\ held'[h] = Held(h[1], h[2], h[3])'
    BY DEF Holding, held
  <1>7. ASSUME v.session = worker[w].session PROVE HeldPut(<<"job", w, w>>, v.job)
    <2>1. ASSUME NEW h \in Holding, h # <<"job", w, w>> PROVE held'[h] = held[h]
      BY <1>4, <1>6, <1>7, <2>1
    <2> QED BY <1>1, <1>3, <2>1 DEF HeldPut
  <1>8. ASSUME v.job = worker[w].job PROVE HeldPut(<<"session", w, w>>, v.session)
    <2>1. ASSUME NEW h \in Holding, h # <<"session", w, w>> PROVE held'[h] = held[h]
      BY <1>5, <1>6, <1>8, <2>1
    <2> QED BY <1>1, <1>3, <2>1 DEF HeldPut
  <1> QED BY <1>1, <1>7, <1>8

\* The reference of an open file that a worker counts for its job or session.
LEMMA WorkerShares ==
    ASSUME OwnersInv, NEW w \in Worker, NEW v \in WorkerRecord,
           worker' = [worker EXCEPT ![w] = v], Places(w, v), Served,
           UNCHANGED <<complete, catalogCurrent, snapshot, server, service, drop, closing>>,
           NEW f \in File, share(f), v.pc # "opening",
           \/ worker[w].job = None /\ v.job = f /\ v.session = worker[w].session
           \/ worker[w].session = None /\ v.session = f /\ v.job = worker[w].job
    PROVE  OwnersInv'
  <1>1. Counted'
    <2>1. OwnersType /\ Counted
      BY DEF OwnersInv
    <2>2. PICK h \in Holding : held[h] = None /\ HeldPut(h, f)
      BY WorkerHolds
    <2> QED BY <2>1, <2>2, CountedShare
  <1>2. Exclusive'
    <2>1. \A a \in Agent : Opening(a)' \in {Opening(a), None}
      BY WorkerFacts DEF Opening, Agent
    <2>2. entry' = entry /\ closing' = closing
      BY DEF share
    <2> QED BY <2>1, <2>2 DEF OwnersInv, Exclusive
  <1>3. /\ registry' \in [File -> {"absent", "opening", "open", "closing"}]
                           \X [File -> Nat] \X [File -> Nat]
        /\ closing' \in [Agent -> File \cup {None}]
        /\ \A g \in complete : handles'[g] = 0
    BY DEF registry, share, OwnersInv, OwnersType, TypeOK, FinalizedIsFinished
  <1> QED BY <1>1, <1>2, <1>3, WorkerMoves

\* A worker adds a pending entry for the file it needs.
LEMMA WorkerBeginsOpen ==
    ASSUME OwnersInv, NEW w \in Worker, NEW v \in WorkerRecord,
           worker' = [worker EXCEPT ![w] = v], Places(w, v), Served,
           UNCHANGED <<complete, catalogCurrent, snapshot, server, service, drop, closing>>,
           beginOpen(v.path), v.path \in File, v.pc = "opening",
           v.job = worker[w].job, v.session = worker[w].session
    PROVE  OwnersInv'
  <1> DEFINE f == v.path
  <1>1. Counted'
    <2>1. OwnersType /\ Counted
      BY DEF OwnersInv
    <2>2. HeldSame
      <3>1. HeldPut(<<"job", w, w>>, v.job) /\ held[<<"job", w, w>>] = v.job
        BY WorkerHolds
      <3> QED BY <3>1 DEF HeldSame, HeldPut
    <2> QED BY <2>1, <2>2, CountedBeginOpen
  <1>2. Exclusive'
    <2>1. /\ Opening(w)' = f
          /\ \A a \in Agent \ {w} : Opening(a)' = Opening(a)
      BY WorkerFacts DEF Opening, Agent
    <2>2. /\ entry[f] = "absent" /\ entry'[f] = "opening" /\ closing' = closing
          /\ \A g \in File \ {f} : entry'[g] = entry[g]
      BY DEF beginOpen, OwnersInv, OwnersType, TypeOK
    <2>3. \A a \in Agent : /\ Opening(a) # None => Opening(a) \in File
                           /\ closing[a] # None => closing[a] \in File
      BY OpeningIsFile DEF OwnersInv
    <2> HIDE DEF f
    <2> QED BY <2>1, <2>2, <2>3, WorkerFacts DEF OwnersInv, Exclusive
  <1>3. /\ registry' \in [File -> {"absent", "opening", "open", "closing"}]
                           \X [File -> Nat] \X [File -> Nat]
        /\ closing' \in [Agent -> File \cup {None}]
        /\ \A g \in complete : handles'[g] = 0
    BY DEF registry, beginOpen, OwnersInv, OwnersType, TypeOK, FinalizedIsFinished
  <1> QED BY <1>1, <1>2, <1>3, WorkerMoves

\* A worker enters the handle it opened and holds the file.
LEMMA WorkerOpened ==
    ASSUME OwnersInv, NEW w \in Worker, NEW v \in WorkerRecord,
           worker' = [worker EXCEPT ![w] = v], Places(w, v), Served,
           UNCHANGED <<complete, catalogCurrent, snapshot, server, service, drop, closing>>,
           NEW f \in File, f = worker[w].path, openSucceeds(f),
           worker[w].pc = "opening", v.pc # "opening",
           worker[w].job = None, v.job = f, v.session = worker[w].session
    PROVE  OwnersInv'
  <1>1. OwnersType /\ Counted /\ Exclusive
    BY DEF OwnersInv
  <1>2. Opening(w) = f /\ f # None /\ entry[f] = "opening" /\ f \notin complete
    <2>1. Opening(w) = f /\ f # None
      BY WorkerFacts, NamesFacts DEF Opening
    <2>2. f \notin complete \/ f = catalogCurrent
      BY DEF openSucceeds
    <2>3. catalogCurrent \notin complete
      BY CurrentIsOpen
    <2> QED BY <1>1, <2>1, <2>2, <2>3, WorkerFacts DEF Exclusive
  <1>3. Counted'
    <2>1. HeldPut(<<"job", w, w>>, f) /\ held[<<"job", w, w>>] = None /\ <<"job", w, w>> \in Holding
      BY WorkerHolds
    <2> QED BY <1>1, <1>2, <2>1, CountedOpened
  <1>4. Exclusive'
    <2>1. /\ Opening(w)' = None
          /\ \A a \in Agent \ {w} : Opening(a)' = Opening(a)
      BY WorkerFacts DEF Opening, Agent
    <2>2. closing' = closing /\ \A g \in File \ {f} : entry'[g] = entry[g]
      BY <1>1 DEF openSucceeds, OwnersType, TypeOK
    <2>3. \A a \in Agent : /\ Opening(a) # None => Opening(a) \in File
                           /\ closing[a] # None => closing[a] \in File
      BY <1>1, OpeningIsFile
    <2> QED BY <1>1, <1>2, <2>1, <2>2, <2>3, WorkerFacts DEF Exclusive
  <1>5. /\ registry' \in [File -> {"absent", "opening", "open", "closing"}]
                           \X [File -> Nat] \X [File -> Nat]
        /\ closing' \in [Agent -> File \cup {None}]
        /\ \A g \in complete : handles'[g] = 0
    <2>1. /\ entry' \in [File -> {"absent", "opening", "open", "closing"}]
          /\ references' \in [File -> Nat] /\ handles' \in [File -> Nat]
          /\ closing' \in [Agent -> File \cup {None}]
      BY <1>1 DEF openSucceeds, OwnersType, TypeOK
    <2>2. \A g \in complete : handles[g] = 0 /\ g \in File
      BY <1>1 DEF OwnersInv, FinalizedIsFinished, OwnersType, TypeOK
    <2>3. \A g \in complete : handles'[g] = handles[g]
      BY <1>1, <1>2, <2>2 DEF openSucceeds, OwnersType, TypeOK
    <2> QED BY <2>1, <2>2, <2>3 DEF registry
  <1> QED BY <1>3, <1>4, <1>5, WorkerMoves

\* A worker removes the entry it could not open.
LEMMA WorkerOpenFails ==
    ASSUME OwnersInv, NEW w \in Worker, NEW v \in WorkerRecord,
           worker' = [worker EXCEPT ![w] = v], Places(w, v), Served,
           UNCHANGED <<complete, catalogCurrent, snapshot, server, service, drop, closing>>,
           NEW f \in File, f = worker[w].path, openFails(f),
           worker[w].pc = "opening", v.pc # "opening",
           v.job = worker[w].job, v.session = worker[w].session
    PROVE  OwnersInv'
  <1>1. OwnersType /\ Counted /\ Exclusive
    BY DEF OwnersInv
  <1>2. Opening(w) = f /\ f # None /\ entry[f] = "opening"
    <2>1. Opening(w) = f /\ f # None
      BY WorkerFacts, NamesFacts DEF Opening
    <2> QED BY <1>1, <2>1, WorkerFacts DEF Exclusive
  <1>3. Counted'
    <2>1. HeldSame
      <3>1. HeldPut(<<"job", w, w>>, v.job) /\ held[<<"job", w, w>>] = v.job
        BY WorkerHolds
      <3> QED BY <3>1 DEF HeldSame, HeldPut
    <2> QED BY <1>1, <1>2, <2>1, CountedOpenFails
  <1>4. Exclusive'
    <2>1. /\ Opening(w)' = None
          /\ \A a \in Agent \ {w} : Opening(a)' = Opening(a)
      BY WorkerFacts DEF Opening, Agent
    <2>2. closing' = closing /\ \A g \in File \ {f} : entry'[g] = entry[g]
      BY <1>1 DEF openFails, OwnersType, TypeOK
    <2>3. \A a \in Agent : /\ Opening(a) # None => Opening(a) \in File
                           /\ closing[a] # None => closing[a] \in File
      BY <1>1, OpeningIsFile
    <2> QED BY <1>1, <1>2, <2>1, <2>2, <2>3, WorkerFacts DEF Exclusive
  <1>5. /\ registry' \in [File -> {"absent", "opening", "open", "closing"}]
                           \X [File -> Nat] \X [File -> Nat]
        /\ closing' \in [Agent -> File \cup {None}]
        /\ \A g \in complete : handles'[g] = 0
    BY DEF registry, openFails, OwnersInv, OwnersType, TypeOK, FinalizedIsFinished
  <1> QED BY <1>3, <1>4, <1>5, WorkerMoves

\* A worker gives back its job's reference.
LEMMA WorkerReleasesJob ==
    ASSUME OwnersInv, NEW w \in Worker, NEW v \in WorkerRecord,
           worker' = [worker EXCEPT ![w] = v], Places(w, v), Served,
           UNCHANGED <<complete, catalogCurrent, snapshot, server, service, drop>>,
           worker[w].job \in File, release(w, worker[w].job), v.pc # "opening",
           v.job = None, v.session = worker[w].session
    PROVE  OwnersInv'
  <1> DEFINE f == worker[w].job
  <1>1. OwnersType /\ Counted /\ Exclusive
    BY DEF OwnersInv
  <1>2. /\ HeldPut(<<"job", w, w>>, None) /\ held[<<"job", w, w>>] = f
        /\ <<"job", w, w>> \in Holding
    BY WorkerHolds
  <1>3. entry[f] = "open" /\ references[f] \in Nat \ {0} /\ handles[f] = 1
    BY <1>1, <1>2, HeldIsOpen
  <1> HIDE DEF f
  <1>4. f \in File /\ release(w, f)
    BY DEF f
  <1>5. Counted'
    BY <1>1, <1>2, <1>4, WorkerFacts, CountedRelease
  <1>6. Exclusive'
    <2>1. \A a \in Agent : Opening(a)' \in {Opening(a), None}
      BY WorkerFacts DEF Opening, Agent
    <2> QED BY <1>1, <1>3, <1>4, <2>1, WorkerFacts, ExclusiveRelease
  <1>7. /\ registry' \in [File -> {"absent", "opening", "open", "closing"}]
                           \X [File -> Nat] \X [File -> Nat]
        /\ closing' \in [Agent -> File \cup {None}]
        /\ \A g \in complete : handles'[g] = 0
    BY <1>1, <1>3, <1>4, WorkerFacts, ReleaseTypes DEF OwnersInv, FinalizedIsFinished
  <1> QED BY <1>5, <1>6, <1>7, WorkerMoves

\* The session has the file, or the registry is asked.
LEMMA SessionBorrowStep ==
    ASSUME OwnersInv, NEW w \in Worker, sessionBorrow(w)
    PROVE  OwnersInv'
  <1> DEFINE f == worker[w].path
             p == [worker[w] EXCEPT !.pc = "reading", !.job = f]
             q == [worker[w] EXCEPT !.pc = "borrowing", !.version = cacheVersion,
                                    !.retain = ~currentFile(f) /\ ~transition]
  <1>1. /\ f \in File /\ worker[w].pc = "prepared" /\ worker[w].job = None
        /\ UNCHANGED <<complete, catalogCurrent, snapshot, server, service, drop, closing>>
    BY WorkerFacts, PathFacts DEF sessionBorrow, Unplaced, Holds, Places, durable, releases
  <1>2. Served
    BY WorkerFacts DEF sessionBorrow, Served, OwnersInv, OwnersType, TypeOK, durable, queue
  <1>3. CASE worker[w].session = f
    <2>1. p \in WorkerRecord /\ worker' = [worker EXCEPT ![w] = p] /\ share(f)
      <3>1. "reading" \in WorkerPcs /\ f \in Path
        BY <1>1 DEF WorkerPcs, Path
      <3>2. p \in WorkerRecord
        BY <3>1, WorkerFacts DEF WorkerRecord
      <3> QED BY <1>3, <3>2, WorkerFacts DEF sessionBorrow
    <2>2. Places(w, p)
      BY <1>1, WorkerFacts DEF Places, WorkerRecord, Holds, Careful, Unplaced, Searching
    <2>3. p.pc # "opening" /\ p.job = f /\ p.session = worker[w].session
      BY WorkerFacts DEF WorkerRecord
    <2> HIDE DEF p, f
    <2> QED BY <1>1, <1>2, <2>1, <2>2, <2>3, WorkerShares
  <1>4. CASE worker[w].session # f
    <2>1. q \in WorkerRecord /\ worker' = [worker EXCEPT ![w] = q] /\ UNCHANGED registry
      <3>1. /\ "borrowing" \in WorkerPcs /\ cacheVersion \in Nat
            /\ (~currentFile(f) /\ ~transition) \in BOOLEAN
        BY WorkerFacts DEF WorkerPcs
      <3>2. q \in WorkerRecord
        BY <3>1, WorkerFacts DEF WorkerRecord
      <3> QED BY <1>4, <3>2, WorkerFacts DEF sessionBorrow
    <2>2. Places(w, q)
      BY <1>1, <1>4, WorkerFacts
        DEF Places, WorkerRecord, Holds, Careful, Unplaced, Searching, currentFile
    <2>3. q.session = worker[w].session /\ q.job = worker[w].job /\ q.pc # "opening"
      BY WorkerFacts DEF WorkerRecord
    <2> HIDE DEF q, f
    <2> QED BY <1>1, <1>2, <2>1, <2>2, <2>3, WorkerQuiet
  <1> QED BY <1>3, <1>4

\* A session takes a file only when it has none.
LEMMA KeepOwnerStep ==
    ASSUME OwnersInv, NEW w \in Worker, keepOwner(w)
    PROVE  OwnersInv'
  <1> DEFINE f == worker[w].path
             v == [worker[w] EXCEPT !.pc = "reading", !.retain = FALSE, !.version = 0,
                                    !.session = IF Keeps(w) THEN f ELSE @]
  <1>1. /\ f \in File /\ worker[w].pc = "borrowed" /\ worker[w].job = f
        /\ UNCHANGED <<complete, catalogCurrent, snapshot, server, service, drop, closing>>
    BY WorkerFacts, PathFacts DEF keepOwner, Unplaced, Holds, Places, durable, releases
  <1>2. Served
    BY WorkerFacts DEF keepOwner, Served, OwnersInv, OwnersType, TypeOK, durable, queue
  <1>3. v \in WorkerRecord /\ worker' = [worker EXCEPT ![w] = v]
    <2>1. "reading" \in WorkerPcs /\ f \in Path
      BY <1>1 DEF WorkerPcs, Path
    <2>2. v \in WorkerRecord
      BY <2>1, WorkerFacts DEF WorkerRecord
    <2> QED BY <2>2, WorkerFacts DEF keepOwner
  <1>4. v.pc = "reading" /\ v.job = worker[w].job /\ v.path = f /\ v.retain = FALSE
    BY WorkerFacts DEF WorkerRecord
  <1>5. v.session = IF Keeps(w) THEN f ELSE worker[w].session
    BY WorkerFacts DEF WorkerRecord
  <1>6. Places(w, v)
    BY <1>1, <1>4, <1>5, WorkerFacts DEF Places, Holds, Careful, Unplaced, Searching
  <1>7. CASE Keeps(w)
    <2>1. worker[w].session = None
      <3>1. worker[w].version = cacheVersion /\ ~transition /\ worker[w].retain
        BY <1>7 DEF Keeps
      <3>2. f # snapshot /\ worker[w].session # f
        BY <3>1, WorkerFacts DEF Places, WorkerRecord
      <3> QED BY <1>1, <3>2, WorkerFacts DEF Places, Careful, Holds
    <2>2. share(f)
      BY <1>7 DEF keepOwner
    <2>3. v.pc # "opening"
      BY <1>4
    <2>4. v.session = f
      BY <1>5, <1>7
    <2> HIDE DEF v, f
    <2> QED BY <1>1, <1>2, <1>3, <1>4, <1>6, <2>1, <2>2, <2>3, <2>4, WorkerShares
  <1>8. CASE ~Keeps(w)
    <2>1. UNCHANGED registry
      BY <1>8 DEF keepOwner
    <2>2. v.session = worker[w].session /\ v.pc # "opening"
      BY <1>4, <1>5, <1>8
    <2> HIDE DEF v, f
    <2> QED BY <1>1, <1>2, <1>3, <1>4, <1>6, <2>1, <2>2, WorkerQuiet
  <1> QED BY <1>7, <1>8

\* The job of a queued receipt asks the registry for its file.
LEMMA JobBorrowStep ==
    ASSUME OwnersInv, NEW w \in Worker, jobBorrow(w)
    PROVE  OwnersInv'
  <1> DEFINE f == worker[w].path
             p == [worker[w] EXCEPT !.pc = "working", !.job = f]
             q == [worker[w] EXCEPT !.pc = "borrowing"]
  <1>1. /\ f \in File /\ worker[w].pc = "eventPrepared" /\ worker[w].job = None
        /\ UNCHANGED <<complete, catalogCurrent, snapshot, server, service, drop, closing>>
    BY WorkerFacts, PathFacts DEF jobBorrow, Unplaced, Holds, Places, durable, releases
  <1>2. Served
    BY WorkerFacts DEF jobBorrow, Served, OwnersInv, OwnersType, TypeOK, durable, queue
  <1>3. CASE currentFile(f)
    <2>1. p \in WorkerRecord /\ worker' = [worker EXCEPT ![w] = p] /\ share(f)
      <3>1. "working" \in WorkerPcs /\ f \in Path
        BY <1>1 DEF WorkerPcs, Path
      <3>2. p \in WorkerRecord
        BY <3>1, WorkerFacts DEF WorkerRecord
      <3> QED BY <1>3, <3>2, WorkerFacts DEF jobBorrow
    <2>2. Places(w, p)
      BY <1>1, WorkerFacts DEF Places, WorkerRecord, Holds, Careful, Unplaced, Searching
    <2>3. p.pc # "opening" /\ p.job = f /\ p.session = worker[w].session
      BY WorkerFacts DEF WorkerRecord
    <2> HIDE DEF p, f
    <2> QED BY <1>1, <1>2, <2>1, <2>2, <2>3, WorkerShares
  <1>4. CASE ~currentFile(f)
    <2>1. q \in WorkerRecord /\ worker' = [worker EXCEPT ![w] = q] /\ UNCHANGED registry
      BY <1>1, <1>4, WorkerFacts DEF jobBorrow, WorkerRecord, WorkerPcs, step
    <2>2. Places(w, q)
      BY <1>1, WorkerFacts DEF Places, WorkerRecord, Holds, Careful, Unplaced, Searching
    <2>3. q.session = worker[w].session /\ q.job = worker[w].job /\ q.pc # "opening"
      BY WorkerFacts DEF WorkerRecord
    <2> HIDE DEF q, f
    <2> QED BY <1>1, <1>2, <2>1, <2>2, <2>3, WorkerQuiet
  <1> QED BY <1>3, <1>4

\* A borrower shares the open entry.
LEMMA BorrowShareStep ==
    ASSUME OwnersInv, NEW w \in Worker, borrowShare(w)
    PROVE  OwnersInv'
  <1> DEFINE f == worker[w].path
             v == [worker[w] EXCEPT !.pc = AfterBorrow(w), !.job = f]
  <1>1. /\ f \in File /\ worker[w].pc = "borrowing" /\ worker[w].job = None /\ share(f)
        /\ UNCHANGED <<complete, catalogCurrent, snapshot, server, service, drop, closing>>
    BY WorkerFacts, PathFacts DEF borrowShare, Unplaced, Holds, Places, durable, releases
  <1>2. Served
    BY WorkerFacts DEF borrowShare, Served, OwnersInv, OwnersType, TypeOK, durable, queue
  <1>3. v \in WorkerRecord /\ worker' = [worker EXCEPT ![w] = v]
    <2>1. AfterBorrow(w) \in WorkerPcs /\ f \in Path
      BY <1>1 DEF AfterBorrow, WorkerPcs, Path
    <2>2. v \in WorkerRecord
      BY <2>1, WorkerFacts DEF WorkerRecord
    <2> QED BY <2>2, WorkerFacts DEF borrowShare
  <1>4. Places(w, v)
    <2>1. /\ v.pc \in {"borrowed", "working"} /\ v.job = f /\ v.path = f
          /\ v.session = worker[w].session /\ v.retain = worker[w].retain
          /\ v.version = worker[w].version
      BY WorkerFacts DEF WorkerRecord, AfterBorrow
    <2>2. /\ v.receipt = worker[w].receipt
          /\ v.pc = IF v.receipt = None THEN "borrowed" ELSE "working"
      BY WorkerFacts DEF WorkerRecord, AfterBorrow
    <2> HIDE DEF v
    <2> QED BY <1>1, <2>1, <2>2, WorkerFacts DEF Places, Holds, Careful, Unplaced, Searching
  <1>5. v.pc # "opening" /\ v.job = f /\ v.session = worker[w].session
    BY WorkerFacts DEF WorkerRecord, AfterBorrow
  <1> HIDE DEF v, f
  <1> QED BY <1>1, <1>2, <1>3, <1>4, <1>5, WorkerShares

\* A borrower finds no entry and opens.
LEMMA BorrowOpenStep ==
    ASSUME OwnersInv, NEW w \in Worker, borrowOpen(w)
    PROVE  OwnersInv'
  <1> DEFINE v == [worker[w] EXCEPT !.pc = "opening"]
  <1>1. /\ worker[w].path \in File /\ worker[w].pc = "borrowing"
        /\ beginOpen(worker[w].path)
        /\ UNCHANGED <<complete, catalogCurrent, snapshot, server, service, drop, closing>>
    BY WorkerFacts, PathFacts DEF borrowOpen, Unplaced, durable, releases
  <1>2. Served
    BY WorkerFacts DEF borrowOpen, Served, OwnersInv, OwnersType, TypeOK, durable, queue
  <1>3. v \in WorkerRecord /\ worker' = [worker EXCEPT ![w] = v]
    <2>1. "opening" \in WorkerPcs
      BY DEF WorkerPcs
    <2>2. v \in WorkerRecord
      BY <2>1, WorkerFacts DEF WorkerRecord
    <2> QED BY <2>2, WorkerFacts DEF borrowOpen, step
  <1>4. Places(w, v)
    BY <1>1, WorkerFacts DEF Places, WorkerRecord, Holds, Careful, Unplaced, Searching
  <1>5. /\ v.pc = "opening" /\ v.job = worker[w].job /\ v.session = worker[w].session
        /\ v.path = worker[w].path
    BY WorkerFacts DEF WorkerRecord
  <1> HIDE DEF v
  <1> QED BY <1>1, <1>2, <1>3, <1>4, <1>5, WorkerBeginsOpen

\* The borrower enters the handle.
LEMMA BorrowOpenedStep ==
    ASSUME OwnersInv, NEW w \in Worker, borrowOpened(w)
    PROVE  OwnersInv'
  <1> DEFINE f == worker[w].path
             v == [worker[w] EXCEPT !.pc = AfterBorrow(w), !.job = f]
  <1>1. /\ f \in File /\ worker[w].pc = "opening" /\ worker[w].job = None /\ openSucceeds(f)
        /\ UNCHANGED <<complete, catalogCurrent, snapshot, server, service, drop, closing>>
    BY WorkerFacts, PathFacts DEF borrowOpened, Unplaced, Holds, Places, durable, releases
  <1>2. Served
    BY WorkerFacts DEF borrowOpened, Served, OwnersInv, OwnersType, TypeOK, durable, queue
  <1>3. v \in WorkerRecord /\ worker' = [worker EXCEPT ![w] = v]
    <2>1. AfterBorrow(w) \in WorkerPcs /\ f \in Path
      BY <1>1 DEF AfterBorrow, WorkerPcs, Path
    <2>2. v \in WorkerRecord
      BY <2>1, WorkerFacts DEF WorkerRecord
    <2> QED BY <2>2, WorkerFacts DEF borrowOpened
  <1>4. Places(w, v)
    <2>1. /\ v.pc \in {"borrowed", "working"} /\ v.job = f /\ v.path = f
          /\ v.session = worker[w].session /\ v.retain = worker[w].retain
          /\ v.version = worker[w].version
      BY WorkerFacts DEF WorkerRecord, AfterBorrow
    <2>2. /\ v.receipt = worker[w].receipt
          /\ v.pc = IF v.receipt = None THEN "borrowed" ELSE "working"
      BY WorkerFacts DEF WorkerRecord, AfterBorrow
    <2> HIDE DEF v
    <2> QED BY <1>1, <2>1, <2>2, WorkerFacts DEF Places, Holds, Careful, Unplaced, Searching
  <1>5. v.pc # "opening" /\ v.job = f /\ v.session = worker[w].session
    BY WorkerFacts DEF WorkerRecord, AfterBorrow
  <1>6. f = worker[w].path
    OBVIOUS
  <1> HIDE DEF v, f
  <1> QED BY <1>1, <1>2, <1>3, <1>4, <1>5, <1>6, WorkerOpened

\* The borrower removes its entry.
LEMMA BorrowFailsStep ==
    ASSUME OwnersInv, NEW w \in Worker, borrowFails(w)
    PROVE  OwnersInv'
  <1> DEFINE f == worker[w].path
             v == [worker[w] EXCEPT !.retain = FALSE, !.version = 0,
                        !.pc = IF worker[w].receipt = None THEN "probeEnd" ELSE "jobEnd"]
  <1>1. /\ f \in File /\ worker[w].pc = "opening" /\ openFails(f)
        /\ UNCHANGED <<complete, catalogCurrent, snapshot, server, service, drop, closing>>
    BY WorkerFacts, PathFacts DEF borrowFails, Unplaced, durable, releases
  <1>2. Served
    BY WorkerFacts, PathFacts
      DEF borrowFails, Unplaced, Served, OwnersInv, OwnersType, TypeOK, durable, queue
  <1>3. v \in WorkerRecord /\ worker' = [worker EXCEPT ![w] = v]
    BY <1>1, WorkerFacts DEF borrowFails, WorkerRecord, WorkerPcs
  <1>4. Places(w, v)
    BY <1>1, WorkerFacts DEF Places, WorkerRecord, Holds, Careful, Unplaced, Searching
  <1>5. v.pc # "opening" /\ v.job = worker[w].job /\ v.session = worker[w].session
    BY WorkerFacts DEF WorkerRecord
  <1>6. f = worker[w].path
    OBVIOUS
  <1> HIDE DEF v, f
  <1> QED BY <1>1, <1>2, <1>3, <1>4, <1>5, <1>6, WorkerOpenFails

\* The steps that end with ReleaseJob: a job that is over gives up its file.
LEMMA ReleaseJobStep ==
    ASSUME OwnersInv, NEW w \in Worker, worker[w].pc \in {"reading", "working", "jobDone"},
           NEW pc \in {"probeEnd", "closeFile", "jobEnd"}, ReleaseJob(w, pc), Served,
           pc = "probeEnd" => worker[w].pc = "reading",
           UNCHANGED <<complete, catalogCurrent, snapshot, server, service, drop>>
    PROVE  OwnersInv'
  <1> DEFINE v == [worker[w] EXCEPT !.pc = pc, !.job = None]
  <1>1. v \in WorkerRecord /\ worker' = [worker EXCEPT ![w] = v]
    <2>1. pc \in WorkerPcs /\ None \in Path
      BY DEF WorkerPcs, Path
    <2>2. v \in WorkerRecord
      BY <2>1, WorkerFacts DEF WorkerRecord
    <2> QED BY <2>2, WorkerFacts DEF ReleaseJob
  <1>2. worker[w].job \in File /\ release(w, worker[w].job)
    BY WorkerFacts DEF ReleaseJob, Places, Holds, Unplaced
  <1>3. /\ v.pc = pc /\ v.job = None /\ v.session = worker[w].session
        /\ v.path = worker[w].path /\ v.receipt = worker[w].receipt
        /\ v.retain = worker[w].retain
    BY WorkerFacts DEF WorkerRecord
  <1>4. Places(w, v)
    BY <1>3, WorkerFacts DEF Places, Holds, Careful, Unplaced, Searching
  <1> HIDE DEF v
  <1> QED BY <1>1, <1>2, <1>3, <1>4, WorkerReleasesJob

\* The four ends of a job give its reference back (recovery.go).
LEMMA EndJobOnFile ==
    ASSUME OwnersInv, NEW w \in Worker,
           endFile(w) \/ readFails(w) \/ finishJob(w) \/ workFails(w)
    PROVE  OwnersInv'
  <1>1. CASE endFile(w)
    <2>1. Served
      BY <1>1, WorkerFacts
        DEF endFile, Pending, Served, OwnersInv, OwnersType, TypeOK, durable
    <2> QED BY <1>1, <2>1, ReleaseJobStep DEF endFile, Holds, durable
  <1>2. CASE readFails(w)
    <2>1. Served
      BY <1>2, WorkerFacts, PathFacts
        DEF readFails, Unplaced, Served, OwnersInv, OwnersType, TypeOK, durable, queue
    <2> QED BY <1>2, <2>1, ReleaseJobStep DEF readFails, Holds, durable
  <1>3. CASE finishJob(w)
    <2>1. Served
      BY <1>3, WorkerFacts
        DEF finishJob, Served, OwnersInv, OwnersType, TypeOK, durable, queue
    <2> QED BY <1>3, <2>1, ReleaseJobStep DEF finishJob, Holds, durable
  <1>4. CASE workFails(w)
    <2>1. Served
      BY <1>4, WorkerFacts, PathFacts
        DEF workFails, Unplaced, Served, OwnersInv, OwnersType, TypeOK, durable, queue
    <2> QED BY <1>4, <2>1, ReleaseJobStep DEF workFails, Holds, durable
  <1> QED BY <1>1, <1>2, <1>3, <1>4

\* Only a retired file that is closed and has nothing pending is finalized.
LEMMA FinalizeFileStep ==
    ASSUME OwnersInv, NEW w \in Worker, finalizeFile(w)
    PROVE  OwnersInv'
  <1> DEFINE f == worker[w].path
             v == [worker[w] EXCEPT !.pc = IF worker[w].receipt = None THEN "probeEnd"
                                           ELSE "jobEnd"]
  <1>1. /\ f \in File /\ f <= catalogCurrent /\ worker[w].pc = "finalize"
        /\ UNCHANGED <<catalogCurrent, snapshot, server, service, drop, registry, closing, row>>
    BY WorkerFacts, PathFacts DEF finalizeFile, Unplaced, Places, releases
  <1>2. Served
    BY WorkerFacts, PathFacts
      DEF finalizeFile, Unplaced, Served, OwnersInv, OwnersType, TypeOK, queue
  <1>3. v \in WorkerRecord /\ worker' = [worker EXCEPT ![w] = v]
    BY <1>1, WorkerFacts DEF finalizeFile, AfterFinalize, step, WorkerRecord, WorkerPcs
  <1>4. Places(w, v)
    BY <1>1, WorkerFacts DEF Places, WorkerRecord, Holds, Careful, Unplaced, Searching
  <1>5. v.pc # "opening" /\ v.job = worker[w].job /\ v.session = worker[w].session
    BY WorkerFacts DEF WorkerRecord
  <1>6. FinalizedIsFinished'
    <2>1. complete' = complete \/ (complete' = complete \cup {f} /\ Finalizable(f))
      BY DEF finalizeFile
    <2>2. ASSUME Finalizable(f) PROVE f < snapshot
      <3>1. f # catalogCurrent /\ handles[f] = 0
        BY <2>2 DEF Finalizable
      <3>2. snapshot \in File /\ handles[snapshot] = 1
        BY WorkerFacts, SnapshotOpen
      <3>3. f # snapshot /\ catalogCurrent <= snapshot + 1
        BY <3>1, <3>2 DEF OwnersInv, Rotation
      <3>4. f \in Nat /\ snapshot \in Nat /\ catalogCurrent \in Nat
        BY <1>1, <3>2, WorkerFacts, NamesFacts
      <3> HIDE DEF f
      <3> QED BY <1>1, <3>1, <3>3, <3>4
    <2>3. \A g \in complete : g < snapshot /\ handles[g] = 0 /\ Pending(g) = {}
      BY DEF OwnersInv, FinalizedIsFinished
    <2>4. \A g : Pending(g)' = Pending(g)
      BY <1>1 DEF Pending
    <2>5. snapshot' = snapshot /\ handles' = handles
      BY <1>1 DEF registry
    <2> HIDE DEF f
    <2> QED BY <2>1, <2>2, <2>3, <2>4, <2>5 DEF FinalizedIsFinished, Finalizable
  <1>7. complete' \subseteq File
    BY <1>1 DEF finalizeFile, OwnersInv, OwnersType, TypeOK
  <1> HIDE DEF v, f
  <1> QED BY <1>1, <1>2, <1>3, <1>4, <1>5, <1>6, <1>7, WorkerKeeps, WorkerLeaves

----------------------------------------------------------------------------
(* Sessions that are taken away.                                             *)

\* The references pass from the sessions to the agent that drops them.
LEMMA SessionsMoved ==
    ASSUME OwnersInv, NEW a \in Agent, NEW W \in SUBSET Worker, NEW workers,
           TakeSessions(a, W, workers), UNCHANGED <<registry, snapshot>>,
           \A x \in Worker : /\ workers[x] \in WorkerRecord
                             /\ workers[x].session = worker[x].session
                             /\ workers[x].job = worker[x].job
                             /\ drop[a][x] = None,
           \A kind \in {"new", "old"} : Held(kind, Server, Server)' = Held(kind, Server, Server)
    PROVE  Counted'
  <1> DEFINE mu(h) == IF h[1] = "session" /\ h[2] = h[3] /\ h[2] \in W
                      THEN <<"drop", a, h[2]>>
                      ELSE IF h[1] = "drop" /\ h[2] = a /\ h[3] \in W
                      THEN <<"session", h[3], h[3]>> ELSE h
             pi == [h \in Holding |-> mu(h)]
  <1>1. Worker \subseteq Agent /\ Server \in Agent /\ Server \notin Worker
    BY OwnersAssumption DEF Agent
  <1>2. /\ \A x \in Worker : /\ worker'[x].job = worker[x].job
                             /\ worker'[x].session = IF x \in W THEN None ELSE worker[x].session
                             /\ drop'[a][x] = IF x \in W THEN worker[x].session ELSE None
        /\ \A b \in Agent \ {a}, x \in Worker : drop'[b][x] = drop[b][x]
    BY DEF TakeSessions, OwnersInv, OwnersType, TypeOK, WorkerRecord
  <1>3. ASSUME NEW h \in Holding PROVE mu(h) \in Holding /\ mu(mu(h)) = h
    BY <1>1 DEF Holding, Kind
  <1>4. ASSUME NEW kind \in Kind, NEW b \in Agent, NEW c \in Agent
        PROVE  held'[<<kind, b, c>>] = held[mu(<<kind, b, c>>)]
    <2>1. CASE kind = "session" /\ b = c /\ b \in W
      <3>1. mu(<<kind, b, c>>) = <<"drop", a, b>>
        BY <2>1
      <3>2. held[<<"drop", a, b>>] = drop[a][b] /\ held'[<<kind, b, c>>] = worker'[b].session
        BY <1>1, <2>1, HeldAt DEF Held, Kind
      <3> QED BY <1>1, <1>2, <2>1, <3>1, <3>2
    <2>2. CASE kind = "drop" /\ b = a /\ c \in W
      <3>1. mu(<<kind, b, c>>) = <<"session", c, c>>
        BY <2>2
      <3>2. held[<<"session", c, c>>] = worker[c].session /\ held'[<<kind, b, c>>] = drop'[a][c]
        BY <1>1, <2>2, HeldAt DEF Held, Kind
      <3> QED BY <1>1, <1>2, <2>2, <3>1, <3>2
    <2>3. CASE ~(kind = "session" /\ b = c /\ b \in W) /\ ~(kind = "drop" /\ b = a /\ c \in W)
      <3>1. mu(<<kind, b, c>>) = <<kind, b, c>>
        BY <2>3
      <3>2. Held(kind, b, c)' = Held(kind, b, c)
        BY <1>1, <1>2, <2>3 DEF Held, Kind
      <3> QED BY <3>1, <3>2, HeldAt
    <2> QED BY <2>1, <2>2, <2>3
  <1>5. ASSUME NEW h \in Holding PROVE held'[h] = held[mu(h)]
    <2>1. h[1] \in Kind /\ h[2] \in Agent /\ h[3] \in Agent /\ h = <<h[1], h[2], h[3]>>
      BY DEF Holding
    <2> HIDE DEF mu
    <2> QED BY <1>4, <2>1
  <1> HIDE DEF mu
  <1>6. pi \in [Holding -> Holding]
    BY <1>3
  <1>7. \A h \in Holding : pi[pi[h]] = h /\ held'[h] = held[pi[h]]
    BY <1>3, <1>5
  <1> HIDE DEF pi
  <1> QED BY <1>6, <1>7, CountedMoved DEF OwnersInv

\* Taking sessions keeps the types of workers and drops.
LEMMA TakenTypes ==
    ASSUME OwnersInv, NEW a \in Agent, NEW W \in SUBSET Worker,
           NEW workers \in [Worker -> WorkerRecord], TakeSessions(a, W, workers)
    PROVE  /\ worker' \in [Worker -> WorkerRecord]
           /\ drop' \in [Agent -> [Worker -> Path]]
  <1>1. \A x \in Worker :
           worker'[x] = IF x \in W THEN [workers[x] EXCEPT !.session = None] ELSE workers[x]
    BY DEF TakeSessions
  <1>2. \A x \in Worker : worker'[x] \in WorkerRecord
    <2>1. None \in Path
      BY DEF Path
    <2> QED BY <1>1, <2>1 DEF WorkerRecord
  <1>3. worker' \in [Worker -> WorkerRecord]
    BY <1>2 DEF TakeSessions
  <1>4. drop \in [Agent -> [Worker -> Path]]
    BY DEF OwnersInv, OwnersType, TypeOK, Path
  <1>5. [x \in Worker |-> IF x \in W THEN workers[x].session ELSE None] \in [Worker -> Path]
    BY DEF WorkerRecord, Path
  <1> QED BY <1>3, <1>4, <1>5 DEF TakeSessions

\* A session that goes leaves a worker in its place.
LEMMA PlacesWithout ==
    ASSUME NEW w \in Worker, NEW v \in WorkerRecord, Places(w, v)
    PROVE  Places(w, [v EXCEPT !.session = None])
  <1> DEFINE u == [v EXCEPT !.session = None]
  <1>1. /\ u.pc = v.pc /\ u.path = v.path /\ u.receipt = v.receipt /\ u.job = v.job
        /\ u.retain = v.retain /\ u.version = v.version /\ u.session = None
    BY DEF WorkerRecord
  <1> HIDE DEF u
  <1>2. Places(w, u)
    BY <1>1, NamesFacts DEF Places, Unplaced
  <1> QED BY <1>2 DEF u

\* A worker that takes sessions, its own or idle ones, and goes on as v.
LEMMA WorkerTakes ==
    ASSUME OwnersInv, NEW w \in Worker, NEW v \in WorkerRecord, NEW W \in SUBSET Worker,
           TakeSessions(w, W, [worker EXCEPT ![w] = v]), Served,
           \A x \in Worker : drop[w][x] = None,
           v.session = worker[w].session, v.job = worker[w].job,
           v.pc \notin {"opening", "probe", "selected", "event"},
           Places(w, IF w \in W THEN [v EXCEPT !.session = None] ELSE v),
           UNCHANGED <<registry, complete, catalogCurrent, snapshot, server, service, closing>>
    PROVE  OwnersInv'
  <1> DEFINE workers == [worker EXCEPT ![w] = v]
  <1>1. /\ workers \in [Worker -> WorkerRecord]
        /\ workers[w] = v /\ \A x \in Worker \ {w} : workers[x] = worker[x]
    BY WorkerFacts
  <1>2. TakeSessions(w, W, workers)
    OBVIOUS
  <1> HIDE DEF workers
  <1>3. /\ worker' \in [Worker -> WorkerRecord] /\ drop' \in [Agent -> [Worker -> Path]]
        /\ \A x \in Worker :
              worker'[x] = IF x \in W THEN [workers[x] EXCEPT !.session = None] ELSE workers[x]
    <2>1. w \in Agent
      BY WorkerFacts
    <2>2. worker' \in [Worker -> WorkerRecord] /\ drop' \in [Agent -> [Worker -> Path]]
      BY <1>1, <1>2, <2>1, TakenTypes
    <2>3. \A x \in Worker :
              worker'[x] = IF x \in W THEN [workers[x] EXCEPT !.session = None] ELSE workers[x]
      BY <1>2 DEF TakeSessions
    <2> QED BY <2>2, <2>3
  <1>4. TypeOK'
    <2>1. /\ entry' \in [File -> {"absent", "opening", "open", "closing"}]
          /\ references' \in [File -> Nat] /\ handles' \in [File -> Nat]
          /\ closing' \in [Agent -> File \cup {None}]
      BY DEF registry, OwnersInv, OwnersType, TypeOK
    <2>2. /\ complete' \subseteq File /\ due' \subseteq File
          /\ catalogCurrent' \in File /\ snapshot' \in File
          /\ transition' \in BOOLEAN /\ cacheVersion' \in Nat /\ probing' \in BOOLEAN
          /\ events' \subseteq Receipt /\ revisit' \subseteq Receipt
      BY WorkerFacts DEF Served, service, OwnersInv, OwnersType, TypeOK
    <2>3. /\ row' \in [Receipt -> {"absent", "pending", "done"}]
          /\ server' \in [pc : {"idle", "begun", "borrowing", "opening", "borrowed",
                                "published", "closed", "ending"},
                          file : File \cup {None}, old : File \cup {None}]
      BY DEF Served, OwnersInv, OwnersType, TypeOK
    <2>4. \A x \in Worker :
             /\ worker'[x].path \in File \cup {None} /\ worker'[x].session \in File \cup {None}
             /\ worker'[x].job \in File \cup {None} /\ worker'[x].receipt \in Receipt \cup {None}
      BY <1>3 DEF WorkerRecord, Path
    <2> QED BY <1>3, <2>1, <2>2, <2>3, <2>4 DEF TypeOK, Path
  <1>5. Counted'
    <2>1. \A x \in Worker : /\ workers[x] \in WorkerRecord
                            /\ workers[x].session = worker[x].session
                            /\ workers[x].job = worker[x].job
      BY <1>1
    <2>2. \A kind \in {"new", "old"} : Held(kind, Server, Server)' = Held(kind, Server, Server)
      BY OwnersAssumption DEF Held
    <2> QED BY <1>2, <2>1, <2>2, WorkerFacts, SessionsMoved
  <1>6. Exclusive'
    <2>1. \A x \in Worker : worker'[x].pc = workers[x].pc /\ worker'[x].path = workers[x].path
      BY <1>1, <1>3 DEF WorkerRecord
    <2>2. \A a \in Agent : Opening(a)' \in {Opening(a), None}
      BY <1>1, <2>1, WorkerFacts DEF Opening, Agent
    <2> QED BY <2>2 DEF OwnersInv, Exclusive, registry
  <1>7. InPlace'
    <2>1. ASSUME NEW x \in Worker PROVE Places(x, worker'[x])
      <3>1. CASE x = w
        BY <1>1, <1>3, <3>1
      <3>2. CASE x # w
        <4>1. workers[x] = worker[x] /\ worker[x] \in WorkerRecord /\ Places(x, worker[x])
          BY <1>1, <3>2, WorkerFacts
        <4>2. Places(x, [worker[x] EXCEPT !.session = None])
          BY <4>1, PlacesWithout
        <4> QED BY <1>3, <4>1, <4>2
      <3> QED BY <3>1, <3>2
    <2>2. /\ \A x \in Worker \ {w} : drop'[x] = drop[x]
          /\ worker'[w].pc = v.pc
      BY <1>1, <1>3, WorkerFacts
        DEF TakeSessions, OwnersInv, OwnersType, TypeOK, WorkerRecord
    <2> QED BY <2>1, <2>2 DEF InPlace, Places, service
  <1>8. Queues' /\ Rotation'
    <2>1. drop'[Server] = drop[Server]
      BY WorkerFacts DEF TakeSessions, OwnersInv, OwnersType, TypeOK
    <2> QED BY <2>1 DEF OwnersInv, Queues, Rotation, Served, service
  <1>9. FinalizedIsFinished'
    BY DEF OwnersInv, FinalizedIsFinished, Served, Pending, registry
  <1> QED BY <1>3, <1>4, <1>5, <1>6, <1>7, <1>8, <1>9 DEF OwnersInv, OwnersType

\* A worker that has nothing left to do gives up its session.
LEMMA EndWorkStep ==
    ASSUME OwnersInv, NEW w \in Worker, endWork(w)
    PROVE  OwnersInv'
  <1> DEFINE v == [worker[w] EXCEPT !.pc = "idle", !.path = None]
             W == {x \in {w} : worker[x].session # None}
  <1>1. /\ v \in WorkerRecord /\ W \in SUBSET Worker
        /\ v.pc = "idle" /\ v.path = None /\ v.session = worker[w].session
        /\ v.job = worker[w].job /\ v.receipt = worker[w].receipt /\ v.retain = worker[w].retain
    BY WorkerFacts DEF WorkerRecord, WorkerPcs, Path
  <1>2. /\ TakeSessions(w, W, [worker EXCEPT ![w] = v]) /\ worker[w].pc = "next"
        /\ \A x \in Worker : drop[w][x] = None
        /\ UNCHANGED <<registry, complete, catalogCurrent, snapshot, server, service, closing>>
    <2>1. [worker EXCEPT ![w].pc = "idle", ![w].path = None] = [worker EXCEPT ![w] = v]
      BY WorkerFacts DEF WorkerRecord
    <2>2. TakeSessions(w, W, [worker EXCEPT ![w].pc = "idle", ![w].path = None])
      BY DEF endWork
    <2>3. TakeSessions(w, W, [worker EXCEPT ![w] = v])
      BY <2>1, <2>2
    <2> QED BY <2>3 DEF endWork, Released, durable
  <1>3. Served
    BY WorkerFacts DEF endWork, Served, OwnersInv, OwnersType, TypeOK, durable, queue
  <1> HIDE DEF v, W
  <1>4. Places(w, v)
    BY <1>1, <1>2, WorkerFacts, NamesFacts
      DEF Places, Holds, Careful, Unplaced, Searching, File, None
  <1>5. Places(w, [v EXCEPT !.session = None])
    BY <1>1, <1>4, PlacesWithout
  <1> QED BY <1>1, <1>2, <1>3, <1>4, <1>5, WorkerTakes

\* A worker keeps a session while it works on another file only if that is the
\* current one and no transition has begun.
LEMMA PrepareStep ==
    ASSUME OwnersInv, NEW w \in Worker, NEW recoveryPending \in BOOLEAN,
           prepare(w, recoveryPending)
    PROVE  OwnersInv'
  <1> DEFINE v == [worker[w] EXCEPT !.pc = IF worker[w].pc = "event" THEN "eventPrepared"
                                           ELSE "prepared"]
             W == prepareReleases(w, recoveryPending)
  <1>1. /\ v \in WorkerRecord /\ W \in SUBSET Worker
        /\ v.path = worker[w].path /\ v.session = worker[w].session
        /\ v.job = worker[w].job /\ v.receipt = worker[w].receipt /\ v.retain = worker[w].retain
        /\ v.pc = IF worker[w].pc = "event" THEN "eventPrepared" ELSE "prepared"
    BY WorkerFacts DEF WorkerRecord, WorkerPcs, prepareReleases
  <1>2. /\ TakeSessions(w, W, [worker EXCEPT ![w] = v])
        /\ worker[w].pc \in {"selected", "event"}
        /\ \A x \in Worker : drop[w][x] = None
        /\ UNCHANGED <<registry, complete, catalogCurrent, snapshot, server, service, closing>>
    BY WorkerFacts DEF prepare, Places, durable, TakeSessions
  <1>3. Served
    BY WorkerFacts DEF prepare, Served, OwnersInv, OwnersType, TypeOK, durable, queue
  <1>4. ASSUME w \notin W, v.session # None
        PROVE  ~transition /\ (v.path = snapshot \/ v.session = v.path)
    BY <1>1, <1>4 DEF prepareReleases, currentFile
  <1> HIDE DEF v, W
  <1>5. CASE w \notin W
    <2>1. Places(w, v)
      BY <1>1, <1>2, <1>4, <1>5, WorkerFacts DEF Places, Holds, Careful, Unplaced, Searching
    <2> QED BY <1>1, <1>2, <1>3, <1>5, <2>1, WorkerTakes
  <1>6. CASE w \in W
    <2> DEFINE u == [v EXCEPT !.session = None]
    <2>1. /\ u.path = worker[w].path /\ u.session = None /\ u.pc = v.pc
          /\ u.job = worker[w].job /\ u.receipt = worker[w].receipt /\ u.retain = worker[w].retain
      BY <1>1 DEF WorkerRecord
    <2> HIDE DEF u
    <2>2. Places(w, u)
      BY <1>1, <1>2, <2>1, WorkerFacts DEF Places, Holds, Careful, Unplaced, Searching
    <2> USE DEF u
    <2> QED BY <1>1, <1>2, <1>3, <1>6, <2>2, WorkerTakes
  <1> QED BY <1>5, <1>6

\* A worker whose own session is on the file to be finalized gives it up.
LEMMA CloseFileStep ==
    ASSUME OwnersInv, NEW w \in Worker, closeFile(w)
    PROVE  OwnersInv'
  <1> DEFINE v == [worker[w] EXCEPT !.pc = "idleOwners"]
             W == {x \in {w} : worker[x].session = worker[x].path}
  <1>1. /\ v \in WorkerRecord /\ W \in SUBSET Worker
        /\ v.pc = "idleOwners" /\ v.path = worker[w].path /\ v.session = worker[w].session
        /\ v.job = worker[w].job /\ v.receipt = worker[w].receipt /\ v.retain = worker[w].retain
    BY WorkerFacts DEF WorkerRecord, WorkerPcs
  <1>2. /\ TakeSessions(w, W, [worker EXCEPT ![w] = v]) /\ worker[w].pc = "closeFile"
        /\ \A x \in Worker : drop[w][x] = None
        /\ UNCHANGED <<registry, complete, catalogCurrent, snapshot, server, service, closing>>
    BY WorkerFacts DEF closeFile, Released, durable, TakeSessions
  <1>3. Served
    BY WorkerFacts DEF closeFile, Served, OwnersInv, OwnersType, TypeOK, durable, queue
  <1> HIDE DEF v, W
  <1>4. Places(w, v)
    BY <1>1, <1>2, WorkerFacts DEF Places, Holds, Careful, Unplaced, Searching
  <1>5. Places(w, [v EXCEPT !.session = None])
    BY <1>1, <1>4, PlacesWithout
  <1> QED BY <1>1, <1>2, <1>3, <1>4, <1>5, WorkerTakes

\* So do the workers that have a session on that file and work elsewhere.
LEMMA ReleaseIdleFileOwnersStep ==
    ASSUME OwnersInv, NEW w \in Worker, releaseIdleFileOwners(w)
    PROVE  OwnersInv'
  <1> DEFINE v == [worker[w] EXCEPT !.pc = "finalize"]
             W == {x \in Worker : /\ worker[x].session = worker[w].path
                                  /\ worker[x].path # worker[w].path}
  <1>1. /\ v \in WorkerRecord /\ W \in SUBSET Worker
        /\ v.pc = "finalize" /\ v.path = worker[w].path /\ v.session = worker[w].session
        /\ v.job = worker[w].job /\ v.receipt = worker[w].receipt /\ v.retain = worker[w].retain
    BY WorkerFacts DEF WorkerRecord, WorkerPcs
  <1>2. /\ TakeSessions(w, W, [worker EXCEPT ![w] = v]) /\ worker[w].pc = "idleOwners"
        /\ \A x \in Worker : drop[w][x] = None
        /\ UNCHANGED <<registry, complete, catalogCurrent, snapshot, server, service, closing>>
    BY WorkerFacts DEF releaseIdleFileOwners, Released, durable, TakeSessions
  <1>3. Served
    BY WorkerFacts
      DEF releaseIdleFileOwners, Served, OwnersInv, OwnersType, TypeOK, durable, queue
  <1> HIDE DEF v, W
  <1>4. Places(w, v)
    BY <1>1, <1>2, WorkerFacts DEF Places, Holds, Careful, Unplaced, Searching
  <1>5. Places(w, [v EXCEPT !.session = None])
    BY <1>1, <1>4, PlacesWithout
  <1> QED BY <1>1, <1>2, <1>3, <1>4, <1>5, WorkerTakes

----------------------------------------------------------------------------
(* References that are released, and the server.                             *)

\* What the invariant says of the server.
LEMMA ServerFacts ==
    ASSUME OwnersInv
    PROVE  /\ Server \in Agent /\ Server \notin Worker /\ Worker \subseteq Agent
           /\ server \in [pc : {"idle", "begun", "borrowing", "opening", "borrowed",
                                "published", "closed", "ending"}, file : Path, old : Path]
           /\ catalogCurrent \in File /\ snapshot \in File /\ 1 .. catalogCurrent \subseteq File
           /\ catalogCurrent \in Nat /\ snapshot \in Nat /\ snapshot \in 1 .. catalogCurrent
           /\ transition \in BOOLEAN /\ cacheVersion \in Nat
  BY OwnersAssumption, NamesFacts
  DEF OwnersInv, OwnersType, TypeOK, Agent, Rotation, File, Path

\* The handle is closed by the one agent that made the entry pending.
LEMMA CloseHandleStep ==
    ASSUME OwnersInv, NEW a \in Agent, closeHandle(a)
    PROVE  OwnersInv'
  <1> DEFINE f == closing[a]
  <1>1. /\ OwnersType /\ Counted /\ Exclusive
        /\ f # None /\ f \in File /\ entry[f] = "closing" /\ handles[f] = 1
    <2>1. OwnersType /\ Counted /\ Exclusive
      BY DEF OwnersInv
    <2>2. f # None /\ f \in File
      BY <2>1, OpeningIsFile DEF closeHandle
    <2>3. entry[f] = "closing"
      BY <2>1, <2>2 DEF Exclusive
    <2> QED BY <2>1, <2>2, <2>3 DEF Counted
  <1> HIDE DEF f
  <1>2. /\ entry' = [entry EXCEPT ![f] = "absent"] /\ handles' = [handles EXCEPT ![f] = 0]
        /\ closing' = [closing EXCEPT ![a] = None]
        /\ UNCHANGED <<references, complete, catalogCurrent, row, snapshot, server, transition,
                       cacheVersion, probing, due, events, revisit, worker, drop>>
    BY <1>1 DEF closeHandle, durable, service, queue, f, OwnersType, TypeOK
  <1>3. OwnersType'
    BY <1>1, <1>2 DEF OwnersType, TypeOK
  <1>4. Counted'
    <2>1. HeldSame
      BY <1>2 DEF HeldSame, held, Held
    <2>2. closeHandle(a) /\ entry[closing[a]] = "closing"
      BY <1>1 DEF f
    <2> QED BY <1>1, <2>1, <2>2, CountedClose
  <1>5. Exclusive'
    <2>1. \A b \in Agent : Opening(b)' = Opening(b)
      BY <1>2 DEF Opening
    <2>2. \A b \in Agent : Opening(b) # f /\ (b # a => closing[b] # f)
      BY <1>1, OpeningIsFile DEF Exclusive, f
    <2>3. /\ \A g \in File \ {f} : entry'[g] = entry[g]
          /\ closing'[a] = None /\ \A b \in Agent \ {a} : closing'[b] = closing[b]
      BY <1>1, <1>2 DEF OwnersType, TypeOK
    <2> QED BY <1>1, <2>1, <2>2, <2>3, OpeningIsFile DEF Exclusive
  <1>6. InPlace' /\ Queues' /\ Rotation'
    BY <1>2 DEF OwnersInv, InPlace, Places, Queues, Rotation
  <1>7. FinalizedIsFinished'
    BY <1>1, <1>2 DEF OwnersInv, OwnersType, TypeOK, FinalizedIsFinished, Pending
  <1> QED BY <1>3, <1>4, <1>5, <1>6, <1>7 DEF OwnersInv

\* A reference taken out of a session is given back.
LEMMA ReleaseSessionOwnerStep ==
    ASSUME OwnersInv, NEW a \in Agent, NEW w \in Worker, releaseSessionOwner(a, w)
    PROVE  OwnersInv'
  <1> DEFINE f == drop[a][w]
             h == <<"drop", a, w>>
  <1>1. OwnersType /\ Counted /\ Exclusive /\ f \in File /\ release(a, f)
    BY NamesFacts DEF OwnersInv, OwnersType, TypeOK, releaseSessionOwner, Path
  <1>2. h \in Holding /\ held[h] = f
    BY ServerFacts DEF Holding, Kind, held, Held
  <1>3. entry[f] = "open" /\ references[f] \in Nat \ {0} /\ handles[f] = 1
    BY <1>1, <1>2, HeldIsOpen
  <1>4. /\ drop' = [drop EXCEPT ![a][w] = None]
        /\ UNCHANGED <<complete, catalogCurrent, row, snapshot, server, transition,
                       cacheVersion, probing, due, events, revisit, worker>>
    BY DEF releaseSessionOwner, durable, service, queue
  <1>5. HeldPut(h, None)
    <2>1. /\ drop'[a][w] = None
          /\ \A b \in Agent, x \in Worker : <<b, x>> # <<a, w>> => drop'[b][x] = drop[b][x]
      BY <1>1, <1>4 DEF OwnersType, TypeOK
    <2>2. held'[h] = None
      BY <1>2, <2>1, ServerFacts DEF held, Held
    <2>3. ASSUME NEW kind \in Kind, NEW b \in Agent, NEW c \in Agent, <<kind, b, c>> # h
          PROVE  Held(kind, b, c)' = Held(kind, b, c)
      BY <1>4, <2>1, <2>3 DEF Held
    <2>4. ASSUME NEW k \in Holding, k # h PROVE held'[k] = held[k]
      <3>1. k[1] \in Kind /\ k[2] \in Agent /\ k[3] \in Agent /\ k = <<k[1], k[2], k[3]>>
        BY DEF Holding
      <3>2. held[k] = Held(k[1], k[2], k[3]) /\ held'[k] = Held(k[1], k[2], k[3])'
        BY DEF held
      <3> HIDE DEF h
      <3> QED BY <2>3, <2>4, <3>1, <3>2
    <2> QED BY <1>2, <2>2, <2>4 DEF HeldPut
  <1> HIDE DEF f, h
  <1>6. Counted'
    BY <1>1, <1>2, <1>5, CountedRelease
  <1>7. Exclusive'
    <2>1. \A b \in Agent : Opening(b)' = Opening(b)
      BY <1>4 DEF Opening
    <2> QED BY <1>1, <1>3, <2>1, ExclusiveRelease
  <1>8. OwnersType' /\ handles' = handles
    <2>1. /\ entry' \in [File -> {"absent", "opening", "open", "closing"}]
          /\ references' \in [File -> Nat] /\ handles' = handles
          /\ closing' \in [Agent -> File \cup {None}]
      BY <1>1, <1>3, ReleaseTypes DEF registry
    <2>2. drop' \in [Agent -> [Worker -> File \cup {None}]]
      BY <1>1, <1>4 DEF OwnersType, TypeOK
    <2> QED BY <1>1, <1>4, <2>1, <2>2 DEF OwnersType, TypeOK
  <1>9. InPlace' /\ Queues' /\ Rotation'
    <2>1. \A b \in Agent, x \in Worker : drop'[b][x] \in {drop[b][x], None}
      BY <1>1, <1>4 DEF OwnersType, TypeOK
    <2> QED BY <1>4, <2>1, ServerFacts DEF OwnersInv, InPlace, Places, Queues, Rotation
  <1>10. FinalizedIsFinished'
    BY <1>4, <1>8 DEF OwnersInv, FinalizedIsFinished, Pending
  <1> QED BY <1>6, <1>7, <1>8, <1>9, <1>10 DEF OwnersInv

ServerRecord == [pc : {"idle", "begun", "borrowing", "opening", "borrowed",
                       "published", "closed", "ending"}, file : Path, old : Path]

\* What the server holds beside the snapshot, before and after a step.
LEMMA ServerHolds ==
    ASSUME OwnersInv, UNCHANGED <<worker, drop, snapshot>>,
           NEW kind \in {"new", "old"},
           \A other \in {"new", "old"} \ {kind} :
              Held(other, Server, Server)' = Held(other, Server, Server)
    PROVE  /\ <<kind, Server, Server>> \in Holding
           /\ held[<<kind, Server, Server>>] = Held(kind, Server, Server)
           /\ HeldPut(<<kind, Server, Server>>, Held(kind, Server, Server)')
  <1> DEFINE h == <<kind, Server, Server>>
  <1>1. h \in Holding /\ held[h] = Held(kind, Server, Server)
        /\ held'[h] = Held(kind, Server, Server)'
    BY ServerFacts, HeldAt DEF Kind
  <1>2. ASSUME NEW k \in Kind, NEW a \in Agent, NEW b \in Agent, <<k, a, b>> # h
        PROVE  Held(k, a, b)' = Held(k, a, b)
    BY <1>2, ServerFacts DEF Held, Kind
  <1>3. ASSUME NEW k \in Holding, k # h PROVE held'[k] = held[k]
    <2>1. k[1] \in Kind /\ k[2] \in Agent /\ k[3] \in Agent /\ k = <<k[1], k[2], k[3]>>
      BY DEF Holding
    <2>2. held[k] = Held(k[1], k[2], k[3]) /\ held'[k] = Held(k[1], k[2], k[3])'
      BY DEF held
    <2> HIDE DEF h
    <2> QED BY <1>2, <1>3, <2>1, <2>2
  <1> QED BY <1>1, <1>3 DEF HeldPut

\* What is left to show of a step of the server that leaves the snapshot.
LEMMA ServerMoves ==
    ASSUME OwnersInv, server' \in ServerRecord, transition' \in BOOLEAN,
           UNCHANGED <<worker, drop, row, complete, catalogCurrent, snapshot, cacheVersion,
                       probing, events, revisit>>,
           transition' => transition, due' \subseteq 1 .. catalogCurrent,
           transition' # transition => \A w \in Worker : worker[w].retain =>
                                          worker[w].version < cacheVersion,
           registry' \in [File -> {"absent", "opening", "open", "closing"}]
                           \X [File -> Nat] \X [File -> Nat],
           closing' \in [Agent -> File \cup {None}],
           Counted', Exclusive', Rotation', \A f \in complete : handles'[f] = 0
    PROVE  OwnersInv'
  <1>1. OwnersType'
    <2>1. /\ entry' \in [File -> {"absent", "opening", "open", "closing"}]
          /\ references' \in [File -> Nat] /\ handles' \in [File -> Nat]
      BY DEF registry
    <2>2. server' \in [pc : {"idle", "begun", "borrowing", "opening", "borrowed",
                         "published", "closed", "ending"},
                       file : File \cup {None}, old : File \cup {None}]
      BY DEF ServerRecord, Path
    <2>3. due' \subseteq File
      BY ServerFacts
    <2> QED BY <2>1, <2>2, <2>3 DEF OwnersInv, OwnersType, TypeOK
  <1>2. InPlace'
    <2>1. ASSUME NEW w \in Worker PROVE Places(w, worker[w])'
      BY WorkerFacts DEF Places
    <2> QED BY <2>1 DEF InPlace
  <1>3. Queues'
    BY DEF OwnersInv, Queues
  <1>4. FinalizedIsFinished'
    BY DEF OwnersInv, FinalizedIsFinished, Pending
  <1> QED BY <1>1, <1>2, <1>3, <1>4 DEF OwnersInv

\* A step of the server that opens, shares and releases nothing.
LEMMA ServerQuiet ==
    ASSUME OwnersInv, UNCHANGED <<worker, drop, snapshot, registry, closing>>,
           server.pc # "borrowed" /\ server'.pc # "borrowed",
           server.pc # "published" /\ server'.pc # "published",
           server'.pc # "opening"
    PROVE  /\ Counted' /\ Exclusive' /\ \A f \in complete : handles'[f] = 0
           /\ registry' \in [File -> {"absent", "opening", "open", "closing"}]
                              \X [File -> Nat] \X [File -> Nat]
           /\ closing' \in [Agent -> File \cup {None}]
  <1>1. HeldSame
    BY DEF HeldSame, held, Held
  <1>2. Counted'
    BY <1>1, CountedQuiet DEF OwnersInv
  <1>3. \A a \in Agent : Opening(a)' \in {Opening(a), None}
    BY DEF Opening
  <1>4. Exclusive'
    BY <1>3 DEF OwnersInv, Exclusive, registry
  <1> QED BY <1>2, <1>4 DEF OwnersInv, OwnersType, TypeOK, registry, FinalizedIsFinished

\* The catalog could not rotate.
LEMMA EnsureFailsStep ==
    ASSUME OwnersInv, ensureFails PROVE OwnersInv'
  <1>1. /\ server' = [server EXCEPT !.pc = "ending"] /\ server.pc = "begun"
        /\ \A x \in Worker : drop[Server][x] = None
        /\ UNCHANGED <<registry, complete, row, catalogCurrent, snapshot, transition,
                       cacheVersion, probing, due, events, revisit, worker, drop, closing>>
    BY DEF ensureFails, Released, durable, service, queue, releases
  <1>2. server' \in ServerRecord /\ server'.pc = "ending"
    BY <1>1, ServerFacts DEF ServerRecord
  <1>3. Rotation'
    BY <1>1, <1>2 DEF OwnersInv, Rotation
  <1> QED BY <1>1, <1>2, <1>3, ServerFacts, ServerQuiet, ServerMoves DEF OwnersInv, Queues

\* The new current file is announced to the workers.
LEMMA StorageChangedStep ==
    ASSUME OwnersInv, storageChanged PROVE OwnersInv'
  <1>1. /\ server' = [server EXCEPT !.pc = "ending"] /\ server.pc = "closed"
        /\ due' = due \cup {snapshot} \cup mark(server.old)
        /\ UNCHANGED <<registry, complete, row, catalogCurrent, snapshot, transition,
                       cacheVersion, probing, events, revisit, worker, drop, closing>>
    BY DEF storageChanged, durable, service, queue, releases
  <1>2. server' \in ServerRecord /\ server'.pc = "ending"
    BY <1>1, ServerFacts DEF ServerRecord
  <1>3. Rotation'
    BY <1>1, <1>2 DEF OwnersInv, Rotation
  <1>4. due' \subseteq 1 .. catalogCurrent
    BY <1>1, ServerFacts DEF OwnersInv, Queues, mark, currentFile
  <1> QED BY <1>1, <1>2, <1>3, <1>4, ServerFacts, ServerQuiet, ServerMoves

\* The transition ends.
LEMMA EndTransitionStep ==
    ASSUME OwnersInv, endRecoveryTransition PROVE OwnersInv'
  <1>1. /\ server' = IdleServer /\ server.pc = "ending" /\ transition' = FALSE
        /\ \A x \in Worker : drop[Server][x] = None
        /\ UNCHANGED <<registry, complete, row, catalogCurrent, snapshot,
                       cacheVersion, probing, due, events, revisit, worker, drop, closing>>
    BY DEF endRecoveryTransition, Released, durable, queue, releases
  <1>2. server' \in ServerRecord /\ server'.pc = "idle"
    BY <1>1 DEF ServerRecord, IdleServer, Path
  <1>3. Rotation'
    BY <1>1, <1>2 DEF OwnersInv, Rotation
  <1>4. due' \subseteq 1 .. catalogCurrent
    BY <1>1 DEF OwnersInv, Queues
  <1>5. transition' # transition => \A w \in Worker : worker[w].retain =>
                                       worker[w].version < cacheVersion
    BY <1>1, WorkerFacts DEF Places
  <1> QED BY <1>1, <1>2, <1>3, <1>4, <1>5, ServerQuiet, ServerMoves

\* A reload begins a replacement of the snapshot.
LEMMA ReloadStep ==
    ASSUME OwnersInv, reload PROVE OwnersInv'
  <1>1. /\ server' = [IdleServer EXCEPT !.pc = "borrowing", !.file = snapshot]
        /\ server.pc = "idle" /\ catalogCurrent = snapshot
        /\ UNCHANGED <<registry, complete, row, catalogCurrent, snapshot, transition,
                       cacheVersion, probing, due, events, revisit, worker, drop, closing>>
    BY DEF reload, durable, service, queue, releases
  <1>2. server' \in ServerRecord /\ server'.pc = "borrowing" /\ server'.file = snapshot
    BY <1>1, ServerFacts DEF ServerRecord, IdleServer, Path
  <1>3. Rotation'
    BY <1>1, <1>2, ServerFacts DEF OwnersInv, Rotation
  <1> QED BY <1>1, <1>2, <1>3, ServerFacts, ServerQuiet, ServerMoves DEF OwnersInv, Queues

\* The catalog assigns receipts to the new file; the snapshot follows later.
LEMMA EnsureCurrentStep ==
    ASSUME OwnersInv, ensureCurrent PROVE OwnersInv'
  <1>1. /\ server' = [server EXCEPT !.pc = "borrowing"] /\ server.pc = "begun"
        /\ catalogCurrent' = server.file
        /\ \A x \in Worker : drop[Server][x] = None
        /\ UNCHANGED <<registry, complete, row, snapshot, transition,
                       cacheVersion, probing, due, events, revisit, worker, drop, closing>>
    BY DEF ensureCurrent, Released, service, queue, releases
  <1>2. server' \in ServerRecord /\ server'.pc = "borrowing" /\ server'.file = server.file
    BY <1>1, ServerFacts DEF ServerRecord
  <1>3. /\ server.file = snapshot + 1 /\ server.file \in File /\ transition
        /\ catalogCurrent <= snapshot + 1
    BY <1>1 DEF OwnersInv, Rotation
  <1>4. catalogCurrent <= catalogCurrent' /\ catalogCurrent' \in File /\ catalogCurrent' \in Nat
    BY <1>1, <1>3, ServerFacts
  <1>5. Counted' /\ Exclusive'
    BY <1>1, <1>2, ServerQuiet
  <1>6. OwnersType'
    <2>1. server' \in [pc : {"idle", "begun", "borrowing", "opening", "borrowed",
                         "published", "closed", "ending"},
                       file : File \cup {None}, old : File \cup {None}]
      BY <1>2 DEF ServerRecord, Path
    <2> QED BY <1>1, <1>4, <2>1 DEF OwnersInv, OwnersType, TypeOK, registry
  <1>7. InPlace'
    <2>1. ASSUME NEW w \in Worker PROVE Places(w, worker[w])'
      <3>1. worker[w].path \in Nat
        BY WorkerFacts, NamesFacts DEF WorkerRecord
      <3> QED BY <1>1, <1>4, <3>1, WorkerFacts, ServerFacts DEF Places
    <2> QED BY <2>1 DEF InPlace
  <1>8. Queues'
    <2>1. 1 .. catalogCurrent \subseteq 1 .. catalogCurrent'
      BY <1>4, ServerFacts
    <2>2. \A r \in events : FileOf[r] \in Nat
      BY OwnersAssumption DEF OwnersInv, OwnersType, TypeOK
    <2> QED BY <1>1, <1>4, <2>1, <2>2, ServerFacts DEF OwnersInv, Queues
  <1>9. Rotation'
    BY <1>1, <1>2, <1>3, ServerFacts DEF OwnersInv, Rotation
  <1>10. FinalizedIsFinished'
    BY <1>1 DEF OwnersInv, FinalizedIsFinished, Pending, registry
  <1> QED BY <1>5, <1>6, <1>7, <1>8, <1>9, <1>10 DEF OwnersInv

\* The new snapshot shares the open entry of its file.
LEMMA ServerShareStep ==
    ASSUME OwnersInv, serverShare PROVE OwnersInv'
  <1> DEFINE f == server.file
  <1>1. /\ server' = [server EXCEPT !.pc = "borrowed"] /\ server.pc = "borrowing" /\ share(f)
        /\ UNCHANGED <<complete, row, catalogCurrent, snapshot, transition, cacheVersion,
                       probing, due, events, revisit, worker, drop, closing>>
    BY DEF serverShare, durable, service, queue, releases
  <1>2. /\ server' \in ServerRecord /\ server'.pc = "borrowed" /\ server'.file = f /\ f \in File
    BY <1>1, ServerFacts DEF ServerRecord, OwnersInv, Rotation
  <1> HIDE DEF f
  <1>3. Counted'
    <2>1. /\ Held("new", Server, Server) = None /\ Held("new", Server, Server)' = f
          /\ Held("old", Server, Server)' = Held("old", Server, Server)
      BY <1>1, <1>2, ServerFacts DEF Held, ServerRecord
    <2>2. PICK h \in Holding : held[h] = None /\ HeldPut(h, f)
      BY <1>1, <2>1, ServerHolds
    <2> QED BY <1>1, <1>2, <2>2, CountedShare DEF OwnersInv
  <1>4. Exclusive'
    <2>1. \A a \in Agent : Opening(a)' \in {Opening(a), None}
      BY <1>1, <1>2 DEF Opening
    <2>2. entry' = entry /\ closing' = closing
      BY <1>1 DEF share
    <2> QED BY <2>1, <2>2 DEF OwnersInv, Exclusive
  <1>5. Rotation'
    BY <1>1, <1>2 DEF OwnersInv, Rotation, f
  <1>6. /\ registry' \in [File -> {"absent", "opening", "open", "closing"}]
                           \X [File -> Nat] \X [File -> Nat]
        /\ closing' \in [Agent -> File \cup {None}]
        /\ \A g \in complete : handles'[g] = 0
    BY <1>1 DEF registry, share, OwnersInv, OwnersType, TypeOK, FinalizedIsFinished
  <1> QED BY <1>1, <1>2, <1>3, <1>4, <1>5, <1>6, ServerFacts, ServerMoves DEF OwnersInv, Queues

\* The new snapshot opens its file.
LEMMA ServerOpenStep ==
    ASSUME OwnersInv, serverOpen PROVE OwnersInv'
  <1> DEFINE f == server.file
  <1>1. /\ server' = [server EXCEPT !.pc = "opening"] /\ server.pc = "borrowing" /\ beginOpen(f)
        /\ UNCHANGED <<complete, row, catalogCurrent, snapshot, transition, cacheVersion,
                       probing, due, events, revisit, worker, drop, closing>>
    BY DEF serverOpen, durable, service, queue, releases
  <1>2. /\ server' \in ServerRecord /\ server'.pc = "opening" /\ server'.file = f /\ f \in File
    BY <1>1, ServerFacts DEF ServerRecord, OwnersInv, Rotation
  <1> HIDE DEF f
  <1>3. Counted'
    <2>1. HeldSame
      BY <1>1, <1>2 DEF HeldSame, held, Held
    <2> QED BY <1>1, <1>2, <2>1, CountedBeginOpen DEF OwnersInv
  <1>4. Exclusive'
    <2>1. /\ Opening(Server)' = f
          /\ \A a \in Agent \ {Server} : Opening(a)' = Opening(a)
      BY <1>1, <1>2 DEF Opening
    <2>2. /\ entry[f] = "absent" /\ entry'[f] = "opening" /\ closing' = closing
          /\ \A g \in File \ {f} : entry'[g] = entry[g]
      BY <1>1, <1>2 DEF beginOpen, OwnersInv, OwnersType, TypeOK
    <2>3. \A a \in Agent : /\ Opening(a) # None => Opening(a) \in File
                           /\ closing[a] # None => closing[a] \in File
      BY OpeningIsFile DEF OwnersInv
    <2> QED BY <1>2, <2>1, <2>2, <2>3, ServerFacts DEF OwnersInv, Exclusive
  <1>5. Rotation'
    BY <1>1, <1>2 DEF OwnersInv, Rotation, f
  <1>6. /\ registry' \in [File -> {"absent", "opening", "open", "closing"}]
                           \X [File -> Nat] \X [File -> Nat]
        /\ closing' \in [Agent -> File \cup {None}]
        /\ \A g \in complete : handles'[g] = 0
    BY <1>1 DEF registry, beginOpen, OwnersInv, OwnersType, TypeOK, FinalizedIsFinished
  <1> QED BY <1>1, <1>2, <1>3, <1>4, <1>5, <1>6, ServerFacts, ServerMoves DEF OwnersInv, Queues

\* The new snapshot holds the file it opened.
LEMMA ServerOpenedStep ==
    ASSUME OwnersInv, serverOpened PROVE OwnersInv'
  <1> DEFINE f == server.file
  <1>1. /\ server' = [server EXCEPT !.pc = "borrowed"] /\ server.pc = "opening"
        /\ openSucceeds(f)
        /\ UNCHANGED <<complete, row, catalogCurrent, snapshot, transition, cacheVersion,
                       probing, due, events, revisit, worker, drop, closing>>
    BY DEF serverOpened, durable, service, queue, releases
  <1>2. /\ server' \in ServerRecord /\ server'.pc = "borrowed" /\ server'.file = f /\ f \in File
        /\ f = catalogCurrent
    BY <1>1, ServerFacts DEF ServerRecord, OwnersInv, Rotation
  <1>3. OwnersType /\ Counted /\ Exclusive
    BY DEF OwnersInv
  <1>4. Opening(Server) = f /\ f # None /\ entry[f] = "opening"
    <2>1. Opening(Server) = f /\ f # None
      BY <1>1, <1>2, NamesFacts DEF Opening
    <2> QED BY <1>3, <2>1, ServerFacts DEF Exclusive
  <1> HIDE DEF f
  <1>5. Counted'
    <2>1. /\ Held("new", Server, Server) = None /\ Held("new", Server, Server)' = f
          /\ Held("old", Server, Server)' = Held("old", Server, Server)
      BY <1>1, <1>2, ServerFacts DEF Held, ServerRecord
    <2>2. PICK h \in Holding : held[h] = None /\ HeldPut(h, f)
      BY <1>1, <2>1, ServerHolds
    <2> QED BY <1>1, <1>2, <1>3, <1>4, <2>2, CountedOpened
  <1>6. Exclusive'
    <2>1. /\ Opening(Server)' = None
          /\ \A a \in Agent \ {Server} : Opening(a)' = Opening(a)
      BY <1>1, <1>2 DEF Opening
    <2>2. closing' = closing /\ \A g \in File \ {f} : entry'[g] = entry[g]
      BY <1>1, <1>2, <1>3 DEF openSucceeds, OwnersType, TypeOK
    <2> QED BY <1>3, <1>4, <2>1, <2>2, OpeningIsFile, ServerFacts DEF Exclusive
  <1>7. Rotation'
    BY <1>1, <1>2 DEF OwnersInv, Rotation
  <1>8. /\ registry' \in [File -> {"absent", "opening", "open", "closing"}]
                           \X [File -> Nat] \X [File -> Nat]
        /\ closing' \in [Agent -> File \cup {None}]
        /\ \A g \in complete : handles'[g] = 0
    <2>1. /\ entry' \in [File -> {"absent", "opening", "open", "closing"}]
          /\ references' \in [File -> Nat] /\ handles' \in [File -> Nat]
          /\ closing' \in [Agent -> File \cup {None}]
      BY <1>1, <1>2, <1>3 DEF openSucceeds, OwnersType, TypeOK
    <2>2. f \notin complete
      BY <1>2, CurrentIsOpen
    <2>3. \A g \in complete : g \in File /\ handles[g] = 0
      BY DEF OwnersInv, FinalizedIsFinished, OwnersType, TypeOK
    <2>4. \A g \in complete : handles'[g] = 0
      BY <1>1, <1>3, <2>2, <2>3 DEF openSucceeds, OwnersType, TypeOK
    <2> QED BY <2>1, <2>4 DEF registry
  <1> QED BY <1>1, <1>2, <1>5, <1>6, <1>7, <1>8, ServerFacts, ServerMoves DEF OwnersInv, Queues

\* The new snapshot could not be opened and the old one stays.
LEMMA ServerOpenFailsStep ==
    ASSUME OwnersInv, serverOpenFails PROVE OwnersInv'
  <1> DEFINE f == server.file
  <1>1. /\ server' = [server EXCEPT !.pc = "ending"] /\ server.pc = "opening"
        /\ openFails(f)
        /\ UNCHANGED <<complete, row, catalogCurrent, snapshot, transition, cacheVersion,
                       probing, due, events, revisit, worker, drop, closing>>
    BY DEF serverOpenFails, durable, service, queue, releases
  <1>2. /\ server' \in ServerRecord /\ server'.pc = "ending" /\ f \in File
    BY <1>1, ServerFacts DEF ServerRecord, OwnersInv, Rotation
  <1>3. OwnersType /\ Counted /\ Exclusive
    BY DEF OwnersInv
  <1>4. Opening(Server) = f /\ f # None /\ entry[f] = "opening"
    <2>1. Opening(Server) = f /\ f # None
      BY <1>1, <1>2, NamesFacts DEF Opening
    <2> QED BY <1>3, <2>1, ServerFacts DEF Exclusive
  <1> HIDE DEF f
  <1>5. Counted'
    <2>1. HeldSame
      BY <1>1, <1>2 DEF HeldSame, held, Held
    <2> QED BY <1>1, <1>2, <1>3, <1>4, <2>1, CountedOpenFails
  <1>6. Exclusive'
    <2>1. /\ Opening(Server)' = None
          /\ \A a \in Agent \ {Server} : Opening(a)' = Opening(a)
      BY <1>1, <1>2 DEF Opening
    <2>2. closing' = closing /\ \A g \in File \ {f} : entry'[g] = entry[g]
      BY <1>1, <1>3 DEF openFails, OwnersType, TypeOK
    <2> QED BY <1>3, <1>4, <2>1, <2>2, OpeningIsFile, ServerFacts DEF Exclusive
  <1>7. Rotation'
    BY <1>1, <1>2 DEF OwnersInv, Rotation
  <1>8. /\ registry' \in [File -> {"absent", "opening", "open", "closing"}]
                           \X [File -> Nat] \X [File -> Nat]
        /\ closing' \in [Agent -> File \cup {None}]
        /\ \A g \in complete : handles'[g] = 0
    BY <1>1 DEF registry, openFails, OwnersInv, OwnersType, TypeOK, FinalizedIsFinished
  <1> QED BY <1>1, <1>2, <1>5, <1>6, <1>7, <1>8, ServerFacts, ServerMoves DEF OwnersInv, Queues

\* The server gives back the file of a snapshot: of the one that it could not
\* make, or of the one that it replaced.
LEMMA ServerReleases ==
    ASSUME OwnersInv, NEW kind \in {"new", "old"}, NEW f \in File,
           Held(kind, Server, Server) = f, Held(kind, Server, Server)' = None,
           \A other \in {"new", "old"} \ {kind} :
              Held(other, Server, Server)' = Held(other, Server, Server),
           release(Server, f), server' \in ServerRecord, server'.pc # "opening", Rotation',
           UNCHANGED <<complete, row, catalogCurrent, snapshot, transition, cacheVersion,
                       probing, due, events, revisit, worker, drop>>
    PROVE  OwnersInv'
  <1> DEFINE h == <<kind, Server, Server>>
  <1>1. h \in Holding /\ held[h] = f /\ HeldPut(h, None)
    BY ServerHolds
  <1>2. OwnersType /\ Counted /\ Exclusive
    BY DEF OwnersInv
  <1>3. entry[f] = "open" /\ references[f] \in Nat \ {0}
    BY <1>1, <1>2, HeldIsOpen
  <1>4. Counted'
    BY <1>1, <1>2, ServerFacts, CountedRelease
  <1>5. Exclusive'
    <2>1. \A a \in Agent : Opening(a)' \in {Opening(a), None}
      BY DEF Opening
    <2> QED BY <1>2, <1>3, <2>1, ServerFacts, ExclusiveRelease
  <1>6. /\ registry' \in [File -> {"absent", "opening", "open", "closing"}]
                           \X [File -> Nat] \X [File -> Nat]
        /\ closing' \in [Agent -> File \cup {None}]
        /\ \A g \in complete : handles'[g] = 0
    BY <1>2, <1>3, ServerFacts, ReleaseTypes DEF OwnersInv, FinalizedIsFinished
  <1> QED BY <1>4, <1>5, <1>6, ServerFacts, ServerMoves DEF OwnersInv, Queues

\* The new snapshot failed after it had its file, which is given back.
LEMMA SnapshotFailsStep ==
    ASSUME OwnersInv, snapshotFails PROVE OwnersInv'
  <1> DEFINE f == server.file
  <1>1. /\ server' = [server EXCEPT !.pc = "ending"] /\ server.pc = "borrowed"
        /\ release(Server, f)
        /\ UNCHANGED <<complete, row, catalogCurrent, snapshot, transition, cacheVersion,
                       probing, due, events, revisit, worker, drop>>
    BY DEF snapshotFails, durable, service, queue
  <1>2. server' \in ServerRecord /\ server'.pc = "ending" /\ f \in File
    BY <1>1, ServerFacts DEF ServerRecord, OwnersInv, Rotation
  <1>3. Rotation'
    BY <1>1, <1>2 DEF OwnersInv, Rotation
  <1>4. /\ Held("new", Server, Server) = f /\ Held("new", Server, Server)' = None
        /\ Held("old", Server, Server)' = Held("old", Server, Server)
    BY <1>1, <1>2, ServerFacts DEF Held
  <1> HIDE DEF f
  <1> QED BY <1>1, <1>2, <1>3, <1>4, ServerReleases

\* The replaced snapshot gives its file back.
LEMMA CloseOldStep ==
    ASSUME OwnersInv, closeOld PROVE OwnersInv'
  <1> DEFINE f == server.old
  <1>1. /\ server' = [server EXCEPT !.pc = IF server.old = server.file THEN "ending"
                                           ELSE "closed"]
        /\ server.pc = "published" /\ release(Server, f)
        /\ UNCHANGED <<complete, row, catalogCurrent, snapshot, transition, cacheVersion,
                       probing, due, events, revisit, worker, drop>>
    BY DEF closeOld, durable, service, queue
  <1>2. server' \in ServerRecord /\ server'.pc \in {"ending", "closed"} /\ f \in File
    BY <1>1, ServerFacts DEF ServerRecord, OwnersInv, Rotation
  <1>3. Rotation'
    BY <1>1, <1>2 DEF OwnersInv, Rotation
  <1>4. /\ Held("old", Server, Server) = f /\ Held("old", Server, Server)' = None
        /\ Held("new", Server, Server)' = Held("new", Server, Server)
    BY <1>1, <1>2, ServerFacts DEF Held
  <1> HIDE DEF f
  <1> QED BY <1>1, <1>2, <1>3, <1>4, ServerReleases

\* The new file becomes the snapshot's, and the snapshot's the old one.
LEMMA PublishStep ==
    ASSUME OwnersInv, publish PROVE OwnersInv'
  <1> DEFINE f == server.file
  <1>1. /\ server' = [server EXCEPT !.pc = "published", !.old = snapshot]
        /\ server.pc = "borrowed" /\ snapshot' = f
        /\ UNCHANGED <<registry, complete, row, catalogCurrent, transition, cacheVersion,
                       probing, due, events, revisit, worker, drop, closing>>
    BY DEF publish, durable, service, queue, releases
  <1>2. /\ server' \in ServerRecord /\ server'.pc = "published" /\ server'.file = f
        /\ server'.old = snapshot
        /\ f \in File /\ f = catalogCurrent /\ (transition \/ f = snapshot)
        /\ snapshot <= f
    BY <1>1, ServerFacts DEF ServerRecord, OwnersInv, Rotation, Path
  <1> HIDE DEF f
  <1>3. Counted'
    <2> DEFINE turn(h, x, y, z) == IF h = <<x, Server, Server>> THEN <<y, Server, Server>>
                                   ELSE IF h = <<y, Server, Server>> THEN <<z, Server, Server>>
                                   ELSE IF h = <<z, Server, Server>> THEN <<x, Server, Server>>
                                   ELSE h
               pi == [h \in Holding |-> turn(h, "snapshot", "new", "old")]
               rho == [h \in Holding |-> turn(h, "old", "new", "snapshot")]
    <2>1. <<"snapshot", Server, Server>> \in Holding /\ <<"new", Server, Server>> \in Holding
          /\ <<"old", Server, Server>> \in Holding
      BY ServerFacts DEF Holding, Kind
    <2>2. pi \in [Holding -> Holding] /\ rho \in [Holding -> Holding]
      BY <2>1
    <2>3. ASSUME NEW h \in Holding PROVE pi[rho[h]] = h /\ rho[pi[h]] = h
      BY <2>1
    <2>4. /\ held'[<<"snapshot", Server, Server>>] = f /\ held'[<<"old", Server, Server>>] = snapshot
          /\ held'[<<"new", Server, Server>>] = None
          /\ held[<<"snapshot", Server, Server>>] = snapshot
          /\ held[<<"old", Server, Server>>] = None /\ held[<<"new", Server, Server>>] = f
      BY <1>1, <1>2, <2>1, ServerFacts DEF held, Held, f
    <2>5. ASSUME NEW kind \in Kind, NEW a \in Agent, NEW b \in Agent,
                 <<kind, a, b>> \notin {<<"snapshot", Server, Server>>,
                                        <<"new", Server, Server>>, <<"old", Server, Server>>}
          PROVE  Held(kind, a, b)' = Held(kind, a, b)
      BY <1>1, <2>5, ServerFacts DEF Held, Kind
    <2>6. ASSUME NEW h \in Holding,
                 h \notin {<<"snapshot", Server, Server>>,
                           <<"new", Server, Server>>, <<"old", Server, Server>>}
          PROVE  held'[h] = held[h]
      <3>1. h[1] \in Kind /\ h[2] \in Agent /\ h[3] \in Agent /\ h = <<h[1], h[2], h[3]>>
        BY DEF Holding
      <3>2. held[h] = Held(h[1], h[2], h[3]) /\ held'[h] = Held(h[1], h[2], h[3])'
        BY DEF held
      <3> QED BY <2>5, <2>6, <3>1, <3>2
    <2>7. ASSUME NEW h \in Holding PROVE held'[h] = held[pi[h]]
      BY <2>1, <2>4, <2>6
    <2>8. UNCHANGED registry
      BY <1>1
    <2> HIDE DEF pi, rho
    <2> QED BY <2>2, <2>3, <2>7, <2>8, CountedMoved DEF OwnersInv
  <1>4. Exclusive'
    <2>1. \A a \in Agent : Opening(a)' = Opening(a)
      BY <1>1, <1>2 DEF Opening
    <2> QED BY <1>1, <2>1 DEF OwnersInv, Exclusive, registry
  <1>5. OwnersType'
    <2>1. server' \in [pc : {"idle", "begun", "borrowing", "opening", "borrowed",
                         "published", "closed", "ending"},
                       file : File \cup {None}, old : File \cup {None}]
      BY <1>2 DEF ServerRecord, Path
    <2> QED BY <1>1, <1>2, <2>1 DEF OwnersInv, OwnersType, TypeOK, registry
  <1>6. InPlace'
    <2>1. ASSUME NEW w \in Worker PROVE Places(w, worker[w])'
      BY <1>1, <1>2, WorkerFacts DEF Places, WorkerRecord
    <2> QED BY <2>1 DEF InPlace
  <1>7. Queues' /\ Rotation'
    BY <1>1, <1>2, ServerFacts DEF OwnersInv, Queues, Rotation
  <1>8. FinalizedIsFinished'
    <2>1. \A g \in complete : g \in Nat /\ g < snapshot /\ handles[g] = 0 /\ Pending(g) = {}
      BY NamesFacts DEF OwnersInv, OwnersType, TypeOK, FinalizedIsFinished
    <2>2. \A g \in complete : g < snapshot'
      BY <1>1, <1>2, <2>1, ServerFacts
    <2> QED BY <1>1, <2>1, <2>2 DEF FinalizedIsFinished, Pending, registry
  <1> QED BY <1>3, <1>4, <1>5, <1>6, <1>7, <1>8 DEF OwnersInv

\* A transition ends the sessions of files that are not being worked on, and
\* what a worker has borrowed before is not kept.
LEMMA BeginTransitionStep ==
    ASSUME OwnersInv, beginRecoveryTransition PROVE OwnersInv'
  <1>1. /\ server.pc = "idle" /\ server' = [IdleServer EXCEPT !.pc = "begun", !.file = NextFile]
        /\ transition' = TRUE /\ cacheVersion' = cacheVersion + 1
        /\ TakeSessions(Server, IdleSessions, worker)
        /\ NextFile \in File
        /\ \A x \in Worker : drop[Server][x] = None
        /\ UNCHANGED <<registry, complete, row, catalogCurrent, snapshot,
                       probing, due, events, revisit, closing>>
    BY DEF beginRecoveryTransition, OwnersInv, Rotation, durable, queue
  <1>2. NextFile = snapshot + 1
    BY ServerFacts DEF NextFile, OwnersInv, Rotation
  <1>3. /\ server' \in ServerRecord /\ server'.pc = "begun" /\ server'.file = snapshot + 1
        /\ server'.file \in File
    BY <1>1, <1>2 DEF ServerRecord, IdleServer, Path
  <1>4. /\ worker \in [Worker -> WorkerRecord] /\ IdleSessions \in SUBSET Worker
        /\ Server \in Agent /\ \A x \in Worker : worker[x] \in WorkerRecord
    BY ServerFacts DEF OwnersInv, OwnersType, IdleSessions
  <1>5. worker' \in [Worker -> WorkerRecord] /\ drop' \in [Agent -> [Worker -> Path]]
    BY <1>1, <1>4, TakenTypes
  <1>6. /\ \A x \in Worker : worker'[x] = IF x \in IdleSessions
                                          THEN [worker[x] EXCEPT !.session = None] ELSE worker[x]
        /\ \A a \in Agent \ {Server} : drop'[a] = drop[a]
    BY <1>1 DEF TakeSessions, OwnersInv, OwnersType, TypeOK
  <1>7. Counted'
    <2>1. \A kind \in {"new", "old"} : Held(kind, Server, Server)' = Held(kind, Server, Server)
      BY <1>1, <1>3, ServerFacts DEF Held
    <2> QED BY <1>1, <1>4, <2>1, SessionsMoved
  <1>8. Exclusive'
    <2>1. \A x \in Worker : worker'[x].pc = worker[x].pc /\ worker'[x].path = worker[x].path
      BY <1>4, <1>6 DEF WorkerRecord
    <2>2. \A a \in Agent : Opening(a)' = Opening(a)
      BY <1>1, <1>3, <2>1 DEF Opening, Agent
    <2> QED BY <1>1, <2>2 DEF OwnersInv, Exclusive, registry
  <1>9. TypeOK'
    <2>1. server' \in [pc : {"idle", "begun", "borrowing", "opening", "borrowed",
                         "published", "closed", "ending"},
                       file : File \cup {None}, old : File \cup {None}]
      BY <1>3 DEF ServerRecord, Path
    <2>2. \A x \in Worker :
             /\ worker'[x].path \in File \cup {None} /\ worker'[x].session \in File \cup {None}
             /\ worker'[x].job \in File \cup {None} /\ worker'[x].receipt \in Receipt \cup {None}
      BY <1>5 DEF WorkerRecord, Path
    <2>3. drop' \in [Agent -> [Worker -> File \cup {None}]]
      BY <1>5 DEF Path
    <2> QED BY <1>1, <2>1, <2>2, <2>3 DEF OwnersInv, OwnersType, TypeOK, registry
  <1>10. InPlace'
    <2>1. ASSUME NEW w \in Worker PROVE Places(w, worker[w])'
      <3>1. Places(w, worker[w]) /\ worker[w] \in WorkerRecord
        BY WorkerFacts
      <3>2. /\ worker'[w].pc = worker[w].pc /\ worker'[w].path = worker[w].path
            /\ worker'[w].receipt = worker[w].receipt /\ worker'[w].job = worker[w].job
            /\ worker'[w].retain = worker[w].retain /\ worker'[w].version = worker[w].version
            /\ worker'[w].session = IF w \in IdleSessions THEN None ELSE worker[w].session
        BY <1>6, <3>1 DEF WorkerRecord
      <3>3. worker'[w].session \in {None, worker'[w].path}
        BY <3>2 DEF IdleSessions
      <3>4. worker[w].version \in Nat /\ cacheVersion \in Nat
        BY <3>1, ServerFacts DEF WorkerRecord
      <3>5. drop'[w] = drop[w]
        BY <1>6, ServerFacts
      <3> QED BY <1>1, <3>1, <3>2, <3>3, <3>4, <3>5, NamesFacts DEF Places, Unplaced
    <2> QED BY <2>1 DEF InPlace
  <1>11. Queues' /\ Rotation'
    BY <1>1, <1>3 DEF OwnersInv, Queues, Rotation
  <1>12. FinalizedIsFinished'
    BY <1>1 DEF OwnersInv, FinalizedIsFinished, Pending, registry
  <1> QED BY <1>5, <1>7, <1>8, <1>9, <1>10, <1>11, <1>12 DEF OwnersInv, OwnersType

\* A receipt comes to the current file only, which is not finalized.
LEMMA SubmitStep ==
    ASSUME OwnersInv, NEW r \in Receipt, NEW admitted \in BOOLEAN, submit(r, admitted)
    PROVE  OwnersInv'
  <1>1. /\ FileOf[r] = snapshot /\ row' = [row EXCEPT ![r] = "pending"]
        /\ events' \subseteq events \cup {r} /\ due' \subseteq due \cup {snapshot}
        /\ UNCHANGED <<registry, complete, catalogCurrent, snapshot, server, transition,
                       cacheVersion, probing, revisit, worker, drop, closing>>
    BY DEF submit, service, releases
  <1>2. Counted'
    <2>1. HeldSame
      BY <1>1 DEF HeldSame, held, Held
    <2> QED BY <1>1, <2>1, CountedQuiet DEF OwnersInv
  <1>3. Exclusive'
    <2>1. \A a \in Agent : Opening(a)' = Opening(a)
      BY <1>1 DEF Opening
    <2> QED BY <1>1, <2>1 DEF OwnersInv, Exclusive, registry
  <1>4. OwnersType'
    BY <1>1, ServerFacts DEF OwnersInv, OwnersType, TypeOK, registry
  <1>5. InPlace'
    BY <1>1 DEF OwnersInv, InPlace, Places
  <1>6. Queues' /\ Rotation'
    BY <1>1, ServerFacts DEF OwnersInv, Queues, Rotation
  <1>7. FinalizedIsFinished'
    <2>1. \A f \in complete : f < snapshot /\ handles[f] = 0 /\ Pending(f) = {}
      BY DEF OwnersInv, FinalizedIsFinished
    <2>2. snapshot \notin complete /\ row \in [Receipt -> {"absent", "pending", "done"}]
      BY CurrentIsOpen DEF OwnersInv, OwnersType, TypeOK
    <2>3. \A f \in complete : Pending(f)' = Pending(f)
      BY <1>1, <2>2 DEF Pending
    <2> QED BY <1>1, <2>1, <2>3 DEF FinalizedIsFinished, registry
  <1> QED BY <1>2, <1>3, <1>4, <1>5, <1>6, <1>7 DEF OwnersInv

----------------------------------------------------------------------------
(* The theorems.                                                             *)

\* The daemon starts with one file, open and held by its snapshot.
LEMMA OwnersInit == Init => OwnersInv
  <1> SUFFICES ASSUME Init PROVE OwnersInv
    OBVIOUS
  <1> USE NamesFacts, OwnersAssumption
  <1>1. OwnersType
    <2>1. worker \in [Worker -> WorkerRecord]
      BY DEF Init, IdleWorker, WorkerRecord, WorkerPcs, Path
    <2>2. server \in [pc : {"idle", "begun", "borrowing", "opening", "borrowed",
                         "published", "closed", "ending"},
                       file : File \cup {None}, old : File \cup {None}]
      BY DEF Init, IdleServer
    <2>3. \A w \in Worker :
             /\ worker[w].path \in File \cup {None} /\ worker[w].session \in File \cup {None}
             /\ worker[w].job \in File \cup {None} /\ worker[w].receipt \in Receipt \cup {None}
      BY DEF Init, IdleWorker
    <2>4. 1 .. FirstFile \subseteq File
      BY DEF File
    <2> QED BY <2>1, <2>2, <2>3, <2>4 DEF Init, OwnersType, TypeOK
  <1>2. Counted
    <2> DEFINE h == <<"snapshot", Server, Server>>
    <2>1. h \in Holding /\ held[h] = FirstFile
      BY DEF Init, Holding, Kind, Agent, held, Held
    <2>2. ASSUME NEW k \in Kind, NEW a \in Agent, NEW b \in Agent, <<k, a, b>> # h
          PROVE  Held(k, a, b) = None
      BY <2>2 DEF Held, Kind, Init, IdleWorker, IdleServer, Agent
    <2>3. ASSUME NEW k \in Holding, k # h PROVE held[k] = None
      <3>1. k[1] \in Kind /\ k[2] \in Agent /\ k[3] \in Agent /\ k = <<k[1], k[2], k[3]>>
        BY DEF Holding
      <3>2. held[k] = Held(k[1], k[2], k[3])
        BY DEF held
      <3> HIDE DEF h
      <3> QED BY <2>2, <2>3, <3>1, <3>2
    <2>4. HoldersIn(held, FirstFile) = {h}
      BY <2>1, <2>3 DEF HoldersIn
    <2>5. Count(held, FirstFile) = 1
      BY <2>4, FS_Singleton DEF Count
    <2>6. \A f \in File \ {FirstFile} : Count(held, f) = 0
      <3>1. \A f \in File \ {FirstFile} : \A k \in Holding : held[k] # f
        BY <2>1, <2>3
      <3> QED BY <3>1, CountFacts
    <2> QED BY <2>5, <2>6 DEF Counted, Init
  <1>3. Exclusive
    BY DEF Exclusive, Init, Opening, IdleServer, IdleWorker, Agent
  <1>4. InPlace
    <2>1. catalogCurrent \in Nat /\ \A w \in Worker : worker[w] = IdleWorker
      BY DEF Init
    <2>2. ASSUME NEW w \in Worker PROVE Places(w, IdleWorker)
      BY <2>1 DEF IdleWorker, Places, Unplaced, Searching, Holds, Careful, None
    <2> QED BY <2>1, <2>2 DEF InPlace
  <1>5. Queues /\ Rotation
    BY DEF Init, Queues, Rotation, IdleServer, Agent
  <1>6. FinalizedIsFinished
    BY DEF Init, FinalizedIsFinished
  <1> QED BY <1>1, <1>2, <1>3, <1>4, <1>5, <1>6 DEF OwnersInv

\* Every step and fault of a worker keeps the invariant.
LEMMA WorkerSteps ==
    ASSUME OwnersInv, NEW w \in Worker, WorkerStep(w) \/ WorkerFault(w)
    PROVE  OwnersInv'
  <1>1. CASE takeProbe(w) \/ (\E r \in Receipt : takeEvent(w, r)) \/ endWork(w)
    BY <1>1, TakeProbeStep, TakeEventStep, EndWorkStep
  <1>2. CASE \E f \in File : selectFile(w, f) \/ skipComplete(w, f)
    BY <1>2, SelectFileStep, SkipCompleteStep
  <1>3. CASE \E recoveryPending \in BOOLEAN : prepare(w, recoveryPending)
    BY <1>3, PrepareStep
  <1>4. CASE sessionRefused(w) \/ sessionBorrow(w) \/ keepOwner(w)
    BY <1>4, SessionRefusedStep, SessionBorrowStep, KeepOwnerStep
  <1>5. CASE jobDelayed(w) \/ jobBorrow(w)
    BY <1>5, JobDelayedStep, JobBorrowStep
  <1>6. CASE borrowShare(w) \/ borrowOpen(w) \/ borrowOpened(w)
    BY <1>6, BorrowShareStep, BorrowOpenStep, BorrowOpenedStep
  <1>7. CASE \E r \in Receipt : findWork(w, r)
    BY <1>7, FindWorkStep
  <1>8. CASE workDone(w) \/ closeFile(w) \/ releaseIdleFileOwners(w)
    BY <1>8, WorkDoneStep, CloseFileStep, ReleaseIdleFileOwnersStep
  <1>9. CASE endFile(w) \/ readFails(w) \/ finishJob(w) \/ workFails(w)
    BY <1>9, EndJobOnFile
  <1>10. CASE finalizeFile(w) \/ finalizeFails(w)
    BY <1>10, FinalizeFileStep, FinalizeFailsStep
  <1>11. CASE endProbe(w) \/ endJob(w)
    BY <1>11, EndProbeStep, EndJobStep
  <1>12. CASE borrowCanceled(w) \/ borrowFails(w)
    BY <1>12, BorrowCanceledStep, BorrowFailsStep
  <1> QED BY <1>1, <1>2, <1>3, <1>4, <1>5, <1>6, <1>7, <1>8, <1>9, <1>10, <1>11, <1>12
          DEF WorkerStep, WorkerFault

\* Every step and fault of the server keeps the invariant.
LEMMA ServerSteps ==
    ASSUME OwnersInv, ServerStep \/ ServerFault \/ reload \/ beginRecoveryTransition
    PROVE  OwnersInv'
  BY EnsureCurrentStep, ServerShareStep, ServerOpenStep, ServerOpenedStep, PublishStep,
     CloseOldStep, StorageChangedStep, EndTransitionStep, EnsureFailsStep,
     ServerOpenFailsStep, SnapshotFailsStep, ReloadStep, BeginTransitionStep
  DEF ServerStep, ServerFault

\* A stuttering step keeps the invariant.
LEMMA OwnersStutter ==
    ASSUME OwnersInv, UNCHANGED vars
    PROVE  OwnersInv'
  <1>1. HeldSame
    BY DEF HeldSame, held, Held, vars, releases
  <1>2. Counted'
    BY <1>1, CountedQuiet DEF OwnersInv, vars
  <1>3. Exclusive'
    <2>1. \A a \in Agent : Opening(a)' = Opening(a)
      BY DEF Opening, vars
    <2> QED BY <2>1 DEF OwnersInv, Exclusive, vars, registry, releases
  <1>4. OwnersType' /\ InPlace' /\ Queues' /\ Rotation' /\ FinalizedIsFinished'
    BY DEF OwnersInv, OwnersType, TypeOK, InPlace, Places, Queues, Rotation,
           FinalizedIsFinished, Pending, vars, registry, durable, service, queue, releases
  <1> QED BY <1>2, <1>3, <1>4 DEF OwnersInv

\* The invariant of the owners holds in every behaviour of the code's steps:
\* file_owner.go and recovery_session.go, with every caller of theirs.
THEOREM OwnersInvariance == Spec => []OwnersInv
  <1>1. Init => OwnersInv
    BY OwnersInit
  <1>2. OwnersInv /\ [Next]_vars => OwnersInv'
    <2> SUFFICES ASSUME OwnersInv, [Next]_vars PROVE OwnersInv'
      OBVIOUS
    <2>1. CASE \E w \in Worker : WorkerStep(w) \/ WorkerFault(w)
      BY <2>1, WorkerSteps
    <2>2. CASE \E a \in Agent : ReleaseStep(a)
      BY <2>2, CloseHandleStep, ReleaseSessionOwnerStep DEF ReleaseStep
    <2>3. CASE ServerStep \/ ServerFault \/ reload \/ beginRecoveryTransition
      BY <2>3, ServerSteps
    <2>4. CASE \E r \in Receipt, admitted \in BOOLEAN : submit(r, admitted)
      BY <2>4, SubmitStep
    <2>5. CASE UNCHANGED vars
      BY <2>5, OwnersStutter
    <2> QED BY <2>1, <2>2, <2>3, <2>4, <2>5 DEF Next
  <1> QED BY <1>1, <1>2, PTL DEF Spec

----------------------------------------------------------------------------
\* The holders that the module lists are the ones that the proof counts.
LEMMA HoldersAreHeld ==
    ASSUME NEW f \in File
    PROVE  Holders(f) = HoldersIn(held, f)
  <1>0. f # None /\ Server \in Agent /\ Server \notin Worker /\ Worker \subseteq Agent
    BY NamesFacts, OwnersAssumption DEF Agent
  <1>1. \A h : h \in Holders(f) <=>
           \/ \E w \in Worker : h = <<"session", w, w>> /\ worker[w].session = f
           \/ \E w \in Worker : h = <<"job", w, w>> /\ worker[w].job = f
           \/ \E a \in Agent, w \in Worker : h = <<"drop", a, w>> /\ drop[a][w] = f
           \/ h = <<"snapshot", Server, Server>> /\ snapshot = f
           \/ h = <<"new", Server, Server>> /\ server.pc = "borrowed" /\ server.file = f
           \/ h = <<"old", Server, Server>> /\ server.pc = "published" /\ server.old = f
    BY DEF Holders
  <1>2. ASSUME NEW h \in Holders(f) PROVE h \in Holding
    BY <1>0, <1>1 DEF Holding, Kind
  <1>3. ASSUME NEW kind \in Kind, NEW a \in Agent, NEW b \in Agent
        PROVE  <<kind, a, b>> \in Holders(f) <=> Held(kind, a, b) = f
    BY <1>0, <1>1 DEF Held, Kind
  <1>4. ASSUME NEW h \in Holding PROVE h \in Holders(f) <=> held[h] = f
    <2>1. h[1] \in Kind /\ h[2] \in Agent /\ h[3] \in Agent /\ h = <<h[1], h[2], h[3]>>
      BY DEF Holding
    <2>2. held[h] = Held(h[1], h[2], h[3])
      BY DEF held
    <2> QED BY <1>3, <2>1, <2>2
  <1> QED BY <1>2, <1>4 DEF HoldersIn

\* The inductive invariant gives what the run checks.
LEMMA OwnersHold == OwnersInv => OwnersInOrder
  <1> SUFFICES ASSUME OwnersInv PROVE OwnersInOrder
    OBVIOUS
  <1>1. TypeOK /\ Counted
    BY DEF OwnersInv, OwnersType
  <1>2. HeldFilesOpen
    <2>1. ASSUME NEW f \in File
          PROVE  /\ Holders(f) # {} => entry[f] = "open"
                 /\ entry[f] = "open" =>
                       references[f] = Cardinality(Holders(f)) /\ references[f] > 0
      <3>1. Count(held, f) = Cardinality(Holders(f))
        BY HoldersAreHeld DEF Count
      <3>2. Holders(f) # {} => Count(held, f) # 0
        BY CountFacts, HoldersAreHeld DEF HoldersIn
      <3> QED BY <1>1, <3>1, <3>2 DEF Counted
    <2> QED BY <2>1 DEF HeldFilesOpen
  <1>3. OneHandle
    BY <1>1 DEF Counted, OneHandle
  <1>4. OneHistoricalFile
    <2>1. ASSUME NEW w \in Worker
          PROVE  \E x : {worker[w].session, worker[w].job} \ {None, snapshot} \in {{}, {x}}
      <3>1. worker[w].job # None => worker[w].job = worker[w].path /\ worker[w].pc \in Careful
        BY WorkerFacts DEF Places, Careful
      <3>2. CASE worker[w].job = None
        <4>1. {worker[w].session, worker[w].job} \ {None, snapshot} \in {{}, {worker[w].session}}
          BY <3>2
        <4> QED BY <4>1
      <3>3. CASE worker[w].job # None
        <4>1. worker[w].session \in {None, worker[w].job} \/ worker[w].job = snapshot
          BY <3>1, <3>3, WorkerFacts DEF Places
        <4>2. \/ {worker[w].session, worker[w].job} \ {None, snapshot} \in {{}, {worker[w].session}}
              \/ {worker[w].session, worker[w].job} \ {None, snapshot} \in {{}, {worker[w].job}}
          BY <4>1
        <4> QED BY <4>2
      <3> QED BY <3>2, <3>3
    <2>2. ASSUME NEW w \in Worker
          PROVE  Cardinality({worker[w].session, worker[w].job} \ {None, snapshot}) <= 1
      <3> DEFINE S == {worker[w].session, worker[w].job} \ {None, snapshot}
      <3>1. PICK x : S \in {{}, {x}}
        BY <2>1
      <3> HIDE DEF S
      <3>2. S = {} \/ S = {x}
        BY <3>1
      <3>3. Cardinality({x}) = 1 /\ Cardinality({}) = 0
        BY FS_Singleton, FS_EmptySet
      <3>4. Cardinality(S) \in {0, 1}
        BY <3>2, <3>3
      <3> QED BY <3>4 DEF S
    <2> QED BY <2>2 DEF OneHistoricalFile
  <1>5. FinalizedIsFinished
    BY DEF OwnersInv
  <1> QED BY <1>1, <1>2, <1>3, <1>4, <1>5 DEF OwnersInOrder

\* A file is open exactly as long as somebody holds it, with one handle and a
\* count that is the number of the holders; each worker holds one historical
\* file at most; and only retired, closed files with nothing pending are
\* finalized (file_owner.go, recovery_session.go, completion.go).
THEOREM OwnersCorrect == Spec => []OwnersInOrder
  BY OwnersInvariance, OwnersHold, PTL
=============================================================================
