------------------------------- MODULE Gates -------------------------------
(* The exec and infer conditions of concurrent hook events: the verdict memo *)
(* of one event, the cache that events share, and the flights that let one   *)
(* event run a validator, or ask a model, for all that wait for the same     *)
(* answer.  A validator runs detached from the event that started it: past   *)
(* the synchronous budget the event goes on with its on_error policy and     *)
(* the run decides later events.  A model call is made by its first caller   *)
(* and dies with it.                                                         *)
(*                                                                           *)
(* A condition is [kind, cached (a TTL), closed (on_error), budget (a        *)
(* synchronous timeout), on (block_on), each ("", "any", "all": for_each and *)
(* match_mode), targets, retries, needs (context_on_error = "error")].  Its  *)
(* cache key is the condition itself: the fields that the key hashes are the *)
(* same in every event of the model.                                         *)
EXTENDS Naturals, Sequences, FiniteSets, SequencesExt

CONSTANTS
    Events,      \* hook events in evaluation
    Plans,       \* what the events may evaluate: functions from Events to
                 \* sequences of conditions, in the order of evaluation
    MaxExpiries  \* bound on cache entries that expire

Conditions == UNION {UNION {ToSet(p[e]) : e \in Events} : p \in Plans}

Nobody == "nobody"

ASSUME GatesAssumption ==
    /\ MaxExpiries \in Nat /\ Nobody \notin Events
    /\ Plans \subseteq [Events -> Seq(Conditions)]
    /\ Conditions \subseteq
         [kind : {"exec", "infer"}, cached : BOOLEAN, closed : BOOLEAN,
          budget : BOOLEAN, on : {"nonzero", "zero", "match"},
          each : {"", "any", "all"}, targets : Nat, retries : Nat,
          needs : BOOLEAN]
    /\ \A c \in Conditions : c.each = "" => c.targets = 1

VARIABLES
    plan,      \* the chosen member of Plans
    at,        \* [Events -> index into the plan]
    step,      \* [Events -> what the event does for that condition]
    waitsFor,  \* [Events -> the event whose flight it waits for]
    ended,     \* [Events -> whether the event's context has ended]
    memo,      \* [Events -> the verdicts of the event so far, in plan order]
    inflight,  \* [Conditions -> owner of the registered flight, or Nobody]
    flight,    \* [Events -> [Conditions -> a flight]]
    hot,       \* [Conditions -> the cached verdict, in a set]
    expiries

gateVars == <<plan, at, step, waitsFor, ended, memo, inflight, flight, hot, expiries>>

Verdict(block, errored) == [block |-> block, errored |-> errored,
                            partial |-> FALSE]
Allow == Verdict(FALSE, FALSE)
Block == Verdict(TRUE, FALSE)
Failed(c) == Verdict(c.closed, TRUE)

\* A flight's phases: none, recheck (infer), running, ran, stored, closed
\* (its waiters may go), gone (it has left the map).
NoFlight == [phase |-> "none", verdict |-> Allow, outcomes |-> <<>>]

cond(e) == plan[e][at[e]]
Evaluates(e) == at[e] <= Len(plan[e])

----------------------------------------------------------------------------
(* One validator run.                                                        *)

\* How a process ends and what it prints, for a JSON predicate.
Results == [end : {"exited", "timeout", "signaled", "unstarted"},
            zero : BOOLEAN, doc : {"match", "other", "invalid"}]

\* Interpret: block_on and the exit of one command.
Interpret(c, r) ==
    CASE r.end # "exited" -> "error"
      [] c.on = "match" /\ r.end = "exited" ->
           IF ~r.zero \/ r.doc = "invalid" THEN "error"
           ELSE IF r.doc = "match" THEN "block" ELSE "allow"
      [] c.on # "match" /\ r.end = "exited" ->
           IF r.zero <=> (c.on = "zero") THEN "block" ELSE "allow"

\* What the context service and the model may answer.
Replies == [context : BOOLEAN, endpoint : BOOLEAN, transport : BOOLEAN,
            complete : BOOLEAN, doc : {"match", "other", "invalid"},
            hashes : BOOLEAN]

\* call and inferResultBlocks: each part of the answer may fail.
answered(c, r) ==
    IF \/ ~r.context /\ c.needs
       \/ ~r.endpoint \/ ~r.transport \/ ~r.complete
       \/ r.doc = "invalid" \/ ~r.hashes
    THEN "error"
    ELSE IF (r.doc = "match") <=> (c.on = "match") THEN "block" ELSE "allow"

Answers(c) == IF c.kind = "exec" THEN {Interpret(c, r) : r \in Results}
              ELSE {answered(c, r) : r \in Replies}

\* runExpandedCommandWithRetry: the first attempt that gave a verdict, or
\* the last error.
attempted(attempts) ==
    IF \E i \in DOMAIN attempts : attempts[i] # "error"
    THEN attempts[CHOOSE i \in DOMAIN attempts :
                    attempts[i] # "error"
                    /\ \A j \in 1 .. (i - 1) : attempts[j] = "error"]
    ELSE "error"

verdictOf(c, outcome) == CASE outcome = "block" -> Block
                           [] outcome = "allow" -> Allow
                           [] outcome = "error" -> Failed(c)

\* Mutant: an unclassified target decides the whole expansion.
expandVetoed(c, outcomes) ==
    LET decides(o) == c.each = "" \/ o = "error"
                      \/ (c.each = "any" /\ o = "block")
                      \/ (c.each = "all" /\ o # "block")
        deciders == {i \in DOMAIN outcomes : decides(outcomes[i])}
    IN  IF deciders # {}
        THEN verdictOf(c, outcomes[CHOOSE i \in deciders :
                                     \A j \in deciders : i <= j])
        ELSE IF outcomes # <<>> /\ c.each = "all" THEN Block ELSE Allow
\* runExpandedCommands: the first target that returns from the loop decides;
\* what was seen before it, or in the whole loop, counts too.
runExpandedCommands(c, outcomes) ==
    LET returns == {i \in DOMAIN outcomes :
                      \/ c.each = ""
                      \/ c.each = "any" /\ outcomes[i] = "block"
                      \/ c.each = "all" /\ outcomes[i] # "block"}
        sawErrored(n) == c.each = "any"
                         /\ \E i \in 1 .. n : outcomes[i] = "error"
        first == CHOOSE i \in returns : \A j \in returns : i <= j
    IN  IF returns # {}
        THEN [verdictOf(c, outcomes[first])
                EXCEPT !.partial = sawErrored(first - 1)]
        ELSE IF sawErrored(Len(outcomes)) THEN Failed(c)
        ELSE Verdict(outcomes # <<>> /\ c.each = "all", FALSE)

\* What the targets of a condition may answer, each after its retries.
Outcomes(c) ==
    {[i \in 1 .. c.targets |-> attempted(runs[i])] :
       runs \in [1 .. c.targets -> [1 .. (c.retries + 1) -> Answers(c)]]}

----------------------------------------------------------------------------
(* The event's side.                                                         *)

others == <<plan, ended, expiries>>
finishes(e, v) == /\ memo' = [memo EXCEPT ![e] = Append(@, v)]
                  /\ at' = [at EXCEPT ![e] = @ + 1]
                  /\ step' = [step EXCEPT ![e] = "lookup"]

\* Mutant: an errored verdict is not remembered.
rememberedClean(e) == {i \in DOMAIN memo[e] : plan[e][i] = cond(e)
                                             /\ ~memo[e][i].errored}
\* The verdict this event already has for the condition.
remembered(e) == {i \in DOMAIN memo[e] : plan[e][i] = cond(e)}

\* memo.lookup: the condition was decided in this event.
recall(e) ==
    /\ Evaluates(e) /\ step[e] = "lookup"
    /\ \E i \in remembered(e) : finishes(e, memo[e][i])
    /\ UNCHANGED <<others, waitsFor, inflight, flight, hot>>

\* cacheLookup; exec conditions without a TTL do not look.
cacheLookup(e) ==
    /\ Evaluates(e) /\ step[e] = "lookup" /\ remembered(e) = {}
    /\ \/ \E v \in hot[cond(e)] : finishes(e, v)
       \/ /\ hot[cond(e)] = {}
          /\ step' = [step EXCEPT ![e] = "missed"] /\ UNCHANGED <<at, memo>>
    /\ UNCHANGED <<others, waitsFor, inflight, flight, hot>>

\* Only an infer condition looks again once its flight is registered.
firstPhase(c) == IF c.kind = "infer" THEN "recheck" ELSE "running"

\* runValidatorSingleflight, singleflight: join the flight or register one.
\* An exec condition without a TTL runs on its own.
fly(e) ==
    /\ Evaluates(e) /\ step[e] = "missed"
    /\ LET c == cond(e) shared == c.kind = "infer" \/ c.cached
       IN  IF shared /\ inflight[c] # Nobody
           THEN /\ step' = [step EXCEPT ![e] = "joined"]
                /\ waitsFor' = [waitsFor EXCEPT ![e] = inflight[c]]
                /\ UNCHANGED <<inflight, flight>>
           ELSE /\ step' = [step EXCEPT ![e] = "owns"]
                /\ flight' = [flight EXCEPT ![e][c] =
                                [NoFlight EXCEPT !.phase = firstPhase(c)]]
                /\ inflight' = IF shared THEN [inflight EXCEPT ![c] = e]
                               ELSE inflight
                /\ UNCHANGED waitsFor
    /\ UNCHANGED <<others, at, memo, hot>>

\* Mutant: the waiter is told, once, instead of finding a closed channel.
joinTold(e) ==
    /\ Evaluates(e) /\ step[e] = "joined"
    /\ flight[waitsFor[e]][cond(e)].phase = "closed"
    /\ finishes(e, flight[waitsFor[e]][cond(e)].verdict)
    /\ UNCHANGED <<others, waitsFor, inflight, flight, hot>>
\* A waiter takes the verdict of a finished flight.
joinDone(e) ==
    /\ Evaluates(e) /\ step[e] = "joined"
    /\ flight[waitsFor[e]][cond(e)].phase \in {"closed", "gone"}
    /\ finishes(e, flight[waitsFor[e]][cond(e)].verdict)
    /\ UNCHANGED <<others, waitsFor, inflight, flight, hot>>

\* A waiter whose event ends goes with its on_error policy.
joinEnded(e) ==
    /\ Evaluates(e) /\ step[e] = "joined" /\ ended[e]
    /\ finishes(e, Failed(cond(e)))
    /\ UNCHANGED <<others, waitsFor, inflight, flight, hot>>

\* The owner takes the verdict when its flight has left the map.
ownerTakes(e) ==
    /\ Evaluates(e) /\ step[e] = "owns"
    /\ flight[e][cond(e)].phase = "gone"
    /\ finishes(e, flight[e][cond(e)].verdict)
    /\ UNCHANGED <<others, waitsFor, inflight, flight, hot>>

\* Mutant: the event that stops waiting for its validator drops the flight.
budgetDrops(e) ==
    /\ Evaluates(e) /\ step[e] = "owns"
    /\ cond(e).kind = "exec" /\ cond(e).budget
    /\ flight[e][cond(e)].phase \in {"running", "ran"}
    /\ finishes(e, Failed(cond(e)))
    /\ inflight' = [inflight EXCEPT ![cond(e)] = Nobody]
    /\ UNCHANGED <<others, waitsFor, flight, hot>>
\* The synchronous budget ends first: the run goes on without the event.
budgetEnds(e) ==
    /\ Evaluates(e) /\ step[e] = "owns"
    /\ cond(e).kind = "exec" /\ cond(e).budget
    /\ flight[e][cond(e)].phase \in {"running", "ran"}
    /\ finishes(e, Failed(cond(e)))
    /\ UNCHANGED <<others, waitsFor, inflight, flight, hot>>

contextEnds(e) ==
    /\ ~ended[e] /\ Evaluates(e) /\ ended' = [ended EXCEPT ![e] = TRUE]
    /\ UNCHANGED <<plan, at, step, waitsFor, memo, inflight, flight, hot,
                   expiries>>

----------------------------------------------------------------------------
(* The flight's side: the validator's goroutine, or the owner's own call.    *)

notFlight == <<plan, at, step, waitsFor, ended, memo, expiries>>
phaseTo(e, c, phase) == flight' = [flight EXCEPT ![e][c].phase = phase]

\* The owner of an infer flight finds what an earlier flight stored.
recheck(e, c) ==
    /\ flight[e][c].phase = "recheck"
    /\ \/ \E v \in hot[c] : flight' = [flight EXCEPT ![e][c] =
             [phase |-> "stored", verdict |-> v, outcomes |-> <<>>]]
       \/ hot[c] = {} /\ phaseTo(e, c, "running")
    /\ UNCHANGED <<notFlight, inflight, hot>>

\* The validator's targets answer.
runValidator(e, c) ==
    /\ c.kind = "exec" /\ flight[e][c].phase = "running"
    /\ \E outcomes \in Outcomes(c) :
         flight' = [flight EXCEPT ![e][c] =
                      [phase |-> "ran", outcomes |-> outcomes,
                       verdict |-> runExpandedCommands(c, outcomes)]]
    /\ UNCHANGED <<notFlight, inflight, hot>>

\* The owner of an infer flight asks, under its own context.
inferCall(e, c) ==
    /\ c.kind = "infer" /\ flight[e][c].phase = "running"
    /\ \E outcome \in IF ended[e] THEN {"error"} ELSE Answers(c) :
         flight' = [flight EXCEPT ![e][c] =
                      [phase |-> "ran", outcomes |-> <<outcome>>,
                       verdict |-> verdictOf(c, outcome)]]
    /\ UNCHANGED <<notFlight, inflight, hot>>

toStored(e, c) ==
    flight' = [flight EXCEPT ![e][c] =
                 [phase |-> "stored", verdict |-> @.verdict, outcomes |-> <<>>]]
\* Mutant: whatever the run gave is cached.
cacheStoreAll(e, c) ==
    /\ flight[e][c].phase = "ran"
    /\ hot' = IF c.cached THEN [hot EXCEPT ![c] = {[flight[e][c].verdict EXCEPT
                                                      !.partial = FALSE]}]
              ELSE hot
    /\ toStored(e, c)
    /\ UNCHANGED <<notFlight, inflight>>
cacheStore(e, c) ==
    /\ flight[e][c].phase = "ran"
    /\ hot' = IF c.cached /\ ~flight[e][c].verdict.errored
              THEN [hot EXCEPT ![c] = {[flight[e][c].verdict EXCEPT
                                          !.partial = FALSE]}]
              ELSE hot
    /\ toStored(e, c)
    /\ UNCHANGED <<notFlight, inflight>>

\* finishValidatorFlight lets the waiters go and then, in a second step,
\* leaves the map; an infer flight does both under the mutex.
finishFlight(e, c) ==
    /\ flight[e][c].phase = "stored"
    /\ LET onItsOwn == inflight[c] # e
       IN  IF c.kind = "infer" \/ onItsOwn
           THEN /\ phaseTo(e, c, "gone")
                /\ inflight' = IF onItsOwn THEN inflight
                               ELSE [inflight EXCEPT ![c] = Nobody]
           ELSE phaseTo(e, c, "closed") /\ UNCHANGED inflight
    /\ UNCHANGED <<notFlight, hot>>

deleteFlight(e, c) ==
    /\ flight[e][c].phase = "closed"
    /\ phaseTo(e, c, "gone")
    /\ inflight' = [inflight EXCEPT ![c] = Nobody]
    /\ UNCHANGED <<notFlight, hot>>

expire(c) ==
    /\ hot[c] # {} /\ expiries < MaxExpiries
    /\ expiries' = expiries + 1 /\ hot' = [hot EXCEPT ![c] = {}]
    /\ UNCHANGED <<plan, at, step, waitsFor, ended, memo, inflight, flight>>

----------------------------------------------------------------------------
GatesInit ==
    /\ plan \in Plans
    /\ at = [e \in Events |-> 1] /\ step = [e \in Events |-> "lookup"]
    /\ waitsFor = [e \in Events |-> Nobody]
    /\ ended = [e \in Events |-> FALSE] /\ memo = [e \in Events |-> <<>>]
    /\ inflight = [c \in Conditions |-> Nobody]
    /\ flight = [e \in Events |-> [c \in Conditions |-> NoFlight]]
    /\ hot = [c \in Conditions |-> {}] /\ expiries = 0

EventNext(e) == recall(e) \/ cacheLookup(e) \/ fly(e) \/ joinDone(e)
                \/ joinEnded(e) \/ ownerTakes(e) \/ budgetEnds(e)
FlightNext(e, c) == recheck(e, c) \/ runValidator(e, c) \/ inferCall(e, c)
                    \/ cacheStore(e, c) \/ finishFlight(e, c)
                    \/ deleteFlight(e, c)

GatesNext == \/ \E e \in Events : EventNext(e) \/ contextEnds(e)
             \/ \E e \in Events, c \in Conditions : FlightNext(e, c)
             \/ \E c \in Conditions : expire(c)

\* A validator is killed at its background timeout and a model call at its
\* own, so every flight moves on.
GatesFairness ==
    /\ \A e \in Events : WF_gateVars(EventNext(e))
    /\ \A e \in Events, c \in Conditions : WF_gateVars(FlightNext(e, c))

----------------------------------------------------------------------------
Running(e, c) == flight[e][c].phase \in {"recheck", "running", "ran", "stored",
                                         "closed"}

(* At most one run of a shared condition is under way, also when the event   *)
(* that started it has gone on without it, and the map names exactly that    *)
(* run: a finished flight never takes another one's place away.              *)
OneFlightPerKey ==
    \A c \in Conditions :
        (c.cached \/ c.kind = "infer") =>
            {e \in Events : Running(e, c)} = {inflight[c]} \ {Nobody}

(* A cached verdict is one a validator or a model gave: neither a failure    *)
(* nor the on_error policy of an event that ran out of time is served to     *)
(* later events.                                                             *)
CachedIsAnswered ==
    \A c \in Conditions : \A v \in hot[c] :
        /\ ~v.errored
        /\ \E e \in Events :
             /\ flight[e][c].phase \in {"stored", "closed", "gone"}
             /\ flight[e][c].verdict.block = v.block

(* An event has one verdict for a condition however often it asks, although  *)
(* the run it gave up on may have answered in between.                       *)
OneVerdictPerEvent ==
    \A e \in Events : \A i, j \in DOMAIN memo[e] :
        plan[e][i] = plan[e][j] => memo[e][i] = memo[e][j]

(* No target that the validator cannot classify hides one that blocks, no    *)
(* condition over all targets blocks on an unknown one, and a block that     *)
(* was found after an unknown target says so.                                *)
TargetsDecide ==
    \A e \in Events, c \in Conditions :
        LET f == flight[e][c] o == ToSet(f.outcomes)
        IN  c.kind = "exec" /\ f.phase = "ran" /\ c.each # "" =>
              /\ c.each = "any" => /\ "block" \in o => f.verdict.block
                                   /\ "block" \in o => ~f.verdict.errored
              /\ c.each = "all" /\ ~f.verdict.errored =>
                   (f.verdict.block <=> (o \subseteq {"block"} /\ o # {}))
              /\ f.verdict.partial => "error" \in o /\ f.verdict.block
              /\ f.verdict.errored => "error" \in o

(* However an event comes by its verdicts, from a run of its own, from the   *)
(* flight of another one, from the cache or from targets that partly failed, *)
(* they agree with each other and with the commands (exec_gate.go).          *)
VerdictsAgree == OneVerdictPerEvent /\ TargetsDecide

(* The map of flights and the cache describe what really ran                 *)
(* (exec_gate.go: runValidatorSingleflight; infer_gate.go: singleflight).    *)
FlightsInOrder == OneFlightPerKey /\ CachedIsAnswered

(* Every event that began gets all its verdicts and every flight leaves the *)
(* map, whoever gave up waiting for it.                                      *)
EventsDecided ==
    (\E e \in Events : step[e] # "lookup")
      ~> /\ \A e \in Events : ~Evaluates(e)
         /\ \A c \in Conditions : inflight[c] = Nobody
============================================================================
