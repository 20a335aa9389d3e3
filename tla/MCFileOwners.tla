---------------------------- MODULE MCFileOwners ----------------------------
(* Two questions with bounds of their own (focus): two workers that compete  *)
(* for the files, with one receipt, and meet either a rotation or an error;  *)
(* and one worker that a reload of the configuration, a rotation and an      *)
(* error catch, with a receipt in the old and in the current file.           *)
EXTENDS FileOwners

CONSTANTS w1, w2

VARIABLE focus

MCFileOf == [r \in Receipt |-> r]

mcVars == <<vars, focus>>

\* Receipt 2 is of the current file.
Within == IF focus = "pair"
          THEN /\ reloads = 0 /\ row[2] = "absent"
               /\ faults > 0 => snapshot = FirstFile /\ ~transition
          ELSE worker[w2] = IdleWorker

MCInit == /\ Init
          /\ focus \in {"pair", "reload"}
          /\ Within

MCNext == /\ Next
          /\ focus' = focus
          /\ Within'

Moves(w) == focus = "pair" \/ w = w1

MCSpec ==
    /\ MCInit /\ [][MCNext]_mcVars
    /\ \A w \in Worker : WF_mcVars(Moves(w) /\ (WorkerStep(w) \/ borrowFails(w)) /\ focus' = focus)
    /\ \A a \in Agent : WF_mcVars(ReleaseStep(a) /\ focus' = focus)
    /\ WF_mcVars(ServerStep /\ focus' = focus)
=============================================================================
