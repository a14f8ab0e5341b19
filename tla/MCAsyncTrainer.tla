--------------------------- MODULE MCAsyncTrainer ---------------------------
(***************************************************************************)
(* TLC instances of AsyncTrainer: two collectors and a run longer than a   *)
(* ring, so that the learner must ingest before any collector can finish.  *)
(***************************************************************************)
EXTENDS AsyncTrainer

MCNumCollectors == 2
MCNumIterations == 3
MCCapacity      == 2
MCLearningStarts == 1
MCFirstStats    == 2
MCErrorSlots    == 8

\* Two of anything but a collector killed outright: a stuck child and what
\* sets the shutdown off, a Ctrl+C and another one in the middle of it.
MCFaultKinds    == {"error", "interrupt", "killLearner", "hang", "signalFails"}
MCMaxFaults     == 2

\* An operating system that kills a collector (out of memory, say).
MCKillCollector == {"killCollector"}
MCOneFault      == 1
=============================================================================
