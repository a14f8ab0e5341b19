----------------------------- MODULE LearnerRanks -----------------------------
(***************************************************************************)
(* Several learner processes (num_learners > 1) from the opened start      *)
(* barrier on: each rank runs the loop of worker.py on the rings of its own*)
(* collectors and takes part in the collectives of maybe_train, update and *)
(* publish.  A rank enqueues a collective and goes on; the devices execute *)
(* it when every rank has come to it.  NCCL pairs collectives by their     *)
(* order alone: what it does when the kinds differ is not modelled, the    *)
(* collectives just do not complete.                                       *)
(*                                                                         *)
(* Rings are bounded FIFOs as in LearnerDrain; the gradient collectives of *)
(* one agent.update call are taken as one.                                 *)
(***************************************************************************)
EXTENDS Integers, Sequences, FiniteSets, Functions, FiniteSetsExt

CONSTANTS
  NumRanks,        \* num_learners
  NumCollectors,   \* num_collectors
  NumIterations,   \* env steps each collector is to take
  Capacity,        \* ring_capacity
  Budget,          \* max_ingest_per_iter
  LearningStarts,  \* learning_starts
  NumUpdates,      \* num_updates
  PublishInterval  \* weight_publish_interval

\* NumRanks > 1 divides NumCollectors (async_impl/train.py:163).
Ranks      == 0..(NumRanks - 1)
Collectors == 0..(NumCollectors - 1)
Owned(r)   == {c \in Collectors : c \div (NumCollectors \div NumRanks) = r}
Total      == NumIterations * NumCollectors

VARIABLES
  stop,    \* Control's stop flag
  steps,   \* env steps each collector has published
  merged,  \* per rank: generations of its collectors in its replay buffer
  rpc,     \* where each rank is
  step,    \* per rank: the progress its loop has read
  trained, \* rank 0's _last_train_gstep
  decided, \* the count rank 0 broadcasts
  due,     \* per rank: updates left of the count it was sent
  updates, \* per rank: update_idx, of calls
  calls,   \* per rank: collectives enqueued and not completed
  saved    \* the final checkpoint is on disk

shared == <<stop, steps>>
rank   == <<merged, rpc, step, due, updates, calls>>
vars   == <<shared, rank, trained, decided, saved>>

AllSteps == SumFunction(steps)

Init ==
  /\ stop = FALSE /\ steps = [c \in Collectors |-> 0]
  /\ merged = [r \in Ranks |-> 0] /\ rpc = [r \in Ranks |-> "loop"]
  /\ step = [r \in Ranks |-> 0] /\ trained = 0 /\ decided = 0
  /\ due = [r \in Ranks |-> 0] /\ updates = [r \in Ranks |-> 0]
  /\ calls = [r \in Ranks |-> <<>>] /\ saved = FALSE

At(r, pc)      == rpc[r] = pc
Goto(r, pc)    == rpc' = [rpc EXCEPT ![r] = pc]
Enqueue(r, op) == calls' = [calls EXCEPT ![r] = Append(@, op)]
Synced(r)      == calls[r] = <<>>

-----------------------------------------------------------------------------
(* The collectors, held back only by their own rings.                      *)

CollectorStep(c) ==
  /\ ~stop /\ steps[c] < NumIterations
  /\ \E r \in Ranks : c \in Owned(r) /\ steps[c] - merged[r] < Capacity
  /\ steps' = [steps EXCEPT ![c] = @ + 1]
  /\ UNCHANGED <<stop, rank, trained, decided, saved>>

\* The first to finish raises the stop flag in its finally clause.
CollectorDone(c) ==
  /\ ~stop /\ steps[c] = NumIterations
  /\ stop' = TRUE
  /\ UNCHANGED <<steps, rank, trained, decided, saved>>

-----------------------------------------------------------------------------
(* A rank's loop.                                                          *)

\* drain: generations all its collectors have published.
Drained(r) == [merged EXCEPT ![r] = Min({@ + Budget} \cup {steps[c] : c \in Owned(r)})]

\* The head of the loop: every rank reads the flag and the counters itself.
LoopGoesOn(r) ==
  /\ At(r, "loop") /\ ~stop /\ AllSteps < Total
  /\ Goto(r, "drain")
  /\ UNCHANGED <<shared, merged, step, due, updates, calls, trained, decided, saved>>

LoopEnds(r) ==
  /\ At(r, "loop") /\ (stop \/ AllSteps >= Total)
  /\ Enqueue(r, "barrier") /\ Goto(r, "barrier")
  /\ UNCHANGED <<shared, merged, step, due, updates, trained, decided, saved>>

DrainRings(r) ==
  /\ At(r, "drain")
  /\ step' = [step EXCEPT ![r] = AllSteps \div NumCollectors]
  /\ merged' = Drained(r) /\ Goto(r, "decide")
  /\ UNCHANGED <<shared, due, updates, calls, trained, decided, saved>>

\* What rank 0 finds due (utd_mode strict).
Due ==
  IF step[0] > trained /\ AllSteps >= LearningStarts * NumCollectors
  THEN NumUpdates * (step[0] - trained) ELSE 0

\* The count is broadcast; the others only take part.
Decide(r) ==
  /\ At(r, "decide")
  /\ decided' = IF r = 0 THEN Due ELSE decided
  /\ Enqueue(r, "broadcast") /\ Goto(r, "agree")
  /\ UNCHANGED <<shared, merged, step, due, updates, trained, saved>>

HasData(r) == merged[r] >= 2 \* num_stored > 0

\* A rank whose shard is empty waits for it, as long as nobody stops.
AwaitData(r) ==
  /\ At(r, "agree") /\ Synced(r) /\ ~HasData(r) /\ ~stop
  /\ merged' = Drained(r) /\ merged' # merged
  /\ UNCHANGED <<shared, rpc, step, due, updates, calls, trained, decided, saved>>

\* The count is known: this round trains, or not.
Agreed(r) ==
  /\ At(r, "agree") /\ Synced(r) /\ (HasData(r) \/ stop)
  /\ IF HasData(r) /\ due[r] > 0
       THEN Goto(r, "update") /\ trained' = (IF r = 0 THEN step[r] ELSE trained)
       ELSE Goto(r, "loop") /\ UNCHANGED trained
  /\ UNCHANGED <<shared, merged, step, due, updates, calls, decided, saved>>

\* One agent.update call, its gradients averaged over all ranks.
Update(r) ==
  /\ At(r, "update") /\ due[r] > 0 /\ ~stop
  /\ due' = [due EXCEPT ![r] = @ - Min({NumUpdates, @})]
  /\ updates' = [updates EXCEPT ![r] = @ + Min({NumUpdates, due[r]})]
  /\ IF updates'[r] % PublishInterval = 0
       THEN calls' = [calls EXCEPT ![r] = @ \o <<"update", "statistics">>] /\ Goto(r, "publish")
       ELSE Enqueue(r, "update") /\ UNCHANGED rpc
  /\ UNCHANGED <<shared, merged, step, trained, decided, saved>>

\* publish_weights: the statistics are merged over all ranks, and the
\* parameters have left the device when it returns.
Published(r) ==
  /\ At(r, "publish") /\ Synced(r) /\ Goto(r, "update")
  /\ UNCHANGED <<shared, merged, step, due, updates, calls, trained, decided, saved>>

RoundEnds(r) ==
  /\ At(r, "update") /\ (due[r] <= 0 \/ stop)
  /\ Goto(r, "loop")
  /\ UNCHANGED <<shared, merged, step, due, updates, calls, trained, decided, saved>>

\* Behind the teardown barrier rank 0 saves; every rank raises the flag.
Teardown(r) ==
  /\ At(r, "barrier") /\ Synced(r)
  /\ saved' = (saved \/ r = 0) /\ stop' = TRUE /\ Goto(r, "ended")
  /\ UNCHANGED <<steps, merged, step, due, updates, calls, trained, decided>>

-----------------------------------------------------------------------------
(* The next collective runs when it is everybody's next; a broadcast       *)
(* brings rank 0's count to all.                                           *)

Collective ==
  /\ \A r \in Ranks : calls[r] # <<>> /\ Head(calls[r]) = Head(calls[0])
  /\ calls' = [r \in Ranks |-> Tail(calls[r])]
  /\ due' = IF Head(calls[0]) = "broadcast" THEN [r \in Ranks |-> decided] ELSE due
  /\ UNCHANGED <<shared, merged, rpc, step, updates, trained, decided, saved>>

RankNext(r) ==
  \/ LoopGoesOn(r) \/ LoopEnds(r) \/ DrainRings(r) \/ Decide(r) \/ AwaitData(r)
  \/ Agreed(r) \/ Update(r) \/ Published(r) \/ RoundEnds(r) \/ Teardown(r)

Next ==
  \/ \E c \in Collectors : CollectorStep(c) \/ CollectorDone(c)
  \/ \E r \in Ranks : RankNext(r)
  \/ Collective

Spec == Init /\ [][Next]_vars

-----------------------------------------------------------------------------
TypeOK ==
  /\ stop \in BOOLEAN /\ saved \in BOOLEAN
  /\ steps \in [Collectors -> 0..NumIterations] /\ merged \in [Ranks -> 0..NumIterations]
  /\ rpc \in [Ranks -> {"loop", "drain", "decide", "agree", "update", "publish",
                        "barrier", "ended"}]
  /\ step \in [Ranks -> 0..NumIterations] /\ trained \in 0..NumIterations
  /\ decided \in Nat /\ due \in [Ranks -> Nat] /\ updates \in [Ranks -> Nat]
  /\ \A r \in Ranks : \A i \in DOMAIN calls[r] :
       calls[r][i] \in {"broadcast", "update", "statistics", "barrier"}

\* "All ranks have consumed the identical global step count, so the
\* collectives inside update() are matched" (worker.py:811-812): a gradient
\* collective never meets another kind on another rank.
UpdatesMatched ==
  \A r, s \in Ranks :
    /\ calls[r] # <<>> /\ calls[s] # <<>>
    /\ Head(calls[r]) = "update"
    => Head(calls[s]) = "update"
=============================================================================
