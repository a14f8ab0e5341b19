---------------------------- MODULE ReplayBuffer ----------------------------
(***************************************************************************)
(* SimpleReplayBuffer (fastsac/buffer.py) of one learner: a ring of        *)
(* BufferSize+1 slots indexed by absolute time, whose slot t+1 doubles as  *)
(* the next observation of step t, and a table of terminal observations    *)
(* whose rows are owned by the slots of truncated steps and reused.        *)
(* Host bookkeeping (ptr, freeRows, owners) changes when a call is made;   *)
(* slots, grid and table live on the device and change when the stream the *)
(* call was made on executes the operations it enqueued.                   *)
(*                                                                         *)
(* The data of an env step is abstracted to its ordinal; which steps       *)
(* terminate or are truncated is a constant.                               *)
(***************************************************************************)
EXTENDS Integers, Sequences, SequencesExt, FiniteSetsExt

CONSTANTS NumEnvs,     \* env blocks of the buffer
          BufferSize,  \* buffer_size
          Terminated,  \* the <<step, env>> whose dones flag is set
          Truncated    \* the <<step, env>> whose truncations flag is set

ASSUME ReplayAssumption ==
  /\ NumEnvs \in Nat \ {0} /\ BufferSize \in Nat \ {0}
  /\ Terminated \subseteq Nat \X (1..NumEnvs)
  /\ Truncated \subseteq Nat \X (1..NumEnvs)

Envs    == 1..NumEnvs
Cap     == BufferSize + 1
MaxRows == NumEnvs * Cap

VARIABLES
  ptr,       \* ptr: env steps appended
  freeRows,  \* _final_free, popped from its end
  owners,    \* _final_owners: per slot, env -> table row it owns
  replay,    \* per slot and env: the env step stored there
  grid,      \* _final_slot: per slot and env, a table row or -1
  table      \* _final_obs_table: row -> the env step whose terminal obs it holds

replayHost   == <<ptr, freeRows, owners>>
replayDevice == <<replay, grid, table>>

SlotAt(t) == t % Cap
Descending(from, to) == [i \in 1..(from - to + 1) |-> from - i + 1]

\* A set of envs, in the order of the rows of a batch.
InOrder(S) ==
  CHOOSE q \in [1..Cardinality(S) -> S] : \A i, j \in 1..Cardinality(S) : i < j => q[i] < q[j]

\* The empty buffer, its table grown once to NumEnvs rows.
ReplayInit ==
  /\ ptr = 0
  /\ freeRows = Descending(NumEnvs - 1, 0)
  /\ owners = [s \in 0..BufferSize |-> <<>>]
  /\ replay = [s \in 0..BufferSize |-> [c \in Envs |-> -1]]
  /\ grid   = [s \in 0..BufferSize |-> [c \in Envs |-> -1]]
  /\ table  = [r \in 0..(NumEnvs - 1) |-> -1]

-----------------------------------------------------------------------------
(* extend_batch: of k steps longer than the ring only the newest are       *)
(* written, but time advances by all of them.                              *)

Skip(k) == Max({0, k - Cap})

\* The slots k more steps are written to, in order.
Extended(k) == [i \in 1..(k - Skip(k)) |-> SlotAt(ptr + Skip(k) + i - 1)]

\* Mutant: the rows of overwritten steps are not given back.
NoRows(s) == <<>>

OwnedRows(s) ==
  LET envs == InOrder(DOMAIN owners[s])
  IN  [i \in 1..Len(envs) |-> owners[s][envs[i]]]

\* The host's part of extend_batch and _invalidate_final_slot.
Extend(k) ==
  /\ ptr' = ptr + k
  /\ freeRows' = freeRows \o FlattenSeq([i \in 1..Len(Extended(k)) |-> OwnedRows(Extended(k)[i])])
  /\ owners' = [s \in DOMAIN owners |-> IF s \in Range(Extended(k)) THEN <<>> ELSE owners[s]]

\* What it enqueues: the grid is cleared, then row Skip+i of the batch
\* goes to the i-th slot.
ExtendOps(k) ==
  <<[op |-> "clear", slots |-> Range(Extended(k))]>> \o
  [i \in 1..Len(Extended(k)) |-> [op |-> "row", slot |-> Extended(k)[i], from |-> Skip(k) + i]]

-----------------------------------------------------------------------------
(* write_final: the rows of the envs truncated at step t.                  *)

Replaced(envs, s) == InOrder(envs \cap DOMAIN owners[s])

Available(envs, s) ==
  freeRows \o [i \in 1..Len(Replaced(envs, s)) |-> owners[s][Replaced(envs, s)[i]]]

Lacking(envs, s) == Cardinality(envs) - Len(Available(envs, s))

\* _grow_final_storage: geometric, bounded by one row per transition.
Grown(needed) ==
  LET old == Cardinality(DOMAIN table)
  IN  Min({MaxRows, Max({NumEnvs, 2 * old, old + needed})})

\* The free rows once there are enough for the envs.
Supply(envs, s) ==
  IF Lacking(envs, s) <= 0 THEN Available(envs, s)
  ELSE Available(envs, s)
         \o Descending(Grown(Lacking(envs, s)) - 1, Cardinality(DOMAIN table))

\* The row each env is given, popped in env order.
Given(envs, s) ==
  LET ids == InOrder(envs)
  IN  [c \in envs |-> Supply(envs, s)[Len(Supply(envs, s)) + 1 - SelectInSeq(ids, LAMBDA e : e = c)]]

\* The host's part; the caller waits for the device first when the table grows.
WriteFinal(envs, s) ==
  /\ freeRows' = SubSeq(Supply(envs, s), 1, Len(Supply(envs, s)) - Cardinality(envs))
  /\ owners' = [owners EXCEPT ![s] =
                  [c \in DOMAIN owners[s] \cup envs |->
                     IF c \in envs THEN Given(envs, s)[c] ELSE owners[s][c]]]
  /\ table' = IF Lacking(envs, s) <= 0 THEN table
              ELSE [r \in 0..(Grown(Lacking(envs, s)) - 1) |->
                      IF r \in DOMAIN table THEN table[r] ELSE -1]

\* What it enqueues; final[c] is the step the payload of env c came from.
FinalOps(envs, s, final) ==
  <<[op |-> "final", slot |-> s, given |-> Given(envs, s), final |-> final]>>

-----------------------------------------------------------------------------
(* The device executes one enqueued operation; rows come from the batch    *)
(* buffers it was given, as they are by then.                              *)

Execute(o, buffers) ==
  \/ /\ o.op = "clear"
     /\ grid' = [s \in DOMAIN grid |->
                   IF s \in o.slots THEN [c \in Envs |-> -1] ELSE grid[s]]
     /\ UNCHANGED <<replay, table>>
  \/ /\ o.op = "row"
     /\ replay' = [replay EXCEPT ![o.slot] = buffers[o.from]]
     /\ UNCHANGED <<grid, table>>
  \/ /\ o.op = "final"
     /\ table' = [r \in DOMAIN table |->
                    IF \E c \in DOMAIN o.given : o.given[c] = r
                      THEN o.final[CHOOSE c \in DOMAIN o.given : o.given[c] = r]
                      ELSE table[r]]
     /\ grid' = [grid EXCEPT ![o.slot] =
                   [c \in Envs |-> IF c \in DOMAIN o.given THEN o.given[c] ELSE @[c]]]
     /\ UNCHANGED replay

-----------------------------------------------------------------------------
(* sample() when p steps had been appended, by its n_steps.                *)

NumStored(p) == Min({Max({p - 1, 0}), BufferSize})

\* The absolute times a window may start at.
Starts(n, p) ==
  IF n = 1 THEN (p - 1 - NumStored(p))..(p - 2)
  ELSE IF p - 1 < BufferSize THEN 0..(Max({1, p - n}) - 1)
  ELSE (p - 1 - BufferSize)..(p - 2)

StepAt(t, c) == replay[SlotAt(t)][c]

\* A truncated transition bootstraps from its own terminal observation, any
\* other from the observation of the next slot.
NextAt(t, c) ==
  IF <<StepAt(t, c), c>> \in Truncated /\ grid[SlotAt(t)][c] >= 0
    THEN <<"final", table[grid[SlotAt(t)][c]]>>
    ELSE <<"obs", StepAt(t + 1, c)>>

\* No window reads past the newest complete transition, p - 2.
MaxOff(n, p, t) == Min({n - 1, Max({p - 2 - t, 0})})

\* What a window starting at t returns, given the step each offset reads:
\* rewards stop at a termination, the bootstrap at a truncation too.
Window(n, p, t, c, Step(_)) ==
  LET offs  == 0..MaxOff(n, p, t)
      done  == {o \in offs : <<Step(o), c>> \in Terminated}
      trunc == {o \in offs : <<Step(o), c>> \in Truncated}
  IN  [first   |-> Step(0),
       rewards |-> {<<o, Step(o)>> : o \in {i \in offs : \A j \in done : i <= j}},
       off     |-> Min(done \cup trunc \cup {MaxOff(n, p, t)})]

Sampled(n, p, t, c) ==
  LET w == Window(n, p, t, c, LAMBDA o : StepAt(t + o, c))
  IN  [first |-> w.first, rewards |-> w.rewards, last |-> StepAt(t + w.off, c),
       next |-> NextAt(t + w.off, c)]

-----------------------------------------------------------------------------
(* The reference: the trajectory itself, without ring or table.            *)

\* What sample() must return: the env steps from t on, no longer than the
\* trajectory that was complete when p steps had been appended.
Trajectory(n, p, t, c) ==
  LET len   == Min({n, p - 1 - t})
      ends  == {o \in 0..(len - 1) : <<t + o, c>> \in Terminated \cup Truncated}
      last  == t + Min(ends \cup {len - 1})
      stops == {o \in 0..(len - 1) : <<t + o, c>> \in Terminated}
  IN  [first   |-> t,
       rewards |-> {<<o, t + o>> : o \in {i \in 0..(len - 1) : \A j \in stops : i <= j}},
       last    |-> last,
       next    |-> IF <<last, c>> \in Truncated THEN <<"final", last>>
                                                ELSE <<"obs", last + 1>>]

ReplayTypeOK ==
  /\ ptr \in Nat
  /\ DOMAIN table = 0..(Cardinality(DOMAIN table) - 1) /\ Cardinality(DOMAIN table) <= MaxRows
  /\ Range(freeRows) \subseteq DOMAIN table
  /\ \A s \in 0..BufferSize : \A c \in DOMAIN owners[s] : owners[s][c] \in DOMAIN table
  /\ grid \in [0..BufferSize -> [Envs -> {-1} \cup DOMAIN table]]

\* Every table row is free or owned by one transition, never both.
RowsPartitioned ==
  LET owned == {o \in (0..BufferSize) \X Envs : o[2] \in DOMAIN owners[o[1]]}
  IN  /\ Len(freeRows) + Cardinality(owned) = Cardinality(DOMAIN table)
      /\ Range(freeRows) \cup {owners[o[1]][o[2]] : o \in owned} = DOMAIN table
=============================================================================
