---------------------------- MODULE WeightChannel ---------------------------
(***************************************************************************)
(* The weight channel from the learner to one collector                    *)
(* (transport/weight_channel.py): two snapshot slots guarded by a seqlock  *)
(* counter that is odd while the learner writes.  Neither side takes a     *)
(* lock or waits; a snapshot is copied word by word, so the two copies     *)
(* interleave.  A word's value is abstracted to the version it belongs to. *)
(*                                                                         *)
(* The two transports differ in where the collector's copy goes.  The host *)
(* receiver copies into private staging and loads the actor only after the *)
(* seqlock's re-check.  The CUDA-IPC receiver's _snapshot copies device to *)
(* device straight into the actor's bound parameters, before the re-check, *)
(* and its _load does nothing.  Normalizer statistics always travel        *)
(* through host shared memory and private staging.                         *)
(***************************************************************************)
EXTENDS Integers, FiniteSets

CONSTANTS ParamWords,  \* the pieces the flattened parameters are copied in
          StatWords,   \* the pieces of the normalizer's mean, std, var, count
          Transports,  \* transports to consider: a subset of {"host", "ipc"}
          MaxVersion   \* bound: publishes of the learner

Words == ParamWords \cup StatWords

ASSUME WordsAssumption ==
  ParamWords # {} /\ ParamWords \cap StatWords = {} /\ IsFiniteSet(Words)
ASSUME ChannelAssumption == Transports \subseteq {"host", "ipc"} /\ MaxVersion \in Nat

VARIABLES
  transport,  \* the channel's transport; fixed at start-up
  seq,        \* the shared seqlock counter
  slots,      \* the two shared snapshot slots
  todo,       \* words the learner has yet to write in this publish
  rpc,        \* where the collector is in maybe_load
  s1,         \* the value of seq maybe_load read first
  unread,     \* words the collector has yet to copy in this attempt
  staging,    \* the collector's private copy
  actor,      \* the collector's policy: its parameters and statistics
  loaded      \* _loaded_version

writer == <<seq, slots, todo>>
reader == <<rpc, s1, unread, staging, actor, loaded>>
vars   == <<transport, writer, reader>>

Version(s)    == s \div 2          \* public version of a counter value
Writing       == seq % 2 = 1
TargetSlot(s) == (Version(s) + 1) % 2
ActiveSlot(s) == Version(s) % 2

Init ==
  /\ transport \in Transports
  /\ seq = 0
  /\ slots = [b \in 0..1 |-> [w \in Words |-> 0]]
  /\ todo = {}
  /\ rpc = "idle" /\ s1 = 0 /\ unread = {}
  /\ staging = [w \in Words |-> 0]
  /\ actor = [w \in Words |-> 0]
  /\ loaded = 0

-----------------------------------------------------------------------------
(* The learner: publish().                                                 *)

PublishBegin ==
  /\ ~Writing /\ Version(seq) < MaxVersion
  /\ seq' = seq + 1
  /\ todo' = Words
  /\ UNCHANGED <<transport, slots, reader>>

\* _write_slot, the statistics and _complete_slot_write.  The host sender
\* fills the shared parameters last; the device copy of the IPC sender lands
\* anywhere between being enqueued and being waited for.
MayWrite(w) ==
  \/ w \in StatWords
  \/ transport = "ipc"
  \/ todo \cap StatWords = {}

WriteWord(w) ==
  /\ Writing /\ w \in todo /\ MayWrite(w)
  /\ slots' = [slots EXCEPT ![TargetSlot(seq)][w] = Version(seq) + 1]
  /\ todo' = todo \ {w}
  /\ UNCHANGED <<transport, seq, reader>>

PublishEnd ==
  /\ Writing /\ todo = {}
  /\ seq' = seq + 1
  /\ UNCHANGED <<transport, slots, todo, reader>>

-----------------------------------------------------------------------------
(* The collector: maybe_load().                                            *)

\* Mutant: off by one, the version after the loaded one is skipped.
LoadableAfterNext(s) == s % 2 = 0 /\ Version(s) > loaded + 1

\* Whether the counter value s lets an attempt start: an even value above
\* the loaded version.
Loadable(s) == s % 2 = 0 /\ Version(s) > loaded

\* Mutant: a second attempt re-reads the counter but not the snapshot.
StartWithoutCopy ==
  /\ s1' = seq
  /\ IF Loadable(seq)
       THEN rpc' = "copy" /\ unread' = IF rpc = "idle" THEN Words ELSE {}
       ELSE rpc' = "idle" /\ unread' = {}

StartAttempt ==
  /\ s1' = seq
  /\ IF Loadable(seq)
       THEN rpc' = "copy" /\ unread' = Words
       ELSE rpc' = "idle" /\ unread' = {}

PollLoad ==
  /\ rpc = "idle"
  /\ StartAttempt
  /\ UNCHANGED <<transport, writer, staging, actor, loaded>>

\* _snapshot copies the parameters, then the statistics are staged.
MayCopy(w) == w \in ParamWords \/ unread \cap ParamWords = {}

CopyWord(w) ==
  /\ rpc = "copy" /\ w \in unread /\ MayCopy(w)
  /\ LET value == slots[ActiveSlot(s1)][w]
     IN  IF transport = "ipc" /\ w \in ParamWords
           THEN actor' = [actor EXCEPT ![w] = value] /\ UNCHANGED staging
           ELSE staging' = [staging EXCEPT ![w] = value] /\ UNCHANGED actor
  /\ unread' = unread \ {w}
  /\ UNCHANGED <<transport, writer, rpc, s1, loaded>>

\* Mutant: the normalizer statistics stay in staging.
StagedParams == IF transport = "ipc" THEN {} ELSE ParamWords

\* The words _load and the statistics' copies bring in from staging.
StagedWords == IF transport = "ipc" THEN StatWords ELSE Words

\* Mutant: no re-check.
Unchecked == TRUE

\* The re-check of seq.
Recheck == seq = s1

\* Mutant: the counter is reported instead of the version it stands for.
LoadedCounter == s1

LoadedVersion == Version(s1)

\* Unchanged: load, a step of the collector alone.
LoadSnapshot ==
  /\ rpc = "copy" /\ unread = {} /\ Recheck
  /\ actor' = [w \in Words |-> IF w \in StagedWords THEN staging[w] ELSE actor[w]]
  /\ loaded' = LoadedVersion
  /\ rpc' = "idle"
  /\ UNCHANGED <<transport, writer, s1, unread, staging>>

\* Changed: back to the top of the loop, which reads seq afresh and gives up
\* until the next poll if the learner is writing.
RetryLoad ==
  /\ rpc = "copy" /\ unread = {} /\ ~Recheck
  /\ StartAttempt
  /\ UNCHANGED <<transport, writer, staging, actor, loaded>>

-----------------------------------------------------------------------------
Publish == PublishBegin \/ (\E w \in Words : WriteWord(w)) \/ PublishEnd

MaybeLoad ==
  PollLoad \/ (\E w \in Words : CopyWord(w)) \/ LoadSnapshot \/ RetryLoad

Next == Publish \/ MaybeLoad

Spec == Init /\ [][Next]_vars

\* The learner finishes a publish it began; the collector polls every
\* weight_poll_interval steps for as long as it runs.
FairSpec == Spec /\ WF_vars(Publish) /\ WF_vars(MaybeLoad)

-----------------------------------------------------------------------------
TypeOK ==
  /\ transport \in Transports
  /\ seq \in Nat
  /\ slots \in [0..1 -> [Words -> Nat]]
  /\ todo \subseteq Words /\ unread \subseteq Words
  /\ rpc \in {"idle", "copy"}
  /\ s1 \in Nat /\ loaded \in 0..MaxVersion
  /\ staging \in [Words -> Nat] /\ actor \in [Words -> Nat]

\* Whenever the collector's loop is outside maybe_load, that is whenever it
\* can infer actions, its parameters and statistics all are those of the
\* version it reports as loaded.
PolicyIsLoadedVersion ==
  rpc = "idle" => \A w \in Words : actor[w] = loaded

\* On the host transport, even in the middle of maybe_load.
HostPolicyIntact ==
  transport = "host" => \A w \in Words : actor[w] = loaded

\* Whatever the transport, at the moment a version is announced as loaded
\* the policy is that version, every word of it, and a newer one than before.
LoadIsConsistent ==
  [][loaded' # loaded =>
        loaded' > loaded /\ \A w \in Words : actor'[w] = loaded']_vars

\* The channel is a versioned register.  The policy of the IPC receiver is
\* taken at its word, loaded: its parameters are no register at all.
policyBar ==
  IF transport = "host" THEN actor ELSE [w \in Words |-> loaded]

Register == INSTANCE AtomicRegister
              WITH published <- Version(seq), policy <- policyBar

RefinesRegister == Register!Spec

\* Once the learner stops publishing, the collector ends up with the last
\* version, complete, in spite of never waiting for the learner.
EventuallyCurrent ==
  <>[](loaded = MaxVersion /\ \A w \in Words : actor[w] = MaxVersion)
=============================================================================
