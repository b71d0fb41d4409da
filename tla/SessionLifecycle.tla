-------------------------- MODULE SessionLifecycle --------------------------
(***************************************************************************)
(* What a dictation session promises the user, with none of the machinery: *)
(* one recording at a time, in order; only the newest session may type     *)
(* into the target or report its end; an older one that is still at work   *)
(* ends in silence; an end is final; a record exists only for a session    *)
(* that got as far as typing.                                              *)
(***************************************************************************)
EXTENDS Integers

CONSTANT MaxSessions

VARIABLES
  newest,    \* the last session started, 0 before the first
  stage,     \* the stage of each session
  recorded   \* the sessions with a history record

lifecycleVars == <<newest, stage, recorded>>

Ids == 1 .. MaxSessions

Stages == {"unborn", "recording", "processing", "inserting", "closing",
           "told", "dropped"}

LifecycleInit ==
  /\ newest = 0
  /\ stage = [s \in Ids |-> "unborn"]
  /\ recorded = {}

Becomes(s, next) == stage' = [stage EXCEPT ![s] = next]

Begin(s) ==
  /\ s = newest + 1
  /\ \A t \in Ids : stage[t] # "recording"
  /\ newest' = s
  /\ Becomes(s, "recording")
  /\ UNCHANGED recorded

(* The audio arrived. *)
Process(s) ==
  /\ stage[s] = "recording"
  /\ Becomes(s, "processing")
  /\ UNCHANGED <<newest, recorded>>

(* The text goes to the target application. *)
Insert(s) ==
  /\ stage[s] = "processing"
  /\ s = newest
  /\ Becomes(s, "inserting")
  /\ UNCHANGED <<newest, recorded>>

(* Leaving the insertion may leave a record. *)
MayRecord(s) ==
  IF stage[s] = "inserting" THEN recorded' \in {recorded, recorded \cup {s}}
                            ELSE UNCHANGED recorded

(* The outcome is known and about to be shown. *)
Close(s) ==
  /\ stage[s] \in {"recording", "processing", "inserting"}
  /\ s = newest
  /\ Becomes(s, "closing")
  /\ MayRecord(s)
  /\ UNCHANGED newest

Tell(s) ==
  /\ stage[s] \in {"recording", "processing", "inserting", "closing"}
  /\ s = newest
  /\ Becomes(s, "told")
  /\ MayRecord(s)
  /\ UNCHANGED newest

Drop(s) ==
  /\ stage[s] \in {"processing", "inserting", "closing"}
  /\ s # newest
  /\ Becomes(s, "dropped")
  /\ MayRecord(s)
  /\ UNCHANGED newest

LifecycleNext ==
  \E s \in Ids :
    Begin(s) \/ Process(s) \/ Insert(s) \/ Close(s) \/ Tell(s) \/ Drop(s)

LifecycleSpec == LifecycleInit /\ [][LifecycleNext]_lifecycleVars
=============================================================================
