------------------------------ MODULE Training ------------------------------
(***************************************************************************)
(* One training run of models/training/train_classifier.py: epochs, the    *)
(* best weights, the checkpoint a run resumes from, the mirror on another  *)
(* disk, and the notebook cell that adopts the checkpoint of an older      *)
(* clone.  A run can be killed at any point and started again, with the    *)
(* same options or others; the machine can be lost.                        *)
(*                                                                         *)
(* A checkpoint's weights are the number of epochs they were trained for,  *)
(* an epoch's result is its validation score.                              *)
(***************************************************************************)
EXTENDS Naturals, Sequences, FiniteSets

CONSTANTS
  Epochs,       \* config.epochs
  Patience,     \* config.early_stopping_patience, 0 turns it off
  MirrorEvery,  \* config.mirror_every
  Batches,      \* batches of an epoch
  Accumulation, \* config.accumulation_steps
  MaxScore,     \* top-1 accuracies are 0..MaxScore
  Schedulers,   \* the values of --scheduler in use, "cosine" among them
  MaxStarts,    \* bound: how often the run is started
  MaxLosses     \* bound: kills, failed copies, lost machines, new clones

ASSUME TrainingAssumption ==
  /\ Epochs \in Nat \ {0} /\ Patience \in Nat /\ MirrorEvery \in Nat \ {0}
  /\ Batches \in Nat \ {0} /\ Accumulation \in Nat \ {0}
  /\ MaxScore \in Nat /\ MaxStarts \in Nat /\ MaxLosses \in Nat
  /\ Schedulers \subseteq {"cosine", "onecycle", "step", "plateau"}

VARIABLES
  disk,    \* models/artifacts of the clone in use
  old,     \* models/artifacts of an older clone, on the machine or on Drive
  mirror,  \* config.mirror_dir
  proc,    \* the training process
  starts,  \* how often it was started
  losses,  \* how many losses there were
  struck   \* history: the kinds of mishap so far
vars == <<disk, old, mirror, proc, starts, losses, struck>>

Scores == 0..MaxScore
Results == UNION {[1..n -> Scores] : n \in 0..Epochs}

(* What the fields of a checkpoint should be, read off the epochs it lists. *)
Best(results) ==
  CHOOSE b \in Scores : /\ b = 0 \/ \E i \in DOMAIN results : results[i] = b
                        /\ \A i \in DOMAIN results : results[i] <= b
BestEpoch(results) ==
  CHOOSE e \in 0..Len(results) :
    /\ \A i \in 1..e - 1 : results[i] < Best(results)
    /\ IF Best(results) = 0 THEN e = 0 ELSE e > 0 /\ results[e] = Best(results)

(***************************************************************************)
(* Files.  last is replaced by a rename and is whole or absent, best and   *)
(* history are written in place.                                           *)
(***************************************************************************)
Absent == [kind |-> "absent"]
Torn == [kind |-> "torn"]

Last == [kind : {"last"}, results : Results, weights : Nat, schedule : Nat, best_top1 : Scores,
         epochs_without_improvement : Nat, scheduler : Schedulers]
BestFile == [kind : {"best"}, epoch : 1..Epochs, top1 : Scores]
History == [kind : {"history"}, results : Results, best_top1 : Scores,
            best_epoch : 0..Epochs]
Names == {"last", "best", "history"}
Empty == [name \in Names |-> Absent]

Mishaps == {"torn", "unfinished", "unmirrored", "mixed", "resumed", "fresh", "copied",
            "outdated"}

Idle == [pc |-> "off"]
Steps == {"begin", "epoch", "best", "checkpoint", "mirror", "finish", "deliver"}
RunStates ==
  [pc : Steps, results : Results, weights : Nat, schedule : Nat, best_top1 : Scores,
   best_epoch : 0..Epochs, epochs_without_improvement : Nat, scheduler : Schedulers]

TypeOK ==
  /\ \A place \in {disk, old, mirror} :
       /\ place \in [Names -> Last \cup BestFile \cup History \cup {Absent, Torn}]
       /\ place["last"] \in Last \cup {Absent, Torn}
       /\ place["best"] \in BestFile \cup {Absent, Torn}
       /\ place["history"] \in History \cup {Absent, Torn}
  /\ proc \in RunStates \cup [pc : {"off", "done"}]
  /\ starts \in 0..MaxStarts
  /\ losses \in 0..MaxLosses
  /\ struck \subseteq Mishaps

Init ==
  /\ disk = Empty /\ old = Empty /\ mirror = Empty
  /\ proc = Idle
  /\ starts = 0 /\ losses = 0
  /\ struck = {}

-----------------------------------------------------------------------------
(* Starting: from epoch 1, or from the checkpoint. *)

Untrained == [results |-> <<>>, weights |-> 0, schedule |-> 0, best_top1 |-> 0,
              epochs_without_improvement |-> 0]

\* What load_checkpoint() restores; best_epoch is not among it.
\* Mutant: the counter of early stopping starts again.
CounterForgotten(last) ==
  [results |-> last.results, weights |-> last.weights, schedule |-> last.schedule,
   best_top1 |-> last.best_top1,
   epochs_without_improvement |-> 0]
Restored(last) ==
  [results |-> last.results, weights |-> last.weights, schedule |-> last.schedule,
   best_top1 |-> last.best_top1,
   epochs_without_improvement |-> last.epochs_without_improvement]

\* The state of another scheduler has no lr_lambdas for LambdaLR to restore;
\* by the time that raises, the weights are those of the checkpoint.
LoadFails(last, scheduler) == scheduler = "cosine" /\ last.scheduler # "cosine"

\* What train() goes on with.
Resumed(scheduler, resume) ==
  LET last == disk["last"] IN
  IF ~resume \/ last \in {Absent, Torn} THEN Untrained
  ELSE IF LoadFails(last, scheduler) THEN [Untrained EXCEPT !.weights = last.weights]
  ELSE Restored(last)

\* What there is to remember about such a start.
StartMishaps(run, scheduler) ==
  (IF run.results # <<>> THEN {"resumed"} ELSE {})
  \cup (IF run.results = <<>> /\ {disk["last"], mirror["last"]} # {Absent}
        THEN {"fresh"} ELSE {})
  \cup (IF run.weights > 0 /\ disk["last"].scheduler # scheduler THEN {"mixed"} ELSE {})

Stopped == proc.pc \in {"off", "done"}

\* train() up to its loop; it returns at once if every epoch is behind it.
Start(scheduler, resume) ==
  /\ Stopped
  /\ starts < MaxStarts
  /\ LET run == Resumed(scheduler, resume) IN
     /\ proc' = IF Len(run.results) >= Epochs THEN [pc |-> "done"]
                ELSE [pc |-> "begin", results |-> run.results, weights |-> run.weights,
                      schedule |-> run.schedule, best_top1 |-> run.best_top1, best_epoch |-> 0, scheduler |-> scheduler,
                      epochs_without_improvement |-> run.epochs_without_improvement]
     /\ struck' = struck \cup StartMishaps(run, scheduler)
  /\ starts' = starts + 1
  /\ UNCHANGED <<disk, old, mirror, losses>>

-----------------------------------------------------------------------------
(* The loop. *)

Goto(pc) == proc' = [proc EXCEPT !.pc = pc]

\* Mutant: the best score so far is not taken over from the checkpoint.
BestOfSession == [kind |-> "history", results |-> proc.results, best_epoch |-> proc.best_epoch,
                  best_top1 |-> IF proc.best_epoch = 0 THEN 0 ELSE proc.best_top1]
HistoryNow == [kind |-> "history", results |-> proc.results, best_top1 |-> proc.best_top1,
               best_epoch |-> proc.best_epoch]

\* Written once up front, with what a resumed run brings along.
Begin ==
  /\ proc.pc = "begin"
  /\ disk' = [disk EXCEPT !["history"] = HistoryNow]
  /\ Goto("epoch")
  /\ UNCHANGED <<old, mirror, starts, losses, struck>>

\* Optimizer steps of an epoch: one for each full group of batches.
OptimizerSteps == Cardinality({batch \in 1..Batches : batch % Accumulation = 0})

\* Steps of the schedule in an epoch, and those it was laid out for: at least
\* one, also where an epoch is too short for the optimizer to take any.
PerBatch(scheduler) == scheduler \in {"cosine", "onecycle"}
ScheduleSteps(scheduler) == IF PerBatch(scheduler) THEN OptimizerSteps ELSE 1
PlannedSteps(scheduler) ==
  IF PerBatch(scheduler) /\ Accumulation <= Batches THEN Batches \div Accumulation ELSE 1

\* Top-1 of the better of the live and the averaged weights.
Better(raw, ema) == IF ema > raw THEN ema ELSE raw

\* The run after an epoch that scored top1.
\* Mutant: an epoch as good as the best counts as a new best.
TieIsBest(top1) ==
  LET better == top1 >= proc.best_top1 IN
  [proc EXCEPT
     !.pc = IF better THEN "best" ELSE "checkpoint",
     !.results = Append(@, top1),
     !.weights = @ + 1,
     !.schedule = @ + ScheduleSteps(proc.scheduler),
     !.best_top1 = IF better THEN top1 ELSE @,
     !.best_epoch = IF better THEN Len(proc.results) + 1 ELSE @,
     !.epochs_without_improvement = IF better THEN 0 ELSE @ + 1]
AfterEpoch(top1) ==
  LET better == top1 > proc.best_top1 IN
  [proc EXCEPT
     !.pc = IF better THEN "best" ELSE "checkpoint",
     !.results = Append(@, top1),
     !.weights = @ + 1,
     !.schedule = @ + ScheduleSteps(proc.scheduler),
     !.best_top1 = IF better THEN top1 ELSE @,
     !.best_epoch = IF better THEN Len(proc.results) + 1 ELSE @,
     !.epochs_without_improvement = IF better THEN 0 ELSE @ + 1]

Epoch ==
  /\ proc.pc = "epoch"
  /\ \E raw, ema \in Scores : proc' = AfterEpoch(Better(raw, ema))
  /\ UNCHANGED <<disk, old, mirror, starts, losses, struck>>

SaveBest ==
  /\ proc.pc = "best"
  /\ disk' = [disk EXCEPT !["best"] = [kind |-> "best", epoch |-> Len(proc.results),
                                       top1 |-> proc.best_top1]]
  /\ Goto("checkpoint")
  /\ UNCHANGED <<old, mirror, starts, losses, struck>>

SaveCheckpoint ==
  /\ proc.pc = "checkpoint"
  /\ disk' = [disk EXCEPT !["last"] =
                [kind |-> "last", results |-> proc.results, weights |-> proc.weights,
                 schedule |-> proc.schedule, best_top1 |-> proc.best_top1, scheduler |-> proc.scheduler,
                 epochs_without_improvement |-> proc.epochs_without_improvement]]
  /\ Goto("mirror")
  /\ UNCHANGED <<old, mirror, starts, losses, struck>>

\* The epoch just finished is the best so far.
IsBest == proc.epochs_without_improvement = 0

\* What is mirrored after an epoch.
\* Mutant: the interval is one epoch too long.
OneLate ==
  {"history"} \cup (IF IsBest THEN {"best"} ELSE {})
  \cup (IF Len(proc.results) % (MirrorEvery + 1) = 0 \/ Len(proc.results) = Epochs
        THEN {"last"} ELSE {})
Due ==
  {"history"} \cup (IF IsBest THEN {"best"} ELSE {})
  \cup (IF Len(proc.results) % MirrorEvery = 0 \/ Len(proc.results) = Epochs
        THEN {"last"} ELSE {})

Lose == losses < MaxLosses /\ losses' = losses + 1

\* mirror_files(): every copy is renamed into place or fails by itself.
Mirror(due) ==
  \E copied \in SUBSET due :
    /\ mirror' = [name \in Names |->
                    IF name \in copied /\ disk[name] # Absent THEN disk[name] ELSE mirror[name]]
    /\ IF copied = due THEN UNCHANGED <<losses, struck>>
       ELSE Lose /\ struck' = struck \cup {"unmirrored"}

OutOfPatience == Patience > 0 /\ proc.epochs_without_improvement >= Patience

MirrorEpoch ==
  /\ proc.pc = "mirror"
  /\ Mirror(Due)
  /\ Goto(IF OutOfPatience \/ Len(proc.results) >= Epochs THEN "finish" ELSE "epoch")
  /\ UNCHANGED <<disk, old, starts>>

\* The history as it is in the end.
Finish ==
  /\ proc.pc = "finish"
  /\ disk' = [disk EXCEPT !["history"] = HistoryNow]
  /\ Goto("deliver")
  /\ UNCHANGED <<old, mirror, starts, losses, struck>>

Deliver ==
  /\ proc.pc = "deliver"
  /\ Mirror(Names)
  /\ proc' = [pc |-> "done"]
  /\ UNCHANGED <<disk, old, starts>>

-----------------------------------------------------------------------------
(* Losses. *)

\* The file that is written in place where the process is.
Writing == CASE proc.pc \in {"begin", "finish"} -> {"history"}
             [] proc.pc = "best" -> {"best"}
             [] OTHER -> {}

\* What a kill here leaves to remember.
KillMishaps ==
  (IF proc.pc \in {"best", "checkpoint"} /\ IsBest THEN {"torn"} ELSE {})
  \cup (IF proc.pc \in {"mirror", "finish"} /\ Len(proc.results) >= Epochs
        THEN {"unfinished"} ELSE {})
  \cup (IF proc.pc \in {"mirror", "finish", "deliver"} THEN {"unmirrored"} ELSE {})

Kill ==
  /\ ~Stopped
  /\ Lose
  /\ \E torn \in SUBSET Writing :
       disk' = [name \in Names |-> IF name \in torn THEN Torn ELSE disk[name]]
  /\ struck' = struck \cup KillMishaps
  /\ proc' = Idle
  /\ UNCHANGED <<old, mirror, starts>>

\* The machine goes, and every clone on it; an older one on the mounted Drive
\* is searched, too, and stays.
MachineLost ==
  /\ Lose
  /\ disk' = Empty /\ old' \in {old, Empty}
  /\ struck' = IF old'["last"] # Absent /\ disk["last"] # Absent
               THEN struck \cup {"outdated"} ELSE struck
  /\ proc' = Idle
  /\ UNCHANGED <<mirror, starts>>

\* A fresh clone; the notebook's search finds the newest of the older ones.
Reclone ==
  /\ Stopped
  /\ Lose
  /\ old' = IF disk["last"] # Absent THEN disk ELSE old
  /\ disk' = Empty
  /\ proc' = Idle
  /\ UNCHANGED <<mirror, starts, struck>>

\* The notebook's cell copies the three files of an older clone in this order,
\* unless the clone in use has a newer checkpoint.  A stopped cell leaves the
\* file it was copying torn.
InOrder == <<"last", "best", "history">>

Adopt ==
  /\ Stopped
  /\ disk["last"] = Absent /\ old["last"] # Absent
  /\ \E n \in 0..Len(InOrder) :
       /\ disk' = [name \in Names |->
                     IF old[name] # Absent /\ \E i \in 1..n : InOrder[i] = name THEN old[name]
                     ELSE IF old[name] # Absent /\ n < Len(InOrder) /\ InOrder[n + 1] = name
                     THEN Torn
                     ELSE disk[name]]
       /\ IF n = Len(InOrder) THEN UNCHANGED <<losses, struck>>
          ELSE Lose /\ struck' = struck \cup {"copied"}
  /\ UNCHANGED <<old, mirror, proc, starts>>

\* Somebody copies the mirror back.
CopyBack ==
  /\ Stopped
  /\ disk["last"] = Absent /\ mirror["last"] # Absent
  /\ disk' = mirror
  /\ struck' = struck \cup {"copied"}
  /\ UNCHANGED <<old, mirror, proc, starts, losses>>

Next ==
  \/ \E scheduler \in Schedulers, resume \in BOOLEAN : Start(scheduler, resume)
  \/ Begin \/ Epoch \/ SaveBest \/ SaveCheckpoint \/ MirrorEpoch \/ Finish \/ Deliver
  \/ Kill \/ MachineLost \/ Reclone \/ Adopt \/ CopyBack

Spec == Init /\ [][Next]_vars

-----------------------------------------------------------------------------
(* A checkpoint is that of one uninterrupted run over the epochs it lists:  *)
(* best score and patience are what these epochs give, the weights have     *)
(* been trained for exactly these epochs, and the learning rate is where    *)
(* the schedule was laid out to be, provided an epoch has a step at all,    *)
(* unless a checkpoint was loaded under another scheduler                   *)
(* (save_checkpoint, load_checkpoint, build_scheduler).                     *)
CheckpointIsExact ==
  \A place \in {disk, old, mirror} :
    LET last == place["last"] IN
    last \notin {Absent, Torn} =>
      /\ last.best_top1 = Best(last.results)
      /\ last.epochs_without_improvement = Len(last.results) - BestEpoch(last.results)
      /\ \/ "mixed" \in struck
         \/ /\ last.weights = Len(last.results)
            /\ Accumulation <= Batches =>
                 last.schedule = Len(last.results) * PlannedSteps(last.scheduler)

(* The weights that would be shipped are those of the best epoch the        *)
(* checkpoint knows, at every time but between the two writes of train(),   *)
(* unless a run was killed between them, or the files were put together     *)
(* from a mirror or by an adoption that was stopped.                        *)
BestIsShipped ==
  LET last == disk["last"] IN
  /\ last \notin {Absent, Torn} /\ last.best_top1 > 0
  /\ Stopped \/ proc.pc \notin {"best", "checkpoint"}
  /\ struck \cap {"torn", "copied"} = {}
  => disk["best"] = [kind |-> "best", epoch |-> BestEpoch(last.results),
                     top1 |-> last.best_top1]

(* A run that returned has its whole history on disk, unless it was killed  *)
(* after its last checkpoint, its files were copied, or a run began anew    *)
(* over them; the best epoch in it is right or, after a resume, 0 (train()  *)
(* does not restore best_epoch).                                            *)
FinishedIsRecorded ==
  LET history == disk["history"] IN
  proc.pc = "done" /\ struck \cap {"unfinished", "copied", "fresh"} = {} =>
    /\ history \in History
    /\ history.results = disk["last"].results
    /\ history.best_top1 = Best(history.results)
    /\ \/ history.best_epoch = BestEpoch(history.results)
       \/ history.best_epoch = 0 /\ "resumed" \in struck

(* A lost machine costs fewer than MirrorEvery epochs: the checkpoint in    *)
(* the mirror is an earlier state of the same run and at most that far      *)
(* behind, unless a copy failed or was prevented, a run began anew, or an   *)
(* older clone on Drive outlived the newer one and can be adopted.          *)
MirrorFollows ==
  LET last == disk["last"]
      saved == IF mirror["last"] = Absent THEN <<>> ELSE mirror["last"].results IN
  /\ last \notin {Absent, Torn}
  /\ struck \cap {"unmirrored", "fresh", "outdated"} = {}
  => /\ Len(saved) <= Len(last.results)
     /\ saved = SubSeq(last.results, 1, Len(saved))
     /\ Len(last.results) - Len(saved) < MirrorEvery + (IF proc.pc = "mirror" THEN 1 ELSE 0)
=============================================================================
