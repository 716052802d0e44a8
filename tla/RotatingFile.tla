---------------------------- MODULE RotatingFile ----------------------------
(***************************************************************************)
(* The rotating file sink: handlers/rotating_file.py over the two rotating *)
(* handlers of the standard library, step by step on the directory.  The  *)
(* handler runs on one thread at a time (the lock of logging.Handler), so *)
(* what interleaves is its rollover and a crash of the process, a failing *)
(* compression, and the clock.                                            *)
(*                                                                         *)
(* A file is a sequence of records, a directory a function on the names   *)
(* that exist.  Every record has the same length, so a size is a number of *)
(* records.                                                                *)
(***************************************************************************)
EXTENDS Integers, Sequences, FiniteSets, SequencesExt

CONSTANTS
    Configs,          \* the settings a run starts from
    Interval,         \* the rotation period, in ticks
    DefaultBackups,   \* stands for the 5 of make_rotating_file_handler
    DefaultLines,     \* stands for its 10_000_000 bytes
    MaxRecords,       \* bound on the records logged
    MaxFaults,        \* bound on crashes and failed compressions
    MaxTime           \* bound on the clock

\* RotationSettings.  No settings at all is the record with when "size",
\* backup_count and max_lines 0 and compress TRUE.
ConfigType == [when : {"size", "unit", "week"}, backup_count : Nat,
               max_lines : Nat, compress : BOOLEAN]

ASSUME RotationAssumption ==
    /\ Configs \subseteq ConfigType
    /\ {Interval, DefaultBackups, DefaultLines} \subseteq Nat \ {0}
    /\ {MaxRecords, MaxFaults, MaxTime} \subseteq Nat

VARIABLES
    config,      \* the settings of this run
    dir,         \* the directory
    pc,          \* where the handler is; "down" after a crash
    step,        \* the backup number doRollover has come to
    logged,      \* the records handed to the handler so far: 1 .. logged
    now, mtime,  \* the clock, and when the log file was last written
    rolloverAt,  \* TimedRotatingFileHandler.rolloverAt
    faults,      \* crashes and failed compressions so far
    written,     \* history: the records written, in order
    gens         \* history: the contents of the files rolled over

vars == <<config, dir, pc, step, logged, now, mtime, rolloverAt, faults, written, gens>>

----------------------------------------------------------------------------
\* File names and what the handler does to the directory.

Name == [kind : {"base", "num", "date"}, at : Nat, gz : BOOLEAN]
Base == [kind |-> "base", at |-> 0, gz |-> FALSE]
Num(i) == [kind |-> "num", at |-> i, gz |-> FALSE]
Date(t) == [kind |-> "date", at |-> t, gz |-> FALSE]
Gz(f) == [f EXCEPT !.gz = TRUE]

Files == DOMAIN dir
Put(f, c) == [g \in Files \cup {f} |-> IF g = f THEN c ELSE dir[g]]
Drop(f) == [g \in Files \ {f} |-> dir[g]]
Rename(f, g) == [h \in (Files \ {f}) \cup {g} |-> IF h = g THEN dir[f] ELSE dir[h]]

----------------------------------------------------------------------------
\* The parameters the handler is made with: a count or a size of 0 counts as
\* one that was not given.

Timed == config.when # "size"
Backups == IF config.backup_count = 0 THEN DefaultBackups ELSE config.backup_count
Lines == IF config.max_lines = 0 THEN DefaultLines ELSE config.max_lines

\* computeRollover: a weekly rotation has its fixed day, the others count from
\* the time they are given.  "midnight" has a fixed hour as well; here it goes
\* with "unit", from which it differs only in when the next rollover is due.
NextRollover(t) ==
    IF config.when = "week" THEN (t \div Interval + 1) * Interval ELSE t + Interval

ShouldRollover ==
    IF Timed THEN now >= rolloverAt ELSE Len(dir[Base]) + 1 >= Lines

\* Mutant of Rolled: the date suffix is coarser than the period.
Bug_Rolled == IF Timed THEN Date(((rolloverAt - Interval) \div (2 * Interval)) * 2 * Interval)
              ELSE Num(1)

\* The name the log file is renamed to.
Rolled == IF Timed THEN Date(rolloverAt - Interval) ELSE Num(1)

\* The only file _gzip_after_rollover looks for: for a weekly rotation the
\* date of the NEXT rollover, for any other one the number 1.
Candidate == IF config.when = "week" THEN Date(rolloverAt) ELSE Num(1)

\* getFilesToDelete: all but the newest of the dated files, by their names.
Dated == {f \in Files : f.kind = "date"}
\* Mutant of Older: the list is sorted the other way round.
Bug_Older(f, g) == f.at > g.at \/ (f.at = g.at /\ ~f.gz /\ g.gz)
Older(f, g) == f.at < g.at \/ (f.at = g.at /\ ~f.gz /\ g.gz)
ToDelete ==
    {f \in Dated : Cardinality({g \in Dated : Older(f, g)}) >= Backups}
----------------------------------------------------------------------------
RotationInit ==
    /\ config \in Configs
    /\ dir = [f \in {Base} |-> <<>>]
    /\ pc = "idle" /\ step = 0 /\ logged = 0
    /\ now = 0 /\ mtime = 0 /\ faults = 0
    /\ rolloverAt = NextRollover(0)
    /\ written = <<>> /\ gens = <<>>

\* A record comes; shouldRollover decides.
Emit ==
    /\ pc = "idle" /\ logged < MaxRecords
    /\ logged' = logged + 1
    /\ pc' = IF ShouldRollover THEN "roll" ELSE "write"
    /\ step' = IF Timed THEN 0 ELSE Backups - 1
    /\ UNCHANGED <<config, dir, now, mtime, rolloverAt, faults, written, gens>>

\* doRollover moves each numbered file one up, from the last to the first;
\* what is in the way is removed first.
Shift ==
    /\ pc = "roll" /\ step > 0
    /\ \/ Num(step) \notin Files /\ step' = step - 1 /\ UNCHANGED dir
       \/ {Num(step), Num(step + 1)} \subseteq Files
          /\ dir' = Drop(Num(step + 1)) /\ UNCHANGED step
       \/ Num(step) \in Files /\ Num(step + 1) \notin Files
          /\ dir' = Rename(Num(step), Num(step + 1)) /\ step' = step - 1
    /\ UNCHANGED <<config, pc, logged, now, mtime, rolloverAt, faults, written, gens>>

\* Then it renames the log file itself.
RollBase ==
    /\ pc = "roll" /\ step = 0
    /\ \/ Rolled \in Files
          /\ dir' = Drop(Rolled) /\ UNCHANGED <<pc, gens>>
       \/ Rolled \notin Files
          /\ dir' = Rename(Base, Rolled)
          /\ gens' = Append(gens, dir[Base])
          /\ pc' = "prune"
    /\ UNCHANGED <<config, step, logged, now, mtime, rolloverAt, faults, written>>

\* A timed rotation removes the dated files that are too many, oldest first.
Prune ==
    /\ pc = "prune"
    /\ \E f \in ToDelete : (\A g \in ToDelete : ~Older(g, f)) /\ dir' = Drop(f)
    /\ UNCHANGED <<config, pc, step, logged, now, mtime, rolloverAt, faults, written, gens>>

\* The log file is opened anew, and a timed rotation moves its time on.
Reopen ==
    /\ pc = "prune" /\ ToDelete = {}
    /\ dir' = Put(Base, <<>>)
    /\ mtime' = now
    /\ rolloverAt' = NextRollover(now)
    /\ pc' = "gzip"
    /\ UNCHANGED <<config, step, logged, now, faults, written, gens>>

\* _gzip_after_rollover: nothing, or the .gz file is opened and so emptied.
Gzip ==
    /\ pc = "gzip"
    /\ IF config.compress /\ Candidate \in Files
       THEN dir' = Put(Gz(Candidate), <<>>) /\ pc' = "copy"
       ELSE pc' = "write" /\ UNCHANGED dir
    /\ UNCHANGED <<config, step, logged, now, mtime, rolloverAt, faults, written, gens>>

CopyToGz ==
    /\ pc = "copy"
    /\ dir' = Put(Gz(Candidate), dir[Candidate])
    /\ pc' = "unlink"
    /\ UNCHANGED <<config, step, logged, now, mtime, rolloverAt, faults, written, gens>>

Unlink ==
    /\ pc = "unlink"
    /\ dir' = Drop(Candidate)
    /\ pc' = "write"
    /\ UNCHANGED <<config, step, logged, now, mtime, rolloverAt, faults, written, gens>>

\* Mutant of GzipRaises: the rolled file is removed in a finally clause.
Bug_GzipRaises ==
    /\ pc \in {"gzip", "copy", "unlink"} /\ faults < MaxFaults
    /\ config.compress /\ Candidate \in Files
    /\ dir' = Drop(Candidate)
    /\ faults' = faults + 1
    /\ pc' = "idle"
    /\ UNCHANGED <<config, step, logged, now, mtime, rolloverAt, written, gens>>

\* The disk is full or the file is gone: handleError gets the exception, and
\* the record in hand is not written.
GzipRaises ==
    /\ pc \in {"gzip", "copy", "unlink"} /\ faults < MaxFaults
    /\ config.compress /\ Candidate \in Files
    /\ faults' = faults + 1
    /\ pc' = "idle"
    /\ UNCHANGED <<config, dir, step, logged, now, mtime, rolloverAt, written, gens>>

Write ==
    /\ pc = "write"
    /\ dir' = [dir EXCEPT ![Base] = Append(@, logged)]
    /\ written' = Append(written, logged)
    /\ mtime' = now
    /\ pc' = "idle"
    /\ UNCHANGED <<config, step, logged, now, rolloverAt, faults, gens>>

\* The process dies between two of these steps.
Crash ==
    /\ pc # "down" /\ faults < MaxFaults
    /\ faults' = faults + 1
    /\ pc' = "down"
    /\ UNCHANGED <<config, dir, step, logged, now, mtime, rolloverAt, written, gens>>

\* Mutant of Restart: the handler is made with delay=True.
Bug_Restart ==
    /\ pc = "down"
    /\ pc' = "idle"
    /\ step' = 0
    /\ rolloverAt' = NextRollover(IF Base \in Files THEN mtime ELSE now)
    /\ UNCHANGED <<config, dir, logged, now, mtime, faults, written, gens>>

\* make_rotating_file_handler in a new process: the log file is opened for
\* appending, and a timed rotation starts from the time of its last write.
Restart ==
    /\ pc = "down"
    /\ pc' = "idle"
    /\ step' = 0
    /\ IF Base \in Files
       THEN UNCHANGED <<dir, mtime>> /\ rolloverAt' = NextRollover(mtime)
       ELSE /\ dir' = Put(Base, <<>>) /\ mtime' = now
            /\ rolloverAt' = NextRollover(now)
    /\ UNCHANGED <<config, logged, now, faults, written, gens>>

Tick ==
    /\ now < MaxTime /\ Timed
    /\ now' = now + 1
    /\ UNCHANGED <<config, dir, pc, step, logged, mtime, rolloverAt, faults, written, gens>>

Rollover == Shift \/ RollBase \/ Prune \/ Reopen \/ Gzip \/ CopyToGz \/ Unlink \/ GzipRaises
Next == Emit \/ Rollover \/ Write \/ Crash \/ Restart \/ Tick
Spec == RotationInit /\ [][Next]_vars
----------------------------------------------------------------------------
\* Properties.

FileContent == Seq(1..MaxRecords)

\* Every variable keeps its type, and the log file exists whenever the
\* handler is between two records.
TypeOK ==
    /\ config \in Configs
    /\ Files \subseteq Name /\ \A f \in Files : dir[f] \in FileContent
    /\ pc \in {"idle", "roll", "prune", "gzip", "copy", "unlink", "write", "down"}
    /\ pc \in {"idle", "roll", "gzip", "copy", "unlink", "write"} => Base \in Files
    /\ step \in 0..Backups /\ logged \in 0..MaxRecords
    /\ now \in 0..MaxTime /\ mtime \in 0..now
    /\ rolloverAt \in Nat /\ faults \in 0..MaxFaults
    /\ written \in FileContent /\ gens \in Seq(FileContent)

\* A timed rotation never compresses (Candidate), so its backups are plain.
Plain == ~config.compress \/ Timed

\* A rolled file is never lost before the next one is in place: the content
\* of the last file that was rolled over is whole in some file, plain or
\* compressed, whatever step a crash or a failed compression comes at.  With
\* a single backup the handler removes it first, and only then is it missing.
NewestSurvives ==
    (gens # <<>> /\ (Backups >= 2 \/ (faults = 0 /\ pc # "roll")))
        => \E f \in Files : dir[f] = Last(gens)

\* Reading the uncompressed backups from the oldest to the newest and then
\* the log file gives the last records written, in order and without a gap.
Backward == [i \in 1..Backups |-> IF Num(Backups - i + 1) \in Files
                                   THEN dir[Num(Backups - i + 1)] ELSE <<>>]
Forward == [t \in 1..MaxTime + 1 |-> IF Date(t - 1) \in Files
                                      THEN dir[Date(t - 1)] ELSE <<>>]
ReadsAsSuffix ==
    (Plain /\ Base \in Files) =>
        IsSuffix(FlattenSeq(IF Timed THEN Forward ELSE Backward) \o dir[Base], written)

\* The newest k files that were rolled over are on disk.
Retained(k) ==
    \A i \in 1..Len(gens) :
        i > Len(gens) - k => \E f \in Files \ {Base} : dir[f] = gens[i]
Rolling == IF pc = "roll" THEN 1 ELSE 0
KeptBackups == IF Len(gens) < Backups THEN Len(gens) ELSE Backups

\* Without compression backup_count rolled files are kept, and a crash in the
\* middle of a rollover costs at most one of them. And there are no more: the
\* log file and the backups, a compressed one beside its source, and one for
\* each crash between the renaming and the pruning of a timed rotation, until
\* the next rollover prunes them.
RetainsBackups ==
    /\ Plain => Retained(KeptBackups - faults - Rolling)
    /\ Cardinality(Files) <= Backups + (IF Plain THEN 1 ELSE 2) + (IF Timed THEN faults ELSE 0)

\* README.md:292 gives rotation.backup_count as the number of "retained
\* rotated files", compressed or not.
BackupsRetained == (faults = 0 /\ pc = "idle") => Retained(KeptBackups)
=============================================================================
