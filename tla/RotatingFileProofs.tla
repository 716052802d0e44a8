------------------------- MODULE RotatingFileProofs -------------------------
(***************************************************************************)
(* What holds of the rotating file sink for every set of settings, every   *)
(* rotation period, and any number of records, crashes and failed          *)
(* compressions.                                                           *)
(***************************************************************************)
EXTENDS RotatingFile, SeqLemmas, FiniteSetTheorems

----------------------------------------------------------------------------
\* The operations on the directory, file by file.

LEMMA PutFacts ==
    ASSUME NEW f, NEW c
    PROVE  /\ DOMAIN Put(f, c) = Files \cup {f}
           /\ Put(f, c)[f] = c
           /\ \A g \in Files \ {f} : Put(f, c)[g] = dir[g]
  BY DEF Put

LEMMA DropFacts ==
    ASSUME NEW f
    PROVE  /\ DOMAIN Drop(f) = Files \ {f}
           /\ \A g \in Files \ {f} : Drop(f)[g] = dir[g]
  BY DEF Drop

LEMMA RenameFacts ==
    ASSUME NEW f \in Name, NEW g \in Name, f # g
    PROVE  /\ DOMAIN Rename(f, g) = (Files \ {f}) \cup {g}
           /\ Rename(f, g)[g] = dir[f]
           /\ \A h \in Files \ {f, g} : Rename(f, g)[h] = dir[h]
  BY DEF Rename

\* The names are all different.
LEMMA NameFacts ==
    ASSUME NEW i \in Nat
    PROVE  /\ {Base, Num(i), Date(i), Gz(Num(i)), Gz(Date(i))} \subseteq Name
           /\ Base.kind = "base" /\ Base.gz = FALSE
           /\ Num(i).kind = "num" /\ Num(i).at = i /\ Num(i).gz = FALSE
           /\ Date(i).kind = "date" /\ Date(i).at = i /\ Date(i).gz = FALSE
           /\ Gz(Num(i)).kind = "num" /\ Gz(Num(i)).at = i /\ Gz(Num(i)).gz = TRUE
           /\ Gz(Date(i)).kind = "date" /\ Gz(Date(i)).at = i /\ Gz(Date(i)).gz = TRUE
<1>1. /\ Base \in Name /\ Base.kind = "base" /\ Base.gz = FALSE
      /\ Num(i) \in Name /\ Num(i).kind = "num" /\ Num(i).at = i /\ Num(i).gz = FALSE
      /\ Date(i) \in Name /\ Date(i).kind = "date" /\ Date(i).at = i /\ Date(i).gz = FALSE
  BY DEF Name, Base, Num, Date
<1>2. ASSUME NEW f \in Name
      PROVE  /\ Gz(f) \in Name /\ Gz(f).gz = TRUE
             /\ Gz(f).kind = f.kind /\ Gz(f).at = f.at
  BY DEF Name, Gz
<1> QED
  BY <1>1, <1>2

LEMMA NumsDiffer ==
    ASSUME NEW i \in Nat, NEW j \in Nat, i # j
    PROVE  Num(i) # Num(j)
<1>1. Num(i).at = i /\ Num(j).at = j
  BY NameFacts
<1> QED
  BY <1>1

----------------------------------------------------------------------------
\* The parameters of the handler and the times of its rollovers.

LEMMA SettingFacts ==
    ASSUME config \in Configs
    PROVE  /\ config.when \in {"size", "unit", "week"} /\ config.compress \in BOOLEAN
           /\ Backups \in Nat \ {0} /\ Lines \in Nat \ {0}
           /\ Interval \in Nat \ {0}
           /\ {MaxRecords, MaxFaults, MaxTime} \subseteq Nat
  BY RotationAssumption DEF ConfigType, Backups, Lines

LEMMA Quotient ==
    ASSUME NEW t \in Nat, NEW k \in Nat \ {0}
    PROVE  /\ t \div k \in Nat /\ (t \div k) * k \in Nat
           /\ (t \div k) * k <= t /\ t < (t \div k) * k + k
           /\ ((t \div k) + 1) * k = (t \div k) * k + k
           /\ \A q \in Nat : q * k + k <= t => q * k < (t \div k) * k
<1>1. t \div k \in Nat /\ t % k \in 0..(k - 1) /\ t = k * (t \div k) + (t % k)
  OBVIOUS
<1> DEFINE d == t \div k
<1>2. d \in Nat /\ d * k \in Nat /\ d * k = k * d
  BY <1>1
<1>3. d * k <= t /\ t < d * k + k
  BY <1>1, <1>2
<1>4. (d + 1) * k = d * k + k
  BY <1>1
<1>5. ASSUME NEW q \in Nat, q * k + k <= t
      PROVE  q * k < d * k
  <2>1. q * k \in Nat /\ q * k + k < d * k + k
    BY <1>2, <1>3, <1>5
  <2> QED
    BY <2>1, <1>2
<1> QED
  BY <1>1, <1>2, <1>3, <1>4, <1>5
----------------------------------------------------------------------------
\* Type correctness.  The name the log file is renamed to needs a time that
\* is not before the epoch; the file that is compressed is there until it is
\* unlinked.

TypeInv ==
    /\ TypeOK
    /\ rolloverAt >= Interval
    /\ pc \notin {"idle", "down"} => logged >= 1
    /\ pc \in {"copy", "unlink"} => Candidate \in Files

DirOK(d) == DOMAIN d \subseteq Name /\ \A f \in DOMAIN d : d[f] \in FileContent

LEMMA SameSettings ==
    ASSUME config' = config
    PROVE  Backups' = Backups /\ Lines' = Lines /\ Timed' = Timed /\ Plain' = Plain
  BY DEF Backups, Lines, Timed, Plain

LEMMA NextRolloverFacts ==
    ASSUME config \in Configs, NEW t \in Nat
    PROVE  /\ NextRollover(t) \in Nat /\ NextRollover(t) >= Interval
           /\ NextRollover(t) <= t + Interval
           /\ \A d \in Nat :
                 /\ d + Interval <= t
                 /\ config.when = "week" => \E q \in Nat : d = q * Interval
                 => d < NextRollover(t) - Interval
<1>1. Interval \in Nat \ {0} /\ config.when \in {"size", "unit", "week"}
  BY SettingFacts
<1> DEFINE e == (t \div Interval) * Interval
<1>2. /\ e \in Nat /\ e <= t /\ ((t \div Interval) + 1) * Interval = e + Interval
      /\ \A q \in Nat : q * Interval + Interval <= t => q * Interval < e
  BY <1>1, Quotient
<1> HIDE DEF e
<1>3. CASE config.when = "week"
  <2>1. NextRollover(t) = e + Interval
    BY <1>2, <1>3 DEF NextRollover
  <2>2. NextRollover(t) - Interval = e
    BY <1>1, <1>2, <2>1
  <2>3. ASSUME NEW d \in Nat, d + Interval <= t, NEW q \in Nat, d = q * Interval
        PROVE  d < e
    BY <1>2, <2>3
  <2>4. NextRollover(t) \in Nat /\ NextRollover(t) >= Interval
        /\ NextRollover(t) <= t + Interval
    BY <1>1, <1>2, <2>1
  <2> QED
    BY <1>3, <2>2, <2>3, <2>4
<1>4. CASE config.when # "week"
  <2>1. NextRollover(t) = t + Interval
    BY <1>4 DEF NextRollover
  <2> QED
    BY <1>1, <1>4, <2>1
<1> QED
  BY <1>3, <1>4

LEMMA TypeInit ==
    ASSUME RotationInit
    PROVE  TypeInv
<1> USE DEF RotationInit
<1>1. config \in Configs
  OBVIOUS
<1>2. Files = {Base} /\ dir[Base] = <<>> /\ Base \in Name
  BY NameFacts, 0 \in Nat DEF Files
<1>3. <<>> \in FileContent /\ gens \in Seq(FileContent)
  BY DEF FileContent
<1>4. rolloverAt \in Nat /\ rolloverAt >= Interval
  BY <1>1, NextRolloverFacts
<1>5. Backups \in Nat \ {0} /\ {MaxRecords, MaxFaults, MaxTime} \subseteq Nat
  BY <1>1, SettingFacts
<1> QED
  BY <1>1, <1>2, <1>3, <1>4, <1>5 DEF TypeInv, TypeOK

\* The steps that leave the directory alone.
LEMMA TypeQuiet ==
    ASSUME TypeInv, Emit \/ GzipRaises \/ Crash \/ Tick \/ UNCHANGED vars
    PROVE  TypeInv'
<1>1. config' = config /\ dir' = dir
  BY DEF Emit, GzipRaises, Crash, Tick, vars
<1>2. config \in Configs /\ Backups' = Backups /\ rolloverAt' = rolloverAt
  BY <1>1, SameSettings DEF TypeInv, TypeOK, Emit, GzipRaises, Crash, Tick, vars
<1>3. Candidate' = Candidate /\ Files' = Files
  BY <1>1, <1>2 DEF Candidate, Files, Date, Num
<1>4. Backups \in Nat \ {0} /\ {MaxRecords, MaxFaults, MaxTime} \subseteq Nat
  BY <1>2, SettingFacts
<1> USE <1>1, <1>2, <1>3, <1>4 DEF TypeInv, TypeOK
<1>5. CASE Emit
  BY <1>5 DEF Emit
<1>6. CASE GzipRaises
  BY <1>6 DEF GzipRaises
<1>7. CASE Crash
  BY <1>7 DEF Crash
<1>8. CASE Tick
  BY <1>8 DEF Tick
<1>9. CASE UNCHANGED vars
  BY <1>9 DEF vars
<1> QED
  BY <1>5, <1>6, <1>7, <1>8, <1>9
\* The names in use: each of them is a name, and none is that of the log file.
LEMMA NamesInUse ==
    ASSUME TypeInv
    PROVE  /\ Base \in Name
           /\ Rolled \in Name /\ Candidate \in Name /\ Gz(Candidate) \in Name
           /\ Base \notin {Rolled, Candidate, Gz(Candidate)}
           /\ \A i \in Nat : Num(i) \in Name /\ Num(i) # Base
<1>1. /\ rolloverAt \in Nat /\ rolloverAt - Interval \in Nat
      /\ 1 \in Nat /\ 0 \in Nat
  BY RotationAssumption DEF TypeInv, TypeOK
<1>2. Base \in Name /\ Base.kind = "base"
  BY <1>1, NameFacts
<1>3. /\ Rolled \in Name /\ Rolled.kind # "base"
      /\ Candidate \in Name /\ Candidate.kind # "base"
      /\ Gz(Candidate) \in Name /\ Gz(Candidate).kind # "base"
  BY <1>1, NameFacts DEF Rolled, Candidate
<1>4. \A i \in Nat : Num(i) \in Name /\ Num(i).kind # "base"
  BY NameFacts
<1> QED
  BY <1>2, <1>3, <1>4

\* The operations keep a directory of sequences of records one.
LEMMA DirType ==
    ASSUME DirOK(dir), NEW f \in Name, NEW c \in FileContent
    PROVE  DirOK(Put(f, c)) /\ DirOK(Drop(f))
<1>1. Files \subseteq Name /\ \A h \in Files : dir[h] \in FileContent
  BY DEF DirOK, Files
<1>2. DirOK(Put(f, c))
  <2>1. /\ DOMAIN Put(f, c) = Files \cup {f} /\ Put(f, c)[f] = c
        /\ \A h \in Files \ {f} : Put(f, c)[h] = dir[h]
    BY PutFacts
  <2> DEFINE d == Put(f, c)
  <2> HIDE DEF d
  <2>2. DirOK(d)
    BY <1>1, <2>1 DEF DirOK, d
  <2> QED
    BY <2>2 DEF d
<1>3. DirOK(Drop(f))
  BY <1>1, DropFacts DEF DirOK
<1> QED
  BY <1>2, <1>3

LEMMA OpenType ==
    ASSUME DirOK(dir)
    PROVE  DirOK(Put(Base, <<>>)) /\ Base \in DOMAIN Put(Base, <<>>)
<1>0. 0 \in Nat
  OBVIOUS
<1>1. Base \in Name
  BY <1>0, NameFacts
<1>2. <<>> \in FileContent
  BY DEF FileContent
<1>3. DirOK(Put(Base, <<>>))
  BY <1>1, <1>2, DirType
<1>4. DOMAIN Put(Base, <<>>) = Files \cup {Base}
  BY PutFacts
<1>5. Base \in Files \cup {Base}
  OBVIOUS
<1> QED
  BY <1>3, <1>4, <1>5

LEMMA RenameType ==
    ASSUME DirOK(dir), NEW f \in Files, NEW g \in Name, f # g
    PROVE  DirOK(Rename(f, g))
<1>1. Files \subseteq Name /\ \A h \in Files : dir[h] \in FileContent
  BY DEF DirOK, Files
<1>2. f \in Name /\ f # g
  BY <1>1
<1>3. /\ DOMAIN Rename(f, g) = (Files \ {f}) \cup {g} /\ Rename(f, g)[g] = dir[f]
      /\ \A h \in Files \ {f, g} : Rename(f, g)[h] = dir[h]
  BY <1>2, RenameFacts
<1> DEFINE d == Rename(f, g)
<1> HIDE DEF d
<1>4. DirOK(d)
  BY <1>1, <1>2, <1>3 DEF DirOK, d
<1> QED
  BY <1>4 DEF d

\* The steps of a rollover, and the ones that write the log file.
LEMMA TypeShift ==
    ASSUME TypeInv, Shift
    PROVE  TypeInv'
<1>1. /\ config' = config /\ config \in Configs /\ Backups' = Backups
      /\ rolloverAt' = rolloverAt /\ pc = "roll" /\ pc' = "roll"
      /\ step \in 0..Backups /\ step > 0 /\ Base \in Files
  BY SameSettings DEF TypeInv, TypeOK, Shift
<1>2. Backups \in Nat \ {0}
  BY <1>1, SettingFacts
<1>3. step \in Nat /\ step + 1 \in Nat /\ step - 1 \in 0..Backups
  BY <1>1, <1>2
<1>4. /\ Base \in Name
      /\ Num(step) \in Name /\ Num(step) # Base
      /\ Num(step + 1) \in Name /\ Num(step + 1) # Base
      /\ Num(step) # Num(step + 1)
  <2>1. \A i, j \in Nat : i # j => Num(i) # Num(j)
    BY NumsDiffer
  <2>2. step # step + 1
    BY <1>3
  <2>3. Base \in Name /\ \A i \in Nat : Num(i) \in Name /\ Num(i) # Base
    BY NamesInUse
  <2> HIDE <1>1, <1>2
  <2> QED
    BY <1>3, <2>1, <2>2, <2>3
<1>5. DirOK(dir) /\ <<>> \in FileContent
  BY DEF TypeInv, TypeOK, DirOK, Files, FileContent
<1>6. DirOK(dir') /\ Base \in DOMAIN dir' /\ step' \in 0..Backups
  <2>1. CASE UNCHANGED dir /\ step' = step - 1
    BY <1>1, <1>3, <1>5, <2>1 DEF Files
  <2>2. CASE dir' = Drop(Num(step + 1)) /\ step' = step
    <3>1. DirOK(Drop(Num(step + 1)))
      BY <1>4, <1>5, DirType
    <3>2. Base \in DOMAIN Drop(Num(step + 1))
      BY <1>1, <1>4, DropFacts
    <3> QED
      BY <1>1, <2>2, <3>1, <3>2
  <2>3. CASE Num(step) \in Files /\ dir' = Rename(Num(step), Num(step + 1)) /\ step' = step - 1
    <3>1. DirOK(Rename(Num(step), Num(step + 1)))
      BY <1>4, <1>5, <2>3, RenameType
    <3>2. Base \in DOMAIN Rename(Num(step), Num(step + 1))
      <4>1. DOMAIN Rename(Num(step), Num(step + 1))
                = (Files \ {Num(step)}) \cup {Num(step + 1)}
        BY <1>4, RenameFacts
      <4> QED
        BY <1>1, <1>4, <4>1
    <3> QED
      BY <1>3, <2>3, <3>1, <3>2
  <2> QED
    BY <2>1, <2>2, <2>3 DEF Shift
<1> QED
  BY <1>1, <1>6 DEF TypeInv, TypeOK, Shift, DirOK, Files

LEMMA TypeRollBase ==
    ASSUME TypeInv, RollBase
    PROVE  TypeInv'
<1>1. /\ config' = config /\ config \in Configs /\ Backups' = Backups
      /\ rolloverAt' = rolloverAt /\ pc = "roll" /\ step' = step /\ Base \in Files
  BY SameSettings DEF TypeInv, TypeOK, RollBase
<1>2. DirOK(dir) /\ <<>> \in FileContent /\ dir[Base] \in FileContent
  BY <1>1 DEF TypeInv, TypeOK, DirOK, Files, FileContent
<1>3. CASE dir' = Drop(Rolled) /\ pc' = pc /\ gens' = gens
  <2>1. DirOK(dir') /\ Base \in DOMAIN dir'
    BY <1>1, <1>2, <1>3, NamesInUse, DirType, DropFacts
  <2> QED
    BY <1>1, <1>3, <2>1 DEF TypeInv, TypeOK, RollBase, DirOK, Files
<1>4. CASE dir' = Rename(Base, Rolled) /\ gens' = Append(gens, dir[Base]) /\ pc' = "prune"
  <2>1. DirOK(dir')
    BY <1>1, <1>2, <1>4, NamesInUse, RenameType
  <2>2. gens' \in Seq(FileContent)
    BY <1>2, <1>4, AppendProperties DEF TypeInv, TypeOK
  <2> QED
    BY <1>1, <1>4, <2>1, <2>2 DEF TypeInv, TypeOK, RollBase, DirOK, Files
<1> QED
  BY <1>3, <1>4 DEF RollBase

LEMMA TypePrune ==
    ASSUME TypeInv, Prune
    PROVE  TypeInv'
<1>1. /\ config' = config /\ Backups' = Backups /\ pc = "prune" /\ pc' = "prune"
  BY SameSettings DEF Prune
<1>2. PICK f \in ToDelete : dir' = Drop(f)
  BY DEF Prune
<1>3. f \in Files /\ DirOK(dir) /\ <<>> \in FileContent
  BY DEF ToDelete, Dated, TypeInv, TypeOK, DirOK, Files, FileContent
<1>4. DirOK(dir')
  <2>1. Files \subseteq Name /\ \A h \in Files : dir[h] \in FileContent
    BY <1>3 DEF DirOK, Files
  <2> QED
    BY <1>2, <2>1, DropFacts DEF DirOK
<1> QED
  BY <1>1, <1>4 DEF TypeInv, TypeOK, Prune, DirOK, Files
LEMMA TypeReopen ==
    ASSUME TypeInv, Reopen
    PROVE  TypeInv'
<1>1. /\ config' = config /\ config \in Configs /\ Backups' = Backups
      /\ pc = "prune" /\ pc' = "gzip" /\ rolloverAt' = NextRollover(now)
      /\ dir' = Put(Base, <<>>) /\ now \in Nat
  BY SettingFacts, SameSettings DEF TypeInv, TypeOK, Reopen
<1>2. rolloverAt' \in Nat /\ rolloverAt' >= Interval
  BY <1>1, NextRolloverFacts
<1>3. DirOK(dir) /\ <<>> \in FileContent
  BY DEF TypeInv, TypeOK, DirOK, Files, FileContent
<1>4. DirOK(dir') /\ Base \in DOMAIN dir'
  BY <1>1, <1>3, OpenType
<1>5. now \in 0..MaxTime /\ mtime' = now /\ now' = now /\ mtime' \in 0..now'
  BY <1>1 DEF TypeInv, TypeOK, Reopen
<1> QED
  BY <1>1, <1>2, <1>4, <1>5 DEF TypeInv, TypeOK, Reopen, DirOK, Files

LEMMA TypeGzip ==
    ASSUME TypeInv, Gzip \/ CopyToGz \/ Unlink
    PROVE  TypeInv'
<1>1. /\ config' = config /\ config \in Configs /\ Backups' = Backups
      /\ rolloverAt' = rolloverAt
      /\ pc \in {"gzip", "copy", "unlink"} /\ pc' \in {"copy", "unlink", "write"}
      /\ Base \in Files
  BY SameSettings DEF TypeInv, TypeOK, Gzip, CopyToGz, Unlink
<1>2. Candidate' = Candidate /\ Candidate # Gz(Candidate)
  <2>1. Candidate' = Candidate
    BY <1>1 DEF Candidate, Date, Num
  <2>2. rolloverAt \in Nat /\ 1 \in Nat
    BY DEF TypeInv, TypeOK
  <2>3. Candidate.gz = FALSE /\ Gz(Candidate).gz = TRUE
    BY <2>2, NameFacts DEF Candidate
  <2> QED
    BY <2>1, <2>3
<1>3. DirOK(dir) /\ <<>> \in FileContent
  BY DEF TypeInv, TypeOK, DirOK, Files, FileContent
<1>4. /\ DirOK(dir') /\ Base \in DOMAIN dir'
      /\ pc' \in {"copy", "unlink"} => Candidate \in DOMAIN dir'
  <2>1. CASE Gzip /\ config.compress /\ Candidate \in Files
    <3>1. dir' = Put(Gz(Candidate), <<>>)
      BY <2>1 DEF Gzip
    <3>2. DOMAIN dir' = Files \cup {Gz(Candidate)}
      BY <3>1, PutFacts
    <3> QED
      BY <1>1, <1>3, <2>1, <3>1, <3>2, NamesInUse, DirType
  <2>2. CASE Gzip /\ ~(config.compress /\ Candidate \in Files)
    BY <1>1, <1>3, <2>2 DEF Gzip, Files
  <2>3. CASE CopyToGz
    <3>1. dir' = Put(Gz(Candidate), dir[Candidate]) /\ Candidate \in Files
      BY <2>3 DEF CopyToGz, TypeInv
    <3>2. DOMAIN dir' = Files \cup {Gz(Candidate)}
      BY <3>1, PutFacts
    <3>3. dir[Candidate] \in FileContent
      BY <1>3, <3>1 DEF DirOK, Files
    <3> QED
      BY <1>1, <1>3, <3>1, <3>2, <3>3, NamesInUse, DirType
  <2>4. CASE Unlink
    <3>1. dir' = Drop(Candidate) /\ pc' = "write"
      BY <2>4 DEF Unlink
    <3>2. DOMAIN dir' = Files \ {Candidate}
      BY <3>1, DropFacts
    <3> QED
      BY <1>1, <1>3, <3>1, <3>2, NamesInUse, DirType
  <2> QED
    BY <2>1, <2>2, <2>3, <2>4
<1> QED
  BY <1>1, <1>2, <1>4 DEF TypeInv, TypeOK, Gzip, CopyToGz, Unlink, DirOK, Files

LEMMA TypeWrite ==
    ASSUME TypeInv, Write
    PROVE  TypeInv'
<1>1. /\ config' = config /\ config \in Configs /\ Backups' = Backups
      /\ rolloverAt' = rolloverAt /\ pc = "write" /\ pc' = "idle" /\ Base \in Files
  BY SameSettings DEF TypeInv, TypeOK, Write
<1>2. logged \in 1..MaxRecords
  BY <1>1, SettingFacts DEF TypeInv, TypeOK
<1>3. dir[Base] \in FileContent /\ Append(dir[Base], logged) \in FileContent
      /\ Append(written, logged) \in FileContent
  BY <1>1, <1>2, AppendProperties DEF TypeInv, TypeOK, FileContent
<1>4. DirOK(dir') /\ Base \in DOMAIN dir'
  <2>1. /\ DOMAIN dir' = Files /\ dir'[Base] = Append(dir[Base], logged)
        /\ \A f \in Files \ {Base} : dir'[f] = dir[f]
    BY <1>1 DEF Write, Files
  <2> QED
    BY <1>1, <1>3, <2>1 DEF TypeInv, TypeOK, DirOK
<1>5. now \in 0..MaxTime /\ mtime' = now /\ now' = now /\ mtime' \in 0..now'
  BY <1>1, SettingFacts DEF TypeInv, TypeOK, Write
<1> QED
  BY <1>1, <1>3, <1>4, <1>5 DEF TypeInv, TypeOK, Write, DirOK, Files

LEMMA TypeRestart ==
    ASSUME TypeInv, Restart
    PROVE  TypeInv'
<1>1. /\ config' = config /\ config \in Configs /\ Backups' = Backups
      /\ pc = "down" /\ pc' = "idle" /\ step' = 0 /\ now' = now
      /\ now \in Nat /\ mtime \in Nat /\ Backups \in Nat \ {0} /\ now \in 0..now
  BY SettingFacts, SameSettings DEF TypeInv, TypeOK, Restart
<1>2. DirOK(dir) /\ <<>> \in FileContent
  BY DEF TypeInv, TypeOK, DirOK, Files, FileContent
<1>3. /\ DirOK(dir') /\ Base \in DOMAIN dir' /\ mtime' \in 0..now
      /\ rolloverAt' \in Nat /\ rolloverAt' >= Interval
  <2>1. CASE Base \in Files
    BY <1>1, <1>2, <2>1, NextRolloverFacts DEF Restart, Files, TypeInv, TypeOK
  <2>2. CASE Base \notin Files
    <3>1. /\ dir' = Put(Base, <<>>) /\ mtime' = now /\ rolloverAt' = NextRollover(now)
      BY <2>2 DEF Restart
    <3>2. DirOK(dir') /\ Base \in DOMAIN dir'
      BY <1>2, <3>1, OpenType
    <3>3. rolloverAt' \in Nat /\ rolloverAt' >= Interval
      BY <1>1, <3>1, NextRolloverFacts
    <3> QED
      BY <1>1, <3>1, <3>2, <3>3
  <2> QED
    BY <2>1, <2>2
<1> QED
  BY <1>1, <1>3 DEF TypeInv, TypeOK, Restart, DirOK, Files

(* TypeOK together with what makes it inductive.                           *)
THEOREM TypeInvariance == Spec => []TypeInv
<1>1. RotationInit => TypeInv
  BY TypeInit
<1>2. TypeInv /\ [Next]_vars => TypeInv'
  BY TypeQuiet, TypeShift, TypeRollBase, TypePrune, TypeReopen, TypeGzip, TypeWrite,
     TypeRestart DEF Next, Rollover
<1> QED
  BY <1>1, <1>2, PTL DEF Spec

(* Every variable of the sink keeps its type, and the log file exists      *)
(* whenever the handler is between two records: whatever the steps of a    *)
(* rollover a crash or a failed compression comes between.                 *)
THEOREM TypeCorrect == Spec => []TypeOK
<1>1. TypeInv => TypeOK
  BY DEF TypeInv
<1> QED
  BY <1>1, TypeInvariance, PTL
----------------------------------------------------------------------------
\* Where the content of the file that was rolled over last is.
\*
\* A timed rotation: the dates of the backups come before the date the log
\* file would get next, because the clock has passed that date when the file
\* is rolled over and every new time is counted from the clock or from the
\* last write.  So the newest date is the last file, nothing is in its way,
\* no backup is ever a candidate for compression, and the one that is deleted
\* is an older one.

LastWrite == IF Base \in Files THEN mtime ELSE now
Aligned(t) == config.when = "week" => \E q \in Nat : t = q * Interval
NewestDate(f) == /\ f \in Dated /\ dir[f] = Last(gens)
                 /\ \A g \in Dated : g.at <= f.at

TimedInv ==
    Timed =>
        /\ \A f \in Files \ {Base} : f.kind = "date" /\ f.gz = FALSE /\ Aligned(f.at)
        /\ \A f \in Dated : f.at + Interval <= LastWrite
        /\ Base \in Files => \A f \in Dated : f.at < rolloverAt - Interval
        /\ Aligned(rolloverAt - Interval)
        /\ pc = "roll" => now >= rolloverAt
        /\ gens # <<>> => \E f \in Files : NewestDate(f)

\* A rotation by size: the last file is the compressed one or the one with
\* the lowest number, and the numbers are moved up from the top, so the number
\* one above is free by the time a file is moved there.  Only with a single
\* backup is the last file itself in the way.

NewestNum(j) == /\ Num(j) \in Files /\ dir[Num(j)] = Last(gens)
                /\ \A i \in 1..(j - 1) : Num(i) \notin Files
NewestGz == Gz(Num(1)) \in Files /\ dir[Gz(Num(1))] = Last(gens)

SizeInv ==
    ~Timed =>
        /\ \A f \in Files \ {Base} : f.kind = "num"
        /\ pc = "roll" /\ step < Backups - 1 => Num(step + 1) \notin Files
        /\ pc \in {"prune", "gzip", "copy"} => gens # <<>> /\ NewestNum(1)
        /\ pc = "unlink" => gens # <<>> /\ NewestGz
        /\ gens # <<>> /\ (Backups >= 2 \/ (faults = 0 /\ pc # "roll"))
              => NewestGz \/ \E j \in Nat : j >= 1 /\ NewestNum(j)

NewestInv == TypeInv /\ TimedInv /\ SizeInv

LEMMA NextAligned ==
    ASSUME config \in Configs, NEW t \in Nat
    PROVE  Aligned(NextRollover(t) - Interval)
<1>1. Interval \in Nat \ {0}
  BY SettingFacts
<1>2. CASE config.when = "week"
  <2>1. /\ t \div Interval \in Nat /\ (t \div Interval) * Interval \in Nat
        /\ ((t \div Interval) + 1) * Interval = (t \div Interval) * Interval + Interval
    BY <1>1, Quotient
  <2> DEFINE q == t \div Interval
  <2> HIDE DEF q
  <2>2. NextRollover(t) = q * Interval + Interval
    BY <1>2, <2>1 DEF NextRollover, q
  <2>3. q \in Nat /\ q * Interval \in Nat
    BY <2>1 DEF q
  <2>4. NextRollover(t) - Interval = q * Interval
    BY <1>1, <2>2, <2>3
  <2> QED
    BY <2>3, <2>4 DEF Aligned
<1> QED
  BY <1>2 DEF Aligned

LEMMA TimedInit ==
    ASSUME RotationInit
    PROVE  TimedInv
<1>1. Files = {Base} /\ gens = <<>> /\ pc = "idle" /\ config \in Configs
  BY DEF RotationInit, Files
<1>2. Dated = {}
  <2>1. Base.kind = "base"
    BY NameFacts, 0 \in Nat DEF Base
  <2> QED
    BY <1>1, <2>1 DEF Dated
<1>3. Aligned(rolloverAt - Interval)
  BY <1>1, NextAligned DEF RotationInit
<1> QED
  BY <1>1, <1>2, <1>3 DEF TimedInv

\* What the facts about the backups need, when no backup changes.
LEMMA TimedStays ==
    ASSUME TypeInv, TimedInv, TypeInv', config' = config, gens' = gens,
           rolloverAt' = rolloverAt, DOMAIN dir' = DOMAIN dir,
           \A f \in Files \ {Base} : dir'[f] = dir[f],
           now' >= now, mtime' >= mtime,
           Timed /\ pc' = "roll" => now' >= rolloverAt
    PROVE  TimedInv'
<1>1. Timed' = Timed /\ Files' = Files /\ Dated' = Dated
  BY SameSettings DEF Files, Dated
<1>2. LastWrite \in Nat /\ LastWrite' \in Nat /\ LastWrite' >= LastWrite
      /\ \A f \in Dated : f.at \in Nat
  <2>1. /\ now \in Nat /\ mtime \in Nat /\ now' \in Nat /\ mtime' \in Nat
        /\ \A f \in Dated : f.at \in Nat
    BY RotationAssumption DEF TypeInv, TypeOK, Dated, Name
  <2> QED
    BY <1>1, <2>1 DEF LastWrite
<1>3. Interval \in Nat
  BY RotationAssumption
<1>4. Base \notin Dated
  BY NameFacts, 0 \in Nat DEF Dated, Base
<1> SUFFICES ASSUME Timed
             PROVE  TimedInv'
  BY <1>1 DEF TimedInv
<1>5. \A f \in Files' \ {Base} : f.kind = "date" /\ f.gz = FALSE /\ Aligned(f.at)'
  BY <1>1 DEF TimedInv, Aligned
<1>6. \A f \in Dated' : f.at + Interval <= LastWrite'
  BY <1>1, <1>2, <1>3 DEF TimedInv
<1>7. Base \in Files' => \A f \in Dated' : f.at < rolloverAt' - Interval
  BY <1>1 DEF TimedInv
<1>8. Aligned(rolloverAt - Interval)'
  BY DEF TimedInv, Aligned
<1>9. pc' = "roll" => now' >= rolloverAt'
  BY <1>1
<1>10. gens' # <<>> => \E f \in Files' : NewestDate(f)'
  BY <1>1, <1>4 DEF TimedInv, NewestDate, Dated
<1> QED
  BY <1>5, <1>6, <1>7, <1>8, <1>9, <1>10 DEF TimedInv

\* A timed rotation never finds a file to compress.
LEMMA NothingToCompress ==
    ASSUME TypeInv, TimedInv, Timed, Base \in Files
    PROVE  Candidate \notin Files
<1>1. rolloverAt \in Nat /\ 1 \in Nat /\ Interval \in Nat
  BY RotationAssumption DEF TypeInv, TypeOK
<1>2. CASE config.when = "week"
  <2>1. Candidate.kind = "date" /\ Candidate.at = rolloverAt
    BY <1>1, <1>2, NameFacts DEF Candidate
  <2>2. ~(rolloverAt < rolloverAt - Interval)
    BY <1>1
  <2> QED
    BY <2>1, <2>2 DEF TimedInv, Dated
<1>3. CASE config.when # "week"
  <2>1. Candidate.kind = "num" /\ Base.kind = "base"
    BY <1>1, <1>3, NameFacts DEF Candidate
  <2> QED
    BY <2>1 DEF TimedInv
<1> QED
  BY <1>2, <1>3
LEMMA TimedQuiet ==
    ASSUME TypeInv, TimedInv, TypeInv',
           Emit \/ GzipRaises \/ Crash \/ Tick \/ Write \/ UNCHANGED vars
    PROVE  TimedInv'
<1>1. now \in Nat /\ mtime \in Nat /\ mtime <= now /\ Timed' = Timed
  BY RotationAssumption, SameSettings
     DEF TypeInv, TypeOK, Emit, GzipRaises, Crash, Tick, Write, vars
<1>2. CASE Emit
  <2>1. Timed /\ pc' = "roll" => now >= rolloverAt
    BY <1>2 DEF Emit, ShouldRollover
  <2> QED
    BY <1>1, <1>2, <2>1, TimedStays DEF Emit
<1>3. CASE GzipRaises
  BY <1>1, <1>3, TimedStays DEF GzipRaises
<1>4. CASE Crash
  BY <1>1, <1>4, TimedStays DEF Crash
<1>5. CASE Tick
  <2>1. Timed /\ pc' = "roll" => now' >= rolloverAt
    <3>1. rolloverAt \in Nat
      BY DEF TypeInv, TypeOK
    <3> QED
      BY <1>1, <1>5, <3>1 DEF Tick, TimedInv
  <2> QED
    BY <1>1, <1>5, <2>1, TimedStays DEF Tick
<1>6. CASE Write
  <2>1. DOMAIN dir' = DOMAIN dir /\ \A f \in Files \ {Base} : dir'[f] = dir[f]
    BY <1>6 DEF Write, Files
  <2> QED
    BY <1>1, <1>6, <2>1, TimedStays DEF Write
<1>7. CASE UNCHANGED vars
  <2>1. Timed /\ pc' = "roll" => now >= rolloverAt
    BY <1>7 DEF vars, TimedInv
  <2> QED
    BY <1>1, <1>7, <2>1, TimedStays DEF vars
<1> QED
  BY <1>2, <1>3, <1>4, <1>5, <1>6, <1>7

LEMMA TimedGzip ==
    ASSUME TypeInv, TimedInv, TypeInv', Gzip \/ CopyToGz \/ Unlink
    PROVE  TimedInv'
<1>1. Timed' = Timed /\ Base \in Files
  BY SameSettings DEF Gzip, CopyToGz, Unlink, TypeInv, TypeOK
<1> SUFFICES ASSUME Timed
             PROVE  TimedInv'
  BY <1>1 DEF TimedInv
<1>2. Candidate \notin Files
  BY <1>1, NothingToCompress
<1>3. pc \notin {"copy", "unlink"}
  BY <1>2 DEF TypeInv
<1>4. now \in Nat /\ mtime \in Nat
  BY RotationAssumption DEF TypeInv, TypeOK
<1>5. Gzip /\ dir' = dir /\ pc' = "write"
  BY <1>2, <1>3 DEF Gzip, CopyToGz, Unlink
<1> QED
  BY <1>4, <1>5, TimedStays DEF Gzip

LEMMA TimedShift ==
    ASSUME TypeInv, TimedInv, TypeInv', Shift
    PROVE  TimedInv'
<1>1. Timed' = Timed
  BY SameSettings DEF Shift
<1> SUFFICES ASSUME Timed
             PROVE  TimedInv'
  BY <1>1 DEF TimedInv
<1>2. step \in Nat /\ step + 1 \in Nat
  BY SettingFacts DEF TypeInv, TypeOK
<1>3. Num(step) \notin Files
  <2>1. Num(step).kind = "num" /\ Base.kind = "base"
    BY <1>2, NameFacts
  <2> QED
    BY <2>1 DEF TimedInv
<1>4. dir' = dir
  BY <1>3 DEF Shift
<1>5. now \in Nat /\ mtime \in Nat /\ (pc = "roll" => now >= rolloverAt)
  BY RotationAssumption DEF TypeInv, TypeOK, TimedInv
<1> QED
  BY <1>4, <1>5, TimedStays DEF Shift

LEMMA TimedRollBase ==
    ASSUME TypeInv, TimedInv, TypeInv', RollBase
    PROVE  TimedInv'
<1>1. Timed' = Timed /\ config' = config /\ config \in Configs
  BY SameSettings DEF RollBase, TypeInv, TypeOK
<1> SUFFICES ASSUME Timed
             PROVE  TimedInv'
  BY <1>1 DEF TimedInv
<1> DEFINE d == rolloverAt - Interval
<1>2. /\ Interval \in Nat /\ d \in Nat /\ d + Interval = rolloverAt
      /\ now \in Nat /\ rolloverAt <= now /\ Base \in Files /\ Aligned(d)
  BY RotationAssumption DEF TypeInv, TypeOK, TimedInv, RollBase
<1>3. \A f \in Files \ {Base} : f.kind = "date" /\ f.gz = FALSE /\ Aligned(f.at)
  BY DEF TimedInv
<1>4. \A f \in Dated : f.at \in Nat /\ f.at < d /\ f.at + Interval <= LastWrite
  BY <1>2 DEF TimedInv, Dated, Name, TypeInv, TypeOK
<1> HIDE DEF d
<1>5. /\ Rolled = Date(d) /\ Rolled.kind = "date" /\ Rolled.at = d /\ Rolled.gz = FALSE
      /\ Rolled \in Name /\ Base \in Name /\ Base.kind = "base" /\ Rolled # Base
  <2>1. Rolled = Date(d)
    BY DEF Rolled, d
  <2> QED
    BY <1>2, <2>1, NameFacts
<1>6. Rolled \notin Files
  <2>1. ~(d < d)
    BY <1>2
  <2> QED
    BY <1>4, <1>5, <2>1 DEF Dated
<1>7. /\ dir' = Rename(Base, Rolled) /\ gens' = Append(gens, dir[Base]) /\ pc' = "prune"
      /\ rolloverAt' = rolloverAt /\ now' = now /\ mtime' = mtime
  BY <1>6 DEF RollBase
<1>8. /\ Files' = (Files \ {Base}) \cup {Rolled} /\ dir'[Rolled] = dir[Base]
  <2>1. DOMAIN Rename(Base, Rolled) = (Files \ {Base}) \cup {Rolled}
        /\ Rename(Base, Rolled)[Rolled] = dir[Base]
    BY <1>5, RenameFacts
  <2> QED
    BY <1>7, <2>1 DEF Files
<1>9. Dated' = Dated \cup {Rolled} /\ Base \notin Files'
  BY <1>5, <1>8 DEF Dated
<1>10. LastWrite' = now /\ LastWrite = mtime /\ mtime \in Nat /\ mtime <= now
  BY <1>2, <1>7, <1>9 DEF LastWrite, TypeInv, TypeOK
<1>11. gens' # <<>> /\ Last(gens') = dir[Base]
  <2>1. gens \in Seq(FileContent) /\ dir[Base] \in FileContent
    BY <1>2 DEF TypeInv, TypeOK
  <2>2. gens' \in Seq(FileContent) /\ Len(gens') = Len(gens) + 1
        /\ gens'[Len(gens) + 1] = dir[Base] /\ Len(gens) \in Nat /\ Len(<<>>) = 0
    BY <1>7, <2>1, AppendProperties
  <2> QED
    BY <2>2 DEF Last
<1>12. \A f \in Files' \ {Base} : f.kind = "date" /\ f.gz = FALSE /\ Aligned(f.at)'
  BY <1>1, <1>2, <1>3, <1>5, <1>8 DEF Aligned
<1>13. \A f \in Dated' : f.at + Interval <= LastWrite' /\ f.at <= d
  BY <1>2, <1>4, <1>5, <1>9, <1>10
<1>14. Aligned(rolloverAt - Interval)'
  BY <1>1, <1>2, <1>7 DEF Aligned, d
<1>15. \E f \in Files' : NewestDate(f)'
  <2>1. PICK f \in Files' : f = Rolled
    BY <1>8
  <2>2. f \in Dated' /\ dir'[f] = Last(gens') /\ f.at = d
    BY <1>5, <1>8, <1>9, <1>11, <2>1
  <2>3. NewestDate(f)'
    BY <2>2, <1>13 DEF NewestDate
  <2> QED
    BY <2>3
<1> QED
  BY <1>7, <1>9, <1>12, <1>13, <1>14, <1>15 DEF TimedInv
LEMMA TimedPrune ==
    ASSUME TypeInv, TimedInv, TypeInv', Prune
    PROVE  TimedInv'
<1>1. /\ Timed' = Timed /\ config' = config /\ gens' = gens /\ rolloverAt' = rolloverAt
      /\ pc' = "prune" /\ now' = now /\ mtime' = mtime
  BY SameSettings DEF Prune
<1> SUFFICES ASSUME Timed
             PROVE  TimedInv'
  BY <1>1 DEF TimedInv
<1>2. PICK f \in ToDelete : dir' = Drop(f)
  BY DEF Prune
<1>3. f \in Dated /\ Cardinality({g \in Dated : Older(f, g)}) >= Backups
  BY <1>2 DEF ToDelete
<1>4. /\ Files' = Files \ {f} /\ Dated' = Dated \ {f}
      /\ \A g \in Files \ {f} : dir'[g] = dir[g]
  <2>1. DOMAIN Drop(f) = Files \ {f} /\ \A g \in Files \ {f} : Drop(f)[g] = dir[g]
    BY DropFacts
  <2>2. Files' = Files \ {f} /\ \A g \in Files \ {f} : dir'[g] = dir[g]
    BY <1>2, <2>1 DEF Files
  <2> QED
    BY <2>2 DEF Dated
<1>5. Base \notin Dated
  BY NameFacts, 0 \in Nat DEF Dated, Base
<1>6. LastWrite' = LastWrite
  BY <1>1, <1>3, <1>4, <1>5 DEF LastWrite
<1>7. ASSUME gens # <<>>
      PROVE  \E n \in Files' : NewestDate(n)'
  <2>1. PICK n \in Files : NewestDate(n)
    BY <1>7 DEF TimedInv
  <2>2. n # f
    <3>1. SUFFICES ASSUME n = f
                   PROVE  FALSE
      OBVIOUS
    <3>2. \A g \in Dated : g.at \in Nat /\ g.at <= f.at /\ g.gz = FALSE /\ f.gz = FALSE
      BY <1>3, <1>5, <2>1, <3>1 DEF NewestDate, TimedInv, Dated, Name, TypeInv, TypeOK
    <3>3. {g \in Dated : Older(f, g)} = {}
      BY <1>3, <3>2 DEF Older
    <3>4. Cardinality({g \in Dated : Older(f, g)}) = 0
      BY <3>3, FS_EmptySet
    <3> QED
      BY <1>3, <3>4, SettingFacts DEF TypeInv, TypeOK
  <2>3. NewestDate(n)'
    BY <1>1, <1>4, <2>1, <2>2 DEF NewestDate
  <2> QED
    BY <1>4, <2>2, <2>3
<1>8. \A g \in Files' \ {Base} : g.kind = "date" /\ g.gz = FALSE /\ Aligned(g.at)'
  BY <1>1, <1>4 DEF TimedInv, Aligned
<1>9. \A g \in Dated' : g.at + Interval <= LastWrite'
  BY <1>4, <1>6 DEF TimedInv
<1>10. Base \in Files' => \A g \in Dated' : g.at < rolloverAt' - Interval
  BY <1>1, <1>4 DEF TimedInv
<1>11. Aligned(rolloverAt - Interval)'
  BY <1>1 DEF TimedInv, Aligned
<1> QED
  BY <1>1, <1>7, <1>8, <1>9, <1>10, <1>11 DEF TimedInv

\* The log file is opened: its next date is counted from a time that the
\* period of no backup reaches beyond.
LEMMA TimedOpens ==
    ASSUME TypeInv, TimedInv, TypeInv', Reopen \/ Restart
    PROVE  TimedInv'
<1>1. /\ Timed' = Timed /\ config' = config /\ gens' = gens /\ config \in Configs
      /\ pc' # "roll" /\ now \in Nat /\ mtime \in Nat /\ mtime <= now
      /\ Interval \in Nat \ {0}
  BY RotationAssumption, SameSettings DEF Reopen, Restart, TypeInv, TypeOK
<1> SUFFICES ASSUME Timed
             PROVE  TimedInv'
  BY <1>1 DEF TimedInv
<1>2. Base \notin Dated
  BY NameFacts, 0 \in Nat DEF Dated, Base
<1>3. /\ Files' = Files \cup {Base} /\ \A f \in Files \ {Base} : dir'[f] = dir[f]
      /\ mtime' \in Nat /\ mtime' >= LastWrite /\ rolloverAt' = NextRollover(mtime')
  <2>1. CASE dir' = Put(Base, <<>>) /\ mtime' = now /\ rolloverAt' = NextRollover(now)
    <3>1. DOMAIN Put(Base, <<>>) = Files \cup {Base}
          /\ \A f \in Files \ {Base} : Put(Base, <<>>)[f] = dir[f]
      BY PutFacts
    <3> QED
      BY <1>1, <2>1, <3>1 DEF Files, LastWrite
  <2>2. CASE /\ Base \in Files /\ dir' = dir /\ mtime' = mtime
             /\ rolloverAt' = NextRollover(mtime)
    BY <1>1, <2>2 DEF Files, LastWrite
  <2> QED
    BY <2>1, <2>2 DEF Reopen, Restart
<1>4. LastWrite' = mtime' /\ Dated' = Dated /\ LastWrite \in Nat
  <2>1. Base.kind # "date"
    BY NameFacts, 0 \in Nat
  <2> QED
    BY <1>1, <1>3, <2>1 DEF LastWrite, Dated
<1>5. \A f \in Files' \ {Base} : f.kind = "date" /\ f.gz = FALSE /\ Aligned(f.at)'
  BY <1>1, <1>3 DEF TimedInv, Aligned
<1>6. \A f \in Dated : f.at \in Nat /\ f.at + Interval <= mtime' /\ Aligned(f.at)
  BY <1>1, <1>2, <1>3, <1>4 DEF TimedInv, Dated, Name, TypeInv, TypeOK
<1>7. \A f \in Dated' : f.at + Interval <= LastWrite'
  BY <1>4, <1>6
<1>8. \A f \in Dated' : f.at < rolloverAt' - Interval
  <2> DEFINE m == mtime'
  <2>1. m \in Nat /\ rolloverAt' = NextRollover(m)
    BY <1>3
  <2> HIDE DEF m
  <2>2. \A d \in Nat : d + Interval <= m /\ Aligned(d) => d < NextRollover(m) - Interval
    BY <1>1, <2>1, NextRolloverFacts DEF Aligned
  <2> QED
    BY <1>4, <1>6, <2>1, <2>2 DEF m
<1>9. Aligned(rolloverAt - Interval)'
  <2>1. PICK m \in Nat : rolloverAt' = NextRollover(m)
    BY <1>3
  <2>2. Aligned(NextRollover(m) - Interval)
    BY <1>1, NextAligned
  <2> QED
    BY <1>1, <2>1, <2>2 DEF Aligned
<1>10. gens' # <<>> => \E f \in Files' : NewestDate(f)'
  BY <1>1, <1>2, <1>3, <1>4 DEF TimedInv, NewestDate, Dated
<1> QED
  BY <1>1, <1>5, <1>7, <1>8, <1>9, <1>10 DEF TimedInv
\* The names a rotation by size uses.
LEMMA SizeNames ==
    /\ Base \in Name /\ Base.kind = "base"
    /\ Gz(Num(1)) \in Name /\ Gz(Num(1)) # Base /\ Gz(Num(1)).kind = "num"
    /\ \A i \in Nat : /\ Num(i) \in Name /\ Num(i).kind = "num"
                      /\ Num(i) # Base /\ Num(i) # Gz(Num(1))
    /\ \A i, j \in Nat : i # j => Num(i) # Num(j)
<1>1. Base \in Name /\ Base.kind = "base"
  BY NameFacts, 0 \in Nat
<1>2. Gz(Num(1)) \in Name /\ Gz(Num(1)).kind = "num" /\ Gz(Num(1)).gz = TRUE
  BY NameFacts, 1 \in Nat
<1>3. \A i \in Nat : Num(i) \in Name /\ Num(i).kind = "num" /\ Num(i).gz = FALSE
  BY NameFacts
<1>4. \A i, j \in Nat : i # j => Num(i) # Num(j)
  BY NumsDiffer
<1>5. Gz(Num(1)) # Base /\ \A i \in Nat : Num(i) # Base /\ Num(i) # Gz(Num(1))
  BY <1>1, <1>2, <1>3
<1> QED
  BY <1>1, <1>2, <1>3, <1>4, <1>5

LEMMA SizeInit ==
    ASSUME RotationInit
    PROVE  SizeInv
<1>1. Files = {Base} /\ gens = <<>> /\ pc = "idle"
  BY DEF RotationInit, Files
<1> QED
  BY <1>1 DEF SizeInv

\* What the facts about the backups need, when no backup changes.
LEMMA SizeStays ==
    ASSUME TypeInv, SizeInv, TypeInv', config' = config, gens' = gens,
           DOMAIN dir' \ {Base} = Files \ {Base},
           \A f \in Files \ {Base} : dir'[f] = dir[f],
           ~Timed /\ pc' = "roll" =>
               step' >= Backups - 1 \/ (pc = "roll" /\ step' = step),
           pc' \in {"prune", "gzip", "copy"} => pc \in {"prune", "gzip", "copy"},
           pc' = "unlink" => pc = "unlink",
           faults' = 0 /\ pc' # "roll" => faults = 0 /\ pc # "roll"
    PROVE  SizeInv'
<1>1. /\ Timed' = Timed /\ Backups' = Backups /\ Backups \in Nat \ {0}
      /\ Files' \ {Base} = Files \ {Base} /\ step \in Nat
  BY SettingFacts, SameSettings DEF Files, TypeInv, TypeOK
<1> SUFFICES ASSUME ~Timed
             PROVE  SizeInv'
  BY <1>1 DEF SizeInv
<1>2. /\ \A i \in Nat : Num(i) \in Files' <=> Num(i) \in Files
      /\ \A i \in Nat : Num(i) \in Files => dir'[Num(i)] = dir[Num(i)]
      /\ Gz(Num(1)) \in Files' <=> Gz(Num(1)) \in Files
      /\ Gz(Num(1)) \in Files => dir'[Gz(Num(1))] = dir[Gz(Num(1))]
  BY <1>1, SizeNames
<1>3. \A j \in Nat : NewestNum(j) => NewestNum(j)'
  <2> TAKE j \in Nat
  <2>1. (Num(j))' = Num(j) /\ \A i \in 1..(j - 1) : i \in Nat
    BY DEF Num
  <2> QED
    BY <1>2, <2>1 DEF NewestNum, Num
<1>4. NewestGz => NewestGz'
  BY <1>2 DEF NewestGz, Num, Gz
<1>5. ASSUME pc' = "roll", step' < Backups' - 1
      PROVE  Num(step' + 1) \notin Files'
  <2>1. pc = "roll" /\ step' = step /\ step < Backups - 1
    <3>1. step' \in Int /\ Backups \in Int
      BY <1>1 DEF TypeInv, TypeOK
    <3> QED
      BY <1>1, <1>5, <3>1
  <2>2. Num(step + 1) \notin Files /\ step + 1 \in Nat
    BY <1>1, <2>1 DEF SizeInv
  <2> QED
    BY <1>2, <2>1, <2>2
<1>6. \A f \in Files' \ {Base} : f.kind = "num"
  BY <1>1 DEF SizeInv
<1>7. pc' \in {"prune", "gzip", "copy"} => gens' # <<>> /\ NewestNum(1)'
  BY <1>3, 1 \in Nat DEF SizeInv
<1>8. pc' = "unlink" => gens' # <<>> /\ NewestGz'
  BY <1>4 DEF SizeInv
<1>9. ASSUME gens' # <<>>, Backups' >= 2 \/ (faults' = 0 /\ pc' # "roll")
      PROVE  NewestGz' \/ \E j \in Nat : j >= 1 /\ NewestNum(j)'
  <2>1. NewestGz \/ \E j \in Nat : j >= 1 /\ NewestNum(j)
    BY <1>1, <1>9 DEF SizeInv
  <2> QED
    BY <1>3, <1>4, <2>1
<1> QED
  BY <1>1, <1>5, <1>6, <1>7, <1>8, <1>9 DEF SizeInv, Num
LEMMA SizeQuiet ==
    ASSUME TypeInv, SizeInv, TypeInv',
           \/ Emit \/ GzipRaises \/ Crash \/ Tick \/ Write \/ Reopen \/ Restart
           \/ UNCHANGED vars
    PROVE  SizeInv'
<1>1. Timed' = Timed /\ config' = config
  BY SameSettings DEF Emit, GzipRaises, Crash, Tick, Write, Reopen, Restart, vars
<1> SUFFICES ASSUME ~Timed
             PROVE  SizeInv'
  BY <1>1 DEF SizeInv
<1>2. faults \in Nat /\ Backups \in Nat \ {0} /\ step \in Nat
  BY SettingFacts DEF TypeInv, TypeOK
<1>3. CASE Emit
  BY <1>1, <1>2, <1>3, SizeStays DEF Emit, Files
<1>4. CASE GzipRaises \/ Crash
  BY <1>1, <1>2, <1>4, SizeStays DEF GzipRaises, Crash, Files
<1>5. CASE Tick
  BY <1>5 DEF Tick
<1>6. CASE Write
  <2>1. DOMAIN dir' = Files /\ \A f \in Files \ {Base} : dir'[f] = dir[f]
    BY <1>6 DEF Write, Files
  <2> QED
    BY <1>1, <1>2, <1>6, <2>1, SizeStays DEF Write
<1>7. CASE dir' = Put(Base, <<>>) /\ (Reopen \/ Restart)
  <2>1. DOMAIN Put(Base, <<>>) = Files \cup {Base}
        /\ \A f \in Files \ {Base} : Put(Base, <<>>)[f] = dir[f]
    BY PutFacts
  <2>2. DOMAIN dir' \ {Base} = Files \ {Base}
        /\ \A f \in Files \ {Base} : dir'[f] = dir[f]
    BY <1>7, <2>1
  <2> QED
    BY <1>1, <1>2, <1>7, <2>2, SizeStays DEF Reopen, Restart
<1>8. CASE Restart /\ dir' = dir
  BY <1>1, <1>2, <1>8, SizeStays DEF Restart, Files
<1>9. CASE UNCHANGED vars
  BY <1>1, <1>2, <1>9, SizeStays DEF vars, Files
<1> QED
  BY <1>3, <1>4, <1>5, <1>6, <1>7, <1>8, <1>9 DEF Reopen, Restart

\* Nothing is dated, so nothing is pruned.
LEMMA SizePrune ==
    ASSUME TypeInv, SizeInv, Prune
    PROVE  SizeInv'
<1>1. Timed' = Timed
  BY SameSettings DEF Prune
<1>2. ~Timed => Dated = {}
  BY SizeNames DEF SizeInv, Dated
<1> QED
  BY <1>1, <1>2 DEF Prune, ToDelete, SizeInv

LEMMA SizeGzip ==
    ASSUME TypeInv, SizeInv, TypeInv', Gzip \/ CopyToGz \/ Unlink
    PROVE  SizeInv'
<1>1. /\ Timed' = Timed /\ config' = config /\ gens' = gens /\ Backups' = Backups
      /\ step' = step /\ faults' = faults /\ pc' \in {"copy", "unlink", "write"}
  BY SameSettings DEF Gzip, CopyToGz, Unlink
<1> SUFFICES ASSUME ~Timed
             PROVE  SizeInv'
  BY <1>1 DEF SizeInv
<1>2. Candidate = Num(1) /\ Num(1) = Num(1)' /\ Gz(Num(1)) = Gz(Num(1))'
  BY DEF Candidate, Timed, Num, Gz
<1>3. 1 \in Nat /\ Num(1) # Gz(Num(1)) /\ Num(1) \in Name
  BY SizeNames
<1> DEFINE n == Num(1)
           z == Gz(Num(1))
<1>4. CASE Gzip /\ ~(config.compress /\ Candidate \in Files)
  BY <1>1, <1>4, SizeStays DEF Gzip, Files
<1>5. CASE Gzip /\ config.compress /\ Candidate \in Files
  <2>1. /\ DOMAIN dir' = Files \cup {z} /\ \A f \in Files \ {z} : dir'[f] = dir[f]
        /\ pc' = "copy"
    <3>1. dir' = Put(z, <<>>) /\ pc' = "copy"
      BY <1>2, <1>5 DEF Gzip
    <3>2. DOMAIN Put(z, <<>>) = Files \cup {z}
          /\ \A f \in Files \ {z} : Put(z, <<>>)[f] = dir[f]
      BY PutFacts
    <3> QED
      BY <3>1, <3>2
  <2>2. gens # <<>> /\ NewestNum(1)
    BY <1>5 DEF SizeInv, Gzip
  <2>3. NewestNum(1)'
    BY <1>1, <1>2, <1>3, <2>1, <2>2 DEF NewestNum, Files
  <2>4. \A f \in Files' \ {Base} : f.kind = "num"
    BY <2>1, SizeNames DEF SizeInv, Files
  <2> QED
    BY <1>1, <2>1, <2>2, <2>3, <2>4, 1 \in Nat DEF SizeInv
<1>6. CASE CopyToGz
  <2>1. /\ DOMAIN dir' = Files \cup {z} /\ dir'[z] = dir[n] /\ pc' = "unlink"
    BY <1>2, <1>6, PutFacts DEF CopyToGz
  <2>2. gens # <<>> /\ NewestNum(1)
    BY <1>6 DEF SizeInv, CopyToGz
  <2>3. NewestGz'
    BY <1>1, <1>2, <2>1, <2>2 DEF NewestNum, NewestGz, Files
  <2>4. \A f \in Files' \ {Base} : f.kind = "num"
    BY <2>1, SizeNames DEF SizeInv, Files
  <2> QED
    BY <1>1, <2>1, <2>2, <2>3, <2>4 DEF SizeInv
<1>7. CASE Unlink
  <2>1. /\ DOMAIN dir' = Files \ {n} /\ \A f \in Files \ {n} : dir'[f] = dir[f]
        /\ pc' = "write"
    BY <1>2, <1>7, DropFacts DEF Unlink
  <2>2. gens # <<>> /\ NewestGz
    BY <1>7 DEF SizeInv, Unlink
  <2>3. NewestGz'
    BY <1>1, <1>2, <1>3, <2>1, <2>2 DEF NewestGz, Files
  <2>4. \A f \in Files' \ {Base} : f.kind = "num"
    BY <2>1 DEF SizeInv, Files
  <2> QED
    BY <1>1, <2>1, <2>2, <2>3, <2>4 DEF SizeInv
<1> QED
  BY <1>4, <1>5, <1>6, <1>7
LEMMA SizeShift ==
    ASSUME TypeInv, SizeInv, TypeInv', Shift
    PROVE  SizeInv'
<1>1. /\ Timed' = Timed /\ config' = config /\ gens' = gens /\ Backups' = Backups
      /\ faults' = faults /\ pc = "roll" /\ pc' = "roll"
      /\ Backups \in Nat \ {0} /\ step \in Nat /\ step >= 1 /\ step + 1 \in Nat
  BY SettingFacts, SameSettings DEF Shift, TypeInv, TypeOK
<1> SUFFICES ASSUME ~Timed
             PROVE  SizeInv'
  BY <1>1 DEF SizeInv
<1> DEFINE lo == Num(step)
           hi == Num(step + 1)
<1>2. /\ lo \in Name /\ hi \in Name /\ lo # hi /\ lo # Base /\ hi # Base
      /\ lo.kind = "num" /\ hi.kind = "num" /\ Gz(Num(1)) \notin {lo, hi}
      /\ \A i \in Nat : Num(i) = lo <=> i = step
      /\ \A i \in Nat : Num(i) = hi <=> i = step + 1
  <2>1. step # step + 1
    BY <1>1
  <2> QED
    BY <1>1, <2>1, SizeNames
<1>3. NewestGz' <=> Gz(Num(1)) \in Files' /\ dir'[Gz(Num(1))] = Last(gens)
  BY <1>1 DEF NewestGz, Num, Gz
<1>4. gens # <<>> /\ Backups >= 2 => NewestGz \/ \E j \in Nat : j >= 1 /\ NewestNum(j)
  BY DEF SizeInv
\* It is enough to show these four.
<1>5. ASSUME \A f \in Files' \ {Base} : f.kind = "num",
             step' < Backups - 1 => Num(step' + 1) \notin Files',
             NewestGz => NewestGz',
             ASSUME NEW j \in Nat, j >= 1, NewestNum(j)
             PROVE  \E k \in Nat : k >= 1 /\ NewestNum(k)'
      PROVE  SizeInv'
  BY <1>1, <1>4, <1>5 DEF SizeInv, Num
<1>6. CASE lo \notin Files /\ step' = step - 1 /\ dir' = dir
  <2>1. Files' = Files /\ step' + 1 = step
    BY <1>1, <1>6 DEF Files
  <2>2. NewestGz => NewestGz'
    BY <1>3, <1>6, <2>1 DEF NewestGz
  <2>3. ASSUME NEW j \in Nat, j >= 1, NewestNum(j)
        PROVE  NewestNum(j)'
    BY <1>1, <1>6, <2>1, <2>3 DEF NewestNum, Num
  <2> QED
    BY <1>5, <1>6, <2>1, <2>2, <2>3 DEF SizeInv
<1>7. CASE {lo, hi} \subseteq Files /\ dir' = Drop(hi) /\ step' = step
  <2>1. Files' = Files \ {hi} /\ \A f \in Files \ {hi} : dir'[f] = dir[f]
    <3>1. DOMAIN Drop(hi) = Files \ {hi} /\ \A f \in Files \ {hi} : Drop(hi)[f] = dir[f]
      BY DropFacts
    <3> QED
      BY <1>7, <3>1 DEF Files
  <2>2. NewestGz => NewestGz'
    <3>1. Gz(Num(1)) # hi
      BY <1>2
    <3> HIDE DEF lo, hi
    <3> QED
      BY <1>3, <2>1, <3>1 DEF NewestGz
  <2>3. ASSUME NEW j \in Nat, j >= 1, NewestNum(j)
        PROVE  NewestNum(j)'
    <3>1. j # step + 1
      <4>1. j = step + 1 => step \in 1..(j - 1)
        BY <1>1
      <4> QED
        BY <1>7, <2>3, <4>1 DEF NewestNum
    <3>2. Num(j) \in Files' /\ dir'[Num(j)] = Last(gens)
      BY <1>2, <2>1, <2>3, <3>1 DEF NewestNum
    <3>3. \A i \in 1..(j - 1) : Num(i) \notin Files'
      BY <2>1, <2>3 DEF NewestNum
    <3> QED
      BY <1>1, <3>2, <3>3 DEF NewestNum, Num
  <2>4. \A f \in Files' \ {Base} : f.kind = "num"
    BY <2>1 DEF SizeInv
  <2>5. Num(step' + 1) \notin Files'
    BY <1>7, <2>1
  <2> QED
    BY <1>5, <2>2, <2>3, <2>4, <2>5
<1>8. CASE lo \in Files /\ hi \notin Files /\ dir' = Rename(lo, hi) /\ step' = step - 1
  <2>1. /\ Files' = (Files \ {lo}) \cup {hi} /\ dir'[hi] = dir[lo]
        /\ \A f \in Files \ {lo, hi} : dir'[f] = dir[f]
    <3>1. /\ DOMAIN Rename(lo, hi) = (Files \ {lo}) \cup {hi}
          /\ Rename(lo, hi)[hi] = dir[lo]
          /\ \A f \in Files \ {lo, hi} : Rename(lo, hi)[f] = dir[f]
      BY <1>2, RenameFacts
    <3> QED
      BY <1>8, <3>1 DEF Files
  <2>2. NewestGz => NewestGz'
    <3>1. Gz(Num(1)) \notin {lo, hi}
      BY <1>2
    <3> HIDE DEF lo, hi
    <3> QED
      BY <1>3, <2>1, <3>1 DEF NewestGz
  <2>3. ASSUME NEW j \in Nat, j >= 1, NewestNum(j)
        PROVE  \E k \in Nat : k >= 1 /\ NewestNum(k)'
    <3>1. j <= step
      <4>1. ~(j <= step) => step \in 1..(j - 1)
        BY <1>1
      <4> QED
        BY <1>8, <2>3, <4>1 DEF NewestNum
    <3>2. CASE j = step
      <4>1. \A i \in 1..step : Num(i) \notin Files'
        <5>1. ASSUME NEW i \in 1..step
              PROVE  Num(i) \notin Files'
          <6>1. i \in Nat /\ i # step + 1 /\ (i = step \/ i \in 1..(j - 1))
            BY <1>1, <3>2
          <6>2. Num(i) # hi /\ (Num(i) = lo \/ Num(i) \notin Files)
            BY <1>2, <2>3, <6>1 DEF NewestNum
          <6> QED
            BY <2>1, <6>2
        <5> QED
          BY <5>1
      <4>2. hi \in Files' /\ dir'[hi] = Last(gens)
        BY <2>1, <2>3, <3>2 DEF NewestNum
      <4>3. PICK m \in Nat : m = step + 1
        BY <1>1
      <4>4. Num(m) = hi /\ m >= 1 /\ 1..(m - 1) = 1..step
        BY <1>1, <4>3
      <4>5. NewestNum(m)'
        BY <1>1, <4>1, <4>2, <4>4 DEF NewestNum, Num
      <4> QED
        BY <4>4, <4>5
    <3>3. CASE j < step
      <4>1. j # step /\ j # step + 1 /\ \A i \in 1..(j - 1) : i \in Nat /\ i # step + 1
        BY <1>1, <3>3
      <4>2. Num(j) \in Files' /\ dir'[Num(j)] = Last(gens)
        BY <1>2, <2>1, <2>3, <4>1 DEF NewestNum
      <4>3. \A i \in 1..(j - 1) : Num(i) \notin Files'
        BY <1>2, <2>1, <2>3, <4>1 DEF NewestNum
      <4>4. NewestNum(j)'
        BY <1>1, <4>2, <4>3 DEF NewestNum, Num
      <4> QED
        BY <2>3, <4>4
    <3> QED
      BY <1>1, <3>1, <3>2, <3>3
  <2>4. \A f \in Files' \ {Base} : f.kind = "num"
    BY <1>2, <2>1 DEF SizeInv
  <2>5. step' + 1 = step /\ lo \notin Files'
    BY <1>1, <1>2, <1>8, <2>1
  <2> QED
    BY <1>5, <2>2, <2>3, <2>4, <2>5
<1> QED
  BY <1>6, <1>7, <1>8 DEF Shift
LEMMA SizeRollBase ==
    ASSUME TypeInv, SizeInv, TypeInv', RollBase
    PROVE  SizeInv'
<1>1. /\ Timed' = Timed /\ config' = config /\ Backups' = Backups /\ step' = step
      /\ faults' = faults /\ pc = "roll" /\ step = 0 /\ Base \in Files
      /\ Backups \in Nat \ {0}
  BY SettingFacts, SameSettings DEF RollBase, TypeInv, TypeOK
<1> SUFFICES ASSUME ~Timed
             PROVE  SizeInv'
  BY <1>1 DEF SizeInv
<1> DEFINE n == Num(1)
<1>2. /\ Rolled = n /\ n \in Name /\ n # Base /\ n.kind = "num" /\ Base \in Name
      /\ n # Gz(Num(1)) /\ Gz(Num(1)) # Base
  BY SizeNames, 1 \in Nat DEF Rolled
<1>3. NewestNum(1)' <=> n \in Files' /\ dir'[n] = Last(gens')
  BY DEF NewestNum, Num
\* With two backups or more the numbers have been moved up.
<1>4. CASE n \in Files
  <2>1. dir' = Drop(n) /\ pc' = "roll" /\ gens' = gens
    BY <1>1, <1>2, <1>4 DEF RollBase
  <2>2. Backups = 1
    BY <1>1, <1>4 DEF SizeInv
  <2>3. Files' = Files \ {n}
    <3>1. DOMAIN Drop(n) = Files \ {n}
      BY DropFacts
    <3> QED
      BY <2>1, <3>1 DEF Files
  <2> QED
    BY <1>1, <2>1, <2>2, <2>3 DEF SizeInv
<1>5. CASE n \notin Files
  <2>1. dir' = Rename(Base, n) /\ pc' = "prune" /\ gens' = Append(gens, dir[Base])
    BY <1>2, <1>5 DEF RollBase
  <2>2. Files' = (Files \ {Base}) \cup {n} /\ dir'[n] = dir[Base]
    <3>1. DOMAIN Rename(Base, n) = (Files \ {Base}) \cup {n} /\ Rename(Base, n)[n] = dir[Base]
      BY <1>2, RenameFacts
    <3> QED
      BY <2>1, <3>1 DEF Files
  <2>3. gens' # <<>> /\ Last(gens') = dir[Base]
    <3>1. gens \in Seq(FileContent) /\ dir[Base] \in FileContent
      BY <1>1 DEF TypeInv, TypeOK
    <3>2. gens' \in Seq(FileContent) /\ Len(gens') = Len(gens) + 1
          /\ gens'[Len(gens) + 1] = dir[Base] /\ Len(gens) \in Nat /\ Len(<<>>) = 0
      BY <2>1, <3>1, AppendProperties
    <3> QED
      BY <3>2 DEF Last
  <2>4. NewestNum(1)'
    BY <1>3, <2>2, <2>3
  <2>5. \A f \in Files' \ {Base} : f.kind = "num"
    BY <1>2, <2>2 DEF SizeInv
  <2>6. \E j \in Nat : j >= 1 /\ NewestNum(j)'
    BY <2>4
  <2> QED
    BY <1>1, <2>1, <2>3, <2>4, <2>5, <2>6 DEF SizeInv
<1> QED
  BY <1>4, <1>5

(* The invariant of the two kinds of rotation: where the last file is.     *)
THEOREM NewestInvariance == Spec => []NewestInv
<1>1. RotationInit => NewestInv
  BY TypeInit, TimedInit, SizeInit DEF NewestInv
<1>2. TypeInv /\ [Next]_vars => TypeInv'
  BY TypeQuiet, TypeShift, TypeRollBase, TypePrune, TypeReopen, TypeGzip, TypeWrite,
     TypeRestart DEF Next, Rollover
<1>3. TypeInv /\ TypeInv' /\ TimedInv /\ [Next]_vars => TimedInv'
  BY TimedQuiet, TimedShift, TimedRollBase, TimedPrune, TimedOpens, TimedGzip
     DEF Next, Rollover
<1>4. TypeInv /\ TypeInv' /\ SizeInv /\ [Next]_vars => SizeInv'
  BY SizeQuiet, SizeShift, SizeRollBase, SizePrune, SizeGzip DEF Next, Rollover
<1>5. NewestInv /\ [Next]_vars => NewestInv'
  BY <1>2, <1>3, <1>4 DEF NewestInv
<1> QED
  BY <1>1, <1>5, PTL DEF Spec

(* A rolled file is never lost before the next one is in place: whatever   *)
(* step a crash or a failed compression comes at, the content of the last  *)
(* file that was rolled over is whole in some file; and with a single      *)
(* backup it is missing only inside a rollover or after one that was cut.  *)
THEOREM RolledFileSurvives == Spec => []NewestSurvives
<1>1. NewestInv => NewestSurvives
  <2>1. ASSUME NewestInv, gens # <<>>, Backups >= 2 \/ (faults = 0 /\ pc # "roll")
        PROVE  \E f \in Files : dir[f] = Last(gens)
    <3>1. CASE Timed
      BY <2>1, <3>1 DEF NewestInv, TimedInv, NewestDate
    <3>2. CASE ~Timed
      BY <2>1, <3>2 DEF NewestInv, SizeInv, NewestNum, NewestGz
    <3> QED
      BY <3>1, <3>2
  <2> QED
    BY <2>1 DEF NewestSurvives
<1> QED
  BY <1>1, NewestInvariance, PTL

----------------------------------------------------------------------------
\* What was written is what the files rolled over so far and the log file
\* hold, one after the other: each of them is the stretch of the history
\* between two cuts.

Current == IF Base \in Files THEN dir[Base] ELSE << >>
Cuts == [1..(Len(gens) + 1) -> 0..Len(written)]
CutAt(cut) ==
    /\ \A i, j \in 1..(Len(gens) + 1) : i <= j => cut[i] <= cut[j]
    /\ \A i \in 1..Len(gens) : gens[i] = SubSeq(written, cut[i] + 1, cut[i + 1])
    /\ Current = SubSeq(written, cut[Len(gens) + 1] + 1, Len(written))
CutInv ==
    /\ pc = "prune" => Base \notin Files
    /\ \E cut \in Cuts : CutAt(cut)

LEMMA CutTypes ==
    ASSUME TypeInv
    PROVE  /\ gens \in Seq(FileContent) /\ Len(gens) \in Nat
           /\ written \in Seq(1..MaxRecords) /\ Len(written) \in Nat
           /\ Current \in Seq(1..MaxRecords)
<1>1. << >> \in Seq(1..MaxRecords)
  OBVIOUS
<1>2. Current \in Seq(1..MaxRecords)
  BY <1>1 DEF TypeInv, TypeOK, Current, FileContent
<1>3. gens \in Seq(FileContent) /\ written \in Seq(1..MaxRecords)
  BY DEF TypeInv, TypeOK, FileContent
<1> QED
  BY <1>2, <1>3

LEMMA CutInit ==
    ASSUME RotationInit
    PROVE  CutInv
<1>1. /\ gens = << >> /\ written = << >> /\ Len(<< >>) = 0 /\ pc = "idle" /\ Current = << >>
  <2>1. Base \in Files /\ dir[Base] = << >>
    BY DEF RotationInit, Files
  <2> QED
    BY <2>1 DEF RotationInit, Current
<1>2. SubSeq(<< >>, 1, 0) = << >>
  OBVIOUS
<1> DEFINE c == [i \in 1..1 |-> 0]
<1>3. c \in Cuts
  BY <1>1 DEF Cuts
<1>4. CutAt(c)
  <2>1. \A i \in 1..1 : c[i] = 0
    OBVIOUS
  <2>2. 1 \in 1..1 /\ c[1] = 0 /\ c[1] + 1 = 1 /\ 1..0 = {} /\ 0 + 1 = 1
    OBVIOUS
  <2> HIDE DEF c
  <2> QED
    BY <1>1, <1>2, <2>1, <2>2 DEF CutAt
<1> QED
  BY <1>1, <1>3, <1>4 DEF CutInv

\* Most steps leave the log file and the history alone.
LEMMA CutStays ==
    ASSUME CutInv, gens' = gens, written' = written, Current' = Current,
           pc' = "prune" => Base \notin Files'
    PROVE  CutInv'
<1>1. PICK cut \in Cuts : CutAt(cut)
  BY DEF CutInv
<1>2. cut \in Cuts' /\ CutAt(cut)'
  BY <1>1 DEF Cuts, CutAt
<1>3. (\E c \in Cuts : CutAt(c))'
  BY <1>2
<1> QED
  BY <1>3 DEF CutInv

LEMMA CutQuiet ==
    ASSUME TypeInv, CutInv, TypeInv',
           Emit \/ GzipRaises \/ Crash \/ Tick \/ Reopen \/ Restart \/ UNCHANGED vars
    PROVE  CutInv'
<1>1. gens' = gens /\ written' = written
  BY DEF Emit, GzipRaises, Crash, Tick, Reopen, Restart, vars
<1>2. Base \in Files => pc # "prune"
  BY DEF CutInv
<1>3. CASE dir' = dir /\ (pc' = "prune" => pc = "prune")
  BY <1>1, <1>2, <1>3, CutStays DEF Current, Files
<1>4. CASE dir' = Put(Base, << >>) /\ Base \notin Files /\ pc' # "prune"
  <2>1. DOMAIN Put(Base, << >>) = Files \cup {Base} /\ Put(Base, << >>)[Base] = << >>
    BY PutFacts
  <2>2. Current' = << >> /\ Current = << >>
    BY <1>4, <2>1 DEF Current, Files
  <2> QED
    BY <1>1, <1>4, <2>2, CutStays
<1> QED
  BY <1>2, <1>3, <1>4 DEF Emit, GzipRaises, Crash, Tick, Reopen, Restart, vars, CutInv

\* The steps on the backups.
LEMMA CutBackups ==
    ASSUME TypeInv, CutInv, TypeInv', Shift \/ Prune \/ Gzip \/ CopyToGz \/ Unlink
    PROVE  CutInv'
<1>1. gens' = gens /\ written' = written /\ (pc' = "prune" => pc = "prune")
  BY DEF Shift, Prune, Gzip, CopyToGz, Unlink
<1>2. /\ Base \in Name /\ \A i \in Nat : Num(i) \in Name /\ Num(i) # Base
      /\ Base \notin {Candidate, Gz(Candidate)}
  BY NamesInUse
<1>3. (Base \in Files' <=> Base \in Files) /\ (Base \in Files => dir'[Base] = dir[Base])
  <2>1. ASSUME NEW f, f # Base, dir' = Drop(f)
        PROVE  (Base \in Files' <=> Base \in Files) /\ (Base \in Files => dir'[Base] = dir[Base])
    BY <2>1, DropFacts DEF Files
  <2>2. ASSUME NEW f, NEW c, f # Base, dir' = Put(f, c)
        PROVE  (Base \in Files' <=> Base \in Files) /\ (Base \in Files => dir'[Base] = dir[Base])
    <3>1. DOMAIN Put(f, c) = Files \cup {f} /\ \A g \in Files \ {f} : Put(f, c)[g] = dir[g]
      BY PutFacts
    <3> QED
      BY <2>2, <3>1 DEF Files
  <2>3. ASSUME NEW f \in Name, NEW g \in Name, f # g, f # Base, g # Base, dir' = Rename(f, g)
        PROVE  (Base \in Files' <=> Base \in Files) /\ (Base \in Files => dir'[Base] = dir[Base])
    <3>1. /\ DOMAIN Rename(f, g) = (Files \ {f}) \cup {g}
          /\ \A h \in Files \ {f, g} : Rename(f, g)[h] = dir[h]
      BY <2>3, RenameFacts
    <3> QED
      BY <2>3, <3>1 DEF Files
  <2>4. CASE Shift
    <3>1. step \in Nat /\ step + 1 \in Nat /\ step # step + 1
      BY SettingFacts DEF TypeInv, TypeOK
    <3>2. /\ Num(step) \in Name /\ Num(step) # Base
          /\ Num(step + 1) \in Name /\ Num(step + 1) # Base /\ Num(step) # Num(step + 1)
      BY <1>2, <3>1, NumsDiffer
    <3>3. \/ dir' = dir \/ dir' = Drop(Num(step + 1))
          \/ dir' = Rename(Num(step), Num(step + 1))
      BY <2>4 DEF Shift
    <3> QED
      BY <2>1, <2>3, <3>2, <3>3 DEF Files
  <2>5. CASE Prune
    <3>1. PICK f \in Dated : dir' = Drop(f)
      BY <2>5 DEF Prune, ToDelete
    <3>2. Base.kind # "date"
      BY NameFacts, 0 \in Nat
    <3>3. f # Base
      BY <3>2 DEF Dated
    <3> QED
      BY <2>1, <3>1, <3>3
  <2>6. CASE Gzip \/ CopyToGz \/ Unlink
    <3>1. \/ dir' = dir \/ dir' = Put(Gz(Candidate), << >>)
          \/ dir' = Put(Gz(Candidate), dir[Candidate]) \/ dir' = Drop(Candidate)
      BY <2>6 DEF Gzip, CopyToGz, Unlink
    <3> QED
      BY <1>2, <2>1, <2>2, <3>1 DEF Files
  <2> QED
    BY <2>4, <2>5, <2>6
<1>4. Current' = Current
  BY <1>3 DEF Current
<1> QED
  BY <1>1, <1>3, <1>4, CutStays DEF CutInv

\* The log file becomes the last of the files rolled over.
LEMMA CutRollBase ==
    ASSUME TypeInv, CutInv, TypeInv', RollBase
    PROVE  CutInv'
<1>0. Base \in Files /\ written' = written /\ Rolled \in Name /\ Base \in Name /\ Base # Rolled
  BY NamesInUse DEF RollBase, TypeInv, TypeOK
<1>1. CASE dir' = Drop(Rolled) /\ pc' = pc /\ gens' = gens
  <2>1. Base \in Files' /\ dir'[Base] = dir[Base]
    BY <1>0, <1>1, DropFacts DEF Files
  <2> QED
    BY <1>0, <1>1, <2>1, CutStays DEF RollBase, Current
<1>2. CASE dir' = Rename(Base, Rolled) /\ gens' = Append(gens, dir[Base])
  <2>1. Base \notin Files'
    <3>1. DOMAIN Rename(Base, Rolled) = (Files \ {Base}) \cup {Rolled}
      BY <1>0, RenameFacts
    <3> QED
      BY <1>0, <1>2, <3>1 DEF Files
  <2>2. Current = dir[Base] /\ Current' = << >>
    BY <1>0, <2>1 DEF Current
  <2> DEFINE l == Len(gens)
             n == Len(written)
  <2>3. l \in Nat /\ n \in Nat /\ gens \in Seq(FileContent) /\ Current \in FileContent
        /\ written \in Seq(1..MaxRecords)
    BY CutTypes DEF FileContent
  <2>4. /\ Len(gens') = l + 1 /\ gens'[l + 1] = Current
        /\ \A i \in 1..l : gens'[i] = gens[i]
    BY <1>2, <2>2, <2>3, AppendProperties
  <2>5. PICK cut \in Cuts : CutAt(cut)
    BY DEF CutInv
  <2> HIDE DEF l, n
  <2>0. PICK c : c = [i \in 1..(l + 2) |-> IF i = l + 2 THEN n ELSE cut[i]]
    OBVIOUS
  <2>6. \A i \in 1..(l + 1) : cut[i] \in 0..n
    BY <2>5 DEF Cuts, l, n
  <2>7. c \in Cuts'
    <3>1. Cuts' = [1..(l + 2) -> 0..n]
      BY <1>0, <2>3, <2>4 DEF Cuts, n
    <3>2. \A i \in 1..(l + 2) : (IF i = l + 2 THEN n ELSE cut[i]) \in 0..n
      BY <2>3, <2>6
    <3> QED
      BY <2>0, <3>1, <3>2
  <2>8. c[l + 2] = n /\ \A i \in 1..(l + 1) : c[i] = cut[i] /\ c[i] \in 0..n
    BY <2>0, <2>3, <2>6
  <2>9. ASSUME NEW i \in 1..(l + 2), NEW j \in 1..(l + 2), i <= j
        PROVE  c[i] <= c[j]
    <3>1. CASE j = l + 2
      BY <2>3, <2>8, <2>9, <3>1
    <3>2. CASE j # l + 2
      <4>1. i \in 1..(l + 1) /\ j \in 1..(l + 1)
        BY <2>3, <2>9, <3>2
      <4> QED
        BY <2>5, <2>8, <2>9, <4>1 DEF CutAt, l
    <3> QED
      BY <3>1, <3>2
  <2>10. ASSUME NEW i \in 1..(l + 1)
         PROVE  gens'[i] = SubSeq(written, c[i] + 1, c[i + 1])
    <3>1. CASE i = l + 1
      <4>1. i + 1 = l + 2 /\ c[i] = cut[l + 1]
        BY <2>3, <2>8, <3>1
      <4> QED
        BY <2>4, <2>5, <2>8, <3>1, <4>1 DEF CutAt, l, n
    <3>2. CASE i # l + 1
      <4>1. i \in 1..l /\ i + 1 \in 1..(l + 1)
        BY <2>3, <3>2
      <4> QED
        BY <2>4, <2>5, <2>8, <4>1 DEF CutAt, l
    <3> QED
      BY <3>1, <3>2
  <2>11. SubSeq(written, n + 1, n) = << >>
    <3>1. n <= Len(written) /\ n - n = 0
      BY <2>3 DEF n
    <3>2. /\ SubSeq(written, n + 1, n) \in Seq(1..MaxRecords)
          /\ Len(SubSeq(written, n + 1, n)) = n - n
      BY <2>3, <3>1, SegmentFacts
    <3> QED
      BY <3>1, <3>2
  <2>12. CutAt(c)'
    <3>1. Len(gens') + 1 = l + 2
      BY <2>3, <2>4
    <3> QED
      BY <1>0, <2>2, <2>4, <2>8, <2>9, <2>10, <2>11, <3>1 DEF CutAt, n
  <2>13. (\E cc \in Cuts : CutAt(cc))'
    BY <2>7, <2>12
  <2> QED
    BY <2>1, <2>13 DEF CutInv
<1> QED
  BY <1>1, <1>2 DEF RollBase

LEMMA CutWrite ==
    ASSUME TypeInv, CutInv, TypeInv', Write
    PROVE  CutInv'
<1> DEFINE l == Len(gens)
           n == Len(written)
<1>1. /\ Base \in Files /\ gens' = gens /\ pc' = "idle" /\ logged \in 1..MaxRecords
      /\ written' = Append(written, logged)
  BY SettingFacts DEF Write, TypeInv, TypeOK
<1>2. Base \in Files' /\ dir'[Base] = Append(dir[Base], logged)
  BY <1>1 DEF Write, Files
<1>3. Current = dir[Base] /\ Current' = Append(Current, logged)
  BY <1>1, <1>2 DEF Current
<1>4. l \in Nat /\ n \in Nat /\ written \in Seq(1..MaxRecords) /\ Len(written') = n + 1
  BY <1>1, CutTypes, AppendProperties
<1>5. PICK cut \in Cuts : CutAt(cut)
  BY DEF CutInv
<1> HIDE DEF l, n
<1>6. /\ \A i \in 1..(l + 1) : cut[i] \in 0..n
      /\ \A i, j \in 1..(l + 1) : i <= j => cut[i] <= cut[j]
      /\ \A i \in 1..l : gens[i] = SubSeq(written, cut[i] + 1, cut[i + 1])
      /\ Current = SubSeq(written, cut[l + 1] + 1, n)
  BY <1>5 DEF Cuts, CutAt, l, n
<1>7. cut \in Cuts'
  <2>1. Cuts = [1..(l + 1) -> 0..n] /\ Cuts' = [1..(l + 1) -> 0..(n + 1)]
    BY <1>1, <1>4 DEF Cuts, l, n
  <2>2. 0..n \subseteq 0..(n + 1)
    BY <1>4
  <2> QED
    BY <1>5, <2>1, <2>2
<1>8. ASSUME NEW i \in 1..l
      PROVE  gens'[i] = SubSeq(written', cut[i] + 1, cut[i + 1])
  <2>1. i \in 1..(l + 1) /\ i + 1 \in 1..(l + 1) /\ i <= i + 1
    BY <1>4
  <2>2. cut[i] \in Nat /\ cut[i + 1] \in Nat /\ cut[i] <= cut[i + 1] /\ cut[i + 1] <= Len(written)
    BY <1>6, <2>1 DEF n
  <2> QED
    BY <1>1, <1>4, <1>6, <2>2, SegmentGrows
<1>9. Current' = SubSeq(written', cut[l + 1] + 1, Len(written'))
  <2>1. l + 1 \in 1..(l + 1)
    BY <1>4
  <2>2. cut[l + 1] \in Nat /\ cut[l + 1] <= Len(written) /\ Len(written) <= Len(written)
    BY <1>4, <1>6, <2>1 DEF n
  <2>3. SubSeq(Append(written, logged), cut[l + 1] + 1, Len(written) + 1)
           = Append(SubSeq(written, cut[l + 1] + 1, Len(written)), logged)
    BY <1>1, <1>4, <2>2, SegmentGrows DEF n
  <2> QED
    BY <1>1, <1>3, <1>4, <1>6, <2>3 DEF n
<1>10. CutAt(cut)'
  BY <1>1, <1>6, <1>8, <1>9 DEF CutAt, l
<1>11. (\E c \in Cuts : CutAt(c))'
  BY <1>7, <1>10
<1> QED
  BY <1>1, <1>11 DEF CutInv

\* The names a rotation by size uses: the numbers up to the count of backups
\* and, when it compresses, the compressed form of the first.
NumsInUse == {Num(i) : i \in 1..Backups}
NumbersInv ==
    ~Timed =>
        /\ Files \subseteq {Base} \cup NumsInUse \cup (IF config.compress THEN {Gz(Num(1))} ELSE {})
        /\ pc = "roll" => step <= Backups - 1
        /\ pc \in {"copy", "unlink"} => config.compress

LEMMA NumbersInit ==
    ASSUME RotationInit
    PROVE  NumbersInv
  BY DEF RotationInit, NumbersInv, Files

LEMMA NumbersStep ==
    ASSUME TypeInv, NumbersInv, TypeInv', [Next]_vars
    PROVE  NumbersInv'
<1>1. /\ config' = config /\ Timed' = Timed /\ Backups' = Backups
      /\ Backups \in Nat \ {0} /\ step \in Nat /\ Base' = Base /\ 1 \in 1..Backups
  <2>1. config' = config
    BY DEF Next, Rollover, Emit, Shift, RollBase, Prune, Reopen, Gzip, CopyToGz, Unlink,
           GzipRaises, Write, Crash, Restart, Tick, vars
  <2> QED
    BY <2>1, SettingFacts, SameSettings DEF TypeInv, TypeOK, Base
<1> SUFFICES ASSUME ~Timed
             PROVE  NumbersInv'
  BY <1>1 DEF NumbersInv
<1> DEFINE Used == {Base} \cup NumsInUse \cup (IF config.compress THEN {Gz(Num(1))} ELSE {})
<1>2. Used' = Used /\ Base \in Used /\ \A i \in 1..Backups : Num(i) \in Used
  BY <1>1 DEF NumsInUse, Num, Gz
<1>3. Files \subseteq Used
  BY DEF NumbersInv
<1>4. Candidate = Num(1) /\ Rolled = Num(1)
  BY DEF Candidate, Rolled, Timed
<1>5. SUFFICES /\ Files' \subseteq Used
               /\ pc' = "roll" => step' <= Backups - 1
               /\ pc' \in {"copy", "unlink"} => config.compress
  BY <1>1, <1>2 DEF NumbersInv
<1>6. ASSUME NEW f, NEW c, f \in Used
      PROVE  DOMAIN Put(f, c) \subseteq Used
  <2>1. DOMAIN Put(f, c) = Files \cup {f}
    BY DEF Put
  <2> HIDE DEF Used
  <2> QED
    BY <1>3, <1>6, <2>1
<1>7. ASSUME NEW f
      PROVE  DOMAIN Drop(f) \subseteq Used
  <2> HIDE DEF Used
  <2> QED
    BY <1>3, DropFacts
<1>8. ASSUME NEW f, NEW g, g \in Used
      PROVE  DOMAIN Rename(f, g) \subseteq Used
  <2>1. DOMAIN Rename(f, g) = (Files \ {f}) \cup {g}
    BY DEF Rename
  <2> HIDE DEF Used
  <2> QED
    BY <1>3, <1>8, <2>1
<1> HIDE DEF Used
<1>9. CASE Emit
  BY <1>1, <1>3, <1>9 DEF Emit, Files
<1>10. CASE Shift
  <2>1. step <= Backups - 1 /\ pc' = "roll" /\ step >= 1
    BY <1>1, <1>10 DEF Shift, NumbersInv
  <2>2. step + 1 \in 1..Backups /\ step' <= Backups - 1
    BY <1>1, <1>10, <2>1 DEF Shift
  <2>3. \/ dir' = dir \/ dir' = Drop(Num(step + 1))
        \/ dir' = Rename(Num(step), Num(step + 1))
    BY <1>10 DEF Shift
  <2> QED
    BY <1>2, <1>3, <1>7, <1>8, <2>1, <2>2, <2>3 DEF Files
<1>11. CASE RollBase
  BY <1>1, <1>2, <1>4, <1>7, <1>8, <1>11 DEF RollBase, Files, NumbersInv
<1>12. CASE Prune
  BY <1>7, <1>12 DEF Prune, Files
<1>13. CASE Reopen
  BY <1>2, <1>6, <1>13 DEF Reopen, Files
<1>14. CASE Gzip
  <2>1. config.compress => Gz(Num(1)) \in Used
    BY DEF Used
  <2> QED
    BY <1>3, <1>4, <1>6, <1>14, <2>1 DEF Gzip, Files
<1>15. CASE CopyToGz
  <2>1. config.compress /\ Gz(Num(1)) \in Used
    BY <1>15 DEF Used, NumbersInv, CopyToGz
  <2> QED
    BY <1>4, <1>6, <1>15, <2>1 DEF CopyToGz, Files
<1>16. CASE Unlink
  BY <1>7, <1>16 DEF Unlink, Files
<1>17. CASE GzipRaises \/ Crash
  BY <1>3, <1>17 DEF GzipRaises, Crash, Files
<1>18. CASE Write
  BY <1>3, <1>18 DEF Write, Files
<1>19. CASE Restart
  BY <1>2, <1>3, <1>6, <1>19 DEF Restart, Files
<1>20. CASE Tick
  BY <1>20 DEF Tick
<1>21. CASE UNCHANGED vars
  BY <1>1, <1>3, <1>21 DEF vars, Files, NumbersInv
<1> QED
  BY <1>9, <1>10, <1>11, <1>12, <1>13, <1>14, <1>15, <1>16, <1>17, <1>18, <1>19, <1>20,
     <1>21 DEF Next, Rollover

----------------------------------------------------------------------------
\* The backups are the last files that were rolled over, and their numbers or
\* dates are in the order of the rollovers: the generation i is the file of
\* that number or date at[i], for all i from some m on.

Backup(k) == IF Timed THEN Date(k) ELSE Num(k)
Before(a, b) == IF Timed THEN a < b ELSE b < a
Kept(m) == Len(gens) - m + 1
Chain(m, at) ==
    /\ m \in 1..(Len(gens) + 1) /\ at \in [m..Len(gens) -> Nat]
    /\ \A i \in m..Len(gens) : Backup(at[i]) \in Files /\ dir[Backup(at[i])] = gens[i]
    /\ \A f \in Files \ {Base} : \E i \in m..Len(gens) : f = Backup(at[i])
    /\ \A i, j \in m..Len(gens) : i < j => Before(at[i], at[j])

\* A timed rotation keeps what it has until there are more than enough, and
\* only a crash before the pruning leaves one more.
Unpruned == IF pc = "prune" THEN 1 ELSE 0
TimedChain ==
    Timed => \E m \in 1..(Len(gens) + 1) : \E at \in [m..Len(gens) -> Nat] :
                /\ Chain(m, at)
                /\ m = 1 \/ Kept(m) >= Backups
                /\ Kept(m) <= Backups + faults + Unpruned

\* In a rotation by size a crash between the moves leaves a free number below
\* a file, and such a gap can cost a backup later: the oldest file is moved
\* out though there would be a place.  So the gaps are counted too: the
\* oldest file has a number that is no higher than there are files and gaps.
Moved(m, at) == IF pc = "roll" /\ step < Backups - 1 /\ step < at[m] THEN 1 ELSE 0
SizeChain ==
    ~Timed /\ ~config.compress =>
        \E m \in 1..(Len(gens) + 1) : \E at \in [m..Len(gens) -> Nat] :
            /\ Chain(m, at)
            /\ m <= faults + 1 \/ Kept(m) + faults + Rolling >= Backups
            /\ m <= Len(gens) => at[m] <= Kept(m) + faults + Moved(m, at)

BackupsInv == NewestInv /\ CutInv /\ NumbersInv /\ TimedChain /\ SizeChain

LEMMA BackupFacts ==
    ASSUME NEW k \in Nat
    PROVE  /\ Backup(k) \in Name /\ Backup(k) # Base /\ Backup(k).at = k /\ Backup(k).gz = FALSE
           /\ Backup(k).kind = IF Timed THEN "date" ELSE "num"
           /\ Backup(k).kind \in {"date", "num"}
<1>1. Base.kind = "base"
  BY NameFacts
<1>2. /\ Num(k) \in Name /\ Num(k).kind = "num" /\ Num(k).at = k /\ Num(k).gz = FALSE
      /\ Date(k) \in Name /\ Date(k).kind = "date" /\ Date(k).at = k /\ Date(k).gz = FALSE
  BY NameFacts
<1>3. CASE Timed
  BY <1>1, <1>2, <1>3 DEF Backup
<1>4. CASE ~Timed
  BY <1>1, <1>2, <1>4 DEF Backup
<1> QED
  BY <1>3, <1>4

\* What the chain needs, when no backup changes.
SameBackups ==
    /\ config' = config /\ gens' = gens
    /\ DOMAIN dir' \ {Base} = Files \ {Base}
    /\ \A f \in Files \ {Base} : dir'[f] = dir[f]

LEMMA ChainStays ==
    ASSUME TypeInv, SameBackups, NEW m, NEW at, Chain(m, at)
    PROVE  Chain(m, at)'
<1> USE DEF SameBackups
<1>1. Timed' = Timed /\ \A k : Backup(k)' = Backup(k)
  BY SameSettings DEF Backup, Date, Num
<1>2. \A i \in m..Len(gens) : Backup(at[i]) \in Files \ {Base}
  <2>1. \A i \in m..Len(gens) : at[i] \in Nat
    BY DEF Chain
  <2> QED
    BY <2>1, BackupFacts DEF Chain
<1>3. \A i \in m..Len(gens) : Backup(at[i]) \in Files' /\ dir'[Backup(at[i])] = gens[i]
  BY <1>2 DEF Chain, Files
<1>4. \A f \in Files' \ {Base} : \E i \in m..Len(gens) : f = Backup(at[i])
  BY DEF Chain, Files
<1>5. \A i, j \in m..Len(gens) : i < j => Before(at[i], at[j])'
  BY <1>1 DEF Chain, Before
<1>6. Base' = Base
  BY DEF Base
<1> QED
  BY <1>1, <1>3, <1>4, <1>5, <1>6 DEF Chain

LEMMA ChainInit ==
    ASSUME RotationInit
    PROVE  TimedChain /\ SizeChain
<1>1. /\ Files = {Base} /\ gens = << >> /\ Len(gens) = 0 /\ pc = "idle" /\ faults = 0
      /\ Backups \in Nat
  BY SettingFacts DEF RotationInit, Files
<1>2. PICK e : e = [i \in 1..0 |-> 0]
  OBVIOUS
<1>3. 1..0 = {} /\ e \in [1..0 -> Nat] /\ 1 \in 1..(Len(gens) + 1) /\ Kept(1) = 0
  BY <1>1, <1>2 DEF Kept
<1>4. Chain(1, e)
  BY <1>1, <1>3 DEF Chain
<1>5. e \in [1..Len(gens) -> Nat] /\ ~(1 <= Len(gens))
  BY <1>1, <1>3
<1>6. TimedChain
  <2>1. Kept(1) <= Backups + faults + Unpruned
    BY <1>1, <1>3 DEF Unpruned
  <2> QED
    BY <1>3, <1>4, <1>5, <2>1 DEF TimedChain
<1>7. SizeChain
  <2>1. 1 <= faults + 1
    BY <1>1
  <2> QED
    BY <1>3, <1>4, <1>5, <2>1 DEF SizeChain
<1> QED
  BY <1>6, <1>7

LEMMA TimedChainStays ==
    ASSUME TypeInv, TypeInv', TimedChain, SameBackups,
           faults' = faults + 1 \/ (faults' = faults /\ (pc = "prune" => pc' = "prune"))
    PROVE  TimedChain'
<1>1. /\ Timed' = Timed /\ Backups' = Backups /\ Backups \in Nat \ {0} /\ gens' = gens
      /\ faults \in Nat /\ faults' \in Nat /\ Len(gens) \in Nat
  BY SettingFacts, SameSettings, CutTypes DEF TypeInv, TypeOK, SameBackups
<1> SUFFICES ASSUME Timed
             PROVE  TimedChain'
  BY <1>1 DEF TimedChain
<1>m. PICK m \in 1..(Len(gens) + 1) : \E at \in [m..Len(gens) -> Nat] :
              /\ Chain(m, at)
              /\ m = 1 \/ Kept(m) >= Backups
              /\ Kept(m) <= Backups + faults + Unpruned
  BY DEF TimedChain
<1>2. PICK at \in [m..Len(gens) -> Nat] :
              /\ Chain(m, at)
              /\ m = 1 \/ Kept(m) >= Backups
              /\ Kept(m) <= Backups + faults + Unpruned
  BY <1>m
<1>3. Chain(m, at)'
  BY <1>2, ChainStays
<1>4. Kept(m)' = Kept(m) /\ Kept(m) \in Nat
  BY <1>1 DEF Kept
<1>5. Unpruned \in Nat /\ Unpruned' \in Nat
  BY DEF Unpruned
<1>6. Kept(m)' <= Backups' + faults' + Unpruned'
  <2>1. Kept(m) <= Backups + faults + Unpruned
    BY <1>2
  <2>2. CASE faults' = faults + 1
    <3>1. Kept(m) <= Backups + (faults + 1) + Unpruned'
      <4>1. Unpruned' = 0 \/ Unpruned' = 1
        BY DEF Unpruned
      <4>2. Unpruned = 0 \/ Unpruned = 1
        BY DEF Unpruned
      <4> QED
        BY <1>1, <1>4, <2>1, <4>1, <4>2
    <3> QED
      BY <1>1, <1>4, <2>2, <3>1
  <2>3. CASE faults' = faults /\ (pc = "prune" => pc' = "prune")
    <3>1. Unpruned' = Unpruned \/ (Unpruned = 0 /\ Unpruned' = 1)
      BY <2>3 DEF Unpruned
    <3> QED
      BY <1>1, <1>4, <1>5, <2>1, <2>3, <3>1
  <2> QED
    BY <2>2, <2>3
<1>7. m \in 1..(Len(gens') + 1) /\ at \in [m..Len(gens') -> Nat]
  BY <1>1, <1>2
<1> QED
  BY <1>1, <1>2, <1>3, <1>4, <1>6, <1>7 DEF TimedChain

LEMMA SizeChainStays ==
    ASSUME TypeInv, TypeInv', SizeChain, SameBackups,
           \/ faults' = faults + 1
           \/ faults' = faults /\ (pc = "roll" => pc' = "roll" /\ step' \in {step, step - 1})
    PROVE  SizeChain'
<1>1. /\ Timed' = Timed /\ Backups' = Backups /\ Backups \in Nat \ {0} /\ config' = config
      /\ gens' = gens /\ faults \in Nat /\ faults' \in Nat /\ Len(gens) \in Nat
      /\ step \in Nat /\ step' \in Nat
  <2>1. config' = config /\ gens' = gens /\ config \in Configs /\ config' \in Configs
    BY DEF TypeInv, TypeOK, SameBackups
  <2> QED
    BY <2>1, SettingFacts, SameSettings, CutTypes DEF TypeInv, TypeOK
<1> SUFFICES ASSUME ~Timed, ~config.compress
             PROVE  SizeChain'
  BY <1>1 DEF SizeChain
<1>m. PICK m \in 1..(Len(gens) + 1) : \E at \in [m..Len(gens) -> Nat] :
              /\ Chain(m, at)
              /\ m <= faults + 1 \/ Kept(m) + faults + Rolling >= Backups
              /\ m <= Len(gens) => at[m] <= Kept(m) + faults + Moved(m, at)
  BY DEF SizeChain
<1>2. PICK at \in [m..Len(gens) -> Nat] :
              /\ Chain(m, at)
              /\ m <= faults + 1 \/ Kept(m) + faults + Rolling >= Backups
              /\ m <= Len(gens) => at[m] <= Kept(m) + faults + Moved(m, at)
  BY <1>m
<1>3. Chain(m, at)'
  BY <1>2, ChainStays
<1>4. Kept(m)' = Kept(m) /\ Kept(m) \in Nat
  BY <1>1 DEF Kept
<1>5. m <= faults' + 1 \/ Kept(m) + faults' + Rolling' >= Backups
  <2>1. \/ faults' = faults + 1 /\ Rolling \in {0, 1} /\ Rolling' \in {0, 1}
        \/ faults' = faults /\ Rolling' \in {0, 1} /\ Rolling \in {0, Rolling'}
    BY DEF Rolling
  <2>2. m <= faults + 1 \/ Kept(m) + faults + Rolling >= Backups
    BY <1>2
  <2>3. CASE faults' = faults + 1 /\ Rolling \in {0, 1} /\ Rolling' \in {0, 1}
    <3>1. m <= (faults + 1) + 1 \/ Kept(m) + (faults + 1) + Rolling' >= Backups
      BY <1>1, <1>4, <2>2, <2>3
    <3> QED
      BY <2>3, <3>1
  <2>4. CASE faults' = faults /\ Rolling' \in {0, 1} /\ Rolling \in {0, Rolling'}
    <3>1. m <= faults + 1 \/ Kept(m) + faults + Rolling' >= Backups
      BY <1>1, <1>4, <2>2, <2>4
    <3> QED
      BY <2>4, <3>1
  <2> QED
    BY <2>1, <2>3, <2>4
<1>6. ASSUME m <= Len(gens)
      PROVE  at[m] <= Kept(m) + faults' + Moved(m, at)'
  <2>1. at[m] \in Nat
    BY <1>1, <1>2, <1>6
  <2>2. Moved(m, at) \in {0, 1} /\ Moved(m, at)' \in {0, 1}
    BY DEF Moved
  <2>3. at[m] <= Kept(m) + faults + Moved(m, at)
    BY <1>2, <1>6
  <2>4. CASE faults' = faults + 1
    <3>1. at[m] <= Kept(m) + (faults + 1) + Moved(m, at)'
      BY <1>1, <1>4, <2>1, <2>2, <2>3
    <3> QED
      BY <2>4, <3>1
  <2>5. CASE faults' = faults /\ (pc = "roll" => pc' = "roll" /\ step' \in {step, step - 1})
    <3>1. Moved(m, at) = 1 => Moved(m, at)' = 1
      <4>1. SUFFICES ASSUME pc = "roll", step < Backups - 1, step < at[m]
                     PROVE  Moved(m, at)' = 1
        BY DEF Moved
      <4>2. step - 1 < Backups - 1 /\ step - 1 < at[m]
        BY <1>1, <2>1, <4>1
      <4> QED
        BY <1>1, <2>5, <4>1, <4>2 DEF Moved
    <3>2. Moved(m, at) = 0 \/ Moved(m, at)' = Moved(m, at)
      BY <2>2, <3>1
    <3> QED
      BY <1>1, <1>4, <2>1, <2>2, <2>3, <2>5, <3>2
  <2> QED
    BY <2>4, <2>5
<1>7. m \in 1..(Len(gens') + 1) /\ at \in [m..Len(gens') -> Nat]
  BY <1>1, <1>2
<1> QED
  BY <1>1, <1>3, <1>4, <1>5, <1>6, <1>7 DEF SizeChain

LEMMA ChainQuiet ==
    ASSUME BackupsInv, TypeInv',
           Emit \/ GzipRaises \/ Crash \/ Tick \/ Write \/ Restart \/ UNCHANGED vars
    PROVE  TimedChain' /\ SizeChain'
<1>1. config' = config /\ gens' = gens
  BY DEF Emit, GzipRaises, Crash, Tick, Write, Restart, vars
<1>2. TypeInv /\ TimedChain /\ SizeChain /\ faults \in Nat /\ faults' \in Nat /\ step \in Nat
  <2>1. TypeInv
    BY DEF BackupsInv, NewestInv
  <2>2. config \in Configs /\ config' \in Configs
    BY <2>1 DEF TypeInv, TypeOK
  <2> QED
    BY <2>1, <2>2, SettingFacts DEF BackupsInv, TypeInv, TypeOK
<1>3. SameBackups
  <2>1. CASE dir' = dir
    BY <1>1, <2>1 DEF Files, SameBackups
  <2>2. CASE Write
    BY <1>1, <2>2 DEF Write, Files, SameBackups
  <2>3. CASE dir' = Put(Base, << >>)
    <3>1. DOMAIN Put(Base, << >>) = Files \cup {Base}
          /\ \A f \in Files \ {Base} : Put(Base, << >>)[f] = dir[f]
      BY PutFacts
    <3> QED
      BY <1>1, <2>3, <3>1 DEF SameBackups
  <2> QED
    BY <2>1, <2>2, <2>3 DEF Emit, GzipRaises, Crash, Tick, Write, Restart, vars
<1>4. \/ faults' = faults + 1
      \/ /\ faults' = faults /\ (pc = "prune" => pc' = "prune")
         /\ pc = "roll" => pc' = "roll" /\ step' \in {step, step - 1}
  BY DEF Emit, GzipRaises, Crash, Tick, Write, Restart, vars
<1> QED
  BY <1>1, <1>2, <1>3, <1>4, TimedChainStays, SizeChainStays

\* A compression writes and removes only names that a plain rotation has not.
LEMMA ChainGzip ==
    ASSUME BackupsInv, TypeInv', Gzip \/ CopyToGz \/ Unlink
    PROVE  TimedChain' /\ SizeChain'
<1>1. /\ config' = config /\ gens' = gens /\ faults' = faults /\ pc # "roll" /\ pc # "prune"
      /\ Timed' = Timed
  BY SameSettings DEF Gzip, CopyToGz, Unlink
<1>2. TypeInv /\ TimedInv /\ NumbersInv /\ TimedChain /\ SizeChain /\ Base \in Files
      /\ faults \in Nat
  <2>1. TypeInv
    BY DEF BackupsInv, NewestInv
  <2>2. pc \in {"gzip", "copy", "unlink"}
    BY DEF Gzip, CopyToGz, Unlink
  <2>3. config \in Configs /\ Base \in Files /\ faults \in 0..MaxFaults
    BY <2>1, <2>2 DEF TypeInv, TypeOK
  <2>4. faults \in Nat
    BY <2>3, SettingFacts
  <2> QED
    BY <2>1, <2>3, <2>4 DEF BackupsInv, NewestInv
<1>3. ASSUME Plain
      PROVE  dir' = dir
  <2>1. CASE Timed
    <3>1. Candidate \notin Files
      BY <1>2, <2>1, NothingToCompress
    <3> QED
      BY <1>2, <3>1 DEF Gzip, CopyToGz, Unlink, TypeInv
  <2>2. CASE ~Timed /\ ~config.compress
    BY <1>2, <2>2 DEF Gzip, CopyToGz, Unlink, NumbersInv
  <2> QED
    BY <1>3, <2>1, <2>2 DEF Plain
<1>4. ASSUME Plain
      PROVE  TimedChain' /\ SizeChain'
  <2>1. dir' = dir
    BY <1>3, <1>4
  <2>3. SameBackups
    BY <1>1, <2>1 DEF Files, SameBackups
  <2> QED
    BY <1>1, <1>2, <2>3, TimedChainStays, SizeChainStays
<1>5. ASSUME ~Plain
      PROVE  TimedChain' /\ SizeChain'
  BY <1>1, <1>5 DEF Plain, TimedChain, SizeChain
<1> QED
  BY <1>4, <1>5

\* As many values as arguments.
LEMMA InjectiveImage ==
    ASSUME NEW a \in Int, NEW b \in Int, a <= b + 1, NEW f,
           \A i, j \in a..b : f[i] = f[j] => i = j
    PROVE  /\ IsFiniteSet({f[i] : i \in a..b})
           /\ Cardinality({f[i] : i \in a..b}) = b - a + 1
<1> DEFINE T == {f[i] : i \in a..b}
<1>1. PICK g : g = [i \in a..b |-> f[i]]
  OBVIOUS
<1>2. g \in Bijection(a..b, T)
  <2>1. g \in [a..b -> T] /\ \A i \in a..b : g[i] = f[i]
    BY <1>1
  <2>2. \A i, j \in a..b : g[i] = g[j] => i = j
    BY <2>1
  <2>3. \A t \in T : \E i \in a..b : g[i] = t
    BY <2>1
  <2> HIDE DEF T
  <2> QED
    BY <2>1, <2>2, <2>3 DEF Bijection, Injection, Surjection, IsInjective
<1>3. IsFiniteSet(a..b) /\ Cardinality(a..b) = IF a > b THEN 0 ELSE b - a + 1
  BY FS_Interval
<1>4. ExistsBijection(a..b, T)
  BY <1>2 DEF ExistsBijection
<1>5. IsFiniteSet(T) /\ Cardinality(T) = Cardinality(a..b)
  <2> HIDE DEF T
  <2> QED
    BY <1>3, <1>4, FS_Bijection
<1> QED
  BY <1>3, <1>5

\* The files of a chain are different backups.
LEMMA ChainDistinct ==
    ASSUME TypeInv, NEW m, NEW at, Chain(m, at)
    PROVE  /\ m \in Nat /\ m >= 1 /\ m <= Len(gens) + 1 /\ Len(gens) \in Nat
           /\ \A i \in m..Len(gens) : at[i] \in Nat /\ Backup(at[i]) \in Files \ {Base}
           /\ \A i, j \in m..Len(gens) : Backup(at[i]) = Backup(at[j]) => i = j
<1>1. m \in Nat /\ m >= 1 /\ m <= Len(gens) + 1 /\ Len(gens) \in Nat
  BY CutTypes DEF Chain
<1>2. \A i \in m..Len(gens) : at[i] \in Nat
  BY DEF Chain
<1>3. \A i \in m..Len(gens) : Backup(at[i]) \in Files \ {Base} /\ Backup(at[i]).at = at[i]
  BY <1>2, BackupFacts DEF Chain
<1>4. ASSUME NEW i \in m..Len(gens), NEW j \in m..Len(gens), Backup(at[i]) = Backup(at[j])
      PROVE  i = j
  <2>1. at[i] = at[j] /\ at[i] \in Nat
    BY <1>2, <1>3, <1>4
  <2>2. ~(i < j) /\ ~(j < i)
    BY <2>1 DEF Chain, Before
  <2> QED
    BY <1>1, <2>2
<1> QED
  BY <1>1, <1>2, <1>3, <1>4

\* The log file becomes the newest backup.
LEMMA ChainGrows ==
    ASSUME TypeInv, NEW m, NEW at, Chain(m, at), NEW d \in Nat, Rolled = Backup(d),
           Rolled \notin Files, Base \in Files,
           config' = config, dir' = Rename(Base, Rolled), gens' = Append(gens, dir[Base]),
           \A i \in m..Len(gens) : Before(at[i], d)
    PROVE  \E e \in [m..Len(gens') -> Nat] :
              Chain(m, e)' /\ e[m] = IF m <= Len(gens) THEN at[m] ELSE d
<1> DEFINE l == Len(gens)
<1>1. /\ m \in Nat /\ m >= 1 /\ m <= l + 1 /\ l \in Nat
      /\ \A i \in m..l : at[i] \in Nat /\ Backup(at[i]) \in Files \ {Base}
  BY ChainDistinct
<1>2. /\ Len(gens') = l + 1 /\ gens'[l + 1] = dir[Base]
      /\ \A i \in 1..l : gens'[i] = gens[i]
  <2>1. gens \in Seq(FileContent) /\ dir[Base] \in FileContent
    BY DEF TypeInv, TypeOK
  <2> QED
    BY <2>1, AppendProperties
<1>3. /\ Files' = (Files \ {Base}) \cup {Rolled} /\ dir'[Rolled] = dir[Base]
      /\ \A f \in Files \ {Base} : dir'[f] = dir[f]
  <2>1. Base \in Name /\ Rolled \in Name /\ Base # Rolled
    BY NamesInUse
  <2>2. /\ DOMAIN Rename(Base, Rolled) = (Files \ {Base}) \cup {Rolled}
        /\ Rename(Base, Rolled)[Rolled] = dir[Base]
        /\ \A f \in Files \ {Base, Rolled} : Rename(Base, Rolled)[f] = dir[f]
    BY <2>1, RenameFacts
  <2> QED
    BY <2>2 DEF Files
<1>4. Timed' = Timed /\ \A k : Backup(k)' = Backup(k)
  BY SameSettings DEF Backup, Date, Num
<1> HIDE DEF l
<1>5. PICK e : e = [i \in m..(l + 1) |-> IF i = l + 1 THEN d ELSE at[i]]
  OBVIOUS
<1>6. /\ e \in [m..(l + 1) -> Nat] /\ e[l + 1] = d
      /\ \A i \in m..l : e[i] = at[i]
  <2>1. \A i \in m..(l + 1) : (IF i = l + 1 THEN d ELSE at[i]) \in Nat
    BY <1>1
  <2> QED
    BY <1>1, <1>5, <2>1
<1>7. m \in 1..(Len(gens') + 1) /\ e \in [m..Len(gens') -> Nat]
  BY <1>1, <1>2, <1>6
<1>8. ASSUME NEW i \in m..(l + 1)
      PROVE  Backup(e[i]) \in Files' /\ dir'[Backup(e[i])] = gens'[i]
  <2>1. CASE i = l + 1
    BY <1>2, <1>3, <1>6, <2>1
  <2>2. CASE i # l + 1
    <3>1. i \in m..l /\ i \in 1..l
      BY <1>1, <2>2
    <3>2. Backup(at[i]) \in Files \ {Base} /\ dir[Backup(at[i])] = gens[i]
      BY <1>1, <3>1 DEF Chain, l
    <3> QED
      BY <1>2, <1>3, <1>6, <3>1, <3>2
  <2> QED
    BY <2>1, <2>2
<1>9. ASSUME NEW f \in Files' \ {Base}
      PROVE  \E i \in m..(l + 1) : f = Backup(e[i])
  <2>1. CASE f = Rolled
    <3>1. l + 1 \in m..(l + 1)
      BY <1>1
    <3> QED
      BY <1>6, <2>1, <3>1
  <2>2. CASE f \in Files \ {Base}
    <3>1. PICK i \in m..l : f = Backup(at[i])
      BY <2>2 DEF Chain, l
    <3>2. i \in m..(l + 1)
      BY <1>1
    <3> QED
      BY <1>6, <3>1, <3>2
  <2> QED
    BY <1>3, <2>1, <2>2
<1>10. ASSUME NEW i \in m..(l + 1), NEW j \in m..(l + 1), i < j
       PROVE  Before(e[i], e[j])
  <2>1. i \in m..l
    BY <1>1, <1>10
  <2>2. CASE j = l + 1
    BY <1>6, <2>1, <2>2 DEF l
  <2>3. CASE j # l + 1
    <3>1. j \in m..l
      BY <1>1, <2>3
    <3> QED
      BY <1>6, <1>10, <2>1, <3>1 DEF Chain, l
  <2> QED
    BY <2>2, <2>3
<1>11. Base' = Base
  BY DEF Base
<1>12. Chain(m, e)'
  <2>1. \A i, j \in m..Len(gens') : i < j => Before(e[i], e[j])'
    BY <1>2, <1>4, <1>10 DEF Before
  <2>2. \A f \in Files' \ {Base} : \E i \in m..Len(gens') : f = Backup(e[i])'
    BY <1>2, <1>4, <1>9
  <2>3. \A i \in m..Len(gens') : Backup(e[i])' \in Files' /\ dir'[Backup(e[i])'] = gens'[i]
    BY <1>2, <1>4, <1>8
  <2> QED
    BY <1>7, <1>11, <2>1, <2>2, <2>3 DEF Chain
<1>13. e[m] = IF m <= l THEN at[m] ELSE d
  BY <1>1, <1>6
<1> QED
  BY <1>7, <1>12, <1>13 DEF l

\* The oldest backup is removed.
LEMMA ChainShrinks ==
    ASSUME TypeInv, NEW m, NEW at, Chain(m, at), m <= Len(gens),
           config' = config, gens' = gens, dir' = Drop(Backup(at[m]))
    PROVE  \E e \in [(m + 1)..Len(gens) -> Nat] :
              Chain(m + 1, e)' /\ \A i \in (m + 1)..Len(gens) : e[i] = at[i]
<1> DEFINE l == Len(gens)
<1>1. /\ m \in Nat /\ m >= 1 /\ m <= l /\ l \in Nat
      /\ \A i \in m..l : at[i] \in Nat /\ Backup(at[i]) \in Files \ {Base}
      /\ \A i, j \in m..l : Backup(at[i]) = Backup(at[j]) => i = j
  BY ChainDistinct
<1>2. /\ Files' = Files \ {Backup(at[m])}
      /\ \A f \in Files \ {Backup(at[m])} : dir'[f] = dir[f]
  <2>1. /\ DOMAIN Drop(Backup(at[m])) = Files \ {Backup(at[m])}
        /\ \A f \in Files \ {Backup(at[m])} : Drop(Backup(at[m]))[f] = dir[f]
    BY DropFacts
  <2> QED
    BY <2>1 DEF Files
<1>3. Timed' = Timed /\ \A k : Backup(k)' = Backup(k)
  BY SameSettings DEF Backup, Date, Num
<1> HIDE DEF l
<1>4. PICK e : e = [i \in (m + 1)..l |-> at[i]]
  OBVIOUS
<1>5. \A i \in (m + 1)..l : i \in m..l /\ i # m
  BY <1>1
<1>6. e \in [(m + 1)..l -> Nat] /\ \A i \in (m + 1)..l : e[i] = at[i]
  BY <1>1, <1>4, <1>5
<1>7. ASSUME NEW i \in (m + 1)..l
      PROVE  Backup(e[i]) \in Files' /\ dir'[Backup(e[i])] = gens[i]
  <2>1. i \in m..l /\ i # m /\ m \in m..l /\ e[i] = at[i]
    BY <1>1, <1>5, <1>6
  <2>2. Backup(at[i]) # Backup(at[m]) /\ Backup(at[i]) \in Files /\ dir[Backup(at[i])] = gens[i]
    BY <1>1, <2>1 DEF Chain, l
  <2> QED
    BY <1>2, <2>1, <2>2
<1>8. ASSUME NEW f \in Files' \ {Base}
      PROVE  \E i \in (m + 1)..l : f = Backup(e[i])
  <2>1. PICK i \in m..l : f = Backup(at[i])
    BY <1>2 DEF Chain, l
  <2>2. i # m
    BY <1>2, <2>1
  <2>3. i \in (m + 1)..l
    BY <1>1, <2>2
  <2> QED
    BY <1>6, <2>1, <2>3
<1>9. ASSUME NEW i \in (m + 1)..l, NEW j \in (m + 1)..l, i < j
      PROVE  Before(e[i], e[j])
  BY <1>5, <1>6, <1>9 DEF Chain, l
<1>10. Base' = Base /\ m + 1 \in 1..(Len(gens') + 1) /\ e \in [(m + 1)..Len(gens') -> Nat]
  BY <1>1, <1>6 DEF Base, l
<1>11. Chain(m + 1, e)'
  <2>1. \A i, j \in (m + 1)..Len(gens') : i < j => Before(e[i], e[j])'
    BY <1>3, <1>9 DEF Before, l
  <2>2. \A f \in Files' \ {Base} : \E i \in (m + 1)..Len(gens') : f = Backup(e[i])'
    BY <1>3, <1>8 DEF l
  <2>3. \A i \in (m + 1)..Len(gens') : Backup(e[i])' \in Files' /\ dir'[Backup(e[i])'] = gens'[i]
    BY <1>3, <1>7 DEF l
  <2> QED
    BY <1>10, <2>1, <2>2, <2>3 DEF Chain
<1> QED
  BY <1>6, <1>11 DEF l

\* The next file of a timed rotation is dated later than any other.
LEMMA TimedChainRollBase ==
    ASSUME TypeInv, TimedInv, TimedChain, TypeInv', RollBase
    PROVE  TimedChain'
<1>1. /\ Timed' = Timed /\ Backups' = Backups /\ Backups \in Nat \ {0} /\ config' = config
      /\ faults' = faults /\ faults \in Nat /\ pc = "roll" /\ Base \in Files
      /\ Len(gens) \in Nat
  <2>1. config' = config /\ config \in Configs
    BY DEF RollBase, TypeInv, TypeOK
  <2> QED
    BY <2>1, SettingFacts, SameSettings, CutTypes DEF RollBase, TypeInv, TypeOK
<1> SUFFICES ASSUME Timed
             PROVE  TimedChain'
  BY <1>1 DEF TimedChain
<1>2. PICK d \in Nat : d = rolloverAt - Interval
  BY RotationAssumption DEF TypeInv, TypeOK
<1>3. /\ Rolled = Date(d) /\ Rolled = Backup(d) /\ Rolled.kind = "date" /\ Rolled.at = d
  BY <1>2, NameFacts DEF Rolled, Backup
<1>4. \A f \in Dated : f.at \in Nat /\ f.at < d
  BY <1>1, <1>2 DEF TimedInv, Dated, Name, TypeInv, TypeOK
<1>5. Rolled \notin Files
  <2>1. ~(d < d)
    OBVIOUS
  <2> QED
    BY <1>3, <1>4, <2>1 DEF Dated
<1>6. dir' = Rename(Base, Rolled) /\ gens' = Append(gens, dir[Base]) /\ pc' = "prune"
  BY <1>5 DEF RollBase
<1>m. PICK m \in 1..(Len(gens) + 1) : \E at \in [m..Len(gens) -> Nat] :
              /\ Chain(m, at)
              /\ m = 1 \/ Kept(m) >= Backups
              /\ Kept(m) <= Backups + faults + Unpruned
  BY DEF TimedChain
<1>7. PICK at \in [m..Len(gens) -> Nat] :
              /\ Chain(m, at)
              /\ m = 1 \/ Kept(m) >= Backups
              /\ Kept(m) <= Backups + faults + Unpruned
  BY <1>m
<1>8. ASSUME NEW i \in m..Len(gens)
      PROVE  Before(at[i], d)
  <2>1. at[i] \in Nat /\ Backup(at[i]) \in Files
    BY <1>7 DEF Chain
  <2>2. Backup(at[i]).kind = "date" /\ Backup(at[i]).at = at[i]
    BY <2>1, BackupFacts
  <2> QED
    BY <1>4, <2>1, <2>2 DEF Dated, Before
<1>9. PICK e \in [m..Len(gens') -> Nat] : Chain(m, e)'
  BY <1>1, <1>3, <1>5, <1>6, <1>7, <1>8, ChainGrows
<1>10. Len(gens') = Len(gens) + 1
  <2>1. gens \in Seq(FileContent) /\ dir[Base] \in FileContent
    BY <1>1 DEF TypeInv, TypeOK
  <2> QED
    BY <1>6, <2>1, AppendProperties
<1>11. Kept(m)' = Kept(m) + 1 /\ Kept(m) \in Nat
  BY <1>1, <1>10 DEF Kept
<1>12. Unpruned = 0 /\ Unpruned' = 1
  BY <1>1, <1>6 DEF Unpruned
<1>13. m \in 1..(Len(gens') + 1)
  BY <1>1, <1>10
<1>14. m = 1 \/ Kept(m)' >= Backups'
  <2>1. m = 1 \/ Kept(m) + 1 >= Backups
    BY <1>1, <1>7, <1>11
  <2> QED
    BY <1>1, <1>11, <2>1
<1>15. Kept(m)' <= Backups' + faults' + Unpruned'
  <2>1. Kept(m) + 1 <= Backups + faults + 1
    BY <1>1, <1>7, <1>11, <1>12
  <2> QED
    BY <1>1, <1>11, <1>12, <2>1
<1> QED
  BY <1>1, <1>9, <1>13, <1>14, <1>15 DEF TimedChain

\* The dated files are those of the chain, and the newer ones those further up.
LEMMA NewerFiles ==
    ASSUME TypeInv, TimedInv, Timed, NEW m, NEW at, Chain(m, at), NEW i \in m..Len(gens)
    PROVE  /\ Date(at[i]) \in Dated
           /\ Cardinality({g \in Dated : Older(Date(at[i]), g)}) = Len(gens) - i
<1> DEFINE l == Len(gens)
<1>1. /\ m \in Nat /\ m >= 1 /\ m <= l + 1 /\ l \in Nat /\ i \in m..l
      /\ \A j \in m..l : at[j] \in Nat /\ Backup(at[j]) \in Files \ {Base}
      /\ \A j, k \in m..l : Backup(at[j]) = Backup(at[k]) => j = k
  BY ChainDistinct
<1>2. \A j \in m..l : /\ Backup(at[j]) \in Dated /\ Backup(at[j]).at = at[j]
                      /\ Backup(at[j]).gz = FALSE /\ Backup(at[j]) = Date(at[j])
  <2>1. \A j \in m..l : Backup(at[j]).kind = "date"
    BY <1>1, BackupFacts
  <2>2. \A j \in m..l : Backup(at[j]).at = at[j] /\ Backup(at[j]).gz = FALSE
    BY <1>1, BackupFacts
  <2> QED
    BY <1>1, <2>1, <2>2 DEF Dated, Backup
<1>3. \A j, k \in m..l : j < k => at[j] < at[k]
  BY DEF Chain, Before
<1> HIDE DEF l
<1>4. PICK f : f = [j \in m..l |-> Backup(at[j])]
  OBVIOUS
<1>5. \A j \in m..l : f[j] = Backup(at[j])
  BY <1>4
<1> DEFINE T == {f[j] : j \in (i + 1)..l}
<1>6. {g \in Dated : Older(Date(at[i]), g)} = T
  <2>1. ASSUME NEW g \in Dated, Older(Date(at[i]), g)
        PROVE  g \in T
    <3>1. g \in Files \ {Base}
      BY NameFacts, 0 \in Nat DEF Dated, Base
    <3>2. PICK j \in m..l : g = Backup(at[j])
      BY <3>1 DEF Chain, l
    <3>3. at[i] < at[j]
      BY <1>1, <1>2, <2>1, <3>2 DEF Older
    <3>4. ~(j < i) /\ j # i
      BY <1>1, <1>3, <3>3
    <3>5. j \in (i + 1)..l
      BY <1>1, <3>4
    <3> QED
      BY <1>5, <3>2, <3>5
  <2>2. ASSUME NEW j \in (i + 1)..l
        PROVE  f[j] \in Dated /\ Older(Date(at[i]), f[j])
    <3>1. j \in m..l /\ i < j
      BY <1>1
    <3>2. at[i] < at[j]
      BY <1>1, <1>3, <3>1
    <3> QED
      BY <1>1, <1>2, <1>5, <3>1, <3>2 DEF Older
  <2> QED
    BY <2>1, <2>2
<1>7. Cardinality(T) = l - (i + 1) + 1
  <2>1. \A j, k \in (i + 1)..l : f[j] = f[k] => j = k
    <3>1. \A j \in (i + 1)..l : j \in m..l
      BY <1>1
    <3> QED
      BY <1>1, <1>5, <3>1
  <2>2. i + 1 \in Int /\ l \in Int /\ i + 1 <= l + 1
    BY <1>1
  <2> QED
    BY <2>1, <2>2, InjectiveImage
<1>8. Cardinality(T) = l - i
  BY <1>1, <1>7
<1> HIDE DEF T
<1> QED
  BY <1>1, <1>2, <1>6, <1>8 DEF l

\* The file that is pruned is the oldest one, and enough newer ones remain.
LEMMA TimedChainPrune ==
    ASSUME TypeInv, TimedInv, TimedChain, TypeInv', Prune
    PROVE  TimedChain'
<1>1. /\ Timed' = Timed /\ Backups' = Backups /\ Backups \in Nat \ {0} /\ config' = config
      /\ faults' = faults /\ faults \in Nat /\ gens' = gens /\ Unpruned' = Unpruned
      /\ Unpruned \in Nat /\ Len(gens) \in Nat
  <2>1. config' = config /\ config \in Configs
    BY DEF Prune, TypeInv, TypeOK
  <2> QED
    BY <2>1, SettingFacts, SameSettings, CutTypes DEF Prune, TypeInv, TypeOK, Unpruned
<1> SUFFICES ASSUME Timed
             PROVE  TimedChain'
  BY <1>1 DEF TimedChain
<1>2. PICK f \in ToDelete : (\A g \in ToDelete : ~Older(g, f)) /\ dir' = Drop(f)
  BY DEF Prune
<1>m. PICK m \in 1..(Len(gens) + 1) : \E at \in [m..Len(gens) -> Nat] :
              /\ Chain(m, at)
              /\ m = 1 \/ Kept(m) >= Backups
              /\ Kept(m) <= Backups + faults + Unpruned
  BY DEF TimedChain
<1>3. PICK at \in [m..Len(gens) -> Nat] :
              /\ Chain(m, at)
              /\ m = 1 \/ Kept(m) >= Backups
              /\ Kept(m) <= Backups + faults + Unpruned
  BY <1>m
<1>4. f \in Files \ {Base}
  BY <1>2, NameFacts, 0 \in Nat DEF ToDelete, Dated, Base
<1>5. PICK i \in m..Len(gens) : f = Backup(at[i])
  BY <1>3, <1>4 DEF Chain
<1>6. /\ f = Date(at[i]) /\ Cardinality({g \in Dated : Older(f, g)}) = Len(gens) - i
  BY <1>3, <1>5, NewerFiles DEF Backup
<1>7. Len(gens) - i >= Backups
  BY <1>2, <1>6 DEF ToDelete
<1>8. i = m
  <2>1. SUFFICES ASSUME i # m
                 PROVE  FALSE
    OBVIOUS
  <2>2. m \in m..Len(gens) /\ m < i /\ Len(gens) - m >= Backups
    BY <1>1, <1>7, <2>1
  <2>3. /\ Date(at[m]) \in Dated
        /\ Cardinality({g \in Dated : Older(Date(at[m]), g)}) = Len(gens) - m
    BY <1>3, <2>2, NewerFiles
  <2>4. Date(at[m]) \in ToDelete
    BY <2>2, <2>3 DEF ToDelete
  <2>5. at[m] < at[i] /\ at[m] \in Nat /\ at[i] \in Nat
    BY <1>3, <2>2 DEF Chain, Before
  <2>6. Older(Date(at[m]), f)
    <3>1. Date(at[m]).at = at[m] /\ f.at = at[i]
      BY <1>6, <2>5, NameFacts
    <3> QED
      BY <2>5, <3>1 DEF Older
  <2> QED
    BY <1>2, <2>4, <2>6
<1>9. m <= Len(gens) /\ dir' = Drop(Backup(at[m]))
  BY <1>1, <1>2, <1>5, <1>8
<1>10. config' = config /\ gens' = gens
  BY <1>1
<1>11. PICK e \in [(m + 1)..Len(gens) -> Nat] : Chain(m + 1, e)'
  BY <1>3, <1>9, <1>10, ChainShrinks
<1>12. m + 1 \in 1..(Len(gens') + 1) /\ e \in [(m + 1)..Len(gens') -> Nat]
  BY <1>1, <1>9, <1>11
<1>13. Kept(m + 1)' >= Backups' /\ Kept(m + 1)' <= Backups' + faults' + Unpruned'
  <2>1. Kept(m + 1)' = Len(gens) - m /\ Kept(m) = Len(gens) - m + 1
    BY <1>1 DEF Kept
  <2>2. Len(gens) - m >= Backups /\ Len(gens) - m <= Backups + faults + Unpruned
    BY <1>1, <1>3, <1>7, <1>8, <2>1
  <2> QED
    BY <1>1, <2>1, <2>2
<1> QED
  BY <1>1, <1>11, <1>12, <1>13 DEF TimedChain

\* The log file is opened when no dated file is too many.
LEMMA TimedChainReopen ==
    ASSUME TypeInv, TimedInv, TimedChain, TypeInv', Reopen
    PROVE  TimedChain'
<1>1. /\ Timed' = Timed /\ Backups' = Backups /\ Backups \in Nat \ {0} /\ config' = config
      /\ faults' = faults /\ faults \in Nat /\ gens' = gens /\ Unpruned' = 0
      /\ Len(gens) \in Nat
  <2>1. config' = config /\ config \in Configs
    BY DEF Reopen, TypeInv, TypeOK
  <2> QED
    BY <2>1, SettingFacts, SameSettings, CutTypes DEF Reopen, TypeInv, TypeOK, Unpruned
<1> SUFFICES ASSUME Timed
             PROVE  TimedChain'
  BY <1>1 DEF TimedChain
<1>m. PICK m \in 1..(Len(gens) + 1) : \E at \in [m..Len(gens) -> Nat] :
              /\ Chain(m, at)
              /\ m = 1 \/ Kept(m) >= Backups
              /\ Kept(m) <= Backups + faults + Unpruned
  BY DEF TimedChain
<1>2. PICK at \in [m..Len(gens) -> Nat] :
              /\ Chain(m, at)
              /\ m = 1 \/ Kept(m) >= Backups
              /\ Kept(m) <= Backups + faults + Unpruned
  BY <1>m
<1>3. Kept(m) \in Nat /\ Kept(m) <= Backups
  <2>1. CASE m = Len(gens) + 1
    BY <1>1, <2>1 DEF Kept
  <2>2. CASE m # Len(gens) + 1
    <3>1. m \in m..Len(gens)
      BY <1>1, <2>2
    <3>2. /\ Date(at[m]) \in Dated
          /\ Cardinality({g \in Dated : Older(Date(at[m]), g)}) = Len(gens) - m
      BY <1>2, <3>1, NewerFiles
    <3>3. ~(Len(gens) - m >= Backups)
      BY <3>2 DEF ToDelete, Reopen
    <3> QED
      BY <1>1, <3>1, <3>3 DEF Kept
  <2> QED
    BY <2>1, <2>2
<1>4. SameBackups
  <2>1. /\ DOMAIN Put(Base, << >>) = Files \cup {Base}
        /\ \A f \in Files \ {Base} : Put(Base, << >>)[f] = dir[f]
    BY PutFacts
  <2>2. dir' = Put(Base, << >>)
    BY DEF Reopen
  <2> QED
    BY <1>1, <2>1, <2>2 DEF SameBackups
<1>5. Chain(m, at)'
  BY <1>2, <1>4, ChainStays
<1>6. Kept(m)' = Kept(m)
  BY <1>1 DEF Kept
<1>7. Kept(m)' <= Backups' + faults' + Unpruned' /\ (m = 1 \/ Kept(m)' >= Backups')
  <2>1. Kept(m) <= Backups + faults
    BY <1>1, <1>3
  <2> QED
    BY <1>1, <1>2, <1>3, <1>6, <2>1
<1>8. m \in 1..(Len(gens') + 1) /\ at \in [m..Len(gens') -> Nat]
  BY <1>1, <1>2
<1> QED
  BY <1>1, <1>5, <1>7, <1>8 DEF TimedChain

\* A timed rotation has no numbers to move.
LEMMA TimedChainShift ==
    ASSUME TypeInv, TimedInv, TimedChain, TypeInv', Shift
    PROVE  TimedChain'
<1>1. Timed' = Timed
  BY SameSettings DEF Shift
<1> SUFFICES ASSUME Timed
             PROVE  TimedChain'
  BY <1>1 DEF TimedChain
<1>2. step \in Nat
  BY SettingFacts DEF TypeInv, TypeOK
<1>3. Num(step) \notin Files
  <2>1. Num(step).kind = "num" /\ Base.kind = "base"
    BY <1>2, NameFacts
  <2> QED
    BY <2>1 DEF TimedInv
<1>4. dir' = dir /\ config' = config /\ gens' = gens /\ faults' = faults /\ pc # "prune"
  BY <1>3 DEF Shift
<1>5. SameBackups
  BY <1>4 DEF SameBackups, Files
<1> QED
  BY <1>4, <1>5, TimedChainStays

\* The numbers in use go up to the count of backups.
LEMMA NumsInRange ==
    ASSUME TypeInv, NumbersInv, ~Timed, ~config.compress, NEW m, NEW at, Chain(m, at)
    PROVE  /\ \A i \in m..Len(gens) : at[i] \in 1..Backups
           /\ \A i \in m..Len(gens) : Backup(at[i]) = Num(at[i])
<1>1. \A i \in m..Len(gens) : at[i] \in Nat /\ Backup(at[i]) \in Files \ {Base}
  BY ChainDistinct
<1>2. \A i \in m..Len(gens) : Backup(at[i]) \in NumsInUse
  BY <1>1 DEF NumbersInv
<1>3. ASSUME NEW i \in m..Len(gens)
      PROVE  at[i] \in 1..Backups
  <2>1. PICK k \in 1..Backups : Backup(at[i]) = Num(k)
    BY <1>2 DEF NumsInUse
  <2>2. at[i] \in Nat /\ k \in Nat
    BY <1>1
  <2>3. Backup(at[i]).at = at[i] /\ Num(k).at = k
    BY <2>2, BackupFacts, NameFacts
  <2> QED
    BY <2>1, <2>3
<1> QED
  BY <1>3 DEF Backup

\* A backup gets the next higher number.
LEMMA ChainMoves ==
    ASSUME TypeInv, ~Timed, NEW m, NEW at, Chain(m, at), NEW i \in m..Len(gens),
           NEW k \in Nat, at[i] = k, Num(k + 1) \notin Files,
           config' = config, gens' = gens, dir' = Rename(Num(k), Num(k + 1))
    PROVE  \E e \in [m..Len(gens) -> Nat] :
              /\ Chain(m, e)' /\ e[i] = k + 1
              /\ \A j \in m..Len(gens) : j # i => e[j] = at[j]
<1> DEFINE l == Len(gens)
<1>1. /\ m \in Nat /\ m >= 1 /\ m <= l + 1 /\ l \in Nat /\ i \in m..l
      /\ \A j \in m..l : at[j] \in Nat /\ Backup(at[j]) \in Files \ {Base}
      /\ \A j, n \in m..l : Backup(at[j]) = Backup(at[n]) => j = n
  BY ChainDistinct
<1>2. \A n \in Nat : Backup(n) = Num(n) /\ Num(n) \in Name /\ Num(n).at = n
  BY NameFacts DEF Backup
<1>3. /\ Files' = (Files \ {Num(k)}) \cup {Num(k + 1)} /\ dir'[Num(k + 1)] = dir[Num(k)]
      /\ \A f \in Files \ {Num(k)} : dir'[f] = dir[f]
  <2>1. Num(k) \in Name /\ Num(k + 1) \in Name /\ Num(k) # Num(k + 1)
    <3>1. k + 1 \in Nat /\ k # k + 1
      OBVIOUS
    <3> QED
      BY <1>2, <3>1, NumsDiffer
  <2>2. /\ DOMAIN Rename(Num(k), Num(k + 1)) = (Files \ {Num(k)}) \cup {Num(k + 1)}
        /\ Rename(Num(k), Num(k + 1))[Num(k + 1)] = dir[Num(k)]
        /\ \A f \in Files \ {Num(k), Num(k + 1)} : Rename(Num(k), Num(k + 1))[f] = dir[f]
    BY <2>1, RenameFacts
  <2> QED
    BY <2>2 DEF Files
<1>4. Timed' = Timed /\ \A n : Backup(n)' = Backup(n)
  BY SameSettings DEF Backup, Date, Num
<1> HIDE DEF l
<1>5. PICK e : e = [j \in m..l |-> IF j = i THEN k + 1 ELSE at[j]]
  OBVIOUS
<1>6. e \in [m..l -> Nat] /\ e[i] = k + 1 /\ \A j \in m..l : j # i => e[j] = at[j]
  BY <1>1, <1>5
<1>7. ASSUME NEW j \in m..l
      PROVE  Backup(e[j]) \in Files' /\ dir'[Backup(e[j])] = gens[j]
  <2>1. Backup(at[j]) \in Files /\ dir[Backup(at[j])] = gens[j]
    BY DEF Chain, l
  <2>2. CASE j = i
    <3>1. k + 1 \in Nat /\ e[j] = k + 1 /\ at[j] = k
      BY <1>6, <2>2
    <3>2. Backup(e[j]) = Num(k + 1) /\ Backup(at[j]) = Num(k)
      BY <1>2, <3>1
    <3> QED
      BY <1>3, <2>1, <3>2
  <2>3. CASE j # i
    <3>1. Backup(at[j]) # Backup(at[i]) /\ Backup(at[i]) = Num(k)
      BY <1>1, <1>2, <2>3
    <3> QED
      BY <1>3, <1>6, <2>1, <2>3, <3>1
  <2> QED
    BY <2>2, <2>3
<1>8. ASSUME NEW f \in Files' \ {Base}
      PROVE  \E j \in m..l : f = Backup(e[j])
  <2>1. CASE f = Num(k + 1)
    <3>1. k + 1 \in Nat
      OBVIOUS
    <3> QED
      BY <1>1, <1>2, <1>6, <2>1, <3>1
  <2>2. CASE f \in Files \ {Num(k), Base}
    <3>1. PICK j \in m..l : f = Backup(at[j])
      BY <2>2 DEF Chain, l
    <3>2. j # i
      BY <1>2, <2>2, <3>1
    <3> QED
      BY <1>6, <3>1, <3>2
  <2> QED
    BY <1>3, <2>1, <2>2
<1>9. \A j \in m..l : at[j] # k + 1
  <2>1. ASSUME NEW j \in m..l, at[j] = k + 1
        PROVE  FALSE
    <3>1. Backup(at[j]) = Num(k + 1) /\ Backup(at[j]) \in Files
      BY <1>1, <1>2, <2>1
    <3> QED
      BY <3>1
  <2> QED
    BY <2>1
<1>10. ASSUME NEW j \in m..l, NEW n \in m..l, j < n
       PROVE  Before(e[j], e[n])
  <2>1. at[n] < at[j]
    BY <1>10 DEF Chain, Before, l
  <2>2. at[j] \in Nat /\ at[n] \in Nat /\ at[j] # k + 1 /\ at[i] = k
    BY <1>1, <1>9
  <2>3. e[n] < e[j]
    <3>1. CASE j = i
      <4>1. e[j] = k + 1 /\ n # i
        BY <1>1, <1>6, <1>10, <3>1
      <4>2. e[n] = at[n] /\ at[j] = k
        BY <1>6, <3>1, <4>1
      <4> QED
        BY <2>1, <2>2, <4>1, <4>2
    <3>2. CASE n = i
      <4>1. e[n] = k + 1 /\ j # i
        BY <1>1, <1>6, <1>10, <3>2
      <4>2. e[j] = at[j] /\ at[n] = k
        BY <1>6, <3>2, <4>1
      <4> QED
        BY <2>1, <2>2, <4>1, <4>2
    <3>3. CASE j # i /\ n # i
      BY <1>6, <2>1, <3>3
    <3> QED
      BY <3>1, <3>2, <3>3
  <2> QED
    BY <2>3 DEF Before
<1>11. Base' = Base /\ m \in 1..(Len(gens') + 1) /\ e \in [m..Len(gens') -> Nat]
  BY <1>1, <1>6 DEF Base, l
<1>12. Chain(m, e)'
  <2>1. \A j, n \in m..Len(gens') : j < n => Before(e[j], e[n])'
    BY <1>4, <1>10 DEF Before, l
  <2>2. \A f \in Files' \ {Base} : \E j \in m..Len(gens') : f = Backup(e[j])'
    BY <1>4, <1>8 DEF l
  <2>3. \A j \in m..Len(gens') : Backup(e[j])' \in Files' /\ dir'[Backup(e[j])'] = gens'[j]
    BY <1>4, <1>7 DEF l
  <2> QED
    BY <1>11, <2>1, <2>2, <2>3 DEF Chain
<1> QED
  BY <1>6, <1>12 DEF l

\* The numbers are moved up.
LEMMA SizeChainShift ==
    ASSUME TypeInv, SizeInv, NumbersInv, SizeChain, TypeInv', Shift
    PROVE  SizeChain'
<1>1. /\ Timed' = Timed /\ Backups' = Backups /\ Backups \in Nat \ {0} /\ config' = config
      /\ faults' = faults /\ faults \in Nat /\ gens' = gens /\ pc = "roll" /\ pc' = "roll"
      /\ step \in Nat /\ step >= 1 /\ Len(gens) \in Nat /\ step + 1 \in Nat
  <2>1. config' = config /\ config \in Configs
    BY DEF Shift, TypeInv, TypeOK
  <2> QED
    BY <2>1, SettingFacts, SameSettings, CutTypes DEF Shift, TypeInv, TypeOK
<1> SUFFICES ASSUME ~Timed, ~config.compress
             PROVE  SizeChain'
  BY <1>1 DEF SizeChain
<1>2. step <= Backups - 1
  BY <1>1 DEF NumbersInv
<1>m. PICK m \in 1..(Len(gens) + 1) : \E at \in [m..Len(gens) -> Nat] :
              /\ Chain(m, at)
              /\ m <= faults + 1 \/ Kept(m) + faults + Rolling >= Backups
              /\ m <= Len(gens) => at[m] <= Kept(m) + faults + Moved(m, at)
  BY DEF SizeChain
<1>3. PICK at \in [m..Len(gens) -> Nat] :
              /\ Chain(m, at)
              /\ m <= faults + 1 \/ Kept(m) + faults + Rolling >= Backups
              /\ m <= Len(gens) => at[m] <= Kept(m) + faults + Moved(m, at)
  BY <1>m
<1>4. Rolling = 1 /\ Rolling' = 1 /\ Kept(m)' = Kept(m) /\ Kept(m) \in Nat
  BY <1>1 DEF Rolling, Kept
<1>5. \A i \in m..Len(gens) : at[i] \in 1..Backups /\ Backup(at[i]) = Num(at[i])
  BY <1>3, NumsInRange
<1>6. ASSUME NEW k \in Nat, Num(k) \in Files
      PROVE  \E i \in m..Len(gens) : at[i] = k
  <2>1. Num(k) \in Files \ {Base}
    BY <1>6, SizeNames
  <2>2. PICK i \in m..Len(gens) : Num(k) = Backup(at[i])
    BY <1>3, <2>1 DEF Chain
  <2>3. Num(k) = Num(at[i]) /\ at[i] \in Nat
    BY <1>5, <2>2
  <2>4. at[i] = k
    BY <2>3, NumsDiffer
  <2> QED
    BY <2>4
<1>7. CASE Num(step) \notin Files /\ step' = step - 1 /\ dir' = dir
  <2>1. SameBackups
    BY <1>1, <1>7 DEF SameBackups, Files
  <2> QED
    BY <1>1, <1>7, <2>1, SizeChainStays
\* A file is in the way only when it is the oldest of as many as there may be.
<1>8. CASE {Num(step), Num(step + 1)} \subseteq Files /\ dir' = Drop(Num(step + 1))
           /\ step' = step
  <2>1. step + 1 = Backups
    BY <1>1, <1>2, <1>8 DEF SizeInv
  <2>2. PICK i \in m..Len(gens) : at[i] = Backups
    BY <1>1, <1>6, <1>8, <2>1
  <2>3. PICK j \in m..Len(gens) : at[j] = step
    BY <1>1, <1>6, <1>8
  <2>4. i = m
    <3>1. i # m => m \in m..Len(gens) /\ m < i
      BY <1>1
    <3>2. i # m => at[i] < at[m] /\ at[m] \in 1..Backups
      BY <1>3, <1>5, <3>1 DEF Chain, Before
    <3> QED
      BY <1>1, <2>2, <3>2
  <2>5. m <= Len(gens) /\ m + 1 <= Len(gens) /\ m + 1 \in m..Len(gens) /\ m \in m..Len(gens)
    <3>1. j # m
      BY <1>1, <2>1, <2>2, <2>3, <2>4
    <3> QED
      BY <1>1, <3>1
  <2>6. dir' = Drop(Backup(at[m]))
    BY <1>5, <1>8, <2>1, <2>2, <2>4, <2>5
  <2>7. config' = config /\ gens' = gens
    BY <1>1
  <2>8. PICK e \in [(m + 1)..Len(gens) -> Nat] :
              Chain(m + 1, e)' /\ \A n \in (m + 1)..Len(gens) : e[n] = at[n]
    <3>1. Chain(m, at) /\ m <= Len(gens)
      BY <1>3, <2>5
    <3>2. \E e \in [(m + 1)..Len(gens) -> Nat] :
              Chain(m + 1, e)' /\ \A n \in (m + 1)..Len(gens) : e[n] = at[n]
      BY <2>6, <2>7, <3>1, ChainShrinks
    <3> QED
      BY <3>2
  <2>9. Moved(m, at) = 0
    BY <1>1, <2>1 DEF Moved
  <2>10. Backups <= Kept(m) + faults
    BY <1>1, <1>3, <1>4, <2>2, <2>4, <2>5, <2>9
  <2>11. Kept(m + 1)' = Kept(m) - 1 /\ Kept(m) - 1 \in Nat
    <3>1. Kept(m + 1)' = Len(gens) - (m + 1) + 1
      BY <1>1 DEF Kept
    <3> QED
      BY <1>1, <2>5, <3>1 DEF Kept
  <2>12. Kept(m + 1)' + faults' + Rolling' >= Backups'
    <3>1. (Kept(m) - 1) + faults + 1 >= Backups
      BY <1>1, <1>4, <2>10
    <3> QED
      BY <1>1, <1>4, <2>11, <3>1
  <2>13. e[m + 1] <= Kept(m + 1)' + faults' + Moved(m + 1, e)'
    <3>1. at[m + 1] < at[m] /\ m + 1 \in (m + 1)..Len(gens)
      BY <1>1, <1>3, <2>5 DEF Chain, Before
    <3>2. e[m + 1] = at[m + 1] /\ e[m + 1] \in Nat /\ e[m + 1] < Backups
      BY <1>5, <2>2, <2>4, <2>5, <2>8, <3>1
    <3>3. Moved(m + 1, e)' = 0 \/ Moved(m + 1, e)' = 1
      BY DEF Moved
    <3>4. e[m + 1] <= (Kept(m) - 1) + faults + Moved(m + 1, e)'
      BY <1>1, <1>4, <2>10, <3>2, <3>3
    <3> QED
      BY <1>1, <2>11, <3>4
  <2>14. m + 1 \in 1..(Len(gens') + 1) /\ e \in [(m + 1)..Len(gens') -> Nat]
    BY <1>1, <2>5, <2>8
  <2> QED
    BY <1>1, <2>8, <2>12, <2>13, <2>14 DEF SizeChain
<1>9. CASE Num(step) \in Files /\ Num(step + 1) \notin Files
           /\ dir' = Rename(Num(step), Num(step + 1)) /\ step' = step - 1
  <2>1. PICK i \in m..Len(gens) : at[i] = step
    BY <1>1, <1>6, <1>9
  <2>2. config' = config /\ gens' = gens
    BY <1>1
  <2>3. PICK e \in [m..Len(gens) -> Nat] :
              /\ Chain(m, e)' /\ e[i] = step + 1
              /\ \A j \in m..Len(gens) : j # i => e[j] = at[j]
    <3>1. Chain(m, at) /\ step \in Nat /\ at[i] = step /\ Num(step + 1) \notin Files
          /\ dir' = Rename(Num(step), Num(step + 1))
      BY <1>1, <1>3, <1>9, <2>1
    <3>2. \E e \in [m..Len(gens) -> Nat] :
              /\ Chain(m, e)' /\ e[i] = step + 1
              /\ \A j \in m..Len(gens) : j # i => e[j] = at[j]
      BY <2>2, <3>1, ChainMoves
    <3> QED
      BY <3>2
  <2>4. m \in m..Len(gens) /\ m <= Len(gens) /\ at[m] \in Nat
    BY <1>1, <1>5, <2>1
  <2>5. e[m] <= Kept(m) + faults + Moved(m, e)'
    <3>1. at[m] <= Kept(m) + faults + Moved(m, at)
      BY <1>3, <2>4
    <3>2. Moved(m, at) \in {0, 1} /\ Moved(m, e)' \in {0, 1}
      BY DEF Moved
    <3>3. Moved(m, e)' = IF step - 1 < Backups - 1 /\ step - 1 < e[m] THEN 1 ELSE 0
      BY <1>1, <1>9 DEF Moved
    <3>4. CASE i = m
      <4>1. e[m] = step + 1 /\ Moved(m, at) = 0 /\ at[m] = step
        BY <1>1, <2>1, <2>3, <3>4 DEF Moved
      <4>2. Moved(m, e)' = 1
        BY <1>1, <1>2, <3>3, <4>1
      <4> QED
        BY <1>1, <1>4, <3>1, <4>1, <4>2
    <3>5. CASE i # m
      <4>1. e[m] = at[m]
        BY <2>3, <2>4, <3>5
      <4>2. Moved(m, at) = 1 => Moved(m, e)' = 1
        <5>1. Moved(m, at) = 1 => step < Backups - 1 /\ step < at[m]
          BY DEF Moved
        <5> QED
          BY <1>1, <2>4, <3>3, <4>1, <5>1
      <4> QED
        BY <1>1, <1>4, <2>4, <3>1, <3>2, <4>1, <4>2
    <3> QED
      BY <3>4, <3>5
  <2>6. m <= faults' + 1 \/ Kept(m)' + faults' + Rolling' >= Backups'
    BY <1>1, <1>3, <1>4
  <2>7. m <= Len(gens') => e[m] <= Kept(m)' + faults' + Moved(m, e)'
    BY <1>1, <1>4, <2>5
  <2>8. m \in 1..(Len(gens') + 1) /\ e \in [m..Len(gens') -> Nat]
    BY <1>1, <2>3
  <2> QED
    BY <1>1, <2>3, <2>6, <2>7, <2>8 DEF SizeChain
<1> QED
  BY <1>7, <1>8, <1>9 DEF Shift

\* The log file gets the number 1: what was moved up is above it, and with a
\* single backup the only file is removed first.
LEMMA SizeChainRollBase ==
    ASSUME TypeInv, SizeInv, NumbersInv, SizeChain, TypeInv', RollBase
    PROVE  SizeChain'
<1>1. /\ Timed' = Timed /\ Backups' = Backups /\ Backups \in Nat \ {0} /\ config' = config
      /\ faults' = faults /\ faults \in Nat /\ pc = "roll" /\ step = 0 /\ Base \in Files
      /\ Len(gens) \in Nat
  <2>1. config' = config /\ config \in Configs
    BY DEF RollBase, TypeInv, TypeOK
  <2> QED
    BY <2>1, SettingFacts, SameSettings, CutTypes DEF RollBase, TypeInv, TypeOK
<1> SUFFICES ASSUME ~Timed, ~config.compress
             PROVE  SizeChain'
  BY <1>1 DEF SizeChain
<1>m. PICK m \in 1..(Len(gens) + 1) : \E at \in [m..Len(gens) -> Nat] :
              /\ Chain(m, at)
              /\ m <= faults + 1 \/ Kept(m) + faults + Rolling >= Backups
              /\ m <= Len(gens) => at[m] <= Kept(m) + faults + Moved(m, at)
  BY DEF SizeChain
<1>2. PICK at \in [m..Len(gens) -> Nat] :
              /\ Chain(m, at)
              /\ m <= faults + 1 \/ Kept(m) + faults + Rolling >= Backups
              /\ m <= Len(gens) => at[m] <= Kept(m) + faults + Moved(m, at)
  BY <1>m
<1>3. Rolling = 1 /\ Kept(m) \in Nat
  BY <1>1 DEF Rolling, Kept
<1>4. \A i \in m..Len(gens) : at[i] \in 1..Backups /\ Backup(at[i]) = Num(at[i])
  BY <1>2, NumsInRange
<1>5. Rolled = Num(1) /\ Num(1) = Backup(1) /\ Num(1) \in Name /\ Num(1) # Base
  BY SizeNames, 1 \in Nat DEF Rolled, Backup
<1>6. CASE Num(1) \in Files
  <2>1. dir' = Drop(Num(1)) /\ pc' = "roll" /\ gens' = gens
    BY <1>1, <1>5, <1>6 DEF RollBase
  <2>2. Backups = 1
    BY <1>1, <1>6 DEF SizeInv
  <2>3. PICK i \in m..Len(gens) : Num(1) = Backup(at[i])
    BY <1>2, <1>5, <1>6 DEF Chain
  <2>4. i = m /\ i = Len(gens)
    <3>1. /\ \A j \in m..Len(gens) : at[j] = 1
          /\ m \in m..Len(gens) /\ Len(gens) \in m..Len(gens)
      BY <1>1, <1>4, <2>2, <2>3
    <3>2. \A j, n \in m..Len(gens) : Backup(at[j]) = Backup(at[n]) => j = n
      BY <1>2, ChainDistinct
    <3> QED
      BY <2>3, <3>1, <3>2
  <2>5. m <= Len(gens) /\ dir' = Drop(Backup(at[m])) /\ config' = config
    BY <1>1, <2>1, <2>3, <2>4
  <2>6. PICK e \in [(m + 1)..Len(gens) -> Nat] : Chain(m + 1, e)'
    <3>1. Chain(m, at)
      BY <1>2
    <3> QED
      BY <2>1, <2>5, <3>1, ChainShrinks
  <2>7. Kept(m + 1)' = 0 /\ Rolling' = 1
    BY <1>1, <2>1, <2>4 DEF Kept, Rolling
  <2>8. Kept(m + 1)' + faults' + Rolling' >= Backups' /\ ~(m + 1 <= Len(gens'))
    <3>1. 0 + faults + 1 >= 1
      BY <1>1
    <3> QED
      BY <1>1, <2>1, <2>2, <2>4, <2>7, <3>1
  <2>9. m + 1 \in 1..(Len(gens') + 1) /\ e \in [(m + 1)..Len(gens') -> Nat]
    BY <1>1, <2>1, <2>4, <2>6
  <2> QED
    BY <1>1, <2>6, <2>8, <2>9 DEF SizeChain
<1>7. CASE Num(1) \notin Files
  <2>1. dir' = Rename(Base, Rolled) /\ pc' = "prune" /\ gens' = Append(gens, dir[Base])
    BY <1>5, <1>7 DEF RollBase
  <2>2. Len(gens') = Len(gens) + 1
    <3>1. gens \in Seq(FileContent) /\ dir[Base] \in FileContent
      BY <1>1 DEF TypeInv, TypeOK
    <3> QED
      BY <2>1, <3>1, AppendProperties
  <2>3. ASSUME NEW i \in m..Len(gens)
        PROVE  Before(at[i], 1)
    <3>1. Num(at[i]) \in Files /\ at[i] \in 1..Backups
      BY <1>2, <1>4 DEF Chain
    <3>2. at[i] # 1
      BY <1>7, <3>1
    <3> QED
      BY <1>1, <3>1, <3>2 DEF Before
  <2>4. PICK e \in [m..Len(gens') -> Nat] :
              Chain(m, e)' /\ e[m] = IF m <= Len(gens) THEN at[m] ELSE 1
    <3>1. Chain(m, at) /\ 1 \in Nat /\ Rolled = Backup(1) /\ Rolled \notin Files
          /\ config' = config
      BY <1>1, <1>2, <1>5, <1>7
    <3>2. \E e \in [m..Len(gens') -> Nat] :
              Chain(m, e)' /\ e[m] = IF m <= Len(gens) THEN at[m] ELSE 1
      BY <1>1, <2>1, <2>3, <3>1, ChainGrows
    <3> QED
      BY <3>2
  <2>5. Kept(m)' = Kept(m) + 1 /\ Rolling' = 0
    BY <1>1, <2>1, <2>2 DEF Kept, Rolling
  <2>6. m <= faults' + 1 \/ Kept(m)' + faults' + Rolling' >= Backups'
    <3>1. m <= faults + 1 \/ (Kept(m) + 1) + faults + 0 >= Backups
      BY <1>1, <1>2, <1>3
    <3> QED
      BY <1>1, <2>5, <3>1
  <2>7. e[m] <= Kept(m)' + faults' + Moved(m, e)'
    <3>1. Moved(m, at) \in {0, 1}
      BY DEF Moved
    <3>2. Moved(m, e)' = 0
      BY <2>1 DEF Moved
    <3>3. e[m] <= (Kept(m) + 1) + faults + 0
      <4>1. CASE m <= Len(gens)
        <5>1. m \in m..Len(gens)
          BY <1>1, <4>1
        <5>2. at[m] \in 1..Backups /\ at[m] <= Kept(m) + faults + Moved(m, at)
          BY <1>2, <1>4, <4>1, <5>1
        <5> QED
          BY <1>1, <1>3, <2>4, <3>1, <4>1, <5>2
      <4>2. CASE ~(m <= Len(gens))
        BY <1>1, <1>3, <2>4, <4>2
      <4> QED
        BY <4>1, <4>2
    <3> QED
      BY <1>1, <2>5, <3>2, <3>3
  <2>8. m \in 1..(Len(gens') + 1) /\ e \in [m..Len(gens') -> Nat]
    BY <1>1, <2>2, <2>4
  <2> QED
    BY <1>1, <2>4, <2>6, <2>7, <2>8 DEF SizeChain
<1> QED
  BY <1>6, <1>7

\* Nothing is pruned, and opening the log file changes no backup.
LEMMA SizeChainOpens ==
    ASSUME TypeInv, SizeInv, SizeChain, TypeInv', Prune \/ Reopen
    PROVE  SizeChain'
<1>1. Timed' = Timed /\ config' = config /\ gens' = gens /\ faults' = faults /\ pc # "roll"
  BY SameSettings DEF Prune, Reopen
<1> SUFFICES ASSUME ~Timed
             PROVE  SizeChain'
  BY <1>1 DEF SizeChain
<1>2. Dated = {}
  BY SizeNames DEF SizeInv, Dated
<1>3. Reopen
  BY <1>2 DEF Prune, ToDelete
<1>4. SameBackups
  <2>1. /\ DOMAIN Put(Base, << >>) = Files \cup {Base}
        /\ \A f \in Files \ {Base} : Put(Base, << >>)[f] = dir[f]
    BY PutFacts
  <2>2. dir' = Put(Base, << >>)
    BY <1>3 DEF Reopen
  <2> QED
    BY <1>1, <2>1, <2>2 DEF SameBackups
<1> QED
  BY <1>1, <1>4, SizeChainStays

(* Which files there are: whatever a crash or a failed compression comes   *)
(* between, the log file and the rolled files are the stretches of the     *)
(* history that follow each other, and without compression the backups are *)
(* the last of them, in the order of their numbers or dates.               *)
THEOREM BackupsInvariance == Spec => []BackupsInv
<1>1. RotationInit => BackupsInv
  BY TypeInit, TimedInit, SizeInit, CutInit, NumbersInit, ChainInit DEF BackupsInv, NewestInv
<1>2. BackupsInv /\ [Next]_vars => BackupsInv'
  <2> SUFFICES ASSUME BackupsInv, [Next]_vars
               PROVE  BackupsInv'
    OBVIOUS
  <2>1. /\ NewestInv /\ TypeInv /\ TimedInv /\ SizeInv /\ CutInv /\ NumbersInv /\ TimedChain
        /\ SizeChain
    BY DEF BackupsInv, NewestInv
  <2>2. TypeInv'
    BY <2>1, TypeQuiet, TypeShift, TypeRollBase, TypePrune, TypeReopen, TypeGzip, TypeWrite,
       TypeRestart DEF Next, Rollover
  <2>3. TimedInv'
    BY <2>1, <2>2, TimedQuiet, TimedShift, TimedRollBase, TimedPrune, TimedOpens, TimedGzip
       DEF Next, Rollover
  <2>4. SizeInv'
    BY <2>1, <2>2, SizeQuiet, SizeShift, SizeRollBase, SizePrune, SizeGzip DEF Next, Rollover
  <2>5. CutInv'
    BY <2>1, <2>2, CutQuiet, CutBackups, CutRollBase, CutWrite DEF Next, Rollover
  <2>6. NumbersInv'
    BY <2>1, <2>2, NumbersStep
  <2>7. TimedChain'
    BY <2>1, <2>2, ChainQuiet, ChainGzip, TimedChainShift, TimedChainRollBase, TimedChainPrune,
       TimedChainReopen DEF Next, Rollover
  <2>8. SizeChain'
    BY <2>1, <2>2, ChainQuiet, ChainGzip, SizeChainShift, SizeChainRollBase, SizeChainOpens
       DEF Next, Rollover
  <2> QED
    BY <2>2, <2>3, <2>4, <2>5, <2>6, <2>7, <2>8 DEF BackupsInv, NewestInv
<1> QED
  BY <1>1, <1>2, PTL DEF Spec

\* The n slots of a reader, F, hold the backups in the order of the rollovers:
\* the generation i is in slot[i], and any other slot is empty.
SlotsRead(F, n, m, slot) ==
    /\ F = [k \in 1..n |-> F[k]]
    /\ \A i \in m..Len(gens) : slot[i] \in 1..n /\ F[slot[i]] = gens[i]
    /\ \A i, j \in m..Len(gens) : i < j => slot[i] < slot[j]
    /\ \A k \in 1..n : (\A i \in m..Len(gens) : slot[i] # k) => F[k] = << >>

LEMMA ReadsSlots ==
    ASSUME TypeInv, Base \in Files, NEW m, NEW at, Chain(m, at), NEW cut \in Cuts, CutAt(cut),
           NEW n \in Nat \ {0}, NEW slot, NEW F, SlotsRead(F, n, m, slot)
    PROVE  IsSuffix(FlattenSeq(F) \o dir[Base], written)
<1> DEFINE l == Len(gens)
           N == Len(written)
           S == 1..MaxRecords
<1>1. m \in Nat /\ m >= 1 /\ m <= l + 1 /\ l \in Nat
  BY ChainDistinct
<1>2. written \in Seq(S) /\ N \in Nat
  BY CutTypes
<1>3. /\ \A i \in 1..(l + 1) : cut[i] \in 0..N
      /\ \A i, j \in 1..(l + 1) : i <= j => cut[i] <= cut[j]
      /\ \A i \in 1..l : gens[i] = SubSeq(written, cut[i] + 1, cut[i + 1])
      /\ dir[Base] = SubSeq(written, cut[l + 1] + 1, N)
  BY DEF Cuts, CutAt, Current
<1>4. InSlots(F, written, n, m, l, slot, cut)
  <2>1. /\ \A i \in m..(l + 1) : i \in 1..(l + 1)
        /\ \A i \in m..l : i \in 1..l
    BY <1>1
  <2>2. \A i \in m..l : F[slot[i]] = SubSeq(written, cut[i] + 1, cut[i + 1])
    BY <1>3, <2>1 DEF SlotsRead
  <2>3. /\ \A i \in m..(l + 1) : cut[i] \in 0..Len(written)
        /\ \A i, j \in m..(l + 1) : i <= j => cut[i] <= cut[j]
    BY <1>3, <2>1
  <2> QED
    BY <2>2, <2>3 DEF InSlots, SlotsRead
<1> HIDE DEF l, S
<1>5. FlattenSeq(F) = SubSeq(written, cut[m] + 1, cut[l + 1])
  <2>1. m \in Nat /\ l \in Nat /\ m <= l + 1 /\ written \in Seq(S)
    BY <1>1, <1>2
  <2> HIDE DEF N
  <2> QED
    BY <1>4, <2>1, FlattenSlots
<1>6. /\ cut[m] \in Nat /\ cut[l + 1] \in Nat /\ cut[m] <= cut[l + 1] /\ cut[l + 1] <= N
  <2>1. m \in 1..(l + 1) /\ l + 1 \in 1..(l + 1)
    BY <1>1
  <2> QED
    BY <1>1, <1>2, <1>3, <2>1
<1>7. FlattenSeq(F) \o dir[Base] = SubSeq(written, cut[m] + 1, N)
  <2>1. SubSeq(written, cut[m] + 1, cut[l + 1]) \o SubSeq(written, cut[l + 1] + 1, N)
          = SubSeq(written, cut[m] + 1, N)
    <3>1. N <= Len(written)
      BY <1>2
    <3> HIDE DEF N
    <3> QED
      BY <1>2, <1>6, <3>1, SegmentsJoin
  <2> QED
    BY <1>3, <1>5, <2>1
<1>8. cut[m] <= Len(written)
  BY <1>2, <1>6
<1> QED
  BY <1>2, <1>6, <1>7, <1>8, SegmentIsSuffix

LEMMA ReadsTimed ==
    ASSUME BackupsInv, Timed, Base \in Files
    PROVE  IsSuffix(FlattenSeq(Forward) \o dir[Base], written)
<1>1. TypeInv /\ TimedInv
  BY DEF BackupsInv, NewestInv
<1>2. PICK m \in 1..(Len(gens) + 1) : \E at \in [m..Len(gens) -> Nat] : Chain(m, at)
  BY DEF BackupsInv, TimedChain
<1>3. PICK at \in [m..Len(gens) -> Nat] : Chain(m, at)
  BY <1>2
<1>4. PICK cut \in Cuts : CutAt(cut)
  BY DEF BackupsInv, CutInv
<1>5. /\ m \in Nat /\ m >= 1 /\ m <= Len(gens) + 1 /\ Len(gens) \in Nat
      /\ \A i \in m..Len(gens) : at[i] \in Nat /\ Backup(at[i]) \in Files \ {Base}
  BY <1>1, <1>3, ChainDistinct
<1>6. MaxTime \in Nat /\ Interval \in Nat /\ now \in 0..MaxTime /\ mtime \in 0..now
  BY <1>1, RotationAssumption DEF TypeInv, TypeOK
<1>7. \A i \in m..Len(gens) : at[i] \in 0..MaxTime /\ Backup(at[i]) = Date(at[i])
  <2>1. ASSUME NEW i \in m..Len(gens)
        PROVE  at[i] <= MaxTime
    <3>1. at[i] \in Nat /\ Backup(at[i]) \in Files
      BY <1>5
    <3>2. Backup(at[i]).kind = "date" /\ Backup(at[i]).at = at[i]
      BY <3>1, BackupFacts
    <3>3. at[i] + Interval <= LastWrite
      BY <1>1, <3>1, <3>2 DEF TimedInv, Dated
    <3>4. LastWrite = mtime
      BY DEF LastWrite
    <3> QED
      BY <1>6, <3>1, <3>3, <3>4
  <2> QED
    BY <1>5, <2>1 DEF Backup
<1>8. PICK slot : slot = [i \in m..Len(gens) |-> at[i] + 1]
  OBVIOUS
<1>9. \A i \in m..Len(gens) : slot[i] = at[i] + 1 /\ slot[i] \in 1..(MaxTime + 1)
  BY <1>6, <1>7, <1>8
<1>10. PICK F : F = Forward
  OBVIOUS
<1>11. /\ F = [k \in 1..(MaxTime + 1) |-> F[k]]
       /\ \A k \in 1..(MaxTime + 1) :
             F[k] = IF Date(k - 1) \in Files THEN dir[Date(k - 1)] ELSE << >>
  BY <1>10 DEF Forward
<1>12. ASSUME NEW i \in m..Len(gens), NEW j \in m..Len(gens), i < j
       PROVE  slot[i] < slot[j]
  <2>1. at[i] < at[j] /\ at[i] \in Nat /\ at[j] \in Nat
    BY <1>3, <1>5, <1>12 DEF Chain, Before
  <2> QED
    BY <1>9, <2>1
<1>13. ASSUME NEW i \in m..Len(gens)
       PROVE  F[slot[i]] = gens[i]
  <2>1. slot[i] \in 1..(MaxTime + 1) /\ slot[i] - 1 = at[i]
    BY <1>6, <1>7, <1>9
  <2>2. Date(at[i]) \in Files /\ dir[Date(at[i])] = gens[i]
    BY <1>3, <1>7 DEF Chain
  <2> QED
    BY <1>11, <2>1, <2>2
<1>14. ASSUME NEW k \in 1..(MaxTime + 1), \A i \in m..Len(gens) : slot[i] # k
       PROVE  F[k] = << >>
  <2>1. SUFFICES ASSUME Date(k - 1) \in Files
                 PROVE  FALSE
    BY <1>11
  <2>2. k - 1 \in Nat
    BY <1>6
  <2>3. Date(k - 1) \in Files \ {Base} /\ Date(k - 1).at = k - 1
    BY <2>1, <2>2, NameFacts
  <2>4. PICK i \in m..Len(gens) : Date(k - 1) = Backup(at[i])
    BY <1>3, <2>3 DEF Chain
  <2>5. at[i] = k - 1
    BY <1>5, <2>3, <2>4, BackupFacts
  <2>6. slot[i] = k
    BY <1>6, <1>9, <2>5
  <2> QED
    BY <1>14, <2>6
<1>15. MaxTime + 1 \in Nat \ {0} /\ \A i \in m..Len(gens) : slot[i] \in 1..(MaxTime + 1)
  BY <1>6, <1>9
<1>16. Chain(m, at) /\ CutAt(cut) /\ cut \in Cuts
  BY <1>3, <1>4
<1>17. IsSuffix(FlattenSeq(F) \o dir[Base], written)
  <2>1. SlotsRead(F, MaxTime + 1, m, slot)
    BY <1>11, <1>12, <1>13, <1>14, <1>15 DEF SlotsRead
  <2> QED
    BY <1>1, <1>15, <1>16, <2>1, ReadsSlots
<1> QED
  BY <1>10, <1>17

LEMMA ReadsNumbered ==
    ASSUME BackupsInv, ~Timed, ~config.compress, Base \in Files
    PROVE  IsSuffix(FlattenSeq(Backward) \o dir[Base], written)
<1>1. TypeInv /\ NumbersInv
  BY DEF BackupsInv, NewestInv
<1>2. PICK m \in 1..(Len(gens) + 1) : \E at \in [m..Len(gens) -> Nat] : Chain(m, at)
  BY DEF BackupsInv, SizeChain
<1>3. PICK at \in [m..Len(gens) -> Nat] : Chain(m, at)
  BY <1>2
<1>4. PICK cut \in Cuts : CutAt(cut)
  BY DEF BackupsInv, CutInv
<1>5. Backups \in Nat \ {0}
  BY <1>1, SettingFacts DEF TypeInv, TypeOK
<1>6. \A i \in m..Len(gens) : at[i] \in 1..Backups /\ Backup(at[i]) = Num(at[i])
  BY <1>1, <1>3, NumsInRange
<1>8. PICK slot : slot = [i \in m..Len(gens) |-> Backups - at[i] + 1]
  OBVIOUS
<1>9. \A i \in m..Len(gens) : slot[i] = Backups - at[i] + 1 /\ slot[i] \in 1..Backups
  BY <1>5, <1>6, <1>8
<1>10. PICK F : F = Backward
  OBVIOUS
<1>11. /\ F = [k \in 1..Backups |-> F[k]]
       /\ \A k \in 1..Backups : F[k] = IF Num(Backups - k + 1) \in Files
                                       THEN dir[Num(Backups - k + 1)] ELSE << >>
  BY <1>10 DEF Backward
<1>12. ASSUME NEW i \in m..Len(gens), NEW j \in m..Len(gens), i < j
       PROVE  slot[i] < slot[j]
  <2>1. at[j] < at[i] /\ at[i] \in 1..Backups /\ at[j] \in 1..Backups
    BY <1>3, <1>6, <1>12 DEF Chain, Before
  <2> QED
    BY <1>5, <1>9, <2>1
<1>13. ASSUME NEW i \in m..Len(gens)
       PROVE  F[slot[i]] = gens[i]
  <2>1. slot[i] \in 1..Backups /\ Backups - slot[i] + 1 = at[i]
    BY <1>5, <1>6, <1>9
  <2>2. Num(at[i]) \in Files /\ dir[Num(at[i])] = gens[i]
    BY <1>3, <1>6 DEF Chain
  <2> QED
    BY <1>11, <2>1, <2>2
<1>14. ASSUME NEW k \in 1..Backups, \A i \in m..Len(gens) : slot[i] # k
       PROVE  F[k] = << >>
  <2> DEFINE n == Backups - k + 1
  <2>1. SUFFICES ASSUME Num(n) \in Files
                 PROVE  FALSE
    BY <1>11
  <2>2. n \in Nat /\ k = Backups - n + 1
    BY <1>5
  <2> HIDE DEF n
  <2>3. Num(n) \in Files \ {Base} /\ Num(n).at = n
    BY <2>1, <2>2, NameFacts
  <2>4. PICK i \in m..Len(gens) : Num(n) = Backup(at[i])
    BY <1>3, <2>3 DEF Chain
  <2>5. at[i] = n
    <3>1. at[i] \in Nat
      BY <1>5, <1>6
    <3> QED
      BY <2>3, <2>4, <3>1, BackupFacts
  <2>6. slot[i] = k
    BY <1>9, <2>2, <2>5
  <2> QED
    BY <1>14, <2>6
<1>15. Chain(m, at) /\ CutAt(cut) /\ cut \in Cuts /\ \A i \in m..Len(gens) : slot[i] \in 1..Backups
  BY <1>3, <1>4, <1>9
<1>16. IsSuffix(FlattenSeq(F) \o dir[Base], written)
  <2>1. SlotsRead(F, Backups, m, slot)
    BY <1>11, <1>12, <1>13, <1>14, <1>15 DEF SlotsRead
  <2> QED
    BY <1>1, <1>5, <1>15, <2>1, ReadsSlots
<1> QED
  BY <1>10, <1>16

(* Without compression, reading the backups from the oldest to the newest  *)
(* and then the log file gives the last records written, in order and      *)
(* without a gap, whatever step of whatever rollover the process dies at.  *)
THEOREM BackupsReadAsSuffix == Spec => []ReadsAsSuffix
<1>1. BackupsInv => ReadsAsSuffix
  <2>1. CASE Timed
    BY <2>1, ReadsTimed DEF ReadsAsSuffix
  <2>2. CASE ~Timed
    BY <2>2, ReadsNumbered DEF ReadsAsSuffix, Plain
  <2> QED
    BY <2>1, <2>2
<1> QED
  BY <1>1, BackupsInvariance, PTL

\* From the oldest file of the chain on, every generation is on disk.
LEMMA ChainRetains ==
    ASSUME TypeInv, NEW m, NEW at, Chain(m, at), NEW k \in Int, k <= Kept(m)
    PROVE  Retained(k)
<1>1. /\ m \in Nat /\ m <= Len(gens) + 1 /\ Len(gens) \in Nat
      /\ \A i \in m..Len(gens) : Backup(at[i]) \in Files \ {Base}
  BY ChainDistinct
<1>2. ASSUME NEW i \in 1..Len(gens), i > Len(gens) - k
      PROVE  \E f \in Files \ {Base} : dir[f] = gens[i]
  <2>1. i \in m..Len(gens)
    BY <1>1, <1>2 DEF Kept
  <2> QED
    BY <1>1, <2>1 DEF Chain
<1> QED
  BY <1>2 DEF Retained

LEMMA EnoughBackups ==
    ASSUME BackupsInv, Plain
    PROVE  Retained(KeptBackups - faults - Rolling)
<1>1. /\ TypeInv /\ Backups \in Nat \ {0} /\ faults \in Nat /\ Rolling \in {0, 1}
      /\ Len(gens) \in Nat
  <2>1. TypeInv /\ config \in Configs
    BY DEF BackupsInv, NewestInv, TypeInv, TypeOK
  <2> QED
    BY <2>1, SettingFacts, CutTypes DEF TypeInv, TypeOK, Rolling
<1>2. PICK k \in Int : k = KeptBackups - faults - Rolling
  <2>1. KeptBackups \in Int /\ faults \in Int /\ Rolling \in Int
    BY <1>1 DEF KeptBackups
  <2>2. KeptBackups - faults - Rolling \in Int
    BY <2>1
  <2> QED
    BY <2>2
<1>3. k <= Len(gens) - faults /\ k <= Backups - faults - Rolling
  BY <1>1, <1>2 DEF KeptBackups
<1>4. PICK m \in 1..(Len(gens) + 1) : \E at \in [m..Len(gens) -> Nat] :
              /\ Chain(m, at)
              /\ m <= faults + 1 \/ Kept(m) + faults + Rolling >= Backups
  <2>1. CASE Timed
    <3>1. PICK m \in 1..(Len(gens) + 1) : \E at \in [m..Len(gens) -> Nat] :
              Chain(m, at) /\ (m = 1 \/ Kept(m) >= Backups)
      BY <2>1 DEF BackupsInv, TimedChain
    <3>2. PICK at \in [m..Len(gens) -> Nat] : Chain(m, at) /\ (m = 1 \/ Kept(m) >= Backups)
      BY <3>1
    <3>3. Kept(m) \in Nat
      BY <1>1 DEF Kept
    <3>4. m <= faults + 1 \/ Kept(m) + faults + Rolling >= Backups
      BY <1>1, <3>2, <3>3
    <3> QED
      BY <3>2, <3>4
  <2>2. CASE ~Timed /\ ~config.compress
    BY <2>2 DEF BackupsInv, SizeChain
  <2> QED
    BY <2>1, <2>2 DEF Plain
<1>5. PICK at \in [m..Len(gens) -> Nat] :
              /\ Chain(m, at)
              /\ m <= faults + 1 \/ Kept(m) + faults + Rolling >= Backups
  BY <1>4
<1>6. k <= Kept(m)
  BY <1>1, <1>3, <1>5 DEF Kept
<1> QED
  BY <1>1, <1>2, <1>5, <1>6, ChainRetains

\* The backups of a timed rotation, and no more than those and the log file.
LEMMA FewDated ==
    ASSUME BackupsInv, Timed
    PROVE  Cardinality(Files) <= Backups + 1 + faults
<1>1. /\ TypeInv /\ Backups \in Nat \ {0} /\ faults \in Nat
  <2>1. TypeInv /\ config \in Configs
    BY DEF BackupsInv, NewestInv, TypeInv, TypeOK
  <2> QED
    BY <2>1, SettingFacts DEF TypeInv, TypeOK
<1>2. PICK m \in 1..(Len(gens) + 1) : \E at \in [m..Len(gens) -> Nat] :
              Chain(m, at) /\ Kept(m) <= Backups + faults + Unpruned
  BY DEF BackupsInv, TimedChain
<1>3. PICK at \in [m..Len(gens) -> Nat] :
              Chain(m, at) /\ Kept(m) <= Backups + faults + Unpruned
  BY <1>2
<1>4. /\ m \in Nat /\ m <= Len(gens) + 1 /\ Len(gens) \in Nat
      /\ \A i \in m..Len(gens) : Backup(at[i]) \in Files \ {Base}
      /\ \A i, j \in m..Len(gens) : Backup(at[i]) = Backup(at[j]) => i = j
  BY <1>1, <1>3, ChainDistinct
<1>5. PICK f : f = [i \in m..Len(gens) |-> Backup(at[i])]
  OBVIOUS
<1> DEFINE T == {f[i] : i \in m..Len(gens)}
<1>6. Files \ {Base} = T
  <2>1. \A i \in m..Len(gens) : f[i] = Backup(at[i])
    BY <1>5
  <2>2. \A g \in Files \ {Base} : \E i \in m..Len(gens) : g = Backup(at[i])
    BY <1>3 DEF Chain
  <2> QED
    BY <1>4, <2>1, <2>2
<1>7. IsFiniteSet(T) /\ Cardinality(T) = Len(gens) - m + 1
  <2>1. \A i, j \in m..Len(gens) : f[i] = f[j] => i = j
    BY <1>4, <1>5
  <2>2. m \in Int /\ Len(gens) \in Int /\ m <= Len(gens) + 1
    BY <1>4
  <2> QED
    BY <2>1, <2>2, InjectiveImage
<1>8. Cardinality(T) <= Backups + faults + Unpruned /\ Cardinality(T) \in Nat
  BY <1>3, <1>4, <1>7 DEF Kept
<1> HIDE DEF T
<1>9. CASE Base \in Files
  <2>1. Files = T \cup {Base} /\ Base \notin T
    BY <1>6, <1>9
  <2>2. Cardinality(Files) = Cardinality(T) + 1
    BY <1>7, <2>1, FS_AddElement
  <2>3. Unpruned = 0
    BY <1>9 DEF BackupsInv, CutInv, Unpruned
  <2> QED
    BY <1>1, <1>8, <2>2, <2>3
<1>10. CASE Base \notin Files
  <2>1. Files = T
    BY <1>6, <1>10
  <2>2. Unpruned = 0 \/ Unpruned = 1
    BY DEF Unpruned
  <2> QED
    BY <1>1, <1>8, <2>1, <2>2
<1> QED
  BY <1>9, <1>10

\* The numbers a rotation by size uses, the log file and a compressed file.
LEMMA FewNumbered ==
    ASSUME BackupsInv, ~Timed
    PROVE  Cardinality(Files) <= Backups + (IF Plain THEN 1 ELSE 2)
<1>1. /\ TypeInv /\ Backups \in Nat \ {0} /\ config.compress \in BOOLEAN
  <2>1. TypeInv /\ config \in Configs
    BY DEF BackupsInv, NewestInv, TypeInv, TypeOK
  <2> QED
    BY <2>1, SettingFacts
<1>2. PICK f : f = [i \in 1..Backups |-> Num(i)]
  OBVIOUS
<1>3. NumsInUse = {f[i] : i \in 1..Backups}
  BY <1>2 DEF NumsInUse
<1>4. IsFiniteSet(NumsInUse) /\ Cardinality(NumsInUse) = Backups
  <2>1. \A i, j \in 1..Backups : f[i] = f[j] => i = j
    BY <1>1, <1>2, NumsDiffer
  <2>2. 1 \in Int /\ Backups \in Int /\ 1 <= Backups + 1
    BY <1>1
  <2>3. /\ IsFiniteSet({f[i] : i \in 1..Backups})
        /\ Cardinality({f[i] : i \in 1..Backups}) = Backups - 1 + 1
    BY <2>1, <2>2, InjectiveImage
  <2> QED
    BY <1>1, <1>3, <2>3
<1>5. PICK T : T = NumsInUse \cup {Base}
  OBVIOUS
<1>6. IsFiniteSet(T) /\ Cardinality(T) \in Nat /\ Cardinality(T) <= Backups + 1
  <2>1. IsFiniteSet(T) /\ Cardinality(T) \in {Backups, Backups + 1}
    BY <1>4, <1>5, FS_AddElement
  <2> QED
    BY <1>1, <2>1
<1>7. CASE Plain
  <2>1. Files \in SUBSET T
    BY <1>5, <1>7 DEF BackupsInv, NumbersInv, Plain
  <2>2. Cardinality(Files) <= Cardinality(T) /\ IsFiniteSet(Files)
    BY <1>6, <2>1, FS_Subset
  <2>3. Cardinality(Files) \in Nat
    BY <2>2, FS_CardinalityType
  <2> QED
    BY <1>1, <1>6, <1>7, <2>2, <2>3
<1>8. CASE ~Plain
  <2>1. PICK U : U = T \cup {Gz(Num(1))}
    OBVIOUS
  <2>2. IsFiniteSet(U) /\ Cardinality(U) \in {Cardinality(T), Cardinality(T) + 1}
    BY <1>6, <2>1, FS_AddElement
  <2>3. Files \in SUBSET U
    BY <1>5, <1>8, <2>1 DEF BackupsInv, NumbersInv, Plain
  <2>4. Cardinality(Files) <= Cardinality(U) /\ IsFiniteSet(Files)
    BY <2>2, <2>3, FS_Subset
  <2>5. Cardinality(Files) \in Nat
    BY <2>4, FS_CardinalityType
  <2> QED
    BY <1>1, <1>6, <1>8, <2>2, <2>4, <2>5
<1> QED
  BY <1>7, <1>8

(* Without compression as many of the last files that were rolled over are *)
(* kept as backup_count says, less one for each crash and one during a     *)
(* rollover; and whatever happens there are never more files than that and *)
(* the log file, one compressed file beside its source, and for a timed    *)
(* rotation one more for each crash.                                       *)
THEOREM BackupCountKept == Spec => []RetainsBackups
<1>1. BackupsInv => RetainsBackups
  <2> SUFFICES ASSUME BackupsInv
               PROVE  RetainsBackups
    OBVIOUS
  <2>1. Plain => Retained(KeptBackups - faults - Rolling)
    BY EnoughBackups
  <2>2. CASE Timed
    <3>1. Plain
      BY <2>2 DEF Plain
    <3> QED
      BY <2>1, <2>2, <3>1, FewDated DEF RetainsBackups
  <2>3. CASE ~Timed
    <3>1. Backups \in Nat
      BY SettingFacts DEF BackupsInv, NewestInv, TypeInv, TypeOK
    <3>2. Cardinality(Files) <= Backups + (IF Plain THEN 1 ELSE 2) + 0
      BY <2>3, <3>1, FewNumbered
    <3> QED
      BY <2>1, <2>3, <3>2 DEF RetainsBackups
  <2> QED
    BY <2>2, <2>3
<1> QED
  BY <1>1, BackupsInvariance, PTL
=====
