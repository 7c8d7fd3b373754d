---------------------------- MODULE LogProcessor ----------------------------
(***************************************************************************)
(* The control process (src/src/common/control.cpp) and its housekeeping   *)
(* of the log directory (src/src/common/log_processor.cpp): every night,   *)
(* files of more than m_remove_days are removed, then the log files of     *)
(* more than m_archive_days are packed into one archive per day.           *)
(*                                                                         *)
(* The other processes write to the directory meanwhile.  A file name is   *)
(* abstracted to the date found in it (0 for none; the dates outside of    *)
(* 2000 to 2999 count as none) and what tells it from the other names of   *)
(* that date.  Days are numbered from 1; a day's night run ends on that    *)
(* day.                                                                    *)
(***************************************************************************)
EXTENDS Integers, FiniteSets, FiniteSetsExt, Functions

CONSTANTS
  log_archive_days, \* as configured
  log_remove_days,  \* as configured
  MAX_SORT_DAY,     \* dates packed in one night
  Ids,              \* tells apart the log files of a date
  Tar,              \* marks the name of an archive
  MaxFiles,         \* bound: log files ever written
  MaxDay            \* bound: the last day

ASSUME ConfigAssumption == log_archive_days \in Int /\ log_remove_days \in Int
ASSUME SortAssumption   == MAX_SORT_DAY \in Nat
ASSUME TarAssumption    == Tar \notin Ids
ASSUME BoundsAssumption == MaxFiles \in Nat /\ MaxDay \in Nat \ {0}

VARIABLES
  today,
  logs,        \* the log files in the directory
  archives,    \* date -> the log files in its archive
  pc,          \* what the control process is doing
  todo,        \* the entries DoRemove has not read yet
  date,        \* the variable of DoRemove
  m_tar_files, \* date -> the names to pack
  it,          \* the dates TarMapFiles has not come to
  count,
  written,     \* history: the log files ever written
  split        \* history: the dates of which tar has packed some files only

dirVars  == <<logs, archives>>
packVars == <<m_tar_files, it, count>>
vars == <<today, dirVars, pc, todo, date, packVars, written, split>>

Days    == 1..MaxDay
NoDate  == 0
Log(d, i) == [date |-> d, id |-> i]
Empty   == [d \in {} |-> {}]

(***************************************************************************)
(* Control::Init bounds what the configuration asks for.                   *)
(***************************************************************************)
\* Mutant of m_archive_days: no lower bound.
m_archive_days_unbounded == Min({log_archive_days, 28})

m_archive_days == Max({1, Min({log_archive_days, 28})})

m_remove_days == Max({m_archive_days, Min({log_remove_days, 168})})

GetDayDistance(d) == today - d

Init ==
  /\ today = 1
  /\ logs = {}
  /\ archives = Empty
  /\ pc = "idle"
  /\ todo = {}
  /\ date = NoDate
  /\ m_tar_files = Empty
  /\ it = {}
  /\ count = 0
  /\ written = {}
  /\ split = {}

-----------------------------------------------------------------------------
(* The other processes, and time *)

(***************************************************************************)
(* A process of the server opens a log file of the day, or somebody leaves *)
(* a file whose name has no date.                                          *)
(***************************************************************************)
Write(f) ==
  /\ Cardinality(written \cup {f}) <= MaxFiles
  /\ logs' = logs \cup {f}
  /\ written' = written \cup {f}
  /\ UNCHANGED <<today, archives, pc, todo, date, packVars, split>>

WriteLog(i) == Write(Log(today, i))

WriteUndated(i) == Write(Log(NoDate, i))

NextDay ==
  /\ pc = "idle"
  /\ today < MaxDay
  /\ today' = today + 1
  /\ UNCHANGED <<dirVars, pc, todo, date, packVars, written, split>>

(***************************************************************************)
(* The control process is killed and started again.                        *)
(***************************************************************************)
Restart ==
  /\ pc' = "idle"
  /\ todo' = {}
  /\ date' = NoDate
  /\ m_tar_files' = Empty
  /\ it' = {}
  /\ count' = 0
  /\ UNCHANGED <<today, dirVars, written, split>>

-----------------------------------------------------------------------------
(* Process: DoRemove, ... *)

Entries == logs \cup {Log(d, Tar) : d \in DOMAIN archives}

(***************************************************************************)
(* Control::TidyLogPath, in a time event that falls on the right second:   *)
(* not every night need have one.  The directory may fail to open.         *)
(***************************************************************************)
TidyLogPath ==
  /\ pc = "idle"
  /\ pc' = "remove"
  /\ todo' \in {Entries, {}}
  /\ date' = NoDate
  /\ UNCHANGED <<today, dirVars, packVars, written, split>>

(***************************************************************************)
(* GetFileDate leaves the result alone if the name has no date.            *)
(***************************************************************************)
GetFileDate(e, result) == IF e.date = NoDate THEN result ELSE e.date

unlink(e) ==
  IF e.id = Tar
  THEN archives' = Restrict(archives, DOMAIN archives \ {e.date}) /\ UNCHANGED logs
  ELSE logs' = logs \ {e} /\ UNCHANGED archives

TooOld(d) == d # NoDate /\ GetDayDistance(d) > m_remove_days

(***************************************************************************)
(* One entry, in the order of readdir, which is any order.  unlink may     *)
(* fail.                                                                   *)
(***************************************************************************)
DoRemove ==
  /\ pc = "remove"
  /\ \E e \in todo :
       /\ todo' = todo \ {e}
       /\ date' = GetFileDate(e, date)
       /\ \/ TooOld(date') /\ unlink(e)
          \/ UNCHANGED dirVars
  /\ UNCHANGED <<today, pc, packVars, written, split>>

DoRemoveEnd ==
  /\ pc = "remove"
  /\ todo = {}
  /\ pc' = "sort"
  /\ date' = NoDate
  /\ UNCHANGED <<today, dirVars, todo, packVars, written, split>>

-----------------------------------------------------------------------------
(* ... and DoArchive *)

\* Mutant of ToPack: undated names are not left out.
ToPack_undated == {f \in logs : /\ GetDayDistance(f.date) > m_archive_days
                                /\ GetDayDistance(f.date) < m_remove_days + 1}

(***************************************************************************)
(* The directory as SortFilesToMap reads it: archives are left out, the    *)
(* date starts from 0 for each name.                                       *)
(***************************************************************************)
ToPack == {f \in logs : /\ GetFileDate(f, NoDate) # NoDate
                        /\ GetDayDistance(f.date) > m_archive_days
                        /\ GetDayDistance(f.date) < m_remove_days + 1}

(***************************************************************************)
(* What is due is added to what an earlier night left in the map.          *)
(***************************************************************************)
SortFilesToMap ==
  /\ pc = "sort"
  /\ \E read \in {ToPack, {}} : m_tar_files' =
       [d \in DOMAIN m_tar_files \cup {f.date : f \in read} |->
          (IF d \in DOMAIN m_tar_files THEN m_tar_files[d] ELSE {})
            \cup {f \in read : f.date = d}]
  /\ it' = DOMAIN m_tar_files'
  /\ count' = 0
  /\ pc' = "tar"
  /\ UNCHANGED <<today, dirVars, todo, date, written, split>>

(***************************************************************************)
(* The next date of the map.  The list of names could not be written: the  *)
(* entry stays in the map.                                                 *)
(***************************************************************************)
OpenAndWriteFails ==
  /\ pc = "tar"
  /\ it # {}
  /\ count < MAX_SORT_DAY
  /\ count' = count + 1
  /\ it' = it \ {Min(it)}
  /\ UNCHANGED <<today, dirVars, pc, todo, date, m_tar_files, written, split>>

(***************************************************************************)
(* tar makes the archive anew, and removes the files it has packed; names  *)
(* that are not in the directory any more it passes over, and so it does   *)
(* with files that it cannot read.  Or it fails altogether.                *)
(***************************************************************************)
tar(d) ==
  LET due == m_tar_files[d] \cap logs
  IN  \/ \E packed \in SUBSET due :
           /\ archives' = [x \in DOMAIN archives \cup {d} |->
                             IF x = d THEN packed ELSE archives[x]]
           /\ logs' = logs \ packed
           /\ split' = IF packed \in {{}, due} THEN split ELSE split \cup {d}
      \/ UNCHANGED <<dirVars, split>>

\* Mutant of TarMapFiles: the entry stays in the map.
TarMapFiles_keep ==
  /\ pc = "tar"
  /\ it # {}
  /\ count < MAX_SORT_DAY
  /\ count' = count + 1
  /\ it' = it \ {Min(it)}
  /\ tar(Min(it))
  /\ UNCHANGED <<today, pc, todo, date, m_tar_files, written>>

(***************************************************************************)
(* The entry is erased whatever tar did.                                   *)
(***************************************************************************)
TarMapFiles ==
  /\ pc = "tar"
  /\ it # {}
  /\ count < MAX_SORT_DAY
  /\ count' = count + 1
  /\ it' = it \ {Min(it)}
  /\ tar(Min(it))
  /\ m_tar_files' = Restrict(m_tar_files, DOMAIN m_tar_files \ {Min(it)})
  /\ UNCHANGED <<today, pc, todo, date, written>>

TarMapFilesEnd ==
  /\ pc = "tar"
  /\ it = {} \/ count = MAX_SORT_DAY
  /\ pc' = "idle"
  /\ it' = {}
  /\ count' = 0
  /\ UNCHANGED <<today, dirVars, todo, date, m_tar_files, written, split>>

-----------------------------------------------------------------------------

Environment == NextDay \/ \E i \in Ids : WriteLog(i) \/ WriteUndated(i)
Process == \/ TidyLogPath \/ DoRemove \/ DoRemoveEnd \/ SortFilesToMap
           \/ OpenAndWriteFails \/ TarMapFiles \/ TarMapFilesEnd

Next == Environment \/ Restart \/ Process

Spec == Init /\ [][Next]_vars

-----------------------------------------------------------------------------
(* Correctness *)

Files == {Log(d, i) : d \in Days \cup {NoDate}, i \in Ids}

(***************************************************************************)
(* Type correctness of the directory and of the control process; nothing   *)
(* undated is ever packed.                                                 *)
(***************************************************************************)
TypeOK ==
  /\ today \in Days
  /\ logs \subseteq Files
  /\ DOMAIN archives \subseteq Days
  /\ \A d \in DOMAIN archives : archives[d] \subseteq {Log(d, i) : i \in Ids}
  /\ pc \in {"idle", "remove", "sort", "tar"}
  /\ todo \subseteq Files \cup {Log(d, Tar) : d \in Days}
  /\ date \in Days \cup {NoDate}
  /\ DOMAIN m_tar_files \subseteq Days
  /\ \A d \in DOMAIN m_tar_files : m_tar_files[d] \subseteq {Log(d, i) : i \in Ids}
  /\ it \subseteq DOMAIN m_tar_files
  /\ count \in 0..MAX_SORT_DAY
  /\ written \subseteq Files
  /\ split \subseteq Days

(***************************************************************************)
(* No log is lost before its time: until it is more than m_remove_days old *)
(* it is in the directory or in the archive of its date, also when tar     *)
(* failed, a night was missed, dates were left over for the next night, or *)
(* the control process was killed.  TarMapFiles writes an archive that may *)
(* exist already, which is why this does not extend to dates of which tar  *)
(* once packed some files only: packing the others replaces the archive.   *)
(***************************************************************************)
NothingLostEarly ==
  \A f \in written :
    f.date # NoDate /\ f.date \notin split /\ GetDayDistance(f.date) <= m_remove_days =>
      f \in logs \/ (f.date \in DOMAIN archives /\ f \in archives[f.date])

(***************************************************************************)
(* A file that a process of the server is writing to is never touched,     *)
(* whatever the configuration says.                                        *)
(***************************************************************************)
TodaysLogsUntouched ==
  [][\A i \in Ids : Log(today, i) \in logs => Log(today, i) \in logs']_vars
=============================================================================
