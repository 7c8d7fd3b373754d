------------------------- MODULE LogProcessorProofs -------------------------
(***************************************************************************)
(* Theorems about the nightly archive and removal of logs, for any number  *)
(* of days and files and any configuration.                                *)
(***************************************************************************)
EXTENDS LogProcessor, WellFoundedInduction, TLAPS

(***************************************************************************)
(* The greater and the smaller of two numbers.                             *)
(***************************************************************************)
LEMMA MaxOfTwo ==
  ASSUME NEW a \in Int, NEW b \in Int
  PROVE  Max({a, b}) \in Int /\ Max({a, b}) >= a /\ Max({a, b}) >= b
<1>1. \E x \in {a, b} : \A y \in {a, b} : x >= y
  OBVIOUS
<1>2. Max({a, b}) \in {a, b} /\ \A y \in {a, b} : Max({a, b}) >= y
  BY <1>1 DEF Max
<1>3. QED
  BY <1>2

LEMMA MinOfTwo ==
  ASSUME NEW a \in Int, NEW b \in Int
  PROVE  Min({a, b}) \in Int
<1>1. \E x \in {a, b} : \A y \in {a, b} : x <= y
  OBVIOUS
<1>2. Min({a, b}) \in {a, b}
  BY <1>1 DEF Min
<1>3. QED
  BY <1>2

(***************************************************************************)
(* Whatever is configured, files are kept for a day before they are        *)
(* packed, and packed before they are removed.                             *)
(***************************************************************************)
LEMMA DaysBounded ==
  /\ m_archive_days \in Int /\ m_archive_days >= 1
  /\ m_remove_days \in Int /\ m_remove_days >= m_archive_days
<1>1. Min({log_archive_days, 28}) \in Int /\ Min({log_remove_days, 168}) \in Int
  BY MinOfTwo, ConfigAssumption
<1>2. m_archive_days \in Int /\ m_archive_days >= 1
  <2> DEFINE m == Min({log_archive_days, 28})
  <2>1. m \in Int
    BY <1>1
  <2> HIDE DEF m
  <2>2. Max({1, m}) \in Int /\ Max({1, m}) >= 1
    BY <2>1, MaxOfTwo
  <2>3. QED
    BY <2>2 DEF m_archive_days, m
<1>3. m_remove_days \in Int /\ m_remove_days >= m_archive_days
  BY <1>1, <1>2, MaxOfTwo DEF m_remove_days
<1>4. QED
  BY <1>2, <1>3

(***************************************************************************)
(* The smallest of a set of days is one of them.                           *)
(***************************************************************************)
LEMMA MinIsElement ==
  ASSUME NEW S, S \subseteq Days, S # {}
  PROVE  Min(S) \in S
<1> DEFINE less == {p \in Nat \X Nat : p[1] < p[2]}
<1>1. IsWellFoundedOn(less, Nat)
  <2>1. OpToRel(<, Nat) = less
    BY DEF OpToRel
  <2>2. QED
    BY <2>1, NatLessThanWellFounded
<1>2. S \subseteq Nat
  BY BoundsAssumption DEF Days
<1> HIDE DEF less
<1>3. PICK x \in S : \A y \in S : ~(<<y, x>> \in less)
  BY <1>1, <1>2, WFMin
<1>4. \A y \in S : x <= y
  <2>1. ASSUME NEW y \in S, y < x PROVE FALSE
    <3>1. <<y, x>> \in Nat \X Nat
      BY <1>2
    <3>2. <<y, x>>[1] < <<y, x>>[2]
      BY <2>1
    <3>3. QED
      BY <1>3, <3>1, <3>2 DEF less
  <2>2. QED
    BY <1>2, <2>1
<1>5. QED
  BY <1>4 DEF Min

-----------------------------------------------------------------------------
(* Types *)

LEMMA DaysFacts ==
  /\ Days \subseteq Nat /\ NoDate \notin Days /\ 1 \in Days
  /\ \A d \in Days : d \in Nat /\ d # 0
BY BoundsAssumption DEF Days, NoDate

LogsOf(d) == {Log(d, i) : i \in Ids}

LEMMA FilesFacts ==
  /\ \A f \in Files : f.date \in Days \cup {NoDate} /\ f.id \in Ids /\ f = Log(f.date, f.id)
  /\ \A d \in Days \cup {NoDate} : \A i \in Ids :
       Log(d, i) \in Files /\ Log(d, i).date = d /\ Log(d, i).id = i
  /\ \A f \in Files : f \in LogsOf(f.date)
  /\ \A d : \A f \in LogsOf(d) : f.date = d
BY DEF Files, Log, LogsOf

LEMMA TypeInit == Init => TypeOK
<1> SUFFICES ASSUME Init PROVE TypeOK
  OBVIOUS
<1> USE DEF Init, Empty
<1>1. today \in Days /\ pc \in {"idle", "remove", "sort", "tar"} /\ date \in Days \cup {NoDate}
  BY DaysFacts
<1>2. count \in 0..MAX_SORT_DAY
  BY SortAssumption
<1>3. /\ DOMAIN archives = {} /\ DOMAIN m_tar_files = {}
      /\ logs = {} /\ todo = {} /\ it = {} /\ written = {} /\ split = {}
  OBVIOUS
<1>4. QED
  BY <1>1, <1>2, <1>3 DEF TypeOK

(***************************************************************************)
(* Every step keeps the types.                                             *)
(***************************************************************************)
LEMMA TypeStep ==
  ASSUME TypeOK, [Next]_vars
  PROVE  TypeOK'
<1> USE DEF TypeOK, dirVars, packVars
<1>1. ASSUME NEW i \in Ids, WriteLog(i) \/ WriteUndated(i) PROVE TypeOK'
  <2>1. PICK f \in Files : logs' = logs \cup {f} /\ written' = written \cup {f}
    BY <1>1, FilesFacts DEF WriteLog, WriteUndated, Write
  <2>2. QED
    BY <1>1, <2>1 DEF WriteLog, WriteUndated, Write
<1>2. CASE NextDay
  BY <1>2, DaysFacts, BoundsAssumption DEF NextDay, Days
<1>3. CASE Restart
  BY <1>3, SortAssumption DEF Restart, Empty
<1>4. CASE TidyLogPath
  <2>1. Entries \subseteq Files \cup {Log(d, Tar) : d \in Days}
    BY DEF Entries
  <2>2. QED
    BY <1>4, <2>1 DEF TidyLogPath
<1>5. CASE DoRemove
  <2>1. PICK e \in todo : /\ todo' = todo \ {e}
                          /\ date' = GetFileDate(e, date)
                          /\ unlink(e) \/ UNCHANGED dirVars
    BY <1>5 DEF DoRemove
  <2>2. e.date \in Days \cup {NoDate}
    BY <2>1, FilesFacts DEF Log
  <2>3. date' \in Days \cup {NoDate}
    BY <2>1, <2>2 DEF GetFileDate
  <2>4. /\ logs' \subseteq logs
        /\ DOMAIN archives' \subseteq DOMAIN archives
        /\ \A d \in DOMAIN archives' : archives'[d] = archives[d]
    BY <2>1 DEF unlink, Restrict
  <2>5. UNCHANGED <<today, pc, packVars, written, split>>
    BY <1>5 DEF DoRemove
  <2>6. QED
    BY <2>1, <2>3, <2>4, <2>5
<1>6. CASE DoRemoveEnd
  BY <1>6 DEF DoRemoveEnd
<1>7. CASE SortFilesToMap
  <2>1. PICK read \in {ToPack, {}} : m_tar_files' =
          [d \in DOMAIN m_tar_files \cup {f.date : f \in read} |->
             (IF d \in DOMAIN m_tar_files THEN m_tar_files[d] ELSE {})
               \cup {f \in read : f.date = d}]
    BY <1>7 DEF SortFilesToMap
  <2>2. \A f \in read : f \in Files /\ f.date \in Days
    BY <2>1, FilesFacts DEF ToPack, GetFileDate
  <2>3. DOMAIN m_tar_files' \subseteq Days
    BY <2>1, <2>2
  <2>4. ASSUME NEW d \in DOMAIN m_tar_files'
        PROVE m_tar_files'[d] \subseteq {Log(d, i) : i \in Ids}
    <3>1. {f \in read : f.date = d} \subseteq {Log(d, i) : i \in Ids}
      BY <2>2, FilesFacts DEF LogsOf
    <3>2. QED
      BY <2>1, <3>1
  <2>5. /\ it' = DOMAIN m_tar_files' /\ count' = 0 /\ pc' = "tar"
        /\ UNCHANGED <<today, dirVars, todo, date, written, split>>
    BY <1>7 DEF SortFilesToMap
  <2>6. QED
    BY <2>3, <2>4, <2>5, SortAssumption
<1>8. CASE OpenAndWriteFails
  BY <1>8, SortAssumption DEF OpenAndWriteFails
<1>9. CASE TarMapFiles
  <2> DEFINE d == Min(it)
  <2>1. d \in DOMAIN m_tar_files
    BY <1>9, MinIsElement DEF TarMapFiles
  <2>2. /\ tar(d) /\ it' = it \ {d} /\ count' = count + 1 /\ count < MAX_SORT_DAY
        /\ m_tar_files' = Restrict(m_tar_files, DOMAIN m_tar_files \ {d})
        /\ UNCHANGED <<today, pc, todo, date, written>>
    BY <1>9 DEF TarMapFiles
  <2> HIDE DEF d
  <2>3. /\ DOMAIN m_tar_files' = DOMAIN m_tar_files \ {d}
        /\ \A x \in DOMAIN m_tar_files' : m_tar_files'[x] = m_tar_files[x]
    BY <2>2 DEF Restrict
  <2>4. /\ logs' \subseteq logs
        /\ split' \subseteq split \cup {d}
        /\ DOMAIN archives' \subseteq DOMAIN archives \cup {d}
        /\ \A x \in DOMAIN archives' : \/ x \in DOMAIN archives /\ archives'[x] = archives[x]
                                       \/ x = d /\ archives'[x] \subseteq m_tar_files[d]
    <3>1. CASE UNCHANGED <<dirVars, split>>
      BY <3>1
    <3>2. CASE \E packed \in SUBSET (m_tar_files[d] \cap logs) :
                 /\ archives' = [x \in DOMAIN archives \cup {d} |->
                                   IF x = d THEN packed ELSE archives[x]]
                 /\ logs' = logs \ packed
                 /\ split' \subseteq split \cup {d}
      BY <3>2
    <3>3. QED
      BY <2>2, <3>1, <3>2 DEF tar
  <2>5. count' \in 0..MAX_SORT_DAY
    BY <2>2, SortAssumption
  <2>6. QED
    BY <2>1, <2>2, <2>3, <2>4, <2>5
<1>10. CASE TarMapFilesEnd
  BY <1>10, SortAssumption DEF TarMapFilesEnd
<1>11. CASE UNCHANGED vars
  BY <1>11 DEF vars
<1>12. QED
  BY <1>1, <1>2, <1>3, <1>4, <1>5, <1>6, <1>7, <1>8, <1>9, <1>10, <1>11
  DEF Next, Environment, Process

(***************************************************************************)
(* Type correctness; nothing undated is ever packed.                       *)
(***************************************************************************)
THEOREM TypeCorrect == Spec => []TypeOK
<1>1. TypeOK /\ [Next]_vars => TypeOK'
  BY TypeStep
<1>2. QED
  BY <1>1, TypeInit, PTL DEF Spec

-----------------------------------------------------------------------------
(* The map, the archives and the directory *)

(***************************************************************************)
(* A date in the map is past, and all the files of it are in the map.      *)
(***************************************************************************)
PackedOld ==
  \A d \in DOMAIN m_tar_files :
    d < today /\ \A f \in logs : f.date = d => f \in m_tar_files[d]

(***************************************************************************)
(* An archive is of a past date.  Once it holds a file no other of its     *)
(* date is in the directory or in the map, so that nothing makes it anew;  *)
(* unless tar has packed some files of the date only.                      *)
(***************************************************************************)
ArchivesOld ==
  \A d \in DOMAIN archives :
    /\ d < today
    /\ d \notin split /\ archives[d] # {} =>
         d \notin DOMAIN m_tar_files /\ \A f \in logs : f.date # d

LogInv == TypeOK /\ PackedOld /\ ArchivesOld /\ NothingLostEarly

(***************************************************************************)
(* What DoRemove may take out of the directory: a file without a date, or  *)
(* what is more than m_remove_days old.                                    *)
(***************************************************************************)
LEMMA RemovesOnlyOld ==
  ASSUME TypeOK, DoRemove
  PROVE  /\ logs' \subseteq logs
         /\ \A f \in logs : f \in logs' \/ f.date = NoDate \/ TooOld(f.date)
         /\ DOMAIN archives' \subseteq DOMAIN archives
         /\ \A d \in DOMAIN archives' : archives'[d] = archives[d]
         /\ \A d \in DOMAIN archives : d \in DOMAIN archives' \/ TooOld(d)
         /\ UNCHANGED <<today, m_tar_files, written, split>>
<1>1. PICK e \in todo : /\ date' = GetFileDate(e, date)
                        /\ \/ TooOld(date') /\ unlink(e)
                           \/ UNCHANGED dirVars
  BY DEF DoRemove
<1>2. UNCHANGED <<today, m_tar_files, written, split>>
  BY DEF DoRemove, packVars
<1>3. CASE UNCHANGED dirVars
  BY <1>2, <1>3 DEF dirVars
<1>4. CASE TooOld(date') /\ unlink(e)
  <2>1. e.date = NoDate \/ TooOld(e.date)
    BY <1>1, <1>2, <1>4 DEF GetFileDate, TooOld, GetDayDistance
  <2>2. e.id = Tar => TooOld(e.date)
    <3>1. e.id = Tar => e.date \in Days
      BY TarAssumption, FilesFacts DEF TypeOK, Log
    <3>2. QED
      BY <2>1, <3>1, DaysFacts
  <2>3. CASE e.id = Tar
    BY <1>2, <1>4, <2>2, <2>3 DEF unlink, Restrict
  <2>4. CASE e.id # Tar
    BY <1>2, <1>4, <2>1, <2>4 DEF unlink
  <2>5. QED
    BY <2>3, <2>4
<1>5. QED
  BY <1>1, <1>3, <1>4

(***************************************************************************)
(* What one call of tar does to the directory and to the map.              *)
(***************************************************************************)
LEMMA TarOfOneDate ==
  ASSUME TypeOK, TarMapFiles
  PROVE  \E d \in DOMAIN m_tar_files :
           /\ tar(d)
           /\ DOMAIN m_tar_files' = DOMAIN m_tar_files \ {d}
           /\ \A x \in DOMAIN m_tar_files' : m_tar_files'[x] = m_tar_files[x]
           /\ UNCHANGED <<today, written>>
<1> DEFINE d == Min(it)
<1>1. d \in DOMAIN m_tar_files
  BY MinIsElement DEF TarMapFiles, TypeOK
<1>2. /\ tar(d)
      /\ m_tar_files' = Restrict(m_tar_files, DOMAIN m_tar_files \ {d})
      /\ UNCHANGED <<today, written>>
  BY DEF TarMapFiles
<1> HIDE DEF d
<1>3. QED
  BY <1>1, <1>2 DEF Restrict

(***************************************************************************)
(* The map after SortFilesToMap has read the directory, or nothing of it.  *)
(***************************************************************************)
LEMMA SortedFiles ==
  ASSUME TypeOK, SortFilesToMap
  PROVE  /\ DOMAIN m_tar_files \subseteq DOMAIN m_tar_files'
         /\ \A d \in DOMAIN m_tar_files : m_tar_files[d] \subseteq m_tar_files'[d]
         /\ \A d \in DOMAIN m_tar_files' \ DOMAIN m_tar_files :
              /\ d < today
              /\ \E f \in logs : f.date = d
              /\ \A f \in logs : f.date = d => f \in m_tar_files'[d]
         /\ UNCHANGED <<today, dirVars, written, split>>
<1>1. PICK read \in {ToPack, {}} : m_tar_files' =
        [d \in DOMAIN m_tar_files \cup {f.date : f \in read} |->
           (IF d \in DOMAIN m_tar_files THEN m_tar_files[d] ELSE {})
             \cup {f \in read : f.date = d}]
  BY DEF SortFilesToMap
<1>2. UNCHANGED <<today, dirVars, written, split>>
  BY DEF SortFilesToMap
<1>3. ASSUME NEW d \in DOMAIN m_tar_files' \ DOMAIN m_tar_files
      PROVE  /\ d < today
             /\ \E f \in logs : f.date = d
             /\ \A f \in logs : f.date = d => f \in m_tar_files'[d]
  <2>1. PICK g \in read : g.date = d
    BY <1>1, <1>3
  <2>2. read = ToPack
    BY <1>1, <2>1
  <2>3. /\ g \in logs /\ GetFileDate(g, NoDate) # NoDate
        /\ GetDayDistance(d) > m_archive_days
        /\ GetDayDistance(d) < m_remove_days + 1
    BY <2>1, <2>2 DEF ToPack
  <2>4. d \in Days /\ today \in Days
    BY <2>1, <2>3, FilesFacts DEF TypeOK, GetFileDate
  <2>5. d < today
    BY <2>3, <2>4, DaysBounded, DaysFacts DEF GetDayDistance
  <2>6. ASSUME NEW f \in logs, f.date = d PROVE f \in m_tar_files'[d]
    <3>1. f \in ToPack
      BY <2>3, <2>4, <2>6, DaysFacts DEF ToPack, GetFileDate
    <3>2. QED
      BY <1>1, <1>3, <2>2, <2>6, <3>1
  <2>7. QED
    BY <2>1, <2>3, <2>5, <2>6
<1>4. QED
  BY <1>1, <1>2, <1>3

-----------------------------------------------------------------------------
(* Nothing is lost early *)

LEMMA LogInit == Init => LogInv
<1> SUFFICES ASSUME Init PROVE LogInv
  OBVIOUS
<1>1. DOMAIN archives = {} /\ DOMAIN m_tar_files = {} /\ written = {}
  BY DEF Init, Empty
<1>2. PackedOld /\ ArchivesOld /\ NothingLostEarly
  BY <1>1 DEF PackedOld, ArchivesOld, NothingLostEarly
<1>3. QED
  BY <1>2, TypeInit DEF LogInv

(***************************************************************************)
(* A file is written: one of today, or one without a date.                 *)
(***************************************************************************)
LEMMA LogWrite ==
  ASSUME LogInv, NEW i \in Ids, WriteLog(i) \/ WriteUndated(i)
  PROVE  (PackedOld /\ ArchivesOld /\ NothingLostEarly)'
<1> USE DEF LogInv
<1>1. PICK f \in Files : /\ f.date \in {today, NoDate}
                         /\ logs' = logs \cup {f} /\ written' = written \cup {f}
  BY FilesFacts DEF WriteLog, WriteUndated, Write, TypeOK
<1>2. UNCHANGED <<today, archives, m_tar_files, split>>
  BY DEF WriteLog, WriteUndated, Write, packVars
<1>3. \A d \in DOMAIN archives \cup DOMAIN m_tar_files : d < today => f.date # d
  BY <1>1, DaysFacts DEF TypeOK
<1>4. PackedOld'
  BY <1>1, <1>2, <1>3 DEF PackedOld
<1>5. ArchivesOld'
  BY <1>1, <1>2, <1>3 DEF ArchivesOld
<1>6. NothingLostEarly'
  BY <1>1, <1>2 DEF NothingLostEarly, GetDayDistance
<1>7. QED
  BY <1>4, <1>5, <1>6

LEMMA LogNextDay ==
  ASSUME LogInv, NextDay
  PROVE  (PackedOld /\ ArchivesOld /\ NothingLostEarly)'
<1> USE DEF LogInv
<1>1. /\ today' = today + 1
      /\ UNCHANGED <<logs, archives, m_tar_files, written, split>>
  BY DEF NextDay, dirVars, packVars
<1>2. /\ today \in Nat /\ DOMAIN archives \subseteq Nat /\ DOMAIN m_tar_files \subseteq Nat
      /\ \A f \in written : f.date \in Nat
  BY DaysFacts, FilesFacts DEF TypeOK, NoDate
<1>3. PackedOld'
  BY <1>1, <1>2 DEF PackedOld
<1>4. ArchivesOld'
  BY <1>1, <1>2 DEF ArchivesOld
<1>5. NothingLostEarly'
  <2>1. m_remove_days \in Int
    BY DaysBounded
  <2>2. \A f \in written : today' - f.date <= m_remove_days => today - f.date <= m_remove_days
    BY <1>1, <1>2, <2>1
  <2>3. QED
    BY <1>1, <2>2 DEF NothingLostEarly, GetDayDistance
<1>6. QED
  BY <1>3, <1>4, <1>5

LEMMA LogRemove ==
  ASSUME LogInv, DoRemove
  PROVE  (PackedOld /\ ArchivesOld /\ NothingLostEarly)'
<1> USE DEF LogInv
<1>1. PackedOld'
  BY RemovesOnlyOld DEF PackedOld
<1>2. ArchivesOld'
  BY RemovesOnlyOld DEF ArchivesOld
<1>3. NothingLostEarly'
  <2> SUFFICES ASSUME NEW f \in written, f.date # NoDate, f.date \notin split,
                      GetDayDistance(f.date) <= m_remove_days
               PROVE  f \in logs' \/ (f.date \in DOMAIN archives' /\ f \in archives'[f.date])
    BY RemovesOnlyOld DEF NothingLostEarly, GetDayDistance
  <2>1. ~TooOld(f.date)
    <3>1. GetDayDistance(f.date) \in Int
      BY DaysFacts, FilesFacts DEF TypeOK, GetDayDistance
    <3>2. QED
      BY <3>1, DaysBounded DEF TooOld
  <2>2. f \in logs \/ (f.date \in DOMAIN archives /\ f \in archives[f.date])
    BY DEF NothingLostEarly
  <2>3. QED
    BY <2>1, <2>2, RemovesOnlyOld
<1>4. QED
  BY <1>1, <1>2, <1>3

LEMMA LogSort ==
  ASSUME LogInv, SortFilesToMap
  PROVE  (PackedOld /\ ArchivesOld /\ NothingLostEarly)'
<1> USE DEF LogInv
<1>1. UNCHANGED <<today, logs, archives, written, split>>
  BY SortedFiles DEF dirVars
<1>2. PackedOld'
  <2> SUFFICES ASSUME NEW d \in DOMAIN m_tar_files'
               PROVE  d < today /\ \A f \in logs : f.date = d => f \in m_tar_files'[d]
    BY <1>1 DEF PackedOld
  <2>1. CASE d \in DOMAIN m_tar_files
    BY <2>1, SortedFiles DEF PackedOld
  <2>2. CASE d \notin DOMAIN m_tar_files
    BY <2>2, SortedFiles
  <2>3. QED
    BY <2>1, <2>2
<1>3. ArchivesOld'
  BY <1>1, SortedFiles DEF ArchivesOld
<1>4. NothingLostEarly'
  BY <1>1 DEF NothingLostEarly, GetDayDistance
<1>5. QED
  BY <1>2, <1>3, <1>4

(***************************************************************************)
(* tar makes the archive of a date anew.  It holds nothing yet, or the     *)
(* date is one of split: with a file in it the date is not in the map.     *)
(***************************************************************************)
LEMMA LogTar ==
  ASSUME LogInv, TarMapFiles
  PROVE  (PackedOld /\ ArchivesOld /\ NothingLostEarly)'
<1> USE DEF LogInv
<1>1. PICK d \in DOMAIN m_tar_files :
        /\ tar(d)
        /\ DOMAIN m_tar_files' = DOMAIN m_tar_files \ {d}
        /\ \A x \in DOMAIN m_tar_files' : m_tar_files'[x] = m_tar_files[x]
        /\ UNCHANGED <<today, written>>
  BY TarOfOneDate
<1> DEFINE due == m_tar_files[d] \cap logs
<1>2. CASE UNCHANGED <<dirVars, split>>
  <2>1. UNCHANGED <<today, logs, archives, written, split>>
    BY <1>1, <1>2 DEF dirVars
  <2>2. PackedOld'
    BY <1>1, <2>1 DEF PackedOld
  <2>3. ArchivesOld'
    BY <1>1, <2>1 DEF ArchivesOld
  <2>4. NothingLostEarly'
    BY <2>1 DEF NothingLostEarly, GetDayDistance
  <2>5. QED
    BY <2>2, <2>3, <2>4
<1>3. CASE ~UNCHANGED <<dirVars, split>>
  <2>1. PICK packed \in SUBSET due :
          /\ archives' = [x \in DOMAIN archives \cup {d} |->
                            IF x = d THEN packed ELSE archives[x]]
          /\ logs' = logs \ packed
          /\ split' = IF packed \in {{}, due} THEN split ELSE split \cup {d}
    BY <1>1, <1>3 DEF tar
  <2>2. \A f \in logs : f.date = d <=> f \in due
    <3>1. \A f \in due : f.date = d
      <4>1. due \subseteq LogsOf(d)
        BY DEF TypeOK, LogsOf
      <4>2. QED
        BY <4>1, FilesFacts
    <3>2. QED
      BY <3>1 DEF PackedOld
  <2>3. d < today
    BY DEF PackedOld
  <2>4. d \in DOMAIN archives /\ d \notin split => archives[d] = {}
    BY DEF ArchivesOld
  <2>5. split \subseteq split' /\ (d \notin split' => packed = {} \/ packed = due)
    BY <2>1
  <2>6. /\ archives'[d] = packed /\ DOMAIN archives' = DOMAIN archives \cup {d}
        /\ \A x \in DOMAIN archives : x # d => archives'[x] = archives[x]
    BY <2>1
  <2> HIDE DEF due
  <2>7. PackedOld'
    BY <1>1, <2>1 DEF PackedOld
  <2>8. ArchivesOld'
    <3> SUFFICES ASSUME NEW x \in DOMAIN archives'
                 PROVE  /\ x < today
                        /\ x \notin split' /\ archives'[x] # {} =>
                             x \notin DOMAIN m_tar_files' /\ \A f \in logs' : f.date # x
      BY <1>1 DEF ArchivesOld
    <3>1. CASE x = d
      BY <1>1, <2>1, <2>2, <2>3, <2>5, <2>6, <3>1
    <3>2. CASE x # d
      BY <1>1, <2>1, <2>5, <2>6, <3>2 DEF ArchivesOld
    <3>3. QED
      BY <3>1, <3>2
  <2>9. NothingLostEarly'
    <3> SUFFICES ASSUME NEW f \in written, f.date # NoDate, f.date \notin split',
                        GetDayDistance(f.date) <= m_remove_days
                 PROVE  f \in logs' \/ (f.date \in DOMAIN archives' /\ f \in archives'[f.date])
      BY <1>1 DEF NothingLostEarly, GetDayDistance
    <3>1. f \in logs \/ (f.date \in DOMAIN archives /\ f \in archives[f.date])
      BY <2>5 DEF NothingLostEarly
    <3>2. CASE f.date = d
      BY <2>1, <2>2, <2>4, <2>5, <2>6, <3>1, <3>2
    <3>3. CASE f.date # d
      BY <2>1, <2>2, <2>6, <3>1, <3>3
    <3>4. QED
      BY <3>2, <3>3
  <2>10. QED
    BY <2>7, <2>8, <2>9
<1>4. QED
  BY <1>2, <1>3

LEMMA LogStep ==
  ASSUME LogInv, [Next]_vars
  PROVE  LogInv'
<1>1. TypeOK'
  BY TypeStep DEF LogInv
<1>2. ASSUME UNCHANGED <<today, dirVars, m_tar_files, written, split>>
      PROVE  (PackedOld /\ ArchivesOld /\ NothingLostEarly)'
  BY <1>2 DEF LogInv, PackedOld, ArchivesOld, NothingLostEarly, GetDayDistance, dirVars
<1>3. ASSUME Restart PROVE (PackedOld /\ ArchivesOld /\ NothingLostEarly)'
  <2>1. DOMAIN m_tar_files' = {} /\ UNCHANGED <<today, logs, archives, written, split>>
    BY <1>3 DEF Restart, Empty, dirVars
  <2>2. PackedOld'
    BY <2>1 DEF PackedOld
  <2>3. ArchivesOld' /\ NothingLostEarly'
    BY <2>1 DEF LogInv, ArchivesOld, NothingLostEarly, GetDayDistance
  <2>4. QED
    BY <2>2, <2>3
<1>4. (PackedOld /\ ArchivesOld /\ NothingLostEarly)'
  <2>1. CASE \/ TidyLogPath \/ DoRemoveEnd \/ OpenAndWriteFails \/ TarMapFilesEnd
             \/ UNCHANGED vars
    <3>1. UNCHANGED <<today, dirVars, m_tar_files, written, split>>
      BY <2>1 DEF TidyLogPath, DoRemoveEnd, OpenAndWriteFails, TarMapFilesEnd, vars, packVars
    <3>2. QED
      BY <1>2, <3>1
  <2>2. QED
    <3>1. ASSUME NEW i \in Ids, WriteLog(i) \/ WriteUndated(i)
          PROVE  (PackedOld /\ ArchivesOld /\ NothingLostEarly)'
      BY <3>1, LogWrite
    <3>2. CASE NextDay
      BY <3>2, LogNextDay
    <3>3. CASE DoRemove
      BY <3>3, LogRemove
    <3>4. CASE SortFilesToMap
      BY <3>4, LogSort
    <3>5. CASE TarMapFiles
      BY <3>5, LogTar
    <3>6. QED
      BY <1>3, <2>1, <3>1, <3>2, <3>3, <3>4, <3>5 DEF Next, Environment, Process
<1>5. QED
  BY <1>1, <1>4 DEF LogInv

(***************************************************************************)
(* No log is lost before its time: it stays in the directory or in the     *)
(* archive of its date until it is more than m_remove_days old, whatever   *)
(* fails, is missed or is killed; dates split by tar excepted.             *)
(***************************************************************************)
THEOREM NothingLost == Spec => []NothingLostEarly
<1>1. LogInv /\ [Next]_vars => LogInv'
  BY LogStep
<1>2. LogInv => NothingLostEarly
  BY DEF LogInv
<1>3. QED
  BY <1>1, <1>2, LogInit, PTL DEF Spec

(***************************************************************************)
(* A step never takes a log file of the day out of the directory: a date   *)
(* to remove or to pack is at least one day old, whatever is configured.   *)
(***************************************************************************)
THEOREM TodaysUntouched == Spec => TodaysLogsUntouched
<1> DEFINE Kept == \A i \in Ids : Log(today, i) \in logs => Log(today, i) \in logs'
<1>1. ASSUME LogInv, [Next]_vars PROVE Kept
  <2> SUFFICES ASSUME NEW i \in Ids, Log(today, i) \in logs
               PROVE  Log(today, i) \in logs'
    OBVIOUS
  <2>1. Log(today, i).date = today /\ today \in Days
    BY <1>1 DEF Log, LogInv, TypeOK
  <2>2. CASE DoRemove
    <3>1. ~TooOld(today)
      BY <2>1, DaysBounded, DaysFacts DEF TooOld, GetDayDistance
    <3>2. QED
      BY <1>1, <2>1, <2>2, <3>1, RemovesOnlyOld, DaysFacts DEF LogInv
  <2>3. CASE TarMapFiles
    <3>1. PICK d \in DOMAIN m_tar_files : tar(d)
      BY <1>1, <2>3, TarOfOneDate DEF LogInv
    <3>2. d < today /\ today \in Nat
      BY <1>1, <2>1, DaysFacts DEF LogInv, PackedOld
    <3>3. Log(today, i) \notin m_tar_files[d]
      BY <1>1, <2>1, <3>2, FilesFacts DEF LogInv, TypeOK, LogsOf
    <3>4. QED
      BY <3>1, <3>3 DEF tar, dirVars
  <2>4. CASE Environment
    BY <2>4 DEF Environment, NextDay, WriteLog, WriteUndated, Write, dirVars
  <2>5. CASE Restart \/ TidyLogPath \/ DoRemoveEnd \/ SortFilesToMap
               \/ OpenAndWriteFails \/ TarMapFilesEnd \/ UNCHANGED vars
    BY <2>5 DEF Restart, TidyLogPath, DoRemoveEnd, SortFilesToMap, OpenAndWriteFails,
                TarMapFilesEnd, vars, dirVars
  <2>6. QED
    BY <1>1, <2>2, <2>3, <2>4, <2>5 DEF Next, Process
<1>2. LogInv /\ [Next]_vars => LogInv' /\ [Kept]_vars
  BY <1>1, LogStep
<1>3. QED
  BY <1>2, LogInit, PTL DEF Spec, TodaysLogsUntouched
=============================================================================
