----------------------------- MODULE FileConfig -----------------------------
(***************************************************************************)
(* The configuration manager (src/src/common/file_config_manager.cpp and   *)
(* config_manager.h) and the entry points of the plug-in that load, reload *)
(* and read the configuration (src/src/common/server.cpp).                 *)
(*                                                                         *)
(* The files on the disk are a function from the names of those that exist *)
(* to their lines.  A line has a key and a value; the key of a comment is  *)
(* "#", a missing value is "".  Values are strings, as in the file.  Files *)
(* do not change while they are being read.                                *)
(***************************************************************************)
EXTENDS Integers, Sequences, TLC

CONSTANTS
  Disks,          \* what may be on the disk
  conf_path,      \* the configuration file
  NoSource,       \* the source of a start that names none
  MaxOpenFiles    \* how many more files the process may open

ASSUME MaxOpenFilesAssumption == MaxOpenFiles \in Nat
ASSUME DisksAssumption ==
  \A d \in Disks : \A f \in DOMAIN d : d[f] \in Seq([key : STRING, val : STRING])
ASSUME NoSourceAssumption == \A d \in Disks : NoSource \notin DOMAIN d

VARIABLES
  disk,   \* the files
  cm      \* the configuration manager: is there one, has it loaded, its map

(***************************************************************************)
(* The lines there may be, the files that may be asked for, and the maps   *)
(* that may be built.                                                      *)
(***************************************************************************)
Lines == UNION {UNION {{d[f][i] : i \in DOMAIN d[f]} : f \in DOMAIN d} : d \in Disks}
Values == {line.val : line \in Lines}
Files == {conf_path, NoSource} \cup Values
Maps == UNION {[K -> Values] : K \in SUBSET {line.key : line \in Lines}}

Ignored(line) == line.key = "#" \/ line.val = ""

insert(map, line) ==
  [k \in DOMAIN map \cup {line.key} |-> IF k = line.key THEN line.val ELSE map[k]]

\* Mutant of parseLine: a key that is in the map already is passed over.
parseLine_goes_on(sub, acc, line) ==
  IF acc.ret # "true" \/ Ignored(line) THEN acc
  ELSE IF line.key = "include" THEN sub[line.val][acc.map]
  ELSE IF line.key \in DOMAIN acc.map THEN acc
  ELSE [acc EXCEPT !.map = insert(acc.map, line)]

(***************************************************************************)
(* What a line does to the result so far.  sub is what parsing a file      *)
(* gives, for the files this one includes.  When an included file cannot   *)
(* be read, what has been parsed stays in the map.                         *)
(*                                                                         *)
(* A key that is in the map already ends the process: BOOT_LOG(-1, ...)    *)
(* calls boot_log, which exits when its first argument is not 0, as        *)
(* src/src/common/log.h:352 says and src/bin/async-proxy does; the return  *)
(* that the macro has behind the call is not reached.                      *)
(***************************************************************************)
parseLine(sub, acc, line) ==
  IF acc.ret # "true" \/ Ignored(line) THEN acc
  ELSE IF line.key = "include" THEN sub[line.val][acc.map]
  ELSE IF line.key \in DOMAIN acc.map THEN [acc EXCEPT !.ret = "exit"]
  ELSE [acc EXCEPT !.map = insert(acc.map, line)]

(***************************************************************************)
(* The result after each number of lines.                                  *)
(***************************************************************************)
parseLines(sub, lines, map) ==
  LET acc[i \in 0..Len(lines)] ==
        IF i = 0 THEN [ret |-> "true", map |-> map] ELSE parseLine(sub, acc[i - 1], lines[i])
  IN  acc

fail(map) == [ret |-> "false", map |-> map]

(***************************************************************************)
(* Parses file f into map, with fds descriptors left: each level of        *)
(* inclusion keeps its file open.  The result is what the function         *)
(* returns, or "exit".                                                     *)
(***************************************************************************)
ParseConfigFile[fds \in 0..MaxOpenFiles] ==
  [d \in Disks |-> [f \in Files |-> [map \in Maps |->
     IF fds > 0 /\ f \in DOMAIN d
     THEN parseLines(ParseConfigFile[fds - 1][d], d[f], map)[Len(d[f])]
     ELSE fail(map)]]]

Empty == [k \in {} |-> ""]   \* the map without an entry
NoManager == [made |-> FALSE, loaded |-> FALSE, map |-> Empty]

(***************************************************************************)
(* The map is cleared first.  As a table, which TLC computes once.         *)
(***************************************************************************)
_LoadConfig ==
  [d \in Disks |-> [f \in {conf_path, NoSource} |->
     ParseConfigFile[MaxOpenFiles][d][f][Empty]]]

\* Mutant of load_config: the manager is not marked as loaded.
load_config_unmarked(source) ==
  LET r == _LoadConfig[disk][source] IN
  [ret |-> r.ret, cm |-> [made |-> TRUE, loaded |-> FALSE, map |-> r.map]]

(***************************************************************************)
(* load_config as the framework calls it: what it returns, and the manager *)
(* afterwards.  A manager that has loaded is left alone; one that has not  *)
(* tries again.                                                            *)
(***************************************************************************)
load_config(source) ==
  LET r == _LoadConfig[disk][source] IN
  IF cm.loaded THEN [ret |-> "true", cm |-> cm]
  ELSE [ret |-> r.ret, cm |-> [made |-> TRUE, loaded |-> r.ret = "true", map |-> r.map]]

\* Mutant of reload_config: parses into the map in use.
reload_config_in_place(source) ==
  [cm EXCEPT !.map = IF cm.loaded THEN _LoadConfig[disk][source].map ELSE @]

(***************************************************************************)
(* A reload that fails leaves the map alone; one that meets a key twice    *)
(* ends the process.                                                       *)
(***************************************************************************)
reload_config(source) ==
  LET r == _LoadConfig[disk][source] IN
  [cm EXCEPT !.map = IF cm.loaded /\ r.ret = "true" THEN r.map ELSE @]

reload_exits(source) == cm.loaded /\ _LoadConfig[disk][source].ret = "exit"

config_get_strval(key, default) ==
  IF cm.loaded /\ key \in DOMAIN cm.map THEN cm.map[key] ELSE default

-----------------------------------------------------------------------------
(* What the files mean *)

Includes(d, f) ==
  {line.val : line \in {d[f][i] : i \in {j \in DOMAIN d[f] : /\ ~Ignored(d[f][j])
                                                         /\ d[f][j].key = "include"}}}

(***************************************************************************)
(* Every file that is included, directly or not, is there, and none        *)
(* includes itself, directly or not.                                       *)
(***************************************************************************)
AllThere(d, f) ==
  \E F \in SUBSET DOMAIN d :
    /\ f \in F
    /\ \A g \in F : Includes(d, g) \subseteq F
    /\ \A G \in (SUBSET F) \ {{}} : \E g \in G : Includes(d, g) \cap G = {}

(***************************************************************************)
(* What a line tells of a key: its values, each with the place where it    *)
(* stands, the number of the line in each file on the way.  sub is what    *)
(* the files tell.                                                         *)
(***************************************************************************)
told(key, sub, line) ==
  IF Ignored(line) THEN {}
  ELSE IF line.key = "include" THEN sub[line.val]
  ELSE IF line.key = key THEN {[at |-> <<>>, val |-> line.val]} ELSE {}

(***************************************************************************)
(* What the first n lines tell.                                            *)
(***************************************************************************)
linesTell(key, sub, lines, n) ==
  UNION {{[at |-> <<i>> \o e.at, val |-> e.val] : e \in told(key, sub, lines[i])} : i \in 1..n}

(***************************************************************************)
(* What the files tell of a key, with includes at most n deep.             *)
(***************************************************************************)
Tells(key) ==
  LET tells[n \in 0..MaxOpenFiles] ==
        [d \in Disks |-> [f \in Files |->
           IF n > 0 /\ f \in DOMAIN d THEN linesTell(key, tells[n - 1][d], d[f], Len(d[f]))
           ELSE {}]]
  IN  tells

(***************************************************************************)
(* No key stands in two places.                                            *)
(***************************************************************************)
ToldOnce(d, f) ==
  \A key \in {line.key : line \in Lines} :
    \A x, y \in Tells(key)[MaxOpenFiles][d][f] : x = y

Sound(d, f) == AllThere(d, f) /\ ToldOnce(d, f)

Meaning(d, f, key, default) ==
  LET tells == Tells(key)[MaxOpenFiles][d][f] IN
  IF tells = {} THEN default ELSE (CHOOSE e \in tells : TRUE).val
=============================================================================
