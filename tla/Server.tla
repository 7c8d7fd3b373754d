------------------------------- MODULE Server -------------------------------
(***************************************************************************)
(* The server as a whole: the scripts that start, stop and watch it        *)
(* (src/server.sh, src/keep-alive.sh, cron), its process with the entry    *)
(* points of the plug-in (src/src/common/server.cpp), and its              *)
(* configuration.                                                          *)
(*                                                                         *)
(* Two shells run server.sh: the operator's, and the one of the cron job   *)
(* keep-alive.sh.  A step of a shell is a command of the script that looks *)
(* at or changes the process, the crontab or a file; a redirection and     *)
(* what the command writes through it are one step.  The framework's       *)
(* binary and check-single are external: the process holds the lock of the *)
(* pid file from its start to its end, loads the configuration and         *)
(* initialises its workers before it serves, and ends after it is killed   *)
(* when plugin_fini has returned in every worker.                          *)
(***************************************************************************)
EXTENDS FileConfig

CONSTANTS
  Keys,          \* the keys the server asks for
  work_num,      \* number of worker processes
  ChannelMod,    \* 2^width of serialize_num
  MaxCommands,   \* bound: commands of the operator
  MaxMishaps     \* bound: edits of the configuration and crashes

ASSUME WorkNumAssumption == work_num \in Nat /\ work_num >= 2
ASSUME ChannelModAssumption == ChannelMod \in Nat \ {0}

Shells == {"operator", "cron"}
TempFiles == {"tempXX", "temp1XX", "temp2XX", "temp3XX"}
NoFile == {"no file"}   \* of a temporary file: it does not exist

VARIABLES
  server,     \* the process: "down", "starting", "up", "stopping" or, when
              \* plugin_fini does not return, "stuck"
  source,     \* the argument it was started with
  roles,      \* what plugin_init made of each worker
  serialize_num,   \* packages given to the workers
  pc,         \* where each shell is in server.sh
  cmd, arg,   \* the command and the argument server.sh was called with
  keepAlive,  \* where keep-alive.sh is
  crontab,    \* the set of its lines, with "keep-alive" for ours
  files,      \* the temporary files: the set of their lines, or NoFile
  seen,       \* history: the files since the process was started
  stopped,    \* history: the operator's last command was a stop that ended well
  clash,      \* history: the cron job has killed a server, or a shell has
              \* removed the tempXX that the other was about to install
  commands, mishaps

config == <<disk, cm>>
process == <<server, source, roles>>
cron == <<crontab, files>>
scripts == <<pc, cmd, arg, keepAlive>>
history == <<stopped, clash>>
counters == <<commands, mishaps>>
vars == <<config, process, serialize_num, cron, scripts, seen, history, counters>>

NoRoles == [i \in 0..(work_num - 1) |-> "none"]

Init ==
  /\ disk \in Disks /\ cm = NoManager
  /\ server = "down" /\ source = NoSource /\ roles = NoRoles
  /\ serialize_num = 0
  /\ pc = [s \in Shells |-> "idle"]
  /\ cmd = [s \in Shells |-> "none"]
  /\ arg = [s \in Shells |-> "none"]
  /\ keepAlive = "idle"
  /\ crontab = {"other"} /\ files = [f \in TempFiles |-> NoFile]
  /\ seen = {} /\ stopped = FALSE /\ clash = FALSE
  /\ commands = 0 /\ mishaps = 0

-----------------------------------------------------------------------------
(* server.sh *)

goto(s, where) == pc' = [pc EXCEPT ![s] = where] /\ UNCHANGED <<cmd, arg>>

exit(s) ==
  /\ pc' = [pc EXCEPT ![s] = "idle"]
  /\ cmd' = [cmd EXCEPT ![s] = "none"]
  /\ arg' = [arg EXCEPT ![s] = "none"]

(***************************************************************************)
(* What ./bin/check-single finds.                                          *)
(***************************************************************************)
running == server # "down"

call(s, command, argument) ==
  /\ pc[s] = "idle"
  /\ pc' = [pc EXCEPT ![s] = IF command = "start" THEN "start" ELSE "stop"]
  /\ cmd' = [cmd EXCEPT ![s] = command]
  /\ arg' = [arg EXCEPT ![s] = argument]

startCheck(s) ==
  /\ pc[s] = "start"
  /\ IF running THEN exit(s) ELSE goto(s, "launch")
  /\ UNCHANGED <<config, process, serialize_num, cron, keepAlive, seen, history, counters>>

\* Mutant of sourceOf: both branches name the file.
sourceOf_always(argument) == conf_path

(***************************************************************************)
(* svr_path is not set.                                                    *)
(***************************************************************************)
sourceOf(argument) == IF argument = "file" THEN conf_path ELSE NoSource

(***************************************************************************)
(* A process that does not get the lock ends at once.                      *)
(***************************************************************************)
launch(s) ==
  /\ pc[s] = "launch"
  /\ goto(s, "started")
  /\ IF running THEN UNCHANGED <<server, source, cm, seen>>
     ELSE /\ server' = "starting" /\ source' = sourceOf(arg[s])
          /\ cm' = NoManager /\ seen' = {disk}
  /\ UNCHANGED <<disk, roles, serialize_num, cron, keepAlive, history, counters>>

\* Mutant of started: the cron job is not entered.
started_unwatched(s) ==
  /\ pc[s] = "started"
  /\ exit(s)
  /\ UNCHANGED <<config, process, serialize_num, cron, keepAlive, seen, history, counters>>

(***************************************************************************)
(* The second look, a second later.  Only the command start goes on to     *)
(* add_crontab.                                                            *)
(***************************************************************************)
started(s) ==
  /\ pc[s] = "started"
  /\ IF running /\ cmd[s] = "start" THEN goto(s, "add_crontab") ELSE exit(s)
  /\ UNCHANGED <<config, process, serialize_num, cron, keepAlive, seen, history, counters>>

-----------------------------------------------------------------------------
(* The commands of add_crontab and delete_crontab.  Both shells run in the *)
(* same directory, so they use the same temporary files.                   *)

\* crontab -l > f
list(f) == files' = [files EXCEPT ![f] = crontab] /\ UNCHANGED crontab

\* Whether fgrep finds our entry in f; it fails on a file that is not there.
finds(f) == "keep-alive" \in files[f]

\* Whether fgrep "${item2}" finds a line: item2 is not set, so any line.
findsAny(f) == files[f] \notin {NoFile, {}}

\* echo line >> f
append(f, line) ==
  files' = [files EXCEPT ![f] = (@ \ NoFile) \cup {line}] /\ UNCHANGED crontab

\* fgrep -v line f &> g; what it says when f is not there goes to g too.
filter(f, g, rest) ==
  /\ files' = [files EXCEPT ![g] = IF files[f] = NoFile THEN {"error"} ELSE rest]
  /\ UNCHANGED crontab

\* crontab f, which refuses a file that is not there or is no crontab.
install(f) ==
  /\ crontab' = IF files[f] = NoFile \/ "error" \in files[f] THEN crontab ELSE files[f]
  /\ UNCHANGED files

\* rm -f f
remove(f) == files' = [files EXCEPT ![f] = NoFile] /\ UNCHANGED crontab

\* Where a shell has looked for our entry and has not installed the file.
Looked == {"add_item2", "echo_item2", "install"}

does(s, at, next) == pc[s] = at /\ goto(s, next)

add_crontab(s) ==
  /\ \/ /\ UNCHANGED clash
        /\ \/ does(s, "add_crontab", "add_item1") /\ list("tempXX")
           \/ /\ does(s, "add_item1", IF finds("tempXX") THEN "add_item2" ELSE "echo_item1")
              /\ UNCHANGED cron
           \/ does(s, "echo_item1", "add_item2") /\ append("tempXX", "keep-alive")
           \/ /\ does(s, "add_item2", IF findsAny("tempXX") THEN "install" ELSE "echo_item2")
              /\ UNCHANGED cron
           \/ does(s, "echo_item2", "install") /\ append("tempXX", "blank")
           \/ does(s, "install", "rm") /\ install("tempXX")
     \/ /\ pc[s] = "rm" /\ exit(s) /\ remove("tempXX")
        /\ clash' = (clash \/ \E u \in Shells : pc[u] \in Looked)
  /\ UNCHANGED <<config, process, serialize_num, keepAlive, seen, stopped, counters>>

(***************************************************************************)
(* Our entry is taken out and the rest installed; then the lines with      *)
(* item2, that is all lines, are taken out too, of what was left.  When    *)
(* our entry is not there, there is nothing left to filter.                *)
(***************************************************************************)
delete_crontab(s) ==
  /\ \/ /\ UNCHANGED stopped
        /\ \/ does(s, "delete_crontab", "del_item1") /\ list("temp1XX")
           \/ /\ does(s, "del_item1", IF finds("temp1XX") THEN "filter1" ELSE "del_item2")
              /\ UNCHANGED cron
           \/ /\ does(s, "filter1", "install1")
              /\ filter("temp1XX", "temp2XX", files["temp1XX"] \ {"keep-alive"})
           \/ does(s, "install1", "del_item2") /\ install("temp2XX")
           \/ /\ does(s, "del_item2", IF findsAny("temp1XX") THEN "filter2" ELSE "rm1")
              /\ UNCHANGED cron
           \/ does(s, "filter2", "install2") /\ filter("temp2XX", "temp3XX", {})
           \/ does(s, "install2", "rm1") /\ install("temp3XX")
           \/ does(s, "rm1", "rm2") /\ remove("temp1XX")
           \/ does(s, "rm2", "rm3") /\ remove("temp2XX")
     \/ /\ pc[s] = "rm3" /\ exit(s) /\ remove("temp3XX")
        /\ stopped' = (stopped \/ s = "operator")
  /\ UNCHANGED <<config, process, serialize_num, keepAlive, seen, clash, counters>>

-----------------------------------------------------------------------------
(* server.sh stop and restart *)

stopCheck(s) ==
  /\ pc[s] = "stop"
  /\ IF running THEN goto(s, "kill") ELSE exit(s)
  /\ UNCHANGED <<config, process, serialize_num, cron, keepAlive, seen, history, counters>>

kill(s) ==
  /\ pc[s] = "kill"
  /\ server' = IF server \in {"starting", "up"} THEN "stopping" ELSE server
  /\ clash' = (clash \/ s = "cron")
  /\ goto(s, "killed")
  /\ UNCHANGED <<config, source, roles, serialize_num, cron, keepAlive, seen, stopped, counters>>

\* Mutant of killed: the result of the first look is used for ever.
killed_stale(s) ==
  /\ pc[s] = "killed"
  /\ goto(s, "kill")
  /\ UNCHANGED <<config, process, serialize_num, cron, keepAlive, seen, history, counters>>

(***************************************************************************)
(* Kills again until the process is gone.  restart goes on with start,     *)
(* without the argument.                                                   *)
(***************************************************************************)
killed(s) ==
  /\ pc[s] = "killed"
  /\ pc' = [pc EXCEPT ![s] = IF running THEN "kill"
                             ELSE IF cmd[s] = "restart" THEN "start"
                             ELSE "delete_crontab"]
  /\ arg' = [arg EXCEPT ![s] = IF running THEN @ ELSE "none"]
  /\ UNCHANGED <<config, process, serialize_num, cron, cmd, keepAlive, seen, history, counters>>

serverSh(s) ==
  \/ startCheck(s) \/ launch(s) \/ started(s) \/ add_crontab(s)
  \/ stopCheck(s) \/ kill(s) \/ killed(s) \/ delete_crontab(s)

-----------------------------------------------------------------------------
(* keep-alive.sh, which cron runs every minute while its entry is there.   *)
(* It looks once; what it found then is not looked at again.               *)

keepAliveState ==
  /\ keepAlive = "idle" /\ "keep-alive" \in crontab
  /\ ~running
  /\ keepAlive' = "stop"
  /\ UNCHANGED <<config, process, serialize_num, cron, pc, cmd, arg, seen, history, counters>>

keepAliveStop ==
  /\ keepAlive = "stop"
  /\ call("cron", "stop", "none")
  /\ keepAlive' = "start"
  /\ UNCHANGED <<config, process, serialize_num, cron, seen, history, counters>>

keepAliveStart ==
  /\ keepAlive = "start"
  /\ call("cron", "start", "none")
  /\ keepAlive' = "end"
  /\ UNCHANGED <<config, process, serialize_num, cron, seen, history, counters>>

keepAliveEnd ==
  /\ keepAlive = "end" /\ pc["cron"] = "idle"
  /\ keepAlive' = "idle"
  /\ UNCHANGED <<config, process, serialize_num, cron, pc, cmd, arg, seen, history, counters>>

keepAliveSh == keepAliveState \/ keepAliveStop \/ keepAliveStart \/ keepAliveEnd

-----------------------------------------------------------------------------
(* The process *)

\* Mutant of plugin_init: the first worker becomes the control process.
plugin_init_first(i) == IF i = 0 THEN {"Control", "failed"} ELSE {"Proxy", "failed"}

(***************************************************************************)
(* What may become of worker i.  When Init fails, for an address that the  *)
(* configuration does not name or for want of memory, the worker ends, and *)
(* the framework starts no other in its place.                             *)
(***************************************************************************)
plugin_init(i) == IF i = work_num - 1 THEN {"Control", "failed"} ELSE {"Proxy", "failed"}

processEnds ==
  /\ server' = "down" /\ roles' = NoRoles /\ cm' = NoManager /\ seen' = {}
  /\ source' = NoSource /\ serialize_num' = 0
  /\ UNCHANGED <<disk, cron, scripts, history>>

(***************************************************************************)
(* A process that has its configuration goes on to its workers; one that   *)
(* has not ends, or tries again.                                           *)
(***************************************************************************)
loadConfig ==
  /\ server = "starting"
  /\ LET r == load_config(source) IN
     \/ /\ r.ret # "exit"
        /\ cm' = r.cm
        /\ IF r.ret = "true"
           THEN /\ server' = "up"
                /\ roles' \in [DOMAIN roles -> {"Control", "Proxy", "failed"}]
                /\ \A i \in DOMAIN roles : roles'[i] \in plugin_init(i)
           ELSE UNCHANGED <<server, roles>>
        /\ UNCHANGED <<disk, source, serialize_num, cron, scripts, seen, history>>
     \/ r.ret # "true" /\ processEnds
  /\ UNCHANGED counters

reloadConfig ==
  /\ server = "up"
  /\ IF reload_exits(conf_path) THEN processEnds
     ELSE /\ cm' = reload_config(conf_path)
          /\ UNCHANGED <<disk, process, serialize_num, cron, scripts, seen, history>>
  /\ UNCHANGED counters

\* Mutant of select_channel: worker 0 is taken for the control process.
select_channel_from_one(n) == 1 + (n % (work_num - 1))

(***************************************************************************)
(* serialize_num is an int and work_num an unsigned int: the remainder is  *)
(* that of unsigned numbers, after an overflow too.                        *)
(***************************************************************************)
select_channel(n) == n % (work_num - 1)

(***************************************************************************)
(* A package goes to the worker select_channel(serialize_num).             *)
(***************************************************************************)
package ==
  /\ server = "up"
  /\ serialize_num' = (serialize_num + 1) % ChannelMod
  /\ UNCHANGED <<config, process, cron, scripts, seen, history, counters>>

(***************************************************************************)
(* plugin_fini in the workers of a process that was killed.  In a Proxy it *)
(* stops the thread pool, and ThreadPool::stop may never return (see       *)
(* StopReturns in ThreadPool); the process, which waits for its workers,   *)
(* then stays and keeps the lock.                                          *)
(***************************************************************************)
plugin_fini ==
  /\ server = "stopping"
  /\ \/ processEnds
     \/ /\ \E i \in DOMAIN roles : roles[i] = "Proxy"
        /\ server' = "stuck"
        /\ UNCHANGED <<config, source, roles, serialize_num, cron, scripts, seen, history>>
  /\ UNCHANGED counters

crash ==
  /\ running
  /\ mishaps < MaxMishaps /\ mishaps' = mishaps + 1
  /\ processEnds
  /\ UNCHANGED commands

-----------------------------------------------------------------------------
(* The operator *)

command ==
  /\ commands < MaxCommands /\ commands' = commands + 1
  /\ \E c \in {"start", "stop", "restart"} : call("operator", c, "file")
  /\ stopped' = FALSE
  /\ UNCHANGED <<config, process, serialize_num, cron, keepAlive, seen, clash, mishaps>>

edit ==
  /\ mishaps < MaxMishaps /\ mishaps' = mishaps + 1
  /\ disk' \in Disks \ {disk}
  /\ seen' = IF running THEN seen \cup {disk'} ELSE seen
  /\ UNCHANGED <<cm, process, serialize_num, cron, scripts, history, commands>>

Next ==
  \/ \E s \in Shells : serverSh(s)
  \/ keepAliveSh
  \/ loadConfig \/ reloadConfig \/ package \/ plugin_fini \/ crash
  \/ command \/ edit

Spec == Init /\ [][Next]_vars

(***************************************************************************)
(* The shells run, cron runs its job, and the process loads its            *)
(* configuration and runs plugin_fini when it is killed, to its end or to  *)
(* where it hangs.  stop looks every second: it sees that the process is   *)
(* gone before the cron job, which comes once a minute, can start another  *)
(* every time.                                                             *)
(***************************************************************************)
FairSpec ==
  /\ Spec
  /\ \A s \in Shells : /\ WF_vars(serverSh(s))
                        /\ SF_vars(~running /\ kill(s)) /\ SF_vars(~running /\ killed(s))
  /\ WF_vars(keepAliveSh)
  /\ WF_vars(loadConfig) /\ WF_vars(plugin_fini)

-----------------------------------------------------------------------------
(* Correctness *)

(***************************************************************************)
(* Type correctness; only a process that has loaded its configuration      *)
(* serves, and each of its workers is initialised or has ended; cron's     *)
(* shell works only for keep-alive.sh; and what fgrep complains of is      *)
(* never installed.                                                        *)
(***************************************************************************)
TypeOK ==
  /\ server \in {"down", "starting", "up", "stopping", "stuck"}
  /\ crontab \subseteq {"keep-alive", "other", "blank"}
  /\ files \in [TempFiles -> (SUBSET {"keep-alive", "other", "blank", "error"}) \cup {NoFile}]
  /\ serialize_num \in 0..(ChannelMod - 1)
  /\ keepAlive \in {"idle", "stop", "start", "end"}
  /\ keepAlive \in {"idle", "stop"} => pc["cron"] = "idle"
  /\ server = "down" => cm = NoManager
  /\ server = "up" => cm.loaded /\ \A i \in DOMAIN roles : roles[i] \in plugin_init(i)

(***************************************************************************)
(* What each sound version of the files says.                              *)
(***************************************************************************)
Says == [d \in {x \in Disks : Sound(x, conf_path)} |->
           [k \in Keys |-> Meaning(d, conf_path, k, "default")]]

(***************************************************************************)
(* What the server is told of its configuration is what one version of the *)
(* files says, of those there were since it was started: never a mixture   *)
(* of two, never half a file, never one of two values of a key, through    *)
(* failed loads, repeated loads and failed reloads.                        *)
(***************************************************************************)
ServesOneVersion ==
  server = "up" =>
    \E d \in seen \cap DOMAIN Says :
      \A k \in Keys : config_get_strval(k, "default") = Says[d][k]

(***************************************************************************)
(* select_channel gives no package to the control process, which does not  *)
(* serve clients, whatever the counter has run to (the comment at          *)
(* src/src/common/server.cpp:157).  It gives them to a proxy, though that  *)
(* one may have failed and ended.                                          *)
(***************************************************************************)
PackagesToProxies == server = "up" => roles[select_channel(serialize_num)] # "Control"

(***************************************************************************)
(* A server that the operator has stopped stays so until the next command, *)
(* although the cron job may have found it down just before its entry was  *)
(* deleted.                                                                *)
(***************************************************************************)
StoppedStaysDown == stopped => server # "up"

(***************************************************************************)
(* A server that is up when all scripts have ended is watched by the cron  *)
(* job, through failed starts, restarts and crashes, and however the       *)
(* commands of two shells in add_crontab or delete_crontab interleave,     *)
(* with the files they share.  Two things may leave it unwatched, and are  *)
(* left out: the cron job has killed a server that was started behind its  *)
(* back and deleted the entry, or one shell has removed tempXX when the    *)
(* other had looked for the entry in it and not installed it yet.  That    *)
(* one shell truncates what the other has written does not.                *)
(***************************************************************************)
UpIsWatched ==
  /\ server = "up" /\ ~clash
  /\ \A s \in Shells : pc[s] = "idle"
  => "keep-alive" \in crontab

(***************************************************************************)
(* Every script ends, unless plugin_fini hangs: the operator's and the     *)
(* cron job do not keep killing and starting the server against each       *)
(* other.  stop waits for the end of a process that is stuck for ever.     *)
(***************************************************************************)
ScriptsEndUnlessStuck ==
  \A s \in Shells : []<>(pc[s] = "idle" \/ server = "stuck")

(***************************************************************************)
(* What src/keep-alive.sh:9 prints: a server that has stopped abnormally   *)
(* is started again, while the cron job is entered.                        *)
(***************************************************************************)
KeepAliveRestarts ==
  server = "down" /\ "keep-alive" \in crontab
    ~> server = "up" \/ "keep-alive" \notin crontab
=============================================================================
