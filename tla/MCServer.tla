------------------------------ MODULE MCServer ------------------------------
(* Small instances of Server for TLC. *)
EXTENDS Server

Line(key, val) == [key |-> key, val |-> val]

Bench(timeout, pool) ==
  << Line("work_num", "3"), Line("#", "log_archive_days"),
     Line("include", "proxy.conf"), Line(pool, timeout) >>

(***************************************************************************)
(* A sound configuration in two versions, one that includes itself, and    *)
(* one with a key in both files.                                           *)
(***************************************************************************)
Good ==
  { "bench.conf" :> Bench("2", "timeout_s") @@ "proxy.conf" :> << Line("pool_size", "20") >>,
    "bench.conf" :> Bench("30", "pool_size") @@
      "proxy.conf" :> << Line("pool_size", ""), Line("timeout_s", "10") >> }
Circular ==
  { "bench.conf" :> << Line("include", "proxy.conf") >> @@
      "proxy.conf" :> << Line("include", "bench.conf"), Line("pool_size", "40") >> }
Twice ==
  { "bench.conf" :> Bench("5", "pool_size") @@ "proxy.conf" :> << Line("pool_size", "50") >> }

MCDisks == Good \cup Circular \cup Twice
MCKeys == {"work_num", "timeout_s", "pool_size", "thread_num"}

(***************************************************************************)
(* What is sound is parsed, with the descriptors there are.  That what is  *)
(* parsed is sound is proved (LoadedIsMeaning in ServerProofs).            *)
(***************************************************************************)
ASSUME SoundIsParsed ==
  \A d \in Disks : Sound(d, conf_path) => _LoadConfig[d][conf_path].ret = "true"
=============================================================================
