------------------------------ MODULE MCPidFile ------------------------------
(* Instances of PidFile for TLC: one broker start, a second start, a stop  *)
(* and a restart, in every order the shell can run them.                   *)
EXTENDS PidFile

MCProcs == {"a", "b", "c", "d"}
MCKind  == [p \in MCProcs |-> CASE p \in {"a", "b"} -> "start"
                                [] p = "c" -> "stop"
                                [] p = "d" -> "restart"]

\* Two starts racing a stop: the scenario of the overlap runs.
MCRaceProcs == {"a", "b", "c"}
MCRaceKind  == [p \in MCRaceProcs |-> IF p = "c" THEN "stop" ELSE "start"]

\* Command lines.  The first start gets one of every kind broker_parse_opts
\* tells apart, -d aside (MCDaemonArgs): none, numbers, paths, a repeated
\* path, help, an ambiguous prefix, a missing argument, an unknown option
\* and a stray word; stop and restart each get an accepted and a refused
\* argc.
MCLines ==
    { <<>>,
      <<ShortOpt("n"), Plain(8), ShortOpt("S"), Plain(8)>>,
      <<LongOpt({"conf"}), Plain(0), ShortOpt("t"), Plain(8)>>,
      <<LongOpt({"url"}), Plain(0), LongOpt({"url"}), Plain(8)>>,
      <<ShortOpt("h")>>,
      <<LongOpt({"parallel", "property_size", "port"}), Plain(8)>>,
      <<ShortOpt("p")>>,
      <<ShortOpt("x")>>,
      <<Plain(0), ShortOpt("d")>> }
MCArgs == [p \in MCProcs |-> CASE p = "a" -> MCLines
                                [] p = "b" -> {<<>>}
                                [] p = "c" -> {<<>>, <<Plain(0)>>}
                                [] p = "d" -> {<<>>, <<Plain(0)>>}]
MCRaceArgs == [p \in MCRaceProcs |-> {<<>>}]

\* The first start daemonizes; the shell runs the others one at a time.
MCDaemonArgs == [p \in MCRaceProcs |-> IF p = "a" THEN {<<ShortOpt("d")>>} ELSE {<<>>}]

\* `--http`, alone and followed by -d, as the CLI table writes it.
MCHttpArgs == [p \in MCProcs |->
                 IF p = "a" THEN {<<LongOpt({"http"})>>, <<LongOpt({"http"}), ShortOpt("d")>>}
                 ELSE {<<>>}]
=============================================================================
