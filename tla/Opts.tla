-------------------------------- MODULE Opts --------------------------------
(***************************************************************************)
(* The command line of `nanomq start` and `nanomq restart`: the option    *)
(* table cmd_opts and broker_parse_opts (src/nanomq/apps/broker.c), and   *)
(* the scanner nng_opts_parse they call (nng, not under src/: modelled    *)
(* from its documented behaviour).                                        *)
(*                                                                         *)
(* An argv word is abstracted to what the scanner and atoi tell apart:    *)
(*   - a long option "--x" by the set of cmd_opts names x is a prefix of  *)
(*     (no name of the table is a prefix of another, so an exact name is  *)
(*     the one-element set of itself);                                    *)
(*   - a short option "-c" by its letter c;                               *)
(*   - any other word by atoi of it (a path or a number).                 *)
(* The value atoi gives for an option word is 0.  The defaults conf_init  *)
(* gives the fields (conf_init is not under src/) are the value Dflt.     *)
(***************************************************************************)
EXTENDS Integers, Sequences, FiniteSets, TLC

LongOpt(S) == [kind |-> "long", names |-> S, num |-> 0]
ShortOpt(c) == [kind |-> "short", names |-> {c}, num |-> 0]
Plain(k) == [kind |-> "plain", names |-> {}, num |-> k]

CONSTANTS
    Unset,   \* a char * field still NULL
    Dflt     \* a numeric field as conf_init left it

NoShort == "none"

\* The nng error numbers broker_parse_opts tells apart.
NNG_EINVAL == 3
NNG_ENOARG == 28
NNG_EAMBIGUOUS == 29

\* cmd_opts: long name, short letter, o_val, o_arg.
Opt(n, c, v, a) == [name |-> n, short |-> c, val |-> v, arg |-> a]

\* Mutant: the parallel entry written without .o_arg = true.
cmd_opts_parallel_noarg ==
    { Opt("help", "h", "HELP", FALSE),
      Opt("conf", NoShort, "CONFFILE", TRUE),
      Opt("bridge", NoShort, "BRIDGEFILE", TRUE),
      Opt("auth", NoShort, "AUTHFILE", TRUE),
      Opt("daemon", "d", "DAEMON", FALSE),
      Opt("tq_thread", "t", "THREADS", TRUE),
      Opt("max_tq_thread", "T", "MAX_THREADS", TRUE),
      Opt("parallel", "n", "PARALLEL", FALSE),
      Opt("property_size", "s", "PROPERTY_SIZE", TRUE),
      Opt("msq_len", "S", "MSQ_LEN", TRUE),
      Opt("qos_duration", "D", "QOS_DURATION", TRUE),
      Opt("url", NoShort, "URL", TRUE),
      Opt("http", NoShort, "HTTP_ENABLE", TRUE),
      Opt("port", "p", "HTTP_PORT", TRUE) }

cmd_opts ==
    { Opt("help", "h", "HELP", FALSE),
      Opt("conf", NoShort, "CONFFILE", TRUE),
      Opt("bridge", NoShort, "BRIDGEFILE", TRUE),
      Opt("auth", NoShort, "AUTHFILE", TRUE),
      Opt("daemon", "d", "DAEMON", FALSE),
      Opt("tq_thread", "t", "THREADS", TRUE),
      Opt("max_tq_thread", "T", "MAX_THREADS", TRUE),
      Opt("parallel", "n", "PARALLEL", TRUE),
      Opt("property_size", "s", "PROPERTY_SIZE", TRUE),
      Opt("msq_len", "S", "MSQ_LEN", TRUE),
      Opt("qos_duration", "D", "QOS_DURATION", TRUE),
      Opt("url", NoShort, "URL", TRUE),
      Opt("http", NoShort, "HTTP_ENABLE", TRUE),
      Opt("port", "p", "HTTP_PORT", TRUE) }

\* The conf field each o_val writes, and how: a path is nng_strdup(arg)
\* behind ASSERT_NULL, a number is atoi(arg), a flag is set to true.
Field == [CONFFILE |-> "conf_file", BRIDGEFILE |-> "bridge_file",
          AUTHFILE |-> "auth_file", URL |-> "url",
          PARALLEL |-> "parallel", THREADS |-> "num_taskq_thread",
          MAX_THREADS |-> "max_taskq_thread",
          PROPERTY_SIZE |-> "property_size", MSQ_LEN |-> "msq_len",
          QOS_DURATION |-> "qos_duration", HTTP_PORT |-> "http_port",
          DAEMON |-> "daemon", HTTP_ENABLE |-> "http_enable"]
PathVals == {"CONFFILE", "BRIDGEFILE", "AUTHFILE", "URL"}
NumVals  == {"PARALLEL", "THREADS", "MAX_THREADS", "PROPERTY_SIZE",
             "MSQ_LEN", "QOS_DURATION", "HTTP_PORT"}
FlagVals == {"DAEMON", "HTTP_ENABLE"}

\* The conf broker_start hands to broker_parse_opts: nng_zalloc, then
\* parallel = PARALLEL and conf_init.
ConfInit ==
    [f \in {Field[v] : v \in PathVals} |-> Unset]
    @@ [f \in {Field[v] : v \in NumVals} |-> Dflt]
    @@ [f \in {Field[v] : v \in FlagVals} |-> FALSE]

-----------------------------------------------------------------------------
(* nng_opts_parse(argc, argv, opts, &val, &arg, &idx): one option.  It     *)
(* returns -1 at the end of argv or at the first word that is not an      *)
(* option, NNG_EINVAL for an unknown option, NNG_EAMBIGUOUS for a long    *)
(* prefix of several names, NNG_ENOARG when an option that takes an       *)
(* argument is the last word; otherwise 0, and idx moves past the option  *)
(* and, when o_arg, past the next word, whatever that word is.  On an     *)
(* error idx stays on the offending word.                                 *)

Matches(w) ==
    IF w.kind = "long" THEN {o \in cmd_opts : o.name \in w.names}
                       ELSE {o \in cmd_opts : o.short \in w.names}

Scan(rv, o, a, i) == [rv |-> rv, val |-> o, arg |-> a, idx |-> i]

nng_opts_parse(argv, i) ==
    IF i > Len(argv) \/ argv[i].kind = "plain" THEN Scan(-1, "none", Plain(0), i)
    ELSE LET hits == Matches(argv[i]) IN
      CASE hits = {}              -> Scan(NNG_EINVAL, "none", Plain(0), i)
        [] Cardinality(hits) > 1  -> Scan(NNG_EAMBIGUOUS, "none", Plain(0), i)
        [] OTHER ->
             LET o == CHOOSE o \in hits : TRUE IN
             CASE ~o.arg              -> Scan(0, o.val, Plain(0), i + 1)
               [] i + 1 > Len(argv)   -> Scan(NNG_ENOARG, "none", Plain(0), i)
               [] OTHER               -> Scan(0, o.val, argv[i + 1], i + 2)

-----------------------------------------------------------------------------
(* broker_parse_opts: the loop and its switch.  The result says how the   *)
(* invocation goes on: "ok" (return 1: broker_start carries on), "fail"   *)
(* (return 0 after the error message: broker_start returns -1), "help"    *)
(* (print_usage, exit(0)) or "dup" (ASSERT_NULL: exit(1)).                *)

\* http_server.port is a uint16_t: atoi's int is cut to 16 bits.
Apply(config, v, a) ==
    CASE v \in PathVals -> [config EXCEPT ![Field[v]] = a]
      [] v = "HTTP_PORT" -> [config EXCEPT ![Field[v]] = a.num % 65536]
      [] v \in NumVals  -> [config EXCEPT ![Field[v]] = a.num]
      [] v \in FlagVals -> [config EXCEPT ![Field[v]] = TRUE]

RECURSIVE ParseLoop(_, _, _)
ParseLoop(argv, i, config) ==
    LET r == nng_opts_parse(argv, i) IN
    CASE r.rv # 0           -> [exit |-> IF r.rv = -1 THEN "ok" ELSE "fail",
                                conf |-> config]
      [] r.val = "HELP"     -> [exit |-> "help", conf |-> config]
      [] r.val \in PathVals /\ config[Field[r.val]] # Unset
                            -> [exit |-> "dup", conf |-> config]
      [] OTHER              -> ParseLoop(argv, r.idx, Apply(config, r.val, r.arg))

broker_parse_opts(argv) == ParseLoop(argv, 1, ConfInit)

-----------------------------------------------------------------------------
(* The reference: the CLI table of the specification (section 6).  A      *)
(* command line is read as options in the spellings the table gives,     *)
(* each followed by its argument where the table shows one (a path, or a  *)
(* number N; -t and -T take 1..255), no option given twice.  SpecConf is *)
(* the set of configurations the table allows: the one it gives a line   *)
(* read so, none for anything else, about which it promises nothing.      *)

\* Spelling, argument and field of every row of the table; a number
\* argument is an int from lo to hi.
Row(w, arg, lo, hi, f) == [word |-> w, arg |-> arg, lo |-> lo, hi |-> hi, field |-> f]
IntMax == 2147483647
SpecTable ==
    { Row(LongOpt({"url"}), "path", 0, 0, "url"),
      Row(LongOpt({"conf"}), "path", 0, 0, "conf_file"),
      Row(LongOpt({"bridge"}), "path", 0, 0, "bridge_file"),
      Row(LongOpt({"auth"}), "path", 0, 0, "auth_file"),
      Row(ShortOpt("d"), "none", 0, 0, "daemon"),
      Row(LongOpt({"daemon"}), "none", 0, 0, "daemon"),
      Row(ShortOpt("t"), "num", 1, 255, "num_taskq_thread"),
      Row(ShortOpt("T"), "num", 1, 255, "max_taskq_thread"),
      Row(ShortOpt("n"), "num", 0, IntMax, "parallel"),
      Row(ShortOpt("s"), "num", 0, IntMax, "property_size"),
      Row(ShortOpt("S"), "num", 0, IntMax, "msq_len"),
      Row(ShortOpt("D"), "num", 0, IntMax, "qos_duration"),
      Row(LongOpt({"http"}), "none", 0, 0, "http_enable"),
      Row(ShortOpt("p"), "num", 0, 65535, "http_port") }

Fits(row, a) ==
    /\ a.kind = "plain"
    /\ row.arg = "path" \/ a.num \in row.lo..row.hi

RECURSIVE SpecRead(_, _, _)
SpecRead(argv, config, given) ==
    IF argv = <<>> THEN {config}
    ELSE LET rows == {r \in SpecTable : r.word = Head(argv)} IN
      IF rows = {} THEN {}
      ELSE LET r == CHOOSE r \in rows : TRUE IN
        CASE r.field \in given -> {}
          [] r.arg = "none" -> SpecRead(Tail(argv), [config EXCEPT ![r.field] = TRUE], given \cup {r.field})
          [] Len(argv) < 2 \/ ~Fits(r, argv[2]) -> {}
          [] r.arg = "path" -> SpecRead(Tail(Tail(argv)), [config EXCEPT ![r.field] = argv[2]], given \cup {r.field})
          [] OTHER -> SpecRead(Tail(Tail(argv)), [config EXCEPT ![r.field] = argv[2].num],
                            given \cup {r.field})

SpecConf(argv) == SpecRead(argv, ConfInit, {})
=============================================================================
