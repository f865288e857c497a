# TLA+ models of the nanomq broker

The modules in this directory model the code under `src/nanomq/apps/broker.c` and
`src/nanolib/include/conf.h`. That code has two parts:

- the MQTT broker's **work-item state machine** (`server_cb` and its setup in
  `alloc_work`, `proto_work_init` and `broker`);
- the **daemon control** of the `nanomq broker start|stop|restart` commands, which
  goes through a PID file (`status_check`, `store_pid`, `broker_start`,
  `broker_stop` and `broker_restart`).

`spec.md` describes the rest of the system. The topic tree, the session cache,
`handle_pub` and the nng transport are not code of this repository. Where the
broker calls them, they are modelled from the spec and marked `spec_modelled` in
`PROJECT.json`.

## 1. Inventory

### Components

| Component | Code | State | Operations | Module |
|---|---|---|---|---|
| Work-item state machine | `server_cb` (broker.c 129-563) | per work item: `state` (INIT/RECV/WAIT/SEND/BRIDGE), `aio` (what the aio waits for), `msg`, `pipe_ct` (fan-out list), `cparam`, `pid` | one branch per (state, packet type): 17 handlers | `Broker` |
| Work pool | `alloc_work`, `proto_work_init`, `broker` (569-693) | `parallel` broker items plus `bridge.parallel` bridge items | creation, kick-off `server_cb(works[i])` | `Broker` (`Init`, `Start`) |
| Topic tree and pipe index | `dbtree`, `dbhash` (outside src) | filter → pipes; pipe → filters | insert, delete, search on SUB/UNSUB/PUBLISH/teardown | `Broker` (spec-modelled); contract in `SubIndex` |
| Retained store and replay | `db_ret` and `sub_ctx_handle` (outside src), broker.c 371-395 | topic → retained buffer; per work item `msg_ret`, `pid`; each buffer's pipe field | store on a retained PUBLISH; replay on SUBSCRIBE: clone, set_pipe, send | `Broker` |
| Session cache | `cache_session`, `restore_session` (outside src) | client id → cached filters | cache on DISCONNECT_EV of a `clean_start=0` pipe; restore on CONNACK | `Broker` (spec-modelled); contract in `SubIndex` |
| Fan-out and will | `handle_pub` (outside src), broker.c 168-224, 444-507 | `pipe_ct`, message references | compute the subscribers, clone, send, free | `Broker` |
| Bridge | broker.c 187-224, 526-540; `conf_bridge` | `forwards`, `bridge_ctx`, `bridge_aio` | forward a matching PUBLISH upstream; receive an upstream PUBLISH | `Broker` |
| Transport and clients | nng (outside src) | pipes, their `conn_param`, packets in flight | connect, send packets, graceful or abnormal disconnect | `Broker` (environment) |
| Daemon control | broker.c 759-1022 | the PID file, the processes, pending signals, the listen address | status_check, store_pid, start, stop, restart | `PidFile` |
| Option parsing | `cmd_opts`, `broker_parse_opts` (broker.c 64-101, 817-915), `conf.h` | the `conf` fields options set | one `nng_opts_parse` per option, the switch, the error exits | `Opts`, composed into `PidFile`'s start |
| Config files | `conf_parser`, `conf_bridge_parse`, `active_conf` | | | not modelled |
| HTTP server, logging, SIGINT loop | broker.c | | | not modelled |

### How the parts interact

Every work item owns one nng aio and one context on the broker socket. A bridge
work item also owns a context on the bridge socket. Completing the aio runs
`server_cb` on the nng task queue, so callbacks of different work items run
concurrently.

The work items share the topic tree, the pipe index, the session cache and every
pipe's `conn_param`, which is reference-counted. A packet of one pipe can be
handled by any work item. The CONNECT/CONNACK of a pipe, its packets and its
DISCONNECT_EV may therefore be handled by different items in any order the
transport delivers them and the task queue runs them.

The daemon-control commands are separate processes. They share only the PID
file, the listen address, and each other's existence as seen through `kill()`.

### Hard behaviours, and the properties that make each part correct

- **Message ownership.** Each `nng_msg` must be freed exactly once.
  - Fan-out clones the message once per extra subscriber.
  - CONNACK clones the message for the connect notification.
  - A dropped message is a leak; a second free is a use-after-free.
  - Properties: `NoMsgLeak`, `MsgRefSafe`, `TypeOK`.
- **conn_param ownership.** CONNACK takes a reference and DISCONNECT_EV releases
  the last one. No work item may touch it afterwards. Property: `CparamSafe`.
- **Index consistency.** `dbtree` and `dbhash` must describe the same pairs.
  Property: `IndexTreeDual`.
- **Subscriptions and persistent sessions.** The tree, the index and the
  session cache together behave as the atomic contract `SubIndex`: open (with
  session restore), subscribe, unsubscribe, close (with session cache). A
  `clean_start=0` client that reconnects gets its subscriptions back: its
  new CONNECT is handled after the old connection was torn down and cached.
  Property: `SubIndexRefined`.
- **Retained replay.** Every retained message replayed for a SUBSCRIBE reaches
  the subscribing pipe. Property: `RetainedToSubscriber`.
- **Bridge binding.** A bridge work item keeps receiving from the bridge
  context. Property: `BridgeBinding`.
- **Progress.** Every work item returns to waiting for a packet. Property:
  `Quiescence`.
- **Daemon control.**
  - Never two brokers (`SingleInstance`).
  - The PID file names the serving broker (`PidFileTracks`).
  - `restart` ends (`Finishes`).
  - A command line written as the CLI table of the specification shows it
    starts the broker with the configuration the table gives it
    (`ConfiguredAsSpecified`).

## 2. Modules

### `Broker.tla`: the work items, the shared indexes and the environment

**State.** Each piece of state corresponds to code as follows:

| Variable | Code |
|---|---|
| `state[w]` | `work->state` |
| `aio[w]` | what the work item's aio is bound to: `"recv_ctx"` (nng_ctx_recv on `work->ctx`), `"recv_bridge"` (on `bridge_ctx`), `"finish"` (nng_aio_finish queued the callback), `"idle"` |
| `msg[w]` | `work->msg`, as a message record |
| `pipe_ct[w]` | `work->pipe_ct`, as a set of pipes |
| `dbtree` | the topic tree, as filters → pipes |
| `dbhash` | the pipe index, as pipes → filters |
| `cached` | the session cache |
| `refs` | the nng_msg reference counts |
| `cref` | the conn_param reference counts |
| `pstate`, `clean`, `will`, `sent`, `inq` | the transport's view of each pipe |
| `upq`, `upsent`, `upstream_out` | the bridge's traffic |
| `retained` | the retained tree `db_ret`, as topic → buffer |
| `mpipe` | the pipe field of each buffer (`nng_msg_set_pipe` / `nng_msg_get_pipe`) |
| `msg_ret[w]`, `pid[w]` | `work->msg_ret` (as a set) and `work->pid`, kept only while a replay loop runs |
| `faults`, `acked`, `torn` | history variables; they record only what the properties need |

**Actions.** One `server_cb` invocation is one atomic step.

- `Deliver` is the callback entry with a completed receive:
  - `RecvCtx` / `RecvBridge` complete a receive.
  - `Resume` runs a callback queued by `nng_aio_finish`.
  - `Start` is `broker()`'s kick-off.
- The body is one operator per branch of the C switch:
  - `OnInit`;
  - RECV: `RecvDisconnect`, `RecvPublish`, `RecvConnack`, `RecvDisconnectEv`,
    `RecvOther`;
  - WAIT: `WaitReply`, `WaitSubscribe`, `WaitUnsubscribe`, `WaitPublishFanout`,
    `WaitPublishNone`, `WaitAck`, `WaitOther`;
  - `OnSend`, `OnBridge`.
- The retained loop of the SUBSCRIBE branch (371-395) is not one step. Other
  work items run while it runs, and it touches a buffer they share. It is three
  actions of the same callback (`aio` = `"replay"` / `"replay_send"`):
  - `ReplaySetPipe`: clone one entry and `nng_msg_set_pipe` it to `work->pid`;
  - `ReplaySend`: `nng_ctx_send` reaches the pipe the buffer names at that
    moment;
  - `ReplayDone`: `cvector_free` and the SUBACK.
- `HandleRetain` (handle_pub with retain = 1, from spec 4.C) stores a reference
  to the PUBLISH buffer itself and frees the one it replaces. `FanoutSetPipe`
  keeps the pipe field the fan-out loop leaves on a retained buffer.
- Each branch carries everything the C branch does:
  - tree and index updates;
  - clone and free;
  - the next state;
  - which context it re-arms the aio on.
- `PROJECT.json` "map" lists the lines of each operator.

**Messages** are identified as `<<pipe, slot>>`. Slot 0 is the CONNACK, slot 1
the connect notification, 2.. the client's packets, and the last two slots
DISCONNECT and DISCONNECT_EV. This gives each message one name in every
interleaving.

**Environment actions.**

- `Connect`: a client's pipes connect in `PipeOrder`, one open pipe per client.
- `ClientSend` sends the packets chosen by `ClientPackets`:
  - SUBSCRIBE/UNSUBSCRIBE/PUBLISH of the constant topics;
  - the extra commands in `ClientCmds`;
  - a malformed SUBSCRIBE when `AllowMalformed` holds.
- `Close` is a graceful DISCONNECT or a connection loss (DISCONNECT_EV).
- `UpstreamPublish` is a PUBLISH arriving on the bridge.

**Fairness.** Fairness is weak for every work-item step (`Start`, `RecvCtx`,
`RecvBridge`, `Resume`, `Replay` of each work item):

- nng's task queue runs every queued callback, and a running callback runs on;
- a pending receive completes once the transport has a packet for it.

Clients and the upstream broker get no fairness.

### `SubIndex.tla`: the subscription contract

The abstract specification of what the topic tree, the pipe index and the
session cache promise together (spec sections 3, 4.D, 4.G, 8.1, 8.5). Each
operation is atomic:

- `Open(p)`: a pipe's CONNACK; with clean-start = 0 it resumes the cached
  session; either way the cache entry is consumed.
- `Subscribe(p, f)` and `Unsubscribe(p, f)` while the pipe is live.
- `Close(p)`: teardown; the pipe loses all its subscriptions, which are cached
  if it connected with clean-start = 0.

`Broker` instantiates it as `SubIndexAbs` with this refinement mapping:

| SubIndex | Broker |
|---|---|
| `subs[p]` | `SubsOf(p)`, the dbtree entries naming p |
| `live[p]` | CONNACK handled and DISCONNECT_EV not yet handled (`acked[p] /\ ~torn[p]`) |
| `persist[p]` | `acked[p] /\ ~clean[p]` |
| `store` | `cached` |

The contract's `Open` requires that no other pipe of the client is live
with clean-start = 0. A session belongs to the client (spec section 3), and
spec 8.5 says the CONNECT that follows the DISCONNECT restores it.

`SubIndexRefined` (= `SubIndexAbs!Spec`) is the PROPERTY of the session run.
Each work-item step must be one contract operation or leave the mapped state
alone. The session run has one work item. TLC finds the step that is not:
p2's CONNACK is handled while p1's DISCONNECT_EV is still queued. With one
work item this needs nothing but the transport queueing the two pipes'
packets independently. A SUBSCRIBE handled after its pipe's teardown, which
needs two work items, would break the refinement too (race_cparam shows that
interleaving).

### `PidFile.tla`: daemon control

**State.** The model keeps one process per CLI invocation, with these pieces:

- its `pc`;
- which call of `status_check` it is in (`caller`);
- its local `pid` and `rc`;
- the PID file (`file`, with an inode and the content, which may be empty);
- the open descriptor of `store_pid` (`fd`);
- `alive`, the pending signals (`sig`), and the holder of the listen address
  (`port`);
- its command line (`argv`) and what `broker_parse_opts` made of it (`opts`);
- `detached`, the invocations whose parent process has exited in
  `process_daemonize`, so the shell no longer waits for them.

**Actions.**

- Every file-system call and every `kill` is a step:
  - `status_check` is `StatusRead`, `StatusProbe` and `StatusDelete`;
  - `store_pid` is `StorePidOpen` (`fopen("wb")`) and `StorePidWrite`;
  - `Listen` is `broker()`'s `nng_listen`.
- The callers of status_check:
  - `StartChecked` covers a refused start, an option-parse failure, and going
    on to `store_pid`.
  - `StopChecked`.
  - `RestartChecked`, which covers the SIGTERM and then the `while
    (!status_check) kill(SIGKILL)` loop.
- `Invoke` is the shell. With `Overlap = FALSE` it runs one command at a time.
  It gives the process one of its command lines `Args[p]`. stop with
  arguments and restart without any print the usage and exit.
- `StartChecked` runs `broker_parse_opts` of `Opts` on the command line and
  records the result in `opts`. A help, a repeated path (`ASSERT_NULL`) or a
  parse error ends the process; a parsed line goes on to `ActiveConf`.
- `ActiveConf` is `active_conf`: with `daemon` set, `process_daemonize` forks
  and the parent exits, so the invocation joins `detached` and the shell may
  run its next command (`Quiet`). The broker goes on to `store_pid`.
- The operating system provides `Die` (a pending signal ends the process; the
  PID file stays) and `Crash` (a broker ends at any point, also between fopen
  and fwrite).

**Assumptions.** Two behaviours of nng (outside src) are taken from its POSIX
implementation:

- an empty file reads as `data == NULL`;
- `nng_file_put` creates the file before writing it.

**Fairness.**

- Weak fairness for each invoked process's steps: the OS schedules it.
- Weak fairness for `Die`: the kernel delivers signals.

### `Opts.tla`: the command line

`broker_parse_opts` is a pure function of argv, so `Opts` models it as
operators, not as actions:

- `cmd_opts` is the option table, entry by entry, with `o_arg`;
- `nng_opts_parse` is one call of nng's scanner (outside src, modelled from its
  documentation). It returns -1 at the end or at the first word that is not an
  option. It returns `NNG_EINVAL` for an unknown option, `NNG_EAMBIGUOUS` for a
  prefix of several long names, and `NNG_ENOARG` when the last word wants an
  argument. Otherwise it takes the next word as the argument, whatever it is;
- `ParseLoop` (RECURSIVE) is the `while` loop with its switch (`Apply`): help
  exits 0, a repeated path exits 1, numbers go through `atoi`, and
  `http_server.port` is cut to 16 bits. The final `return rv == -1` is
  the `exit` field of the result.

An argv word is abstracted to what the scanner tells apart. A long option is
the set of table names it is a prefix of. A short option is its letter. Any
other word is its `atoi` value. The defaults `conf_init` sets (not under src)
are the model values `Unset` and `Dflt`.

The reference is `SpecConf`, a RECURSIVE reading of the CLI table of spec
section 6. Options use the table's spellings, each with its argument where the
table shows one; `-t` and `-T` take 1..255; no option is given twice. For such
a line it gives the one configuration the table implies. For any other line it
gives none, because the table promises nothing about it.

## 3. Runs

| Run | Config | Bounds | Checks | Result |
|---|---|---|---|---|
| core | `MCBroker_core.cfg` | 1 work item; one client with 2 pipes reconnecting; filter `#`; retained PUBLISH on `t`; 2 packets per pipe | `TypeOK`, `IndexTreeDual`, `NoMsgLeak`, `Quiescence` | pass (about 1M states, 2 min) |
| concurrent | `MCBroker_concurrent.cfg` | 2 work items; 2 clients; PINGREQ, PUBACK, AUTH, malformed SUBSCRIBE and plain DISCONNECT allowed; no retained PUBLISH | `MsgRefSafe` | pass (1.3M states) |
| bridge | `MCBroker_bridge.cfg` | 1 broker item, 1 bridge item; forwards `t`; 2 upstream messages | `NoMsgLeak` | pass |
| pid_seq | `MCPidFile_seq.cfg` | start, start, stop, restart in any order, one at a time; crashes; the port may be taken; the first start gets one of 9 command lines (no `-d`) | `TypeOK`, `SingleInstance`, `PidFileTracks`, `Finishes`, `ConfiguredAsSpecified` | pass (44k states) |
| subfail | `MCBroker_subfail.cfg` | 1 work item, 1 pipe, malformed SUBSCRIBE | `IndexTreeDual` | violated |
| race_cparam | `MCBroker_race_cparam.cfg` | 2 work items, 1 pipe, 1 packet | `CparamSafe` | violated |
| leak | `MCBroker_leak.cfg` | 1 pipe, plain DISCONNECT | `NoMsgLeak` | violated |
| session | `MCBroker_session.cfg` | 1 work item, one client with 2 pipes | `SubIndexRefined` | violated |
| rebind | `MCBroker_rebind.cfg` | 1 broker item, 1 bridge item | `BridgeBinding` | violated |
| pid_lost_file | `MCPidFile_lost_file.cfg` | `start -d`, then a start and a stop, one command at a time | `PidFileTracks` | violated |
| pid_http | `MCPidFile_http.cfg` | the first start gets `--http` or `--http -d` | `ConfiguredAsSpecified` | violated |
| retain_race | `MCBroker_retain_race.cfg` | 2 work items, 2 clients, retained PUBLISH on `t`, 2 packets per pipe; connections stay open (`MCStayOpen`) | `RetainedToSubscriber` | violated |

**Why the bounds suffice.**

- Every hazard in `PROJECT.json` needs at most two work items, two pipes of one
  client and two packets per pipe to show.
- The session race needs the reconnect of one client: pipes `p1` then `p2`.
- The fan-out to several subscribers and the concurrent replays need two
  pipes subscribed at once: the pair of clients in concurrent and retain_race.
- The command lines of pid_seq cover every way `broker_parse_opts` ends:
  - none;
  - numbers and a flag, and paths and a range-limited number, which are both
    read as the spec table shows them;
  - a repeated path;
  - help;
  - an ambiguous prefix, a missing argument and an unknown option;
  - a stray word.
  Lines of up to four words reach every branch of the loop. `pid_http` uses
  the two spellings of `--http` the spec table implies.
- The core run keeps one filter, `#`, to stay near 1M states. Its mutants
  are all caught with one filter.
- retain_race restricts the scenario to connections that stay open. The race
  needs no teardown, and without the constraint the violation lies 21 steps
  deep in 11M states.
- The passing broker runs avoid the triggers of known bugs where a property
  would only repeat a finding:
  - one work item in core: `CparamSafe`, `RetainedToSubscriber` and the
    absence of subscriptions of torn-down pipes would, with one work item,
    only restate single handlers, so core does not check them; race_cparam
    and retain_race check them with two;
  - no malformed SUBSCRIBE for `IndexTreeDual`;
  - no plain DISCONNECT for `NoMsgLeak`;
  - no retained PUBLISH with two work items for `MsgRefSafe`. A retained
    buffer replaced while another work item's replay still holds its bare
    pointer would be freed before the clone. No run records this (a hazard
    in `PROJECT.json`).

  The concurrent run includes the other triggers.

Deadlock checking is off in every run. Once the bounded clients stop, the broker
correctly idles waiting for packets, and a finished CLI leaves brokers that
sleep forever.

## 4. Findings

Each finding is a violation run; `PROJECT.json` "findings" has the details.

1. **subfail** (broker.c:341). A SUBSCRIBE that fails to decode deletes the
   pipe's whole dbhash entry and leaves its older dbtree entries. The teardown
   then finds no dbhash entry, and the closed pipe stays a subscriber for good.
2. **race_cparam** (broker.c:369, 344). A SUBSCRIBE still in WAIT when another
   work item handles the pipe's DISCONNECT_EV then does two things:
   - it reads the freed `conn_param`;
   - it inserts subscriptions for the closed pipe, which no later teardown
     removes (not checked by a run of its own).
3. **leak** (broker.c:182). A DISCONNECT without a will sets `work->msg = NULL`
   without freeing the message.
4. **session** (broker.c:236, 269). The new pipe's CONNACK and the old pipe's
   DISCONNECT_EV are not ordered. `restore_session` can therefore run before
   `cache_session`, and the reconnected client loses its subscriptions.
5. **rebind** (broker.c:506, 513). After an upstream PUBLISH with no
   subscribers, a bridge work item re-arms on `work->ctx` and stops serving the
   bridge.
6. **pid_lost_file** (broker.c:783, 801, 809). `status_check` unlinks an
   empty PID file, and `active_conf` daemonizes, giving the shell its prompt
   back, before `store_pid` runs. So `nanomq start -d` followed by
   `nanomq stop`, typed one after the other, can delete the new broker's PID
   file; stop/restart then no longer find the broker. Two invocations racing
   without `-d` do the same.
7. **retain_race** (broker.c:381). The retained replay loop clones a retained
   buffer by reference count and calls `nng_msg_set_pipe` on the buffer that
   every other replay shares. Two work items replaying it to p1 and p3 at once
   interleave as set_pipe(p1), set_pipe(p3), send, send: p3 receives it twice
   and p1 never. Spec section 8, property 4 says each subscribing pipe
   receives it.

8. **pid_http** (broker.c:95). `cmd_opts` declares `--http` with
   `.o_arg = true`. As a result:
   - `nanomq start --http` stops with "Option --http requires argument" and
     does not start;
   - `nanomq start --http -d` takes `-d` as the unused argument and never
     daemonizes.

   Spec section 6 lists `--http` as a flag, and so does `print_usage`.

When `nng_listen` fails, `fatal()` only prints, so the broker sleeps and keeps
the PID file, whereas spec.md says it exits non-zero. `PidFile`'s `Listen`
keeps that behaviour, but no run states the spec's rule.

A concurrent `start` racing another `start`, and `start -d; start` typed one
after the other, can each pass `status_check` before the first broker has
written its PID file, which would give two brokers. No run records either
case; both are listed as hazards with `SingleInstance`, which pid_seq checks
one invocation at a time and without `-d`.

Each property of a passing run has a mutant in `PROJECT.json`: a plausible bug
of the mapped code that TLC then finds.

## 5. Not modelled, and the plan

**Not modelled:**

- aio error completions. `fatal()` only logs, and the RECV branch then
  dereferences a NULL message. Errors only come when the socket closes.
- QoS retransmission, packet encoding and wording.
- For retained messages:
  - empty-payload deletion and will-retain;
  - in-place re-encoding of a shared buffer by the fan-out (`encode_msg`,
    broker.c 457);
  - what `sub_ctx_handle` leaves in `work->msg_ret`, which is never reset in
    src (a hazard).
- PID reuse.
- Config files (`conf_parser`, `conf_bridge_parse`, `conf_init`) are not under
  src. `active_conf` only passes values to `process_daemonize` and
  `nng_taskq_setter`, which are not under src either. Daemonizing forks, and
  the broker's pid is then the child's. Since `store_pid` runs after the fork,
  `PidFile` treats the broker as one process; the parent's exit is modelled
  as the invocation detaching from the shell (`ActiveConf`).
- `atoi` edge cases reach the broker only through the number of work items.
  `-n 0` gives a broker with none, but `Broker` takes the work items as a
  constant set (a hazard).
- The HTTP server.

**Plan for the next sittings, in order:**

1. **Delivery.** Make the copies sent to each subscriber a sequence, and check
   the per-work-item order spec section 5 requires.
2. **Abstract pub/sub delivery.** Extend `SubIndex` with delivery, so that
   publish = deliver to the matching subscribers, and refine it.
3. **Bridge aio reuse.** Model the `bridge_aio` send completion (broker.c
   219-222).
4. **Topic matching.** Add topic matching as a RECURSIVE operator, checked
   against a reference definition over bounded topic levels.
