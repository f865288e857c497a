------------------------------- MODULE Broker -------------------------------
(***************************************************************************)
(* The work-item pool of nanomq's broker core (src/nanomq/apps/broker.c).  *)
(*                                                                         *)
(* broker() allocates `parallel` work items of proto PROTO_MQTT_BROKER and *)
(* bridge.parallel of proto PROTO_MQTT_BRIDGE, all sharing one nmq socket  *)
(* and one bridge client socket.  Each work item is driven by server_cb,   *)
(* one invocation per completion of its aio, through the states INIT,      *)
(* RECV, WAIT, SEND and BRIDGE.  The work items share the subscription     *)
(* tree (dbtree), the pipe index (dbhash) and the session cache.           *)
(*                                                                         *)
(* One server_cb invocation is one atomic step.  The aio of a work item is *)
(* either idle, waiting for a receive on the broker context or on the      *)
(* bridge context, or finished (nng_aio_finish: the callback is queued).   *)
(* nng_ctx_send on the nmq context hands one message reference to the      *)
(* pipe and does not complete the aio, which is why server_cb calls        *)
(* nng_aio_finish after every send.                                        *)
(*                                                                         *)
(* Messages are nng_msg buffers identified by MsgIds with a reference      *)
(* count; conn_param snapshots are reference counted per pipe.  Accesses   *)
(* to a buffer or snapshot whose count is zero are recorded in `faults`.   *)
(***************************************************************************)
EXTENDS Integers, Sequences, FiniteSets

CONSTANTS
  Workers,        \* work items of proto PROTO_MQTT_BROKER (conf parallel)
  BridgeWorkers,  \* work items of proto PROTO_MQTT_BRIDGE (bridge.parallel)
  Pipes,          \* client connections; nng never reuses a pipe id
  ClientOf,       \* ClientOf[p]: the client-id of pipe p's CONNECT
  PipeOrder,      \* the order in which pipes are opened (nng pipe ids)
  Topics,         \* topic names of PUBLISH packets
  RetainTopics,   \* topics a client PUBLISH may carry retain = 1 on
  Filters,        \* topic filters of SUBSCRIBE / UNSUBSCRIBE packets
  Match(_, _),    \* Match(f, t): filter f matches topic t in dbtree
  SysTopic,       \* topic of the connect / disconnect notifications
  WillTopic,      \* will topic of every CONNECT that carries a will
  Forwards,       \* bridge.forwards
  UpTopics,       \* topics the upstream broker publishes (bridge.sub_list)
  Upstream,       \* the pipe of the bridge client connection
  ClientCmds,     \* control packets without a topic a client may send
  MaxPkts,        \* bound: packets a client sends on one pipe
  MaxUp,          \* bound: publications the upstream broker sends
  AllowMalformed, \* a client may send a SUBSCRIBE that fails to decode
  AllowPlainDisconnect, \* a client may send DISCONNECT without a will
  NoMsg,          \* work->msg == NULL
  NoSession       \* no cached session for a client-id

ASSUME Workers \cap BridgeWorkers = {}
ASSUME SysTopic \in Topics /\ WillTopic \in Topics
ASSUME RetainTopics \subseteq Topics \ {SysTopic}
ASSUME Forwards \subseteq Filters

Work == Workers \cup BridgeWorkers
Clients == {ClientOf[p] : p \in Pipes}
BridgeMode == BridgeWorkers # {}

Cmds == {"CONNACK", "PUBLISH", "SUBSCRIBE", "UNSUBSCRIBE", "PINGREQ",
         "PUBACK", "PUBREC", "PUBREL", "PUBCOMP", "AUTH", "DISCONNECT",
         "DISCONNECT_EV"}
\* An nng_msg buffer is named by the pipe it came from and a slot: 0 the
\* CONNACK, 1 the connect notification, 2.. the client's packets, then
\* DISCONNECT and DISCONNECT_EV.
Slots == 0 .. MaxPkts + MaxUp + 3
MsgIds == (Pipes \cup {Upstream}) \X Slots
Msgs == [id : MsgIds, cmd : Cmds, pipe : Pipes \cup {Upstream},
         arg : Topics \cup Filters \cup {"none"}, ok : BOOLEAN,
         retain : BOOLEAN]

VARIABLES
  state, aio, msg, pipe_ct,   \* per work item: struct work
  dbtree, dbhash, cached,     \* subscription tree, pipe index, sessions
  refs,                       \* nng_msg reference counts
  pstate, clean, will, sent, inq, cref,  \* pipes as the transport shows them
  upq, upsent, upstream_out,  \* the bridge client connection
  retained, mpipe,            \* retained store (db_ret), nng_msg_get_pipe
  msg_ret, pid,               \* per work item: work->msg_ret, work->pid
  faults, acked, torn         \* history

workVars == <<state, aio, msg, pipe_ct>>
dbVars == <<dbtree, dbhash, cached>>
pipeVars == <<pstate, clean, will, sent, inq, cref>>
upVars == <<upq, upsent, upstream_out>>
ghostVars == <<faults, acked, torn>>
retVars == <<retained, mpipe>>
loopVars == <<msg_ret, pid>>
vars == <<workVars, dbVars, refs, pipeVars, upVars, retVars, loopVars,
          ghostVars>>

Mk(i, c, p, a, ok) ==
  [id |-> i, cmd |-> c, pipe |-> p, arg |-> a, ok |-> ok, retain |-> FALSE]

\* Fault records: a buffer or snapshot used or released at count zero.
UseMsg(r, i) == IF r[i] > 0 THEN {} ELSE {"msg_use_after_free"}
FreeMsg(r, i) == IF r[i] > 0 THEN {} ELSE {"msg_double_free"}
UseCparam(p) ==
  IF p \in Pipes /\ cref[p] <= 0 THEN {"cparam_use_after_free"} ELSE {}
FreeCparam(p) ==
  IF p \in Pipes /\ cref[p] <= 0 THEN {"cparam_double_free"} ELSE {}

SubsOf(p) == {f \in Filters : p \in dbtree[f]}

(***************************************************************************)
(* Collaborators outside src/ (spec sections 4.A-4.C).                     *)
(***************************************************************************)
\* handle_pub: the pipes subscribed to a filter matching t, deduplicated.
HandlePub(tree, t) == {p \in Pipes : \E f \in Filters : Match(f, t) /\ p \in tree[f]}

\* handle_pub with retain = 1: the retained store keeps a reference to the
\* PUBLISH buffer itself and frees the buffer it replaces.  Payloads are
\* never empty here, so no entry is deleted.
HandleRetain(m) ==
  LET old == retained[m.arg] IN
  IF m.retain
    THEN /\ retained' = [retained EXCEPT ![m.arg] = m]
         /\ refs' = IF old = NoMsg THEN [refs EXCEPT ![m.id] = @ + 1]
                    ELSE [refs EXCEPT ![m.id] = @ + 1, ![old.id] = @ - 1]
         /\ faults' = IF old = NoMsg THEN faults
                      ELSE faults \cup FreeMsg(refs, old.id)
    ELSE UNCHANGED <<retained, refs, faults>>

\* sub_ctx_handle fills work->msg_ret with the retained buffers whose topic
\* the filter matches: bare pointers, no reference taken.
RetainedFor(f) ==
  {retained[t] : t \in {u \in Topics : Match(f, u) /\ retained[u] # NoMsg}}

\* restore_session: re-bind the client's cached filters to the new pipe;
\* a clean-start CONNECT evicts the cached session instead.
RestoreSession(p) ==
  LET s == cached[ClientOf[p]]
      restore == s # NoSession /\ ~clean[p]
  IN /\ dbtree' = IF restore
                    THEN [f \in Filters |-> IF f \in s THEN dbtree[f] \cup {p}
                                                       ELSE dbtree[f]]
                    ELSE dbtree
     /\ dbhash' = IF restore THEN [dbhash EXCEPT ![p] = @ \cup s] ELSE dbhash
     /\ cached' = IF s # NoSession
                    THEN [cached EXCEPT ![ClientOf[p]] = NoSession]
                    ELSE cached

\* cache_session: remember the pipe's topic queue under its client-id.
CacheSession(p) ==
  cached' = IF ~clean[p] THEN [cached EXCEPT ![ClientOf[p]] = dbhash[p]]
                         ELSE cached

(***************************************************************************)
(* server_cb                                                               *)
(***************************************************************************)
\* The work item's state, aio, msg and pipe_ct after one invocation.
Step(w, st, a, m, pc) ==
  /\ state' = [state EXCEPT ![w] = st]
  /\ aio' = [aio EXCEPT ![w] = a]
  /\ msg' = [msg EXCEPT ![w] = m]
  /\ pipe_ct' = [pipe_ct EXCEPT ![w] = pc]

\* Re-arming the receive by proto, as SEND does it.
RecvState(w) == IF w \in BridgeWorkers THEN "BRIDGE" ELSE "RECV"
RecvAio(w) == IF w \in BridgeWorkers THEN "recv_bridge" ELSE "recv_ctx"

OnInit(w) == Step(w, RecvState(w), RecvAio(w), NoMsg, {})

\* RECV, CMD_DISCONNECT: a will becomes a PUBLISH; without one the worker
\* re-arms the receive and drops its pointer to the message.
RecvDisconnect(w, m) ==
  /\ m.cmd = "DISCONNECT"
  /\ faults' = faults \cup UseCparam(m.pipe)
  /\ IF will[m.pipe]
       THEN Step(w, "WAIT", "finished",
                 [m EXCEPT !.cmd = "PUBLISH", !.arg = WillTopic],
                 HandlePub(dbtree, WillTopic))
       ELSE Step(w, "RECV", "recv_ctx", NoMsg, pipe_ct[w])
  /\ UNCHANGED <<retVars, loopVars, dbVars, refs, cref, upstream_out, acked, torn>>

\* RECV, CMD_PUBLISH: match, then forward upstream if a forwards filter
\* matches the topic.
RecvPublish(w, m) ==
  /\ m.cmd = "PUBLISH"
  /\ Step(w, "WAIT", "finished", m, HandlePub(dbtree, m.arg))
  /\ HandleRetain(m)
  /\ upstream_out' = IF BridgeMode /\ \E f \in Forwards : Match(f, m.arg)
                       THEN Append(upstream_out, m.arg) ELSE upstream_out
  /\ UNCHANGED <<mpipe, loopVars, dbVars, cref, acked, torn>>

\* Mutant: nng_msg_clone before sending the CONNACK is missing.
RecvConnackNoMsgClone(w, m) ==
  LET p == m.pipe
      n == <<p, 1>>
      r1 == [refs EXCEPT ![m.id] = @ - 1]
  IN /\ m.cmd = "CONNACK"
     /\ faults' = faults \cup UseCparam(p) \cup UseMsg(r1, m.id)
                         \cup FreeMsg(r1, m.id)
     /\ RestoreSession(p)
     /\ refs' = [r1 EXCEPT ![m.id] = @ - 1, ![n] = 1]
     /\ Step(w, "WAIT", "finished", Mk(n, "PUBLISH", p, SysTopic, TRUE),
             HandlePub(dbtree', SysTopic))
     /\ acked' = [acked EXCEPT ![p] = TRUE]
     /\ UNCHANGED <<retVars, loopVars, cref, upstream_out, torn>>

\* RECV, CMD_CONNACK: clone cparam, restore the session, clone and send the
\* CONNACK, read its flags, publish the connect notification instead of it.
RecvConnack(w, m) ==
  LET p == m.pipe
      n == <<p, 1>>
      r1 == [refs EXCEPT ![m.id] = @ + 1 - 1]   \* clone, then send
  IN /\ m.cmd = "CONNACK"
     /\ faults' = faults \cup UseCparam(p) \cup UseMsg(r1, m.id)
                         \cup FreeMsg(r1, m.id)
     /\ RestoreSession(p)
     /\ refs' = [r1 EXCEPT ![m.id] = @ - 1, ![n] = 1]
     /\ Step(w, "WAIT", "finished", Mk(n, "PUBLISH", p, SysTopic, TRUE),
             HandlePub(dbtree', SysTopic))
     /\ acked' = [acked EXCEPT ![p] = TRUE]
     /\ UNCHANGED <<retVars, loopVars, cref, upstream_out, torn>>

\* RECV, CMD_DISCONNECT_EV: publish the notification, cache the session,
\* delete the pipe's topics from dbtree and dbhash, free cparam.
RecvDisconnectEv(w, m) ==
  LET p == m.pipe
      tq == dbhash[p]
  IN /\ m.cmd = "DISCONNECT_EV"
     /\ Step(w, "WAIT", "finished", [m EXCEPT !.cmd = "PUBLISH"],
             HandlePub(dbtree, m.arg))
     /\ CacheSession(p)
     /\ dbtree' = [f \in Filters |-> IF f \in tq THEN dbtree[f] \ {p}
                                                 ELSE dbtree[f]]
     /\ dbhash' = [dbhash EXCEPT ![p] = {}]
     /\ cref' = [cref EXCEPT ![p] = @ - 1]
     /\ faults' = faults \cup UseCparam(p) \cup FreeCparam(p)
     /\ torn' = [torn EXCEPT ![p] = TRUE]
     /\ UNCHANGED <<retVars, loopVars, refs, upstream_out, acked>>

\* RECV, any other packet: on to WAIT.
RecvOther(w, m) ==
  /\ m.cmd \notin {"DISCONNECT", "PUBLISH", "CONNACK", "DISCONNECT_EV"}
  /\ Step(w, "WAIT", "finished", m, pipe_ct[w])
  /\ UNCHANGED <<retVars, loopVars, dbVars, refs, cref, upstream_out, ghostVars>>

OnRecv(w, m) ==
  \/ RecvDisconnect(w, m)
  \/ RecvPublish(w, m)
  \/ RecvConnack(w, m)
  \/ RecvDisconnectEv(w, m)
  \/ RecvOther(w, m)

\* WAIT, CMD_PINGREQ / CMD_PUBREC: the buffer is rewritten in place into
\* PINGRESP / PUBREL and sent back on the same pipe.
WaitReply(w) ==
  LET m == msg[w] IN
  /\ m.cmd \in {"PINGREQ", "PUBREC"}
  /\ faults' = faults \cup UseMsg(refs, m.id)
  /\ refs' = [refs EXCEPT ![m.id] = @ - 1]
  /\ Step(w, "SEND", "finished", NoMsg, pipe_ct[w])
  /\ UNCHANGED <<retVars, loopVars, dbVars, cref, upstream_out, acked, torn>>

\* WAIT, CMD_SUBSCRIBE: decode, sub_ctx_handle (dbtree and dbhash insert,
\* msg_ret filled), encode SUBACK; on failure the pipe's whole dbhash entry
\* is deleted.  The SUBACK buffer is allocated and sent in this callback, so
\* it nets out.  With retained replays pending the callback goes on with
\* the loop (Replay); work->pid is kept only for it.
WaitSubscribe(w) ==
  LET m == msg[w]
      p == m.pipe
  IN /\ m.cmd = "SUBSCRIBE"
     /\ IF m.ok
          THEN /\ dbtree' = [dbtree EXCEPT ![m.arg] = @ \cup {p}]
               /\ dbhash' = [dbhash EXCEPT ![p] = @ \cup {m.arg}]
               /\ msg_ret' = [msg_ret EXCEPT ![w] = RetainedFor(m.arg)]
          ELSE /\ dbtree' = dbtree
               /\ dbhash' = [dbhash EXCEPT ![p] = {}]
               /\ UNCHANGED msg_ret
     /\ faults' = faults \cup FreeMsg(refs, m.id) \cup UseCparam(p)
     /\ refs' = [refs EXCEPT ![m.id] = @ - 1]
     /\ IF msg_ret'[w] = {}
          THEN /\ Step(w, "SEND", "finished", NoMsg, pipe_ct[w])
               /\ UNCHANGED pid
          ELSE /\ Step(w, "WAIT", "replay", m, pipe_ct[w])
               /\ pid' = [pid EXCEPT ![w] = p]
     /\ UNCHANGED <<retVars, cached, cref, upstream_out, acked, torn>>

\* Mutant: the filter is removed from dbtree but left in dbhash.
WaitUnsubscribeTreeOnly(w) ==
  LET m == msg[w] IN
  /\ m.cmd = "UNSUBSCRIBE"
  /\ dbtree' = [dbtree EXCEPT ![m.arg] = @ \ {m.pipe}]
  /\ faults' = faults \cup FreeMsg(refs, m.id)
  /\ refs' = [refs EXCEPT ![m.id] = @ - 1]
  /\ Step(w, "SEND", "finished", NoMsg, pipe_ct[w])
  /\ UNCHANGED <<retVars, loopVars, dbhash, cached, cref, upstream_out, acked, torn>>

\* WAIT, CMD_UNSUBSCRIBE: unsub_ctx_handle deletes the filter from dbtree
\* and dbhash; the UNSUBACK is sent.
WaitUnsubscribe(w) ==
  LET m == msg[w]
      p == m.pipe
  IN /\ m.cmd = "UNSUBSCRIBE"
     /\ dbtree' = [dbtree EXCEPT ![m.arg] = @ \ {p}]
     /\ dbhash' = [dbhash EXCEPT ![p] = @ \ {m.arg}]
     /\ faults' = faults \cup FreeMsg(refs, m.id)
     /\ refs' = [refs EXCEPT ![m.id] = @ - 1]
     /\ Step(w, "SEND", "finished", NoMsg, pipe_ct[w])
     /\ UNCHANGED <<retVars, loopVars, cached, cref, upstream_out, acked, torn>>

\* The fanout loop leaves the buffer's pipe field at its last destination.
\* Only a retained buffer is read again (by a replay), so only its field
\* is kept.
FanoutSetPipe(w) ==
  LET m == msg[w] IN
  IF retained[m.arg] = m
    THEN \E q \in pipe_ct[w] : mpipe' = [mpipe EXCEPT ![m.id] = q]
    ELSE UNCHANGED mpipe

\* Mutant: the original reference is not freed after the fanout.
WaitPublishFanoutNoFree(w) ==
  LET m == msg[w] IN
  /\ m.cmd = "PUBLISH"
  /\ pipe_ct[w] # {}
  /\ faults' = faults \cup UseMsg(refs, m.id)
  /\ Step(w, "SEND", "finished", NoMsg, {})
  /\ FanoutSetPipe(w)
  /\ UNCHANGED <<retained, loopVars, dbVars, refs, cref, upstream_out, acked, torn>>

\* Mutant: the original is freed both after the fanout and again.
WaitPublishFanoutFreeTwice(w) ==
  LET m == msg[w] IN
  /\ m.cmd = "PUBLISH"
  /\ pipe_ct[w] # {}
  /\ faults' = faults \cup UseMsg(refs, m.id) \cup FreeMsg(refs, m.id)
  /\ refs' = [refs EXCEPT ![m.id] = @ - 2]
  /\ Step(w, "SEND", "finished", NoMsg, {})
  /\ FanoutSetPipe(w)
  /\ UNCHANGED <<retained, loopVars, dbVars, cref, upstream_out, acked, torn>>

\* WAIT, CMD_PUBLISH with subscribers: one clone and one send per pipe in
\* pipe_ct, then pipe_ct is reset and the original reference freed.
WaitPublishFanout(w) ==
  LET m == msg[w] IN
  /\ m.cmd = "PUBLISH"
  /\ pipe_ct[w] # {}
  /\ faults' = faults \cup UseMsg(refs, m.id) \cup FreeMsg(refs, m.id)
  /\ refs' = [refs EXCEPT ![m.id] = @ - 1]
  /\ Step(w, "SEND", "finished", NoMsg, {})
  /\ FanoutSetPipe(w)
  /\ UNCHANGED <<retained, loopVars, dbVars, cref, upstream_out, acked, torn>>

\* Mutant: the message is not freed when nobody is subscribed.
WaitPublishNoneNoFree(w) ==
  /\ msg[w].cmd = "PUBLISH"
  /\ pipe_ct[w] = {}
  /\ Step(w, RecvState(w), "recv_ctx", NoMsg, {})
  /\ UNCHANGED <<retVars, loopVars, dbVars, refs, cref, upstream_out, ghostVars>>

\* WAIT, CMD_PUBLISH without subscribers: free and re-arm.  The state is
\* chosen by proto but the receive is issued on work->ctx.
WaitPublishNone(w) ==
  LET m == msg[w] IN
  /\ m.cmd = "PUBLISH"
  /\ pipe_ct[w] = {}
  /\ faults' = faults \cup FreeMsg(refs, m.id)
  /\ refs' = [refs EXCEPT ![m.id] = @ - 1]
  /\ Step(w, RecvState(w), "recv_ctx", NoMsg, {})
  /\ UNCHANGED <<retVars, loopVars, dbVars, cref, upstream_out, acked, torn>>

\* WAIT, CMD_PUBACK / PUBREL / PUBCOMP, and any packet no branch handles:
\* free and re-arm the receive on work->ctx in state RECV.
WaitAck(w) ==
  LET m == msg[w] IN
  /\ m.cmd \in {"PUBACK", "PUBREL", "PUBCOMP"}
  /\ faults' = faults \cup FreeMsg(refs, m.id)
  /\ refs' = [refs EXCEPT ![m.id] = @ - 1]
  /\ Step(w, "RECV", "recv_ctx", NoMsg, pipe_ct[w])
  /\ UNCHANGED <<retVars, loopVars, dbVars, cref, upstream_out, acked, torn>>

WaitOther(w) ==
  LET m == msg[w] IN
  /\ m.cmd \notin {"PINGREQ", "PUBREC", "SUBSCRIBE", "UNSUBSCRIBE", "PUBLISH",
                   "PUBACK", "PUBREL", "PUBCOMP"}
  /\ faults' = faults \cup FreeMsg(refs, m.id)
  /\ refs' = [refs EXCEPT ![m.id] = @ - 1]
  /\ Step(w, "RECV", "recv_ctx", NoMsg, pipe_ct[w])
  /\ UNCHANGED <<retVars, loopVars, dbVars, cref, upstream_out, acked, torn>>

OnWait(w) ==
  \/ WaitReply(w)
  \/ WaitSubscribe(w)
  \/ WaitUnsubscribe(w)
  \/ WaitPublishFanout(w)
  \/ WaitPublishNone(w)
  \/ WaitAck(w)
  \/ WaitOther(w)

\* WAIT, CMD_SUBSCRIBE, the retained loop (371-384), still inside the same
\* server_cb invocation but not atomic with respect to other work items.
\* One entry: nng_msg_clone, work->msg = m, nng_msg_set_pipe(m, work->pid)
\* on the buffer the retained store and every other replay share.
ReplaySetPipe(w) ==
  /\ aio[w] = "replay"
  /\ \E r \in msg_ret[w] :
       /\ faults' = faults \cup UseMsg(refs, r.id)
       /\ refs' = [refs EXCEPT ![r.id] = @ + 1]
       /\ mpipe' = [mpipe EXCEPT ![r.id] = pid[w]]
       /\ msg_ret' = [msg_ret EXCEPT ![w] = @ \ {r}]
       /\ Step(w, "WAIT", "replay_send", r, pipe_ct[w])
  /\ UNCHANGED <<retained, pid, dbVars, cref, pipeVars, upVars, acked, torn>>

\* ... then nng_ctx_send: the pipe named by the buffer's pipe field at this
\* moment takes the reference and frees it once written.
ReplaySend(w) ==
  LET r == msg[w] IN
  /\ aio[w] = "replay_send"
  /\ faults' = faults \cup (IF mpipe[r.id] # pid[w] THEN {"retained_misrouted"}
                                                    ELSE {})
  /\ refs' = [refs EXCEPT ![r.id] = @ - 1]
  /\ Step(w, "WAIT", "replay", r, pipe_ct[w])
  /\ UNCHANGED <<retVars, loopVars, dbVars, cref, pipeVars, upVars, acked, torn>>

\* Mutant: the loop ends without nng_ctx_send of the SUBACK; no aio is
\* left pending on the work item.
ReplayDoneNoSend(w) ==
  /\ aio[w] = "replay"
  /\ msg_ret[w] = {}
  /\ Step(w, "SEND", "idle", NoMsg, pipe_ct[w])
  /\ UNCHANGED <<retVars, loopVars, dbVars, refs, cref, pipeVars, upVars, ghostVars>>

\* cvector_free, then the SUBACK is sent and the aio finished (384-395).
ReplayDone(w) ==
  /\ aio[w] = "replay"
  /\ msg_ret[w] = {}
  /\ Step(w, "SEND", "finished", NoMsg, pipe_ct[w])
  /\ UNCHANGED <<retVars, loopVars, dbVars, refs, cref, pipeVars, upVars, ghostVars>>

Replay(w) == ReplaySetPipe(w) \/ ReplaySend(w) \/ ReplayDone(w)

\* SEND: the fanout state was already reset in WAIT; re-arm by proto.
OnSend(w) ==
  /\ Step(w, RecvState(w), RecvAio(w), NoMsg, {})
  /\ UNCHANGED <<retVars, loopVars, dbVars, refs, cref, upstream_out, ghostVars>>

\* BRIDGE: tag the received message with its type and run RECV on it.
OnBridge(w, m) ==
  /\ Step(w, "RECV", "finished", m, pipe_ct[w])
  /\ UNCHANGED <<retVars, loopVars, dbVars, refs, cref, upstream_out, ghostVars>>

(***************************************************************************)
(* Completions of a work item's aio                                        *)
(***************************************************************************)
\* broker() calls server_cb once on every work item (state INIT).
Start(w) ==
  /\ state[w] = "INIT"
  /\ aio[w] = "idle"
  /\ OnInit(w)
  /\ UNCHANGED <<retVars, loopVars, dbVars, refs, pipeVars, upVars, ghostVars>>

\* A receive completes with a message and server_cb runs in its state.
Deliver(w, m) ==
  \/ state[w] = "RECV" /\ OnRecv(w, m)
  \/ state[w] = "BRIDGE" /\ OnBridge(w, m)

\* The receive on the shared broker context takes the oldest packet of
\* some pipe: the transport keeps each pipe's order, not a global one.
RecvCtx(w) ==
  /\ aio[w] = "recv_ctx"
  /\ \E p \in Pipes :
       /\ inq[p] # <<>>
       /\ Deliver(w, Head(inq[p]))
       /\ inq' = [inq EXCEPT ![p] = Tail(@)]
  /\ UNCHANGED <<pstate, clean, will, sent, upq, upsent>>

RecvBridge(w) ==
  /\ aio[w] = "recv_bridge"
  /\ upq # <<>>
  /\ Deliver(w, Head(upq))
  /\ upq' = Tail(upq)
  /\ UNCHANGED <<pipeVars, upsent>>

\* nng_aio_finish queued the callback; it runs in the work item's state.
Resume(w) ==
  /\ aio[w] = "finished"
  /\ \/ state[w] = "RECV" /\ OnRecv(w, msg[w])
     \/ state[w] = "WAIT" /\ OnWait(w)
     \/ state[w] = "SEND" /\ OnSend(w)
  /\ UNCHANGED <<pipeVars, upq, upsent>>

(***************************************************************************)
(* The transport and the clients: the messages the broker core receives.  *)
(***************************************************************************)
\* A client connects; the transport hands the broker the CONNACK it built
\* and holds one conn_param reference.  A client keeps one pipe at a time;
\* pipes open in the order of their ids.
Connect(p) ==
  LET i == <<p, 0>> IN
  /\ pstate[p] = "idle"
  /\ \A q \in Pipes : ClientOf[q] = ClientOf[p] => pstate[q] # "open"
  /\ \A k \in DOMAIN PipeOrder :
       PipeOrder[k] = p => \A j \in 1 .. k - 1 : pstate[PipeOrder[j]] # "idle"
  /\ \E cs, wl \in BOOLEAN :
       /\ clean' = [clean EXCEPT ![p] = cs]
       /\ will' = [will EXCEPT ![p] = wl]
  /\ inq' = [inq EXCEPT ![p] = <<Mk(i, "CONNACK", p, "none", TRUE)>>]
  /\ refs' = [refs EXCEPT ![i] = 1]
  /\ cref' = [cref EXCEPT ![p] = 1]
  /\ pstate' = [pstate EXCEPT ![p] = "open"]
  /\ UNCHANGED <<retVars, loopVars, workVars, dbVars, sent, upVars, ghostVars>>

ClientPackets(p, i) ==
  {Mk(i, "PUBLISH", p, t, TRUE) : t \in Topics \ {SysTopic}}
  \cup {[Mk(i, "PUBLISH", p, t, TRUE) EXCEPT !.retain = TRUE] : t \in RetainTopics}
  \cup {Mk(i, "SUBSCRIBE", p, f, ok) :
          f \in Filters, ok \in IF AllowMalformed THEN BOOLEAN ELSE {TRUE}}
  \cup {Mk(i, "UNSUBSCRIBE", p, f, TRUE) : f \in Filters}
  \cup {Mk(i, c, p, "none", TRUE) : c \in ClientCmds}

ClientSend(p) ==
  LET i == <<p, sent[p] + 2>> IN
  /\ pstate[p] = "open"
  /\ sent[p] < MaxPkts
  /\ \E m \in ClientPackets(p, i) : inq' = [inq EXCEPT ![p] = Append(@, m)]
  /\ refs' = [refs EXCEPT ![i] = 1]
  /\ sent' = [sent EXCEPT ![p] = @ + 1]
  /\ UNCHANGED <<retVars, loopVars, workVars, dbVars, pstate, clean, will, cref, upVars, ghostVars>>

\* The connection ends, after a DISCONNECT packet or abruptly; the
\* transport then queues DISCONNECT_EV carrying the disconnect notification.
Close(p) ==
  LET i == <<p, MaxPkts + 2>>
      j == <<p, MaxPkts + 3>>
      ev(k) == Mk(k, "DISCONNECT_EV", p, SysTopic, TRUE)
  IN /\ pstate[p] = "open"
     /\ \E graceful \in BOOLEAN :
          /\ graceful /\ ~will[p] => AllowPlainDisconnect
          /\ IF graceful
               THEN /\ inq' = [inq EXCEPT ![p] = @ \o
                                 <<Mk(i, "DISCONNECT", p, "none", TRUE), ev(j)>>]
                    /\ refs' = [refs EXCEPT ![i] = 1, ![j] = 1]
               ELSE /\ inq' = [inq EXCEPT ![p] = Append(@, ev(j))]
                    /\ refs' = [refs EXCEPT ![j] = 1]
     /\ pstate' = [pstate EXCEPT ![p] = "closed"]
     /\ UNCHANGED <<retVars, loopVars, workVars, dbVars, clean, will, sent, cref, upVars, ghostVars>>

\* The upstream broker publishes on a topic of the bridge's sub_list.
UpstreamPublish ==
  LET i == <<Upstream, upsent>> IN
  /\ BridgeMode
  /\ upsent < MaxUp
  /\ \E t \in UpTopics : upq' = Append(upq, Mk(i, "PUBLISH", Upstream, t, TRUE))
  /\ refs' = [refs EXCEPT ![i] = 1]
  /\ upsent' = upsent + 1
  /\ UNCHANGED <<retVars, loopVars, workVars, dbVars, pipeVars, upstream_out, ghostVars>>

(***************************************************************************)
(* Specification                                                           *)
(***************************************************************************)
\* alloc_work / proto_work_init: every work item in INIT, empty fanout.
Init ==
  /\ state = [w \in Work |-> "INIT"]
  /\ aio = [w \in Work |-> "idle"]
  /\ msg = [w \in Work |-> NoMsg]
  /\ pipe_ct = [w \in Work |-> {}]
  /\ dbtree = [f \in Filters |-> {}]
  /\ dbhash = [p \in Pipes |-> {}]
  /\ cached = [c \in Clients |-> NoSession]
  /\ refs = [i \in MsgIds |-> 0]
  /\ pstate = [p \in Pipes |-> "idle"]
  /\ clean = [p \in Pipes |-> FALSE]
  /\ will = [p \in Pipes |-> FALSE]
  /\ sent = [p \in Pipes |-> 0]
  /\ inq = [p \in Pipes |-> <<>>]
  /\ cref = [p \in Pipes |-> 0]
  /\ upq = <<>>
  /\ upsent = 0
  /\ upstream_out = <<>>
  /\ retained = [t \in Topics |-> NoMsg]
  /\ mpipe = [i \in MsgIds |-> i[1]]
  /\ msg_ret = [w \in Work |-> {}]
  /\ pid = [w \in Work |-> NoMsg]
  /\ faults = {}
  /\ acked = [p \in Pipes |-> FALSE]
  /\ torn = [p \in Pipes |-> FALSE]

Next ==
  \/ \E w \in Work : Start(w) \/ RecvCtx(w) \/ RecvBridge(w) \/ Resume(w)
                    \/ Replay(w)
  \/ \E p \in Pipes : Connect(p) \/ ClientSend(p) \/ Close(p)
  \/ UpstreamPublish

\* Every completion's callback runs: the taskq threads run queued
\* callbacks and a receive pending while a message waits is served.
\* Clients and the upstream broker owe the broker nothing.
Fairness ==
  \A w \in Work : /\ WF_vars(Start(w))
                  /\ WF_vars(RecvCtx(w))
                  /\ WF_vars(RecvBridge(w))
                  /\ WF_vars(Resume(w))
                  /\ WF_vars(Replay(w))

Spec == Init /\ [][Next]_vars /\ Fairness

(***************************************************************************)
(* Properties                                                              *)
(***************************************************************************)
TypeOK ==
  /\ state \in [Work -> {"INIT", "RECV", "WAIT", "SEND", "BRIDGE"}]
  /\ aio \in [Work -> {"idle", "recv_ctx", "recv_bridge", "finished",
                       "replay", "replay_send"}]
  /\ msg \in [Work -> Msgs \cup {NoMsg}]
  /\ pipe_ct \in [Work -> SUBSET Pipes]
  /\ dbtree \in [Filters -> SUBSET Pipes]
  /\ dbhash \in [Pipes -> SUBSET Filters]
  /\ cached \in [Clients -> SUBSET Filters \cup {NoSession}]
  /\ refs \in [MsgIds -> Nat]
  /\ pstate \in [Pipes -> {"idle", "open", "closed"}]
  /\ inq \in [Pipes -> Seq(Msgs)]
  /\ cref \in [Pipes -> Int]
  /\ upq \in Seq(Msgs)
  /\ retained \in [Topics -> Msgs \cup {NoMsg}]
  /\ mpipe \in [MsgIds -> Pipes \cup {Upstream}]
  /\ msg_ret \in [Work -> SUBSET Msgs]
  /\ pid \in [Work -> Pipes \cup {NoMsg}]
  /\ faults \subseteq {"msg_use_after_free", "msg_double_free",
                       "cparam_use_after_free", "cparam_double_free",
                       "retained_misrouted"}

\* Spec 8.1, the pipe index is the exact dual of the subscription tree:
\* a pipe is listed under a filter in dbtree iff dbhash lists the filter
\* for the pipe.  SUBSCRIBE, UNSUBSCRIBE, session restore and the
\* DISCONNECT_EV teardown each update both sides.
IndexTreeDual ==
  \A p \in Pipes, f \in Filters : (p \in dbtree[f]) <=> (f \in dbhash[p])

\* Messages held by no one: every buffer with a reference is queued on a
\* pipe or the bridge connection, or is work->msg of a work item.
Held(i) ==
  \/ \E p \in Pipes : \E k \in DOMAIN inq[p] : inq[p][k].id = i
  \/ \E k \in DOMAIN upq : upq[k].id = i
  \/ \E w \in Work : msg[w] # NoMsg /\ msg[w].id = i
  \/ \E t \in Topics : retained[t] # NoMsg /\ retained[t].id = i

\* No nng_msg leaks: a buffer that still has a reference is reachable.
NoMsgLeak == \A i \in MsgIds : refs[i] > 0 => Held(i)

\* Spec 5/7: no nng_msg is read or freed after its last reference is gone
\* (the CONNACK clone before sending, the per-destination clones of the
\* fanout and the final free of the original).
MsgRefSafe == faults \cap {"msg_use_after_free", "msg_double_free"} = {}

\* Spec 4.D and 8, property 4: a retained message replayed for a SUBSCRIBE
\* goes to the subscribing pipe.  The loop of 371-384 sets the destination
\* with nng_msg_set_pipe on the buffer the retained store shares with every
\* other replay and with the PUBLISH fanout, then sends it; the pipe the
\* send reaches must be work->pid of that loop.
RetainedToSubscriber == "retained_misrouted" \notin faults

\* Spec 3/7: a conn_param is never read or released after its count reached
\* zero, the release on DISCONNECT_EV being the last one.
CparamSafe ==
  faults \cap {"cparam_use_after_free", "cparam_double_free"} = {}

\* A PROTO_MQTT_BROKER work item only ever receives on the broker context
\* and a PROTO_MQTT_BRIDGE work item only on the bridge context (INIT and
\* SEND re-arm by proto).
BridgeBinding ==
  \A w \in Work : /\ aio[w] = "recv_ctx" => w \in Workers
                  /\ aio[w] = "recv_bridge" => w \in BridgeWorkers

\* The subscription tree, the pipe index and the session cache together
\* implement the atomic subscription contract of SubIndex: a pipe is live
\* from its handled CONNACK to its handled DISCONNECT_EV, its
\* subscriptions are the dbtree entries naming it, and the session cache
\* is `cached`.  Every step of the work items (restore on CONNACK,
\* sub_ctx_handle, unsub_ctx_handle, cache and teardown on DISCONNECT_EV)
\* is one operation of the contract or leaves it unchanged; in particular a
\* reconnecting client's CONNACK (restore_session) is handled only after
\* its earlier persistent pipe's DISCONNECT_EV (cache_session), spec 8.5.
SubIndexAbs == INSTANCE SubIndex WITH
  subs <- [p \in Pipes |-> SubsOf(p)],
  live <- [p \in Pipes |-> acked[p] /\ ~torn[p]],
  persist <- [p \in Pipes |-> acked[p] /\ ~clean[p]],
  store <- cached

SubIndexRefined == SubIndexAbs!Spec

\* Spec S6: every queued packet is eventually taken and handled and every
\* work item ends waiting for a receive, none left in WAIT or SEND.
Idle ==
  /\ \A p \in Pipes : inq[p] = <<>>
  /\ upq = <<>>
  /\ \A w \in Work : aio[w] \in {"recv_ctx", "recv_bridge"}
Quiescence == <>[]Idle
=============================================================================
