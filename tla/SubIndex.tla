------------------------------ MODULE SubIndex ------------------------------
(***************************************************************************)
(* What the subscription tree, the pipe index and the session cache        *)
(* promise together (spec sections 3, 4.D, 4.G, 8.1 and 8.5), with every  *)
(* operation atomic: a connection is opened and may resume a cached        *)
(* session, subscribes and unsubscribes while it is open, and on teardown  *)
(* loses all its subscriptions, which are cached under its client-id if it *)
(* connected with clean-start = 0.                                         *)
(***************************************************************************)
CONSTANTS Pipes, Filters, ClientOf, NoSession

VARIABLES
  subs,     \* subs[p]: the filters pipe p is subscribed to
  live,     \* live[p]: p is connected and its CONNACK has been handled
  persist,  \* persist[p]: p connected with clean-start = 0
  store     \* store[c]: the cached session of client c, or NoSession

vars == <<subs, live, persist, store>>

Clients == {ClientOf[p] : p \in Pipes}

Init ==
  /\ subs = [p \in Pipes |-> {}]
  /\ live = [p \in Pipes |-> FALSE]
  /\ persist = [p \in Pipes |-> FALSE]
  /\ store = [c \in Clients |-> NoSession]

\* CONNACK: a persistent connection resumes the cached session; either way
\* the cache entry of the client is consumed.  A session belongs to the
\* client (section 3): a CONNECT of the client is handled only after its
\* earlier persistent connection was torn down and cached (section 8.5).
Open(p) ==
  LET c == ClientOf[p] IN
  /\ ~live[p]
  /\ \A q \in Pipes \ {p} : ClientOf[q] = c => ~(live[q] /\ persist[q])
  /\ live' = [live EXCEPT ![p] = TRUE]
  /\ \E keep \in BOOLEAN :
       /\ persist' = [persist EXCEPT ![p] = keep]
       /\ subs' = [subs EXCEPT ![p] =
                     IF keep /\ store[c] # NoSession THEN store[c] ELSE {}]
  /\ store' = [store EXCEPT ![c] = NoSession]

Subscribe(p, f) ==
  /\ live[p]
  /\ subs' = [subs EXCEPT ![p] = @ \cup {f}]
  /\ UNCHANGED <<live, persist, store>>

Unsubscribe(p, f) ==
  /\ live[p]
  /\ subs' = [subs EXCEPT ![p] = @ \ {f}]
  /\ UNCHANGED <<live, persist, store>>

\* Teardown: nothing stays subscribed; a persistent session is cached.
Close(p) ==
  /\ live[p]
  /\ live' = [live EXCEPT ![p] = FALSE]
  /\ subs' = [subs EXCEPT ![p] = {}]
  /\ store' = IF persist[p] THEN [store EXCEPT ![ClientOf[p]] = subs[p]]
                            ELSE store
  /\ UNCHANGED persist

Next ==
  \E p \in Pipes :
    \/ Open(p) \/ Close(p)
    \/ \E f \in Filters : Subscribe(p, f) \/ Unsubscribe(p, f)

Spec == Init /\ [][Next]_vars
=============================================================================
