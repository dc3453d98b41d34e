-------------------------------- MODULE Engine --------------------------------
(***************************************************************************)
(* The life of the program: main's TaskGroup with the tasks that may end   *)
(* it, engine/realtime_hub.py that some of them send through, and          *)
(* core/user_data_stream.py, which fetches a new key for each connection.  *)
(*                                                                         *)
(* One asyncio loop: a step of a task is what it does between two awaits.  *)
(* A task that fails makes the group cancel all others; main's finally     *)
(* follows when none of them runs.  The other modules model what the tasks *)
(* do while the program lives.                                             *)
(***************************************************************************)
EXTENDS Integers, FiniteSets

CONSTANTS
  Clients,    \* browser tabs
  Pages,      \* the hubs whose page they open
  Reports     \* order updates of the account, each sent once

VARIABLES
  life,       \* "up", "ending" while the group waits, "stopped", "closed"
  signalled,  \* shutdown_event
  running,    \* tasks of the group that have not ended
  failed,     \* tasks that ended with an exception
  conns,      \* per hub, _conns
  open,       \* per hub, the clients whose handler runs
  cast,       \* per producer, its call of broadcast
  stream,     \* UserDataStreamConsumer: where it is and its listen key
  missed,     \* reports that no connection delivered
  callbacks,  \* tasks of the execution report callback
  handled     \* reports the order manager has seen

hubs == <<conns, open, cast>>
reports == <<missed, callbacks, handled>>
engineVars == <<life, signalled, running, failed, hubs, stream, reports>>

HubOf == [detector |-> "lob", snapshots |-> "lob", fills |-> "portfolio", mtm |-> "portfolio"]
Producers == DOMAIN HubOf
Hubs == {"lob", "portfolio"}
Guarded == {"snapshots"}   \* lob_snapshot_writer catches what broadcast raises

(* "feed" stands for the tasks that only end when they are cancelled.      *)
Tasks == Producers \union {"watcher", "feed", "candles", "dbwriter", "api", "stream"}
Lingering == {"api", "stream"}   \* those that await in their finally

NotSending == [pc |-> "idle"]
NoKey == "none"

EngineTypeOK ==
  /\ life \in {"up", "ending", "stopped", "closed"} /\ signalled \in BOOLEAN
  /\ running \in SUBSET Tasks /\ failed \in SUBSET (Tasks \ running)
  /\ conns \in [Hubs -> SUBSET Clients] /\ open \in [Hubs -> SUBSET Clients]
  /\ \A p \in Producers : cast[p] = NotSending \/
       /\ cast[p].to \in Clients /\ cast[p].seen \subseteq Clients
       /\ cast[p].dead \subseteq Clients /\ cast[p].start \subseteq Clients
  /\ stream.pc \in {"key", "connect", "receive", "unwind", "backoff", "ended"}
  /\ stream.key \in {NoKey, "valid", "expired"}
  /\ {missed, callbacks, handled} \subseteq SUBSET Reports

EngineInit ==
  /\ life = "up" /\ signalled = FALSE
  /\ running = Tasks /\ failed = {}
  /\ conns = [h \in Hubs |-> {}] /\ open = [h \in Hubs |-> {}]
  /\ cast = [p \in Producers |-> NotSending]
  /\ stream = [pc |-> "key", key |-> NoKey, cancelled |-> FALSE]
  /\ missed = {} /\ callbacks = {} /\ handled = {}

-----------------------------------------------------------------------------
(* The task group                                                          *)

(* TaskGroup._abort: every other task is cancelled, which ends it at once  *)
(* unless its finally awaits something.  A cancellation that arrives while *)
(* the stream awaits its keepalive task is taken for that task's.          *)
Abort(dying) ==
  /\ life' = "ending"
  /\ running' = (running \ dying) \intersect Lingering
  /\ failed' = failed \union dying
  /\ cast' = [p \in Producers |-> NotSending]
  /\ stream' = IF stream.pc = "unwind" THEN stream ELSE [stream EXCEPT !.cancelled = TRUE]

(* While the group is ending, a failure of another task changes no more.   *)
Up(t) == life = "up" /\ t \in running

(* SIGTERM or SIGINT.                                                      *)
Signal ==
  /\ life \in {"up", "ending"} /\ ~signalled
  /\ signalled' = TRUE
  /\ UNCHANGED <<life, running, failed, hubs, stream, reports>>

(* _watch_shutdown raises CancelledError, which is how a cancelled task    *)
(* ends: the group cancels nothing.                                        *)
Watcher ==
  /\ signalled /\ Up("watcher")
  /\ running' = running \ {"watcher"}
  /\ UNCHANGED <<life, signalled, failed, hubs, stream, reports>>

(* The killswitch has fired: _portfolio_mtm_loop returns.                  *)
LoopReturns ==
  /\ Up("mtm") /\ cast["mtm"] = NotSending
  /\ running' = running \ {"mtm"}
  /\ UNCHANGED <<life, signalled, failed, hubs, stream, reports>>

(* A kline reaches its consumers as a dictionary: update_candle and        *)
(* _write_candle read a field that it has not.                             *)
Kline(t) ==
  /\ t \in {"candles", "dbwriter"} /\ Up(t)
  /\ Abort({t})
  /\ UNCHANGED <<signalled, conns, open, reports>>

-----------------------------------------------------------------------------
(* The hubs                                                                *)

(* _handle_ws, until its client leaves.                                    *)
Join(h, c) ==
  /\ Up("api") /\ h \in Pages /\ c \notin open[h]
  /\ open' = [open EXCEPT ![h] = @ \union {c}]
  /\ conns' = [conns EXCEPT ![h] = @ \union {c}]
  /\ UNCHANGED <<life, signalled, running, failed, cast, stream, reports>>

Leave(h, c) ==
  /\ c \in open[h]
  /\ open' = [open EXCEPT ![h] = @ \ {c}]
  /\ conns' = [conns EXCEPT ![h] = @ \ {c}]
  /\ UNCHANGED <<life, signalled, running, failed, cast, stream, reports>>

(* broadcast, as far as the first send.  Without connections it returns.   *)
Broadcast(p) ==
  LET h == HubOf[p] IN
  /\ Up(p) /\ cast[p] = NotSending
  /\ \E c \in conns[h] :
       cast' = [cast EXCEPT ![p] = [pc |-> "send", to |-> c, seen |-> {c}, dead |-> {},
                                    start |-> conns[h]]]
  /\ UNCHANGED <<life, signalled, running, failed, conns, open, stream, reports>>

Sending(p) == Up(p) /\ cast[p] # NotSending
Dead(p, ok) == IF ok THEN cast[p].dead ELSE cast[p].dead \union {cast[p].to}
SizeChanged(p) == Cardinality(conns[HubOf[p]]) # Cardinality(cast[p].start)
SendEnds(p, ok) == Sending(p) /\ ~SizeChanged(p) /\ (ok => cast[p].to \in open[HubOf[p]])

(* A send ends, to a closed connection with an exception; the next one.    *)
SendNext(p) == \E ok \in BOOLEAN :
  /\ SendEnds(p, ok)
  /\ \E c \in conns[HubOf[p]] \ cast[p].seen :
       cast' = [cast EXCEPT ![p] = [@ EXCEPT !.to = c, !.seen = @ \union {c}, !.dead = Dead(p, ok)]]
  /\ UNCHANGED <<life, signalled, running, failed, conns, open, stream, reports>>

(* The last send: connections that failed are dropped.  The iterator may   *)
(* have passed the place of one that took another's.                       *)
SentAll(p) == \E ok \in BOOLEAN :
  /\ SendEnds(p, ok)
  /\ cast[p].start \intersect conns[HubOf[p]] \subseteq cast[p].seen
  /\ conns' = [conns EXCEPT ![HubOf[p]] = @ \ Dead(p, ok)]
  /\ cast' = [cast EXCEPT ![p] = NotSending]
  /\ UNCHANGED <<life, signalled, running, failed, open, stream, reports>>

(* The set has grown or shrunk during the send: its iterator raises, here  *)
(* into a handler of the caller ...                                        *)
GuardedRaise(p) ==
  /\ p \in Guarded /\ Sending(p) /\ SizeChanged(p)
  /\ cast' = [cast EXCEPT ![p] = NotSending]
  /\ UNCHANGED <<life, signalled, running, failed, conns, open, stream, reports>>

(* ... and here out of the task.                                           *)
Raise(p) ==
  /\ p \notin Guarded /\ Sending(p) /\ SizeChanged(p)
  /\ Abort({p})
  /\ UNCHANGED <<signalled, conns, open, reports>>

(* The api task closes its server, and with it the handlers.               *)
ApiEnds ==
  /\ life = "ending" /\ "api" \in running
  /\ running' = running \ {"api"}
  /\ open' = [h \in Hubs |-> {}]
  /\ conns' = [h \in Hubs |-> conns[h] \ open[h]]
  /\ UNCHANGED <<life, signalled, failed, cast, stream, reports>>

-----------------------------------------------------------------------------
(* The user data stream                                                    *)

Streaming(pc) == "stream" \in running /\ stream.pc = pc /\ ~stream.cancelled
Goes(pc) == stream' = [stream EXCEPT !.pc = pc]
others == <<life, signalled, failed, hubs, reports>>

(* _obtain_listen_key: a key, no key, or 410, after which it returns.      *)
KeyObtained ==
  /\ Streaming("key")
  /\ stream' = [stream EXCEPT !.pc = "connect", !.key = "valid"]
  /\ UNCHANGED <<running, others>>

KeyRefused ==
  /\ Streaming("key")
  /\ stream' = [stream EXCEPT !.pc = "backoff", !.key = NoKey]
  /\ UNCHANGED <<running, others>>

KeyGone ==
  /\ Streaming("key")
  /\ Goes("ended") /\ running' = running \ {"stream"} /\ UNCHANGED others

Connected == Streaming("connect") /\ Goes("receive") /\ UNCHANGED <<running, others>>
ConnectFails == Streaming("connect") /\ Goes("backoff") /\ UNCHANGED <<running, others>>

(* A keepalive fails, or comes too late for a key of 60 minutes.           *)
Expires ==
  /\ stream.pc = "receive" /\ stream.key = "valid"
  /\ stream' = [stream EXCEPT !.key = "expired"]
  /\ UNCHANGED <<running, others>>

(* The account sends a report: to the connection, if it lives and its key  *)
(* is valid.  Each gets a callback task of its own.                        *)
Report(r) ==
  /\ life # "closed" /\ r \notin missed \union callbacks \union handled
  /\ IF Streaming("receive") /\ stream.key = "valid"
     THEN callbacks' = callbacks \union {r} /\ UNCHANGED missed
     ELSE missed' = missed \union {r} /\ UNCHANGED callbacks
  /\ UNCHANGED <<life, signalled, running, failed, hubs, stream, handled>>

Callback(r) ==
  /\ life # "closed" /\ r \in callbacks
  /\ callbacks' = callbacks \ {r} /\ handled' = handled \union {r}
  /\ UNCHANGED <<life, signalled, running, failed, hubs, stream, missed>>

(* The connection closes, or 90 s pass without a message: the keepalive    *)
(* task is cancelled and awaited.                                          *)
ConnectionEnds == Streaming("receive") /\ Goes("unwind") /\ UNCHANGED <<running, others>>
Unwound == Streaming("unwind") /\ Goes("backoff") /\ UNCHANGED <<running, others>>

SameKey ==   \* mutant: it connects again with the key it has
  /\ Streaming("backoff") /\ Goes(IF stream.key = NoKey THEN "key" ELSE "connect")
  /\ UNCHANGED <<running, others>>

Backoff == Streaming("backoff") /\ Goes("key") /\ UNCHANGED <<running, others>>

StreamCancelled ==
  /\ "stream" \in running /\ stream.cancelled
  /\ Goes("ended") /\ running' = running \ {"stream"} /\ UNCHANGED others

-----------------------------------------------------------------------------
(* The end                                                                 *)

AllOfThem == TRUE   \* mutant: main's finally does not wait for the group

GroupEmpty == running = {}

(* shutdown_handler                                                        *)
Stop ==
  /\ life = "ending" /\ GroupEmpty
  /\ life' = "stopped"
  /\ UNCHANGED <<signalled, running, failed, hubs, stream, reports>>

(* user_data_stream.stop deletes the key, if the exchange lets it; then    *)
(* the client is closed, and asyncio.run cancels the callbacks.            *)
Close ==
  /\ life = "stopped"
  /\ life' = "closed"
  /\ stream' = [stream EXCEPT !.key = NoKey]
  /\ callbacks' = {} /\ missed' = missed \union callbacks
  /\ UNCHANGED <<signalled, running, failed, hubs, handled>>

Ending == ApiEnds \/ StreamCancelled \/ Stop \/ Close

StreamTask ==
  \/ KeyObtained \/ KeyRefused \/ KeyGone \/ Connected \/ ConnectFails
  \/ ConnectionEnds \/ Unwound \/ Backoff

Hub == \E p \in Producers :
  Broadcast(p) \/ SendNext(p) \/ SentAll(p) \/ GuardedRaise(p) \/ Raise(p)

EngineNext ==
  \/ Signal \/ Watcher \/ LoopReturns \/ Kline("candles") \/ Kline("dbwriter")
  \/ \E h \in Hubs, c \in Clients : Join(h, c) \/ Leave(h, c)
  \/ Hub \/ StreamTask \/ Expires
  \/ \E r \in Reports : Report(r) \/ Callback(r)
  \/ Ending

(* The loop runs what is ready, and 90 s without a message pass when the   *)
(* key has expired.  That the exchange grants keys and connections again   *)
(* and again is assumed of it.                                             *)
Fairness ==
  /\ WF_engineVars(stream.key = "expired" /\ ConnectionEnds)
  /\ WF_engineVars(Watcher) /\ WF_engineVars(Ending)
  /\ WF_engineVars(Unwound) /\ WF_engineVars(Backoff)
  /\ SF_engineVars(KeyObtained) /\ SF_engineVars(Connected)

EngineSpec == EngineInit /\ [][EngineNext]_engineVars /\ Fairness

-----------------------------------------------------------------------------
(* Properties                                                              *)

(* main's finally: nothing the tasks use is closed under them, no handler  *)
(* is left in a hub, and no report is handed over after the key is gone.   *)
EndsInOrder ==
  /\ life \in {"stopped", "closed"} =>
       running = {} /\ \A h \in Hubs : conns[h] = {} /\ open[h] = {}
  /\ life = "closed" => callbacks = {} /\ stream.key = NoKey

(* "re-obtains a fresh listenKey on every reconnect": while the program is *)
(* up, a stream that lost its connection, or whose key expired under it,   *)
(* receives reports again, unless the endpoint is gone for good.           *)
Hears == stream.pc = "receive" /\ stream.key = "valid"
StreamReturns == ~Hears ~> (Hears \/ stream.pc = "ended" \/ life # "up")

(* main.py:169, "Cancel the TaskGroup when SIGTERM/SIGINT fires."  Refuted *)
(* by TLC: only the task that raises is gone.                              *)
SignalEndsTheProgram == signalled ~> life = "closed"

(* realtime_hub.py:11, "the engine runs normally whether or not the        *)
(* dashboard is open".  Refuted by TLC: one tab that opens or closes while *)
(* another is being sent to.                                               *)
DashboardIsHarmless == failed \intersect Producers = {}

(* TaskGroup: "the remaining tasks are cancelled" and awaited.  Refuted by *)
(* TLC: the stream's cancellation may be swallowed, and it runs on alone.  *)
FailureEndsTheProgram == life = "ending" ~> life = "closed"
=============================================================================
