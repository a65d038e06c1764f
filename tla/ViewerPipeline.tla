--------------------------- MODULE ViewerPipeline ---------------------------
(***************************************************************************)
(* From the state of the producer to the screen of a viewer:               *)
(* publish_smc_state (UI/publish_smc_state.py) writes a snapshot and       *)
(* publishes it; the broadcaster (UI_v2/smc_viewer_broadcaster.py, with    *)
(* viewer_state_builder.py) turns each publication into one state per      *)
(* symbol, saves all of them under one key and publishes each; a WebSocket *)
(* session (viewer_state_ws_server.py) sends what the key holds for its    *)
(* symbol and then what is published for it.  Redis pub/sub delivers only  *)
(* to those subscribed at that moment.                                     *)
(*                                                                         *)
(* A publication is the number of the producer's state it was built from.  *)
(* Of a viewer state the model keeps that number and the number of the     *)
(* state its events and zones come from, which the builder's cache may     *)
(* have carried over from an earlier one.                                  *)
(***************************************************************************)
EXTENDS Naturals, Sequences, TLC

CONSTANTS
    Symbols,
    Watched,      \* the symbols clients ask for
    Content,      \* of each version of the producer's state, what it has of a symbol
    MaxInbox,     \* bound on what waits in a subscriber's connection: the sender waits
    MaxCrashes    \* bound on restarts of the process

\* "none": it is not listed, or no viewer state can be built of it.
Kinds == {"none", "plain", "eventful"}
Versions == 1..Len(Content)

ASSUME ViewerAssumption ==
    /\ Watched \subseteq Symbols /\ Watched # {}
    /\ MaxInbox \in Nat \ {0} /\ MaxCrashes \in Nat
    /\ Content \in Seq([Symbols -> Kinds])

VARIABLES
    world,       \* version of the producer's state, 0 while it has none
    pub,         \* the publication in progress: where it is, and its version
    smcSnap,     \* the version of the producer's snapshot in Redis, 0 if there is none
    viewerSnap,  \* the viewer snapshot in Redis
    bc,          \* the broadcaster: where it is, its inbox, the states to publish
    mem,         \* snapshot_by_symbol
    cache,       \* cache_by_symbol: the version of last_events, last_zones_raw
    sess,        \* one WebSocket session
    shown,       \* what this session's client has been sent last
    crashes,
    setFailed,   \* some SET of the producer's snapshot has failed (history)
    ownSnap      \* this process has written the viewer snapshot (history)
producer == <<world, pub, smcSnap, setFailed>>
broadcaster == <<bc, mem, cache, viewerSnap, ownSnap>>
client == <<sess, shown>>
vars == <<producer, broadcaster, client, crashes>>

\* A viewer state: built from version v, its events from version events.
NoState == [v |-> 0, events |-> 0]
States == [v : {0} \cup Versions, events : {0} \cup Versions]
Idle == [pc |-> "idle", v |-> 0]
Unstarted == [pc |-> "load", inbox |-> <<>>, batch |-> {}]
Closed == [pc |-> "closed", sym |-> CHOOSE s \in Watched : TRUE,
           own |-> FALSE, subscribed |-> FALSE, inbox |-> <<>>]

Init ==
    /\ world = 0 /\ pub = Idle /\ smcSnap = 0
    /\ viewerSnap = [s \in Symbols |-> NoState]
    /\ bc = Unstarted
    /\ mem = [s \in Symbols |-> NoState] /\ cache = [s \in Symbols |-> 0]
    /\ sess = Closed /\ shown = NoState
    /\ crashes = 0 /\ setFailed = FALSE /\ ownSnap = FALSE

---------------------------------------------------------------------------
\* The producer.

Change ==
    /\ world + 1 \in Versions
    /\ world' = world + 1
    /\ UNCHANGED <<pub, smcSnap, setFailed, broadcaster, client, crashes>>

\* publish_smc_state takes the assets and builds the payload without an await.
BeginPublication ==
    /\ pub.pc = "idle" /\ world > 0
    /\ pub' = [pc |-> "set", v |-> world]
    /\ UNCHANGED <<world, smcSnap, setFailed, broadcaster, client, crashes>>

\* _set_snapshot swallows a SET that raises.  An EXPIRE that raises leaves the
\* snapshot without its TTL: it then is one that does not Expire.
SetSnapshot(ok) ==
    /\ pub.pc = "set"
    /\ pub' = [pub EXCEPT !.pc = "publish"]
    /\ smcSnap' = IF ok THEN pub.v ELSE smcSnap
    /\ setFailed' = (setFailed \/ ~ok)
    /\ UNCHANGED <<world, broadcaster, client, crashes>>

Listening == bc.pc \in {"listen", "save", "publish"}

\* Mutant: the publication does not wait for the snapshot
Ready_Early == pub.pc # "idle"

Ready == pub.pc = "publish"

\* PUBLISH reaches the broadcaster if it is subscribed; it may raise.
Publish(ok) ==
    /\ Ready
    /\ pub' = IF pub.pc = "publish" THEN Idle ELSE pub
    /\ Len(bc.inbox) < MaxInbox
    /\ bc' = IF ok /\ Listening THEN [bc EXCEPT !.inbox = Append(@, pub.v)] ELSE bc
    /\ UNCHANGED <<world, smcSnap, setFailed, mem, cache, viewerSnap, ownSnap, client, crashes>>

\* UI_SMC_SNAPSHOT_TTL_SEC passes without another publication.
Expire ==
    /\ smcSnap > 0
    /\ smcSnap' = 0
    /\ UNCHANGED <<world, pub, setFailed, broadcaster, client, crashes>>

---------------------------------------------------------------------------
\* The broadcaster.

\* The symbols a state is built for; an asset that raises is skipped.
Built(v) == {s \in Symbols : Content[v][s] # "none"}

\* Mutant: events that are missing are not carried over
Events_Fresh(v, s) == IF Content[v][s] = "eventful" THEN v ELSE 0

\* _persist_events and _persist_zones
Events(v, s) == IF Content[v][s] = "eventful" THEN v ELSE cache[s]

\* build_viewer_states_from_payload and snapshot_by_symbol.update
Remember(v) ==
    /\ mem' = [s \in Symbols |-> IF s \in Built(v)
                                 THEN [v |-> v, events |-> Events(v, s)] ELSE mem[s]]
    /\ cache' = [s \in Symbols |-> IF s \in Built(v) THEN Events(v, s) ELSE cache[s]]

\* load_initial_snapshot up to its save; a GET that raises finds nothing.
Load(ok) ==
    LET v == smcSnap
        useful == ok /\ v > 0 /\ Built(v) # {}
    IN /\ bc.pc = "load"
       /\ IF useful THEN Remember(v) ELSE UNCHANGED <<mem, cache>>
       /\ bc' = [bc EXCEPT !.pc = IF useful THEN "loadsave" ELSE "subscribe"]
       /\ UNCHANGED <<producer, viewerSnap, ownSnap, client, crashes>>

\* _save_viewer_snapshot writes all of memory under one key, or fails silently.
Save(ok) ==
    /\ bc.pc \in {"loadsave", "save"}
    /\ bc' = [bc EXCEPT !.pc = IF @ = "save" THEN "publish" ELSE "subscribe"]
    /\ viewerSnap' = IF ok THEN mem ELSE viewerSnap
    /\ ownSnap' = (ownSnap \/ ok)
    /\ UNCHANGED <<producer, mem, cache, client, crashes>>

\* subscribe, now or after a back-off; one that raises backs off again.
Subscribe ==
    /\ bc.pc = "subscribe"
    /\ bc' = [bc EXCEPT !.pc = "listen"]
    /\ UNCHANGED <<producer, mem, cache, viewerSnap, ownSnap, client, crashes>>

\* The connection is lost, and what waited in it.
Lose ==
    /\ bc.pc = "listen"
    /\ bc' = [bc EXCEPT !.pc = "subscribe", !.inbox = <<>>]
    /\ UNCHANGED <<producer, mem, cache, viewerSnap, ownSnap, client, crashes>>

\* Mutant: only states that differ from the last ones are published
ToSend_Changed(v) == {s \in Built(v) : mem[s] # [v |-> v, events |-> Events(v, s)]}

ToSend(v) == Built(v)

\* _process_smc_payload_with_metrics up to the save.
Receive ==
    /\ bc.pc = "listen" /\ bc.inbox # <<>>
    /\ LET v == Head(bc.inbox)
       IN /\ Remember(v)
          /\ bc' = [pc |-> IF ToSend(v) = {} THEN "listen" ELSE "save",
                    inbox |-> Tail(bc.inbox), batch |-> ToSend(v)]
    /\ UNCHANGED <<producer, viewerSnap, ownSnap, client, crashes>>

\* _publish_viewer_states for one symbol; it may raise, and the next one follows.
Send(s, ok) ==
    /\ bc.pc = "publish" /\ s \in bc.batch
    /\ LET rest == bc.batch \ {s}
       IN bc' = [bc EXCEPT !.batch = rest, !.pc = IF rest = {} THEN "listen" ELSE @]
    /\ Len(sess.inbox) < MaxInbox
    /\ sess' = IF ok /\ sess.subscribed
               THEN [sess EXCEPT !.inbox = Append(@, [sym |-> s, state |-> mem[s]])] ELSE sess
    /\ UNCHANGED <<producer, mem, cache, viewerSnap, ownSnap, shown, crashes>>

---------------------------------------------------------------------------
\* A session.

\* Mutant: the session subscribes before it reads the snapshot
Connected_Subscribed(s) == [Closed EXCEPT !.pc = "get", !.sym = s, !.subscribed = TRUE]

Connected(s) == [Closed EXCEPT !.pc = "get", !.sym = s]

Connect(s) ==
    /\ sess.pc = "closed"
    /\ sess' = Connected(s)
    /\ UNCHANGED <<shown, producer, broadcaster, crashes>>

\* _send_initial_state: ViewerStateStore.get_state, where a GET that raises finds
\* nothing, and the send.  Without a state it sends null, which the client ignores.
SendInitial(ok) ==
    /\ sess.pc = "get"
    /\ sess' = [sess EXCEPT !.pc = "subscribe", !.own = ok /\ ownSnap]
    /\ shown' = IF ok THEN viewerSnap[sess.sym] ELSE NoState
    /\ UNCHANGED <<producer, broadcaster, crashes>>

\* _stream_updates subscribes.
Stream ==
    /\ sess.pc = "subscribe"
    /\ sess' = [sess EXCEPT !.pc = "stream", !.subscribed = TRUE]
    /\ UNCHANGED <<shown, producer, broadcaster, crashes>>

Mine == Head(sess.inbox).sym = sess.sym

\* An update is sent on if it is for the session's symbol; a send may fail.
Update(ok) ==
    /\ sess.pc = "stream" /\ sess.inbox # <<>>
    /\ sess' = [sess EXCEPT !.inbox = Tail(@), !.own = @ \/ (ok /\ Mine)]
    /\ shown' = IF ok /\ Mine THEN Head(sess.inbox).state ELSE shown
    /\ UNCHANGED <<producer, broadcaster, crashes>>

\* The session's own connection to Redis is lost; the client stays connected.
Miss ==
    /\ sess.pc = "stream" /\ sess.inbox # <<>>
    /\ sess' = [sess EXCEPT !.inbox = <<>>]
    /\ UNCHANGED <<shown, producer, broadcaster, crashes>>

\* The client leaves, a send finds it gone, or the subscription raises.
Disconnect ==
    /\ sess.pc # "closed"
    /\ sess' = Closed /\ shown' = NoState
    /\ UNCHANGED <<producer, broadcaster, crashes>>

\* The process restarts; Redis keeps its keys.  The producer builds its state
\* anew, which is a version of its own.
Restart ==
    /\ crashes < MaxCrashes /\ world + 1 \in Versions
    /\ crashes' = crashes + 1 /\ world' = world + 1
    /\ pub' = Idle /\ bc' = Unstarted /\ sess' = Closed /\ shown' = NoState
    /\ mem' = [s \in Symbols |-> NoState] /\ cache' = [s \in Symbols |-> 0]
    /\ ownSnap' = FALSE
    /\ UNCHANGED <<smcSnap, setFailed, viewerSnap>>

Next ==
    \/ Change \/ BeginPublication \/ Expire
    \/ Subscribe \/ Lose \/ Receive
    \/ \E ok \in BOOLEAN :
          \/ SetSnapshot(ok) \/ Publish(ok) \/ Load(ok) \/ Save(ok)
          \/ \E s \in Symbols : Send(s, ok)
          \/ SendInitial(ok) \/ Update(ok)
    \/ \E s \in Watched : Connect(s)
    \/ Stream \/ Miss \/ Disconnect
    \/ Restart

Spec == Init /\ [][Next]_vars

\* The three tasks run on.  A command that is given to Redis, or an update that
\* is sent to the client, again and again, gets through again and again.
Fairness ==
    /\ WF_vars(BeginPublication \/ \E ok \in BOOLEAN : SetSnapshot(ok) \/ Publish(ok))
    /\ WF_vars(Subscribe \/ Receive
               \/ \E ok \in BOOLEAN : Load(ok) \/ Save(ok) \/ \E s \in Symbols : Send(s, ok))
    /\ WF_vars(Stream \/ \E ok \in BOOLEAN : SendInitial(ok) \/ Update(ok))
    /\ SF_vars(Publish(TRUE)) /\ SF_vars(Save(TRUE))
    /\ \A s \in Symbols : SF_vars(Send(s, TRUE))
    /\ SF_vars(Update(TRUE) /\ Mine)
FairSpec == Spec /\ Fairness

---------------------------------------------------------------------------
\* What a session shows never goes back to an older version: it reads the
\* snapshot before it subscribes, and the broadcaster writes the snapshot
\* before it publishes.
SessionForward ==
    [][sess.pc # "closed" /\ sess'.pc # "closed" => shown'.v >= shown.v]_vars

\* Events and zones on the screen neither vanish nor become older ones when a
\* publication has none (viewer_state_builder.py:332), as long as what is shown
\* comes from this process: the cache does not outlive it.
NoFlicker ==
    [][sess.pc # "closed" /\ sess'.pc # "closed" /\ sess.own
          => shown'.events >= shown.events]_vars

\* Over restarts too, the viewer snapshot never replaces a state by an older one,
\* provided the producer's snapshot could always be written.
SnapshotForward ==
    [][\A s \in Symbols : setFailed \/ viewerSnap'[s] = NoState
                             \/ viewerSnap'[s].v >= viewerSnap[s].v]_vars

\* Once the broadcaster's subscription holds and the producer's state stays the
\* same, the viewer snapshot shows it for good, whatever was lost before; and a
\* session that stays open shows it too, though it misses what is published
\* between its first read and its subscription.
ViewersCatchUp ==
    /\ <>[]Listening
        => <>[](world > 0 => \A s \in Built(world) : viewerSnap[s].v = world)
    /\ <>[](Listening /\ sess.pc = "stream")
        => <>[](world > 0 /\ sess.sym \in Built(world) => shown.v = world)
===========================================================================
