------------------------ MODULE ViewerPipelineProofs ------------------------
(* Theorems about ViewerPipeline, for every value of its constants: what a *)
(* session shows and what the viewer snapshot holds only move forward.     *)
EXTENDS ViewerPipeline, SequenceTheorems, TLAPS

Shots == [v : Nat, events : Nat]
Waiting == [sym : Symbols, state : Shots]

(* Versions are kept apart from the length of Content: the argument is     *)
(* about their order only.                                                 *)
Typed ==
  /\ world \in Nat /\ smcSnap \in Nat
  /\ pub \in [pc : {"idle", "set", "publish"}, v : Nat]
  /\ viewerSnap \in [Symbols -> Shots] /\ mem \in [Symbols -> Shots]
  /\ cache \in [Symbols -> Nat]
  /\ bc \in [pc : {"load", "loadsave", "subscribe", "listen", "save", "publish"},
             inbox : Seq(Nat), batch : SUBSET Symbols]
  /\ sess \in [pc : {"closed", "get", "subscribe", "stream"}, sym : Watched,
               own : BOOLEAN, subscribed : BOOLEAN, inbox : Seq(Waiting)]
  /\ shown \in Shots
  /\ setFailed \in BOOLEAN /\ ownSnap \in BOOLEAN

(* A session gets nothing before it subscribes and has shown nothing       *)
(* before it read the snapshot; a process begins with an empty memory.     *)
Begun ==
  /\ sess.pc # "stream" => sess.inbox = << >> /\ ~sess.subscribed
  /\ sess.pc \in {"closed", "get"} => shown = NoState /\ ~sess.own
  /\ bc.pc \in {"load", "loadsave", "subscribe"} => bc.inbox = << >>
  /\ bc.pc = "load" => bc.batch = {} /\ \A s \in Symbols : mem[s] = NoState /\ cache[s] = 0

(* Publications wait in the order of their versions.                       *)
InOrder ==
  /\ smcSnap <= world
  /\ pub.pc # "idle" => smcSnap <= pub.v /\ pub.v <= world
  /\ \A i \in DOMAIN bc.inbox :
       /\ bc.inbox[i] <= world
       /\ pub.pc # "idle" => bc.inbox[i] <= pub.v
  /\ \A i, j \in DOMAIN bc.inbox : i <= j => bc.inbox[i] <= bc.inbox[j]

(* Nothing kept or shown anywhere is newer than version v.                 *)
Before(v) ==
  /\ \A s \in Symbols : viewerSnap[s].v <= v /\ mem[s].v <= v /\ cache[s] <= v
  /\ shown.v <= v
  /\ \A i \in DOMAIN sess.inbox : sess.inbox[i].state.v <= v

(* What is still to come is no older than what has arrived.                *)
Coming(v) ==
  \/ v = world
  \/ pub.pc # "idle" /\ v = pub.v
  \/ \E i \in DOMAIN bc.inbox : v = bc.inbox[i]

NothingNewer == \A v \in Nat : Coming(v) => Before(v)

(* What the session has to itself: the updates of its symbol.              *)
For(i) == sess.inbox[i].sym = sess.sym

(* A state about to be published is no older than what can be seen of its  *)
(* symbol.                                                                 *)
BatchNewest ==
  \A s \in bc.batch :
    /\ viewerSnap[s].v <= mem[s].v
    /\ s = sess.sym =>
         /\ shown.v <= mem[s].v
         /\ \A i \in DOMAIN sess.inbox : For(i) => sess.inbox[i].state.v <= mem[s].v

(* The updates that wait for a session continue what it shows.             *)
SessionInOrder ==
  \A i \in DOMAIN sess.inbox : For(i) =>
    /\ shown.v <= sess.inbox[i].state.v
    /\ \A j \in DOMAIN sess.inbox :
         i <= j /\ For(j) => sess.inbox[i].state.v <= sess.inbox[j].state.v

(* The same of the events, within one process.                             *)
EventsInOrder ==
  /\ \A s \in Symbols : /\ mem[s].events = cache[s]
                        /\ ownSnap => viewerSnap[s].events <= cache[s]
  /\ sess.own => shown.events <= cache[sess.sym]
  /\ \A i \in DOMAIN sess.inbox : For(i) =>
       /\ sess.inbox[i].state.events <= cache[sess.sym]
       /\ sess.own => shown.events <= sess.inbox[i].state.events
       /\ \A j \in DOMAIN sess.inbox :
            i <= j /\ For(j) => sess.inbox[i].state.events <= sess.inbox[j].state.events

(* While its SETs succeed the producer's snapshot is as new as anything    *)
(* made from it, or has expired; so memory is never behind the viewer's.   *)
SnapshotNewest ==
  ~setFailed =>
    /\ \/ smcSnap = 0
       \/ /\ \A s \in Symbols : viewerSnap[s].v <= smcSnap /\ mem[s].v <= smcSnap
          /\ \A i \in DOMAIN bc.inbox : bc.inbox[i] <= smcSnap
    /\ pub.pc = "publish" => smcSnap \in {0, pub.v}
    /\ \A s \in Symbols : mem[s] = NoState \/ viewerSnap[s].v <= mem[s].v

PipelineInv ==
  /\ Typed /\ Begun /\ InOrder /\ NothingNewer
  /\ BatchNewest /\ SessionInOrder /\ EventsInOrder /\ SnapshotNewest
-----------------------------------------------------------------------------
(* What a sequence is after an element is added, and after one is taken.   *)
LEMMA Appended ==
  ASSUME NEW S, NEW q \in Seq(S), NEW x \in S
  PROVE  /\ Append(q, x) \in Seq(S)
         /\ DOMAIN q = 1 .. Len(q) /\ Len(q) \in Nat
         /\ DOMAIN Append(q, x) = 1 .. Len(q) + 1
         /\ Append(q, x)[Len(q) + 1] = x
         /\ \A i \in DOMAIN q : Append(q, x)[i] = q[i]
  OBVIOUS

LEMMA Taken ==
  ASSUME NEW S, NEW q \in Seq(S), q # << >>
  PROVE  /\ Tail(q) \in Seq(S) /\ Head(q) \in S /\ Head(q) = q[1]
         /\ DOMAIN q = 1 .. Len(q) /\ Len(q) \in Nat \ {0}
         /\ DOMAIN Tail(q) = 1 .. Len(q) - 1
         /\ \A i \in DOMAIN Tail(q) : i + 1 \in DOMAIN q /\ Tail(q)[i] = q[i + 1]
  BY HeadTailProperties

LEMMA ClosedType ==
  \E s \in Watched :
    Closed = [pc |-> "closed", sym |-> s, own |-> FALSE,
              subscribed |-> FALSE, inbox |-> << >>]
  BY ViewerAssumption DEF Closed

(* What the builder makes of a version is a state, of that version or as   *)
(* it was.                                                                 *)
LEMMA Remembered ==
  ASSUME Typed, NEW v \in Nat, Remember(v)
  PROVE  /\ mem' \in [Symbols -> Shots] /\ cache' \in [Symbols -> Nat]
         /\ \A s \in Symbols :
              IF s \in Built(v)
              THEN /\ mem'[s] = [v |-> v, events |-> cache'[s]]
                   /\ cache'[s] \in {v, cache[s]}
              ELSE mem'[s] = mem[s] /\ cache'[s] = cache[s]
<1>1. \A s \in Symbols : Events(v, s) \in {v, cache[s]} /\ Events(v, s) \in Nat
  BY DEF Typed, Events
<1> QED
  BY <1>1 DEF Typed, Remember, Shots
-----------------------------------------------------------------------------
(* Everything holds when the first process starts.                         *)
LEMMA InvInit == Init => PipelineInv
<1> SUFFICES ASSUME Init PROVE PipelineInv
  OBVIOUS
<1>0. PICK s \in Watched : Closed = [pc |-> "closed", sym |-> s, own |-> FALSE,
                                    subscribed |-> FALSE, inbox |-> << >>]
  BY ClosedType
<1>1. Typed
  <2>1. << >> \in Seq(Waiting) /\ << >> \in Seq(Nat)
    BY EmptySeq
  <2>2. sess \in [pc : {"closed", "get", "subscribe", "stream"}, sym : Watched,
                 own : BOOLEAN, subscribed : BOOLEAN, inbox : Seq(Waiting)]
    BY <1>0, <2>1 DEF Init
  <2> QED
    BY <2>1, <2>2 DEF Init, Typed, Idle, Unstarted, NoState, Shots
<1>2. Begun /\ InOrder /\ NothingNewer
  BY <1>0 DEF Init, Begun, InOrder, NothingNewer, Coming, Before, Idle, Unstarted, NoState
<1>3. BatchNewest /\ SessionInOrder /\ EventsInOrder /\ SnapshotNewest
  BY <1>0 DEF Init, BatchNewest, SessionInOrder, EventsInOrder, SnapshotNewest,
                    Idle, Unstarted, NoState
<1> QED
  BY <1>1, <1>2, <1>3 DEF PipelineInv

(* Every step keeps the types.                                             *)
LEMMA TypedStep ==
  ASSUME Typed, [Next]_vars
  PROVE  Typed'
<1> USE DEF Typed, producer, broadcaster, client
<1>0. Closed \in [pc : {"closed"}, sym : Watched, own : BOOLEAN, subscribed : BOOLEAN,
                 inbox : Seq(Waiting)]
  BY ClosedType, EmptySeq
<1>1. ASSUME Change PROVE Typed'
  BY <1>1 DEF Change, Versions
<1>2. ASSUME BeginPublication PROVE Typed'
  BY <1>2 DEF BeginPublication
<1>3. ASSUME Expire PROVE Typed'
  BY <1>3 DEF Expire
<1>4. ASSUME Subscribe PROVE Typed'
  BY <1>4 DEF Subscribe
<1>5. ASSUME Lose PROVE Typed'
  BY <1>5, EmptySeq DEF Lose
<1>6. ASSUME Receive PROVE Typed'
  <2>1. Tail(bc.inbox) \in Seq(Nat) /\ Head(bc.inbox) \in Nat
    BY <1>6, Taken DEF Receive
  <2>2. mem' \in [Symbols -> Shots] /\ cache' \in [Symbols -> Nat]
    BY <1>6, <2>1, Remembered DEF Receive
  <2>3. ToSend(Head(bc.inbox)) \subseteq Symbols
    BY DEF ToSend, Built
  <2> QED
    BY <1>6, <2>1, <2>2, <2>3 DEF Receive
<1>7. ASSUME NEW ok \in BOOLEAN, SetSnapshot(ok) PROVE Typed'
  BY <1>7 DEF SetSnapshot
<1>8. ASSUME NEW ok \in BOOLEAN, Publish(ok) PROVE Typed'
  <2>1. Append(bc.inbox, pub.v) \in Seq(Nat)
    BY Appended
  <2> QED
    BY <1>8, <2>1 DEF Publish, Idle
<1>9. ASSUME NEW ok \in BOOLEAN, Load(ok) PROVE Typed'
  <2>1. mem' \in [Symbols -> Shots] /\ cache' \in [Symbols -> Nat]
    BY <1>9, Remembered DEF Load
  <2> QED
    BY <1>9, <2>1 DEF Load
<1>10. ASSUME NEW ok \in BOOLEAN, Save(ok) PROVE Typed'
  BY <1>10 DEF Save
<1>11. ASSUME NEW ok \in BOOLEAN, NEW s \in Symbols, Send(s, ok) PROVE Typed'
  <2>1. [sym |-> s, state |-> mem[s]] \in Waiting
    BY DEF Waiting
  <2>2. Append(sess.inbox, [sym |-> s, state |-> mem[s]]) \in Seq(Waiting)
    BY <2>1, Appended
  <2> QED
    BY <1>11, <2>2 DEF Send
<1>12. ASSUME NEW ok \in BOOLEAN, SendInitial(ok) PROVE Typed'
  <2>1. sess.sym \in Symbols
    BY ViewerAssumption
  <2> QED
    BY <1>12, <2>1 DEF SendInitial, NoState, Shots
<1>13. ASSUME NEW ok \in BOOLEAN, Update(ok) PROVE Typed'
  <2>1. Tail(sess.inbox) \in Seq(Waiting) /\ Head(sess.inbox) \in Waiting
    BY <1>13, Taken DEF Update
  <2>2. Mine \in BOOLEAN
    BY DEF Mine
  <2> QED
    BY <1>13, <2>1, <2>2 DEF Update, Waiting
<1>14. ASSUME NEW s \in Watched, Connect(s) PROVE Typed'
  <2>1. sess' \in [pc : {"closed", "get", "subscribe", "stream"}, sym : Watched,
                  own : BOOLEAN, subscribed : BOOLEAN, inbox : Seq(Waiting)]
    BY <1>14, <1>0, EmptySeq DEF Connect, Connected
  <2> QED
    BY <1>14, <2>1 DEF Connect
<1>15. ASSUME Stream PROVE Typed'
  BY <1>15 DEF Stream
<1>16. ASSUME Miss PROVE Typed'
  BY <1>16, EmptySeq DEF Miss
<1>17. ASSUME Disconnect PROVE Typed'
  BY <1>17, <1>0 DEF Disconnect, NoState, Shots
<1>18. ASSUME Restart PROVE Typed'
  <2>1. NoState \in Shots
    BY DEF NoState, Shots
  <2>2. /\ shown' = NoState /\ ownSnap' = FALSE /\ world' = world + 1
        /\ mem' = [s \in Symbols |-> NoState] /\ cache' = [s \in Symbols |-> 0]
        /\ UNCHANGED <<smcSnap, setFailed, viewerSnap>>
    BY <1>18 DEF Restart
  <2>3. bc' = Unstarted /\ pub' = Idle /\ sess' = Closed
    BY <1>18 DEF Restart
  <2>4. /\ bc' \in [pc : {"load", "loadsave", "subscribe", "listen", "save", "publish"},
                    inbox : Seq(Nat), batch : SUBSET Symbols]
        /\ pub' \in [pc : {"idle", "set", "publish"}, v : Nat]
    BY <2>3, EmptySeq DEF Unstarted, Idle
  <2>5. sess' \in [pc : {"closed", "get", "subscribe", "stream"}, sym : Watched,
                  own : BOOLEAN, subscribed : BOOLEAN, inbox : Seq(Waiting)]
    BY <1>0, <2>3
  <2>6. mem' \in [Symbols -> Shots] /\ cache' \in [Symbols -> Nat]
    BY <2>1, <2>2
  <2>7. /\ world' \in Nat /\ smcSnap' \in Nat /\ viewerSnap' \in [Symbols -> Shots]
        /\ shown' \in Shots
    BY <2>1, <2>2
  <2>8. setFailed' \in BOOLEAN /\ ownSnap' \in BOOLEAN
    BY <2>2, Zenon
  <2> QED
    BY <2>4, <2>5, <2>6, <2>7, <2>8
<1>19. ASSUME UNCHANGED vars PROVE Typed'
  BY <1>19 DEF vars
<1> QED
  BY <1>1, <1>2, <1>3, <1>4, <1>5, <1>6, <1>7, <1>8, <1>9, <1>10, <1>11, <1>12, <1>13,
     <1>14, <1>15, <1>16, <1>17, <1>18, <1>19 DEF Next

(* Every step keeps the beginnings.                                        *)
LEMMA BegunStep ==
  ASSUME Typed, Begun, [Next]_vars
  PROVE  Begun'
<1> USE DEF Typed, Begun, producer, broadcaster, client
<1>0. PICK c \in Watched : Closed = [pc |-> "closed", sym |-> c, own |-> FALSE,
                                    subscribed |-> FALSE, inbox |-> << >>]
  BY ClosedType
<1>1. ASSUME UNCHANGED <<bc, mem, cache, sess, shown>> PROVE Begun'
  BY <1>1
<1>2. Change \/ BeginPublication \/ Expire \/ (\E ok \in BOOLEAN : SetSnapshot(ok))
      \/ UNCHANGED vars
        => UNCHANGED <<bc, mem, cache, sess, shown>>
  BY DEF Change, BeginPublication, Expire, SetSnapshot, vars
<1>3. ASSUME Subscribe \/ Lose \/ Receive \/ \E ok \in BOOLEAN : Load(ok) \/ Save(ok)
      PROVE Begun'
  <2>1. CASE Subscribe \/ Lose
    BY <2>1 DEF Subscribe, Lose
  <2>2. CASE Receive
    BY <2>2 DEF Receive
  <2>3. ASSUME NEW ok \in BOOLEAN, Load(ok) PROVE Begun'
    BY <2>3 DEF Load
  <2>4. ASSUME NEW ok \in BOOLEAN, Save(ok) PROVE Begun'
    BY <2>4 DEF Save
  <2> QED
    BY <1>3, <2>1, <2>2, <2>3, <2>4
<1>4. ASSUME NEW ok \in BOOLEAN, Publish(ok) PROVE Begun'
  BY <1>4 DEF Publish, Listening
<1>5. ASSUME NEW ok \in BOOLEAN, NEW s \in Symbols, Send(s, ok) PROVE Begun'
  <2>1. sess.subscribed => sess.pc = "stream"
    OBVIOUS
  <2> QED
    BY <1>5, <2>1 DEF Send
<1>6. ASSUME NEW ok \in BOOLEAN, SendInitial(ok) PROVE Begun'
  BY <1>6 DEF SendInitial
<1>7. ASSUME NEW ok \in BOOLEAN, Update(ok) PROVE Begun'
  BY <1>7 DEF Update
<1>8. ASSUME NEW s \in Watched, Connect(s) PROVE Begun'
  BY <1>0, <1>8 DEF Connect, Connected
<1>9. ASSUME Stream \/ Miss PROVE Begun'
  BY <1>9 DEF Stream, Miss
<1>10. ASSUME Disconnect PROVE Begun'
  BY <1>0, <1>10 DEF Disconnect
<1>11. ASSUME Restart PROVE Begun'
  BY <1>0, <1>11 DEF Restart, Unstarted
<1> QED
  BY <1>1, <1>2, <1>3, <1>4, <1>5, <1>6, <1>7, <1>8, <1>9, <1>10, <1>11 DEF Next

(* Every step keeps publications in order.                                 *)
LEMMA InOrderStep ==
  ASSUME Typed, Begun, InOrder, [Next]_vars
  PROVE  InOrder'
<1> USE DEF Typed, Begun, InOrder, producer, broadcaster, client
<1>1. ASSUME UNCHANGED <<world, pub, smcSnap, bc>> PROVE InOrder'
  BY <1>1
<1>2. (\E ok \in BOOLEAN : SendInitial(ok) \/ Update(ok)) \/ (\E s \in Watched : Connect(s))
      \/ Stream \/ Miss \/ Disconnect \/ UNCHANGED vars
        => UNCHANGED <<world, pub, smcSnap, bc>>
  BY DEF SendInitial, Update, Connect, Stream, Miss, Disconnect, vars
<1>3. ASSUME UNCHANGED <<world, pub, smcSnap>>, bc'.inbox = bc.inbox \/ bc'.inbox = << >>
      PROVE  InOrder'
  BY <1>3
<1>4. Subscribe \/ Lose \/ (\E ok \in BOOLEAN : Load(ok) \/ Save(ok) \/ \E s \in Symbols : Send(s, ok))
        => UNCHANGED <<world, pub, smcSnap>> /\ (bc'.inbox = bc.inbox \/ bc'.inbox = << >>)
  BY DEF Subscribe, Lose, Load, Save, Send
<1>5. ASSUME Change \/ BeginPublication \/ Expire \/ \E ok \in BOOLEAN : SetSnapshot(ok)
      PROVE  InOrder'
  <2>1. bc' = bc
    BY <1>5 DEF Change, BeginPublication, Expire, SetSnapshot
  <2>2. CASE Change
    BY <2>1, <2>2 DEF Change
  <2>3. CASE BeginPublication
    BY <2>1, <2>3 DEF BeginPublication
  <2>4. CASE Expire
    BY <2>1, <2>4 DEF Expire
  <2>5. ASSUME NEW ok \in BOOLEAN, SetSnapshot(ok) PROVE InOrder'
    BY <2>1, <2>5 DEF SetSnapshot
  <2> QED
    BY <1>5, <2>2, <2>3, <2>4, <2>5
<1>6. ASSUME NEW ok \in BOOLEAN, Publish(ok) PROVE InOrder'
  <2>1. pub.pc = "publish" /\ pub' = Idle /\ UNCHANGED <<world, smcSnap>>
    BY <1>6 DEF Publish, Ready
  <2>2. bc'.inbox = bc.inbox \/ bc'.inbox = Append(bc.inbox, pub.v)
    BY <1>6 DEF Publish
  <2>3. CASE bc'.inbox = bc.inbox
    BY <2>1, <2>3 DEF Idle
  <2>4. CASE bc'.inbox = Append(bc.inbox, pub.v)
    <3>1. /\ DOMAIN bc.inbox = 1 .. Len(bc.inbox) /\ Len(bc.inbox) \in Nat
          /\ DOMAIN bc'.inbox = 1 .. Len(bc.inbox) + 1
          /\ bc'.inbox[Len(bc.inbox) + 1] = pub.v
          /\ \A i \in DOMAIN bc.inbox : bc'.inbox[i] = bc.inbox[i]
      BY <2>4, Appended
    <3>2. ASSUME NEW i \in DOMAIN bc'.inbox PROVE bc'.inbox[i] <= pub.v
      <4>1. CASE i \in DOMAIN bc.inbox
        BY <2>1, <3>1, <4>1
      <4>2. CASE i = Len(bc.inbox) + 1
        <5>1. pub.v \in Nat
          OBVIOUS
        <5> QED
          BY <3>1, <4>2, <5>1
      <4> QED
        BY <3>1, <4>1, <4>2
    <3>3. ASSUME NEW i \in DOMAIN bc'.inbox, NEW j \in DOMAIN bc'.inbox, i <= j
          PROVE  bc'.inbox[i] <= bc'.inbox[j]
      <4> DEFINE n == Len(bc.inbox)
      <4> HIDE DEF Typed, Begun
      <4>1. n \in Nat /\ i \in 1 .. n + 1 /\ j \in 1 .. n + 1
        BY <3>1
      <4>2. CASE j = n + 1
        BY <3>1, <3>2, <4>2
      <4>3. CASE j # n + 1
        <5>1. i \in DOMAIN bc.inbox /\ j \in DOMAIN bc.inbox
          BY <3>1, <3>3, <4>1, <4>3
        <5>2. bc.inbox[i] <= bc.inbox[j]
          BY <3>3, <5>1
        <5>3. bc'.inbox[i] = bc.inbox[i] /\ bc'.inbox[j] = bc.inbox[j]
          BY <3>1, <5>1
        <5> QED
          BY <5>2, <5>3
      <4> QED
        BY <4>2, <4>3
    <3>4. \A i \in DOMAIN bc'.inbox : bc'.inbox[i] <= world
      <4>1. pub.v <= world
        BY <2>1
      <4> QED
        BY <2>1, <3>1, <4>1
    <3>5. smcSnap' <= world' /\ world' = world /\ pub'.pc = "idle"
      BY <2>1 DEF Idle
    <3> QED
      BY <3>3, <3>4, <3>5, Zenon
  <2> QED
    BY <2>2, <2>3, <2>4
<1>7. ASSUME Receive PROVE InOrder'
  <2>1. bc'.inbox = Tail(bc.inbox) /\ UNCHANGED <<world, pub, smcSnap>>
    BY <1>7 DEF Receive
  <2>2. /\ DOMAIN bc.inbox = 1 .. Len(bc.inbox) /\ Len(bc.inbox) \in Nat
        /\ DOMAIN bc'.inbox = 1 .. Len(bc.inbox) - 1
        /\ \A i \in DOMAIN bc'.inbox : i + 1 \in DOMAIN bc.inbox
                                       /\ bc'.inbox[i] = bc.inbox[i + 1]
    BY <1>7, <2>1, Taken DEF Receive
  <2>3. \A i \in DOMAIN bc'.inbox :
          bc'.inbox[i] <= world' /\ (pub'.pc # "idle" => bc'.inbox[i] <= pub'.v)
    BY <2>1, <2>2
  <2>4. ASSUME NEW i \in DOMAIN bc'.inbox, NEW j \in DOMAIN bc'.inbox, i <= j
        PROVE  bc'.inbox[i] <= bc'.inbox[j]
    <3>1. i + 1 \in DOMAIN bc.inbox /\ j + 1 \in DOMAIN bc.inbox /\ i + 1 <= j + 1
      BY <2>2, <2>4
    <3>2. bc.inbox[i + 1] <= bc.inbox[j + 1]
      BY <3>1
    <3> QED
      BY <2>2, <3>2
  <2>5. smcSnap' <= world' /\ (pub'.pc # "idle" => smcSnap' <= pub'.v /\ pub'.v <= world')
    BY <2>1
  <2> QED
    BY <2>3, <2>4, <2>5, Zenon
<1>8. ASSUME Restart PROVE InOrder'
  BY <1>8 DEF Restart, Unstarted, Idle
<1> QED
  BY <1>1, <1>2, <1>3, <1>4, <1>5, <1>6, <1>7, <1>8 DEF Next

(* What was not newer than v is not, unless the builder makes it so.       *)
LEMMA SeenStep ==
  ASSUME Typed, [Next]_vars, NEW v \in Nat, Before(v),
         \A s \in Symbols : mem'[s].v <= v /\ cache'[s] <= v
  PROVE  Before(v)'
<1> USE DEF Typed, Before, producer, broadcaster, client
<1>1. ASSUME UNCHANGED <<viewerSnap, shown, sess>> PROVE Before(v)'
  BY <1>1
<1>2. Change \/ BeginPublication \/ Expire \/ Subscribe \/ Lose \/ Receive
      \/ (\E ok \in BOOLEAN : SetSnapshot(ok) \/ Publish(ok) \/ Load(ok)) \/ UNCHANGED vars
        => UNCHANGED <<viewerSnap, shown, sess>>
  BY DEF Change, BeginPublication, Expire, Subscribe, Lose, Receive, SetSnapshot,
         Publish, Load, vars
<1>3. ASSUME NEW ok \in BOOLEAN, Save(ok) PROVE Before(v)'
  BY <1>3 DEF Save
<1>4. ASSUME NEW ok \in BOOLEAN, NEW s \in Symbols, Send(s, ok) PROVE Before(v)'
  <2>1. UNCHANGED <<viewerSnap, shown>>
    BY <1>4 DEF Send
  <2>2. CASE sess' = sess
    BY <2>1, <2>2
  <2>3. CASE sess' # sess
    <3>1. sess'.inbox = Append(sess.inbox, [sym |-> s, state |-> mem[s]])
      BY <1>4, <2>3 DEF Send
    <3>2. [sym |-> s, state |-> mem[s]] \in Waiting
      BY DEF Waiting
    <3>3. \A i \in DOMAIN sess'.inbox : sess'.inbox[i].state.v <= v
      <4>1. /\ DOMAIN sess.inbox = 1 .. Len(sess.inbox) /\ Len(sess.inbox) \in Nat
            /\ DOMAIN sess'.inbox = 1 .. Len(sess.inbox) + 1
            /\ sess'.inbox[Len(sess.inbox) + 1].state = mem[s]
            /\ \A i \in DOMAIN sess.inbox : sess'.inbox[i] = sess.inbox[i]
        BY <3>1, <3>2, Appended
      <4>2. mem[s].v <= v
        OBVIOUS
      <4> QED
        BY <4>1, <4>2
    <3> QED
      BY <2>1, <3>3
  <2> QED
    BY <2>2, <2>3
<1>5. ASSUME NEW ok \in BOOLEAN, SendInitial(ok) PROVE Before(v)'
  <2>1. sess.sym \in Symbols
    BY ViewerAssumption
  <2> QED
    BY <1>5, <2>1 DEF SendInitial, NoState
<1>6. ASSUME NEW ok \in BOOLEAN, Update(ok) PROVE Before(v)'
  <2>1. /\ DOMAIN sess.inbox = 1 .. Len(sess.inbox) /\ Len(sess.inbox) \in Nat \ {0}
        /\ Head(sess.inbox) = sess.inbox[1]
        /\ DOMAIN Tail(sess.inbox) = 1 .. Len(sess.inbox) - 1
        /\ \A i \in DOMAIN Tail(sess.inbox) :
             i + 1 \in DOMAIN sess.inbox /\ Tail(sess.inbox)[i] = sess.inbox[i + 1]
    BY <1>6, Taken DEF Update
  <2>2. shown'.v <= v
    <3>1. 1 \in DOMAIN sess.inbox
      BY <2>1
    <3>2. Head(sess.inbox).state.v <= v
      BY <2>1, <3>1
    <3>3. shown' = shown \/ shown' = Head(sess.inbox).state
      BY <1>6 DEF Update
    <3> QED
      BY <3>2, <3>3
  <2>3. sess'.inbox = Tail(sess.inbox) /\ UNCHANGED viewerSnap
    BY <1>6 DEF Update
  <2> QED
    BY <2>1, <2>2, <2>3
<1>7. ASSUME UNCHANGED viewerSnap, sess'.inbox = << >> \/ sess'.inbox = sess.inbox,
             shown' = shown \/ shown' = NoState
      PROVE  Before(v)'
  BY <1>7 DEF NoState
<1>8. ASSUME Stream \/ Miss PROVE Before(v)'
  BY <1>7, <1>8 DEF Stream, Miss
<1>9. ASSUME Disconnect \/ Restart PROVE Before(v)'
  <2>1. PICK c \in Watched : Closed = [pc |-> "closed", sym |-> c, own |-> FALSE,
                                       subscribed |-> FALSE, inbox |-> << >>]
    BY ClosedType
  <2>2. sess' = Closed /\ shown' = NoState /\ UNCHANGED viewerSnap
    BY <1>9 DEF Disconnect, Restart
  <2> QED
    BY <1>7, <2>1, <2>2
<1>10. ASSUME NEW s \in Watched, Connect(s) PROVE Before(v)'
  <2>1. PICK c \in Watched : Closed = [pc |-> "closed", sym |-> c, own |-> FALSE,
                                       subscribed |-> FALSE, inbox |-> << >>]
    BY ClosedType
  <2> QED
    BY <1>7, <1>10, <2>1 DEF Connect, Connected
<1> QED
  BY <1>1, <1>2, <1>3, <1>4, <1>5, <1>6, <1>8, <1>9, <1>10 DEF Next

(* What is not newer than v is not newer than the next version.            *)
LEMMA Later ==
  ASSUME Typed, NEW v \in Nat, Before(v)
  PROVE  Before(v + 1)
<1>1. ASSUME NEW s \in Symbols
      PROVE  viewerSnap[s].v <= v + 1 /\ mem[s].v <= v + 1 /\ cache[s] <= v + 1
  <2>1. viewerSnap[s].v \in Nat /\ mem[s].v \in Nat /\ cache[s] \in Nat
    BY DEF Typed, Shots
  <2> QED
    BY <2>1 DEF Before
<1>2. shown.v <= v + 1
  BY DEF Before, Typed, Shots
<1>3. ASSUME NEW i \in DOMAIN sess.inbox PROVE sess.inbox[i].state.v <= v + 1
  <2>1. sess.inbox[i] \in Waiting
    BY DEF Typed
  <2> QED
    BY <2>1 DEF Before, Waiting, Shots
<1> QED
  BY <1>1, <1>2, <1>3 DEF Before

(* What is to come after a step was to come before, or is a new version.   *)
LEMMA ComingStep ==
  ASSUME Typed, [Next]_vars, NEW v, Coming(v)'
  PROVE  Coming(v) \/ v = world + 1
<1> USE DEF Typed, Coming, producer, broadcaster, client
<1>1. ASSUME UNCHANGED <<world, pub>>, bc'.inbox = bc.inbox \/ bc'.inbox = << >>
      PROVE  Coming(v)
  BY <1>1
<1>2. Subscribe \/ Lose
      \/ (\E ok \in BOOLEAN : Load(ok) \/ Save(ok) \/ (\E s \in Symbols : Send(s, ok))
                              \/ SendInitial(ok) \/ Update(ok))
      \/ (\E s \in Watched : Connect(s)) \/ Stream \/ Miss \/ Disconnect \/ UNCHANGED vars
        => /\ UNCHANGED <<world, pub>>
           /\ bc'.inbox = bc.inbox \/ bc'.inbox = << >>
  BY DEF Subscribe, Lose, Load, Save, Send, SendInitial, Update, Connect, Stream, Miss,
         Disconnect, vars
<1>3. ASSUME Change \/ BeginPublication \/ Expire \/ \E ok \in BOOLEAN : SetSnapshot(ok)
      PROVE  Coming(v) \/ v = world + 1
  <2>1. UNCHANGED bc /\ world' \in {world, world + 1}
    BY <1>3 DEF Change, BeginPublication, Expire, SetSnapshot
  <2>2. pub'.pc # "idle" => (pub.pc # "idle" /\ pub'.v = pub.v) \/ pub'.v = world
    BY <1>3 DEF Change, BeginPublication, Expire, SetSnapshot
  <2> QED
    BY <2>1, <2>2
<1>4. ASSUME NEW ok \in BOOLEAN, Publish(ok) PROVE Coming(v)
  <2>1. pub.pc = "publish" /\ pub'.pc = "idle" /\ UNCHANGED world
    BY <1>4 DEF Publish, Ready, Idle
  <2>2. bc'.inbox = bc.inbox \/ bc'.inbox = Append(bc.inbox, pub.v)
    BY <1>4 DEF Publish
  <2>3. \A i \in DOMAIN bc'.inbox : bc'.inbox[i] = pub.v
                                    \/ (i \in DOMAIN bc.inbox /\ bc'.inbox[i] = bc.inbox[i])
    <3>1. CASE bc'.inbox = bc.inbox
      BY <3>1
    <3>2. CASE bc'.inbox = Append(bc.inbox, pub.v)
      BY <3>2, Appended
    <3> QED
      BY <2>2, <3>1, <3>2
  <2> QED
    BY <2>1, <2>3
<1>5. ASSUME Receive PROVE Coming(v)
  <2>1. \A i \in DOMAIN bc'.inbox : i + 1 \in DOMAIN bc.inbox
                                    /\ bc'.inbox[i] = bc.inbox[i + 1]
    BY <1>5, Taken DEF Receive
  <2> QED
    BY <1>5, <2>1 DEF Receive
<1>6. ASSUME Restart PROVE v = world + 1
  BY <1>6 DEF Restart, Unstarted, Idle
<1> QED
  BY <1>1, <1>2, <1>3, <1>4, <1>5, <1>6 DEF Next

(* Every step keeps what is to come no older than what has arrived.        *)
LEMMA NothingNewerStep ==
  ASSUME Typed, Begun, InOrder, NothingNewer, [Next]_vars
  PROVE  NothingNewer'
<1> SUFFICES ASSUME NEW v \in Nat, Coming(v)' PROVE Before(v)'
  BY DEF NothingNewer
<1> USE DEF Typed, producer, broadcaster, client
<1>1. Before(v)
  <2>1. Before(world) /\ world \in Nat
    BY DEF NothingNewer, Coming
  <2>2. Before(world + 1)
    BY <2>1, Later
  <2> QED
    BY <2>2, ComingStep DEF NothingNewer
<1>2. ASSUME UNCHANGED <<mem, cache>> \/ Restart PROVE Before(v)'
  <2>1. \A s \in Symbols : mem'[s].v <= v /\ cache'[s] <= v
    BY <1>1, <1>2 DEF Before, Restart, NoState
  <2> QED
    BY <1>1, <2>1, SeenStep
<1>3. ASSUME NEW w \in Nat, w <= v, Remember(w) PROVE Before(v)'
  <2>1. ASSUME NEW s \in Symbols PROVE mem'[s].v <= v /\ cache'[s] <= v
    <3>1. mem[s].v <= v /\ cache[s] <= v
      BY <1>1 DEF Before
    <3>2. \/ mem'[s] = [v |-> w, events |-> cache'[s]] /\ cache'[s] \in {w, cache[s]}
          \/ mem'[s] = mem[s] /\ cache'[s] = cache[s]
      BY <1>3, Remembered
    <3> QED
      BY <1>3, <3>1, <3>2
  <2> QED
    BY <1>1, <2>1, SeenStep
<1>4. ASSUME NEW ok \in BOOLEAN, Load(ok) PROVE Before(v)'
  <2>1. smcSnap <= v
    <3>1. bc'.inbox = << >> /\ UNCHANGED <<world, pub>>
      BY <1>4 DEF Load, Begun
    <3> QED
      BY <3>1 DEF Coming, InOrder
  <2> QED
    BY <1>2, <1>3, <1>4, <2>1 DEF Load
<1>5. ASSUME Receive PROVE Before(v)'
  <2>1. /\ Head(bc.inbox) \in Nat /\ Head(bc.inbox) = bc.inbox[1] /\ 1 \in DOMAIN bc.inbox
        /\ \A i \in DOMAIN Tail(bc.inbox) : 1 <= i + 1 /\ i + 1 \in DOMAIN bc.inbox
                                            /\ Tail(bc.inbox)[i] = bc.inbox[i + 1]
    BY <1>5, Taken DEF Receive
  <2>2. /\ bc'.inbox = Tail(bc.inbox) /\ UNCHANGED <<world, pub>>
        /\ Remember(Head(bc.inbox))
    BY <1>5 DEF Receive
  <2>3. Head(bc.inbox) <= v
    <3>1. CASE v = world \/ (pub.pc # "idle" /\ v = pub.v)
      BY <2>1, <3>1 DEF InOrder
    <3>2. ASSUME NEW i \in DOMAIN bc'.inbox, v = bc'.inbox[i] PROVE Head(bc.inbox) <= v
      <4>1. bc.inbox[1] <= bc.inbox[i + 1]
        BY <2>1, <2>2 DEF InOrder
      <4> QED
        BY <2>1, <2>2, <3>2, <4>1
    <3> QED
      BY <2>2, <3>1, <3>2 DEF Coming
  <2> QED
    BY <1>3, <2>1, <2>2, <2>3
<1>6. \/ UNCHANGED <<mem, cache>> \/ Restart \/ Receive
      \/ \E ok \in BOOLEAN : Load(ok)
  BY DEF Next, vars, Change, BeginPublication, Expire, Subscribe, Lose, SetSnapshot, Publish,
         Save, Send, SendInitial, Update, Connect, Stream, Miss, Disconnect
<1> QED
  BY <1>2, <1>4, <1>5, <1>6
-----------------------------------------------------------------------------
(* A session after an update for it is put into its connection.            *)
LEMMA Sent ==
  ASSUME Typed, Begun, NEW ok \in BOOLEAN, NEW s \in Symbols, Send(s, ok)
  PROVE  /\ UNCHANGED <<mem, cache, viewerSnap, ownSnap, shown>>
         /\ sess'.sym = sess.sym /\ sess'.own = sess.own
         /\ s \in bc.batch /\ bc'.batch = bc.batch \ {s}
         /\ DOMAIN sess.inbox = 1 .. Len(sess.inbox) /\ Len(sess.inbox) \in Nat
         /\ \/ sess'.inbox = sess.inbox
            \/ /\ DOMAIN sess'.inbox = 1 .. Len(sess.inbox) + 1
               /\ sess'.inbox[Len(sess.inbox) + 1] = [sym |-> s, state |-> mem[s]]
               /\ \A i \in DOMAIN sess.inbox : sess'.inbox[i] = sess.inbox[i]
<1> USE DEF Typed
<1>1. [sym |-> s, state |-> mem[s]] \in Waiting
  BY DEF Waiting
<1>2. sess' = sess \/ sess' = [sess EXCEPT !.inbox =
                                  Append(@, [sym |-> s, state |-> mem[s]])]
  BY DEF Send
<1>3. CASE sess' = sess
  BY <1>3, LenProperties DEF Send
<1>4. CASE sess' = [sess EXCEPT !.inbox = Append(@, [sym |-> s, state |-> mem[s]])]
  <2>1. /\ sess'.inbox = Append(sess.inbox, [sym |-> s, state |-> mem[s]])
        /\ sess'.sym = sess.sym /\ sess'.own = sess.own
    BY <1>4
  <2> QED
    BY <1>1, <2>1, Appended DEF Send
<1> QED
  BY <1>2, <1>3, <1>4

(* A session after an update is taken from its connection.                 *)
LEMMA Updated ==
  ASSUME Typed, NEW ok \in BOOLEAN, Update(ok)
  PROVE  /\ UNCHANGED <<mem, cache, viewerSnap, ownSnap, bc>>
         /\ sess'.sym = sess.sym
         /\ 1 \in DOMAIN sess.inbox
         /\ \A i \in DOMAIN sess'.inbox :
              /\ 1 <= i + 1 /\ i + 1 \in DOMAIN sess.inbox /\ i \in Nat
              /\ sess'.inbox[i] = sess.inbox[i + 1]
         /\ \/ shown' = shown /\ sess'.own = sess.own
            \/ For(1) /\ shown' = sess.inbox[1].state
<1> USE DEF Typed
<1>1. /\ Head(sess.inbox) = sess.inbox[1] /\ 1 \in DOMAIN sess.inbox
      /\ \A i \in DOMAIN Tail(sess.inbox) :
           /\ 1 <= i + 1 /\ i + 1 \in DOMAIN sess.inbox /\ i \in Nat
           /\ Tail(sess.inbox)[i] = sess.inbox[i + 1]
  BY Taken DEF Update
<1>2. sess'.inbox = Tail(sess.inbox) /\ sess'.sym = sess.sym
      /\ UNCHANGED <<mem, cache, viewerSnap, ownSnap, bc>>
  BY DEF Update, broadcaster
<1>3. CASE ok /\ Mine
  BY <1>1, <1>2, <1>3 DEF Update, Mine, For
<1>4. CASE ~(ok /\ Mine)
  BY <1>1, <1>2, <1>4 DEF Update
<1> QED
  BY <1>3, <1>4

(* What a session is when it opens, closes or restarts with the process.   *)
LEMMA Reset ==
  ASSUME Typed, Begun,
         (\E s \in Watched : Connect(s)) \/ Disconnect \/ Restart
  PROVE  sess'.inbox = << >> /\ sess'.own = FALSE /\ shown' = NoState
<1> USE DEF Typed, Begun
<1>1. PICK c \in Watched : Closed = [pc |-> "closed", sym |-> c, own |-> FALSE,
                                     subscribed |-> FALSE, inbox |-> << >>]
  BY ClosedType
<1>2. CASE \E s \in Watched : Connect(s)
  BY <1>1, <1>2 DEF Connect, Connected
<1>3. CASE Disconnect \/ Restart
  BY <1>1, <1>3 DEF Disconnect, Restart
<1> QED
  BY <1>2, <1>3

(* Every step keeps what is about to be published the newest.              *)
LEMMA BatchNewestStep ==
  ASSUME Typed, Begun, NothingNewer, BatchNewest, [Next]_vars
  PROVE  BatchNewest'
<1> USE DEF Typed, BatchNewest, producer, broadcaster, client
<1>1. ASSUME bc'.batch = bc.batch, UNCHANGED <<mem, viewerSnap, shown, sess>>
      PROVE  BatchNewest'
  BY <1>1 DEF For
<1>2. Change \/ BeginPublication \/ Expire \/ Subscribe \/ Lose
      \/ (\E ok \in BOOLEAN : SetSnapshot(ok) \/ Publish(ok)) \/ UNCHANGED vars
        => bc'.batch = bc.batch /\ UNCHANGED <<mem, viewerSnap, shown, sess>>
  BY DEF Change, BeginPublication, Expire, Subscribe, Lose, SetSnapshot, Publish, vars
<1>3. ASSUME NEW ok \in BOOLEAN, Load(ok) PROVE BatchNewest'
  BY <1>3 DEF Load, Begun
<1>4. ASSUME NEW ok \in BOOLEAN, Save(ok) PROVE BatchNewest'
  <2>1. bc'.batch = bc.batch /\ UNCHANGED <<mem, shown, sess>>
    BY <1>4 DEF Save
  <2>2. \A s \in bc.batch : viewerSnap'[s].v <= mem[s].v
    BY <1>4 DEF Save, Shots
  <2> QED
    BY <2>1, <2>2 DEF For
<1>5. ASSUME Receive PROVE BatchNewest'
  <2> DEFINE h == Head(bc.inbox)
  <2>1. h \in Nat /\ Before(h)
    <3>1. Head(bc.inbox) \in Nat /\ Head(bc.inbox) = bc.inbox[1] /\ 1 \in DOMAIN bc.inbox
      BY <1>5, Taken DEF Receive
    <3> QED
      BY <3>1 DEF NothingNewer, Coming
  <2>2. /\ bc'.batch = Built(h) /\ Remember(h)
        /\ UNCHANGED <<viewerSnap, shown, sess>>
    BY <1>5 DEF Receive, ToSend
  <2> HIDE DEF h
  <2>3. ASSUME NEW s \in Built(h) PROVE s \in Symbols /\ mem'[s].v = h
    <3>1. s \in Symbols
      BY DEF Built
    <3>2. mem'[s] = [v |-> h, events |-> cache'[s]]
      BY <2>1, <2>2, <3>1, Remembered
    <3> QED
      BY <3>1, <3>2
  <2>4. /\ \A s \in Symbols : viewerSnap'[s].v <= h
        /\ shown'.v <= h
        /\ \A i \in DOMAIN sess'.inbox : sess'.inbox[i].state.v <= h
    BY <2>1, <2>2 DEF Before
  <2>5. bc'.batch = Built(h)
    BY <2>2
  <2> QED
    BY <2>3, <2>4, <2>5
<1>6. ASSUME NEW ok \in BOOLEAN, NEW s \in Symbols, Send(s, ok) PROVE BatchNewest'
  <2>1. /\ UNCHANGED <<mem, viewerSnap, shown>> /\ sess'.sym = sess.sym
        /\ bc'.batch = bc.batch \ {s}
        /\ DOMAIN sess.inbox = 1 .. Len(sess.inbox) /\ Len(sess.inbox) \in Nat
    BY <1>6, Sent
  <2>2. \/ sess'.inbox = sess.inbox
        \/ /\ DOMAIN sess'.inbox = 1 .. Len(sess.inbox) + 1
           /\ sess'.inbox[Len(sess.inbox) + 1] = [sym |-> s, state |-> mem[s]]
           /\ \A i \in DOMAIN sess.inbox : sess'.inbox[i] = sess.inbox[i]
    BY <1>6, Sent
  <2>3. ASSUME NEW t \in bc'.batch
        PROVE  viewerSnap'[t].v <= mem'[t].v
               /\ (t = sess'.sym => shown'.v <= mem'[t].v)
    BY <2>1
  <2>4. ASSUME NEW t \in bc'.batch, t = sess'.sym, NEW i \in DOMAIN sess'.inbox, For(i)'
        PROVE  sess'.inbox[i].state.v <= mem'[t].v
    <3>1. t \in bc.batch /\ t # s /\ t = sess.sym /\ sess'.inbox[i].sym = t
      BY <2>1, <2>4 DEF For
    <3>2. i \in DOMAIN sess.inbox /\ sess'.inbox[i] = sess.inbox[i]
      BY <2>1, <2>2, <3>1
    <3> QED
      BY <2>1, <3>1, <3>2 DEF For
  <2> QED
    BY <2>3, <2>4
<1>7. ASSUME NEW ok \in BOOLEAN, SendInitial(ok) PROVE BatchNewest'
  <2>1. sess.inbox = << >> /\ sess'.inbox = << >> /\ sess'.sym = sess.sym
        /\ UNCHANGED <<bc, mem, viewerSnap>>
    BY <1>7 DEF SendInitial, Begun
  <2>2. shown' = viewerSnap[sess.sym] \/ shown' = NoState
    BY <1>7 DEF SendInitial
  <2> QED
    BY <2>1, <2>2 DEF NoState, Shots
<1>8. ASSUME NEW ok \in BOOLEAN, Update(ok) PROVE BatchNewest'
  <2>1. /\ UNCHANGED <<mem, viewerSnap, bc>> /\ sess'.sym = sess.sym
        /\ 1 \in DOMAIN sess.inbox
        /\ \A i \in DOMAIN sess'.inbox :
             i + 1 \in DOMAIN sess.inbox /\ sess'.inbox[i] = sess.inbox[i + 1]
    BY <1>8, Updated
  <2>2. shown' = shown \/ (For(1) /\ shown' = sess.inbox[1].state)
    BY <1>8, Updated
  <2> QED
    BY <2>1, <2>2 DEF For
<1>9. ASSUME (\E s \in Watched : Connect(s)) \/ Disconnect PROVE BatchNewest'
  <2>1. sess'.inbox = << >> /\ shown' = NoState
    BY <1>9, Reset
  <2>2. UNCHANGED <<bc, mem, viewerSnap>>
    BY <1>9 DEF Connect, Disconnect
  <2>3. \A s \in Symbols : mem[s].v \in Nat
    BY DEF Shots
  <2> QED
    BY <2>1, <2>2, <2>3 DEF NoState
<1>10. ASSUME Stream \/ Miss PROVE BatchNewest'
  <2>1. /\ UNCHANGED <<bc, mem, viewerSnap, shown>>
        /\ sess'.sym = sess.sym /\ (sess'.inbox = sess.inbox \/ sess'.inbox = << >>)
    BY <1>10 DEF Stream, Miss
  <2> QED
    BY <2>1 DEF For
<1>11. ASSUME Restart PROVE BatchNewest'
  BY <1>11 DEF Restart, Unstarted
<1> QED
  BY <1>1, <1>2, <1>3, <1>4, <1>5, <1>6, <1>7, <1>8, <1>9, <1>10, <1>11 DEF Next

(* Every step keeps the updates that wait in the order of what is shown.   *)
LEMMA SessionInOrderStep ==
  ASSUME Typed, Begun, BatchNewest, SessionInOrder, [Next]_vars
  PROVE  SessionInOrder'
<1> USE DEF Typed, SessionInOrder, producer, broadcaster, client
<1>1. ASSUME UNCHANGED shown, sess'.sym = sess.sym, sess'.inbox = sess.inbox
      PROVE  SessionInOrder'
  BY <1>1 DEF For
<1>2. ASSUME sess'.inbox = << >> PROVE SessionInOrder'
  BY <1>2
<1>3. ASSUME NEW ok \in BOOLEAN, NEW s \in Symbols, Send(s, ok) PROVE SessionInOrder'
  <2>1. /\ shown' = shown /\ sess'.sym = sess.sym /\ s \in bc.batch
        /\ DOMAIN sess.inbox = 1 .. Len(sess.inbox) /\ Len(sess.inbox) \in Nat
    BY <1>3, Sent
  <2>2. CASE sess'.inbox = sess.inbox
    BY <1>1, <2>1, <2>2
  <2>3. CASE /\ DOMAIN sess'.inbox = 1 .. Len(sess.inbox) + 1
             /\ sess'.inbox[Len(sess.inbox) + 1] = [sym |-> s, state |-> mem[s]]
             /\ \A i \in DOMAIN sess.inbox : sess'.inbox[i] = sess.inbox[i]
    <3>1. ASSUME NEW i \in DOMAIN sess'.inbox, For(i)'
          PROVE  shown'.v <= sess'.inbox[i].state.v
      <4>1. CASE i \in DOMAIN sess.inbox
        BY <2>1, <2>3, <3>1, <4>1 DEF For
      <4>2. CASE i = Len(sess.inbox) + 1
        BY <2>1, <2>3, <3>1, <4>2 DEF For, BatchNewest
      <4> QED
        BY <2>1, <2>3, <4>1, <4>2
    <3>2. ASSUME NEW i \in DOMAIN sess'.inbox, NEW j \in DOMAIN sess'.inbox,
                 i <= j, For(i)', For(j)'
          PROVE  sess'.inbox[i].state.v <= sess'.inbox[j].state.v
      <4>1. CASE j \in DOMAIN sess.inbox
        <5>1. i \in DOMAIN sess.inbox
          BY <2>1, <2>3, <3>2, <4>1
        <5> QED
          BY <2>1, <2>3, <3>2, <4>1, <5>1 DEF For
      <4>2. CASE i \in DOMAIN sess.inbox /\ j = Len(sess.inbox) + 1
        <5>1. For(i) /\ s = sess.sym
          BY <2>1, <2>3, <3>2, <4>2 DEF For
        <5>2. sess.inbox[i].state.v <= mem[s].v
          BY <2>1, <4>2, <5>1 DEF BatchNewest
        <5> QED
          BY <2>3, <4>2, <5>2
      <4>3. CASE i = Len(sess.inbox) + 1 /\ j = Len(sess.inbox) + 1
        BY <2>1, <2>3, <4>3 DEF Shots
      <4> QED
        BY <2>1, <2>3, <3>2, <4>1, <4>2, <4>3
    <3> QED
      BY <3>1, <3>2
  <2> QED
    BY <1>3, <2>2, <2>3, Sent
<1>4. ASSUME NEW ok \in BOOLEAN, Update(ok) PROVE SessionInOrder'
  <2>1. /\ sess'.sym = sess.sym /\ 1 \in DOMAIN sess.inbox
        /\ \A i \in DOMAIN sess'.inbox :
             /\ 1 <= i + 1 /\ i + 1 \in DOMAIN sess.inbox /\ i \in Nat
             /\ sess'.inbox[i] = sess.inbox[i + 1]
    BY <1>4, Updated
  <2>2. shown' = shown \/ (For(1) /\ shown' = sess.inbox[1].state)
    BY <1>4, Updated
  <2>3. ASSUME NEW i \in DOMAIN sess'.inbox, For(i)'
        PROVE  shown'.v <= sess'.inbox[i].state.v
    <3>1. For(i + 1) /\ i + 1 \in DOMAIN sess.inbox /\ 1 <= i + 1
      BY <2>1, <2>3 DEF For
    <3> QED
      BY <2>1, <2>2, <3>1
  <2>4. ASSUME NEW i \in DOMAIN sess'.inbox, NEW j \in DOMAIN sess'.inbox,
               i <= j, For(i)', For(j)'
        PROVE  sess'.inbox[i].state.v <= sess'.inbox[j].state.v
    <3>1. /\ For(i + 1) /\ i + 1 \in DOMAIN sess.inbox
          /\ For(j + 1) /\ j + 1 \in DOMAIN sess.inbox /\ i + 1 <= j + 1
      BY <2>1, <2>4 DEF For
    <3> QED
      BY <2>1, <3>1
  <2> QED
    BY <2>3, <2>4
<1>5. ASSUME NEW ok \in BOOLEAN, SendInitial(ok) PROVE SessionInOrder'
  BY <1>2, <1>5 DEF SendInitial, Begun
<1>6. ASSUME (\E s \in Watched : Connect(s)) \/ Disconnect \/ Restart PROVE SessionInOrder'
  BY <1>2, <1>6, Reset
<1>7. ASSUME Stream \/ Miss PROVE SessionInOrder'
  BY <1>1, <1>2, <1>7 DEF Stream, Miss
<1>8. Change \/ BeginPublication \/ Expire \/ Subscribe \/ Lose \/ Receive
      \/ (\E ok \in BOOLEAN : SetSnapshot(ok) \/ Publish(ok) \/ Load(ok) \/ Save(ok))
      \/ UNCHANGED vars
        => UNCHANGED <<shown, sess>>
  BY DEF Change, BeginPublication, Expire, Subscribe, Lose, Receive, SetSnapshot, Publish,
         Load, Save, vars
<1> QED
  BY <1>1, <1>3, <1>4, <1>5, <1>6, <1>7, <1>8 DEF Next

(* What the builder keeps of events only becomes newer within a process.   *)
LEMMA CacheForward ==
  ASSUME Typed, NothingNewer, EventsInOrder, NEW v \in Nat, Remember(v),
         \A s \in Symbols : cache[s] <= v
  PROVE  \A s \in Symbols : cache[s] <= cache'[s] /\ mem'[s].events = cache'[s]
<1> SUFFICES ASSUME NEW s \in Symbols
             PROVE  cache[s] <= cache'[s] /\ mem'[s].events = cache'[s]
  OBVIOUS
<1>1. \/ mem'[s] = [v |-> v, events |-> cache'[s]] /\ cache'[s] \in {v, cache[s]}
      \/ mem'[s] = mem[s] /\ cache'[s] = cache[s]
  BY Remembered
<1>2. cache[s] \in Nat /\ mem[s].events = cache[s] /\ cache[s] <= v
  BY DEF Typed, EventsInOrder
<1> QED
  BY <1>1, <1>2

(* Every step keeps the order of events.                                   *)
LEMMA EventsInOrderStep ==
  ASSUME Typed, Begun, InOrder, NothingNewer, EventsInOrder, [Next]_vars
  PROVE  EventsInOrder'
<1> USE DEF Typed, EventsInOrder, producer, broadcaster, client
<1>0. sess.sym \in Symbols /\ sess.own \in BOOLEAN
  BY ViewerAssumption
<1>1. ASSUME UNCHANGED <<mem, cache, viewerSnap, ownSnap, shown>>,
             sess'.sym = sess.sym, sess'.own = sess.own,
             sess'.inbox = sess.inbox \/ sess'.inbox = << >>
      PROVE  EventsInOrder'
  BY <1>1 DEF For
<1>2. Change \/ BeginPublication \/ Expire \/ Subscribe \/ Lose \/ Stream \/ Miss
      \/ (\E ok \in BOOLEAN : SetSnapshot(ok) \/ Publish(ok)) \/ UNCHANGED vars
        => /\ UNCHANGED <<mem, cache, viewerSnap, ownSnap, shown>>
           /\ sess'.sym = sess.sym /\ sess'.own = sess.own
           /\ sess'.inbox = sess.inbox \/ sess'.inbox = << >>
  BY DEF Change, BeginPublication, Expire, Subscribe, Lose, Stream, Miss, SetSnapshot,
         Publish, vars
<1>3. ASSUME NEW ok \in BOOLEAN, Save(ok) PROVE EventsInOrder'
  <2>1. UNCHANGED <<mem, cache, shown, sess>> /\ (viewerSnap' = mem \/ (viewerSnap' = viewerSnap /\ ownSnap' = ownSnap))
    BY <1>3 DEF Save
  <2>2. \A s \in Symbols : /\ mem'[s].events = cache'[s]
                           /\ ownSnap' => viewerSnap'[s].events <= cache'[s]
    BY <2>1
  <2> QED
    BY <2>1, <2>2 DEF For
<1>4. ASSUME UNCHANGED <<viewerSnap, ownSnap, shown, sess>>,
             \A s \in Symbols : cache[s] <= cache'[s] /\ mem'[s].events = cache'[s]
                                /\ cache'[s] \in Nat
      PROVE  EventsInOrder'
  <2>1. ASSUME NEW s \in Symbols, ownSnap PROVE viewerSnap[s].events <= cache'[s]
    <3>1. viewerSnap[s].events \in Nat /\ viewerSnap[s].events <= cache[s] /\ cache[s] \in Nat
      BY <2>1 DEF Shots
    <3> QED
      BY <1>4, <3>1
  <2>2. sess.own => shown.events <= cache'[sess.sym]
    BY <1>0, <1>4 DEF Shots
  <2>3. ASSUME NEW i \in DOMAIN sess.inbox, For(i)
        PROVE  sess.inbox[i].state.events <= cache'[sess.sym]
    <3>1. sess.inbox[i] \in Waiting
      OBVIOUS
    <3>2. sess.inbox[i].state.events \in Nat /\ sess.inbox[i].state.events <= cache[sess.sym]
      BY <2>3, <3>1 DEF Waiting, Shots
    <3> QED
      BY <1>0, <1>4, <3>2
  <2> QED
    BY <1>4, <2>1, <2>2, <2>3 DEF For
<1>5. ASSUME NEW ok \in BOOLEAN, Load(ok) PROVE EventsInOrder'
  <2>1. UNCHANGED <<viewerSnap, ownSnap, shown, sess>>
    BY <1>5 DEF Load
  <2>2. CASE UNCHANGED <<mem, cache>>
    BY <1>4, <2>1, <2>2
  <2>3. CASE Remember(smcSnap)
    <3>1. \A s \in Symbols : cache[s] <= smcSnap
      BY <1>5 DEF Load, Begun
    <3>2. \A s \in Symbols : cache[s] <= cache'[s] /\ mem'[s].events = cache'[s]
                             /\ cache'[s] \in Nat
      BY <2>3, <3>1, CacheForward, Remembered
    <3> QED
      BY <1>4, <2>1, <3>2
  <2> QED
    BY <1>5, <2>2, <2>3 DEF Load
<1>6. ASSUME Receive PROVE EventsInOrder'
  <2>1. UNCHANGED <<viewerSnap, ownSnap, shown, sess>> /\ Remember(Head(bc.inbox))
    BY <1>6 DEF Receive
  <2>2. Head(bc.inbox) \in Nat /\ Before(Head(bc.inbox))
    <3>1. Head(bc.inbox) \in Nat /\ Head(bc.inbox) = bc.inbox[1] /\ 1 \in DOMAIN bc.inbox
      BY <1>6, Taken DEF Receive
    <3> QED
      BY <3>1 DEF NothingNewer, Coming
  <2>3. \A s \in Symbols : cache[s] <= Head(bc.inbox)
    BY <2>2 DEF Before
  <2>4. \A s \in Symbols : cache[s] <= cache'[s] /\ mem'[s].events = cache'[s]
                           /\ cache'[s] \in Nat
    BY <2>1, <2>2, <2>3, CacheForward, Remembered
  <2> QED
    BY <1>4, <2>1, <2>4
<1>7. ASSUME NEW ok \in BOOLEAN, NEW s \in Symbols, Send(s, ok) PROVE EventsInOrder'
  <2>1. /\ UNCHANGED <<mem, cache, viewerSnap, ownSnap, shown>>
        /\ sess'.sym = sess.sym /\ sess'.own = sess.own
        /\ DOMAIN sess.inbox = 1 .. Len(sess.inbox) /\ Len(sess.inbox) \in Nat
    BY <1>7, Sent
  <2>2. CASE sess'.inbox = sess.inbox
    BY <1>1, <2>1, <2>2
  <2>3. CASE /\ DOMAIN sess'.inbox = 1 .. Len(sess.inbox) + 1
             /\ sess'.inbox[Len(sess.inbox) + 1] = [sym |-> s, state |-> mem[s]]
             /\ \A i \in DOMAIN sess.inbox : sess'.inbox[i] = sess.inbox[i]
    <3>0. mem[s].events = cache[s] /\ cache[s] \in Nat
      OBVIOUS
    <3>1. ASSUME NEW i \in DOMAIN sess'.inbox, For(i)'
          PROVE  /\ sess'.inbox[i].state.events <= cache'[sess'.sym]
                 /\ sess'.own => shown'.events <= sess'.inbox[i].state.events
      <4>1. CASE i \in DOMAIN sess.inbox
        <5>1. For(i) /\ sess'.inbox[i] = sess.inbox[i]
          BY <2>1, <2>3, <3>1, <4>1 DEF For
        <5> QED
          BY <2>1, <4>1, <5>1
      <4>2. CASE i = Len(sess.inbox) + 1
        <5>1. s = sess.sym /\ sess'.inbox[i].state = mem[s]
          BY <2>1, <2>3, <3>1, <4>2 DEF For
        <5> QED
          BY <2>1, <3>0, <5>1
      <4> QED
        BY <2>1, <2>3, <4>1, <4>2
    <3>2. ASSUME NEW i \in DOMAIN sess'.inbox, NEW j \in DOMAIN sess'.inbox,
                 i <= j, For(i)', For(j)'
          PROVE  sess'.inbox[i].state.events <= sess'.inbox[j].state.events
      <4>1. CASE j \in DOMAIN sess.inbox
        <5>1. i \in DOMAIN sess.inbox
          BY <2>1, <2>3, <3>2, <4>1
        <5> QED
          BY <2>1, <2>3, <3>2, <4>1, <5>1 DEF For
      <4>2. CASE i \in DOMAIN sess.inbox /\ j = Len(sess.inbox) + 1
        <5>1. For(i) /\ s = sess.sym
          BY <2>1, <2>3, <3>2, <4>2 DEF For
        <5>2. sess.inbox[i].state.events <= mem[s].events
          BY <3>0, <4>2, <5>1
        <5> QED
          BY <2>3, <4>2, <5>2
      <4>3. CASE i = Len(sess.inbox) + 1 /\ j = Len(sess.inbox) + 1
        BY <2>1, <2>3, <3>0, <4>3
      <4> QED
        BY <2>1, <2>3, <3>2, <4>1, <4>2, <4>3
    <3> QED
      BY <2>1, <3>1, <3>2
  <2> QED
    BY <1>7, <2>2, <2>3, Sent
<1>8. ASSUME NEW ok \in BOOLEAN, Update(ok) PROVE EventsInOrder'
  <2>1. /\ UNCHANGED <<mem, cache, viewerSnap, ownSnap>>
        /\ sess'.sym = sess.sym /\ 1 \in DOMAIN sess.inbox
        /\ \A i \in DOMAIN sess'.inbox :
             /\ 1 <= i + 1 /\ i + 1 \in DOMAIN sess.inbox /\ i \in Nat
             /\ sess'.inbox[i] = sess.inbox[i + 1]
    BY <1>8, Updated
  <2>2. \/ shown' = shown /\ sess'.own = sess.own
        \/ For(1) /\ shown' = sess.inbox[1].state
    BY <1>8, Updated
  <2>3. sess'.own => shown'.events <= cache[sess.sym]
    BY <2>1, <2>2
  <2>4. ASSUME NEW i \in DOMAIN sess'.inbox, For(i)'
        PROVE  /\ sess'.inbox[i].state.events <= cache[sess.sym]
               /\ sess'.own => shown'.events <= sess'.inbox[i].state.events
    <3>1. For(i + 1) /\ i + 1 \in DOMAIN sess.inbox /\ 1 <= i + 1
      BY <2>1, <2>4 DEF For
    <3> QED
      BY <2>1, <2>2, <3>1
  <2>5. ASSUME NEW i \in DOMAIN sess'.inbox, NEW j \in DOMAIN sess'.inbox,
               i <= j, For(i)', For(j)'
        PROVE  sess'.inbox[i].state.events <= sess'.inbox[j].state.events
    <3>1. /\ For(i + 1) /\ i + 1 \in DOMAIN sess.inbox
          /\ For(j + 1) /\ j + 1 \in DOMAIN sess.inbox /\ i + 1 <= j + 1
      BY <2>1, <2>5 DEF For
    <3> QED
      BY <2>1, <3>1
  <2> QED
    BY <2>1, <2>3, <2>4, <2>5
<1>9. ASSUME NEW ok \in BOOLEAN, SendInitial(ok) PROVE EventsInOrder'
  <2>1. /\ UNCHANGED <<mem, cache, viewerSnap, ownSnap>>
        /\ sess'.inbox = << >> /\ sess'.sym = sess.sym
    BY <1>9 DEF SendInitial, Begun
  <2>2. sess'.own => ownSnap /\ shown' = viewerSnap[sess.sym]
    BY <1>9 DEF SendInitial
  <2> QED
    BY <1>0, <2>1, <2>2
<1>10. ASSUME (\E s \in Watched : Connect(s)) \/ Disconnect PROVE EventsInOrder'
  <2>1. sess'.inbox = << >> /\ sess'.own = FALSE
    BY <1>10, Reset
  <2>2. UNCHANGED <<mem, cache, viewerSnap, ownSnap>>
    BY <1>10 DEF Connect, Disconnect
  <2> QED
    BY <2>1, <2>2
<1>11. ASSUME Restart PROVE EventsInOrder'
  <2>1. sess'.inbox = << >> /\ sess'.own = FALSE
    BY <1>11, Reset
  <2> QED
    BY <1>11, <2>1 DEF Restart, NoState
<1> QED
  BY <1>1, <1>2, <1>3, <1>5, <1>6, <1>7, <1>8, <1>9, <1>10, <1>11 DEF Next

(* Every step keeps memory ahead of the viewer snapshot.                   *)
LEMMA SnapshotNewestStep ==
  ASSUME Typed, Begun, InOrder, NothingNewer, SnapshotNewest, [Next]_vars
  PROVE  SnapshotNewest'
<1> SUFFICES ASSUME ~setFailed' PROVE SnapshotNewest'
  BY DEF SnapshotNewest
<1> USE DEF Typed, producer, broadcaster, client
<1>0. ~setFailed
  BY DEF Next, vars, Change, BeginPublication, Expire, Subscribe, Lose, Receive, SetSnapshot,
         Publish, Load, Save, Send, SendInitial, Update, Connect, Stream, Miss, Disconnect, Restart
<1> USE <1>0 DEF SnapshotNewest
<1>1. ASSUME UNCHANGED <<pub, smcSnap, mem, viewerSnap>>,
             bc'.inbox = bc.inbox \/ bc'.inbox = << >>
      PROVE  SnapshotNewest'
  BY <1>1
<1>2. Subscribe \/ Lose \/ Change
      \/ (\E ok \in BOOLEAN : (\E s \in Symbols : Send(s, ok)) \/ SendInitial(ok) \/ Update(ok))
      \/ (\E s \in Watched : Connect(s)) \/ Stream \/ Miss \/ Disconnect \/ UNCHANGED vars
        => /\ UNCHANGED <<pub, smcSnap, mem, viewerSnap>>
           /\ bc'.inbox = bc.inbox \/ bc'.inbox = << >>
  BY DEF Subscribe, Lose, Change, Send, SendInitial, Update, Connect, Stream, Miss,
         Disconnect, vars
<1>3. ASSUME BeginPublication PROVE SnapshotNewest'
  BY <1>3 DEF BeginPublication
<1>4. ASSUME Expire PROVE SnapshotNewest'
  BY <1>4 DEF Expire
<1>5. ASSUME NEW ok \in BOOLEAN, SetSnapshot(ok) PROVE SnapshotNewest'
  <2>1. Before(pub.v) /\ pub.v \in Nat /\ pub.pc = "set"
    BY <1>5 DEF SetSnapshot, NothingNewer, Coming
  <2>2. \A i \in DOMAIN bc.inbox : bc.inbox[i] <= pub.v
    BY <2>1 DEF InOrder
  <2>3. smcSnap' = pub.v /\ UNCHANGED <<bc, mem, viewerSnap>> /\ pub'.v = pub.v
    BY <1>5 DEF SetSnapshot
  <2> QED
    BY <2>1, <2>2, <2>3 DEF Before
<1>6. ASSUME NEW ok \in BOOLEAN, Publish(ok) PROVE SnapshotNewest'
  <2>1. pub.pc = "publish" /\ pub'.pc = "idle" /\ UNCHANGED <<smcSnap, mem, viewerSnap>>
    BY <1>6 DEF Publish, Ready, Idle
  <2>2. smcSnap \in {0, pub.v}
    BY <2>1
  <2>3. bc'.inbox = bc.inbox \/ bc'.inbox = Append(bc.inbox, pub.v)
    BY <1>6 DEF Publish
  <2>4. \A i \in DOMAIN bc'.inbox : bc'.inbox[i] = pub.v
                                    \/ (i \in DOMAIN bc.inbox /\ bc'.inbox[i] = bc.inbox[i])
    <3>1. CASE bc'.inbox = bc.inbox
      BY <3>1
    <3>2. CASE bc'.inbox = Append(bc.inbox, pub.v)
      BY <3>2, Appended
    <3> QED
      BY <2>3, <3>1, <3>2
  <2>5. \A i \in DOMAIN bc'.inbox : smcSnap # 0 => bc'.inbox[i] <= smcSnap
    <3>1. pub.v \in Nat /\ pub.v <= pub.v
      OBVIOUS
    <3> QED
      BY <2>2, <2>4, <3>1
  <2> QED
    BY <2>1, <2>5
<1>7. ASSUME NEW ok \in BOOLEAN, Load(ok) PROVE SnapshotNewest'
  <2>1. UNCHANGED <<pub, smcSnap, viewerSnap>> /\ bc'.inbox = << >>
    BY <1>7 DEF Load, Begun
  <2>2. CASE UNCHANGED <<mem, cache>>
    BY <1>1, <2>1, <2>2
  <2>3. CASE smcSnap > 0 /\ Remember(smcSnap)
    <3>1. \A s \in Symbols : viewerSnap[s].v <= smcSnap /\ mem[s] = NoState
      BY <1>7, <2>3 DEF Load, Begun
    <3>2. ASSUME NEW s \in Symbols PROVE mem'[s] = NoState \/ mem'[s].v = smcSnap
      <4>1. \/ mem'[s] = [v |-> smcSnap, events |-> cache'[s]]
            \/ mem'[s] = mem[s]
        BY <2>3, Remembered
      <4> QED
        BY <3>1, <4>1
    <3>3. ASSUME NEW s \in Symbols PROVE mem'[s].v <= smcSnap
      <4>1. CASE mem'[s] = NoState
        BY <4>1 DEF NoState
      <4>2. CASE mem'[s].v = smcSnap
        BY <4>2
      <4> QED
        BY <3>2, <4>1, <4>2
    <3>4. \A s \in Symbols : mem'[s] = NoState \/ viewerSnap[s].v <= mem'[s].v
      BY <3>1, <3>2
    <3> QED
      BY <2>1, <2>3, <3>1, <3>3, <3>4
  <2> QED
    BY <1>7, <2>2, <2>3 DEF Load
<1>8. ASSUME NEW ok \in BOOLEAN, Save(ok) PROVE SnapshotNewest'
  <2>1. /\ UNCHANGED <<pub, smcSnap, mem>> /\ bc'.inbox = bc.inbox
        /\ viewerSnap' = viewerSnap \/ viewerSnap' = mem
    BY <1>8 DEF Save
  <2>2. \A s \in Symbols : mem[s].v <= mem[s].v
    BY DEF Shots
  <2> QED
    BY <2>1, <2>2
<1>9. ASSUME Receive PROVE SnapshotNewest'
  <2> DEFINE h == Head(bc.inbox)
  <2>1. h \in Nat /\ Before(h) /\ (smcSnap = 0 \/ h <= smcSnap)
    <3>1. Head(bc.inbox) \in Nat /\ Head(bc.inbox) = bc.inbox[1] /\ 1 \in DOMAIN bc.inbox
      BY <1>9, Taken DEF Receive
    <3> QED
      BY <3>1 DEF NothingNewer, Coming
  <2>2. /\ UNCHANGED <<pub, smcSnap, viewerSnap>> /\ Remember(h)
        /\ \A i \in DOMAIN bc'.inbox : i + 1 \in DOMAIN bc.inbox
                                       /\ bc'.inbox[i] = bc.inbox[i + 1]
    BY <1>9, Taken DEF Receive
  <2> HIDE DEF h
  <2>3. ASSUME NEW s \in Symbols PROVE mem'[s].v = h \/ mem'[s] = mem[s]
    <3>1. \/ mem'[s] = [v |-> h, events |-> cache'[s]]
          \/ mem'[s] = mem[s]
      BY <2>1, <2>2, Remembered
    <3> QED
      BY <3>1
  <2>4. \A s \in Symbols : viewerSnap[s].v <= h
    BY <2>1 DEF Before
  <2>5. \A s \in Symbols : mem'[s] = NoState \/ viewerSnap[s].v <= mem'[s].v
    BY <2>3, <2>4
  <2>6. smcSnap # 0 => \A s \in Symbols : mem'[s].v <= smcSnap
    BY <2>1, <2>3
  <2>7. smcSnap # 0 => /\ \A s \in Symbols : viewerSnap[s].v <= smcSnap
                       /\ \A i \in DOMAIN bc'.inbox : bc'.inbox[i] <= smcSnap
    BY <2>2
  <2> QED
    BY <2>2, <2>5, <2>6, <2>7
<1>10. ASSUME Restart PROVE SnapshotNewest'
  <2>1. /\ UNCHANGED <<smcSnap, viewerSnap>> /\ pub'.pc = "idle" /\ bc'.inbox = << >>
        /\ mem' = [s \in Symbols |-> NoState]
    BY <1>10 DEF Restart, Idle, Unstarted
  <2> QED
    BY <2>1 DEF NoState
<1> QED
  BY <1>1, <1>2, <1>3, <1>4, <1>5, <1>6, <1>7, <1>8, <1>9, <1>10 DEF Next
-----------------------------------------------------------------------------
(* The inductive invariant holds throughout.                               *)
THEOREM PipelineSafe == Spec => []PipelineInv
<1>1. PipelineInv /\ [Next]_vars => PipelineInv'
  BY TypedStep, BegunStep, InOrderStep, NothingNewerStep, BatchNewestStep,
     SessionInOrderStep, EventsInOrderStep, SnapshotNewestStep DEF PipelineInv
<1> QED
  BY InvInit, <1>1, PTL DEF Spec

(* What a session shows never goes back to an older version, whatever is   *)
(* lost, fails or restarts (SessionForward).                               *)
THEOREM SessionsGoForward == Spec => SessionForward
<1>1. ASSUME PipelineInv, [Next]_vars, sess.pc # "closed", sess'.pc # "closed"
      PROVE  shown'.v >= shown.v
  <2> USE <1>1 DEF PipelineInv, Typed, producer, broadcaster, client
  <2>1. ASSUME NEW ok \in BOOLEAN, Update(ok) PROVE shown'.v >= shown.v
    <3>1. 1 \in DOMAIN sess.inbox
          /\ (shown' = shown \/ (For(1) /\ shown' = sess.inbox[1].state))
      BY <2>1, Updated
    <3> QED
      BY <3>1 DEF SessionInOrder, Shots
  <2>2. ASSUME NEW ok \in BOOLEAN, SendInitial(ok) PROVE shown'.v >= shown.v
    <3>1. shown.v = 0 /\ shown'.v \in Nat
      <4>1. sess.sym \in Symbols
        BY ViewerAssumption
      <4> QED
        BY <2>2, <4>1 DEF SendInitial, Begun, NoState, Shots
    <3> QED
      BY <3>1
  <2>3. ASSUME shown' = shown PROVE shown'.v >= shown.v
    BY <2>3 DEF Shots
  <2>4. \/ shown' = shown
        \/ \E ok \in BOOLEAN : Update(ok) \/ SendInitial(ok)
    <3>1. ~Disconnect /\ ~Restart
      BY ClosedType DEF Disconnect, Restart
    <3> QED
      BY <3>1 DEF Next, vars, Change, BeginPublication, Expire, Subscribe, Lose, Receive,
             SetSnapshot, Publish, Load, Save, Send, Connect, Stream, Miss
  <2> QED
    BY <2>1, <2>2, <2>3, <2>4
<1>2. PipelineInv /\ [Next]_vars
        => [sess.pc # "closed" /\ sess'.pc # "closed" => shown'.v >= shown.v]_vars
  BY <1>1
<1> QED
  BY <1>2, PipelineSafe, PTL DEF Spec, SessionForward

(* Events and zones on the screen do not become older ones within a        *)
(* process (NoFlicker).                                                    *)
THEOREM EventsDoNotFlicker == Spec => NoFlicker
<1>1. ASSUME PipelineInv, [Next]_vars, sess.pc # "closed", sess'.pc # "closed", sess.own
      PROVE  shown'.events >= shown.events
  <2> USE <1>1 DEF PipelineInv, Typed, producer, broadcaster, client
  <2>1. ASSUME NEW ok \in BOOLEAN, Update(ok) PROVE shown'.events >= shown.events
    <3>1. 1 \in DOMAIN sess.inbox
          /\ (shown' = shown \/ (For(1) /\ shown' = sess.inbox[1].state))
      BY <2>1, Updated
    <3> QED
      BY <3>1 DEF EventsInOrder, Shots
  <2>2. ASSUME NEW ok \in BOOLEAN PROVE ~SendInitial(ok)
    BY DEF SendInitial, Begun
  <2>3. ASSUME shown' = shown PROVE shown'.events >= shown.events
    BY <2>3 DEF Shots
  <2>4. shown' = shown \/ \E ok \in BOOLEAN : Update(ok)
    <3>1. ~Disconnect /\ ~Restart
      BY ClosedType DEF Disconnect, Restart
    <3> QED
      BY <2>2, <3>1 DEF Next, vars, Change, BeginPublication, Expire, Subscribe, Lose,
             Receive, SetSnapshot, Publish, Load, Save, Send, Connect, Stream, Miss
  <2> QED
    BY <2>1, <2>3, <2>4
<1>2. PipelineInv /\ [Next]_vars
        => [sess.pc # "closed" /\ sess'.pc # "closed" /\ sess.own
              => shown'.events >= shown.events]_vars
  BY <1>1
<1> QED
  BY <1>2, PipelineSafe, PTL DEF Spec, NoFlicker

(* Over restarts too, the viewer snapshot never replaces a state by an     *)
(* older one while the producer's SETs succeed (SnapshotForward).          *)
THEOREM SnapshotsGoForward == Spec => SnapshotForward
<1>1. ASSUME PipelineInv, [Next]_vars, NEW s \in Symbols,
             ~setFailed, viewerSnap'[s] # NoState
      PROVE  viewerSnap'[s].v >= viewerSnap[s].v
  <2> USE <1>1 DEF PipelineInv, Typed, producer, broadcaster, client
  <2>1. viewerSnap' = viewerSnap \/ viewerSnap' = mem
    BY DEF Next, vars, Change, BeginPublication, Expire, Subscribe, Lose, Receive,
           SetSnapshot, Publish, Load, Save, Send, SendInitial, Update, Connect, Stream,
           Miss, Disconnect, Restart
  <2>2. viewerSnap[s].v \in Nat /\ mem[s].v \in Nat
    BY DEF Shots
  <2> QED
    BY <2>1, <2>2 DEF SnapshotNewest
<1>2. PipelineInv /\ [Next]_vars
        => [\A s \in Symbols : setFailed \/ viewerSnap'[s] = NoState
                                 \/ viewerSnap'[s].v >= viewerSnap[s].v]_vars
  BY <1>1
<1> QED
  BY <1>2, PipelineSafe, PTL DEF Spec, SnapshotForward
=============================================================================
