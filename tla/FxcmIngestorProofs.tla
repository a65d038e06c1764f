------------------------- MODULE FxcmIngestorProofs -------------------------
(***************************************************************************)
(* Theorems about FxcmStatus and about FxcmIngestor, which composes it     *)
(* with the ingestor, for every value of their constants.                  *)
(***************************************************************************)
EXTENDS FxcmIngestor, FiniteSetTheorems, SequenceTheorems, TLAPS

-----------------------------------------------------------------------------
(* Part one: the feed state (FxcmStatus).                                  *)

(* A message in the inbox that will overwrite label l of the state.        *)
Says(m, l) == m.valid /\ m.report[l] # None

(* FollowsStatus is not inductive: that some message in the inbox carries  *)
(* the last report does not help if a later one carries an older report.   *)
(* Of the messages that say anything of l the last must say the truth, and *)
(* if there is none the state must.                                        *)
LastSays(l) ==
  \/ /\ \A i \in DOMAIN inbox : ~Says(inbox[i], l)
     /\ feed.report[l] = truth[l]
  \/ \E i \in DOMAIN inbox :
       /\ Says(inbox[i], l) /\ inbox[i].report[l] = truth[l]
       /\ \A j \in DOMAIN inbox : j > i => ~Says(inbox[j], l)

(* The types, with an empty inbox while the link is down.                  *)
Typed == StatusTypeOK /\ (link = "down" => inbox = << >>)

TruthInReach == \A l \in Labels \ missed : LastSays(l)

StatusInv == Typed /\ TruthInReach /\ OpenFollowsSession
-----------------------------------------------------------------------------
(* What a message brings is typed.                                         *)
LEMMA ReportType ==
  ASSUME NEW r \in Reports, NEW l \in Labels
  PROVE  r[l] \in Reported(l)
  BY DEF Reports

(* A function that gives each label a report of it is a state of labels.   *)
LEMMA ReportsIntro ==
  ASSUME NEW r, r = [l \in Labels |-> r[l]], \A l \in Labels : r[l] \in Reported(l)
  PROVE  r \in Reports
<1>1. \A l \in Labels : r[l] \in UNION {Reported(k) : k \in Labels}
  OBVIOUS
<1>2. r \in [Labels -> UNION {Reported(k) : k \in Labels}]
  BY <1>1
<1> QED
  BY <1>2 DEF Reports

(* Sticky labels of two reports are a report.                              *)
LEMMA StickyType ==
  ASSUME NEW old \in Reports, NEW new \in Reports
  PROVE  Sticky(old, new) \in Reports
<1>1. \A l \in Labels : Sticky(old, new)[l] \in Reported(l)
  BY ReportType DEF Sticky
<1>2. Sticky(old, new) = [l \in Labels |-> Sticky(old, new)[l]]
  BY DEF Sticky
<1> QED
  BY <1>1, <1>2, ReportsIntro

(* The state before the first message.                                     *)
LEMMA NothingType == Nothing \in Reports
<1>1. \A l \in Labels : Nothing[l] \in Reported(l)
  BY DEF Nothing, Reported
<1>2. Nothing = [l \in Labels |-> Nothing[l]]
  BY DEF Nothing
<1> QED
  BY <1>1, <1>2, ReportsIntro

(* A lag is a number of seconds not beyond the clock, or unknown.          *)
LEMMA LagType ==
  ASSUME NEW close \in Closes \cup {Absent}, now \in 0 .. MaxNow
  PROVE  Lag(close) \in -1 .. MaxNow
  BY NumbersAreNat, BoundsPositive DEF Lag, Absent

(* A session that is shown has seconds_to_open or none.                    *)
LEMMA OpenType ==
  ASSUME NEW s \in Sessions
  PROVE  SecondsToOpen(s) \in OpenIn \cup {Absent}
  BY DEF Sessions, NoSession, SecondsToOpen

(* Applying a message gives a feed state.                                  *)
LEMMA AppliedType ==
  ASSUME NEW f \in FeedStates, NEW m \in Messages, now \in 0 .. MaxNow
  PROVE  /\ Applied(f, m) \in FeedStates
         /\ Applied(f, m).report = Sticky(f.report, m.report)
         /\ Applied(f, m).to_open = SecondsToOpen(Applied(f, m).session)
<1> DEFINE session == IF m.session # NoSession THEN m.session ELSE f.session
<1>1. session \in Sessions
  BY DEF FeedStates, Messages
<1>2. Sticky(f.report, m.report) \in Reports
  BY StickyType DEF FeedStates, Messages
<1>3. Lag(f.last_close) \in -1 .. MaxNow
  BY LagType DEF FeedStates
<1>4. SecondsToOpen(session) \in OpenIn \cup {Absent}
  BY <1>1, OpenType
<1>5. Applied(f, m) = [f EXCEPT !.report = Sticky(f.report, m.report), !.session = session,
                                !.to_open = SecondsToOpen(session), !.lag = Lag(f.last_close)]
  BY DEF Applied
<1> HIDE DEF session
<1> QED
  BY <1>1, <1>2, <1>3, <1>4, <1>5 DEF FeedStates
-----------------------------------------------------------------------------
(* Backing off stays within its bounds.                                    *)
LEMMA BackoffType ==
  ASSUME NEW b \in 1 .. MaxBackoff
  PROVE  (IF 2 * b < MaxBackoff THEN 2 * b ELSE MaxBackoff) \in 1 .. MaxBackoff
  BY BoundsPositive

(* The types hold at the start, and the queue of a closed link is empty.   *)
LEMMA TypedInit == StatusInit => Typed
<1> SUFFICES ASSUME StatusInit PROVE Typed
  OBVIOUS
<1>1. feed \in FeedStates
  BY NothingType, BoundsPositive DEF StatusInit, FeedStates, Sessions, Absent
<1> QED
  BY <1>1, NothingType, BoundsPositive DEF StatusInit, Typed, StatusTypeOK

(* Every step keeps the types.                                             *)
LEMMA TypedStep ==
  ASSUME Typed, [StatusNext]_statusVars
  PROVE  Typed'
<1> USE DEF Typed, StatusTypeOK
<1>1. ASSUME NEW m \in Messages, Publish(m) PROVE Typed'
  <2>1. \A l \in Labels : m.report[l] \in Reported(l) /\ truth[l] \in Reported(l)
    BY ReportType DEF Messages
  <2>2. truth' = [l \in Labels |-> IF m.valid /\ m.report[l] # None THEN m.report[l] ELSE truth[l]]
    BY <1>1 DEF Publish
  <2>3. truth' \in Reports
    BY <2>1, <2>2, ReportsIntro
  <2>4. inbox' \in Seq(Messages \cup {Subscribed}) /\ (link' = "down" => inbox' = << >>)
    BY <1>1 DEF Publish
  <2>5. missed' \subseteq Labels
    BY <1>1 DEF Publish
  <2> QED
    BY <1>1, <2>3, <2>4, <2>5 DEF Publish
<1>2. ASSUME Receive PROVE Typed'
  <2>1. Head(inbox) \in Messages \cup {Subscribed} /\ Tail(inbox) \in Seq(Messages \cup {Subscribed})
    BY <1>2, HeadTailProperties DEF Receive
  <2>2. Head(inbox).valid => Head(inbox) \in Messages
    BY <2>1 DEF Subscribed
  <2>3. feed' \in FeedStates
    BY <1>2, <2>2, AppliedType DEF Receive
  <2> QED
    BY <1>2, <2>1, <2>3, BoundsPositive DEF Receive
<1>3. ASSUME Disconnect PROVE Typed'
  BY <1>3, BackoffType, EmptySeq DEF Disconnect
<1>4. ASSUME Subscribe PROVE Typed'
  BY <1>4 DEF Subscribe
<1>5. ASSUME SubscribeFails PROVE Typed'
  BY <1>5, BackoffType DEF SubscribeFails
<1>6. ASSUME NEW close \in Closes, NoteBarClose(close) PROVE Typed'
  <2>1. Lag(close) \in -1 .. MaxNow
    BY LagType
  <2>2. feed' = [feed EXCEPT !.last_close = close, !.lag = Lag(close)]
    BY <1>6 DEF NoteBarClose, Noted
  <2>3. feed' \in FeedStates
    BY <2>1, <2>2 DEF FeedStates
  <2> QED
    BY <1>6, <2>3 DEF NoteBarClose
<1>7. ASSUME Clock PROVE Typed'
  BY <1>7, BoundsPositive DEF Clock
<1>8. ASSUME UNCHANGED statusVars PROVE Typed'
  BY <1>8 DEF statusVars
<1> QED
  BY <1>1, <1>2, <1>3, <1>4, <1>5, <1>6, <1>7, <1>8 DEF StatusNext, StatusWorld
-----------------------------------------------------------------------------
(* What a message says is a value, so it is not what the label is without  *)
(* one; and the first thing a subscription yields says nothing.            *)
LEMMA SubscribedSaysNothing == \A l \in Labels : ~Says(Subscribed, l)
  BY DEF Says, Subscribed

(* A publication leaves the last word on l to whoever had it, unless it    *)
(* takes it or reaches nobody.                                             *)
LEMMA PublishStep ==
  ASSUME Typed, TruthInReach, NEW m \in Messages, Publish(m)
  PROVE  TruthInReach'
<1> SUFFICES ASSUME NEW l \in Labels, l \notin missed' PROVE LastSays(l)'
  BY DEF TruthInReach
<1> USE DEF Typed, StatusTypeOK
<1>1. feed' = feed /\ link' = link
  BY DEF Publish
<1>2. CASE link = "up"
  <2>1. /\ inbox' = Append(inbox, m)
        /\ DOMAIN inbox = 1 .. Len(inbox) /\ DOMAIN inbox' = 1 .. Len(inbox) + 1
        /\ Len(inbox) \in Nat
        /\ inbox'[Len(inbox) + 1] = m
        /\ \A i \in DOMAIN inbox : inbox'[i] = inbox[i]
    BY <1>2 DEF Publish
  <2>2. CASE Says(m, l)
    <3>1. truth'[l] = m.report[l]
      BY <2>2 DEF Publish, Says
    <3>2. \A j \in DOMAIN inbox' : ~(j > Len(inbox) + 1)
      BY <2>1
    <3> QED
      BY <2>1, <2>2, <3>1, <3>2 DEF LastSays
  <2>3. CASE ~Says(m, l)
    <3>1. truth'[l] = truth[l] /\ l \notin missed
      BY <1>2, <2>3 DEF Publish, Says
    <3>2. CASE \A i \in DOMAIN inbox : ~Says(inbox[i], l)
      <4>1. \A i \in DOMAIN inbox' : ~Says(inbox'[i], l)
        BY <2>1, <2>3, <3>2
      <4>2. feed.report[l] = truth[l]
        BY <3>1, <3>2 DEF TruthInReach, LastSays
      <4> QED
        BY <1>1, <3>1, <4>1, <4>2 DEF LastSays
    <3>3. CASE \E i \in DOMAIN inbox : Says(inbox[i], l)
      <4>1. PICK i \in DOMAIN inbox :
              /\ Says(inbox[i], l) /\ inbox[i].report[l] = truth[l]
              /\ \A j \in DOMAIN inbox : j > i => ~Says(inbox[j], l)
        BY <3>1, <3>3 DEF TruthInReach, LastSays
      <4>2. i \in DOMAIN inbox' /\ Says(inbox'[i], l) /\ inbox'[i].report[l] = truth'[l]
        BY <2>1, <3>1, <4>1
      <4>3. \A j \in DOMAIN inbox' : j > i => ~Says(inbox'[j], l)
        BY <2>1, <2>3, <4>1
      <4> QED
        BY <4>2, <4>3 DEF LastSays
    <3> QED
      BY <3>2, <3>3
  <2> QED
    BY <2>2, <2>3
<1>3. CASE link # "up"
  <2>1. /\ inbox' = inbox /\ l \notin missed
        /\ truth'[l] = truth[l]
    BY <1>3 DEF Publish
  <2> QED
    BY <1>1, <2>1 DEF TruthInReach, LastSays
<1> QED
  BY <1>2, <1>3

(* What is handled goes into the state; the rest keeps the last word.      *)
LEMMA ReceiveStep ==
  ASSUME Typed, TruthInReach, Receive
  PROVE  TruthInReach'
<1> SUFFICES ASSUME NEW l \in Labels, l \notin missed' PROVE LastSays(l)'
  BY DEF TruthInReach
<1> USE DEF Typed, StatusTypeOK
<1>1. /\ inbox' = Tail(inbox)
      /\ DOMAIN inbox = 1 .. Len(inbox) /\ Len(inbox) \in Nat \ {0}
      /\ DOMAIN inbox' = 1 .. Len(inbox) - 1
      /\ \A i \in DOMAIN inbox' : inbox'[i] = inbox[i + 1]
      /\ Head(inbox) = inbox[1] /\ Head(inbox) \in Messages \cup {Subscribed}
  BY HeadTailProperties DEF Receive
<1>2. l \notin missed /\ truth' = truth
  BY DEF Receive
<1>3. feed'.report[l] = IF Says(inbox[1], l) THEN inbox[1].report[l] ELSE feed.report[l]
  <2>1. CASE inbox[1].valid
    <3>1. inbox[1] \in Messages
      BY <1>1, <2>1 DEF Subscribed
    <3>2. feed' = Applied(feed, inbox[1])
      BY <1>1, <2>1 DEF Receive
    <3>3. feed'.report = Sticky(feed.report, inbox[1].report)
      BY <3>1, <3>2, AppliedType
    <3> QED
      BY <2>1, <3>3 DEF Sticky, Says
  <2>2. CASE ~inbox[1].valid
    BY <1>1, <2>2 DEF Receive, Says
  <2> QED
    BY <2>1, <2>2
<1>4. CASE \A i \in DOMAIN inbox : ~Says(inbox[i], l)
  <2>1. \A i \in DOMAIN inbox' : ~Says(inbox'[i], l)
    BY <1>1, <1>4
  <2>2. feed.report[l] = truth[l]
    BY <1>2, <1>4 DEF TruthInReach, LastSays
  <2> QED
    BY <1>1, <1>2, <1>3, <1>4, <2>1, <2>2 DEF LastSays
<1>5. CASE \E i \in DOMAIN inbox : Says(inbox[i], l)
  <2>1. PICK i \in DOMAIN inbox :
          /\ Says(inbox[i], l) /\ inbox[i].report[l] = truth[l]
          /\ \A j \in DOMAIN inbox : j > i => ~Says(inbox[j], l)
    BY <1>2, <1>5 DEF TruthInReach, LastSays
  <2>2. CASE i = 1
    <3>1. \A k \in DOMAIN inbox' : ~Says(inbox'[k], l)
      BY <1>1, <2>1, <2>2
    <3> QED
      BY <1>2, <1>3, <2>1, <2>2, <3>1 DEF LastSays
  <2>3. CASE i # 1
    <3>1. i - 1 \in DOMAIN inbox' /\ inbox'[i - 1] = inbox[i]
      BY <1>1, <2>3
    <3>2. \A k \in DOMAIN inbox' : k > i - 1 => ~Says(inbox'[k], l)
      BY <1>1, <2>1
    <3> QED
      BY <1>2, <2>1, <3>1, <3>2 DEF LastSays
  <2> QED
    BY <2>2, <2>3
<1> QED
  BY <1>4, <1>5

(* What a lost connection takes with it is counted as missed.              *)
LEMMA DisconnectStep ==
  ASSUME Typed, TruthInReach, Disconnect
  PROVE  TruthInReach'
<1> SUFFICES ASSUME NEW l \in Labels, l \notin missed' PROVE LastSays(l)'
  BY DEF TruthInReach
<1>1. /\ inbox' = << >> /\ feed' = feed /\ truth' = truth /\ l \notin missed
      /\ \A i \in DOMAIN inbox : ~Says(inbox[i], l)
  BY DEF Disconnect, Says
<1>2. feed.report[l] = truth[l]
  BY <1>1 DEF TruthInReach, LastSays
<1> QED
  BY <1>1, <1>2 DEF LastSays

(* Every step keeps the whole invariant.                                   *)
LEMMA InvStep ==
  ASSUME StatusInv, [StatusNext]_statusVars
  PROVE  StatusInv'
<1> USE DEF StatusInv
<1>0. Typed'
  BY TypedStep
<1>1. ASSUME NEW m \in Messages, Publish(m) PROVE StatusInv'
  BY <1>0, <1>1, PublishStep DEF OpenFollowsSession, Publish
<1>2. ASSUME Receive PROVE StatusInv'
  <2>1. Head(inbox) \in Messages \cup {Subscribed}
    BY <1>2, HeadTailProperties DEF Receive, Typed, StatusTypeOK
  <2>2. Head(inbox).valid => Head(inbox) \in Messages
    BY <2>1 DEF Subscribed
  <2>3. OpenFollowsSession'
    BY <1>2, <2>2, AppliedType DEF Receive, OpenFollowsSession, Typed, StatusTypeOK
  <2> QED
    BY <1>0, <1>2, <2>3, ReceiveStep
<1>3. ASSUME Disconnect PROVE StatusInv'
  BY <1>0, <1>3, DisconnectStep DEF OpenFollowsSession, Disconnect
<1>4. ASSUME Subscribe PROVE StatusInv'
  <2>1. inbox = << >> /\ inbox' = <<Subscribed>> /\ UNCHANGED <<feed, truth, missed>>
    BY <1>4 DEF Subscribe, Typed
  <2>2. \A l \in Labels \ missed : feed.report[l] = truth[l]
    BY <2>1 DEF TruthInReach, LastSays
  <2>3. TruthInReach'
    BY <2>1, <2>2, SubscribedSaysNothing DEF TruthInReach, LastSays
  <2> QED
    BY <1>0, <2>1, <2>3 DEF OpenFollowsSession
<1>5. ASSUME NEW close \in Closes, NoteBarClose(close) PROVE StatusInv'
  <2>1. /\ feed'.report = feed.report /\ feed'.session = feed.session
        /\ feed'.to_open = feed.to_open
        /\ UNCHANGED <<inbox, truth, missed>>
    BY <1>5 DEF NoteBarClose, Noted, Typed, StatusTypeOK, FeedStates
  <2> QED
    BY <1>0, <2>1 DEF TruthInReach, LastSays, OpenFollowsSession
<1>6. ASSUME UNCHANGED <<feed, inbox, truth, missed>> PROVE StatusInv'
  BY <1>0, <1>6 DEF TruthInReach, LastSays, OpenFollowsSession
<1>7. SubscribeFails \/ Clock \/ UNCHANGED statusVars
         => UNCHANGED <<feed, inbox, truth, missed>>
  BY DEF SubscribeFails, Clock, statusVars
<1> QED
  BY <1>1, <1>2, <1>3, <1>4, <1>5, <1>6, <1>7 DEF StatusNext, StatusWorld

(* The invariant holds before the first message.                           *)
LEMMA InvInit == StatusInit => StatusInv
<1> SUFFICES ASSUME StatusInit PROVE StatusInv
  OBVIOUS
<1>1. TruthInReach
  BY DEF StatusInit, TruthInReach, LastSays
<1>2. OpenFollowsSession
  BY DEF StatusInit, OpenFollowsSession, SecondsToOpen, NoSession, Absent
<1> QED
  BY <1>1, <1>2, TypedInit DEF StatusInv

(* The inductive invariant holds throughout.                               *)
THEOREM StatusSafe == StatusSpec => []StatusInv
<1> QED
  BY InvInit, InvStep, PTL DEF StatusSpec

(* The feed state is typed: lag and seconds_to_open are what the UI and    *)
(* the producer expect, and back-off stays within its bounds.              *)
THEOREM StatusTypeCorrect == StatusSpec => []StatusTypeOK
<1>1. StatusInv => StatusTypeOK
  BY DEF StatusInv, Typed
<1> QED
  BY <1>1, StatusSafe, PTL

(* Once everything received is handled, each label shows the connector's   *)
(* last report of it, unless that one was lost (FollowsStatus).            *)
THEOREM StatusFollows == StatusSpec => []FollowsStatus
<1>1. StatusInv => FollowsStatus
  BY DEF StatusInv, TruthInReach, LastSays, Says, FollowsStatus
<1> QED
  BY <1>1, StatusSafe, PTL

(* seconds_to_open is that of the session shown (OpenFollowsSession).      *)
THEOREM OpenIsTheSessions == StatusSpec => []OpenFollowsSession
<1>1. StatusInv => OpenFollowsSession
  BY DEF StatusInv
<1> QED
  BY <1>1, StatusSafe, PTL
-----------------------------------------------------------------------------
(* Part two: the bars.                                                     *)

(* LiveBarsKept and CompleteWins are not inductive: what Take does to the  *)
(* last live bar depends on what is still in the queue.  The invariant     *)
(* orders the reports of a pair along last live bar, queue and market, so  *)
(* that a live bar that is rolled out is older than all that follows.      *)

(* One report of a pair's bar is no newer than another.                    *)
Before(b, c) == b.open < c.open \/ (b.open = c.open /\ b.content <= c.content)

Lives(m) == ValidBars(m, FALSE)
ClosedBars(m) == ValidBars(m, TRUE)

(* What the connector sends: complete bars, then at most one live report;  *)
(* in a bad payload not one bar is valid.                                  *)
Shaped(m) ==
  /\ \A i \in DOMAIN m.bars : i < Len(m.bars) => m.bars[i].complete
  /\ (\A i \in DOMAIN m.bars : m.bars[i].valid) \/ (\A i \in DOMAIN m.bars : ~m.bars[i].valid)
  /\ \A b \in ClosedBars(m) : b.content = Full

(* The bars being stored for p.                                            *)
Stores(p) == putting # NoPut /\ putting.pair = p
StoringOpens(p) == IF Stores(p) THEN DOMAIN putting.bars ELSE {}

(* A live report in the queue is no older than anything of its pair that   *)
(* was reported before it, nor newer than the bar being traded.            *)
LiveIsLast(m) ==
  LET p == m.pair IN
  \A b \in Lives(m) :
    /\ Before(b, forming[p])
    /\ live[p] # NoBar => Before(live[p], b)
    /\ \A t \in DOMAIN uds[p] \cup StoringOpens(p) : t < b.open
    /\ \A c \in ClosedBars(m) : c.open < b.open

(* Complete bars were sent after their close.                              *)
ClosedBefore(m) == \A c \in ClosedBars(m) : c.open < forming[m.pair].open

(* Payloads of a pair are in the order of its live reports.                *)
InOrder(m, n) ==
  m.pair = n.pair =>
    \A c \in Lives(n) :
      /\ \A b \in Lives(m) : Before(b, c)
      /\ \A b \in ClosedBars(m) : b.open < c.open

QueueInv ==
  /\ \A i \in DOMAIN ohlcv :
       Shaped(ohlcv[i]) /\ LiveIsLast(ohlcv[i]) /\ ClosedBefore(ohlcv[i])
  /\ \A i, j \in DOMAIN ohlcv : i < j => InOrder(ohlcv[i], ohlcv[j])

(* The last live bar is behind the market and not yet finalised.           *)
LiveInv(p) ==
  IF live[p] = NoBar THEN finalised[p] = 0
  ELSE Before(live[p], forming[p]) /\ finalised[p] < live[p].open

(* What is on its way to the store is as good as what was seen.            *)
SeenInv(p) ==
  /\ DOMAIN seen[p] \subseteq DOMAIN uds[p] \cup {live[p].open} \cup StoringOpens(p)
  /\ live[p].open \in DOMAIN seen[p] => seen[p][live[p].open] <= live[p].content
  /\ \A t \in DOMAIN uds[p] \cap DOMAIN seen[p] : uds[p][t] >= seen[p][t]
  /\ \A t \in StoringOpens(p) \cap DOMAIN seen[p] : putting.bars[t] >= seen[p][t]

(* A complete bar is in the store, or is being put there.                  *)
CompletedInv(p) ==
  \A t \in completed[p] :
    IF t \in DOMAIN uds[p] THEN uds[p][t] = Full
    ELSE t \in StoringOpens(p) /\ putting.bars[t] = Full

(* The types of the ingestor's variables.                                  *)
IngestTyped ==
  /\ forming \in [Pairs -> Bars]
  /\ ohlcv \in Seq(Payloads)
  /\ live \in [Pairs -> Bars \cup {NoBar}]
  /\ finalised \in [Pairs -> Opens \cup {0}]
  /\ putting \in [pair : Pairs, bars : Series] \cup {NoPut}
  /\ uds \in [Pairs -> Series]
  /\ announced \in [Pairs -> Opens \cup {0}]
  /\ seen \in [Pairs -> Series]
  /\ completed \in [Pairs -> SUBSET Opens]

(* The inductive invariant.                                                *)
IInv ==
  /\ IngestTyped
  /\ putting # NoPut => DOMAIN putting.bars # {}
  /\ QueueInv
  /\ OpenBarStaysOut
  /\ \A p \in Pairs : LiveInv(p) /\ SeenInv(p) /\ CompletedInv(p)
-----------------------------------------------------------------------------
(* Induction: a set of numbers with zero and each successor is all of them.*)
LEMMA NatSetInduction ==
  ASSUME NEW S, 0 \in S, \A n \in Nat : n \in S => n + 1 \in S
  PROVE  Nat \subseteq S
<1> DEFINE T == Nat \ S
           R == OpToRel(<, Nat)
<1> SUFFICES ASSUME T # {} PROVE FALSE
  OBVIOUS
<1>1. IsWellFoundedOn(R, Nat)
  BY NatLessThanWellFounded
<1>2. T \subseteq Nat
  OBVIOUS
<1>3. PICK x \in T : \A y \in T : ~ (<<y, x>> \in R)
  <2> HIDE DEF T, R
  <2> QED
    BY <1>1, <1>2, WFMin
<1>4. x \in Nat /\ x # 0
  OBVIOUS
<1>5. x - 1 \in Nat /\ x - 1 \notin S
  BY <1>4
<1>6. <<x - 1, x>> \in R
  BY <1>4, <1>5 DEF OpToRel
<1> QED
  BY <1>3, <1>5, <1>6

(* A set of numbers that is not empty has a least element.                 *)
LEMMA LeastNumber ==
  ASSUME NEW S, S \subseteq Nat, S # {}
  PROVE  \E x \in S : \A y \in S : x <= y
<1> DEFINE R == OpToRel(<, Nat)
<1>1. IsWellFoundedOn(R, Nat)
  BY NatLessThanWellFounded
<1>2. PICK x \in S : \A y \in S : ~ (<<y, x>> \in R)
  <2> HIDE DEF R
  <2> QED
    BY <1>1, WFMin
<1>3. \A y \in S : ~ (y < x)
  BY <1>2 DEF OpToRel
<1> QED
  BY <1>3

(* A bounded one has a greatest.                                           *)
LEMMA GreatestNumber ==
  ASSUME NEW n \in Nat, NEW S, S \subseteq 1 .. n, S # {}
  PROVE  \E x \in S : \A y \in S : y <= x
<1> DEFINE B == {u \in Nat : \A y \in S : y <= u}
<1>1. B \subseteq Nat /\ n \in B
  OBVIOUS
<1>2. PICK x \in B : \A u \in B : x <= u
  <2> HIDE DEF B
  <2> QED
    BY <1>1, LeastNumber
<1>3. x \in S
  <2> SUFFICES ASSUME x \notin S PROVE FALSE
    OBVIOUS
  <2>1. x \in Nat /\ \A y \in S : y \in Nat /\ y <= x /\ y # x
    OBVIOUS
  <2>2. x # 0
    <3>1. PICK y \in S : TRUE
      OBVIOUS
    <3> QED
      BY <2>1, <3>1
  <2>3. x - 1 \in B
    BY <2>1, <2>2
  <2> QED
    BY <1>2, <2>1, <2>3
<1> QED
  BY <1>3

(* What holds of the work before the first bar of a payload, and after each*)
(* bar if it held before, holds after the last.                            *)
LEMMA HandledInduction ==
  ASSUME NEW c, NEW q, NEW n \in Nat, DOMAIN q = 1 .. n, NEW P, c \in P[0],
         \A i \in 1 .. n : \A w \in P[i - 1] : Handled(w, q[i]) \in P[i]
  PROVE  FoldLeft(Handled, c, q) \in P[n]
<1> DEFINE Folds(f, k) == f = [s \in SUBSET (1 .. k) |->
             IF s = {} THEN c ELSE Handled(f[s \ {Max(s)}], q[Max(s)])]
<1>1. \E f : Folds(f, n)
  <2> DEFINE S == {k \in Nat : \E f : Folds(f, k)}
  <2>1. 0 \in S
    <3> DEFINE f == [s \in SUBSET (1 .. 0) |-> c]
    <3>1. \A s \in SUBSET (1 .. 0) : s = {}
      OBVIOUS
    <3>2. Folds(f, 0)
      BY <3>1
    <3> QED
      BY <3>2
  <2>2. ASSUME NEW k \in Nat, k \in S PROVE k + 1 \in S
    <3>1. PICK f : Folds(f, k)
      BY <2>2
    <3> DEFINE g == [s \in SUBSET (1 .. k + 1) |->
                 IF k + 1 \in s THEN Handled(f[s \ {k + 1}], q[k + 1]) ELSE f[s]]
    <3>2. ASSUME NEW s \in SUBSET (1 .. k + 1)
          PROVE  g[s] = IF s = {} THEN c ELSE Handled(g[s \ {Max(s)}], q[Max(s)])
      <4>1. CASE k + 1 \in s
        <5>1. k + 1 \in s /\ \A y \in s : k + 1 >= y
          BY <4>1
        <5>2. Max(s) \in s /\ \A y \in s : Max(s) >= y
          BY <5>1 DEF Max
        <5>3. Max(s) = k + 1
          <6>1. Max(s) \in 1 .. k + 1 /\ Max(s) >= k + 1
            BY <5>1, <5>2
          <6> QED
            BY <6>1
        <5>4. s \ {k + 1} \in SUBSET (1 .. k + 1) /\ k + 1 \notin s \ {k + 1}
          OBVIOUS
        <5>5. g[s \ {k + 1}] = f[s \ {k + 1}]
          BY <5>4
        <5>6. g[s] = Handled(f[s \ {k + 1}], q[k + 1])
          BY <4>1
        <5> HIDE DEF g, Folds
        <5> QED
          BY <4>1, <5>3, <5>5, <5>6
      <4>2. CASE k + 1 \notin s
        <5>1. s \in SUBSET (1 .. k) /\ s \ {Max(s)} \in SUBSET (1 .. k)
          <6>1. \A x \in s : x \in 1 .. k + 1 /\ x # k + 1
            BY <4>2
          <6>2. \A x \in s : x \in 1 .. k
            BY <6>1
          <6> QED
            BY <6>2
        <5>2. g[s] = f[s] /\ g[s \ {Max(s)}] = f[s \ {Max(s)}]
          BY <4>2
        <5>3. f[s] = IF s = {} THEN c ELSE Handled(f[s \ {Max(s)}], q[Max(s)])
          BY <3>1, <5>1
        <5> HIDE DEF g, Folds
        <5> QED
          BY <5>2, <5>3
      <4> QED
        BY <4>1, <4>2
    <3>3. g = [s \in SUBSET (1 .. k + 1) |-> g[s]]
      OBVIOUS
    <3>4. Folds(g, k + 1)
      <4> HIDE DEF g
      <4> QED
        BY <3>2, <3>3
    <3> HIDE DEF g, Folds
    <3> QED
      BY <3>4
  <2> HIDE DEF S
  <2>3. Nat \subseteq S
    BY <2>1, <2>2, NatSetInduction
  <2> QED
    BY <2>3 DEF S
<1> DEFINE iter == CHOOSE f : f = [s \in SUBSET DOMAIN q |->
             IF s = {} THEN c ELSE Handled(f[s \ {Max(s)}], q[Max(s)])]
<1>2. FoldLeft(Handled, c, q) = iter[DOMAIN q]
  BY Zenon DEF FoldLeft, MapThenFoldSet
<1>3. iter = [s \in SUBSET (1 .. n) |->
         IF s = {} THEN c ELSE Handled(iter[s \ {Max(s)}], q[Max(s)])]
  BY <1>1, Zenon
<1> HIDE DEF iter
<1> DEFINE S == {k \in Nat : k <= n => iter[1 .. k] \in P[k]}
<1>4. 0 \in S
  <2>1. 1 .. 0 = {} /\ 1 .. 0 \in SUBSET (1 .. n)
    OBVIOUS
  <2> QED
    BY <1>3, <2>1
<1>5. ASSUME NEW k \in Nat, k \in S PROVE k + 1 \in S
  <2> SUFFICES ASSUME k + 1 <= n PROVE iter[1 .. k + 1] \in P[k + 1]
    OBVIOUS
  <2> DEFINE s == 1 .. k + 1
  <2>1. k + 1 \in s /\ \A y \in s : k + 1 >= y
    OBVIOUS
  <2>2. Max(s) \in s /\ \A y \in s : Max(s) >= y
    BY <2>1 DEF Max
  <2>3. Max(s) = k + 1
    BY <2>1, <2>2
  <2>4. s \ {k + 1} = 1 .. k /\ s # {} /\ s \in SUBSET (1 .. n)
    <3>1. \A x : x \in s \ {k + 1} <=> x \in 1 .. k
      OBVIOUS
    <3>2. \A x \in s : x \in 1 .. n
      OBVIOUS
    <3> HIDE DEF s
    <3> QED
      BY <2>1, <3>1, <3>2
  <2>5. iter[s] = Handled(iter[1 .. k], q[k + 1])
    <3> HIDE DEF s
    <3> QED
      BY <1>3, <2>3, <2>4
  <2>6. iter[1 .. k] \in P[k] /\ k + 1 \in 1 .. n /\ (k + 1) - 1 = k
    BY <1>5
  <2> QED
    BY <2>5, <2>6
<1>6. Nat \subseteq S
  <2> HIDE DEF S
  <2> QED
    BY <1>4, <1>5, NatSetInduction
<1> QED
  BY <1>2, <1>6
-----------------------------------------------------------------------------
(* A series gives contents to some opens.                                  *)
LEMMA SeriesIs ==
  ASSUME NEW s
  PROVE  s \in Series <=>
           /\ DOMAIN s \subseteq Opens /\ s = [t \in DOMAIN s |-> s[t]]
           /\ \A t \in DOMAIN s : s[t] \in Contents
<1>1. ASSUME s \in Series
      PROVE  /\ DOMAIN s \subseteq Opens /\ s = [t \in DOMAIN s |-> s[t]]
             /\ \A t \in DOMAIN s : s[t] \in Contents
  <2>1. PICK T \in SUBSET Opens : s \in [T -> Contents]
    BY <1>1 DEF Series
  <2> QED
    BY <2>1
<1>2. ASSUME DOMAIN s \subseteq Opens, s = [t \in DOMAIN s |-> s[t]],
             \A t \in DOMAIN s : s[t] \in Contents
      PROVE  s \in Series
  <2>1. s \in [DOMAIN s -> Contents] /\ DOMAIN s \in SUBSET Opens
    BY <1>2
  <2> QED
    BY <2>1 DEF Series
<1> QED
  BY <1>1, <1>2

(* The frame has each open_time that is put out, with the contents of the  *)
(* first bar of it.                                                        *)
LEMMA FrameIsFirst ==
  ASSUME NEW out \in Seq(Bars)
  PROVE  /\ DOMAIN Frame(out) = {out[i].open : i \in DOMAIN out}
         /\ Frame(out) \in Series
         /\ \A t \in DOMAIN Frame(out) : \E i \in DOMAIN out :
              /\ out[i].open = t /\ Frame(out)[t] = out[i].content
              /\ \A j \in DOMAIN out : out[j].open = t => i <= j
<1> DEFINE T == {out[i].open : i \in DOMAIN out}
           first(t) == SelectInSeq(out, LAMBDA b : b.open = t)
<1>1. Frame(out) = [t \in T |-> out[first(t)].content]
  BY DEF Frame
<1>2. ASSUME NEW t \in T
      PROVE  /\ first(t) \in DOMAIN out /\ out[first(t)].open = t
             /\ \A j \in DOMAIN out : out[j].open = t => first(t) <= j
  <2> DEFINE I == {i \in 1 .. Len(out) : out[i].open = t}
  <2>1. DOMAIN out = 1 .. Len(out)
    OBVIOUS
  <2>2. I # {} /\ I \subseteq Nat
    BY <2>1
  <2>3. first(t) = IF I # {} THEN Min(I) ELSE 0
    BY DEF SelectInSeq
  <2> HIDE DEF I, first
  <2>4. \E x \in I : \A y \in I : x <= y
    BY <2>2, LeastNumber
  <2>5. Min(I) \in I /\ \A y \in I : Min(I) <= y
    BY <2>4 DEF Min
  <2>6. first(t) \in I /\ \A y \in I : first(t) <= y
    BY <2>2, <2>3, <2>5
  <2> QED
    BY <2>1, <2>6 DEF I
<1>3. \A i \in DOMAIN out : out[i] \in Bars /\ out[i].open \in Opens /\ out[i].content \in Contents
  <2>1. \A i \in DOMAIN out : out[i] \in Bars
    OBVIOUS
  <2> QED
    BY <2>1 DEF Bars
<1> HIDE DEF first
<1>4. DOMAIN Frame(out) = T /\ \A t \in T : Frame(out)[t] = out[first(t)].content
  BY <1>1
<1>5. T \subseteq Opens
  BY <1>3
<1>6. \A t \in T : Frame(out)[t] \in Contents
  BY <1>2, <1>3, <1>4
<1>7. Frame(out) = [t \in T |-> Frame(out)[t]]
  BY <1>1
<1>8. Frame(out) \in Series
  BY <1>4, <1>5, <1>6, <1>7, SeriesIs
<1>9. ASSUME NEW t \in T
      PROVE  \E i \in DOMAIN out :
              /\ out[i].open = t /\ Frame(out)[t] = out[i].content
              /\ \A j \in DOMAIN out : out[j].open = t => i <= j
  BY <1>2, <1>4
<1> QED
  BY <1>4, <1>8, <1>9

(* The bars of the complete entries of a payload are its closed bars.      *)
LEMMA EntriesOf ==
  ASSUME NEW m \in Payloads
  PROVE  /\ m.bars \in Seq(Entries) /\ m.pair \in Pairs
         /\ DOMAIN m.bars = 1 .. Len(m.bars) /\ Len(m.bars) \in Nat
         /\ \A i \in DOMAIN m.bars :
              /\ m.bars[i].bar \in Bars
              /\ m.bars[i].valid \in BOOLEAN /\ m.bars[i].complete \in BOOLEAN
         /\ ClosedBars(m) = {m.bars[i].bar : i \in {j \in DOMAIN m.bars :
              m.bars[j].valid /\ m.bars[j].complete}}
         /\ Lives(m) = {m.bars[i].bar : i \in {j \in DOMAIN m.bars :
              m.bars[j].valid /\ ~m.bars[j].complete}}
<1>1. m.bars \in Seq(Entries) /\ m.pair \in Pairs
  BY DEF Payloads
<1>2. ASSUME NEW i \in DOMAIN m.bars
      PROVE  /\ m.bars[i].bar \in Bars
             /\ m.bars[i].valid \in BOOLEAN /\ m.bars[i].complete \in BOOLEAN
  <2>1. m.bars[i] \in Entries
    BY <1>1
  <2> QED
    BY <2>1 DEF Entries
<1>3. {j \in DOMAIN m.bars : m.bars[j].valid /\ m.bars[j].complete = TRUE}
       = {j \in DOMAIN m.bars : m.bars[j].valid /\ m.bars[j].complete}
  BY <1>2, Zenon
<1>4. {j \in DOMAIN m.bars : m.bars[j].valid /\ m.bars[j].complete = FALSE}
       = {j \in DOMAIN m.bars : m.bars[j].valid /\ ~m.bars[j].complete}
  BY <1>2, Zenon
<1>5. /\ DOMAIN m.bars = 1 .. Len(m.bars) /\ Len(m.bars) \in Nat
  BY <1>1
<1> QED
  BY <1>1, <1>2, <1>3, <1>4, <1>5, Zenon DEF ClosedBars, Lives, ValidBars

(* What handling a payload comes to: its closed bars are put out in order, *)
(* and its live report, if there is one, is rolled in after them.          *)
HandlesTo(m, L, F, w) ==
  \E out \in Seq(Bars) :
    /\ {out[i] : i \in DOMAIN out} = ClosedBars(m)
    /\ \/ Lives(m) = {} /\ w = [live |-> L, finalised |-> F, out |-> out]
       \/ \E b \in Bars :
            /\ Lives(m) = {b}
            /\ w = Rolled([live |-> L, finalised |-> F, out |-> out], b)

LEMMA HandledWork ==
  ASSUME NEW m \in Payloads, Shaped(m), NEW L, NEW F,
         NEW c, c = [live |-> L, finalised |-> F, out |-> << >>],
         NEW q, q = m.bars, NEW w, w = FoldLeft(Handled, c, q)
  PROVE  HandlesTo(m, L, F, w)
<1> USE DEF HandlesTo
<1> DEFINE n == Len(q)
           pre(i) == [j \in 1 .. i |-> q[j].bar]
           some(i) == [live |-> L, finalised |-> F, out |-> pre(i)]
<1>1. /\ DOMAIN q = 1 .. n /\ n \in Nat
      /\ \A i \in 1 .. n : q[i].bar \in Bars /\ q[i].valid \in BOOLEAN /\ q[i].complete \in BOOLEAN
      /\ ClosedBars(m) = {q[i].bar : i \in {j \in 1 .. n : q[j].valid /\ q[j].complete}}
      /\ Lives(m) = {q[i].bar : i \in {j \in 1 .. n : q[j].valid /\ ~q[j].complete}}
  BY EntriesOf
<1>2. CASE \A i \in 1 .. n : ~q[i].valid
  <2> DEFINE P == [i \in Nat |-> {c}]
  <2>1. \A i \in 1 .. n : i - 1 \in Nat /\ i \in Nat
    BY <1>1
  <2>2. \A i \in 1 .. n : \A x \in P[i - 1] : Handled(x, q[i]) \in P[i]
    BY <1>2, <2>1 DEF Handled
  <2>3. c \in P[0]
    OBVIOUS
  <2>4. FoldLeft(Handled, c, q) \in P[n]
    <3> HIDE DEF P, n
    <3> QED
      BY <1>1, <2>2, <2>3, HandledInduction
  <2>5. w = c
    BY <1>1, <2>4
  <2>6. ClosedBars(m) = {} /\ Lives(m) = {}
    <3> HIDE DEF n
    <3> QED
      BY <1>1, <1>2
  <2>7. << >> \in Seq(Bars) /\ {(<< >>)[i] : i \in DOMAIN << >>} = {}
    OBVIOUS
  <2> QED
    BY <2>5, <2>6, <2>7
<1>3. CASE (\A i \in 1 .. n : q[i].valid) /\ ~(\A i \in 1 .. n : ~q[i].valid)
  <2>1. n # 0 /\ n - 1 \in Nat
    BY <1>1, <1>3
  <2>2. \A i \in 1 .. n - 1 : q[i].complete /\ q[i].valid
    BY <1>1, <1>3, <2>1 DEF Shaped
  <2> DEFINE last == IF q[n].complete THEN some(n) ELSE Rolled(some(n - 1), q[n].bar)
             P == [i \in 0 .. n |-> IF i < n THEN {some(i)} ELSE {last}]
  <2>3. pre(0) = << >>
    OBVIOUS
  <2>4. \A i \in Nat : pre(i + 1) = Append(pre(i), q[i + 1].bar)
    OBVIOUS
  <2>5. ASSUME NEW i \in 1 .. n, q[i].complete, q[i].valid
        PROVE  Handled(some(i - 1), q[i]) = some(i)
    <3>1. pre(i) = Append(pre(i - 1), q[i].bar)
      <4>1. i - 1 \in Nat /\ (i - 1) + 1 = i
        BY <1>1
      <4> HIDE DEF pre
      <4> QED
        BY <2>4, <4>1
    <3>2. Handled(some(i - 1), q[i]) = [some(i - 1) EXCEPT !.out = Append(@, q[i].bar)]
      BY <2>5 DEF Handled
    <3> HIDE DEF pre
    <3> QED
      BY <3>1, <3>2
  <2>6. ASSUME NEW i \in 1 .. n, NEW x \in P[i - 1] PROVE Handled(x, q[i]) \in P[i]
    <3>1. i - 1 \in 0 .. n /\ i \in 0 .. n /\ i - 1 < n
      BY <1>1
    <3>2. x = some(i - 1)
      <4> HIDE DEF some
      <4> QED
        BY <2>6, <3>1
    <3>3. CASE i < n
      <4>1. q[i].complete /\ q[i].valid
        BY <1>1, <2>2, <3>3
      <4>2. Handled(x, q[i]) = some(i)
        BY <2>5, <3>2, <4>1
      <4> HIDE DEF some
      <4> QED
        BY <3>1, <3>3, <4>2
    <3>4. CASE i = n
      <4>1. q[n].valid
        BY <1>3, <3>4
      <4>2. CASE q[n].complete
        BY <1>1, <2>5, <3>1, <3>2, <3>4, <4>1, <4>2
      <4>3. CASE ~q[n].complete
        <5>1. Handled(x, q[n]) = Rolled(some(n - 1), q[n].bar)
          BY <3>2, <3>4, <4>1, <4>3 DEF Handled
        <5> HIDE DEF some
        <5> QED
          BY <1>1, <3>1, <3>4, <4>3, <5>1
      <4> QED
        BY <4>2, <4>3
    <3> QED
      BY <1>1, <3>1, <3>3, <3>4
  <2>7. c \in P[0]
    BY <2>1, <2>3
  <2>8. FoldLeft(Handled, c, q) \in P[n]
    <3> HIDE DEF P, n
    <3> QED
      BY <1>1, <2>6, <2>7, HandledInduction
  <2>9. w = last
    <3> HIDE DEF last, some
    <3> QED
      BY <1>1, <2>8
  <2>10. CASE q[n].complete
    <3>1. pre(n) \in Seq(Bars) /\ DOMAIN pre(n) = 1 .. n /\ \A i \in 1 .. n : pre(n)[i] = q[i].bar
      BY <1>1
    <3>2. \A i \in 1 .. n : q[i].complete /\ q[i].valid
      BY <1>1, <1>3, <2>2, <2>10
    <3>3. ClosedBars(m) = {q[i].bar : i \in 1 .. n} /\ Lives(m) = {}
      <4> HIDE DEF n
      <4> QED
        BY <1>1, <3>2
    <3>4. w = some(n)
      BY <2>9, <2>10
    <3>5. {pre(n)[i] : i \in DOMAIN pre(n)} = ClosedBars(m)
      <4> HIDE DEF pre, n
      <4> QED
        BY <3>1, <3>3
    <3> HIDE DEF pre, n
    <3> QED
      BY <3>1, <3>3, <3>4, <3>5
  <2>11. CASE ~q[n].complete
    <3>1. /\ pre(n - 1) \in Seq(Bars) /\ DOMAIN pre(n - 1) = 1 .. n - 1
          /\ \A i \in 1 .. n - 1 : pre(n - 1)[i] = q[i].bar
      BY <1>1, <2>1
    <3>2. /\ \A i \in 1 .. n : q[i].valid /\ (q[i].complete <=> i \in 1 .. n - 1)
          /\ n \in 1 .. n
      BY <1>1, <1>3, <2>1, <2>2, <2>11
    <3>3. ClosedBars(m) = {q[i].bar : i \in 1 .. n - 1}
      <4>1. {j \in 1 .. n : q[j].valid /\ q[j].complete} = 1 .. n - 1
        BY <1>1, <2>1, <3>2
      <4> HIDE DEF n
      <4> QED
        BY <1>1, <4>1
    <3>4. Lives(m) = {q[n].bar}
      <4>1. {j \in 1 .. n : q[j].valid /\ ~q[j].complete} = {n}
        BY <1>1, <2>1, <3>2
      <4> HIDE DEF n
      <4> QED
        BY <1>1, <4>1
    <3>5. w = Rolled(some(n - 1), q[n].bar)
      BY <2>9, <2>11
    <3>6. q[n].bar \in Bars
      BY <1>1, <3>2
    <3>7. {pre(n - 1)[i] : i \in DOMAIN pre(n - 1)} = ClosedBars(m)
      <4> HIDE DEF pre, n
      <4> QED
        BY <3>1, <3>3
    <3> HIDE DEF pre, n
    <3> QED
      BY <3>1, <3>4, <3>5, <3>6, <3>7
  <2> QED
    BY <2>10, <2>11
<1> QED
  BY <1>1, <1>2, <1>3 DEF Shaped
-----------------------------------------------------------------------------
(* What is known of the bars of a pair.                                    *)
LEMMA BarIs ==
  ASSUME NEW b \in Bars
  PROVE  b # NoBar /\ b.open \in Opens /\ b.content \in Contents /\ b.open # 0
  BY DEF Bars, NoBar, Opens

(* A put that is under way.                                                *)
LEMMA PutIs ==
  ASSUME IngestTyped, putting # NoPut
  PROVE  putting.pair \in Pairs /\ putting.bars \in Series
  BY DEF IngestTyped

(* What an accepted payload m of pair p leads to.  Its closed bars, and    *)
(* the last live bar if m reports a later one, go to the store.            *)
LEMMA TakeEffect ==
  ASSUME IInv, Take, NEW m, m = Head(ohlcv), Accepted(m), NEW p, p = m.pair
  PROVE  /\ p \in Pairs /\ m \in Payloads
         /\ putting = NoPut /\ putting' \in [pair : {p}, bars : Series] \cup {NoPut}
         /\ putting' # NoPut => DOMAIN putting'.bars # {}
         /\ \A c \in ClosedBars(m) : c.open \in StoringOpens(p)' /\ putting'.bars[c.open] = Full
         /\ \A t \in StoringOpens(p)' :
              \/ \E c \in ClosedBars(m) : c.open = t
              \/ /\ live[p] # NoBar /\ t = live[p].open /\ putting'.bars[t] = live[p].content
                 /\ \E b \in Lives(m) : t < b.open
         /\ Lives(m) = {} => live'[p] = live[p] /\ finalised'[p] = finalised[p]
         /\ \A b \in Lives(m) :
              /\ b \in Bars /\ Lives(m) = {b} /\ live'[p] = b
              /\ \/ (live[p] = NoBar \/ live[p].open = b.open) /\ finalised'[p] = finalised[p]
                 \/ /\ live[p] # NoBar /\ live[p].open < b.open
                    /\ finalised'[p] = live[p].open /\ live[p].open \in StoringOpens(p)'
         /\ live' \in [Pairs -> Bars \cup {NoBar}] /\ finalised' \in [Pairs -> Opens \cup {0}]
         /\ \A q \in Pairs \ {p} : live'[q] = live[q] /\ finalised'[q] = finalised[q]
<1>1. m \in Payloads /\ p \in Pairs /\ 1 \in DOMAIN ohlcv /\ ohlcv[1] = m
  <2>1. m \in Payloads /\ 1 \in DOMAIN ohlcv /\ ohlcv[1] = m
    BY HeadTailProperties DEF IInv, IngestTyped, Take
  <2> QED
    BY <2>1, EntriesOf
<1>2. Shaped(m) /\ LiveIsLast(m) /\ LiveInv(p)
  BY <1>1 DEF IInv, QueueInv
<1>l. PICK L : L = live[p]
  OBVIOUS
<1>f. PICK F : F = finalised[p]
  OBVIOUS
<1>c. PICK start : start = [live |-> L, finalised |-> F, out |-> << >>]
  OBVIOUS
<1>q. PICK entries : entries = m.bars
  OBVIOUS
<1>w. PICK w : w = FoldLeft(Handled, start, entries)
  OBVIOUS
<1>3. /\ putting = NoPut
      /\ live' = [live EXCEPT ![p] = w.live]
      /\ finalised' = [finalised EXCEPT ![p] = w.finalised]
      /\ putting' = IF w.out = << >> THEN NoPut ELSE [pair |-> p, bars |-> Frame(w.out)]
  BY <1>l, <1>f, <1>c, <1>q, <1>w, Zenon DEF Take
<1>4. PICK out \in Seq(Bars) :
        /\ {out[i] : i \in DOMAIN out} = ClosedBars(m)
        /\ \/ /\ Lives(m) = {}
              /\ w = [live |-> L, finalised |-> F, out |-> out]
           \/ \E b \in Bars :
                /\ Lives(m) = {b}
                /\ w = Rolled([live |-> L, finalised |-> F, out |-> out], b)
  <2>1. m \in Payloads /\ Shaped(m)
    BY <1>1, <1>2
  <2>2. HandlesTo(m, L, F, w)
    BY <2>1, <1>c, <1>q, <1>w, HandledWork
  <2> QED
    BY <2>2 DEF HandlesTo
<1>5. L \in Bars \cup {NoBar} /\ F \in Opens \cup {0}
  BY <1>1, <1>l, <1>f DEF IInv, IngestTyped
<1>6. /\ w.out \in Seq(Bars)
      /\ \A c \in ClosedBars(m) : \E i \in DOMAIN w.out : w.out[i] = c
      /\ \A i \in DOMAIN w.out : w.out[i] \in ClosedBars(m) \/
           /\ L # NoBar /\ w.out[i] = L /\ \E b \in Lives(m) : L.open < b.open
           /\ \A j \in DOMAIN w.out : j <= i
      /\ Lives(m) = {} => w.live = L /\ w.finalised = F
      /\ \A b \in Lives(m) :
           /\ b \in Bars /\ Lives(m) = {b} /\ w.live = b
           /\ \/ (L = NoBar \/ L.open = b.open) /\ w.finalised = F
              \/ /\ L # NoBar /\ L.open < b.open /\ w.finalised = L.open
                 /\ \E i \in DOMAIN w.out : w.out[i] = L
  <2>1. CASE Lives(m) = {} /\ w = [live |-> L, finalised |-> F, out |-> out]
    BY <1>4, <2>1
  <2>2. CASE \E b \in Bars :
               /\ Lives(m) = {b}
               /\ w = Rolled([live |-> L, finalised |-> F, out |-> out], b)
    <3>1. PICK b \in Bars :
            /\ Lives(m) = {b}
            /\ w = Rolled([live |-> L, finalised |-> F, out |-> out], b)
      BY <2>2
    <3>2. CASE L = NoBar \/ L.open = b.open
      <4>1. w = [live |-> b, finalised |-> F, out |-> out]
        BY <3>1, <3>2 DEF Rolled
      <4>2. w.live = b /\ w.finalised = F /\ w.out = out
        BY <4>1
      <4>3. \A i \in DOMAIN out : out[i] \in ClosedBars(m)
        BY <1>4
      <4>4. \A c \in ClosedBars(m) : \E i \in DOMAIN out : out[i] = c
        BY <1>4
      <4> QED
        BY <3>1, <3>2, <4>2, <4>3, <4>4
    <3>3. CASE L # NoBar /\ L.open # b.open
      <4>1. F # L.open /\ L.open < b.open /\ L \in Bars
        <5>1. F < L.open /\ Before(L, b) /\ L \in Bars
          BY <1>2, <1>5, <1>l, <1>f, <3>1, <3>3 DEF LiveInv, LiveIsLast
        <5>2. L.open \in Nat /\ F \in Nat /\ b.open \in Nat
          BY <1>5, <3>1, <5>1, BarIs DEF Opens
        <5> QED
          BY <3>3, <5>1, <5>2 DEF Before
      <4>2. w = [live |-> b, finalised |-> L.open, out |-> Append(out, L)]
        BY <3>1, <3>3, <4>1 DEF Rolled
      <4>3. /\ w.out \in Seq(Bars) /\ Len(out) \in Nat
            /\ DOMAIN out = 1 .. Len(out) /\ DOMAIN w.out = 1 .. Len(out) + 1
            /\ w.out[Len(out) + 1] = L /\ \A i \in DOMAIN out : w.out[i] = out[i]
        BY <4>1, <4>2
      <4>4. \A i \in DOMAIN w.out : i = Len(out) + 1 \/ i \in DOMAIN out
        BY <4>3
      <4>5. \A i \in DOMAIN out : i \in DOMAIN w.out /\ w.out[i] \in ClosedBars(m)
        BY <1>4, <4>3
      <4>6. \A c \in ClosedBars(m) : \E i \in DOMAIN w.out : w.out[i] = c
        BY <1>4, <4>3, <4>5
      <4>7. Len(out) + 1 \in DOMAIN w.out /\ \A j \in DOMAIN w.out : j <= Len(out) + 1
        BY <4>3
      <4>8. \A i \in DOMAIN w.out : w.out[i] \in ClosedBars(m) \/
               /\ L # NoBar /\ w.out[i] = L /\ \E x \in Lives(m) : L.open < x.open
               /\ \A j \in DOMAIN w.out : j <= i
        <5> SUFFICES ASSUME NEW i \in DOMAIN w.out, i = Len(out) + 1
                     PROVE  /\ L # NoBar /\ w.out[i] = L /\ \E x \in Lives(m) : L.open < x.open
                            /\ \A j \in DOMAIN w.out : j <= i
          BY <4>4, <4>5
        <5> QED
          BY <3>1, <3>3, <4>1, <4>3, <4>5, <4>7
      <4>9. w.live = b /\ w.finalised = L.open
        BY <4>2
      <4> QED
        BY <3>1, <3>3, <4>1, <4>3, <4>6, <4>7, <4>8, <4>9
    <3> QED
      BY <3>2, <3>3
  <2> QED
    BY <1>4, <2>1, <2>2
<1> DEFINE fr == Frame(w.out)
<1>7. /\ DOMAIN fr = {w.out[i].open : i \in DOMAIN w.out} /\ fr \in Series
      /\ \A t \in DOMAIN fr : \E i \in DOMAIN w.out :
           /\ w.out[i].open = t /\ fr[t] = w.out[i].content
           /\ \A j \in DOMAIN w.out : w.out[j].open = t => i <= j
  BY <1>6, FrameIsFirst
<1> HIDE DEF fr
<1>8. /\ putting' \in [pair : {p}, bars : Series] \cup {NoPut}
      /\ putting' # NoPut => DOMAIN putting'.bars # {}
      /\ StoringOpens(p)' = DOMAIN fr
      /\ \A t \in DOMAIN fr : putting'.bars[t] = fr[t]
  <2>1. CASE w.out = << >>
    <3>1. putting' = NoPut /\ DOMAIN fr = {}
      BY <1>3, <1>7, <2>1
    <3> QED
      BY <3>1 DEF StoringOpens, Stores
  <2>2. CASE w.out # << >>
    <3>1. putting' = [pair |-> p, bars |-> fr]
      BY <1>3, <2>2 DEF fr
    <3>2. 1 \in DOMAIN w.out
      BY <1>6, <2>2
    <3>3. DOMAIN fr # {}
      <4>1. w.out[1].open \in DOMAIN fr
        BY <1>7, <3>2
      <4> QED
        BY <4>1
    <3>4. [pair |-> p, bars |-> fr] # NoPut
      BY DEF NoPut
    <3> QED
      BY <1>7, <3>1, <3>3, <3>4 DEF StoringOpens, Stores
  <2> QED
    BY <2>1, <2>2
<1>9. ASSUME NEW c \in ClosedBars(m)
      PROVE  c.open \in DOMAIN fr /\ fr[c.open] = Full
  <2>1. PICK k \in DOMAIN w.out : w.out[k] = c
    BY <1>6
  <2>2. PICK i \in DOMAIN w.out :
           /\ w.out[i].open = c.open /\ fr[c.open] = w.out[i].content
           /\ \A j \in DOMAIN w.out : w.out[j].open = c.open => i <= j
    BY <1>7, <2>1
  <2>3. i <= k /\ i \in Nat /\ k \in Nat
    BY <1>6, <2>1, <2>2
  <2>4. w.out[i] \in ClosedBars(m)
    <3>1. i = k \/ i < k
      BY <2>3
    <3>2. CASE i = k
      BY <2>1, <3>2
    <3>3. CASE i < k
      BY <1>6, <2>1, <2>3, <3>3
    <3> QED
      BY <3>1, <3>2, <3>3
  <2> QED
    BY <1>2, <1>7, <2>1, <2>2, <2>4 DEF Shaped
<1>10. ASSUME NEW t \in DOMAIN fr
       PROVE  \/ \E c \in ClosedBars(m) : c.open = t
              \/ /\ L # NoBar /\ t = L.open /\ fr[t] = L.content
                 /\ \E b \in Lives(m) : t < b.open
  <2>1. PICK i \in DOMAIN w.out : w.out[i].open = t /\ fr[t] = w.out[i].content
    BY <1>7
  <2>2. \/ w.out[i] \in ClosedBars(m)
        \/ L # NoBar /\ w.out[i] = L /\ \E b \in Lives(m) : L.open < b.open
    BY <1>6
  <2> QED
    BY <2>1, <2>2
<1>11. live'[p] = w.live /\ finalised'[p] = w.finalised
  BY <1>1, <1>3 DEF IInv, IngestTyped
<1>12. \A q \in Pairs \ {p} : live'[q] = live[q] /\ finalised'[q] = finalised[q]
  BY <1>1, <1>3 DEF IInv, IngestTyped
<1>13. ASSUME NEW b \in Lives(m)
       PROVE  /\ b \in Bars /\ Lives(m) = {b} /\ live'[p] = b
              /\ \/ (live[p] = NoBar \/ live[p].open = b.open) /\ finalised'[p] = finalised[p]
                 \/ /\ live[p] # NoBar /\ live[p].open < b.open
                    /\ finalised'[p] = live[p].open /\ live[p].open \in StoringOpens(p)'
  BY <1>6, <1>7, <1>8, <1>11, <1>l, <1>f
<1>14. \A c \in ClosedBars(m) : c.open \in StoringOpens(p)' /\ putting'.bars[c.open] = Full
  BY <1>8, <1>9
<1>15. ASSUME NEW t \in StoringOpens(p)'
       PROVE  \/ \E c \in ClosedBars(m) : c.open = t
              \/ /\ live[p] # NoBar /\ t = live[p].open /\ putting'.bars[t] = live[p].content
                 /\ \E b \in Lives(m) : t < b.open
  BY <1>8, <1>10, <1>l
<1>16. Lives(m) = {} => live'[p] = live[p] /\ finalised'[p] = finalised[p]
  BY <1>6, <1>11, <1>l, <1>f
<1>17. live' \in [Pairs -> Bars \cup {NoBar}] /\ finalised' \in [Pairs -> Opens \cup {0}]
  <2>1. w.live \in Bars \cup {NoBar} /\ w.finalised \in Opens \cup {0}
    <3>1. CASE Lives(m) = {}
      BY <1>5, <1>6, <3>1
    <3>2. CASE Lives(m) # {}
      <4>1. PICK b \in Lives(m) : TRUE
        BY <3>2
      <4>2. b \in Bars /\ w.live = b
        BY <1>6, <4>1
      <4>3. w.finalised = F \/ (L # NoBar /\ w.finalised = L.open)
        BY <1>6, <4>1
      <4> QED
        BY <1>5, <4>2, <4>3, BarIs
    <3> QED
      BY <3>1, <3>2
  <2> QED
    BY <1>3, <2>1 DEF IInv, IngestTyped
<1> QED
  BY <1>1, <1>3, <1>8, <1>12, <1>13, <1>14, <1>15, <1>16, <1>17
-----------------------------------------------------------------------------
(* A new payload reports the bar being traded, or bars that have closed.   *)
Fresh(m) ==
  /\ Shaped(m)
  /\ \A b \in Lives(m) : b = forming[m.pair]
  /\ \A c \in ClosedBars(m) : c.open < forming[m.pair].open

LEMMA SentIsFresh ==
  ASSUME IngestTyped, NEW p \in Pairs, NEW bars \in Seq(Entries), Send(p, bars),
         \A i \in DOMAIN bars :
           /\ bars[i].valid /\ (i < Len(bars) => bars[i].complete)
           /\ bars[i].complete => bars[i].bar.content = Full /\ bars[i].bar.open < forming[p].open
           /\ ~bars[i].complete => bars[i].bar = forming[p]
  PROVE  \E m \in Payloads : ohlcv' = Append(ohlcv, m) /\ Fresh(m)
<1>1. PICK sig \in {"good", "bad", "none"}, some \in {bars, Spoilt(bars)} :
        ohlcv' = Append(ohlcv, [pair |-> p, sig |-> sig, bars |-> some])
  BY DEF Send
<1>2. /\ Spoilt(bars) \in Seq(Entries) /\ Len(Spoilt(bars)) = Len(bars)
      /\ DOMAIN Spoilt(bars) = DOMAIN bars
      /\ \A i \in DOMAIN bars : ~Spoilt(bars)[i].valid /\ Spoilt(bars)[i].complete = bars[i].complete
  <2>1. DOMAIN bars = 1 .. Len(bars) /\ Len(bars) \in Nat
    OBVIOUS
  <2>2. ASSUME NEW i \in DOMAIN bars
        PROVE  /\ [bars[i] EXCEPT !.valid = FALSE] \in Entries
               /\ ~[bars[i] EXCEPT !.valid = FALSE].valid
               /\ [bars[i] EXCEPT !.valid = FALSE].complete = bars[i].complete
    <3>1. bars[i] \in Entries
      OBVIOUS
    <3> QED
      BY <3>1 DEF Entries
  <2> DEFINE spoilt(i) == [bars[i] EXCEPT !.valid = FALSE]
  <2>3. Spoilt(bars) = [i \in 1 .. Len(bars) |-> spoilt(i)]
    BY <2>1 DEF Spoilt
  <2>4. \A i \in 1 .. Len(bars) : spoilt(i) \in Entries
    BY <2>1, <2>2
  <2>5. \A i \in 1 .. Len(bars) : ~spoilt(i).valid /\ spoilt(i).complete = bars[i].complete
    BY <2>1, <2>2
  <2> HIDE DEF spoilt
  <2>6. Spoilt(bars) \in Seq(Entries) /\ Len(Spoilt(bars)) = Len(bars)
    BY <2>1, <2>3, <2>4
  <2> QED
    BY <2>1, <2>3, <2>5, <2>6
<1> DEFINE m == [pair |-> p, sig |-> sig, bars |-> some]
<1>3. m \in Payloads /\ m.pair = p /\ m.bars = some
  BY <1>2 DEF Payloads
<1> HIDE DEF m
<1>4. /\ DOMAIN m.bars = DOMAIN bars /\ Len(m.bars) = Len(bars)
      /\ \A i \in DOMAIN bars : m.bars[i].complete = bars[i].complete
      /\ m.bars = bars \/ \A i \in DOMAIN m.bars : ~m.bars[i].valid
  BY <1>2, <1>3
<1>5. /\ ClosedBars(m) = {m.bars[i].bar : i \in {j \in DOMAIN m.bars :
              m.bars[j].valid /\ m.bars[j].complete}}
      /\ Lives(m) = {m.bars[i].bar : i \in {j \in DOMAIN m.bars :
              m.bars[j].valid /\ ~m.bars[j].complete}}
  BY <1>3, EntriesOf
<1>6. ASSUME NEW c \in ClosedBars(m)
      PROVE  c.content = Full /\ c.open < forming[p].open
  <2>1. PICK i \in DOMAIN bars : m.bars[i].valid /\ m.bars[i].complete /\ c = m.bars[i].bar
    BY <1>4, <1>5
  <2>2. m.bars = bars
    BY <1>4, <2>1
  <2> QED
    BY <2>1, <2>2
<1>7. ASSUME NEW b \in Lives(m)
      PROVE  b = forming[p]
  <2>1. PICK i \in DOMAIN bars : m.bars[i].valid /\ ~m.bars[i].complete /\ b = m.bars[i].bar
    BY <1>4, <1>5
  <2>2. m.bars = bars
    BY <1>4, <2>1
  <2> QED
    BY <2>1, <2>2
<1>8. Shaped(m)
  BY <1>4, <1>6 DEF Shaped
<1>9. Fresh(m)
  BY <1>3, <1>6, <1>7, <1>8 DEF Fresh
<1> QED
  BY <1>1, <1>3, <1>9 DEF m

(* No bar is newer than itself, and newer goes on to newer.                *)
LEMMA BeforeOrder ==
  ASSUME NEW b \in Bars, NEW c \in Bars, NEW d \in Bars
  PROVE  Before(b, b) /\ (Before(b, c) /\ Before(c, d) => Before(b, d))
  BY DEF Before, Bars, Opens, Contents

(* The bars of a payload are bars.                                         *)
LEMMA PayloadBars ==
  ASSUME NEW m \in Payloads
  PROVE  Lives(m) \subseteq Bars /\ ClosedBars(m) \subseteq Bars /\ m.pair \in Pairs
<1>1. m.pair \in Pairs /\ \A i \in DOMAIN m.bars : m.bars[i].bar \in Bars
  BY EntriesOf
<1> QED
  BY <1>1, EntriesOf

(* What the invariant says of a pair does not read the queue.              *)
SameStore ==
  UNCHANGED <<live, finalised, putting, uds, seen, completed>>

LEMMA AppendKeeps ==
  ASSUME IInv, NEW m \in Payloads, Fresh(m), ohlcv' = Append(ohlcv, m),
         forming' = forming, announced' \in [Pairs -> Opens \cup {0}], SameStore
  PROVE  IInv'
<1>1. IngestTyped'
  BY DEF IInv, IngestTyped, SameStore
<1>2. OpenBarStaysOut' /\ (putting' # NoPut => DOMAIN putting'.bars # {})
  BY DEF IInv, OpenBarStaysOut, SameStore
<1>3. \A p \in Pairs : LiveInv(p)' /\ SeenInv(p)' /\ CompletedInv(p)'
  BY DEF IInv, LiveInv, SeenInv, CompletedInv, StoringOpens, Stores, SameStore
<1>4. /\ DOMAIN ohlcv = 1 .. Len(ohlcv) /\ Len(ohlcv) \in Nat
      /\ DOMAIN ohlcv' = 1 .. Len(ohlcv) + 1 /\ ohlcv'[Len(ohlcv) + 1] = m
      /\ \A i \in DOMAIN ohlcv : ohlcv'[i] = ohlcv[i] /\ ohlcv[i] \in Payloads
  BY DEF IInv, IngestTyped
<1>5. \A i \in DOMAIN ohlcv : Shaped(ohlcv[i]) /\ LiveIsLast(ohlcv[i]) /\ ClosedBefore(ohlcv[i])
  BY DEF IInv, QueueInv
<1>6. \A n : LiveIsLast(n)' = LiveIsLast(n) /\ ClosedBefore(n)' = ClosedBefore(n)
  BY DEF LiveIsLast, ClosedBefore, StoringOpens, Stores, SameStore
<1>7. LiveIsLast(m) /\ ClosedBefore(m)
  <2> DEFINE p == m.pair
  <2>1. p \in Pairs /\ forming[p] \in Bars /\ LiveInv(p) /\ OpenBarStaysOut
    BY PayloadBars DEF IInv, IngestTyped
  <2>2. live[p] # NoBar => Before(live[p], forming[p])
    BY <2>1 DEF LiveInv
  <2>3. \A t \in DOMAIN uds[p] \cup StoringOpens(p) : t < forming[p].open
    BY <2>1 DEF OpenBarStaysOut, StoringOpens, Stores
  <2> QED
    BY <2>1, <2>2, <2>3, BeforeOrder DEF Fresh, LiveIsLast, ClosedBefore
<1>8. ASSUME NEW i \in DOMAIN ohlcv' PROVE (Shaped(ohlcv[i]) /\ LiveIsLast(ohlcv[i]) /\ ClosedBefore(ohlcv[i]))'
  <2>1. CASE i \in DOMAIN ohlcv
    <3>1. ohlcv'[i] = ohlcv[i]
      BY <1>4, <2>1
    <3>2. Shaped(ohlcv'[i]) /\ LiveIsLast(ohlcv'[i]) /\ ClosedBefore(ohlcv'[i])
      BY <1>5, <2>1, <3>1
    <3> QED
      BY <1>6, <3>2 DEF Shaped
  <2>2. CASE i = Len(ohlcv) + 1
    <3>1. ohlcv'[i] = m
      BY <1>4, <2>2
    <3>2. Shaped(ohlcv'[i]) /\ LiveIsLast(ohlcv'[i]) /\ ClosedBefore(ohlcv'[i])
      BY <1>7, <3>1 DEF Fresh
    <3> QED
      BY <1>6, <3>2 DEF Shaped
  <2> QED
    BY <1>4, <2>1, <2>2
<1>9. ASSUME NEW i \in DOMAIN ohlcv', NEW j \in DOMAIN ohlcv', i < j
      PROVE  InOrder(ohlcv'[i], ohlcv'[j])
  <2>0. i \in DOMAIN ohlcv /\ ohlcv'[i] = ohlcv[i]
    BY <1>4, <1>9
  <2>1. CASE j \in DOMAIN ohlcv
    <3>1. ohlcv'[j] = ohlcv[j]
      BY <1>4, <2>1
    <3>2. InOrder(ohlcv[i], ohlcv[j])
      BY <1>9, <2>0, <2>1 DEF IInv, QueueInv
    <3> QED
      BY <2>0, <3>1, <3>2
  <2>2. CASE j = Len(ohlcv) + 1
    <3>1. ohlcv'[j] = m
      BY <1>4, <2>2
    <3>2. LiveIsLast(ohlcv[i]) /\ ClosedBefore(ohlcv[i])
      BY <1>5, <2>0
    <3>3. InOrder(ohlcv[i], m)
      BY <3>2 DEF Fresh, InOrder, LiveIsLast, ClosedBefore
    <3> QED
      BY <2>0, <3>1, <3>3
  <2> QED
    BY <1>4, <2>1, <2>2
<1>10. QueueInv'
  BY <1>8, <1>9 DEF QueueInv, InOrder
<1> QED
  BY <1>1, <1>2, <1>3, <1>10 DEF IInv

(* SendLive, SendComplete and SendHistory send what is fresh.              *)
LEMMA SendSteps ==
  ASSUME IInv, NEW p \in Pairs, SendLive(p) \/ SendComplete(p) \/ SendHistory(p)
  PROVE  IInv'
<1>1. /\ IngestTyped /\ forming[p] \in Bars /\ Full \in Nat \ {0} /\ LastBar \in Nat \ {0}
      /\ forming[p].open \in Opens /\ announced \in [Pairs -> Opens \cup {0}]
  BY BarsPositive, BarIs DEF IInv, IngestTyped
<1> DEFINE Sendable(bars) ==
      /\ bars \in Seq(Entries)
      /\ \A i \in DOMAIN bars :
           /\ bars[i].valid /\ (i < Len(bars) => bars[i].complete)
           /\ bars[i].complete => bars[i].bar.content = Full /\ bars[i].bar.open < forming[p].open
           /\ ~bars[i].complete => bars[i].bar = forming[p]
<1>2. ASSUME NEW bars, Sendable(bars), Send(p, bars), announced' \in [Pairs -> Opens \cup {0}]
      PROVE  IInv'
  <2>1. PICK m \in Payloads : ohlcv' = Append(ohlcv, m) /\ Fresh(m)
    BY <1>1, <1>2, SentIsFresh
  <2>2. forming' = forming /\ SameStore
    BY <1>2 DEF Send, SameStore
  <2> QED
    BY <1>2, <2>1, <2>2, AppendKeeps
<1>3. /\ Live(p) \in Entries /\ Live(p).valid /\ ~Live(p).complete /\ Live(p).bar = forming[p]
  BY <1>1 DEF Live, Entries
<1>4. ASSUME NEW t \in Opens, t < forming[p].open
      PROVE  /\ Complete(t) \in Entries /\ Complete(t).valid /\ Complete(t).complete
             /\ Complete(t).bar.content = Full /\ Complete(t).bar.open < forming[p].open
  BY <1>1, <1>4 DEF Complete, Entries, Bars, Contents
<1>5. CASE SendLive(p)
  <2>1. Sendable(<<Live(p)>>)
    BY <1>3
  <2>2. Send(p, <<Live(p)>>) /\ announced' \in [Pairs -> Opens \cup {0}]
    BY <1>1, <1>5 DEF SendLive
  <2> HIDE DEF Sendable
  <2> QED
    BY <1>2, <2>1, <2>2
<1>6. CASE SendComplete(p)
  <2>1. PICK t \in Opens :
          /\ t < forming[p].open
          /\ \/ Send(p, <<Complete(t)>>) /\ UNCHANGED announced
             \/ /\ Send(p, <<Complete(t), Live(p)>>)
                /\ announced' = [announced EXCEPT ![p] = forming[p].open]
    <3>1. forming[p].open - 1 \in Opens /\ forming[p].open - 1 < forming[p].open
      BY <1>1, <1>6 DEF SendComplete, Opens
    <3> QED
      BY <1>6, <3>1 DEF SendComplete
  <2>2. Sendable(<<Complete(t)>>)
    BY <1>4, <2>1
  <2>3. Sendable(<<Complete(t), Live(p)>>)
    <3> DEFINE e == Complete(t)
               f == Live(p)
    <3>1. e \in Entries /\ f \in Entries
      BY <1>3, <1>4, <2>1
    <3>2. <<e, f>> \in Seq(Entries) /\ Len(<<e, f>>) = 2
      BY <3>1
    <3>3. \A i \in DOMAIN <<e, f>> : (i = 1 /\ <<e, f>>[i] = e) \/ (i = 2 /\ <<e, f>>[i] = f)
      OBVIOUS
    <3>4. /\ e.valid /\ e.complete /\ e.bar.content = Full /\ e.bar.open < forming[p].open
          /\ f.valid /\ ~f.complete /\ f.bar = forming[p]
      BY <1>3, <1>4, <2>1
    <3> HIDE DEF e, f
    <3>5. Sendable(<<e, f>>)
      BY <3>2, <3>3, <3>4
    <3> HIDE DEF Sendable
    <3> QED
      BY <3>5 DEF e, f
  <2>4. announced' \in [Pairs -> Opens \cup {0}]
    BY <1>1, <2>1
  <2> HIDE DEF Sendable
  <2> QED
    BY <1>2, <2>1, <2>2, <2>3, <2>4
<1>7. CASE SendHistory(p)
  <2> DEFINE n == forming[p].open - 1
             bars == [t \in 1 .. n |-> Complete(t)]
  <2>1. n \in Nat /\ \A t \in 1 .. n : t \in Opens /\ t < forming[p].open
    BY <1>1 DEF Opens
  <2>2. \A t \in 1 .. n : Complete(t) \in Entries
    BY <1>4, <2>1
  <2>3. bars \in Seq(Entries) /\ DOMAIN bars = 1 .. n /\ \A t \in 1 .. n : bars[t] = Complete(t)
    BY <2>1, <2>2
  <2>4. Send(p, bars) /\ announced' = announced
    BY <1>7 DEF SendHistory
  <2> HIDE DEF bars, n
  <2>5. Sendable(bars)
    BY <1>4, <2>1, <2>3
  <2> HIDE DEF Sendable
  <2> QED
    BY <1>1, <1>2, <2>4, <2>5
<1> QED
  BY <1>5, <1>6, <1>7

(* A bar that grows or makes room for the next is newer than it was.       *)
LEMMA MarketSteps ==
  ASSUME IInv, NEW p \in Pairs, Trade(p) \/ Close(p)
  PROVE  IInv'
<1>1. \A q \in Pairs : forming[q] \in Bars
  BY DEF IInv, IngestTyped
<1>2. /\ forming' \in [Pairs -> Bars]
      /\ \A q \in Pairs : Before(forming[q], forming'[q])
  <2>0. forming \in [Pairs -> Bars] /\ Full \in Nat \ {0} /\ LastBar \in Nat \ {0}
    BY BarsPositive DEF IInv, IngestTyped
  <2>1. CASE Trade(p)
    <3>1. forming' = [forming EXCEPT ![p].content = @ + 1] /\ forming[p].content < Full
      BY <2>1 DEF Trade
    <3>2. forming'[p] = [open |-> forming[p].open, content |-> forming[p].content + 1]
      BY <1>1, <2>0, <3>1 DEF Bars
    <3>3. forming'[p] \in Bars /\ Before(forming[p], forming'[p])
      BY <1>1, <2>0, <3>1, <3>2 DEF Bars, Opens, Contents, Before
    <3>4. \A q \in Pairs \ {p} : forming'[q] = forming[q]
      BY <2>0, <3>1
    <3>5. forming' = [q \in Pairs |-> forming'[q]]
      BY <2>0, <3>1
    <3> QED
      BY <1>1, <3>3, <3>4, <3>5, BeforeOrder
  <2>2. CASE Close(p)
    <3>1. /\ forming' = [forming EXCEPT ![p] = [open |-> @.open + 1, content |-> 1]]
          /\ forming[p].open < LastBar
      BY <2>2 DEF Close
    <3>2. forming'[p] = [open |-> forming[p].open + 1, content |-> 1]
      BY <2>0, <3>1
    <3>3. forming'[p] \in Bars /\ Before(forming[p], forming'[p])
      BY <1>1, <2>0, <3>1, <3>2 DEF Bars, Opens, Contents, Before
    <3>4. \A q \in Pairs \ {p} : forming'[q] = forming[q]
      BY <2>0, <3>1
    <3>5. forming' = [q \in Pairs |-> forming'[q]]
      BY <2>0, <3>1
    <3> QED
      BY <1>1, <3>3, <3>4, <3>5, BeforeOrder
  <2> QED
    BY <2>1, <2>2
<1>3. \A q \in Pairs : forming'[q] \in Bars /\ forming[q].open <= forming'[q].open
  BY <1>1, <1>2 DEF Before, Bars, Opens
<1>4. ohlcv' = ohlcv /\ announced' = announced /\ SameStore
  BY DEF Trade, Close, SameStore
<1>5. IngestTyped'
  BY <1>2, <1>4 DEF IInv, IngestTyped, SameStore
<1>6. ASSUME NEW q \in Pairs PROVE LiveInv(q)' /\ SeenInv(q)' /\ CompletedInv(q)'
  <2>1. LiveInv(q) /\ SeenInv(q) /\ CompletedInv(q) /\ live[q] \in Bars \cup {NoBar}
    BY DEF IInv, IngestTyped
  <2>2. live[q] # NoBar => Before(live[q], forming'[q])
    BY <1>1, <1>2, <1>3, <2>1, BeforeOrder DEF LiveInv
  <2>3. LiveInv(q)'
    BY <1>4, <2>1, <2>2 DEF LiveInv, SameStore
  <2> QED
    BY <1>4, <2>1, <2>3 DEF SeenInv, CompletedInv, StoringOpens, Stores, SameStore
<1>7. OpenBarStaysOut'
  <2>1. ASSUME NEW q \in Pairs, NEW t \in DOMAIN uds[q] \cup StoringOpens(q)
        PROVE  t < forming'[q].open
    <3>1. t < forming[q].open
      BY <2>1 DEF IInv, OpenBarStaysOut, StoringOpens, Stores
    <3>2. t \in Opens
      BY <2>1, PutIs, SeriesIs DEF IInv, IngestTyped, StoringOpens, Stores
    <3> QED
      BY <1>1, <1>3, <3>1, <3>2 DEF Opens, Bars
  <2> QED
    BY <1>4, <2>1 DEF OpenBarStaysOut, StoringOpens, Stores, SameStore
<1>8. ASSUME NEW m \in Payloads, Shaped(m), LiveIsLast(m), ClosedBefore(m)
      PROVE  LiveIsLast(m)' /\ ClosedBefore(m)'
  <2> DEFINE q == m.pair
  <2>1. q \in Pairs /\ Lives(m) \subseteq Bars /\ ClosedBars(m) \subseteq Bars
    BY PayloadBars
  <2>2. \A b \in Lives(m) : Before(b, forming'[q])
    BY <1>1, <1>2, <1>3, <1>8, <2>1, BeforeOrder DEF LiveIsLast
  <2>3. \A c \in ClosedBars(m) : c.open < forming'[q].open
    BY <1>1, <1>3, <1>8, <2>1 DEF ClosedBefore, Bars, Opens
  <2>4. LiveIsLast(m)'
    BY <1>4, <1>8, <2>2 DEF LiveIsLast, StoringOpens, Stores, SameStore
  <2> QED
    BY <2>3, <2>4 DEF ClosedBefore
<1>9. QueueInv'
  <2>1. \A i \in DOMAIN ohlcv : ohlcv[i] \in Payloads
    BY DEF IInv, IngestTyped
  <2>2. ASSUME NEW i \in DOMAIN ohlcv PROVE LiveIsLast(ohlcv[i])' /\ ClosedBefore(ohlcv[i])'
    <3>1. PICK m : m = ohlcv[i]
      OBVIOUS
    <3>2. LiveIsLast(m)' /\ ClosedBefore(m)'
      BY <1>8, <2>1, <3>1 DEF IInv, QueueInv
    <3>3. ohlcv'[i] = m
      BY <1>4, <3>1
    <3> QED
      BY <3>2, <3>3 DEF LiveIsLast, ClosedBefore
  <2> QED
    BY <1>4, <2>2 DEF IInv, QueueInv, InOrder, Shaped
<1> QED
  BY <1>4, <1>5, <1>6, <1>7, <1>9 DEF IInv, SameStore

(* The connection drops: an empty queue is in order.                       *)
LEMMA DropStep ==
  ASSUME IInv, Drop
  PROVE  IInv'
<1>1. ohlcv' = << >> /\ forming' = forming /\ announced' = announced /\ SameStore
  BY DEF Drop, SameStore
<1>2. IngestTyped'
  BY <1>1, EmptySeq DEF IInv, IngestTyped, SameStore
<1>3. QueueInv'
  BY <1>1 DEF QueueInv
<1>4. OpenBarStaysOut' /\ (putting' # NoPut => DOMAIN putting'.bars # {})
  BY <1>1 DEF IInv, OpenBarStaysOut, SameStore
<1>5. \A p \in Pairs : LiveInv(p)' /\ SeenInv(p)' /\ CompletedInv(p)'
  BY <1>1 DEF IInv, LiveInv, SeenInv, CompletedInv, StoringOpens, Stores, SameStore
<1> QED
  BY <1>2, <1>3, <1>4, <1>5 DEF IInv

(* What remains in the queue after the first payload.                      *)
LEMMA TailOfQueue ==
  ASSUME IngestTyped, ohlcv # << >>, ohlcv' = Tail(ohlcv)
  PROVE  /\ Head(ohlcv) \in Payloads /\ Head(ohlcv) = ohlcv[1] /\ 1 \in DOMAIN ohlcv
         /\ ohlcv' \in Seq(Payloads)
         /\ \A i \in DOMAIN ohlcv' :
              /\ i + 1 \in DOMAIN ohlcv /\ 1 < i + 1
              /\ ohlcv'[i] = ohlcv[i + 1] /\ ohlcv'[i] \in Payloads
         /\ \A i, j \in DOMAIN ohlcv' : i < j => i + 1 < j + 1
<1>1. ohlcv \in Seq(Payloads) /\ Len(ohlcv) \in Nat \ {0}
  BY DEF IngestTyped
<1>2. /\ ohlcv' \in Seq(Payloads) /\ Len(ohlcv') = Len(ohlcv) - 1
      /\ \A i \in 1 .. Len(ohlcv) - 1 : ohlcv'[i] = ohlcv[i + 1]
      /\ Head(ohlcv) = ohlcv[1]
  BY <1>1, HeadTailProperties
<1>3. DOMAIN ohlcv = 1 .. Len(ohlcv) /\ DOMAIN ohlcv' = 1 .. Len(ohlcv) - 1
  BY <1>1, <1>2
<1> QED
  BY <1>1, <1>2, <1>3

(* A payload that is not accepted goes no further.                         *)
LEMMA SkippedStep ==
  ASSUME IInv, Take, ~Accepted(Head(ohlcv))
  PROVE  IInv'
<1>1. /\ ohlcv # << >> /\ ohlcv' = Tail(ohlcv) /\ forming' = forming
      /\ announced' = announced /\ SameStore
  BY DEF Take, SameStore
<1>2. IngestTyped
  BY DEF IInv
<1>3. /\ ohlcv' \in Seq(Payloads)
      /\ \A i \in DOMAIN ohlcv' : i + 1 \in DOMAIN ohlcv /\ ohlcv'[i] = ohlcv[i + 1]
      /\ \A i, j \in DOMAIN ohlcv' : i < j => i + 1 < j + 1
  BY <1>1, <1>2, TailOfQueue
<1>4. IngestTyped'
  BY <1>1, <1>3 DEF IInv, IngestTyped, SameStore
<1>5. \A m : LiveIsLast(m)' = LiveIsLast(m) /\ ClosedBefore(m)' = ClosedBefore(m)
  BY <1>1 DEF LiveIsLast, ClosedBefore, StoringOpens, Stores, SameStore
<1>6. ASSUME NEW i \in DOMAIN ohlcv'
      PROVE  (Shaped(ohlcv[i]) /\ LiveIsLast(ohlcv[i]) /\ ClosedBefore(ohlcv[i]))'
  <2>1. PICK m : m = ohlcv'[i]
    OBVIOUS
  <2>2. Shaped(m) /\ LiveIsLast(m) /\ ClosedBefore(m)
    BY <1>3, <2>1 DEF IInv, QueueInv
  <2>3. LiveIsLast(m)' /\ ClosedBefore(m)'
    BY <1>5, <2>2
  <2> QED
    BY <2>1, <2>2, <2>3 DEF Shaped, LiveIsLast, ClosedBefore
<1>7. ASSUME NEW i \in DOMAIN ohlcv', NEW j \in DOMAIN ohlcv', i < j
      PROVE  InOrder(ohlcv'[i], ohlcv'[j])
  BY <1>3, <1>7 DEF IInv, QueueInv
<1>8. QueueInv'
  BY <1>6, <1>7 DEF QueueInv, InOrder
<1>9. OpenBarStaysOut' /\ (putting' # NoPut => DOMAIN putting'.bars # {})
  BY <1>1 DEF IInv, OpenBarStaysOut, SameStore
<1>10. \A p \in Pairs : LiveInv(p)' /\ SeenInv(p)' /\ CompletedInv(p)'
  BY <1>1 DEF IInv, LiveInv, SeenInv, CompletedInv, StoringOpens, Stores, SameStore
<1> QED
  BY <1>4, <1>8, <1>9, <1>10 DEF IInv

(* The histories of an accepted payload.                                   *)
LEMMA WitnessEffect ==
  ASSUME IngestTyped, NEW m \in Payloads, NEW p \in Pairs, p = m.pair, Witness(m),
         \A b \in Lives(m) : Lives(m) = {b}
  PROVE  /\ seen' \in [Pairs -> Series] /\ completed' \in [Pairs -> SUBSET Opens]
         /\ DOMAIN seen'[p] = DOMAIN seen[p] \cup {b.open : b \in Lives(m)}
         /\ \A b \in Lives(m) : seen'[p][b.open] = b.content
         /\ \A t \in DOMAIN seen[p] :
              (\A b \in Lives(m) : b.open # t) => seen'[p][t] = seen[p][t]
         /\ completed'[p] = completed[p] \cup ({c.open : c \in ClosedBars(m)} \ DOMAIN uds[p])
         /\ \A q \in Pairs \ {p} : seen'[q] = seen[q] /\ completed'[q] = completed[q]
<1> DEFINE opens == {b.open : b \in Lives(m)}
           best(t) == (CHOOSE b \in Lives(m) : b.open = t).content
           s == [t \in DOMAIN seen[p] \cup opens |->
                   IF t \in opens THEN best(t) ELSE seen[p][t]]
           done == completed[p] \cup ({c.open : c \in ClosedBars(m)} \ DOMAIN uds[p])
<1>1. seen' = [seen EXCEPT ![p] = s] /\ completed' = [completed EXCEPT ![p] = done]
  <2>1. /\ seen' = [seen EXCEPT ![m.pair] =
              [t \in DOMAIN seen[m.pair] \cup {b.open : b \in ValidBars(m, FALSE)} |->
                 IF t \in {b.open : b \in ValidBars(m, FALSE)}
                 THEN (CHOOSE b \in ValidBars(m, FALSE) : b.open = t).content
                 ELSE seen[m.pair][t]]]
        /\ completed' = [completed EXCEPT ![m.pair] = completed[m.pair] \cup
              ({b.open : b \in ValidBars(m, TRUE)} \ DOMAIN uds[m.pair])]
    BY DEF Witness
  <2>2. Lives(m) = ValidBars(m, FALSE) /\ ClosedBars(m) = ValidBars(m, TRUE) /\ p = m.pair
    BY DEF Lives, ClosedBars
  <2> QED
    BY <2>1, <2>2
<1>2. /\ Lives(m) \subseteq Bars /\ ClosedBars(m) \subseteq Bars
      /\ \A b \in Bars : b.open \in Opens /\ b.content \in Contents
  BY PayloadBars, BarIs
<1>3. ASSUME NEW b \in Lives(m) PROVE best(b.open) = b.content
  <2>1. Lives(m) = {b}
    OBVIOUS
  <2>2. \A x \in Lives(m) : x = b
    BY <2>1
  <2>3. (CHOOSE x \in Lives(m) : x.open = b.open) = b
    BY <2>2
  <2> QED
    BY <2>3
<1>4. /\ DOMAIN seen[p] \subseteq Opens /\ \A t \in DOMAIN seen[p] : seen[p][t] \in Contents
      /\ completed[p] \subseteq Opens
  BY SeriesIs DEF IngestTyped
<1>5. /\ DOMAIN s = DOMAIN seen[p] \cup opens
      /\ \A t \in DOMAIN s : s[t] = IF t \in opens THEN best(t) ELSE seen[p][t]
      /\ s = [t \in DOMAIN s |-> s[t]]
  OBVIOUS
<1> HIDE DEF s, best
<1>6. \A b \in Lives(m) : s[b.open] = b.content
  BY <1>3, <1>5
<1>7. \A t \in DOMAIN seen[p] : (\A b \in Lives(m) : b.open # t) => s[t] = seen[p][t]
  BY <1>5
<1>8. s \in Series
  <2>1. ASSUME NEW t \in DOMAIN s PROVE t \in Opens /\ s[t] \in Contents
    BY <1>2, <1>4, <1>5, <1>6, <1>7
  <2> QED
    BY <1>5, <2>1, SeriesIs
<1>9. done \in SUBSET Opens
  BY <1>2, <1>4
<1>10. seen'[p] = s /\ completed'[p] = done
  BY <1>1 DEF IngestTyped
<1>11. \A q \in Pairs \ {p} : seen'[q] = seen[q] /\ completed'[q] = completed[q]
  BY <1>1 DEF IngestTyped
<1>12. seen' \in [Pairs -> Series] /\ completed' \in [Pairs -> SUBSET Opens]
  BY <1>1, <1>8, <1>9 DEF IngestTyped
<1> QED
  BY <1>5, <1>6, <1>7, <1>10, <1>11, <1>12

(* An accepted payload: what it completes and rolls out goes to the store, *)
(* what it reports is the new live bar.                                    *)
LEMMA AcceptedStep ==
  ASSUME IInv, Take, Accepted(Head(ohlcv))
  PROVE  IInv'
<1>0. /\ IngestTyped /\ QueueInv /\ OpenBarStaysOut
      /\ ohlcv # << >> /\ ohlcv' = Tail(ohlcv) /\ Witness(Head(ohlcv))
      /\ forming' = forming /\ announced' = announced /\ uds' = uds
  BY DEF IInv, Take
<1>1. PICK m : m = Head(ohlcv)
  OBVIOUS
<1>2. PICK p : p = m.pair
  OBVIOUS
<1>w. Witness(m)
  BY <1>0, <1>1 DEF Witness
<1>3. /\ p \in Pairs /\ m \in Payloads
      /\ putting = NoPut /\ putting' \in [pair : {p}, bars : Series] \cup {NoPut}
      /\ putting' # NoPut => DOMAIN putting'.bars # {}
      /\ \A c \in ClosedBars(m) : c.open \in StoringOpens(p)' /\ putting'.bars[c.open] = Full
      /\ \A t \in StoringOpens(p)' :
           \/ \E c \in ClosedBars(m) : c.open = t
           \/ /\ live[p] # NoBar /\ t = live[p].open /\ putting'.bars[t] = live[p].content
              /\ \E b \in Lives(m) : t < b.open
      /\ Lives(m) = {} => live'[p] = live[p] /\ finalised'[p] = finalised[p]
      /\ \A b \in Lives(m) :
           /\ b \in Bars /\ Lives(m) = {b} /\ live'[p] = b
           /\ \/ (live[p] = NoBar \/ live[p].open = b.open) /\ finalised'[p] = finalised[p]
              \/ /\ live[p] # NoBar /\ live[p].open < b.open
                 /\ finalised'[p] = live[p].open /\ live[p].open \in StoringOpens(p)'
      /\ live' \in [Pairs -> Bars \cup {NoBar}] /\ finalised' \in [Pairs -> Opens \cup {0}]
      /\ \A q \in Pairs \ {p} : live'[q] = live[q] /\ finalised'[q] = finalised[q]
  BY <1>1, <1>2, TakeEffect
<1>4. /\ seen' \in [Pairs -> Series] /\ completed' \in [Pairs -> SUBSET Opens]
      /\ DOMAIN seen'[p] = DOMAIN seen[p] \cup {b.open : b \in Lives(m)}
      /\ \A b \in Lives(m) : seen'[p][b.open] = b.content
      /\ \A t \in DOMAIN seen[p] :
           (\A b \in Lives(m) : b.open # t) => seen'[p][t] = seen[p][t]
      /\ completed'[p] = completed[p] \cup ({c.open : c \in ClosedBars(m)} \ DOMAIN uds[p])
      /\ \A q \in Pairs \ {p} : seen'[q] = seen[q] /\ completed'[q] = completed[q]
  <2>1. \A b \in Lives(m) : Lives(m) = {b}
    BY <1>3
  <2> QED
    BY <1>0, <1>2, <1>3, <1>w, <2>1, WitnessEffect
<1>5. /\ ohlcv' \in Seq(Payloads) /\ m = ohlcv[1] /\ 1 \in DOMAIN ohlcv
      /\ \A i \in DOMAIN ohlcv' :
           /\ i + 1 \in DOMAIN ohlcv /\ 1 < i + 1
           /\ ohlcv'[i] = ohlcv[i + 1] /\ ohlcv'[i] \in Payloads
      /\ \A i, j \in DOMAIN ohlcv' : i < j => i + 1 < j + 1
  BY <1>0, <1>1, TailOfQueue
<1>6. Shaped(m) /\ LiveIsLast(m) /\ ClosedBefore(m)
  BY <1>0, <1>5 DEF QueueInv
<1>7. LiveInv(p) /\ SeenInv(p) /\ CompletedInv(p)
  BY <1>3 DEF IInv
<1>8. \A q \in Pairs : StoringOpens(q) = {}
  BY <1>3 DEF StoringOpens, Stores
<1>9. \A q \in Pairs \ {p} : StoringOpens(q)' = {}
  BY <1>3 DEF StoringOpens, Stores
<1>10. /\ Lives(m) \subseteq Bars /\ ClosedBars(m) \subseteq Bars
       /\ live[p] \in Bars \cup {NoBar} /\ forming[p] \in Bars /\ finalised[p] \in Nat
       /\ \A t \in DOMAIN seen[p] : t \in Opens /\ seen[p][t] \in Contents
       /\ \A t \in DOMAIN uds[p] : t \in Opens
  BY <1>0, <1>3, PayloadBars, SeriesIs DEF IngestTyped, Opens
<1>11. /\ \A b \in Bars : b # NoBar /\ b.open \in Nat /\ b.content \in 1 .. Full /\ b.open \in Opens
       /\ NoBar.open = 0 /\ Opens \subseteq Nat \ {0} /\ Contents = 1 .. Full /\ Full \in Nat
  BY BarIs, BarsPositive DEF NoBar, Opens, Contents
<1>12. \A b \in Lives(m) :
         /\ Before(b, forming[p]) /\ (live[p] # NoBar => Before(live[p], b))
         /\ \A t \in DOMAIN uds[p] : t < b.open
         /\ \A c \in ClosedBars(m) : c.open < b.open
  BY <1>2, <1>6 DEF LiveIsLast
<1>13. IngestTyped'
  BY <1>0, <1>3, <1>4, <1>5 DEF IngestTyped
<1>14. LiveInv(p)'
  <2>1. CASE Lives(m) = {}
    BY <1>0, <1>3, <1>7, <2>1 DEF LiveInv
  <2>2. ASSUME NEW b \in Lives(m) PROVE LiveInv(p)'
    <3>1. live'[p] = b /\ b # NoBar /\ Before(b, forming'[p])
      BY <1>0, <1>3, <1>10, <1>11, <1>12
    <3>2. finalised'[p] < b.open
      BY <1>3, <1>7, <1>10, <1>11 DEF LiveInv
    <3> QED
      BY <3>1, <3>2 DEF LiveInv
  <2> QED
    BY <2>1, <2>2
<1>15. DOMAIN seen'[p] \subseteq DOMAIN uds[p] \cup {live'[p].open} \cup StoringOpens(p)'
  <2>1. ASSUME NEW t \in DOMAIN seen[p]
        PROVE  t \in DOMAIN uds[p] \cup {live'[p].open} \cup StoringOpens(p)'
    <3>1. t \in DOMAIN uds[p] \/ t = live[p].open
      BY <1>3, <1>7, <1>8 DEF SeenInv
    <3>2. CASE Lives(m) = {}
      BY <1>3, <3>1, <3>2
    <3>3. ASSUME NEW b \in Lives(m) PROVE live[p].open = t => t \in {live'[p].open} \cup StoringOpens(p)'
      BY <1>3, <1>10, <1>11
    <3> QED
      BY <3>1, <3>2, <3>3
  <2>2. ASSUME NEW b \in Lives(m) PROVE b.open = live'[p].open
    BY <1>3
  <2> QED
    BY <1>4, <2>1, <2>2
<1>16. live'[p].open \in DOMAIN seen'[p] => seen'[p][live'[p].open] <= live'[p].content
  <2>1. CASE Lives(m) = {}
    <3>1. live'[p] = live[p] /\ DOMAIN seen'[p] = DOMAIN seen[p]
      BY <1>3, <1>4, <2>1
    <3> QED
      BY <1>4, <1>7, <2>1, <3>1 DEF SeenInv
  <2>2. ASSUME NEW b \in Lives(m) PROVE seen'[p][live'[p].open] <= live'[p].content
    BY <1>3, <1>4, <1>11
  <2> QED
    BY <2>1, <2>2
<1>17. ASSUME NEW t \in DOMAIN uds[p], t \in DOMAIN seen'[p]
       PROVE  uds[p][t] >= seen'[p][t]
  <2>1. \A b \in Lives(m) : b.open # t
    BY <1>10, <1>11, <1>12
  <2>2. t \in DOMAIN seen[p] /\ seen'[p][t] = seen[p][t]
    BY <1>4, <1>17, <2>1
  <2> QED
    BY <1>7, <2>2 DEF SeenInv
<1>18. ASSUME NEW t \in StoringOpens(p)', t \in DOMAIN seen'[p]
       PROVE  putting'.bars[t] >= seen'[p][t]
  <2>1. seen'[p][t] \in 1 .. Full
    BY <1>3, <1>4, <1>11, <1>18, SeriesIs
  <2>2. CASE \E c \in ClosedBars(m) : c.open = t
    BY <1>3, <1>11, <2>1, <2>2
  <2>3. CASE /\ live[p] # NoBar /\ t = live[p].open /\ putting'.bars[t] = live[p].content
             /\ \E b \in Lives(m) : t < b.open
    <3>1. PICK b \in Lives(m) : t < b.open
      BY <2>3
    <3>2. Lives(m) = {b} /\ b.open # t
      BY <1>3, <1>10, <1>11, <2>3, <3>1
    <3>3. \A x \in Lives(m) : x.open # t
      BY <3>2
    <3>4. t \in DOMAIN seen[p] /\ seen'[p][t] = seen[p][t]
      BY <1>4, <1>18, <3>3
    <3>5. seen[p][t] <= live[p].content
      BY <1>7, <2>3, <3>4 DEF SeenInv
    <3> QED
      BY <1>10, <1>11, <2>1, <2>3, <3>4, <3>5
  <2> QED
    BY <1>3, <2>2, <2>3
<1>19. SeenInv(p)'
  BY <1>0, <1>15, <1>16, <1>17, <1>18 DEF SeenInv
<1>20. CompletedInv(p)'
  <2>1. ASSUME NEW t \in completed'[p]
        PROVE  IF t \in DOMAIN uds[p] THEN uds[p][t] = Full
               ELSE t \in StoringOpens(p)' /\ putting'.bars[t] = Full
    <3>1. CASE t \in completed[p]
      BY <1>3, <1>7, <1>8, <3>1 DEF CompletedInv
    <3>2. CASE t \in {c.open : c \in ClosedBars(m)} \ DOMAIN uds[p]
      BY <1>3, <3>2
    <3> QED
      BY <1>4, <3>1, <3>2
  <2> QED
    BY <1>0, <2>1 DEF CompletedInv
<1>21. ASSUME NEW q \in Pairs \ {p} PROVE LiveInv(q)' /\ SeenInv(q)' /\ CompletedInv(q)'
  <2>1. LiveInv(q) /\ SeenInv(q) /\ CompletedInv(q) /\ StoringOpens(q) = {} /\ StoringOpens(q)' = {}
    BY <1>8, <1>9 DEF IInv
  <2>2. /\ live'[q] = live[q] /\ finalised'[q] = finalised[q] /\ seen'[q] = seen[q]
        /\ completed'[q] = completed[q]
    BY <1>3, <1>4
  <2> QED
    BY <1>0, <2>1, <2>2 DEF LiveInv, SeenInv, CompletedInv
<1>22. ASSUME NEW t \in StoringOpens(p)' PROVE t < forming[p].open
  <2>1. CASE \E c \in ClosedBars(m) : c.open = t
    BY <1>2, <1>6, <2>1 DEF ClosedBefore
  <2>2. CASE live[p] # NoBar /\ t = live[p].open /\ \E b \in Lives(m) : t < b.open
    <3>1. PICK b \in Lives(m) : t < b.open
      BY <2>2
    <3>2. Before(b, forming[p]) /\ b \in Bars /\ live[p] \in Bars
      BY <1>10, <1>12, <2>2
    <3> QED
      BY <1>10, <1>11, <2>2, <3>1, <3>2 DEF Before
  <2> QED
    BY <1>3, <2>1, <2>2
<1>23. OpenBarStaysOut'
  BY <1>0, <1>3, <1>22 DEF OpenBarStaysOut, StoringOpens, Stores
<1>24. ASSUME NEW n \in Payloads, Shaped(n), LiveIsLast(n), ClosedBefore(n), InOrder(m, n)
       PROVE  LiveIsLast(n)' /\ ClosedBefore(n)'
  <2>1. n.pair \in Pairs /\ Lives(n) \subseteq Bars
    BY PayloadBars
  <2>2. CASE n.pair # p
    BY <1>0, <1>3, <1>8, <1>9, <1>24, <2>1, <2>2 DEF LiveIsLast, ClosedBefore
  <2>3. CASE n.pair = p
    <3>1. ASSUME NEW b \in Lives(n)
          PROVE  /\ Before(b, forming[p]) /\ \A c \in ClosedBars(n) : c.open < b.open
                 /\ live[p] # NoBar => Before(live[p], b)
                 /\ \A t \in DOMAIN uds[p] : t < b.open
                 /\ \A c \in Lives(m) : Before(c, b)
                 /\ \A c \in ClosedBars(m) : c.open < b.open
      BY <1>2, <1>24, <2>3 DEF LiveIsLast, InOrder
    <3>2. ASSUME NEW b \in Lives(n) PROVE live'[p] # NoBar => Before(live'[p], b)
      <4>1. CASE Lives(m) = {}
        BY <1>3, <3>1, <4>1
      <4>2. CASE Lives(m) # {}
        BY <1>3, <3>1, <4>2
      <4> QED
        BY <4>1, <4>2
    <3>3. ASSUME NEW b \in Lives(n), NEW t \in StoringOpens(p)' PROVE t < b.open
      <4>1. CASE \E c \in ClosedBars(m) : c.open = t
        BY <3>1, <4>1
      <4>2. CASE live[p] # NoBar /\ t = live[p].open /\ \E c \in Lives(m) : t < c.open
        <5>1. PICK c \in Lives(m) : t < c.open
          BY <4>2
        <5>2. Before(c, b) /\ c \in Bars /\ b \in Bars /\ live[p] \in Bars
          BY <1>10, <2>1, <3>1, <4>2
        <5> QED
          BY <1>11, <4>2, <5>1, <5>2 DEF Before
      <4> QED
        BY <1>3, <4>1, <4>2
    <3>4. LiveIsLast(n)'
      BY <1>0, <2>3, <3>1, <3>2, <3>3 DEF LiveIsLast
    <3> QED
      BY <1>0, <1>24, <3>4 DEF ClosedBefore
  <2> QED
    BY <2>2, <2>3
<1>25. QueueInv'
  <2>1. ASSUME NEW i \in DOMAIN ohlcv'
        PROVE  (Shaped(ohlcv[i]) /\ LiveIsLast(ohlcv[i]) /\ ClosedBefore(ohlcv[i]))'
    <3>1. PICK n \in Payloads : n = ohlcv'[i]
      BY <1>5
    <3>2. n = ohlcv[i + 1] /\ i + 1 \in DOMAIN ohlcv /\ 1 < i + 1
      BY <1>5, <3>1
    <3>3. Shaped(n) /\ LiveIsLast(n) /\ ClosedBefore(n) /\ InOrder(m, n)
      BY <1>0, <1>5, <3>2 DEF QueueInv
    <3>4. LiveIsLast(n)' /\ ClosedBefore(n)'
      BY <1>24, <3>3
    <3> QED
      BY <3>1, <3>3, <3>4 DEF Shaped, LiveIsLast, ClosedBefore
  <2>2. ASSUME NEW i \in DOMAIN ohlcv', NEW j \in DOMAIN ohlcv', i < j
        PROVE  InOrder(ohlcv'[i], ohlcv'[j])
    BY <1>0, <1>5, <2>2 DEF QueueInv
  <2> QED
    BY <2>1, <2>2 DEF QueueInv, InOrder
<1> QED
  BY <1>3, <1>13, <1>14, <1>19, <1>20, <1>21, <1>23, <1>25 DEF IInv

(* The store has taken the bars: those it held stay as they were.          *)
LEMMA PutDoneStep ==
  ASSUME IInv, PutDone
  PROVE  IInv'
<1>0. /\ IngestTyped /\ QueueInv /\ OpenBarStaysOut /\ putting # NoPut /\ putting' = NoPut
      /\ UNCHANGED <<forming, ohlcv, live, finalised, announced, seen, completed>>
  BY DEF IInv, PutDone
<1>1. PICK p \in Pairs : p = putting.pair
  BY <1>0, PutIs
<1>2. /\ uds' = [uds EXCEPT ![p] = Upserted(uds[p], putting.bars)]
      /\ uds[p] \in Series /\ putting.bars \in Series
  BY <1>0, <1>1, PutIs DEF PutDone, IngestTyped
<1>3. /\ DOMAIN uds'[p] = DOMAIN uds[p] \cup DOMAIN putting.bars
      /\ \A t \in DOMAIN uds[p] : uds'[p][t] = uds[p][t]
      /\ \A t \in DOMAIN putting.bars \ DOMAIN uds[p] : uds'[p][t] = putting.bars[t]
      /\ uds'[p] \in Series
      /\ \A q \in Pairs \ {p} : uds'[q] = uds[q]
  <2> DEFINE u == Upserted(uds[p], putting.bars)
  <2>1. /\ DOMAIN u = DOMAIN uds[p] \cup DOMAIN putting.bars
        /\ \A t \in DOMAIN uds[p] : u[t] = uds[p][t]
        /\ \A t \in DOMAIN putting.bars \ DOMAIN uds[p] : u[t] = putting.bars[t]
        /\ u = [t \in DOMAIN u |-> u[t]]
    BY DEF Upserted
  <2> HIDE DEF u
  <2>2. u \in Series
    BY <1>2, <2>1, SeriesIs
  <2>3. uds'[p] = u /\ \A q \in Pairs \ {p} : uds'[q] = uds[q]
    BY <1>0, <1>2 DEF IngestTyped, u
  <2> QED
    BY <2>1, <2>2, <2>3
<1>4. uds' \in [Pairs -> Series]
  <2>1. uds' = [q \in Pairs |-> uds'[q]]
    BY <1>0, <1>2 DEF IngestTyped
  <2> QED
    BY <1>0, <1>3, <2>1 DEF IngestTyped
<1>5. IngestTyped'
  BY <1>0, <1>4 DEF IngestTyped
<1>6. /\ StoringOpens(p) = DOMAIN putting.bars
      /\ \A q \in Pairs \ {p} : StoringOpens(q) = {}
      /\ \A q \in Pairs : StoringOpens(q)' = {}
  BY <1>0, <1>1 DEF StoringOpens, Stores
<1>7. \A q \in Pairs : DOMAIN uds'[q] \cup StoringOpens(q)' = DOMAIN uds[q] \cup StoringOpens(q)
  BY <1>3, <1>6
<1>8. ASSUME NEW q \in Pairs PROVE LiveInv(q)' /\ SeenInv(q)' /\ CompletedInv(q)'
  <2>1. LiveInv(q) /\ SeenInv(q) /\ CompletedInv(q)
    BY DEF IInv
  <2>2. CASE q # p
    BY <1>0, <1>3, <1>6, <2>1, <2>2 DEF LiveInv, SeenInv, CompletedInv
  <2>3. CASE q = p
    <3>1. LiveInv(p)'
      BY <1>0, <2>1, <2>3 DEF LiveInv
    <3>2. DOMAIN seen[p] \subseteq DOMAIN uds'[p] \cup {live[p].open}
      BY <1>3, <1>6, <2>1, <2>3 DEF SeenInv
    <3>3. ASSUME NEW t \in DOMAIN uds'[p] \cap DOMAIN seen[p] PROVE uds'[p][t] >= seen[p][t]
      BY <1>3, <1>6, <2>1, <2>3 DEF SeenInv
    <3>4. SeenInv(p)'
      BY <1>0, <1>6, <2>1, <2>3, <3>2, <3>3 DEF SeenInv
    <3>5. \A t \in completed[p] : t \in DOMAIN uds'[p] /\ uds'[p][t] = Full
      BY <1>3, <1>6, <2>1, <2>3 DEF CompletedInv
    <3>6. CompletedInv(p)'
      BY <1>0, <3>5 DEF CompletedInv
    <3> QED
      BY <2>3, <3>1, <3>4, <3>6
  <2> QED
    BY <2>2, <2>3
<1>9. OpenBarStaysOut'
  <2>1. \A q \in Pairs : \A t \in DOMAIN uds'[q] : t < forming[q].open
    BY <1>0, <1>1, <1>3 DEF OpenBarStaysOut
  <2> QED
    BY <1>0, <2>1 DEF OpenBarStaysOut
<1>10. QueueInv'
  <2>1. ASSUME NEW m, m.pair \in Pairs, LiveIsLast(m), ClosedBefore(m)
        PROVE  LiveIsLast(m)' /\ ClosedBefore(m)'
    BY <1>0, <1>7, <2>1 DEF LiveIsLast, ClosedBefore
  <2>2. ASSUME NEW i \in DOMAIN ohlcv PROVE LiveIsLast(ohlcv[i])' /\ ClosedBefore(ohlcv[i])'
    <3>1. PICK m \in Payloads : m = ohlcv[i]
      BY <1>0 DEF IngestTyped
    <3>2. m.pair \in Pairs /\ LiveIsLast(m) /\ ClosedBefore(m)
      BY <1>0, <3>1, PayloadBars DEF QueueInv
    <3>3. LiveIsLast(m)' /\ ClosedBefore(m)'
      BY <2>1, <3>2
    <3>4. ohlcv'[i] = m
      BY <1>0, <3>1
    <3> QED
      BY <3>3, <3>4 DEF LiveIsLast, ClosedBefore
  <2> QED
    BY <1>0, <2>2 DEF QueueInv, InOrder, Shaped
<1> QED
  BY <1>0, <1>5, <1>8, <1>9, <1>10 DEF IInv

(* put_bars raised: the histories forget what was on its way.              *)
LEMMA PutFailedStep ==
  ASSUME IInv, PutFailed
  PROVE  IInv'
<1>0. /\ IngestTyped /\ QueueInv /\ OpenBarStaysOut /\ putting # NoPut /\ putting' = NoPut
      /\ UNCHANGED <<forming, ohlcv, live, finalised, uds, announced>>
  BY DEF IInv, PutFailed
<1>1. PICK p \in Pairs : p = putting.pair
  BY <1>0, PutIs
<1> DEFINE kept == DOMAIN seen[p] \ DOMAIN putting.bars
           s == [t \in kept |-> seen[p][t]]
<1>2. /\ seen' = [seen EXCEPT ![p] = s]
      /\ completed' = [completed EXCEPT ![p] = completed[p] \ DOMAIN putting.bars]
  BY <1>0, <1>1 DEF PutFailed, IngestTyped
<1>3. /\ seen'[p] = s /\ completed'[p] = completed[p] \ DOMAIN putting.bars
      /\ \A q \in Pairs \ {p} : seen'[q] = seen[q] /\ completed'[q] = completed[q]
  BY <1>0, <1>2 DEF IngestTyped
<1>4. DOMAIN s = kept /\ (\A t \in kept : s[t] = seen[p][t]) /\ s = [t \in DOMAIN s |-> s[t]]
  OBVIOUS
<1> HIDE DEF s
<1>5. s \in Series
  <2>1. seen[p] \in Series
    BY <1>0 DEF IngestTyped
  <2> QED
    BY <1>4, <2>1, SeriesIs
<1>6. IngestTyped'
  BY <1>0, <1>2, <1>5 DEF IngestTyped
<1>7. /\ StoringOpens(p) = DOMAIN putting.bars
      /\ \A q \in Pairs \ {p} : StoringOpens(q) = {}
      /\ \A q \in Pairs : StoringOpens(q)' = {}
  BY <1>0, <1>1 DEF StoringOpens, Stores
<1>8. ASSUME NEW q \in Pairs PROVE LiveInv(q)' /\ SeenInv(q)' /\ CompletedInv(q)'
  <2>1. LiveInv(q) /\ SeenInv(q) /\ CompletedInv(q)
    BY DEF IInv
  <2>2. CASE q # p
    BY <1>0, <1>3, <1>7, <2>1, <2>2 DEF LiveInv, SeenInv, CompletedInv
  <2>3. CASE q = p
    <3>1. LiveInv(p)'
      BY <1>0, <2>1, <2>3 DEF LiveInv
    <3>2. SeenInv(p)'
      BY <1>0, <1>3, <1>4, <1>7, <2>1, <2>3 DEF SeenInv
    <3>3. CompletedInv(p)'
      BY <1>0, <1>3, <1>7, <2>1, <2>3 DEF CompletedInv
    <3> QED
      BY <2>3, <3>1, <3>2, <3>3
  <2> QED
    BY <2>2, <2>3
<1>9. OpenBarStaysOut'
  BY <1>0 DEF OpenBarStaysOut
<1>10. QueueInv'
  <2>1. ASSUME NEW m, m.pair \in Pairs, LiveIsLast(m), ClosedBefore(m)
        PROVE  LiveIsLast(m)' /\ ClosedBefore(m)'
    BY <1>0, <1>7, <2>1 DEF LiveIsLast, ClosedBefore
  <2>2. ASSUME NEW i \in DOMAIN ohlcv PROVE LiveIsLast(ohlcv[i])' /\ ClosedBefore(ohlcv[i])'
    <3>1. PICK m \in Payloads : m = ohlcv[i]
      BY <1>0 DEF IngestTyped
    <3>2. m.pair \in Pairs /\ LiveIsLast(m) /\ ClosedBefore(m)
      BY <1>0, <3>1, PayloadBars DEF QueueInv
    <3>3. LiveIsLast(m)' /\ ClosedBefore(m)'
      BY <2>1, <3>2
    <3>4. ohlcv'[i] = m
      BY <1>0, <3>1
    <3> QED
      BY <3>3, <3>4 DEF LiveIsLast, ClosedBefore
  <2> QED
    BY <1>0, <2>2 DEF QueueInv, InOrder, Shaped
<1> QED
  BY <1>0, <1>6, <1>8, <1>9, <1>10 DEF IInv

(* Nothing has been sent, nor stored.                                      *)
LEMMA IngestInit == Init => IInv
<1> SUFFICES ASSUME Init PROVE IInv
  OBVIOUS
<1> USE DEF Init
<1>1. [open |-> 1, content |-> 1] \in Bars /\ NoSeries \in Series /\ DOMAIN NoSeries = {}
  <2>1. [open |-> 1, content |-> 1] \in Bars
    BY BarsPositive DEF Bars, Opens, Contents
  <2>2. DOMAIN NoSeries = {} /\ NoSeries = [t \in DOMAIN NoSeries |-> NoSeries[t]]
    BY DEF NoSeries
  <2> QED
    BY <2>1, <2>2, SeriesIs
<1>2. IngestTyped
  BY <1>1 DEF IngestTyped
<1>3. \A p \in Pairs : LiveInv(p) /\ SeenInv(p) /\ CompletedInv(p)
  BY <1>1 DEF LiveInv, SeenInv, CompletedInv, StoringOpens, Stores
<1>4. OpenBarStaysOut /\ QueueInv
  BY <1>1 DEF OpenBarStaysOut, QueueInv
<1> QED
  BY <1>2, <1>3, <1>4 DEF IInv

(* Every step of the ingestor, the connector and the status task keeps it. *)
LEMMA IngestStep ==
  ASSUME IInv, [Next]_vars
  PROVE  IInv'
<1>1. ASSUME NEW p \in Pairs, Trade(p) \/ Close(p) PROVE IInv'
  BY <1>1, MarketSteps
<1>2. ASSUME NEW p \in Pairs, SendLive(p) \/ SendComplete(p) \/ SendHistory(p) PROVE IInv'
  BY <1>2, SendSteps
<1>3. CASE Drop
  BY <1>3, DropStep
<1>4. CASE Take
  BY <1>4, SkippedStep, AcceptedStep
<1>5. CASE PutDone
  BY <1>5, PutDoneStep
<1>6. CASE PutFailed
  BY <1>6, PutFailedStep
<1>7. CASE UNCHANGED ingestVars
  BY <1>7 DEF IInv, IngestTyped, QueueInv, LiveIsLast, ClosedBefore, InOrder, Shaped,
              OpenBarStaysOut, LiveInv, SeenInv, CompletedInv, StoringOpens, Stores, ingestVars
<1> QED
  BY <1>1, <1>2, <1>3, <1>4, <1>5, <1>6, <1>7 DEF Next, vars
-----------------------------------------------------------------------------
(* The close that goes to the feed state is one of a bar that has closed.  *)
LEMMA NewestIsClosed ==
  ASSUME IInv, putting # NoPut
  PROVE  NewestClose(putting.bars) \in Closes
<1> DEFINE T == DOMAIN putting.bars
<1>1. PICK p \in Pairs : p = putting.pair
  BY PutIs DEF IInv
<1>2. T # {} /\ \A t \in T : t < forming[p].open
  BY <1>1 DEF IInv, OpenBarStaysOut
<1>3. T \subseteq Opens /\ forming[p].open \in Opens
  BY PutIs, SeriesIs, BarIs DEF IInv, IngestTyped
<1>4. LastBar \in Nat
  BY BarsPositive
<1>5. \E t \in T : \A u \in T : u <= t
  <2> HIDE DEF T
  <2> QED
    BY <1>2, <1>3, <1>4, GreatestNumber DEF Opens
<1>6. NewestClose(putting.bars) \in T
  BY <1>5 DEF NewestClose
<1>7. NewestClose(putting.bars) \in 1 .. LastBar - 1
  BY <1>2, <1>3, <1>4, <1>6 DEF Opens
<1> QED
  BY <1>7, ClosesCover

(* The inductive invariant of the ingestor.                                *)
THEOREM IngestSafe == Spec => []IInv
<1> QED
  BY IngestInit, IngestStep, PTL DEF Spec

(* Composed with the ingestor, whose only access to the feed state is      *)
(* note_fxcm_bar_close, the feed state behaves as FxcmStatus says: every   *)
(* theorem about StatusSpec holds of the whole.                            *)
THEOREM FeedOfTheWhole == Spec => StatusSpec
<1>1. Init => StatusInit
  BY DEF Init
<1>2. ASSUME IInv, [Next]_vars PROVE [StatusNext]_statusVars
  <2>1. CASE PutDone
    <3>1. NoteBarClose(NewestClose(putting.bars)) /\ putting # NoPut
      BY <2>1 DEF PutDone
    <3>2. PICK close \in Closes : close = NewestClose(putting.bars)
      BY <1>2, <3>1, NewestIsClosed
    <3>3. NoteBarClose(close)
      BY <3>1, <3>2 DEF NoteBarClose, Noted, Lag
    <3> QED
      BY <3>3 DEF StatusNext
  <2>2. CASE StatusWorld /\ UNCHANGED ingestVars
    BY <2>2 DEF StatusNext
  <2>3. ASSUME NEW p \in Pairs,
               Trade(p) \/ Close(p) \/ SendLive(p) \/ SendComplete(p) \/ SendHistory(p)
        PROVE  UNCHANGED statusVars
    <3>1. ASSUME NEW bars, Send(p, bars) PROVE UNCHANGED statusVars
      BY <3>1 DEF Send
    <3> QED
      BY <2>3, <3>1 DEF Trade, Close, SendLive, SendComplete, SendHistory
  <2>4. CASE Drop \/ Take \/ PutFailed \/ UNCHANGED vars
    BY <2>4 DEF Drop, Take, PutFailed, vars
  <2> QED
    BY <1>2, <2>1, <2>2, <2>3, <2>4 DEF Next
<1> QED
  BY <1>1, <1>2, IngestSafe, PTL DEF Spec, StatusSpec

(* In the composed system too, each label shows the connector's last       *)
(* report of it once everything received is handled, unless it was lost.   *)
COROLLARY FeedFollows == Spec => []FollowsStatus
<1> QED
  BY FeedOfTheWhole, StatusFollows, PTL

(* Every variable has its type, and the bar that is still being traded     *)
(* never gets into the store (IngestInv).                                  *)
THEOREM OpenBarIsNotStored == Spec => []IngestInv
<1>1. IInv /\ StatusTypeOK => IngestInv
  BY DEF IInv, IngestTyped, IngestInv, TypeOK
<1> QED
  BY <1>1, IngestSafe, FeedOfTheWhole, StatusTypeCorrect, PTL

(* No accepted live bar falls through, whatever is completed, repeated,    *)
(* late or lost, and none is stored older than it was seen (LiveBarsKept). *)
THEOREM LiveBarsAreKept == Spec => []LiveBarsKept
<1>1. IInv => LiveBarsKept
  BY DEF IInv, SeenInv, StoringOpens, Stores, LiveBarsKept
<1> QED
  BY <1>1, IngestSafe, PTL

(* Once a complete bar is accepted the store holds it and no live          *)
(* approximation, whichever comes first (CompleteWins).                    *)
THEOREM CompleteBarsWin == Spec => []CompleteWins
<1>1. IInv => CompleteWins
  BY DEF IInv, CompletedInv, CompleteWins
<1> QED
  BY <1>1, IngestSafe, PTL
=============================================================================
