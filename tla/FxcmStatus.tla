----------------------------- MODULE FxcmStatus -----------------------------
(***************************************************************************)
(* data/fxcm_status_listener.py: the task that follows the Redis channel   *)
(* fxcm:status and keeps the one FxcmFeedState the ingestor's gate, the    *)
(* SMC producer and the UI read.  The connector that publishes is another  *)
(* program; Redis pub/sub forgets what is published to nobody.             *)
(***************************************************************************)
EXTENDS Integers, Sequences

CONSTANTS
  Labels,      \* the sticky fields: "market", "process", "price", "ohlcv"
  Values,      \* Values[l]: what the connector reports of l
  OpenIn,      \* seconds_to_next_open a session may carry
  Closes,      \* close_time values of ingested bars
  MaxNow,      \* bound on the clock
  InboxSize,   \* bound on messages not yet read
  MaxBackoff   \* seconds

None == "none"
Absent == -1   \* None, for numbers

ASSUME LabelsHaveValues == Values \in [Labels -> SUBSET STRING]
ASSUME NoneIsNoValue == \A l \in Labels : None \notin Values[l]
ASSUME NumbersAreNat == OpenIn \subseteq Nat /\ Closes \subseteq Nat
ASSUME BoundsPositive == MaxNow \in Nat /\ {InboxSize, MaxBackoff} \subseteq Nat \ {0}

Reported(l) == Values[l] \cup {None}
Reports == {r \in [Labels -> UNION {Reported(l) : l \in Labels}] :
              \A l \in Labels : r[l] \in Reported(l)}

NoSession == [open_in |-> Absent]
Sessions == {NoSession} \cup [open_in : OpenIn]

(* A status message; an invalid one does not pass FxcmAggregatedStatus.    *)
Messages == [valid : BOOLEAN, report : Reports, session : Sessions]

(* What pubsub.listen() yields first after a subscription.                 *)
Subscribed == [valid |-> FALSE]

VARIABLES
  feed,      \* _FXCM_FEED_STATE
  inbox,     \* published to the subscription, not yet read
  link,      \* "down", "up"
  backoff,   \* backoff_sec
  now,       \* time.time()
  truth,     \* history: the last value the connector reported of each label
  missed     \* history: labels whose last report was lost

statusVars == <<feed, inbox, link, backoff, now, truth, missed>>

Nothing == [l \in Labels |-> None]

FeedStates == [report : Reports, session : Sessions,
               to_open : OpenIn \cup {Absent},
               last_close : Closes \cup {Absent}, lag : -1 .. MaxNow]

StatusTypeOK ==
  /\ feed \in FeedStates
  /\ inbox \in Seq(Messages \cup {Subscribed})
  /\ link \in {"up", "down"}
  /\ backoff \in 1 .. MaxBackoff
  /\ now \in 0 .. MaxNow
  /\ truth \in Reports
  /\ missed \subseteq Labels

StatusInit ==
  /\ feed = [report |-> Nothing, session |-> NoSession, to_open |-> Absent,
             last_close |-> Absent, lag |-> Absent]
  /\ inbox = << >>
  /\ link = "down"
  /\ backoff = 1
  /\ now = 0
  /\ truth = Nothing
  /\ missed = {}
-----------------------------------------------------------------------------
(* Variant: every message replaces all labels.                             *)
Sticky_Replace(old, report) == report

(* Only a non-empty label of a message overwrites what is known.           *)
Sticky(old, report) ==
  [l \in Labels |-> IF report[l] # None THEN report[l] ELSE old[l]]

(* _refresh_lag_from_last_close                                            *)
Lag(last_close) ==
  IF last_close = Absent THEN Absent
  ELSE IF last_close < now THEN now - last_close ELSE 0

(* session_seconds_to_next_open: a chain of "or", which takes 0 for absent.*)
SecondsToOpen(session) == IF session.open_in = 0 THEN Absent ELSE session.open_in

(* Variant: seconds_to_open is read before the session is replaced.        *)
Applied_OpenFirst(f, m) ==
  LET session == IF m.session # NoSession THEN m.session ELSE f.session
  IN  [f EXCEPT !.report = Sticky(@, m.report),
                !.session = session,
                !.to_open = SecondsToOpen(f.session),
                !.lag = Lag(f.last_close)]

(* _apply_status_snapshot: a message without a session keeps the old one.  *)
Applied(f, m) ==
  LET session == IF m.session # NoSession THEN m.session ELSE f.session
  IN  [f EXCEPT !.report = Sticky(@, m.report),
                !.session = session,
                !.to_open = SecondsToOpen(session),
                !.lag = Lag(f.last_close)]

(* note_fxcm_bar_close, called by the ingestor.                            *)
Noted(f, close) == [f EXCEPT !.last_close = close, !.lag = Lag(close)]
-----------------------------------------------------------------------------
(* The connector publishes a status.                                       *)
Publish(m) ==
  /\ Len(inbox) < InboxSize
  /\ inbox' = IF link = "up" THEN Append(inbox, m) ELSE inbox
  /\ LET said == {l \in Labels : m.valid /\ m.report[l] # None} IN
       /\ truth' = [l \in Labels |-> IF l \in said THEN m.report[l] ELSE truth[l]]
       /\ missed' = IF link = "up" THEN missed \ said ELSE missed \cup said
  /\ UNCHANGED <<feed, link, backoff, now>>

(* One turn of the loop over pubsub.listen().                              *)
Receive ==
  /\ link = "up"
  /\ inbox # << >>
  /\ backoff' = 1
  /\ feed' = IF Head(inbox).valid THEN Applied(feed, Head(inbox)) ELSE feed
  /\ inbox' = Tail(inbox)
  /\ UNCHANGED <<link, now, truth, missed>>

(* The connection fails: unread messages are gone, the state stays.        *)
Disconnect ==
  /\ link = "up"
  /\ link' = "down"
  /\ inbox' = << >>
  /\ backoff' = IF 2 * backoff < MaxBackoff THEN 2 * backoff ELSE MaxBackoff
  /\ missed' = missed \cup
       {l \in Labels : \E i \in DOMAIN inbox :
          inbox[i].valid /\ inbox[i].report[l] # None}
  /\ UNCHANGED <<feed, now, truth>>

(* After backoff_sec the loop subscribes again, or fails again.            *)
Subscribe ==
  /\ link = "down"
  /\ link' = "up"
  /\ inbox' = <<Subscribed>>
  /\ UNCHANGED <<feed, backoff, now, truth, missed>>

SubscribeFails ==
  /\ link = "down"
  /\ backoff' = IF 2 * backoff < MaxBackoff THEN 2 * backoff ELSE MaxBackoff
  /\ UNCHANGED <<feed, inbox, link, now, truth, missed>>

NoteBarClose(close) ==
  /\ feed' = Noted(feed, close)
  /\ UNCHANGED <<inbox, link, backoff, now, truth, missed>>

Clock ==
  /\ now < MaxNow
  /\ now' = now + 1
  /\ UNCHANGED <<feed, inbox, link, backoff, truth, missed>>

(* All but the ingestor's call.                                            *)
StatusWorld ==
  \/ \E m \in Messages : Publish(m)
  \/ Receive \/ Disconnect \/ Subscribe \/ SubscribeFails
  \/ Clock

StatusNext == StatusWorld \/ \E close \in Closes : NoteBarClose(close)

StatusSpec == StatusInit /\ [][StatusNext]_statusVars

(* The loop runs and subscribes again after each failure; the connector    *)
(* repeats its status (cadence of seconds, docs/fxcm_integration.md).      *)
Repeat == Publish([valid |-> TRUE, report |-> truth, session |-> NoSession])

FairStatus ==
  /\ StatusSpec
  /\ WF_statusVars(Receive) /\ WF_statusVars(Subscribe) /\ SF_statusVars(Repeat)
-----------------------------------------------------------------------------
(* Partial messages, invalid ones, reconnections: once everything received *)
(* is handled, each label has the last value the connector reported of it, *)
(* unless that report itself was lost (pub/sub does not repeat it).        *)
FollowsStatus ==
  \A l \in Labels \ missed :
    \/ feed.report[l] = truth[l]
    \/ \E i \in DOMAIN inbox : inbox[i].valid /\ inbox[i].report[l] = truth[l]

(* seconds_to_open belongs to the session the state shows with it.         *)
OpenFollowsSession == feed.to_open = SecondsToOpen(feed.session)

(* Whatever was lost before, a connection that holds and a connector that  *)
(* keeps to its report bring the state to that report, for good: partial,  *)
(* repeated and invalid messages do not take it away again.                *)
CatchesUp ==
  \A r \in Reports :
    <>[](truth = r /\ link = "up") => <>[](feed.report = r)
=============================================================================
