---------------------------- MODULE FxcmIngestor ----------------------------
(***************************************************************************)
(* data/fxcm_ingestor.py: the task that reads OHLCV payloads from the      *)
(* Redis channel fxcm:ohlcv, drops them or turns them into bars, finalises *)
(* live bars, and hands the bars to UnifiedDataStore.put_bars.  It shares  *)
(* the feed state with FxcmStatus, whose steps interleave with its own.    *)
(* Bars are named by open_time 1, 2, ...; bar t closes at time t, and its  *)
(* contents are how far it had been traded, Full once it is closed.        *)
(***************************************************************************)
EXTENDS FxcmStatus, FiniteSets, SequencesExt

CONSTANTS
  Pairs,        \* (symbol, tf) pairs the connector publishes
  AllowedPairs, \* allowed_pairs, the contract universe
  LastBar,      \* bound: the last open_time
  Full,         \* contents of a bar that has closed
  Secret,       \* hmac_secret is set
  Required,     \* hmac_required
  Queued,       \* bound on payloads not yet read
  Habits        \* what the connector and the network do, of AllHabits

AllHabits ==
  {"history",      \* warm-up answers: every closed bar, late, in one payload
   "loss",         \* the connection drops with payloads unread
   "bad_payload",  \* malformed bars, payloads without a proper signature
   "put_fails"}    \* put_bars raises

ASSUME PairsAllowed == AllowedPairs \subseteq Pairs
ASSUME BarsPositive == {LastBar, Full, Queued} \subseteq Nat \ {0}
ASSUME HabitsKnown == Habits \subseteq AllHabits
ASSUME FlagsBoolean == {Secret, Required} \subseteq BOOLEAN
ASSUME GateLabels == {"market", "price"} \subseteq Labels
ASSUME ClosesCover == 1 .. LastBar - 1 \subseteq Closes

Opens == 1 .. LastBar
Contents == 1 .. Full
Bars == [open : Opens, content : Contents]
NoBar == [open |-> 0]

Entries == [valid : BOOLEAN, complete : BOOLEAN, bar : Bars]
Payloads == [pair : Pairs, sig : {"good", "bad", "none"}, bars : Seq(Entries)]

(* Bars by open_time: the frame that goes to put_bars, or what it keeps.   *)
Series == UNION {[T -> Contents] : T \in SUBSET Opens}
NoSeries == [t \in {} |-> t]
NoPut == [pair |-> "none"]

VARIABLES
  forming,    \* connector: the bar being traded
  ohlcv,      \* payloads published to the subscription, not yet read
  live,       \* _LAST_LIVE_BAR_BY_PAIR
  finalised,  \* _LAST_FINALIZED_OPEN_TIME_BY_PAIR
  putting,    \* the put_bars being awaited
  uds,        \* the bars UnifiedDataStore holds
  announced,  \* history: the last open_time published live
  seen,       \* history: best content of each live bar accepted
  completed   \* history: open_times whose complete bar was accepted before
              \* the store held any bar of theirs

ingestVars == <<forming, ohlcv, live, finalised, putting, uds, announced, seen,
                completed>>
vars == <<statusVars, ingestVars>>

TypeOK ==
  /\ StatusTypeOK
  /\ forming \in [Pairs -> Bars]
  /\ ohlcv \in Seq(Payloads)
  /\ live \in [Pairs -> Bars \cup {NoBar}]
  /\ finalised \in [Pairs -> Opens \cup {0}]
  /\ putting \in [pair : Pairs, bars : Series] \cup {NoPut}
  /\ uds \in [Pairs -> Series]
  /\ announced \in [Pairs -> Opens \cup {0}]
  /\ seen \in [Pairs -> Series]
  /\ completed \in [Pairs -> SUBSET Opens]

Init ==
  /\ StatusInit
  /\ forming = [p \in Pairs |-> [open |-> 1, content |-> 1]]
  /\ ohlcv = << >>
  /\ live = [p \in Pairs |-> NoBar]
  /\ finalised = [p \in Pairs |-> 0]
  /\ putting = NoPut
  /\ uds = [p \in Pairs |-> NoSeries]
  /\ announced = [p \in Pairs |-> 0]
  /\ seen = [p \in Pairs |-> NoSeries]
  /\ completed = [p \in Pairs |-> {}]
-----------------------------------------------------------------------------
(* The connector.                                                          *)

Live(p) == [valid |-> TRUE, complete |-> FALSE, bar |-> forming[p]]
Complete(t) ==
  [valid |-> TRUE, complete |-> TRUE, bar |-> [open |-> t, content |-> Full]]

Trade(p) ==
  /\ forming[p].content < Full
  /\ forming' = [forming EXCEPT ![p].content = @ + 1]
  /\ UNCHANGED <<statusVars, ohlcv, live, finalised, putting, uds, announced,
                 seen, completed>>

Close(p) ==
  /\ forming[p] = [open |-> forming[p].open, content |-> Full]
  /\ forming[p].open < LastBar
  /\ forming' = [forming EXCEPT ![p] = [open |-> @.open + 1, content |-> 1]]
  /\ UNCHANGED <<statusVars, ohlcv, live, finalised, putting, uds, announced,
                 seen, completed>>

(* Malformed bars do not survive _sanitize_bar.                            *)
Spoilt(bars) == [i \in DOMAIN bars |-> [bars[i] EXCEPT !.valid = FALSE]]

Send(p, bars) ==
  /\ Len(ohlcv) < Queued
  /\ \/ ohlcv' = Append(ohlcv, [pair |-> p, sig |-> "good", bars |-> bars])
     \/ /\ "bad_payload" \in Habits
        /\ \/ \E sig \in {"bad", "none"} :
                ohlcv' = Append(ohlcv, [pair |-> p, sig |-> sig, bars |-> bars])
           \/ ohlcv' = Append(ohlcv, [pair |-> p, sig |-> "good", bars |-> Spoilt(bars)])
  /\ UNCHANGED <<statusVars, forming, live, finalised, putting, uds, seen,
                 completed>>

SendLive(p) ==
  /\ Send(p, <<Live(p)>>)
  /\ announced' = [announced EXCEPT ![p] = forming[p].open]

(* The bar that has closed, on its own or with the one that opens.         *)
SendComplete(p) ==
  LET t == forming[p].open - 1 IN
  /\ t >= 1 /\ announced[p] <= t
  /\ \/ Send(p, <<Complete(t)>>) /\ UNCHANGED announced
     \/ /\ Send(p, <<Complete(t), Live(p)>>)
        /\ announced' = [announced EXCEPT ![p] = forming[p].open]

(* The answer to fxcm_warmup or fxcm_backfill; it may complete bars long   *)
(* after the live report of the next.                                      *)
SendHistory(p) ==
  /\ "history" \in Habits
  /\ forming[p].open > 1
  /\ Send(p, [t \in 1 .. forming[p].open - 1 |-> Complete(t)])
  /\ UNCHANGED announced

(* The connection drops; run_fxcm_ingestor subscribes again.               *)
Drop ==
  /\ "loss" \in Habits
  /\ ohlcv # << >>
  /\ ohlcv' = << >>
  /\ UNCHANGED <<statusVars, forming, live, finalised, putting, uds, announced,
                 seen, completed>>
-----------------------------------------------------------------------------
(* _process_payload                                                        *)

(* The HMAC branch.                                                        *)
Signed(sig) ==
  Secret => sig = "good" \/ (sig = "none" /\ ~Required)

(* _is_ingest_allowed_by_status                                            *)
Allowed ==
  /\ feed.report["market"] # "closed"
  /\ feed.report["market"] = "open" => feed.report["price"] \in {None, "ok"}

(* Variant: the bar that has just appeared is noted as finalised.          *)
Rolled_MarksNew(work, bar) ==
  LET prev == work.live IN
  IF prev = NoBar \/ prev.open = bar.open \/ work.finalised = prev.open
  THEN [work EXCEPT !.live = bar]
  ELSE [live |-> bar, finalised |-> bar.open, out |-> Append(work.out, prev)]

(* Variant: any new report finalises the previous one.                     *)
Rolled_EveryReport(work, bar) ==
  LET prev == work.live IN
  IF prev = NoBar \/ work.finalised = prev.open
  THEN [work EXCEPT !.live = bar]
  ELSE [live |-> bar, finalised |-> prev.open, out |-> Append(work.out, prev)]

(* A live report: a new open_time finalises the previous live bar, unless  *)
(* that was the last one finalised.                                        *)
Rolled(work, bar) ==
  LET prev == work.live IN
  IF prev = NoBar \/ prev.open = bar.open \/ work.finalised = prev.open
  THEN [work EXCEPT !.live = bar]
  ELSE [live |-> bar, finalised |-> prev.open, out |-> Append(work.out, prev)]

Handled(work, entry) ==
  IF ~entry.valid THEN work
  ELSE IF entry.complete THEN [work EXCEPT !.out = Append(@, entry.bar)]
  ELSE Rolled(work, entry.bar)

(* sort_values (stable), then the store's drop_duplicates: of equal        *)
(* open_times the first.                                                   *)
Frame(out) ==
  [t \in {out[i].open : i \in DOMAIN out} |->
     out[SelectInSeq(out, LAMBDA b : b.open = t)].content]

Accepted(payload) ==
  /\ Signed(payload.sig)
  /\ payload.pair \in AllowedPairs
  /\ Allowed

ValidBars(payload, complete) ==
  {payload.bars[i].bar : i \in {j \in DOMAIN payload.bars :
     payload.bars[j].valid /\ payload.bars[j].complete = complete}}

(* History: what the connector reported and the ingestor accepted.         *)
Witness(payload) ==
  LET p == payload.pair
      bars == ValidBars(payload, FALSE)
      opens == {b.open : b \in bars}
  IN  /\ seen' = [seen EXCEPT ![p] =
           [t \in DOMAIN @ \cup opens |->
              IF t \in opens THEN (CHOOSE b \in bars : b.open = t).content ELSE @[t]]]
      /\ completed' = [completed EXCEPT ![p] =
           @ \cup ({b.open : b \in ValidBars(payload, TRUE)} \ DOMAIN uds[p])]

(* One message, up to the put_bars await; a payload that is not accepted   *)
(* or yields no bars goes no further.                                      *)
Take ==
  /\ putting = NoPut
  /\ ohlcv # << >>
  /\ LET payload == Head(ohlcv)
         p == payload.pair
         work == FoldLeft(Handled,
                   [live |-> live[p], finalised |-> finalised[p], out |-> << >>],
                   payload.bars)
     IN  IF Accepted(payload)
         THEN /\ live' = [live EXCEPT ![p] = work.live]
              /\ finalised' = [finalised EXCEPT ![p] = work.finalised]
              /\ putting' = IF work.out = << >> THEN NoPut
                            ELSE [pair |-> p, bars |-> Frame(work.out)]
              /\ Witness(payload)
         ELSE UNCHANGED <<live, finalised, putting, seen, completed>>
  /\ ohlcv' = Tail(ohlcv)
  /\ UNCHANGED <<statusVars, forming, uds, announced>>

NewestClose(series) == CHOOSE t \in DOMAIN series : \A u \in DOMAIN series : u <= t

(* Variant: the bars handed to put_bars replace what the store holds.      *)
Upserted_NewWins(old, new) ==
  [t \in DOMAIN old \cup DOMAIN new |-> IF t \in DOMAIN new THEN new[t] ELSE old[t]]

(* UnifiedDataStore keeps the first bar of an open_time.                   *)
Upserted(old, new) ==
  [t \in DOMAIN old \cup DOMAIN new |-> IF t \in DOMAIN old THEN old[t] ELSE new[t]]

(* put_bars returned; the last close of the frame goes to the feed state.  *)
PutDone ==
  /\ putting # NoPut
  /\ uds' = [uds EXCEPT ![putting.pair] = Upserted(@, putting.bars)]
  /\ putting' = NoPut
  /\ NoteBarClose(NewestClose(putting.bars))
  /\ UNCHANGED <<forming, ohlcv, live, finalised, announced, seen, completed>>

(* put_bars raised: the bars of this payload are gone, and the histories   *)
(* forget them.                                                            *)
PutFailed ==
  /\ "put_fails" \in Habits
  /\ putting # NoPut
  /\ putting' = NoPut
  /\ LET p == putting.pair
         kept == DOMAIN seen[p] \ DOMAIN putting.bars
     IN  /\ seen' = [seen EXCEPT ![p] = [t \in kept |-> @[t]]]
         /\ completed' = [completed EXCEPT ![p] = @ \ DOMAIN putting.bars]
  /\ UNCHANGED <<statusVars, forming, ohlcv, live, finalised, uds, announced>>

Ingest == Take \/ PutDone \/ PutFailed

Next ==
  \/ \E p \in Pairs :
       Trade(p) \/ Close(p) \/ SendLive(p) \/ SendComplete(p) \/ SendHistory(p)
  \/ Drop
  \/ Take \/ PutDone \/ PutFailed
  \/ StatusWorld /\ UNCHANGED ingestVars

Spec == Init /\ [][Next]_vars
-----------------------------------------------------------------------------
(* The bar that is still being traded never gets into the store, though    *)
(* its reports are kept for later ("a live bar (complete=false) is not     *)
(* written to UDS").                                                       *)
OpenBarStaysOut ==
  \A p \in Pairs :
    /\ \A t \in DOMAIN uds[p] : t < forming[p].open
    /\ putting # NoPut /\ putting.pair = p
         => \A t \in DOMAIN putting.bars : t < forming[p].open

(* Types, with what may be in the store.                                   *)
IngestInv == TypeOK /\ OpenBarStaysOut

(* No live bar the ingestor accepted falls through: it is the current live *)
(* bar, on its way to the store or in the store, even when the connector   *)
(* never sends complete=true (comment on _LAST_LIVE_BAR_BY_PAIR); only a   *)
(* put_bars that raises loses one.  What is stored of it is at least as    *)
(* recent as its last report accepted before the next bar appeared.        *)
LiveBarsKept ==
  \A p \in Pairs :
    /\ DOMAIN seen[p] \subseteq
         DOMAIN uds[p] \cup {live[p].open}
         \cup (IF putting # NoPut /\ putting.pair = p THEN DOMAIN putting.bars ELSE {})
    /\ \A t \in DOMAIN uds[p] \cap DOMAIN seen[p] : uds[p][t] >= seen[p][t]

(* Once a complete bar has been accepted the store holds the complete bar  *)
(* and no live approximation of it, whatever is finalised after it         *)
(* (docs/fxcm_integration.md: the store keeps complete bars only;          *)
(* incomplete bars are skipped).  An approximation already stored stays.   *)
CompleteWins ==
  \A p \in Pairs : \A t \in completed[p] \cap DOMAIN uds[p] :
    putting = NoPut => uds[p][t] = Full
=============================================================================
