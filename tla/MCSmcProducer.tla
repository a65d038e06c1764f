--------------------------- MODULE MCSmcProducer ---------------------------
(* Symbols, selectors and feed states for SmcProducer.                     *)
EXTENDS SmcProducer

Listed == {} :> <<>> @@ {"a"} :> <<"a">> @@ {"b"} :> <<"b">> @@ {"a", "b"} :> <<"b", "a">>
ByName == {"a"} :> "a" @@ {"b"} :> "b" @@ {"a", "b"} :> "a"
FromConfig == <<"a", "b">>
FastSymbols == {{}, {"a"}, {"a", "b"}}
ContractBars == "a" :> 1 @@ "b" :> Target

Feed(m, p, o, r) == [market |-> m, price |-> p, ohlcv |-> o, recent |-> r]
FeedStates == {Feed("open", "ok", "ok", TRUE), Feed("open", "stale", "ok", TRUE),
               Feed("open", "", "delayed", TRUE), Feed("closed", "ok", "down", TRUE),
               Feed("closed", "ok", "down", FALSE)}
===========================================================================
