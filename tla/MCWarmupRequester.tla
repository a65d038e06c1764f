------------------------- MODULE MCWarmupRequester -------------------------
(* A five-minute series within the limit of get_df.                        *)
EXTENDS WarmupRequester

FiveMinutes == <<"m5">>
FiveMinutesContract == "m5" :> Desired
===========================================================================
