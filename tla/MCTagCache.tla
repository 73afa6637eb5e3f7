----------------------------- MODULE MCTagCache -----------------------------
(* Instances of TagCache for TLC.  A tick is about ten minutes: the ratios *)
(* of the timeouts are what matters, and 2 * MaxFetch < Buffer as in the   *)
(* source (30 s, 30 s and 300 s).                                          *)
EXTENDS TagCache

CONSTANTS huggingface, kaggle, caller, reader

TwoMarkets == {huggingface, kaggle}
=============================================================================
