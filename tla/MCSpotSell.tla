---------------------------- MODULE MCSpotSell ------------------------------
(***************************************************************************)
(* Small instances of the spot sell for TLC.                               *)
(***************************************************************************)
EXTENDS SpotSell

\* An attempt may die anywhere but between the last two writes of an unsellable remainder.
BeforeArchive == {"place", "poll", "latest", "cancel", "confirm", "lookup", "fallback",
                     "market", "report", "book", "summary", "close"}
=============================================================================
