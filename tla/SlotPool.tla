----------------------------- MODULE SlotPool ------------------------------
(***************************************************************************)
(* What scarce-slot admission promises: symbols take up to MaxBots slots,  *)
(* in batches that fit when they are admitted, and give them back.         *)
(***************************************************************************)
EXTENDS Integers, FiniteSets

CONSTANTS Symbols, MaxBots

VARIABLE taken  \* symbols that occupy a slot

Init == taken = {}

Admit(batch) ==
    /\ batch \cap taken = {}
    /\ Cardinality(taken \cup batch) <= MaxBots
    /\ taken' = taken \cup batch

Vacate(symbols) == taken' = taken \ symbols

Next == \E symbols \in SUBSET Symbols : Admit(symbols) \/ Vacate(symbols)

Spec == Init /\ [][Next]_taken
============================================================================
