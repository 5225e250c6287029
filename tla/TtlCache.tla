------------------------------- MODULE TtlCache -------------------------------
(***************************************************************************)
(* async_ttl_cache as Trades uses it: reads through the cache, writes that *)
(* clear it afterwards. The lock is never held across an await, so a look- *)
(* up, a fill and a clear are one step each; the read in between is not.   *)
(***************************************************************************)
EXTENDS Naturals

CONSTANTS
    Readers,
    MaxVersion,  \* bound: writes
    Ttl,         \* ttl, in ticks of the clock
    MaxTime      \* bound: ticks

VARIABLES
    now,
    version,   \* the store
    entry,     \* the cached value, 0 for none, and when it expires
    reader,    \* what a call that missed has read; value 0 while it does not read
    cleared,   \* the write the last clear followed
    uncleared  \* whether a write has still to clear the cache

vars == <<now, version, entry, reader, cleared, uncleared>>

\* crossed: whether the cache was cleared while the value was being read
NoEntry == [value |-> 0, expires |-> 0, crossed |-> FALSE]
NoRead == [value |-> 0, crossed |-> FALSE]

Init ==
    /\ now = 1 /\ version = 1
    /\ entry = NoEntry
    /\ reader = [r \in Readers |-> NoRead]
    /\ cleared = 1 /\ uncleared = FALSE

Tick ==
    /\ now < MaxTime
    /\ now' = now + 1
    /\ UNCHANGED <<version, entry, reader, cleared, uncleared>>

\* update_open_trades and its like: the row, then _clear_order_trade_cache.
Write ==
    /\ version < MaxVersion /\ ~uncleared
    /\ version' = version + 1
    /\ uncleared' = TRUE
    /\ UNCHANGED <<now, entry, reader, cleared>>

\* A mistake: the clear leaves an entry that has not expired.
ClearExpired ==
    /\ uncleared
    /\ entry' = IF now >= entry.expires THEN NoEntry ELSE entry
    /\ cleared' = version
    /\ reader' = [r \in Readers |-> [reader[r] EXCEPT !.crossed = reader[r].value # 0]]
    /\ uncleared' = FALSE
    /\ UNCHANGED <<now, version>>

\* cache_clear
Clear ==
    /\ uncleared
    /\ entry' = NoEntry
    /\ cleared' = version
    /\ reader' = [r \in Readers |-> [reader[r] EXCEPT !.crossed = reader[r].value # 0]]
    /\ uncleared' = FALSE
    /\ UNCHANGED <<now, version>>

Hits == entry.value # 0 /\ now < entry.expires

Miss(r) ==
    /\ reader[r].value = 0 /\ ~Hits
    /\ reader' = [reader EXCEPT ![r] = [value |-> version, crossed |-> FALSE]]
    /\ UNCHANGED <<now, version, entry, cleared, uncleared>>

\* The fill does not ask whether the cache was cleared while the call read.
Fill(r) ==
    /\ reader[r].value # 0
    /\ entry' = [value |-> reader[r].value, expires |-> now + Ttl,
                 crossed |-> reader[r].crossed]
    /\ reader' = [reader EXCEPT ![r] = NoRead]
    /\ UNCHANGED <<now, version, cleared, uncleared>>

Next ==
    \/ Tick \/ Write \/ Clear
    \/ \E r \in Readers : Miss(r) \/ Fill(r)

Spec == Init /\ [][Next]_vars

-----------------------------------------------------------------------------
\* After a clear the cache serves only what that write left, unless the value comes from a
\* read that the clear crossed: begun before it, stored after it.
FreshAfterClear ==
    Hits => entry.value >= cleared \/ entry.crossed
===============================================================================
