--------------------------- MODULE CacheProvider ---------------------------
(***************************************************************************)
(* MemoryCacheProvider (cache/cache-provider.ts), the entry of one key:    *)
(* each method is the function it computes on the entry.  left is          *)
(* expiresAt - Date.now(), and stops once it is negative; with Ttl = 0     *)
(* expiresAt is MAX_SAFE_INTEGER, a time that does not come nearer.        *)
(***************************************************************************)
EXTENDS Integers

CONSTANTS
    Results,  \* what operations and fallbacks return
    Ttl       \* options.ttlMs

Nothing == "nothing"  \* undefined
NoEntry == [value |-> Nothing, left |-> 0]
Entries == [value : Results \cup {Nothing}, left : -1..Ttl]

\* Mutant: an entry is alive as long as it is there.
Get_NeverExpires(entry) == entry

\* get(): expired entries are deleted when they are read.
Get(entry) == IF entry.left < 0 THEN NoEntry ELSE entry

Set(value) == [value |-> value, left |-> Ttl]

Aged(entry) ==
    IF Ttl > 0 /\ entry.value # Nothing /\ entry.left >= 0
    THEN [entry EXCEPT !.left = @ - 1]
    ELSE entry
=============================================================================
