----------------------------- MODULE TradeLedger ------------------------------
(***************************************************************************)
(* What the silver table promises its readers (README.md, "How exactly-    *)
(* once works"): at most one row per trade id, whose source only moves up  *)
(* in rank, and whose first_seen_source is written once, on insert.  Only  *)
(* a rebuild that somebody asked for starts it over, and each one counts.  *)
(***************************************************************************)
EXTENDS Integers

CONSTANTS Tids,     \* trade ids
          Absent    \* the value of a trade that has no row

VARIABLES
    ledger,   \* per trade: its row, or Absent
    rebuilds  \* times the table was dropped and built again

Sources == {"ws", "backfill"}
LedgerRow == [source : Sources, first : Sources]

RankOf(source) == IF source = "backfill" THEN 2 ELSE 1

Init == ledger = [t \in Tids |-> Absent] /\ rebuilds = 0

\* One merge: some trades are inserted, some rows take a source of no lower rank.
Merge ==
    /\ ledger' \in [Tids -> LedgerRow \cup {Absent}]
    /\ \A t \in Tids :
         \/ ledger'[t] = ledger[t]
         \/ ledger[t] = Absent /\ ledger'[t].first = ledger'[t].source
         \/ /\ ledger[t] # Absent /\ ledger'[t] # Absent
            /\ ledger'[t].first = ledger[t].first
            /\ RankOf(ledger'[t].source) >= RankOf(ledger[t].source)
    /\ UNCHANGED rebuilds

\* A full refresh drops the table: every row it has afterwards is a new one.
Rebuild ==
    /\ ledger' \in [Tids -> LedgerRow \cup {Absent}]
    /\ \A t \in Tids : ledger'[t] = Absent \/ ledger'[t].first = ledger'[t].source
    /\ rebuilds' = rebuilds + 1

Next == Merge \/ Rebuild

Spec == Init /\ [][Next]_<<ledger, rebuilds>>
===============================================================================
