----------------------------- MODULE SilverProofs -----------------------------
(***************************************************************************)
(* Theorems about the silver merge, for any set of trades, any bronze and  *)
(* any sequence of runs, lookbacks and full refreshes.                     *)
(***************************************************************************)
EXTENDS Silver, TLAPS

-------------------------------------------------------------------------------
(* The select and the MERGE.                                               *)

OnePerTid(table) == \A r, s \in table : r.tid = s.tid => r = s

\* s is no correction backwards of r: a higher source, or the same one no earlier.
Corrects(s, r) ==
    \/ Rank(s.source) > Rank(r.source)
    \/ s.source = r.source /\ s.at >= r.at

\* Every row of the select comes from bronze, from a day inside the lookback.
LEMMA SelectedType ==
    ASSUME NEW days, bronze \subseteq BronzeRow, NEW s \in Selected(days)
    PROVE  /\ s \in SourceRow /\ InLookback(s.tid, days) /\ s.first = s.source
           /\ RowOf(s) \in bronze
           /\ \A b \in bronze : b.tid = s.tid => b = RowOf(s) \/ Outranks(RowOf(s), b)
<1>. DEFINE window == {r \in bronze : InLookback(r.tid, days)}
<1>1. PICK b \in window :
          /\ \A c \in window : c.tid = b.tid /\ c # b => Outranks(b, c)
          /\ s = [tid |-> b.tid, source |-> b.source, at |-> b.at, first |-> b.source]
  BY DEF Selected
<1>2. b \in BronzeRow /\ InLookback(b.tid, days)
  OBVIOUS
<1>3. RowOf(s) = b
  BY <1>1, <1>2 DEF RowOf, BronzeRow
<1>4. s.tid = b.tid
  BY <1>1
<1>5. s \in SourceRow
  BY <1>1, <1>2 DEF SourceRow, BronzeRow
<1>6. ASSUME NEW c \in bronze, c.tid = s.tid PROVE c = RowOf(s) \/ Outranks(RowOf(s), c)
  <2>1. c \in window
    BY <1>2, <1>4, <1>6
  <2>. QED
    BY <1>1, <1>3, <1>4, <1>6, <2>1
<1>. QED
  BY <1>1, <1>2, <1>3, <1>4, <1>5, <1>6

\* The pre-dedup leaves one row per trade.
LEMMA SelectedOnce ==
    ASSUME NEW days, bronze \subseteq BronzeRow
    PROVE  OnePerTid(Selected(days))
<1>. SUFFICES ASSUME NEW r \in Selected(days), NEW s \in Selected(days), r.tid = s.tid
              PROVE  r = s
  BY DEF OnePerTid
<1>1. r \in SourceRow /\ r.first = r.source /\ s \in SourceRow /\ s.first = s.source
  BY SelectedType
<1>2. RowOf(r) \in bronze /\ RowOf(s) \in bronze /\ RowOf(r).tid = s.tid /\ RowOf(s).tid = r.tid
  BY SelectedType DEF RowOf
<1>3. /\ RowOf(s) = RowOf(r) \/ Outranks(RowOf(r), RowOf(s))
      /\ RowOf(r) = RowOf(s) \/ Outranks(RowOf(s), RowOf(r))
  BY <1>2, SelectedType
<1>4. ~(Outranks(RowOf(r), RowOf(s)) /\ Outranks(RowOf(s), RowOf(r)))
  BY <1>1 DEF Outranks, Rank, RowOf, SourceRow
<1>5. RowOf(r) = RowOf(s)
  BY <1>3, <1>4
<1>6. r.source = s.source /\ r.at = s.at
  BY <1>5 DEF RowOf
<1>. QED
  BY <1>1, <1>6 DEF SourceRow

\* The MERGE keeps the trade and the insert of every row it updates.
LEMMA AfterType ==
    ASSUME NEW r \in SilverRow, tmp \subseteq SourceRow
    PROVE  /\ After(r) \in SilverRow /\ After(r).tid = r.tid
           /\ \/ After(r) = r
              \/ \E s \in tmp : /\ s.tid = r.tid
                                /\ After(r).source = s.source /\ After(r).at = s.at
<1>1. CASE \E s \in tmp : Updates(r, s)
  <2>. DEFINE s == CHOOSE s \in tmp : Updates(r, s)
  <2>1. s \in tmp /\ Updates(r, s)
    BY <1>1
  <2>2. After(r) = [r EXCEPT !.source = s.source, !.at = s.at]
    BY <1>1 DEF After, Updated
  <2>. HIDE DEF s
  <2>3. s \in SourceRow /\ s.tid = r.tid
    BY <2>1 DEF Updates, Matches
  <2>. QED
    BY <2>1, <2>2, <2>3 DEF SilverRow, SourceRow
<1>2. CASE ~ \E s \in tmp : Updates(r, s)
  BY <1>2 DEF After
<1>. QED
  BY <1>1, <1>2

\* A row of the table after the MERGE was updated in place, left alone, or inserted.
LEMMA MergedRows ==
    ASSUME NEW u \in Merged
    PROVE  \/ \E r \in silver : u = After(r)
           \/ \E s \in tmp : Unmatched(s) /\ u = Inserted(s)
BY DEF Merged

-------------------------------------------------------------------------------
(* Type correctness.                                                       *)

\* The tables start empty.
LEMMA SilverTypeInit == Init => TypeOK
BY SilverAssumption DEF SilverAssumption, Init, TypeOK

\* A row the MERGE inserts is a row of silver, of the selected trade.
LEMMA InsertedType ==
    ASSUME TypeOK, NEW s \in tmp PROVE Inserted(s) \in SilverRow /\ Inserted(s).tid = s.tid
BY SilverAssumption DEF SilverAssumption, TypeOK, Inserted, SourceRow, SilverRow

\* Every statement of a run, and every arrival in bronze, keeps the rows well typed.
LEMMA SilverTypeStep == TypeOK /\ [Next]_vars => TypeOK'
<1>. SUFFICES ASSUME TypeOK, [Next]_vars PROVE TypeOK'
  OBVIOUS
<1>. USE SilverAssumption DEF SilverAssumption
<1>1. ASSUME NEW t \in Tids, NEW source \in Sources, Arrive(t, source)
      PROVE  TypeOK'
  <2>1. rows' \in 0..MaxRows /\ rows + 1 \in Nat
    BY <1>1 DEF Arrive, TypeOK
  <2>2. bronze' \subseteq BronzeRow
    BY <1>1, <2>1 DEF Arrive, TypeOK, BronzeRow
  <2>. QED
    BY <1>1, <2>1, <2>2 DEF Arrive, TypeOK, run
<1>2. ASSUME NEW r \in bronze, Overwrite(r) PROVE TypeOK'
  BY <1>2 DEF Overwrite, TypeOK, run
<1>3. CASE NextDay
  <2>1. day' \in 0..MaxDay
    BY <1>3 DEF NextDay, TypeOK
  <2>. QED
    BY <1>3, <2>1 DEF NextDay, TypeOK, run
<1>4. ASSUME NEW days \in Lookbacks, Stage(days) PROVE TypeOK'
  <2>1. tmp' \subseteq SourceRow
    BY <1>4, SelectedType DEF Stage, TypeOK
  <2>2. runs' \in 0..MaxRuns
    BY <1>4 DEF Stage, TypeOK
  <2>. QED
    BY <1>4, <2>1, <2>2 DEF Stage, TypeOK
<1>5. ASSUME NEW days \in Lookbacks, FullRefresh(days) PROVE TypeOK'
  <2>1. runs' \in 0..MaxRuns /\ runs + 1 \in Nat
    BY <1>5 DEF FullRefresh, TypeOK
  <2>2. Selected(days) \subseteq SourceRow
    BY SelectedType DEF TypeOK
  <2>3. silver' \subseteq SilverRow
    BY <1>5, <2>1, <2>2 DEF FullRefresh, SilverRow, SourceRow
  <2>. QED
    BY <1>5, <2>1, <2>3 DEF FullRefresh, TypeOK
<1>6. CASE Merge
  <2>1. ASSUME NEW u \in Merged PROVE u \in SilverRow
    BY <2>1, MergedRows, AfterType, InsertedType DEF TypeOK
  <2>. QED
    BY <1>6, <2>1 DEF Merge, TypeOK
<1>7. CASE Fail
  BY <1>7 DEF Fail, TypeOK
<1>8. CASE UNCHANGED vars
  BY <1>8 DEF vars, TypeOK
<1>. QED
  BY <1>1, <1>2, <1>3, <1>4, <1>5, <1>6, <1>7, <1>8 DEF Next

\* The types hold in every reachable state.
LEMMA SilverTypeAlways == Spec => []TypeOK
BY SilverTypeInit, SilverTypeStep, PTL DEF Spec

\* The rows of bronze, of the temporary table and of silver are rows of the right columns,
\* whatever arrives, is replaced, fails or is rebuilt.
THEOREM SilverTypeCorrect == Spec => []TypeOK
BY SilverTypeAlways

-------------------------------------------------------------------------------
(* One row per trade.  The strengthening: between its two statements, the  *)
(* temporary table has one row per trade and only trades that the MERGE's  *)
(* own lookback will find.  The second holds because no midnight moves the *)
(* lookback in between, and fails with one.                                *)

OnceInv ==
    /\ OnePerTid(silver)
    /\ phase = "staged" => OnePerTid(tmp) /\ \A s \in tmp : InLookback(s.tid, lookback)

\* An empty table has one row per trade.
LEMMA OnceInit == Init => OnceInv
BY DEF Init, OnceInv, OnePerTid

\* Every step keeps one row per trade when no midnight falls inside a run.
LEMMA OnceStep ==
    ASSUME ~MidnightRuns, TypeOK, OnceInv, [Next]_vars
    PROVE  OnceInv'
<1>1. ASSUME NEW t \in Tids, NEW source \in Sources, Arrive(t, source)
      PROVE  OnceInv'
  BY <1>1 DEF Arrive, OnceInv, OnePerTid, InLookback, run
<1>2. ASSUME NEW r \in bronze, Overwrite(r) PROVE OnceInv'
  BY <1>2 DEF Overwrite, OnceInv, OnePerTid, InLookback, run
<1>3. CASE NextDay
  BY <1>3 DEF NextDay, OnceInv, OnePerTid, run
<1>4. ASSUME NEW days \in Lookbacks, Stage(days) PROVE OnceInv'
  <2>1. OnePerTid(Selected(days)) /\ \A s \in Selected(days) : InLookback(s.tid, days)
    BY SelectedOnce, SelectedType DEF TypeOK
  <2>2. UNCHANGED <<silver, day, dayOf>> /\ tmp' = Selected(days) /\ lookback' = days
    BY <1>4 DEF Stage
  <2>3. OnePerTid(tmp') /\ \A s \in tmp' : InLookback(s.tid, lookback)'
    BY <2>1, <2>2 DEF InLookback
  <2>. QED
    BY <2>2, <2>3 DEF OnceInv, OnePerTid
<1>5. ASSUME NEW days \in Lookbacks, FullRefresh(days) PROVE OnceInv'
  <2>1. OnePerTid(Selected(days))
    BY SelectedOnce DEF TypeOK
  <2>2. OnePerTid(silver')
    BY <1>5, <2>1 DEF FullRefresh, OnePerTid
  <2>. QED
    BY <1>5, <2>2 DEF FullRefresh, OnceInv, OnePerTid
<1>6. CASE Merge
  <2>1. OnePerTid(tmp) /\ \A s \in tmp : InLookback(s.tid, lookback)
    BY <1>6 DEF Merge, OnceInv
  <2>2. OnePerTid(Merged)
    <3>. SUFFICES ASSUME NEW u \in Merged, NEW v \in Merged, u.tid = v.tid PROVE u = v
      BY DEF OnePerTid
    <3>1. ASSUME NEW r \in silver, NEW s \in tmp, Unmatched(s) PROVE r.tid # s.tid
      BY <2>1, <3>1 DEF Unmatched, Matches
    <3>2. /\ \A r \in silver : After(r).tid = r.tid
          /\ \A s \in tmp : Inserted(s).tid = s.tid
      BY AfterType, InsertedType DEF TypeOK
    <3>3. CASE \E r \in silver : u = After(r)
      <4>1. \E r \in silver : v = After(r)
        BY <3>1, <3>2, <3>3, MergedRows
      <4>. QED
        BY <3>2, <3>3, <4>1 DEF OnceInv, OnePerTid
    <3>4. CASE \E s \in tmp : Unmatched(s) /\ u = Inserted(s)
      <4>1. \E s \in tmp : Unmatched(s) /\ v = Inserted(s)
        BY <3>1, <3>2, <3>4, MergedRows
      <4>. QED
        BY <2>1, <3>2, <3>4, <4>1 DEF OnePerTid
    <3>. QED
      BY <3>3, <3>4, MergedRows
  <2>. QED
    BY <1>6, <2>2 DEF Merge, OnceInv, OnePerTid
<1>7. CASE Fail
  BY <1>7 DEF Fail, OnceInv, OnePerTid
<1>8. CASE UNCHANGED vars
  BY <1>8 DEF vars, OnceInv, OnePerTid, InLookback
<1>. QED
  BY <1>1, <1>2, <1>3, <1>4, <1>5, <1>6, <1>7, <1>8 DEF Next

\* PRD, "exactly-once at silver", provided no UTC midnight falls between the two
\* statements of a run: for any bronze, lookbacks, failures and rebuilds a trade has one
\* row (trades.sql and silver_trades_select.sql).
THEOREM ExactlyOnceAtSilver ==
    ASSUME ~MidnightRuns
    PROVE  Spec => []ExactlyOnce
<1>1. OnceInv => ExactlyOnce
  BY DEF OnceInv, OnePerTid, ExactlyOnce
<1>2. TypeOK /\ OnceInv /\ [Next]_vars => OnceInv'
  BY OnceStep
<1>. QED
  BY <1>1, <1>2, SilverTypeAlways, OnceInit, PTL DEF Spec

-------------------------------------------------------------------------------
(* Corrections.  The strengthening: a staged row corrects the row of       *)
(* silver it will meet, if bronze still has the row behind that one; and   *)
(* no row is newer than the newest of bronze, so that one that has left    *)
(* bronze does not come back.                                              *)

Behind(r) == RowOf(r) \in bronze

CorrectInv ==
    /\ \A r \in bronze \cup tmp \cup silver : r.at <= rows
    /\ phase = "staged" =>
         \A s \in tmp, r \in silver : r.tid = s.tid /\ Behind(r) => Corrects(s, r)

\* An empty table has nothing to correct.
LEMMA CorrectInit == Init => CorrectInv
BY DEF Init, CorrectInv

\* A selected row corrects every row of silver of its trade that bronze still has.
LEMMA SelectedCorrects ==
    ASSUME TypeOK, NEW days, NEW s \in Selected(days),
           NEW r \in silver, r.tid = s.tid, Behind(r)
    PROVE  Corrects(s, r)
<1>1. s \in SourceRow /\ r \in SilverRow
  BY SelectedType DEF TypeOK
<1>2. RowOf(r) = RowOf(s) \/ Outranks(RowOf(s), RowOf(r))
  <2>1. RowOf(r) \in bronze /\ RowOf(r).tid = s.tid
    BY DEF Behind, RowOf
  <2>. QED
    BY <2>1, SelectedType DEF TypeOK
<1>3. CASE RowOf(r) = RowOf(s)
  <2>1. r.source = s.source /\ r.at = s.at
    BY <1>3 DEF RowOf
  <2>. QED
    BY <1>1, <2>1 DEF Corrects, SourceRow
<1>4. CASE Outranks(RowOf(s), RowOf(r))
  BY <1>1, <1>4 DEF Outranks, Rank, RowOf, Corrects, SourceRow, SilverRow, Sources
<1>. QED
  BY <1>2, <1>3, <1>4

\* A selected row is no newer than bronze.
LEMMA SelectedOld ==
    ASSUME TypeOK, CorrectInv, NEW days, NEW s \in Selected(days)
    PROVE  s.at <= rows
<1>1. RowOf(s) \in bronze /\ RowOf(s).at = s.at
  BY SelectedType DEF TypeOK, RowOf
<1>. QED
  BY <1>1 DEF CorrectInv

\* What the MERGE does to a row of silver.
LEMMA MergeCorrects ==
    ASSUME TypeOK, OnceInv, CorrectInv, phase = "staged", NEW u \in Merged
    PROVE  /\ u.at <= rows
           /\ \A r \in silver : r.tid = u.tid /\ Behind(r) => Corrects(u, r)
<1>1. CASE \E r \in silver : u = After(r)
  <2>1. PICK r \in silver : u = After(r)
    BY <1>1
  <2>2. r \in SilverRow /\ u.tid = r.tid /\ \A q \in silver : q.tid = u.tid => q = r
    BY <2>1, AfterType DEF TypeOK, OnceInv, OnePerTid
  <2>3. CASE u = r
    BY <2>2, <2>3 DEF CorrectInv, Corrects, SilverRow
  <2>4. CASE \E s \in tmp : s.tid = r.tid /\ u.source = s.source /\ u.at = s.at
    <3>1. PICK s \in tmp : s.tid = r.tid /\ u.source = s.source /\ u.at = s.at
      BY <2>4
    <3>2. s.at <= rows /\ (Behind(r) => Corrects(s, r))
      BY <3>1 DEF CorrectInv
    <3>. QED
      BY <2>2, <3>1, <3>2 DEF Corrects
  <2>. QED
    BY <2>1, <2>3, <2>4, AfterType DEF TypeOK
<1>2. CASE \E s \in tmp : Unmatched(s) /\ u = Inserted(s)
  <2>1. PICK s \in tmp : Unmatched(s) /\ u = Inserted(s)
    BY <1>2
  <2>2. u.at = s.at /\ u.tid = s.tid
    BY <2>1 DEF Inserted
  <2>3. \A r \in silver : r.tid # s.tid
    BY <2>1 DEF Unmatched, Matches, OnceInv
  <2>. QED
    BY <2>1, <2>2, <2>3 DEF CorrectInv
<1>. QED
  BY <1>1, <1>2, MergedRows

\* Every step keeps rows no newer than bronze's newest, and staged rows no worse than
\* those of silver: rows arrive newer, and a row that leaves bronze only helps.
LEMMA CorrectStep ==
    ASSUME TypeOK, OnceInv, CorrectInv, [Next]_vars
    PROVE  CorrectInv'
<1>1. ASSUME NEW t \in Tids, NEW source \in Sources, Arrive(t, source)
      PROVE  CorrectInv'
  <2>. DEFINE new == [tid |-> t, source |-> source, at |-> rows + 1]
  <2>1. rows \in Nat /\ rows' = rows + 1 /\ bronze' = bronze \cup {new}
    BY <1>1 DEF Arrive, TypeOK
  <2>2. UNCHANGED <<phase, tmp, silver>>
    BY <1>1 DEF Arrive, run
  <2>3. \A r \in bronze \cup tmp \cup silver : r.at \in Nat /\ r.at <= rows
    BY DEF CorrectInv, TypeOK, BronzeRow, SourceRow, SilverRow
  <2>4. \A r \in silver : Behind(r)' => Behind(r)
    <3>. SUFFICES ASSUME NEW r \in silver, Behind(r)' PROVE Behind(r)
      OBVIOUS
    <3>1. RowOf(r) # new
      BY <2>1, <2>3 DEF RowOf
    <3>. QED
      BY <2>1, <3>1 DEF Behind, RowOf
  <2>5. \A r \in bronze' \cup tmp' \cup silver' : r.at <= rows'
    BY <2>1, <2>2, <2>3
  <2>. QED
    BY <2>2, <2>4, <2>5 DEF CorrectInv, Corrects
<1>2. ASSUME NEW b \in bronze, Overwrite(b) PROVE CorrectInv'
  <2>1. \A r \in silver : Behind(r)' => Behind(r)
    BY <1>2 DEF Overwrite, Behind, RowOf
  <2>. QED
    BY <1>2, <2>1 DEF Overwrite, CorrectInv, Corrects, run
<1>3. CASE NextDay
  BY <1>3 DEF NextDay, CorrectInv, Behind, RowOf, Corrects, run
<1>4. ASSUME NEW days \in Lookbacks, Stage(days) PROVE CorrectInv'
  <2>1. \A s \in Selected(days) :
            s.at <= rows /\ \A r \in silver : r.tid = s.tid /\ Behind(r) => Corrects(s, r)
    BY SelectedOld, SelectedCorrects
  <2>2. UNCHANGED <<silver, bronze, rows>> /\ tmp' = Selected(days)
    BY <1>4 DEF Stage
  <2>3. \A r \in silver : Behind(r)' = Behind(r)
    BY <2>2 DEF Behind, RowOf
  <2>. QED
    BY <2>1, <2>2, <2>3 DEF CorrectInv
<1>5. ASSUME NEW days \in Lookbacks, FullRefresh(days) PROVE CorrectInv'
  <2>1. \A r \in silver' : r.at <= rows
    BY <1>5, SelectedOld DEF FullRefresh
  <2>2. phase' = "idle" /\ UNCHANGED <<bronze, tmp, rows>>
    BY <1>5 DEF FullRefresh
  <2>. QED
    BY <2>1, <2>2 DEF CorrectInv
<1>6. CASE Merge
  <2>1. \A u \in silver' : u.at <= rows
    BY <1>6, MergeCorrects DEF Merge
  <2>. QED
    BY <1>6, <2>1 DEF Merge, CorrectInv
<1>7. CASE Fail
  BY <1>7 DEF Fail, CorrectInv
<1>8. CASE UNCHANGED vars
  BY <1>8 DEF vars, CorrectInv, Behind, RowOf
<1>. QED
  BY <1>1, <1>2, <1>3, <1>4, <1>5, <1>6, <1>7, <1>8 DEF Next

\* Only a MERGE and a rebuild change the table, and a rebuild is a new run.
LEMMA TableSteps ==
    ASSUME TypeOK, [Next]_vars, runs' = runs, silver' # silver
    PROVE  phase = "staged" /\ silver' = Merged
<1>1. runs + 1 # runs
  BY DEF TypeOK
<1>. QED
  BY <1>1 DEF Next, Arrive, Overwrite, NextDay, Stage, FullRefresh, Merge, Fail, run, vars

\* Silver is corrected forward only (merge_update_condition and the order of the select):
\* while bronze has the row behind it, a trade moves to a higher source or to a later
\* delivery of the same one, provided no midnight falls inside a run.
THEOREM CorrectionsOnlyForward ==
    ASSUME ~MidnightRuns
    PROVE  Spec => CorrectionsStick
<1>1. TypeOK /\ OnceInv /\ [Next]_vars => OnceInv'
  BY OnceStep
<1>2. TypeOK /\ OnceInv /\ CorrectInv /\ [Next]_vars => CorrectInv'
  BY CorrectStep
<1>3. TypeOK /\ OnceInv /\ CorrectInv /\ [Next]_vars =>
          [runs' = runs => \A r \in silver, u \in silver' :
             r.tid = u.tid /\ RowOf(r) \in bronze =>
                 \/ Rank(u.source) > Rank(r.source)
                 \/ u.source = r.source /\ u.at >= r.at]_silver
  BY TableSteps, MergeCorrects DEF Corrects, Behind
<1>. QED
  BY <1>1, <1>2, <1>3, SilverTypeAlways, OnceInit, CorrectInit, PTL DEF Spec, CorrectionsStick

-------------------------------------------------------------------------------
(* The refinement.  The row a table gives a trade is the one CHOOSE of the *)
(* refinement mapping finds, because there is only one; the strengthening  *)
(* adds that the rows of the select name their own source as the first.    *)

RowIn(table, t) ==
    IF \E r \in table : r.tid = t
    THEN LET r == CHOOSE r \in table : r.tid = t
         IN  [source |-> r.source, first |-> r.first]
    ELSE Absent

FirstInv == \A s \in tmp : s.first = s.source

\* A trade that has a row has that row.
LEMMA RowInIs ==
    ASSUME NEW table, OnePerTid(table), NEW r \in table
    PROVE  RowIn(table, r.tid) = [source |-> r.source, first |-> r.first]
<1>. DEFINE q == CHOOSE q \in table : q.tid = r.tid
<1>1. q \in table /\ q.tid = r.tid
  OBVIOUS
<1>2. q = r
  BY <1>1 DEF OnePerTid
<1>. QED
  BY <1>2 DEF RowIn

\* The rows of the ledger are of the ledger's columns.
LEMMA RowInType ==
    ASSUME NEW table \in SUBSET SilverRow, OnePerTid(table), NEW t
    PROVE  /\ RowIn(table, t) \in Ledger!LedgerRow \cup {Absent}
           /\ (\E r \in table : r.tid = t) => RowIn(table, t) # Absent
<1>1. CASE \E r \in table : r.tid = t
  <2>1. PICK r \in table : r.tid = t
    BY <1>1
  <2>2. r.source \in Sources /\ r.first \in Sources
    BY DEF SilverRow
  <2>3. RowIn(table, t) = [source |-> r.source, first |-> r.first]
    BY <2>1, RowInIs
  <2>4. RowIn(table, t) \in [source : {"ws", "backfill"}, first : {"ws", "backfill"}]
    BY <2>2, <2>3 DEF Sources
  <2>. QED
    BY <2>4, SilverAssumption DEF SilverAssumption, Ledger!LedgerRow, Ledger!Sources
<1>2. CASE ~\E r \in table : r.tid = t
  BY <1>2 DEF RowIn
<1>. QED
  BY <1>1, <1>2

\* The ledger starts without rows.
LEMMA LedgerInit == Init => Ledger!Init
BY DEF Init, Ledger!Init

\* The select names its own source, and the temporary table is a select.
LEMMA FirstInit == Init => FirstInv
BY DEF Init, FirstInv

\* Every step keeps it.
LEMMA FirstStep == TypeOK /\ FirstInv /\ [Next]_vars => FirstInv'
<1>. SUFFICES ASSUME TypeOK, FirstInv, [Next]_vars PROVE FirstInv'
  OBVIOUS
<1>1. ASSUME NEW days \in Lookbacks, Stage(days) PROVE FirstInv'
  BY <1>1, SelectedType DEF Stage, FirstInv, TypeOK
<1>2. CASE tmp' = {} \/ tmp' = tmp
  BY <1>2 DEF FirstInv
<1>. QED
  BY <1>1, <1>2 DEF Next, Arrive, Overwrite, NextDay, FullRefresh, Merge, Fail, run, vars

\* A MERGE leaves the first source of a row alone and never lowers its rank.
LEMMA AfterLedger ==
    ASSUME TypeOK, NEW r \in silver
    PROVE  After(r).first = r.first /\ Rank(After(r).source) >= Rank(r.source)
<1>1. r \in SilverRow
  BY DEF TypeOK
<1>2. CASE \E s \in tmp : Updates(r, s)
  <2>. DEFINE s == CHOOSE s \in tmp : Updates(r, s)
  <2>1. s \in tmp /\ Updates(r, s)
    BY <1>2
  <2>2. After(r) = [r EXCEPT !.source = s.source, !.at = s.at]
    BY <1>2 DEF After, Updated
  <2>. HIDE DEF s
  <2>3. After(r).source = s.source /\ After(r).first = r.first
    BY <1>1, <2>2 DEF SilverRow
  <2>. QED
    BY <2>1, <2>3 DEF Updates
<1>3. CASE ~ \E s \in tmp : Updates(r, s)
  BY <1>3 DEF After, Rank
<1>. QED
  BY <1>2, <1>3

\* The MERGE is a merge of the ledger.
LEMMA MergeRefines ==
    ASSUME TypeOK, OnceInv, FirstInv, Merge, TypeOK', OnePerTid(silver')
    PROVE  Ledger!Merge
<1>1. /\ rebuilds' = rebuilds /\ silver' = Merged /\ OnePerTid(silver)
      /\ silver \in SUBSET SilverRow /\ silver' \in SUBSET SilverRow
  BY DEF Merge, OnceInv, TypeOK
<1>2. ASSUME NEW t \in Tids
      PROVE  \/ RowIn(silver', t) = RowIn(silver, t)
             \/ RowIn(silver, t) = Absent /\ RowIn(silver', t).first = RowIn(silver', t).source
             \/ /\ RowIn(silver, t) # Absent /\ RowIn(silver', t) # Absent
                /\ RowIn(silver', t).first = RowIn(silver, t).first
                /\ Ledger!RankOf(RowIn(silver', t).source)
                      >= Ledger!RankOf(RowIn(silver, t).source)
  <2>1. CASE \E r \in silver : r.tid = t
    <3>1. PICK r \in silver : r.tid = t
      BY <2>1
    <3>2. After(r) \in silver' /\ After(r).tid = t
      BY <1>1, <3>1, AfterType DEF Merged, TypeOK
    <3>3. /\ RowIn(silver, t) = [source |-> r.source, first |-> r.first]
          /\ RowIn(silver', t) = [source |-> After(r).source, first |-> After(r).first]
      BY <1>1, <3>1, <3>2, RowInIs
    <3>4. RowIn(silver, t) # Absent /\ RowIn(silver', t) # Absent
      BY <1>1, <3>1, <3>2, RowInType
    <3>. QED
      BY <3>3, <3>4, AfterLedger DEF Rank, Ledger!RankOf
  <2>2. CASE ~\E r \in silver : r.tid = t
    <3>1. RowIn(silver, t) = Absent
      BY <2>2 DEF RowIn
    <3>2. CASE \E u \in silver' : u.tid = t
      <4>1. PICK u \in silver' : u.tid = t
        BY <3>2
      <4>2. PICK s \in tmp : u = Inserted(s)
        BY <1>1, <2>2, <4>1, MergedRows, AfterType DEF TypeOK
      <4>3. u.first = u.source
        BY <4>2 DEF Inserted, FirstInv
      <4>4. RowIn(silver', t) = [source |-> u.source, first |-> u.first]
        BY <4>1, RowInIs
      <4>. QED
        BY <3>1, <4>3, <4>4
    <3>3. CASE ~\E u \in silver' : u.tid = t
      BY <3>1, <3>3 DEF RowIn
    <3>. QED
      BY <3>2, <3>3
  <2>. QED
    BY <2>1, <2>2
<1>3. \A t \in Tids : RowIn(silver', t) \in Ledger!LedgerRow \cup {Absent}
  BY <1>1, RowInType
<1>. DEFINE old == [t \in Tids |-> RowIn(silver, t)]
            new == [t \in Tids |-> RowIn(silver', t)]
<1>4. /\ new \in [Tids -> Ledger!LedgerRow \cup {Absent}]
      /\ \A t \in Tids :
           \/ new[t] = old[t]
           \/ old[t] = Absent /\ new[t].first = new[t].source
           \/ /\ old[t] # Absent /\ new[t] # Absent
              /\ new[t].first = old[t].first
              /\ Ledger!RankOf(new[t].source) >= Ledger!RankOf(old[t].source)
  BY <1>2, <1>3
<1>. QED
  BY <1>1, <1>4, Zenon DEF Ledger!Merge, RowIn

\* A full refresh is a rebuild of the ledger.
LEMMA RefreshRefines ==
    ASSUME TypeOK, NEW days \in Lookbacks, FullRefresh(days), TypeOK', OnePerTid(silver')
    PROVE  Ledger!Rebuild
<1>1. silver' \in SUBSET SilverRow /\ rebuilds' = rebuilds + 1
  BY DEF FullRefresh, TypeOK
<1>2. \A u \in silver' : u.first = u.source
  BY SelectedType DEF FullRefresh, TypeOK
<1>3. ASSUME NEW t \in Tids
      PROVE  /\ RowIn(silver', t) \in Ledger!LedgerRow \cup {Absent}
             /\ RowIn(silver', t) = Absent \/ RowIn(silver', t).first = RowIn(silver', t).source
  <2>1. RowIn(silver', t) \in Ledger!LedgerRow \cup {Absent}
    BY <1>1, RowInType
  <2>2. CASE \E u \in silver' : u.tid = t
    <3>1. PICK u \in silver' : u.tid = t
      BY <2>2
    <3>2. RowIn(silver', t) = [source |-> u.source, first |-> u.first]
      BY <3>1, RowInIs
    <3>. QED
      BY <1>2, <2>1, <3>2
  <2>3. CASE ~\E u \in silver' : u.tid = t
    BY <2>1, <2>3 DEF RowIn
  <2>. QED
    BY <2>2, <2>3
<1>. QED
  BY <1>1, <1>3 DEF Ledger!Rebuild, RowIn

\* Silver keeps the promises of the ledger (README.md, "How exactly-once works"), provided
\* no UTC midnight falls between the two statements of a run: the MERGE inserts rows with
\* their own source as the first, moves sources up in rank only and never rewrites a first
\* source; a full refresh, and nothing but one, rebuilds the table; and no other step
\* changes what its readers see.
THEOREM SilverIsALedger ==
    ASSUME ~MidnightRuns
    PROVE  Spec => ImplementsLedger
<1>1. TypeOK /\ OnceInv /\ [Next]_vars => OnceInv'
  BY OnceStep
<1>2. TypeOK /\ TypeOK' /\ OnceInv /\ OnceInv' /\ FirstInv /\ [Next]_vars =>
        Ledger!Merge \/ Ledger!Rebuild \/ UNCHANGED <<silver, rebuilds>>
  <2>1. ASSUME TypeOK, TypeOK', OnceInv, OnceInv', FirstInv, [Next]_vars
        PROVE  Ledger!Merge \/ Ledger!Rebuild \/ UNCHANGED <<silver, rebuilds>>
    <3>1. CASE Merge
      BY <2>1, <3>1, MergeRefines DEF OnceInv
    <3>2. ASSUME NEW days \in Lookbacks, FullRefresh(days) PROVE Ledger!Rebuild
      BY <2>1, <3>2, RefreshRefines DEF OnceInv
    <3>3. CASE UNCHANGED <<silver, rebuilds>>
      BY <3>3
    <3>. QED
      BY <2>1, <3>1, <3>2, <3>3
         DEF Next, Arrive, Overwrite, NextDay, Stage, Fail, run, vars
  <2>. QED
    BY <2>1
<1>3. TypeOK /\ TypeOK' /\ OnceInv /\ OnceInv' /\ FirstInv /\ [Next]_vars =>
        [Ledger!Next]_<<[t \in Tids |->
            IF \E r \in silver : r.tid = t
            THEN LET r == CHOOSE r \in silver : r.tid = t
                 IN  [source |-> r.source, first |-> r.first]
            ELSE Absent], rebuilds>>
  BY <1>2 DEF Ledger!Next
<1>. QED
  BY <1>1, <1>3, SilverTypeAlways, SilverTypeStep, OnceInit, FirstInit, FirstStep, LedgerInit, PTL
     DEF Spec, ImplementsLedger, Ledger!Spec
===============================================================================
