------------------------------ MODULE CostsProofs ------------------------------
(***************************************************************************)
(* Theorems about the cost log, for any number of sessions, any calendar   *)
(* and any bills.                                                          *)
(***************************************************************************)
EXTENDS Costs, DataInduction, TLAPS

-------------------------------------------------------------------------------
(* What is in the file.  What a price is plays no part in it.              *)

\* The file and the copy cost-backfill holds: a session that was not logged has a row in
\* neither, one that was logged and not raced has a row in both, and the copy agrees with
\* the file on every price.
FileInv ==
    /\ DOMAIN phase = Sessions /\ DOMAIN csv = Sessions
    /\ job.at \in {"idle", "write"}
    /\ \A s \in Sessions : phase[s] # "logged" => csv[s] = NoRow
    /\ \A s \in Sessions : phase[s] = "logged" /\ s \notin raced => s \in Rows(csv)

CopyInv ==
    job.at = "write" =>
        /\ DOMAIN job.rows = Sessions
        /\ \A s \in Sessions : phase[s] # "logged" => job.rows[s] = NoRow
        /\ \A s \in Sessions : phase[s] = "logged" /\ s \notin raced => s \in Rows(job.rows)
        /\ \A s \in Sessions : s \in Priced(csv) => job.rows[s] = csv[s]

IInv == FileInv /\ CopyInv

\* backfill leaves every row it may not price as it is, and adds and removes none.
LEMMA BackfilledKeeps ==
    ASSUME NEW f, NEW s \in Sessions
    PROVE  /\ DOMAIN Backfilled(f) = Sessions
           /\ s \in Priced(f) => Backfilled(f)[s] = f[s]
           /\ f[s] = NoRow => Backfilled(f)[s] = NoRow
           /\ s \in Rows(f) => s \in Rows(Backfilled(f))
<1>1. s \in Priced(f) \/ f[s] = NoRow => ~Eligible(s, f)
  BY DEF Priced, Eligible, NoRow
<1>2. ~Eligible(s, f) => Backfilled(f)[s] = f[s]
  BY DEF Backfilled
<1>3. s \in Rows(f) => s \in Rows(Backfilled(f))
  <2>1. CASE Eligible(s, f)
    BY <2>1 DEF Rows, Backfilled, Eligible
  <2>2. CASE ~Eligible(s, f)
    BY <2>2, <1>2 DEF Rows
  <2>. QED
    BY <2>1, <2>2
<1>4. DOMAIN Backfilled(f) = Sessions
  BY DEF Backfilled
<1>. QED
  BY <1>1, <1>2, <1>3, <1>4

\* The invariant holds of an empty log.
LEMMA InitIInv ==
    Init => IInv
BY DEF Init, IInv, FileInv, CopyInv, NoJob, NoRow, Rows

\* A row that is appended has no price and its session none before.
LEMMA AppendKeeps ==
    ASSUME IInv, NEW s \in Sessions, SessionDown(s)
    PROVE  IInv' /\ \A r \in Sessions : r \in Priced(csv) => csv'[r] = csv[r]
<1>1. /\ csv[s] = NoRow /\ csv'[s].status # "absent" /\ csv'[s].actual = None
      /\ \A r \in Sessions \ {s} : csv'[r] = csv[r]
      /\ DOMAIN csv' = Sessions
  BY DEF SessionDown, IInv, FileInv, CopyInv
<1>2. /\ phase'[s] = "logged" /\ DOMAIN phase' = Sessions
      /\ \A r \in Sessions \ {s} : phase'[r] = phase[r]
  BY DEF SessionDown, IInv, FileInv, CopyInv
<1>3. job' = job /\ raced \subseteq raced' /\ (job.at = "write" => s \in raced')
  BY DEF SessionDown
<1>4. s \notin Priced(csv) /\ s \notin Priced(csv)'
      /\ \A r \in Sessions \ {s} : r \in Priced(csv)' => r \in Priced(csv)
  BY <1>1 DEF Priced, Rows, NoRow
<1>5. \A r \in Sessions : phase'[r] = "logged" /\ r \notin raced' => r \in Rows(csv)'
  BY <1>1, <1>2, <1>3 DEF IInv, FileInv, CopyInv, Rows
<1>6. job.at = "write" =>
        \A r \in Sessions : phase'[r] = "logged" /\ r \notin raced' => r \in Rows(job.rows)
  BY <1>2, <1>3 DEF IInv, FileInv, CopyInv
<1>7. job.at = "write" =>
        \A r \in Sessions : /\ phase'[r] # "logged" => job.rows[r] = NoRow
                            /\ r \in Priced(csv)' => job.rows[r] = csv'[r]
  BY <1>1, <1>2, <1>4 DEF IInv, FileInv, CopyInv
<1>8. \A r \in Sessions : phase'[r] # "logged" => csv'[r] = NoRow
  BY <1>1, <1>2 DEF IInv, FileInv, CopyInv
<1>9. IInv'
  <2>1. FileInv'
    BY <1>1, <1>2, <1>3, <1>5, <1>8 DEF IInv, FileInv
  <2>2. job.at = "write" => DOMAIN job.rows = Sessions
    BY DEF IInv, CopyInv
  <2>3. CopyInv'
    BY <1>3, <1>6, <1>7, <2>2 DEF CopyInv
  <2>. QED
    BY <2>1, <2>3 DEF IInv
<1>. QED
  BY <1>1, <1>4, <1>9

\* No step touches a row that has its price.
LEMMA NextKeeps ==
    ASSUME IInv, [Next]_vars
    PROVE  IInv' /\ \A s \in Sessions : s \in Priced(csv) => csv'[s] = csv[s]
<1>1. ASSUME NEW s \in Sessions, SessionDown(s)
      PROVE  IInv' /\ \A r \in Sessions : r \in Priced(csv) => csv'[r] = csv[r]
  BY <1>1, AppendKeeps
<1>2. CASE BackfillFills
  <2>1. job'.at = "write" /\ job'.rows = Backfilled(csv)
        /\ csv' = csv /\ phase' = phase /\ raced' = raced
    BY <1>2 DEF BackfillFills, sessions
  <2>2. /\ DOMAIN job'.rows = Sessions
        /\ \A s \in Sessions : /\ s \in Priced(csv) => job'.rows[s] = csv[s]
                               /\ csv[s] = NoRow => job'.rows[s] = NoRow
                               /\ s \in Rows(csv) => s \in Rows(job'.rows)
    BY <2>1, BackfilledKeeps DEF Backfilled
  <2>4. FileInv'
    BY <2>1 DEF IInv, FileInv, Rows
  <2>5. ASSUME NEW s \in Sessions
        PROVE  /\ phase'[s] # "logged" => job'.rows[s] = NoRow
               /\ phase'[s] = "logged" /\ s \notin raced' => s \in Rows(job'.rows)
               /\ s \in Priced(csv') => job'.rows[s] = csv'[s]
    BY <2>1, <2>2 DEF IInv, FileInv
  <2>6. CopyInv'
    BY <2>1, <2>2, <2>5 DEF CopyInv
  <2>. QED
    BY <2>4, <2>6, <2>1 DEF IInv
<1>3. CASE BackfillWrites
  <2>1. job.at = "write" /\ job'.at = "idle" /\ csv' = job.rows
        /\ phase' = phase /\ raced' = raced
    BY <1>3 DEF BackfillWrites, NoJob, sessions
  <2>. QED
    BY <2>1 DEF IInv, FileInv, CopyInv, Rows
<1>4. CASE BackfillStops
  BY <1>4 DEF BackfillStops, NoJob, sessions, IInv, FileInv, CopyInv, Rows
<1>5. CASE Tick \/ (\E d \in Days : Bill(d)) \/ UNCHANGED vars
  BY <1>5 DEF Tick, Bill, vars, sessions, IInv, FileInv, CopyInv, Rows, Priced
<1>6. ASSUME NEW s \in Sessions, SessionUp(s) \/ Reap(s)
      PROVE  IInv' /\ csv' = csv
  <2>1. /\ phase[s] # "logged" /\ phase'[s] # "logged" /\ DOMAIN phase' = Sessions
        /\ \A r \in Sessions \ {s} : phase'[r] = phase[r]
        /\ csv' = csv /\ job' = job /\ raced' = raced
    BY <1>6 DEF SessionUp, Reap, IInv, FileInv, CopyInv
  <2>. QED
    BY <2>1 DEF IInv, FileInv, CopyInv, Rows, Priced
<1>. QED
  BY <1>1, <1>2, <1>3, <1>4, <1>5, <1>6 DEF Next

\* All states satisfy the invariant.
LEMMA AlwaysIInv ==
    Spec => []IInv
<1>1. IInv /\ [Next]_vars => IInv'
  BY NextKeeps
<1>. QED
  BY <1>1, InitIInv, PTL DEF Spec

\* A session that was logged keeps its row, unless it was appended in the middle of a
\* cost-backfill.
THEOREM RowsAreKept == Spec => []LoggedHasRow
<1>1. IInv => LoggedHasRow
  BY DEF IInv, FileInv, CopyInv, LoggedHasRow
<1>. QED
  BY <1>1, AlwaysIInv, PTL

\* A price, once in the log, is final.
THEOREM PricesAreFinal == Spec => PricedOnce
<1>1. IInv /\ [Next]_vars => \A s \in Sessions : s \in Priced(csv) => csv'[s] = csv[s]
  BY NextKeeps
<1>2. IInv /\ [Next]_vars => [\A s \in Sessions : s \in Priced(csv) => csv'[s] = csv[s]]_vars
  BY <1>1
<1>. QED
  BY <1>2, AlwaysIInv, PTL DEF Spec, PricedOnce
-------------------------------------------------------------------------------
(* Prices.                                                                 *)

\* A quotient rounds down.
LEMMA DivIsBelow ==
    ASSUME NEW a \in Nat, NEW n \in Nat \ {0}
    PROVE  a \div n \in Nat /\ n * (a \div n) <= a
OBVIOUS

\* A larger number has no smaller quotient.
LEMMA DivIsMonotone ==
    ASSUME NEW a \in Nat, NEW b \in Nat, NEW n \in Nat \ {0}, a <= b
    PROVE  a \div n <= b \div n
OBVIOUS

\* A session has started when it is up, and has ended when it was reaped or logged.
TimeInv ==
    \A s \in Sessions :
        /\ phase[s] # "none" => start[s] \in 0..now
        /\ phase[s] \in {"reaped", "logged"} => end[s] \in start[s]..now

\* The rows to speak of: those of the file, and those cost-backfill is about to write.
Books == IF job.at = "write" THEN {csv, job.rows} ELSE {csv}

\* Every row is of a session whose times are known.
LEMMA RowsAreLogged ==
    ASSUME TypeOK, TimeInv, IInv, NEW f \in Books
    PROVE  /\ f \in [Sessions -> Row] /\ IsFiniteSet(Rows(f)) /\ Rows(f) \subseteq Sessions
           /\ \A s \in Rows(f) :
                /\ phase[s] = "logged"
                /\ start[s] \in Nat /\ end[s] \in Nat /\ start[s] <= end[s] /\ end[s] <= now
<1>1. f \in [Sessions -> Row]
  BY DEF Books, TypeOK
<1>2. Rows(f) \subseteq Sessions /\ IsFiniteSet(Rows(f))
  <2>1. IsFiniteSet(Sessions)
    BY CostsAssumption, FS_Interval DEF Sessions
  <2>. QED
    BY <2>1, FS_Subset DEF Rows
<1>3. ASSUME NEW s \in Rows(f) PROVE phase[s] = "logged"
  BY <1>2, <1>3 DEF Books, IInv, FileInv, CopyInv, Rows, NoRow
<1>4. ASSUME NEW s \in Sessions, phase[s] = "logged"
      PROVE  start[s] \in Nat /\ end[s] \in Nat /\ start[s] <= end[s] /\ end[s] <= now
  <2>1. start[s] \in 0..now /\ end[s] \in start[s]..now /\ now \in Nat
    BY <1>4, CostsAssumption DEF TimeInv, TypeOK
  <2>. QED
    BY <2>1
<1>. QED
  BY <1>1, <1>2, <1>3, <1>4
\* The days up to today: those a row can touch.
Elapsed == 0..DayOf(now)

\* The elapsed days are finitely many, and the model has them.
LEMMA ElapsedDays ==
    ASSUME TypeOK
    PROVE  /\ DayOf(now) \in Nat /\ Elapsed \subseteq Days
           /\ IsFiniteSet(Elapsed) /\ IsFiniteSet(Days) /\ Days \subseteq Nat
<1>1. now \in Nat /\ now <= MaxTime /\ MaxTime \in Nat /\ DayLen \in Nat \ {0}
  BY CostsAssumption DEF TypeOK
<1>2. DayOf(now) \in Nat /\ DayOf(MaxTime) \in Nat /\ DayOf(now) <= DayOf(MaxTime)
  BY <1>1, DivIsBelow, DivIsMonotone DEF DayOf
<1>3. IsFiniteSet(0..DayOf(now)) /\ IsFiniteSet(0..DayOf(MaxTime))
  BY <1>2, FS_Interval
<1>4. 0..DayOf(now) \subseteq 0..DayOf(MaxTime)
  BY <1>2
<1>. QED
  BY <1>2, <1>3, <1>4 DEF Elapsed, Days

\* A row touches the day of its start, and days up to today only.
LEMMA DaysOfRow ==
    ASSUME TypeOK, TimeInv, IInv, NEW f \in Books, NEW s \in Rows(f)
    PROVE  /\ DaysOf(s) \subseteq Elapsed /\ IsFiniteSet(DaysOf(s))
           /\ DayOf(start[s]) \in DaysOf(s)
<1>1. start[s] \in Nat /\ end[s] \in Nat /\ start[s] <= end[s] /\ end[s] <= now /\ now \in Nat
  BY RowsAreLogged, CostsAssumption DEF TypeOK
<1>2. DayLen \in Nat \ {0}
  BY CostsAssumption
<1>3. /\ DayOf(start[s]) \in Nat /\ DayOf(end[s]) \in Nat /\ DayOf(now) \in Nat
      /\ DayOf(start[s]) <= DayOf(end[s]) /\ DayOf(end[s]) <= DayOf(now)
  BY <1>1, <1>2, DivIsBelow, DivIsMonotone DEF DayOf
<1>4. IsFiniteSet(DayOf(start[s])..DayOf(end[s]))
  BY <1>3, FS_Interval
<1>5. DayOf(start[s])..DayOf(end[s]) \subseteq 0..DayOf(now)
  BY <1>3
<1>. QED
  BY <1>3, <1>4, <1>5 DEF DaysOf, Elapsed

\* A session overlaps a day for no negative time, also when it does not touch it.
LEMMA OverlapType ==
    ASSUME NEW s, start[s] \in Int, end[s] \in Int, NEW d \in Int
    PROVE  Overlap(s, d) \in Nat
<1>1. DayLen \in Int
  BY CostsAssumption
<1>2. d * DayLen \in Int /\ (d + 1) * DayLen \in Int
  BY <1>1
<1>. QED
  BY <1>2 DEF Overlap, SmallerOf, LargerOf

\* The rows that share a day, and the time they take of it.
LEMMA SharingType ==
    ASSUME TypeOK, TimeInv, IInv, NEW f \in Books, NEW d \in Elapsed
    PROVE  /\ Sharing(d, f) \subseteq Rows(f) /\ IsFiniteSet(Sharing(d, f))
           /\ Cardinality(Sharing(d, f)) \in Nat
           /\ TimeShared(d, f) \in Nat
           /\ \A r \in Sharing(d, f) : Overlap(r, d) \in Nat
           /\ Sharing(d, f) # {} => Cardinality(Sharing(d, f)) # 0
<1>. DEFINE sharing == Sharing(d, f)
            taken == [r \in sharing |-> Overlap(r, d)]
<1>1. sharing \subseteq Rows(f) /\ IsFiniteSet(sharing) /\ Cardinality(sharing) \in Nat
  BY RowsAreLogged, FS_Subset, FS_CardinalityType DEF Sharing
<1>2. d \in Int
  BY ElapsedDays DEF Elapsed
<1>3. \A r \in sharing : Overlap(r, d) \in Nat
  BY <1>1, <1>2, RowsAreLogged, OverlapType
<1>4. SumFunctionOnSet(taken, sharing) \in Nat
  <2>1. \A r \in sharing : taken[r] \in Nat
    BY <1>3
  <2>. HIDE DEF taken, sharing
  <2>. QED
    BY <1>1, <2>1, SumType
<1>5. TimeShared(d, f) \in Nat
  BY <1>4 DEF TimeShared, SumFunction
<1>6. sharing # {} => Cardinality(sharing) # 0
  BY <1>1, FS_EmptySet
<1>. QED
  BY <1>1, <1>3, <1>5, <1>6

\* The share of a row in a day it touches is defined: it is never a division by zero.
LEMMA ShareType ==
    ASSUME TypeOK, TimeInv, IInv, NEW f \in Books, NEW d \in Elapsed, NEW s \in Sharing(d, f)
    PROVE  SessionShare(s, d, f) \in Nat
<1>1. Scale \in Nat
  BY CostsAssumption
<1>2. CASE TimeShared(d, f) = 0
  BY <1>1, <1>2, SharingType, DivIsBelow DEF SessionShare
<1>3. CASE TimeShared(d, f) # 0
  <2>1. Scale \div TimeShared(d, f) \in Nat /\ Overlap(s, d) \in Nat
    BY <1>1, <1>3, SharingType, DivIsBelow
  <2>. QED
    BY <1>3, <2>1 DEF SessionShare
<1>. QED
  BY <1>2, <1>3

\* The shares of a day do not add up to more than the day.
LEMMA SharesFit ==
    ASSUME TypeOK, TimeInv, IInv, NEW f \in Books, NEW d \in Elapsed
    PROVE  SumFunctionOnSet([r \in Sharing(d, f) |-> SessionShare(r, d, f)], Sharing(d, f))
             <= Scale
<1>. DEFINE sharing == Sharing(d, f)
            share == [r \in sharing |-> SessionShare(r, d, f)]
            taken == [r \in sharing |-> Overlap(r, d)]
<1>1. Scale \in Nat /\ IsFiniteSet(sharing)
  BY CostsAssumption, SharingType
<1>2. CASE TimeShared(d, f) = 0
  <2>. DEFINE even == Scale \div Cardinality(sharing)
  <2>1. CASE sharing = {}
    <3>1. SumFunctionOnSet(share, {}) = 0
      <4>. HIDE DEF share
      <4>. QED
        BY SumEmpty
    <3>. QED
      BY <1>1, <2>1, <3>1
  <2>2. CASE sharing # {}
    <3>1. Cardinality(sharing) \in Nat \ {0} /\ even \in Nat
          /\ Cardinality(sharing) * even <= Scale
      BY <1>1, <2>2, SharingType, DivIsBelow
    <3>2. \A r \in sharing : share[r] = even
      BY <1>2 DEF SessionShare
    <3>3. SumFunctionOnSet(share, sharing) = even * Cardinality(sharing)
      <4>. HIDE DEF share, sharing, even
      <4>. QED
        BY <1>1, <3>1, <3>2, SumConstant
    <3>. HIDE DEF share, sharing, even
    <3>4. SumFunctionOnSet(share, sharing) <= Scale
      BY <1>1, <3>1, <3>3
    <3>. QED
      BY <3>4 DEF share, sharing
  <2>. QED
    BY <2>1, <2>2
<1>3. CASE TimeShared(d, f) # 0
  <2>. DEFINE unit == Scale \div TimeShared(d, f)
  <2>1. TimeShared(d, f) \in Nat \ {0} /\ unit \in Nat /\ TimeShared(d, f) * unit <= Scale
    BY <1>1, <1>3, SharingType, DivIsBelow
  <2>2. \A r \in sharing : taken[r] \in Nat /\ share[r] = unit * taken[r]
    BY <1>3, <2>1, SharingType DEF SessionShare
  <2>3. SumFunctionOnSet(share, sharing) = unit * SumFunctionOnSet(taken, sharing)
    <3>. HIDE DEF share, sharing, unit, taken
    <3>. QED
      BY <1>1, <2>1, <2>2, SumTimes
  <2>4. TimeShared(d, f) = SumFunctionOnSet(taken, sharing)
    BY DEF TimeShared, SumFunction
  <2>. HIDE DEF share, sharing, unit, taken
  <2>5. SumFunctionOnSet(share, sharing) <= Scale
    BY <1>1, <2>1, <2>3, <2>4
  <2>. QED
    BY <2>5 DEF share, sharing
<1>. QED
  BY <1>2, <1>3

\* A cent has parts.
LEMMA CentIsParts ==
    CentParts \in Nat \ {0} /\ CentParts = Scale * Cent
BY CostsAssumption DEF CentParts

\* A row's cost is a number of cents, rounded up by half a cent at most.
LEMMA CostType ==
    ASSUME TypeOK, TimeInv, IInv, NEW f \in Books, NEW s \in Rows(f)
    PROVE  /\ Parts(s, f) \in Nat /\ Cost(s, f) \in Nat
           /\ 2 * CentParts * Cost(s, f) <= 2 * Parts(s, f) + CentParts
           /\ \A d \in DaysOf(s) : /\ s \in Sharing(d, f)
                                   /\ bill[d] * SessionShare(s, d, f) \in Nat
<1>. DEFINE part == [d \in DaysOf(s) |-> bill[d] * SessionShare(s, d, f)]
<1>1. ASSUME NEW d \in DaysOf(s) PROVE s \in Sharing(d, f) /\ part[d] \in Nat
  <2>1. d \in Elapsed /\ s \in Sharing(d, f)
    BY DaysOfRow DEF Sharing
  <2>2. SessionShare(s, d, f) \in Nat
    BY <2>1, ShareType
  <2>3. bill[d] \in Nat
    BY <2>1, ElapsedDays, CostsAssumption DEF TypeOK
  <2>. QED
    BY <2>1, <2>2, <2>3
<1>2. SumFunctionOnSet(part, DaysOf(s)) \in Nat
  <2>. HIDE DEF part
  <2>. QED
    BY <1>1, DaysOfRow, SumType
<1>3. Parts(s, f) \in Nat
  BY <1>2 DEF Parts, SumFunction
<1>4. Cost(s, f) \in Nat /\ 2 * CentParts * Cost(s, f) <= 2 * Parts(s, f) + CentParts
  <2>1. CentParts \in Nat \ {0}
    BY CentIsParts
  <2>2. 2 * Parts(s, f) + CentParts \in Nat /\ 2 * CentParts \in Nat \ {0}
    BY <1>3, <2>1
  <2>. QED
    BY <2>2, DivIsBelow DEF Cost
<1>. QED
  BY <1>1, <1>3, <1>4

\* What all rows are charged together fits in the totals of the days up to today: each
\* row takes its share of the days it touches, so the charges add up day by day.
LEMMA PartsFit ==
    ASSUME TypeOK, TimeInv, IInv, NEW f \in Books
    PROVE  SumFunctionOnSet([s \in Rows(f) |-> Parts(s, f)], Rows(f))
             <= Scale * SumFunctionOnSet(bill, Elapsed)
<1>. DEFINE A == Rows(f)
            B == Elapsed
            F == [s \in A |-> [d \in B |-> IF d \in DaysOf(s)
                                           THEN bill[d] * SessionShare(s, d, f) ELSE 0]]
            G == [d \in B |-> [s \in A |-> F[s][d]]]
            charges == [s \in A |-> Parts(s, f)]
            days == [d \in B |-> SumFunctionOnSet(G[d], A)]
            whole == [d \in B |-> Scale * bill[d]]
<1>1. IsFiniteSet(A) /\ IsFiniteSet(B) /\ Scale \in Nat
  BY RowsAreLogged, ElapsedDays, CostsAssumption
<1>2. ASSUME NEW s \in A, NEW d \in B PROVE F[s][d] \in Nat /\ G[d][s] = F[s][d]
  BY CostType
<1>3. ASSUME NEW s \in A PROVE charges[s] = SumFunctionOnSet(F[s], B)
  <2>. DEFINE row == F[s]
              part == [d \in DaysOf(s) |-> bill[d] * SessionShare(s, d, f)]
  <2>1. DaysOf(s) \in SUBSET B
    BY DaysOfRow
  <2>2. /\ \A d \in DaysOf(s) : part[d] \in Int /\ row[d] = part[d]
        /\ \A d \in B \ DaysOf(s) : row[d] = 0
    BY <2>1, CostType
  <2>3. SumFunctionOnSet(row, B) = SumFunctionOnSet(part, DaysOf(s))
    <3>. HIDE DEF row, part, B
    <3>. QED
      BY <1>1, <2>1, <2>2, SumWithin
  <2>. QED
    BY <2>3 DEF Parts, SumFunction
<1>4. ASSUME NEW d \in B PROVE days[d] \in Int /\ whole[d] \in Int /\ days[d] <= whole[d]
  <2>. DEFINE column == G[d]
              sharing == Sharing(d, f)
              cents == bill[d]
              share == [r \in sharing |-> SessionShare(r, d, f)]
              part == [r \in sharing |-> bill[d] * SessionShare(r, d, f)]
  <2>1. bill[d] \in Nat
    BY ElapsedDays, CostsAssumption DEF TypeOK
  <2>2. /\ sharing \in SUBSET A /\ IsFiniteSet(sharing)
        /\ \A r \in sharing : share[r] \in Nat /\ part[r] = bill[d] * share[r]
    BY SharingType, ShareType
  <2>3. /\ \A r \in sharing : part[r] \in Int /\ column[r] = part[r]
        /\ \A r \in A \ sharing : column[r] = 0
    <3>1. \A r \in A : r \in sharing <=> d \in DaysOf(r)
      BY DEF Sharing
    <3>2. \A r \in sharing : part[r] \in Int
      BY <2>1, <2>2
    <3>. QED
      BY <2>2, <3>1, <3>2
  <2>4. SumFunctionOnSet(column, A) = SumFunctionOnSet(part, sharing)
    <3>. HIDE DEF column, part, sharing, A
    <3>. QED
      BY <1>1, <2>2, <2>3, SumWithin
  <2>5. SumFunctionOnSet(part, sharing) = bill[d] * SumFunctionOnSet(share, sharing)
        /\ SumFunctionOnSet(share, sharing) \in Nat
    <3>1. /\ cents \in Int
          /\ \A r \in sharing : share[r] \in Int /\ part[r] = cents * share[r]
      BY <2>1, <2>2
    <3>2. SumFunctionOnSet(share, sharing) \in Nat
      <4>. HIDE DEF part, share, sharing
      <4>. QED
        BY <2>2, SumType
    <3>3. SumFunctionOnSet(part, sharing) = cents * SumFunctionOnSet(share, sharing)
      <4>. HIDE DEF part, share, sharing, cents
      <4>. QED
        BY <2>2, <3>1, SumTimes
    <3>. QED
      BY <3>2, <3>3
  <2>6. SumFunctionOnSet(share, sharing) <= Scale
    BY SharesFit
  <2>7. days[d] = bill[d] * SumFunctionOnSet(share, sharing)
    BY <2>4, <2>5
  <2>8. \A m \in Nat : m <= Scale => bill[d] * m <= Scale * bill[d]
    BY <1>1, <2>1
  <2>9. whole[d] = Scale * bill[d] /\ whole[d] \in Int
    BY <1>1, <2>1
  <2>. HIDE DEF share, sharing, days, whole
  <2>. QED
    BY <2>1, <2>5, <2>6, <2>7, <2>8, <2>9
<1>5. SumFunctionOnSet(charges, A) = SumFunctionOnSet(days, B)
  <2>1. Table(F, G, A, B) /\ SumsOf(charges, F, A, B) /\ SumsOf(days, G, B, A)
    BY <1>2, <1>3 DEF Table, SumsOf
  <2>. HIDE DEF F, G, A, B, charges, days
  <2>. QED
    BY <1>1, <2>1, SumSwap
<1>6. SumFunctionOnSet(days, B) <= SumFunctionOnSet(whole, B)
  <2>. HIDE DEF days, whole, B
  <2>. QED
    BY <1>1, <1>4, SumCompare
<1>7. SumFunctionOnSet(whole, B) = Scale * SumFunctionOnSet(bill, B)
  <2>1. \A d \in B : bill[d] \in Int /\ whole[d] = Scale * bill[d]
    BY ElapsedDays, CostsAssumption DEF TypeOK
  <2>. HIDE DEF whole, B
  <2>. QED
    BY <1>1, <2>1, SumTimes
<1>. HIDE DEF charges, days, whole
<1>8. SumFunctionOnSet(charges, A) <= Scale * SumFunctionOnSet(bill, B)
  BY <1>5, <1>6, <1>7
<1>. QED
  BY <1>8 DEF charges
-------------------------------------------------------------------------------
(* The gap.                                                                *)

\* What the report's query adds up to over its months.
Total == SumFunction([m \in Months |-> CeTotal(m)])

\* The months of the query hold every elapsed day, and each day once.
LEMMA TotalHoldsAll ==
    ASSUME TypeOK
    PROVE  /\ Total \in Int /\ SumFunctionOnSet(bill, Elapsed) \in Int
           /\ SumFunctionOnSet(bill, Elapsed) <= Total
           /\ IsFiniteSet(Months) /\ \A d \in Elapsed : MonthOf(d) \in Months
           /\ \A m \in Months : CeTotal(m) \in Int
<1>. DEFINE known == {d \in Days : MonthOf(d) \in Months}
            key == [d \in Days |-> MonthOf(d)]
            total == [m \in Months |-> CeTotal(m)]
<1>1. ASSUME NEW d \in Elapsed PROVE MonthOf(d) \in Months
  <2>1. d \in Nat /\ DayOf(now) \in Nat /\ d <= DayOf(now) /\ MonthDays \in Nat \ {0}
    BY ElapsedDays, CostsAssumption DEF Elapsed
  <2>2. MonthOf(d) \in Nat /\ MonthOf(DayOf(now)) \in Nat /\ MonthOf(d) <= MonthOf(DayOf(now))
    BY <2>1, DivIsBelow, DivIsMonotone DEF MonthOf
  <2>. QED
    BY <2>2 DEF Months
<1>2. IsFiniteSet(Months)
  <2>1. DayOf(now) \in Nat /\ MonthDays \in Nat \ {0}
    BY ElapsedDays, CostsAssumption
  <2>2. MonthOf(DayOf(now)) \in Nat
    BY <2>1, DivIsBelow DEF MonthOf
  <2>. QED
    BY <2>2, FS_Interval DEF Months
<1>3. IsFiniteSet(known) /\ Elapsed \in SUBSET known /\ \A d \in Days : bill[d] \in Nat
  BY <1>1, ElapsedDays, FS_Subset, CostsAssumption DEF TypeOK
<1>4. ASSUME NEW m \in Months
      PROVE  /\ total[m] = SumFunctionOnSet(bill, {d \in known : key[d] = m})
             /\ CeTotal(m) \in Int
  <2>1. {d \in known : key[d] = m} = {d \in Days : MonthOf(d) = m}
    OBVIOUS
  <2>2. IsFiniteSet({d \in Days : MonthOf(d) = m})
    BY ElapsedDays, FS_Subset
  <2>3. CeTotal(m) \in Int
    BY <1>3, <2>2, SumType DEF CeTotal
  <2>. QED
    BY <2>1, <2>3 DEF CeTotal
<1>5. SumFunctionOnSet(total, Months) = SumFunctionOnSet(bill, known)
  <2>1. ClassSums(total, bill, known, key, Months)
    BY <1>4 DEF ClassSums
  <2>2. \A d \in known : key[d] \in Months /\ bill[d] \in Int
    BY <1>3
  <2>. HIDE DEF known, key, total
  <2>. QED
    BY <1>2, <1>3, <2>1, <2>2, SumByClass
<1>6. SumFunctionOnSet(bill, Elapsed) \in Int /\ SumFunctionOnSet(bill, known) \in Int
      /\ SumFunctionOnSet(bill, Elapsed) <= SumFunctionOnSet(bill, known)
  <2>1. \A d \in known : bill[d] \in Nat
    BY <1>3
  <2>. HIDE DEF known
  <2>. QED
    BY <1>3, <2>1, ElapsedDays, SumType, SumPart
<1>7. Total = SumFunctionOnSet(total, Months)
  BY DEF Total, SumFunction
<1>. QED
  BY <1>1, <1>2, <1>4, <1>5, <1>6, <1>7

\* The prices of the file.
LEMMA PricedType ==
    ASSUME TypeOK, TimeInv, IInv, NEW f \in Books
    PROVE  /\ Priced(f) \subseteq Rows(f) /\ IsFiniteSet(Priced(f))
           /\ Cardinality(Priced(f)) \in Nat /\ Cardinality(Priced(f)) <= MaxSessions
           /\ \A s \in Priced(f) : f[s].actual \in Nat
<1>1. Priced(f) \subseteq Rows(f) /\ Priced(f) \subseteq Sessions
  BY RowsAreLogged DEF Priced
<1>2. IsFiniteSet(Sessions) /\ Cardinality(Sessions) = MaxSessions
  <2>1. MaxSessions \in Nat \ {0}
    BY CostsAssumption
  <2>. QED
    BY <2>1, FS_Interval DEF Sessions
<1>3. /\ IsFiniteSet(Priced(f)) /\ Cardinality(Priced(f)) \in Nat
      /\ Cardinality(Priced(f)) <= MaxSessions
  BY <1>1, <1>2, FS_Subset, FS_CardinalityType
<1>4. ASSUME NEW s \in Priced(f) PROVE f[s].actual \in Nat
  <2>1. f[s] \in Row /\ f[s].status # "absent" /\ f[s].actual # None
    BY <1>1, RowsAreLogged DEF Priced, Rows
  <2>. QED
    BY <2>1 DEF Row, NoRow
<1>. QED
  BY <1>1, <1>3, <1>4

\* The gap is the sum of the months' idle spend: every priced session counts in the one
\* month it started in, and the query has that month.
LEMMA GapByMonth ==
    ASSUME TypeOK, TimeInv, IInv
    PROVE  GapIsSummedIdle
<1>. DEFINE priced == Priced(csv)
            price == [s \in priced |-> csv[s].actual]
            key == [s \in priced |-> MonthOf(DayOf(start[s]))]
            total == [m \in Months |-> CeTotal(m)]
            paid == [m \in Months |-> SumFunction([s \in PricedIn(m, csv) |-> csv[s].actual])]
            spent == [m \in Months |-> Cent * paid[m]]
            idle == [m \in Months |-> Idle(m, csv)]
<1>1. csv \in Books
  BY DEF Books
<1>2. /\ IsFiniteSet(priced) /\ IsFiniteSet(Months)
      /\ \A s \in priced : price[s] \in Nat
  BY <1>1, PricedType, TotalHoldsAll
<1>3. ASSUME NEW s \in priced PROVE key[s] \in Months
  <2>1. s \in Rows(csv)
    BY <1>1, PricedType
  <2>2. DayOf(start[s]) \in Elapsed
    BY <1>1, <2>1, DaysOfRow
  <2>. QED
    BY <2>2, TotalHoldsAll
<1>4. ASSUME NEW m \in Months
      PROVE  /\ paid[m] = SumFunctionOnSet(price, {s \in priced : key[s] = m})
             /\ paid[m] \in Int
  <2>. DEFINE class == {s \in priced : key[s] = m}
              part == [s \in PricedIn(m, csv) |-> csv[s].actual]
  <2>1. class = PricedIn(m, csv) /\ IsFiniteSet(class)
    BY <1>2, FS_Subset DEF PricedIn
  <2>2. ASSUME NEW s \in class PROVE price[s] \in Int /\ part[s] = price[s]
    <3>1. s \in priced /\ s \in PricedIn(m, csv)
      BY <2>1
    <3>. QED
      BY <1>2, <3>1
  <2>3. SumFunctionOnSet(price, class) = SumFunctionOnSet(part, class)
        /\ SumFunctionOnSet(price, class) \in Int
    <3>. HIDE DEF price, part, class
    <3>. QED
      BY <2>1, <2>2, SumSame, SumType
  <2>4. paid[m] = SumFunctionOnSet(part, class)
    BY <2>1 DEF SumFunction
  <2>. QED
    BY <2>3, <2>4
<1>5. SumFunctionOnSet(paid, Months) = SumFunctionOnSet(price, priced)
  <2>1. \A s \in priced : key[s] \in Months /\ price[s] \in Int
    BY <1>2, <1>3
  <2>2. ClassSums(paid, price, priced, key, Months)
    BY <1>4 DEF ClassSums
  <2>. HIDE DEF priced, price, key, paid
  <2>. QED
    BY <1>2, <2>1, <2>2, SumByClass
<1>6. /\ SumFunctionOnSet(spent, Months) = Cent * SumFunctionOnSet(paid, Months)
       /\ Cent \in Nat
  <2>1. Cent \in Int
    BY CostsAssumption
  <2>2. \A m \in Months : paid[m] \in Int
    BY <1>4
  <2>3. \A m \in Months : spent[m] = Cent * paid[m]
    OBVIOUS
  <2>. HIDE DEF spent, paid
  <2>. QED
    BY <1>2, <2>1, <2>2, <2>3, CostsAssumption, SumTimes
<1>7. \A m \in Months : /\ spent[m] \in Int /\ idle[m] \in Int
                        /\ total[m] = idle[m] + spent[m]
  <2>1. \A m \in Months : idle[m] = total[m] - spent[m]
    BY DEF Idle
  <2>2. \A m \in Months : spent[m] \in Int
    <3>1. ASSUME NEW m \in Months PROVE paid[m] \in Int /\ spent[m] = Cent * paid[m]
      <4>1. paid[m] \in Int
        BY <1>4
      <4>. QED
        BY <4>1
    <3>. HIDE DEF paid, spent
    <3>. QED
      BY <1>6, <3>1
  <2>3. \A m \in Months : total[m] \in Int
    BY TotalHoldsAll
  <2>. HIDE DEF idle, total, spent
  <2>. QED
    BY <2>1, <2>2, <2>3
<1>8. /\ SumFunctionOnSet(total, Months)
           = SumFunctionOnSet(idle, Months) + SumFunctionOnSet(spent, Months)
      /\ SumFunctionOnSet(idle, Months) \in Int /\ SumFunctionOnSet(spent, Months) \in Int
  <2>. HIDE DEF total, idle, spent
  <2>. QED
    BY <1>2, <1>7, SumPlus, SumType
<1>9. /\ Gap(csv) = SumFunctionOnSet(total, Months) - Cent * SumFunctionOnSet(price, priced)
      /\ SumFunction(idle) = SumFunctionOnSet(idle, Months)
  BY DEF Gap, SumFunction
<1>. HIDE DEF total, idle, spent, paid, price, priced
<1>10. Gap(csv) = SumFunction(idle)
  BY <1>5, <1>6, <1>8, <1>9
<1>. QED
  BY <1>10 DEF GapIsSummedIdle, idle

\* The gap is a number of units.
LEMMA GapType ==
    ASSUME TypeOK, TimeInv, IInv
    PROVE  Gap(csv) \in Int
<1>. DEFINE priced == Priced(csv)
            price == [s \in priced |-> csv[s].actual]
<1>1. csv \in Books
  BY DEF Books
<1>2. IsFiniteSet(priced) /\ \A s \in priced : price[s] \in Int
  BY <1>1, PricedType
<1>3. Gap(csv) = Total - Cent * SumFunctionOnSet(price, priced)
  BY DEF Gap, Total, SumFunction
<1>. HIDE DEF priced, price
<1>4. SumFunctionOnSet(price, priced) \in Int
  BY <1>2, SumType
<1>. QED
  BY <1>3, <1>4, TotalHoldsAll, CostsAssumption

\* What keeps the gap small: a priced row was charged no more than what its share of its
\* days comes to now, with the rows that are there now and the totals of now.
Fair(f) == \A s \in Priced(f) : 2 * CentParts * f[s].actual <= 2 * Parts(s, f) + CentParts

\* Then the prices add up to no more than the totals, and half a cent a row.
LEMMA FairIsRounding ==
    ASSUME TypeOK, TimeInv, IInv, Fair(csv)
    PROVE  2 * Gap(csv) >= -(Cent * Cardinality(Priced(csv)))
<1>. DEFINE rows == Rows(csv)
            priced == Priced(csv)
            price == [s \in priced |-> csv[s].actual]
            charge == [s \in rows |-> Parts(s, csv)]
            scaled == [s \in priced |-> (2 * CentParts) * price[s]]
            double == [s \in priced |-> 2 * charge[s]]
            half == [s \in priced |-> CentParts]
            bound == [s \in priced |-> double[s] + half[s]]
<1>1. csv \in Books
  BY DEF Books
<1>2. /\ Scale \in Nat \ {0} /\ Cent \in Nat \ {0}
      /\ CentParts \in Nat \ {0} /\ CentParts = Scale * Cent
  BY CostsAssumption, CentIsParts
<1>3. /\ priced \in SUBSET rows /\ IsFiniteSet(priced) /\ IsFiniteSet(rows)
      /\ Cardinality(priced) \in Nat
  BY <1>1, PricedType, RowsAreLogged
<1>4. /\ \A s \in priced : price[s] \in Nat
      /\ \A s \in rows : charge[s] \in Nat
  BY <1>1, PricedType, CostType
<1>5. ASSUME NEW s \in priced
      PROVE  /\ scaled[s] \in Int /\ double[s] \in Int /\ half[s] \in Int /\ bound[s] \in Int
             /\ scaled[s] = (2 * CentParts) * price[s] /\ double[s] = 2 * charge[s]
             /\ half[s] = CentParts /\ bound[s] = double[s] + half[s]
             /\ scaled[s] <= bound[s]
  <2>1. s \in rows /\ price[s] \in Nat /\ charge[s] \in Nat
    BY <1>3, <1>4
  <2>2. 2 * CentParts * csv[s].actual <= 2 * Parts(s, csv) + CentParts
    BY DEF Fair
  <2>3. price[s] = csv[s].actual /\ charge[s] = Parts(s, csv)
    BY <2>1
  <2>4. scaled[s] = (2 * CentParts) * price[s] /\ double[s] = 2 * charge[s]
        /\ half[s] = CentParts /\ bound[s] = double[s] + half[s]
    OBVIOUS
  <2>. HIDE DEF price, charge, scaled, double, half, bound, rows, priced
  <2>. QED
    BY <1>2, <2>1, <2>2, <2>3, <2>4
<1>6. SumFunctionOnSet(charge, rows) <= Scale * SumFunctionOnSet(bill, Elapsed)
  BY <1>1, PartsFit
<1>7. Gap(csv) = Total - Cent * SumFunctionOnSet(price, priced)
  BY DEF Gap, Total, SumFunction
<1>. HIDE DEF price, charge, scaled, double, half, bound, rows, priced
<1>8. SumFunctionOnSet(scaled, priced) <= SumFunctionOnSet(bound, priced)
  BY <1>3, <1>5, SumCompare
<1>9. /\ SumFunctionOnSet(scaled, priced) = (2 * CentParts) * SumFunctionOnSet(price, priced)
      /\ SumFunctionOnSet(price, priced) \in Int
  <2>1. 2 * CentParts \in Int /\ \A s \in priced : price[s] \in Int
    BY <1>2, <1>4
  <2>. QED
    BY <1>3, <1>5, <2>1, SumTimes, SumType
<1>10. /\ SumFunctionOnSet(bound, priced)
            = SumFunctionOnSet(double, priced) + SumFunctionOnSet(half, priced)
  BY <1>3, <1>5, SumPlus
<1>11. SumFunctionOnSet(double, priced) = 2 * SumFunctionOnSet(charge, priced)
  <2>1. \A s \in priced : charge[s] \in Int /\ double[s] = 2 * charge[s]
    BY <1>3, <1>4, <1>5
  <2>. QED
    BY <1>3, <2>1, SumTimes
<1>12. SumFunctionOnSet(half, priced) = CentParts * Cardinality(priced)
  BY <1>2, <1>3, <1>5, SumConstant
<1>13. /\ SumFunctionOnSet(charge, priced) \in Int /\ SumFunctionOnSet(charge, rows) \in Int
       /\ SumFunctionOnSet(charge, priced) <= SumFunctionOnSet(charge, rows)
  <2>1. \A s \in priced : charge[s] \in Int
    BY <1>3, <1>4
  <2>. QED
    BY <1>3, <1>4, <2>1, SumPart, SumType
<1>14. /\ Total \in Int /\ SumFunctionOnSet(bill, Elapsed) \in Int
       /\ SumFunctionOnSet(bill, Elapsed) <= Total
  BY TotalHoldsAll
<1>15. ASSUME NEW paid \in Int, NEW all \in Int, NEW n \in Nat,
              2 * CentParts * paid <= 2 * (Scale * all) + CentParts * n
       PROVE  2 * (Cent * paid) <= 2 * all + Cent * n
  <2>. DEFINE units == Cent * paid
              slack == Cent * n
  <2>1. units \in Int /\ slack \in Int
    BY <1>2
  <2>2. CentParts * paid = Scale * units /\ CentParts * n = Scale * slack
    BY <1>2
  <2>. HIDE DEF units, slack
  <2>3. Scale * (2 * units - 2 * all - slack) <= 0
    BY <1>2, <1>15, <2>1, <2>2
  <2>4. 2 * units - 2 * all - slack <= 0
    BY <1>2, <2>1, <2>3
  <2>5. 2 * units <= 2 * all + slack
    BY <2>1, <2>4
  <2>. QED
    BY <2>5 DEF units, slack
<1>16. 2 * (Cent * SumFunctionOnSet(price, priced))
         <= 2 * SumFunctionOnSet(bill, Elapsed) + Cent * Cardinality(priced)
  <2>1. 2 * CentParts * SumFunctionOnSet(price, priced)
          <= 2 * (Scale * SumFunctionOnSet(bill, Elapsed)) + CentParts * Cardinality(priced)
    BY <1>2, <1>3, <1>6, <1>8, <1>9, <1>10, <1>11, <1>12, <1>13, <1>14
  <2>. QED
    BY <1>3, <1>9, <1>14, <1>15, <2>1
<1>17. /\ Cent * SumFunctionOnSet(price, priced) \in Int
       /\ Cent * Cardinality(priced) \in Int
  BY <1>2, <1>3, <1>9
<1>. QED
  BY <1>7, <1>14, <1>16, <1>17 DEF priced
-------------------------------------------------------------------------------
(* The invariant.                                                          *)

FairInv == ~late => \A f \in Books : Fair(f)

BooksInv == TypeOK /\ TimeInv /\ IInv /\ FairInv

\* Without rows the books are in order.
LEMMA InitBooksInv ==
    Init => BooksInv
<1>. SUFFICES ASSUME Init PROVE BooksInv
  OBVIOUS
<1>1. NoRow \in Row /\ None \notin Nat
  BY DEF Row, None
<1>2. [s \in Sessions |-> NoRow] \in [Sessions -> Row]
  BY <1>1
<1>3. TypeOK
  <2>1. 0 \in 0..MaxTime /\ 0 \in 0..MaxBill
    BY CostsAssumption
  <2>2. csv \in [Sessions -> Row] /\ job \in [at : {"idle", "write"}, rows : [Sessions -> Row]]
    BY <1>2 DEF Init, NoJob
  <2>. QED
    BY <2>1, <2>2 DEF Init, TypeOK
<1>4. TimeInv
  BY DEF Init, TimeInv
<1>5. Priced(csv) = {} /\ Books = {csv}
  BY DEF Init, Priced, Rows, NoRow, Books, NoJob
<1>6. FairInv
  BY <1>5 DEF FairInv, Fair
<1>. QED
  BY <1>3, <1>4, <1>6, InitIInv DEF BooksInv

\* What backfill leaves are rows again, and it leaves no row without a price that is a day
\* old: this is where a price must be a number.
LEMMA BackfilledRows ==
    ASSUME TypeOK, TimeInv, IInv
    PROVE  /\ Backfilled(csv) \in [Sessions -> Row]
           /\ Rows(Backfilled(csv)) = Rows(csv)
           /\ \A s \in Priced(Backfilled(csv)) :
                \/ s \in Priced(csv) /\ Backfilled(csv)[s] = csv[s]
                \/ s \in Rows(csv) /\ Backfilled(csv)[s].actual = Cost(s, csv)
           /\ StaleRows(Backfilled(csv)) = {}
<1>. DEFINE new == Backfilled(csv)
<1>1. csv \in Books /\ csv \in [Sessions -> Row]
  BY DEF Books, TypeOK
<1>2. ASSUME NEW s \in Sessions, Eligible(s, csv)
      PROVE  /\ s \in Rows(csv) /\ Cost(s, csv) \in Nat
             /\ new[s].actual = Cost(s, csv) /\ new[s].status \in {"final", "reaper-terminated"}
             /\ new[s] \in Row
  <2>1. s \in Rows(csv)
    BY <1>2 DEF Eligible, Rows
  <2>2. Cost(s, csv) \in Nat
    BY <1>1, <2>1, CostType
  <2>3. new[s] = [status |-> IF csv[s].status = "pending" THEN "final" ELSE csv[s].status,
                  actual |-> Cost(s, csv)]
    BY <1>2 DEF Backfilled
  <2>4. csv[s].status \in {"pending", "reaper-terminated"}
    BY <1>2 DEF Eligible
  <2>. QED
    BY <2>1, <2>2, <2>3, <2>4 DEF Row
<1>3. ASSUME NEW s \in Sessions, ~Eligible(s, csv) PROVE new[s] = csv[s] /\ new[s] \in Row
  BY <1>1, <1>3 DEF Backfilled
<1>4. new \in [Sessions -> Row]
  BY <1>2, <1>3 DEF Backfilled
<1>5. \A s \in Sessions : s \in Rows(new) <=> s \in Rows(csv)
  BY <1>2, <1>3 DEF Rows
<1>6. ASSUME NEW s \in Priced(new)
      PROVE  \/ s \in Priced(csv) /\ new[s] = csv[s]
             \/ s \in Rows(csv) /\ new[s].actual = Cost(s, csv)
  BY <1>2, <1>3, <1>6 DEF Priced, Rows
<1>7. ASSUME NEW s \in StaleRows(new) PROVE FALSE
  <2>1. s \in Sessions /\ s \in Rows(new) /\ new[s].actual = None
        /\ now - end[s] >= 2 * DayLen
    BY DEF StaleRows, STALE_AFTER, Rows
  <2>2. ~Eligible(s, csv)
    BY <1>2, <2>1 DEF None
  <2>3. csv[s] \in Row /\ csv[s].actual = None /\ s \in Rows(csv)
    BY <1>1, <1>3, <1>5, <2>1, <2>2
  <2>4. csv[s].status \in {"pending", "reaper-terminated"}
    BY <2>3 DEF Row, Rows, NoRow, None
  <2>5. now \in Nat /\ end[s] \in Nat /\ DayLen \in Nat
    BY <1>1, <2>3, RowsAreLogged, CostsAssumption DEF TypeOK
  <2>6. now - end[s] >= DayLen
    BY <2>1, <2>5
  <2>. QED
    BY <2>2, <2>3, <2>4, <2>6 DEF Eligible, BACKFILL_DELAY
<1>. QED
  BY <1>4, <1>5, <1>6, <1>7 DEF Rows

\* Every step keeps the types and the times.
LEMMA TypeStep ==
    ASSUME TypeOK, TimeInv, IInv, [Next]_vars
    PROVE  TypeOK' /\ TimeInv'
<1>. USE DEF TypeOK, sessions
<1>0. now \in Nat /\ MaxTime \in Nat
  BY CostsAssumption
<1>1. CASE Tick
  <2>1. now' \in 0..MaxTime /\ now' = now + 1
    BY <1>0, <1>1 DEF Tick
  <2>2. TypeOK'
    BY <1>1, <2>1 DEF Tick
  <2>3. TimeInv'
    BY <1>0, <1>1, <2>1 DEF Tick, TimeInv
  <2>. QED
    BY <2>2, <2>3
<1>2. CASE \E d \in Days : Bill(d)
  <2>1. PICK d \in Days : Bill(d)
    BY <1>2
  <2>2. PICK b \in (bill[d] + 1)..MaxBill : bill' = [bill EXCEPT ![d] = b]
    BY <2>1 DEF Bill
  <2>3. b \in 0..MaxBill
    BY CostsAssumption
  <2>4. TypeOK'
    BY <2>1, <2>2, <2>3 DEF Bill
  <2>. QED
    BY <2>1, <2>4 DEF Bill, TimeInv
<1>3. ASSUME NEW s \in Sessions, SessionUp(s) PROVE TypeOK' /\ TimeInv'
  BY <1>0, <1>3 DEF SessionUp, TimeInv
<1>4. ASSUME NEW s \in Sessions, Reap(s) PROVE TypeOK' /\ TimeInv'
  <2>1. start[s] \in 0..now
    BY <1>4 DEF Reap, TimeInv
  <2>. QED
    BY <1>0, <1>4, <2>1 DEF Reap, TimeInv
<1>5. ASSUME NEW s \in Sessions, SessionDown(s) PROVE TypeOK' /\ TimeInv'
  <2>1. start[s] \in 0..now /\ (phase[s] = "reaped" => end[s] \in start[s]..now)
    BY <1>5 DEF SessionDown, TimeInv
  <2>2. csv' \in [Sessions -> Row]
    BY <1>5 DEF SessionDown, Row
  <2>3. end' \in [Sessions -> {None} \cup 0..MaxTime]
    BY <1>5 DEF SessionDown
  <2>4. TypeOK'
    BY <1>5, <2>2, <2>3 DEF SessionDown
  <2>5. TimeInv'
    BY <1>0, <1>5, <2>1 DEF SessionDown, TimeInv
  <2>. QED
    BY <2>4, <2>5
<1>6. CASE BackfillFills
  BY <1>6, BackfilledRows DEF BackfillFills, TimeInv
<1>7. CASE BackfillWrites \/ BackfillStops
  <2>1. [s \in Sessions |-> NoRow] \in [Sessions -> Row]
    BY DEF Row
  <2>. QED
    BY <1>7, <2>1 DEF BackfillWrites, BackfillStops, NoJob, TimeInv
<1>8. CASE UNCHANGED vars
  BY <1>8 DEF vars, TimeInv
<1>. QED
  BY <1>1, <1>2, <1>3, <1>4, <1>5, <1>6, <1>7, <1>8 DEF Next
\* The share of a day depends on the rows that touch it, and their times only.
LEMMA SameShare ==
    ASSUME NEW f, NEW g, NEW s, NEW d,
           Sharing(d, g)' = Sharing(d, f), s \in Sharing(d, f),
           \A r \in Sharing(d, f) : start'[r] = start[r] /\ end'[r] = end[r]
    PROVE  SessionShare(s, d, g)' = SessionShare(s, d, f)
<1>1. \A r \in Sharing(d, f) : Overlap(r, d)' = Overlap(r, d)
  BY DEF Overlap
<1>2. [r \in Sharing(d, f) |-> Overlap(r, d)'] = [r \in Sharing(d, f) |-> Overlap(r, d)]
  BY <1>1
<1>3. TimeShared(d, g)' = SumFunction([r \in Sharing(d, g)' |-> Overlap(r, d)'])
  BY DEF TimeShared
<1>4. TimeShared(d, g)' = TimeShared(d, f)
  BY <1>2, <1>3 DEF TimeShared
<1>. QED
  BY <1>1, <1>4 DEF SessionShare

\* What a row is charged does not shrink while the totals grow and nobody joins its days.
LEMMA PartsGrow ==
    ASSUME TypeOK, TimeInv, IInv, NEW f \in Books, NEW g, NEW s \in Rows(f),
           \A r \in Rows(f) : start'[r] = start[r] /\ end'[r] = end[r],
           \A d \in DaysOf(s) : Sharing(d, g)' = Sharing(d, f),
           \A d \in DaysOf(s) : bill'[d] \in Nat /\ bill[d] <= bill'[d]
    PROVE  Parts(s, f) \in Nat /\ Parts(s, g)' \in Int /\ Parts(s, f) <= Parts(s, g)'
<1>. DEFINE days == DaysOf(s)
            old == [d \in days |-> bill[d] * SessionShare(s, d, f)]
            new == [d \in days |-> bill'[d] * SessionShare(s, d, f)]
<1>1. Parts(s, f) \in Nat /\ Parts(s, f) = SumFunctionOnSet(old, days)
  BY CostType DEF Parts, SumFunction
<1>2. DaysOf(s)' = days /\ IsFiniteSet(days)
  BY DaysOfRow DEF DaysOf
<1>3. ASSUME NEW d \in days
      PROVE  SessionShare(s, d, g)' = SessionShare(s, d, f)
  <2>1. s \in Sharing(d, f) /\ Sharing(d, f) \subseteq Rows(f)
    BY CostType DEF Sharing
  <2>. QED
    BY <2>1, SameShare
<1>4. Parts(s, g)' = SumFunctionOnSet(new, days)
  <2>1. Parts(s, g)' = SumFunction([d \in DaysOf(s)' |-> bill'[d] * SessionShare(s, d, g)'])
    BY DEF Parts
  <2>2. [d \in days |-> bill'[d] * SessionShare(s, d, g)'] = new
    BY <1>3
  <2>. QED
    BY <1>2, <2>1, <2>2 DEF SumFunction
<1>5. ASSUME NEW d \in days PROVE old[d] \in Int /\ new[d] \in Int /\ old[d] <= new[d]
  <2>1. SessionShare(s, d, f) \in Nat /\ d \in Days
    BY CostType, DaysOfRow, ShareType, ElapsedDays
  <2>2. bill[d] \in Nat /\ bill'[d] \in Nat /\ bill[d] <= bill'[d]
    BY <2>1, CostsAssumption DEF TypeOK
  <2>3. \A a, b, k \in Nat : a <= b => a * k \in Int /\ b * k \in Int /\ a * k <= b * k
    OBVIOUS
  <2>. QED
    BY <2>1, <2>2, <2>3
<1>6. SumFunctionOnSet(new, days) \in Int
      /\ SumFunctionOnSet(old, days) <= SumFunctionOnSet(new, days)
  <2>. HIDE DEF old, new, days
  <2>. QED
    BY <1>2, <1>5, SumCompare, SumType
<1>. QED
  BY <1>1, <1>4, <1>6

\* A book stays fair when the rows that have their price keep it and their company.
LEMMA FairStep ==
    ASSUME TypeOK, TimeInv, IInv, NEW f \in Books, Fair(f), NEW g,
           \A s \in Priced(g) : s \in Priced(f) /\ g[s] = f[s],
           \A r \in Rows(f) : start'[r] = start[r] /\ end'[r] = end[r],
           \A s \in Priced(g) : \A d \in DaysOf(s) : Sharing(d, g)' = Sharing(d, f),
           \A d \in Days : bill'[d] \in Nat /\ bill[d] <= bill'[d]
    PROVE  Fair(g)'
<1>1. ASSUME NEW s \in Priced(g)
      PROVE  2 * CentParts * g[s].actual <= 2 * Parts(s, g)' + CentParts
  <2>1. s \in Priced(f) /\ s \in Rows(f) /\ g[s].actual = f[s].actual /\ f[s].actual \in Nat
    BY PricedType
  <2>2. \A d \in DaysOf(s) : bill'[d] \in Nat /\ bill[d] <= bill'[d]
    BY <2>1, DaysOfRow, ElapsedDays
  <2>3. Parts(s, f) \in Nat /\ Parts(s, g)' \in Int /\ Parts(s, f) <= Parts(s, g)'
    BY <2>1, <2>2, PartsGrow
  <2>4. 2 * CentParts * f[s].actual <= 2 * Parts(s, f) + CentParts
    BY <2>1 DEF Fair
  <2>5. CentParts \in Nat
    BY CentIsParts
  <2>. QED
    BY <2>1, <2>3, <2>4, <2>5
<1>2. Priced(g)' = Priced(g)
  BY DEF Priced, Rows
<1>. QED
  BY <1>1, <1>2 DEF Fair
\* The same rows with the same times share the same days.
LEMMA SameSharing ==
    ASSUME NEW f, NEW g, Rows(g) = Rows(f),
           \A r \in Rows(f) : start'[r] = start[r] /\ end'[r] = end[r], NEW d
    PROVE  Sharing(d, g)' = Sharing(d, f)
<1>1. \A r \in Rows(f) : DaysOf(r)' = DaysOf(r)
  BY DEF DaysOf
<1>2. Rows(g)' = Rows(f)
  BY DEF Rows
<1>3. Sharing(d, g)' = {r \in Rows(g)' : d \in DaysOf(r)'}
  BY DEF Sharing
<1>. QED
  BY <1>1, <1>2, <1>3 DEF Sharing

\* No step moves the times of a row, or lowers a total.
LEMMA TimesAreKept ==
    ASSUME TypeOK, TimeInv, IInv, [Next]_vars, NEW f \in Books
    PROVE  /\ \A r \in Rows(f) : start'[r] = start[r] /\ end'[r] = end[r]
           /\ \A d \in Days : bill'[d] \in Nat /\ bill[d] <= bill'[d]
<1>1. /\ \A r \in Rows(f) : r \in Sessions /\ phase[r] = "logged"
      /\ \A d \in Days : bill[d] \in Nat /\ bill[d] <= bill[d]
  BY RowsAreLogged, CostsAssumption DEF TypeOK
<1>2. ASSUME NEW s \in Sessions, SessionUp(s) \/ Reap(s) \/ SessionDown(s)
      PROVE  /\ bill' = bill
             /\ \A r \in Rows(f) : start'[r] = start[r] /\ end'[r] = end[r]
  <2>1. \A r \in Rows(f) : r # s
    BY <1>1, <1>2 DEF SessionUp, Reap, SessionDown
  <2>. QED
    BY <1>1, <1>2, <2>1 DEF SessionUp, Reap, SessionDown, TypeOK
<1>3. ASSUME NEW d \in Days, Bill(d)
      PROVE  /\ start' = start /\ end' = end
             /\ \A e \in Days : bill'[e] \in Nat /\ bill[e] <= bill'[e]
  <2>1. PICK b \in (bill[d] + 1)..MaxBill : bill' = [bill EXCEPT ![d] = b]
    BY <1>3 DEF Bill
  <2>2. b \in Nat /\ bill[d] <= b
    BY <1>1, <2>1, CostsAssumption
  <2>. QED
    BY <1>1, <1>3, <2>1, <2>2 DEF Bill, sessions, TypeOK
<1>4. CASE Tick \/ BackfillFills \/ BackfillWrites \/ BackfillStops \/ UNCHANGED vars
  BY <1>1, <1>4 DEF Tick, BackfillFills, BackfillWrites, BackfillStops, vars, sessions
<1>. QED
  BY <1>1, <1>2, <1>3, <1>4 DEF Next

\* A book that a step leaves as it is stays fair.
LEMMA KeptIsFair ==
    ASSUME TypeOK, TimeInv, IInv, [Next]_vars, NEW f \in Books, Fair(f)
    PROVE  Fair(f)'
BY TimesAreKept, SameSharing, FairStep

\* The row that is appended stays off the days of the rows that have their price, or the
\* step is recorded in late.
LEMMA AppendIsFair ==
    ASSUME TypeOK, TimeInv, IInv, Fair(csv), NEW s \in Sessions, SessionDown(s), ~late',
           NEW g, g = csv'
    PROVE  Fair(g)'
<1>1. csv \in Books /\ [Next]_vars
  BY DEF Books, Next
<1>2. /\ csv[s] = NoRow /\ g[s].status # "absent" /\ g[s].actual = None
      /\ \A r \in Sessions \ {s} : g[r] = csv[r]
  BY DEF SessionDown, IInv, FileInv, CopyInv
<1>3. Rows(g) = Rows(csv) \cup {s} /\ s \notin Rows(csv)
  BY <1>2 DEF Rows, NoRow
<1>4. \A r \in Priced(g) : r \in Priced(csv) /\ g[r] = csv[r]
  BY <1>2 DEF Priced, Rows
<1>5. start' = start /\ \A r \in Priced(csv) : \A d \in DaysOf(r) : d \notin DaysOf(s)'
  BY DEF SessionDown, DaysOf
<1>6. ASSUME NEW r \in Priced(g), NEW d \in DaysOf(r) PROVE Sharing(d, g)' = Sharing(d, csv)
  <2>1. d \notin DaysOf(s)'
    BY <1>4, <1>5
  <2>2. \A q \in Rows(csv) : DaysOf(q)' = DaysOf(q)
    BY <1>1, TimesAreKept DEF DaysOf
  <2>3. Sharing(d, g)' = {q \in Rows(g) : d \in DaysOf(q)'}
    BY DEF Sharing, Rows
  <2>. QED
    BY <1>3, <2>1, <2>2, <2>3 DEF Sharing
<1>7. /\ \A r \in Rows(csv) : start'[r] = start[r] /\ end'[r] = end[r]
      /\ \A d \in Days : bill'[d] \in Nat /\ bill[d] <= bill'[d]
  BY <1>1, TimesAreKept
<1>. QED
  BY <1>1, <1>4, <1>6, <1>7, FairStep

\* A run of cost-backfill charges the new rows their share, and leaves the others.
LEMMA FillIsFair ==
    ASSUME TypeOK, TimeInv, IInv, Fair(csv), BackfillFills, NEW g, g = Backfilled(csv)
    PROVE  Fair(g)'
<1>1. csv \in Books /\ [Next]_vars
  BY DEF Books, Next
<1>2. /\ \A r \in Rows(csv) : start'[r] = start[r] /\ end'[r] = end[r]
      /\ \A d \in Days : bill'[d] \in Nat /\ bill[d] <= bill'[d]
  BY <1>1, TimesAreKept
<1>3. Rows(g) = Rows(csv) /\ \A d : Sharing(d, g)' = Sharing(d, csv)
  BY <1>2, BackfilledRows, SameSharing
<1>4. ASSUME NEW s \in Priced(g)
      PROVE  2 * CentParts * g[s].actual <= 2 * Parts(s, g)' + CentParts
  <2>1. s \in Rows(csv) /\ s \in Rows(g)
    BY <1>3 DEF Priced
  <2>2. \A d \in DaysOf(s) : bill'[d] \in Nat /\ bill[d] <= bill'[d]
    BY <1>1, <1>2, <2>1, DaysOfRow, ElapsedDays
  <2>3. Parts(s, csv) \in Nat /\ Parts(s, g)' \in Int /\ Parts(s, csv) <= Parts(s, g)'
    BY <1>1, <1>2, <1>3, <2>1, <2>2, PartsGrow
  <2>4. g[s].actual \in Nat /\ 2 * CentParts * g[s].actual <= 2 * Parts(s, csv) + CentParts
    <3>1. CASE s \in Priced(csv) /\ g[s] = csv[s]
      BY <1>1, <3>1, PricedType DEF Fair
    <3>2. CASE g[s].actual = Cost(s, csv)
      BY <1>1, <2>1, <3>2, CostType
    <3>. QED
      BY <3>1, <3>2, BackfilledRows
  <2>5. CentParts \in Nat
    BY CentIsParts
  <2>. QED
    BY <2>3, <2>4, <2>5
<1>5. Priced(g)' = Priced(g)
  BY DEF Priced, Rows
<1>. QED
  BY <1>4, <1>5 DEF Fair
\* Every step leaves the books fair, or is recorded in late.
LEMMA FairInvStep ==
    ASSUME TypeOK, TimeInv, IInv, FairInv, [Next]_vars
    PROVE  FairInv'
<1>. SUFFICES ASSUME ~late', NEW g \in Books' PROVE Fair(g)'
  BY DEF FairInv
<1>1. ~late
  BY DEF Next, Tick, Bill, SessionUp, Reap, SessionDown, BackfillFills, BackfillWrites,
         BackfillStops, vars
<1>2. \A f \in Books : Fair(f) /\ Fair(f)'
  BY <1>1, KeptIsFair DEF FairInv
<1>3. csv \in Books /\ (job.at = "write" => job.rows \in Books)
  BY DEF Books
<1>4. ASSUME NEW s \in Sessions, SessionDown(s) PROVE Fair(g)'
  <2>1. g = csv' \/ (job.at = "write" /\ g = job.rows)
    BY <1>4 DEF SessionDown, Books
  <2>. QED
    BY <1>2, <1>3, <1>4, <2>1, AppendIsFair
<1>5. CASE BackfillFills
  <2>1. g = csv \/ g = Backfilled(csv)
    BY <1>5 DEF BackfillFills, Books
  <2>. QED
    BY <1>2, <1>3, <1>5, <2>1, FillIsFair
<1>6. CASE BackfillWrites \/ BackfillStops
  <2>1. g \in Books
    BY <1>6 DEF BackfillWrites, BackfillStops, NoJob, Books
  <2>. QED
    BY <1>2, <2>1
<1>7. CASE \/ Tick \/ (\E d \in Days : Bill(d))
           \/ (\E s \in Sessions : SessionUp(s) \/ Reap(s)) \/ UNCHANGED vars
  <2>1. g \in Books
    BY <1>7 DEF Tick, Bill, SessionUp, Reap, vars, Books
  <2>. QED
    BY <1>2, <2>1
<1>. QED
  BY <1>4, <1>5, <1>6, <1>7 DEF Next

\* All states satisfy the invariant.
LEMMA AlwaysBooksInv ==
    Spec => []BooksInv
<1>1. BooksInv /\ [Next]_vars => BooksInv'
  BY NextKeeps, TypeStep, FairInvStep DEF BooksInv
<1>. QED
  BY <1>1, InitBooksInv, PTL DEF Spec

-------------------------------------------------------------------------------

\* The variables keep their types; a price is a number of cents and never blank.
THEOREM CostsTypeCorrect == Spec => []TypeOK
<1>1. BooksInv => TypeOK
  BY DEF BooksInv
<1>. QED
  BY <1>1, AlwaysBooksInv, PTL

\* Until a row is appended late, the prices exceed Cost Explorer by no more than half a cent
\* for each priced row, for any number of rows: no lag or growth of the totals, no dropped
\* or re-run row adds to it.
THEOREM GapsAreRounding == Spec => []GapIsRounding
<1>1. BooksInv => GapIsRounding
  BY FairIsRounding DEF BooksInv, FairInv, Books, GapIsRounding
<1>. QED
  BY <1>1, AlwaysBooksInv, PTL

\* cost-report complains of cost attributed twice only after a row was appended late or
\* with more than two priced rows for each cent it tolerates: no lag or growth of the
\* totals and no dropped or re-run row makes the gap that large.
THEOREM AlarmsAreTrue == Spec => []NoFalseAlarm
<1>1. BooksInv => NoFalseAlarm
  <2>. SUFFICES ASSUME BooksInv, ~late, Cardinality(Priced(csv)) <= 2 * Tolerance
                PROVE  ~IsDoubleAttributed(Gap(csv))
    <3>1. BooksInv => Cardinality(Priced(csv)) \in Nat
      BY PricedType DEF BooksInv, Books
    <3>2. Tolerance \in Nat
      BY CostsAssumption
    <3>. QED
      BY <3>1, <3>2 DEF NoFalseAlarm, Outcome
  <2>. DEFINE n == Cardinality(Priced(csv))
  <2>1. 2 * Gap(csv) >= -(Cent * n)
    BY FairIsRounding DEF BooksInv, FairInv, Books
  <2>2. n \in Nat /\ Cent \in Nat /\ Tolerance \in Nat
    BY PricedType, CostsAssumption DEF BooksInv, Books
  <2>3. Gap(csv) \in Int
    BY GapType DEF BooksInv
  <2>. HIDE DEF n
  <2>4. Cent * n <= Cent * (2 * Tolerance)
    BY <2>2 DEF n
  <2>. QED
    BY <2>1, <2>2, <2>3, <2>4 DEF IsDoubleAttributed
<1>. QED
  BY <1>1, AlwaysBooksInv, PTL

\* The gap is the sum of the idle spend of the months.
THEOREM GapIsIdle == Spec => []GapIsSummedIdle
<1>1. BooksInv => GapIsSummedIdle
  BY GapByMonth DEF BooksInv
<1>. QED
  BY <1>1, AlwaysBooksInv, PTL

\* A run of cost-backfill cures the report's refusal of stale rows, at any time.
THEOREM RefusalsAreCured == Spec => []RefusalIsCurable
<1>1. BooksInv => RefusalIsCurable
  BY BackfilledRows DEF BooksInv, RefusalIsCurable
<1>. QED
  BY <1>1, AlwaysBooksInv, PTL
===============================================================================
