----------------------------- MODULE SampleTiers -----------------------------
(***************************************************************************)
(* The three tiers of one monitor sample stream of one asset: the detail   *)
(* rows the write buffer inserts, the hourly and daily rollups of          *)
(* sampleRollupService, the retention prune of monitoringService and the   *)
(* choice of the tier a chart reads (sampleQueryRouter).                   *)
(*                                                                         *)
(* The streams have a statement each with the same window, grouping and    *)
(* conflict rule; of the aggregates the count and the first and last       *)
(* sample are kept.  A sample is its timestamp, counted in half hours (the *)
(* period of the hourly job).  A statement is atomic, the jobs interleave  *)
(* with inserts, which come up to Late units after the timestamp, and a    *)
(* restart adds a tick at any time.  The lastSuccess stamp that feeds an   *)
(* alert, and ticks that fail, are left out.                               *)
(***************************************************************************)
EXTENDS Integers, FiniteSets, FiniteSetsExt

CONSTANTS
  HourLen,     \* units of an hour
  DayHours,    \* hours of a day, 24 in the code
  DailyAt,     \* when in the day the daily job runs
  Late,        \* how late a sample may be inserted
  Retentions,  \* settings: days kept per tier and class, 0 for ever
  Assets,      \* kinds of asset: its type, and is the vendor Fortinet?
  ChunkLen,    \* units of a hypertable chunk
  MaxTime,     \* bound on the clock
  MaxSamples   \* bound on the samples

Tiers == {"detail", "hourly", "daily"}
Classes == {"default", "switch", "accessPoint"}
Day == DayHours * HourLen

ASSUME UnitsAssumption ==
  /\ HourLen \in Nat \ {0} /\ DayHours \in Nat \ {0, 1} /\ ChunkLen \in Nat \ {0}
  /\ Late \in Nat /\ Late < 2 * HourLen
  /\ DailyAt \in (Late + 2)..(Day - 1)
ASSUME SettingsAssumption ==
  /\ Retentions \subseteq [Tiers -> [Classes -> Nat]]
  /\ Assets \subseteq [type: {"server", "switch", "access_point"}, fortinet: BOOLEAN]
ASSUME BoundsAssumption == MaxTime \in Nat /\ MaxSamples \in Nat

VARIABLES
  now,        \* the clock
  asset,      \* the asset's kind
  retention,  \* Setting("sampleRetention")
  timescale,  \* are the tables hypertables?
  detail,     \* timestamps in the detail table
  landed,     \* history: every timestamp ever inserted
  hourly,     \* the hourly table: a row or NoRow per hour
  daily,      \* the daily table
  ticked,     \* the hourly job has run at this time
  rolled      \* the daily job has run at this time

setup == <<asset, retention, timescale>>
vars == <<now, setup, detail, landed, hourly, daily, ticked, rolled>>

-----------------------------------------------------------------------------
Times == 0..MaxTime
HourOf(t) == t \div HourLen     \* date_trunc('hour', ..)
DayOf(b) == b \div DayHours     \* date_trunc('day', ..) of an hour's start
Hours == 0..HourOf(MaxTime)
Days == 0..DayOf(HourOf(MaxTime))
Start(b) == b * HourLen

NoRow == [n |-> 0, first |-> -1, last |-> -1]
Buckets == [n: 1..MaxSamples, first: Times, last: Times] \cup {NoRow}

TypeOK ==
  /\ now \in Times
  /\ asset \in Assets /\ retention \in Retentions /\ timescale \in BOOLEAN
  /\ detail \subseteq Times /\ landed \subseteq Times
  /\ hourly \in [Hours -> Buckets] /\ daily \in [Days -> Buckets]
  /\ ticked \in BOOLEAN /\ rolled \in BOOLEAN

Init ==
  /\ now = 0
  /\ asset \in Assets /\ retention \in Retentions /\ timescale \in BOOLEAN
  /\ detail = {} /\ landed = {}
  /\ hourly = [b \in Hours |-> NoRow]
  /\ daily = [d \in Days |-> NoRow]
  /\ ticked = FALSE /\ rolled = FALSE

-----------------------------------------------------------------------------
\* A flush of the write buffer inserts a sample.
Insert(t) ==
  /\ t \in (now - Late)..now /\ t >= 0
  /\ t \notin landed /\ Cardinality(landed) < MaxSamples
  /\ detail' = detail \cup {t}
  /\ landed' = landed \cup {t}
  /\ UNCHANGED <<now, setup, hourly, daily, ticked, rolled>>

\* The clock goes on when the jobs that are due have run.
Advance ==
  /\ now < MaxTime
  /\ ticked
  /\ now % Day = DailyAt => rolled
  /\ now' = now + 1
  /\ ticked' = FALSE /\ rolled' = FALSE
  /\ UNCHANGED <<setup, detail, landed, hourly, daily>>

-----------------------------------------------------------------------------
(* The rollups.                                                            *)

\* rollupHourly looks back two hours; the mutant half an hour.
Mut_HourlySince == now - HourLen \div 2
HourlySince == now - 2 * HourLen
DailySince == now - 2 * Day

\* ON CONFLICT DO UPDATE: a row that exists is replaced.  The mutant adds.
Mut_Upsert(old, new) == [new EXCEPT !.n = @ + old.n]
Upsert(old, new) == new

rollupHourly ==
  LET of(b) == {t \in detail : t >= HourlySince /\ HourOf(t) = b}
      row(S) == [n |-> Cardinality(S), first |-> Min(S), last |-> Max(S)]
  IN
  /\ hourly' = [b \in Hours |-> IF of(b) = {} THEN hourly[b]
                                ELSE Upsert(hourly[b], row(of(b)))]
  /\ ticked' = TRUE
  /\ UNCHANGED <<now, setup, detail, landed, daily, rolled>>

\* SUM("sampleCount").
Total(H) == MapThenSumSet(LAMBDA b : hourly[b].n, H)

\* Reads the hourly table.
rollupDaily ==
  LET of(d) == {b \in Hours : hourly[b] # NoRow /\ Start(b) >= DailySince /\ DayOf(b) = d}
      row(H) == [n |-> Total(H),
                 first |-> hourly[Min(H)].first, last |-> hourly[Max(H)].last]
  IN
  /\ daily' = [d \in Days |-> IF of(d) = {} THEN daily[d] ELSE Upsert(daily[d], row(of(d)))]
  /\ rolled' = TRUE
  /\ UNCHANGED <<now, setup, detail, landed, hourly, ticked>>

-----------------------------------------------------------------------------
(* Retention.                                                              *)

\* The mutant drops the chunks beyond the shortest retention.
Mut_Longest(tier) == Min({retention[tier][c] : c \in Classes})
Longest(tier) == Max({retention[tier][c] : c \in Classes})

\* The class whose retention deletes the asset's rows: switches and access
\* points only when their vendor is Fortinet.
PruneClass == IF ~asset.fortinet \/ asset.type = "server" THEN "default"
              ELSE IF asset.type = "switch" THEN "switch" ELSE "accessPoint"

\* pruneOneTable: on a hypertable the chunks that lie beyond the longest
\* retention of all classes are dropped, then the rows beyond the retention
\* of the class are deleted.
Keeps(tier, t) ==
  LET days == retention[tier][PruneClass]
      chunkEnd == (t \div ChunkLen + 1) * ChunkLen
  IN /\ (timescale /\ Longest(tier) > 0) => chunkEnd > now - Longest(tier) * Day
     /\ days > 0 => t >= now - days * Day

Prune ==
  /\ detail' = {t \in detail : Keeps("detail", t)}
  /\ hourly' = [b \in Hours |-> IF Keeps("hourly", Start(b)) THEN hourly[b] ELSE NoRow]
  /\ daily' = [d \in Days |-> IF Keeps("daily", d * Day) THEN daily[d] ELSE NoRow]
  /\ UNCHANGED <<now, setup, landed, ticked, rolled>>

\* pickClassForAssetType and pickSampleTier, for a chart whose oldest point
\* is since.
ChartClass == CASE asset.type = "switch" -> "switch"
                [] asset.type = "access_point" -> "accessPoint"
                [] OTHER -> "default"

pickSampleTier(since) ==
  CASE since >= now - retention["detail"][ChartClass] * Day -> "detail"
    [] since < now - retention["detail"][ChartClass] * Day
       /\ since >= now - retention["hourly"][ChartClass] * Day -> "hourly"
    [] OTHER -> "daily"

-----------------------------------------------------------------------------
Next ==
  \/ \E t \in Times : Insert(t)
  \/ Advance
  \/ rollupHourly \/ rollupDaily
  \/ Prune

Spec == Init /\ [][Next]_vars

-----------------------------------------------------------------------------
(* Properties.                                                             *)

LandedIn(b) == {t \in landed : HourOf(t) = b}
LandedOn(d) == {t \in landed : DayOf(HourOf(t)) = d}

\* Every sample of the hour has been inserted and an hourly job has run since.
Closed(b) == now > Start(b + 1) + Late \/ (now = Start(b + 1) + Late /\ ticked)

\* The daily job has run since the day was closed.
DayClosed(d) == now > (d + 1) * Day + DailyAt

\* "Idempotent": however often the jobs run over the same samples, no rollup
\* counts a sample twice or one that never existed.
NoDoubleCount ==
  /\ \A b \in Hours : hourly[b].n <= Cardinality(LandedIn(b))
  /\ \A d \in Days : daily[d].n <= Cardinality(LandedOn(d))

\* The hourly rows of a day outlive the daily job that reads them, DailyAt
\* after the day's end: they do not when they are kept for one day.
FeedsDaily ==
  LET kept(days) == days = 0 \/ days * Day >= Day + DailyAt
  IN kept(retention["hourly"][PruneClass]) /\ (timescale => kept(Longest("hourly")))

\* "late-arriving samples still land in the right bucket": the last value of
\* a closed hour or day is that of its last sample, however late that came and
\* however often the row was rewritten or its sources pruned in between.
ClosingExact ==
  /\ \A b \in Hours : Closed(b) /\ hourly[b] # NoRow => hourly[b].last = Max(LandedIn(b))
  /\ FeedsDaily => \A d \in Days : DayClosed(d) /\ daily[d] # NoRow
                                     => daily[d].last = Max(LandedOn(d))

\* The settings under which the charts are complete: prune and chart agree on
\* the asset's class, no class is kept for ever beside one that is not on a
\* hypertable (drop_chunks goes by the longest), and FeedsDaily.
Honoured(tier) ==
  /\ PruneClass = ChartClass
  /\ timescale /\ retention[tier][ChartClass] = 0 => Longest(tier) = 0
  /\ tier = "daily" => FeedsDaily

\* "the oldest point is the binding constraint": the tier picked for a chart
\* still has everything the range asks for, so far as some tier is retained
\* that long: the samples, or a row for every closed hour or day with samples.
\* Outside Honoured the code does not keep this (the README lists the cases).
ChartComplete ==
  \A since \in 0..now :
    LET tier == pickSampleTier(since)
        days == retention["daily"][ChartClass]
    IN (Honoured(tier) /\ (days > 0 => since >= now - days * Day)) =>
         CASE tier = "detail" -> {t \in landed : t >= since} \subseteq detail
           [] tier = "hourly" -> \A b \in Hours : Start(b) >= since /\ Closed(b)
                                    /\ LandedIn(b) # {} => hourly[b] # NoRow
           [] OTHER -> \A d \in Days : d * Day >= since /\ DayClosed(d)
                                    /\ LandedOn(d) # {} => daily[d] # NoRow

\* "Idempotent - re-running with the same lookback window UPDATEs the existing
\* buckets in place": a closed hour counts all its samples.
BucketComplete ==
  \A b \in Hours : Closed(b) /\ hourly[b] # NoRow => hourly[b].n = Cardinality(LandedIn(b))

-----------------------------------------------------------------------------
(* The inductive invariant of the proofs.                                  *)

Typed ==
  /\ now \in Times
  /\ asset \in Assets /\ retention \in Retentions /\ timescale \in BOOLEAN
  /\ detail \subseteq landed /\ landed \subseteq 0..now
  /\ hourly = [b \in Hours |-> hourly[b]] /\ daily = [d \in Days |-> daily[d]]
  /\ ticked \in BOOLEAN /\ rolled \in BOOLEAN

\* An hourly job has run since the last moment at which t could be inserted;
\* the same of the daily job, DailyAt after the end of the day.
Due(t) == now > t + Late + 1 \/ (now = t + Late + 1 /\ ticked)
DayDue(d) == DayClosed(d) \/ (now = (d + 1) * Day + DailyAt /\ rolled)

\* Only the retention takes samples out of the detail table.
DetailKept == \A t \in landed : Keeps("detail", t) => t \in detail

\* The last sample of a row was inserted, in the hour or on the day, and the
\* row counts no more than were.
HourlyReal ==
  \A b \in Hours : hourly[b] # NoRow =>
    hourly[b].last \in LandedIn(b) /\ hourly[b].n \in 1..Cardinality(LandedIn(b))
DailyReal ==
  \A d \in Days : daily[d] # NoRow =>
    daily[d].last \in LandedOn(d) /\ daily[d].n \in 0..Cardinality(LandedOn(d))

\* The hour of a due sample has a row that knows of it, unless the retention
\* took it, and with it the row of every earlier hour.
HourlyCurrent ==
  \A t \in landed : Due(t) =>
    LET b == HourOf(t)
    IN \/ hourly[b] # NoRow /\ hourly[b].last >= t
       \/ /\ hourly[b] = NoRow /\ ~Keeps("hourly", Start(b))
          /\ \A c \in Hours : c < b => hourly[c] = NoRow

\* The same of its day, when the hourly rows live until the daily job.
DailyCurrent ==
  FeedsDaily => \A t \in landed : LET d == DayOf(HourOf(t)) IN DayDue(d) =>
    \/ daily[d] # NoRow /\ daily[d].last >= t
    \/ daily[d] = NoRow /\ ~Keeps("daily", d * Day)

IInv ==
  /\ Typed /\ DetailKept
  /\ HourlyReal /\ HourlyCurrent
  /\ DailyReal /\ DailyCurrent

=============================================================================
