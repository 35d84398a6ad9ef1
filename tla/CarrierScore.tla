---------------------------- MODULE CarrierScore ----------------------------
(***************************************************************************)
(* Carrier Score: aerogram.intelligence (score.py, platform.py, service.py,*)
(* repository.py) and the nightly task that computes it (worker/tasks.py). *)
(*                                                                         *)
(* The night first reads every tenant's observations, each in a            *)
(* transaction of its own, keeps them in memory and writes one base per    *)
(* carrier; then it scores every active tenant against the newest base. A  *)
(* tenant that cannot be read or scored is skipped, and the worker may die *)
(* anywhere. Shares are counted in ten-thousandths (Numeric(5, 4)), with   *)
(* the rounding of Decimal.                                                *)
(***************************************************************************)
EXTENDS Integers, FiniteSets, FiniteSetsExt, Functions

CONSTANTS Clients,       \* the tenants of the platform
          Carriers,
          Outcomes,      \* what may become of a shipment: status, met, incident, events, cost
          Weights,       \* per component, in hundredths
          PriorWeight, MinSample, MinEvents,
          MinTenants,    \* MIN_PLATFORM_TENANTS and the CHECK of the table
          MinPlatform,   \* MIN_PLATFORM_SAMPLE and the CHECK of the table
          Confident,     \* the thresholds of "medium" and "high"
          Period,        \* SCORE_PERIOD_DAYS
          MaxDay, MaxFinished,   \* bounds
          Unknown

Names == {"on_time", "reliability", "incident_free", "price_index", "data_quality"}
Days == 0 .. MaxDay
Shares == [on_time : Int, reliability : Int, incident_free : Int, price_index : Int, data_quality : Int]
ASSUME ScoreAssumption ==
    /\ IsFiniteSet(Clients) /\ IsFiniteSet(Carriers)
    /\ Weights \in [Names -> Nat] /\ PriorWeight \in Nat \ {0}
    /\ {MinSample, MinTenants, MinPlatform, Period, MaxDay, MaxFinished} \subseteq Nat
    /\ \A o \in Outcomes : o.cost \in Nat \cup {Unknown}
    /\ Unknown \notin Int \cup BOOLEAN \cup [tenants : Nat, sample : Nat, prior : Shares]

VARIABLES today,
          finished,   \* shipments: tenant, carrier, the day they were made, outcome
          active,     \* tenants that are not suspended
          baseline,   \* carrier_platform_baselines by carrier and period_end
          snapshot,   \* carrier_score_snapshots by tenant, carrier and period_end
          night       \* the running task: phase, its day, whom it still has to do, what it read
scoreVars == <<today, finished, active, baseline, snapshot, night>>

Asleep == [phase |-> "idle", end |-> 0, todo |-> {}, read |-> <<>>]
ScoreInit == /\ today = 0 /\ finished = {} /\ active = Clients
        /\ baseline = [k \in Carriers \X Days |-> Unknown]
        /\ snapshot = [k \in Clients \X Carriers \X Days |-> Unknown]
        /\ night = Asleep
-----------------------------------------------------------------------------
(* Decimal: ROUND_HALF_EVEN of quantize, ROUND_HALF_UP of the points.      *)
HalfEven(a, b) ==
    LET q == a \div b  r == 2 * (a % b)
    IN  IF r > b \/ (r = b /\ q % 2 = 1) THEN q + 1 ELSE q
HalfUp(a, b) == (2 * a + b) \div (2 * b)
One == 10000
Half == 5000

(* _rate: nothing to divide by means "not observed", which is not zero.    *)
Rate(part, whole) == IF whole <= 0 THEN Unknown ELSE HalfEven(One * part, whole)
Inverted(part, whole) == IF whole <= 0 THEN Unknown ELSE One - Rate(part, whole)

(* percentile_cont(0.5) of a column, cut to an int; the market's median is  *)
(* the upper one.                                                          *)
Kth(k, value) ==
    CHOOSE v \in {value[i] : i \in DOMAIN value} :
        /\ Cardinality({i \in DOMAIN value : value[i] < v}) < k
        /\ Cardinality({i \in DOMAIN value : value[i] <= v}) >= k
MedianCost(value) ==
    LET n == Cardinality(DOMAIN value)
    IN  IF n = 0 THEN Unknown ELSE (Kth((n + 1) \div 2, value) + Kth(n \div 2 + 1, value)) \div 2
MarketMedian(observed) ==
    LET priced == {c \in DOMAIN observed : observed[c].median # Unknown}
    IN  IF priced = {} THEN Unknown
        ELSE Kth(Cardinality(priced) \div 2 + 1, [c \in priced |-> observed[c].median])

(* Half a scale at the median, one at no price, zero at twice the median.  *)
PriceIndex(median, market) ==
    IF median = Unknown \/ market \in {Unknown, 0} THEN Unknown
    ELSE HalfEven(One * Min({Max({2 * market - median, 0}), 2 * market}), 2 * market)

(* What one tenant (the RLS of its transaction) observed of its finished   *)
(* shipments made in the period; a carrier without any has no row.         *)
Observed(own) ==
    LET priced == {s \in own : s.outcome.cost # Unknown}
    IN  [finalized     |-> Cardinality(own),
         with_deadline |-> Cardinality({s \in own : s.outcome.met # Unknown}),
         on_time       |-> Cardinality({s \in own : s.outcome.met = TRUE}),
         broken        |-> Cardinality({s \in own : \/ s.outcome.status \in {"cancelled", "returned"}
                                                   \/ s.outcome.incident}),
         with_incident |-> Cardinality({s \in own : s.outcome.incident}),
         transparent   |-> Cardinality({s \in own : /\ s.outcome.status = "delivered"
                                                   /\ s.outcome.events >= MinEvents}),
         median        |-> MedianCost([s \in priced |-> s.outcome.cost])]
Made(t, c, end) ==
    {s \in finished : s.tenant = t /\ s.carrier = c /\ s.made \in end - Period .. end}
Observations(t, end) ==
    [c \in {x \in Carriers : Made(t, x, end) # {}} |-> Observed(Made(t, c, end))]
Empty == [finalized |-> 0, with_deadline |-> 0, on_time |-> 0, broken |-> 0,
          with_incident |-> 0, transparent |-> 0, median |-> Unknown]

Components(o, market) ==
    [on_time |-> Rate(o.on_time, o.with_deadline),
     reliability |-> Inverted(o.broken, o.finalized),
     incident_free |-> Inverted(o.with_incident, o.finalized),
     price_index |-> PriceIndex(o.median, market),
     data_quality |-> Rate(o.transparent, o.finalized)]
-----------------------------------------------------------------------------
(* Counters are added, never shares; a tenant counts where it has shipped. *)
SumOf(f) == FoldFunction(+, 0, f)
TotalsOf(read, c, tenants) ==
    LET rows == {t \in DOMAIN read : c \in DOMAIN read[t]}
        Sum(field) == SumOf([t \in rows |-> read[t][c][field]])
    IN  [tenants |-> Cardinality(tenants), finalized |-> Sum("finalized"),
         with_deadline |-> Sum("with_deadline"), on_time |-> Sum("on_time"),
         broken |-> Sum("broken"), with_incident |-> Sum("with_incident"),
         transparent |-> Sum("transparent")]

\* Mutant of Accumulate: the tenants that were read count, shipped or not.
AccumulateReaders(read, c) == TotalsOf(read, c, DOMAIN read)

\* accumulate.
Accumulate(read, c) == TotalsOf(read, c, {t \in DOMAIN read : c \in DOMAIN read[t]})

IsPublishable(totals) == totals.tenants >= MinTenants /\ totals.finalized >= MinPlatform

\* Mutant of OrDefault: "measured or default", where a measured zero is false.
OrDefaultFalsy(measured, default) == IF measured \in {Unknown, 0} THEN default ELSE measured

\* _or_default.
OrDefault(measured, default) == IF measured = Unknown THEN default ELSE measured

PlatformPrior == [n \in Names |-> Half]
PriorFromTotals(totals) ==
    [on_time |-> OrDefault(Rate(totals.on_time, totals.with_deadline), Half),
     reliability |-> OrDefault(Inverted(totals.broken, totals.finalized), Half),
     incident_free |-> OrDefault(Inverted(totals.with_incident, totals.finalized), Half),
     price_index |-> Half,
     data_quality |-> OrDefault(Rate(totals.transparent, totals.finalized), Half)]
Baseline(totals) ==
    [tenants |-> totals.tenants, sample |-> totals.finalized, prior |-> PriorFromTotals(totals)]

(* The CHECK constraints of carrier_platform_baselines.                    *)
ChecksHold(row) == row.tenants >= MinTenants /\ row.sample >= MinPlatform

(* The newest base of a carrier, however old.                              *)
Newest(rows, ends) == IF ends = {} THEN Unknown ELSE rows[Max(ends)]
LatestBaseline(c) ==
    Newest([d \in Days |-> baseline[<<c, d>>]], {d \in Days : baseline[<<c, d>>] # Unknown})
PriorOf(base) == IF base = Unknown THEN Unknown ELSE base.prior

(* x * n and p * m over n + m, as the numerator of the sum.                *)
Smoothed(x, p, n) == IF x = Unknown \/ n <= 0 THEN p * (n + PriorWeight) ELSE x * n + p * PriorWeight

ConfidenceFor(n, based) ==
    IF n >= Confident.high THEN "high"
    ELSE IF n >= Confident.medium THEN "medium"
    ELSE IF n >= MinSample \/ based THEN "low" ELSE "insufficient"
BasisFor(n, based) ==
    IF based THEN IF n >= MinSample THEN "mixed" ELSE "platform"
    ELSE IF n >= MinSample THEN "own" ELSE "none"

BaseOf(prior) == IF prior = Unknown THEN PlatformPrior ELSE prior
ScoreFrom(components, n, prior) ==
    LET based == prior # Unknown
        total == SumOf([c \in Names |-> Weights[c] * Smoothed(components[c], BaseOf(prior)[c], n)])
        points == HalfUp(total, One * (n + PriorWeight))
    IN  IF BasisFor(n, based) = "none"
        THEN [score |-> Unknown, confidence |-> "insufficient", basis |-> "none"]
        ELSE [score |-> Min({Max({points, 0}), 100}),
              confidence |-> ConfidenceFor(n, based), basis |-> BasisFor(n, based)]

Snapshot(o, market, base) ==
    LET own == ScoreFrom(Components(o, market), o.finalized, PriorOf(base))
    IN  [score |-> own.score, confidence |-> own.confidence, basis |-> own.basis, sample |-> o.finalized,
         platform |-> IF base = Unknown THEN Unknown ELSE base.sample]

(* recalculate: a row for every carrier that was used or has a base.       *)
Recalculated(t, end) ==
    LET observed == Observations(t, end)
        market == MarketMedian(observed)
        rows == {c \in Carriers : c \in DOMAIN observed \/ LatestBaseline(c) # Unknown}
    IN  [k \in DOMAIN snapshot |->
            IF k[1] = t /\ k[3] = end /\ k[2] \in rows
            THEN Snapshot(IF k[2] \in DOMAIN observed THEN observed[k[2]] ELSE Empty,
                          market, LatestBaseline(k[2]))
            ELSE snapshot[k]]

(* analytics and the rating: the newest snapshot, however old. Only the    *)
(* widest step of the cascade is ever written.                             *)
Best(t, c) ==
    Newest([d \in Days |-> snapshot[<<t, c, d>>]], {d \in Days : snapshot[<<t, c, d>>] # Unknown})
Analytics(t) ==
    [c \in Carriers |-> IF Best(t, c) = Unknown
        THEN [score |-> Unknown, confidence |-> "insufficient", basis |-> "none"]
        ELSE [score |-> Best(t, c).score, confidence |-> Best(t, c).confidence, basis |-> Best(t, c).basis]]
-----------------------------------------------------------------------------
(* A shipment made today or earlier ends; alike ones are told apart by n. *)
Finish(t, c) ==
    /\ Cardinality(finished) < MaxFinished
    /\ \E d \in 0 .. today, o \in Outcomes :
         LET alike == {s \in finished : s.tenant = t /\ s.carrier = c /\ s.made = d /\ s.outcome = o}
         IN  finished' = finished \cup {[tenant |-> t, carrier |-> c, made |-> d, outcome |-> o,
                                        n |-> Cardinality(alike)]}
    /\ UNCHANGED <<today, active, baseline, snapshot, night>>

Suspend(t) == /\ active' = active \ {t} /\ t \in active
              /\ UNCHANGED <<today, finished, baseline, snapshot, night>>
NextDay == today < MaxDay /\ today' = today + 1 /\ UNCHANGED <<finished, active, baseline, snapshot, night>>

(* recalculate_carrier_score: every tenant gives to the base, suspended or not. *)
StartNight ==
    /\ night.phase = "idle"
    /\ night' = [phase |-> "reading", end |-> today, todo |-> Clients, read |-> <<>>]
    /\ UNCHANGED <<today, finished, active, baseline, snapshot>>

Heard(t, read, seen) == [u \in DOMAIN read \cup {t} |-> IF u = t THEN seen ELSE read[u]]
Read(t) ==
    /\ night.phase = "reading" /\ t \in night.todo
    /\ \E ok \in BOOLEAN :
         night' = [night EXCEPT !.todo = @ \ {t},
                     !.read = IF ok THEN Heard(t, @, Observations(t, night.end)) ELSE @]
    /\ UNCHANGED <<today, finished, active, baseline, snapshot>>

(* save_baselines: one transaction. If it fails, the tenants are scored    *)
(* against the bases that are there.                                       *)
SaveBaselines ==
    /\ night.phase = "reading" /\ night.todo = {}
    /\ night' = [Asleep EXCEPT !.phase = IF active = {} THEN "idle" ELSE "scoring", !.todo = active]
    /\ LET total == [c \in Carriers |-> Accumulate(night.read, c)]
           saved == {c \in Carriers : IsPublishable(total[c])}
       IN  \/ UNCHANGED baseline
           \/ /\ \A c \in saved : ChecksHold(Baseline(total[c]))
              /\ baseline' = [k \in DOMAIN baseline |->
                    IF k[1] \in saved /\ k[2] = night.end THEN Baseline(total[k[1]]) ELSE baseline[k]]
    /\ UNCHANGED <<today, finished, active, snapshot>>

ScoreTenant(t) ==
    /\ night.phase = "scoring" /\ t \in night.todo
    /\ night' = IF night.todo = {t} THEN Asleep ELSE [night EXCEPT !.todo = @ \ {t}]
    /\ snapshot' \in {snapshot, Recalculated(t, today)}
    /\ UNCHANGED <<today, finished, active, baseline>>

Crash == night # Asleep /\ night' = Asleep /\ UNCHANGED <<today, finished, active, baseline, snapshot>>

ScoreNext == \/ \E t \in Clients : \/ \E c \in Carriers : Finish(t, c)
                              \/ Suspend(t) \/ Read(t) \/ ScoreTenant(t)
        \/ StartNight \/ SaveBaselines \/ NextDay \/ Crash
ScoreSpec == ScoreInit /\ [][ScoreNext]_scoreVars
-----------------------------------------------------------------------------
(* One more delivery, in time and with all its events.                     *)
AndGood(o) == [o EXCEPT !.finalized = @ + 1, !.with_deadline = @ + 1,
                        !.on_time = @ + 1, !.transparent = @ + 1]

(* A good delivery never lowers a share, whatever the rounding and the      *)
(* value for what has not been observed do with it: no share of the         *)
(* platform's base and none of a client's own (platform.py: a measured zero *)
(* stays zero). Nor does it cost the carrier points of the client's score,  *)
(* with a base or without, as long as nothing that was measured is below    *)
(* its base: what is below counts for more with every shipment, so the      *)
(* price of a dear carrier may. Asked between two nights: a night may die   *)
(* in any state of it.                                                      *)
NeverLower(after, before) == before # Unknown => after # Unknown /\ after >= before
NothingBelow(shares, base) == \A n \in Names : shares[n] # Unknown => shares[n] >= base[n]
GoodDeliveryNeverLowers ==
    night = Asleep => \A c \in Carriers :
      LET read == [t \in Clients |-> Observations(t, today)]
          total == Accumulate(read, c)
      IN  /\ total.finalized > 0 =>
               \A n \in Names : PriorFromTotals(AndGood(total))[n] >= PriorFromTotals(total)[n]
          /\ \A t \in Clients : c \in DOMAIN read[t] =>
               LET o == read[t][c]
                   shares == Components(o, MarketMedian(read[t]))
                   better == Components(AndGood(o), MarketMedian(read[t]))
               IN  /\ \A n \in Names : NeverLower(better[n], shares[n])
                   /\ \A prior \in {Unknown, PriorOf(LatestBaseline(c))} :
                        NothingBelow(shares, BaseOf(prior)) =>
                          NeverLower(ScoreFrom(better, o.finalized + 1, prior).score,
                                     ScoreFrom(shares, o.finalized, prior).score)

(* No base speaks of fewer than MinTenants clients: that many have shipped *)
(* with the carrier in its period, whatever tenants failed to be read, and *)
(* no snapshot stands on a base that was never published. A client is      *)
(* shown a number exactly where there is something to be confident in.     *)
BaselineIsAnonymous ==
    /\ \A k \in DOMAIN baseline : baseline[k] # Unknown =>
         LET shippers == {t \in Clients : k[1] \in DOMAIN Observations(t, k[2])}
         IN  /\ Cardinality(shippers) >= MinTenants
             /\ SumOf([t \in shippers |-> Observations(t, k[2])[k[1]].finalized]) >= baseline[k].sample
    /\ \A k \in DOMAIN snapshot :
         snapshot[k] # Unknown /\ snapshot[k].basis \in {"platform", "mixed"} =>
             \E d \in Days : baseline[<<k[2], d>>] # Unknown
    /\ \A t \in Clients, c \in Carriers :
         LET shown == Analytics(t)[c]
         IN  (shown.score = Unknown) = (shown.confidence = "insufficient")
=============================================================================
