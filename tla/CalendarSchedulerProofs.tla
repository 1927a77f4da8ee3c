------------------------ MODULE CalendarSchedulerProofs -------------------------
(***************************************************************************)
(* Theorems about CalendarScheduler for every value of its constants: any  *)
(* rules, calendars and zones, any wall clock.  The types hold wherever    *)
(* rules are added, the rest where they are added on the thread that       *)
(* processes the tasks.                                                    *)
(***************************************************************************)
EXTENDS CalendarScheduler, ProofLemmas, FiniteSetTheorems

--------------------------------------------------------------------------------
(* Zones, and the scan over local days: it returns an instant after its    *)
(* bound.                                                                  *)

\* Every set of integers that is not empty and has a lower bound has a least
\* element, which Min() picks.
LEMMA LeastInteger ==
    ASSUME NEW S \in SUBSET Int, S # {}, NEW b \in Int, \A x \in S : b <= x
    PROVE  Min(S) \in S /\ \A y \in S : Min(S) <= y
<1> DEFINE T == {n \in Nat : b + n \in S}
<1>1. T # {}
  <2>1. PICK x \in S : TRUE
    OBVIOUS
  <2>2. x - b \in Nat /\ b + (x - b) = x
    BY <2>1
  <2> QED  BY <2>1, <2>2
<1>2. PICK n \in T : \A m \in T : n <= m
  BY <1>1, LeastNatural
<1>3. b + n \in S /\ \A y \in S : b + n <= y
  <2>1. ASSUME NEW y \in S PROVE b + n <= y
    <3>1. y - b \in Nat /\ b + (y - b) = y
      BY <2>1
    <3>2. y - b \in T
      BY <2>1, <3>1
    <3> QED  BY <1>2, <2>1, <3>2
  <2> QED  BY <2>1
<1> QED
  BY <1>3 DEF Min

\* What a zone is.
Zone == [change : Int, before : Int, after : Int]

\* Its clocks show this local time for the first time.
Fresh(zone, utc) ==
    \A u \in Int : utc_to_local(zone, u) = utc_to_local(zone, utc) => utc <= u

\* The two offsets of a zone.
LEMMA LocalTime ==
    ASSUME NEW zone \in Zone, NEW u \in Int
    PROVE  /\ utc_to_local(zone, u) \in Int
           /\ u < zone.change => utc_to_local(zone, u) = u + zone.before
           /\ u >= zone.change => utc_to_local(zone, u) = u + zone.after
BY DEF utc_to_local, Offset, Zone

\* Showing() finds all instants at which a local time is shown, and
\* local_to_utc() the first of them.
LEMMA ShownAt ==
    ASSUME NEW zone \in Zone, NEW x \in Int
    PROVE  /\ Showing(zone, x) = {u \in Int : utc_to_local(zone, u) = x}
           /\ Showing(zone, x) = {} => local_to_utc(zone, x) = Never
           /\ Showing(zone, x) # {} =>
                 /\ local_to_utc(zone, x) \in Int
                 /\ utc_to_local(zone, local_to_utc(zone, x)) = x
                 /\ Fresh(zone, local_to_utc(zone, x))
<1> DEFINE S == Showing(zone, x)
<1>1. /\ zone.before \in Int /\ zone.after \in Int /\ zone.change \in Int
      /\ x - zone.before \in Int /\ x - zone.after \in Int
  BY DEF Zone
<1>2. S = {u \in Int : utc_to_local(zone, u) = x}
  <2>1. ASSUME NEW u \in Int, utc_to_local(zone, u) = x
        PROVE  u \in {x - zone.before, x - zone.after}
    BY <1>1, <2>1, LocalTime
  <2> QED  BY <1>1, <2>1 DEF Showing
<1>3. CASE S = {}
  BY <1>2, <1>3 DEF local_to_utc
<1>4. CASE S # {}
  <2>1. S \subseteq {x - zone.before, x - zone.after}
    BY DEF Showing
  <2>2. PICK b \in Int : b <= x - zone.before /\ b <= x - zone.after
    <3>1. CASE zone.before <= zone.after
      BY <1>1, <3>1
    <3>2. CASE zone.after <= zone.before
      BY <1>1, <3>2
    <3> QED  BY <1>1, <3>1, <3>2
  <2>3. \A u \in S : b <= u
    BY <2>1, <2>2
  <2>4. S \in SUBSET Int
    BY <1>2
  <2>5. local_to_utc(zone, x) = Min(S)
    BY <1>4 DEF local_to_utc
  <2> HIDE DEF S
  <2>6. Min(S) \in S /\ \A u \in S : Min(S) <= u
    BY <1>4, <2>2, <2>3, <2>4, LeastInteger
  <2>7. Fresh(zone, Min(S))
    BY <1>2, <2>6 DEF Fresh
  <2> QED  BY <1>2, <1>4, <2>5, <2>6, <2>7 DEF S
<1> QED
  BY <1>2, <1>3, <1>4

\* local_to_utc() yields an integer.
LEMMA UtcIsInteger ==
    ASSUME NEW zone \in Zone, NEW local \in Int
    PROVE  local_to_utc(zone, local) \in Int
BY ShownAt DEF Never

\* scan_local_days() returns nothing, or an instant after its bound.
LEMMA ScanMovesOn ==
    ASSUME NEW a \in Additions, a.provider # Custom, NEW after \in Nat
    PROVE  \/ scan_local_days(a.provider, a.zone, after) = Never
           \/ /\ scan_local_days(a.provider, a.zone, after) \in Nat
              /\ scan_local_days(a.provider, a.zone, after) > after
<1> DEFINE first == utc_to_local(a.zone, after) \div DayLength
           V == Visited(a.provider, a.zone, after)
           hits == {local \in V : local_to_utc(a.zone, local) > after}
<1>1. a.zone \in Zone /\ DayLength \in Nat \ {0}
  BY CalendarAssumption, DatesAssumption DEF Zone
<1>2. utc_to_local(a.zone, after) \in Int
  BY <1>1 DEF utc_to_local, Offset, Zone
<1>3. first \in Int
  BY <1>1, <1>2
<1>4. ASSUME NEW d \in Int PROVE SecondsOn(a.provider, d) \subseteq {s \in Int : s >= 0}
  BY CalendarAssumption DEF SecondsOn, normalize_seconds
<1>5. V \subseteq Int /\ \A x \in V : first * DayLength <= x
  <2> SUFFICES ASSUME NEW x \in V PROVE x \in Int /\ first * DayLength <= x
    OBVIOUS
  <2>1. PICK d \in first .. first + MaxDays(a.provider) :
           x \in {d * DayLength + s : s \in SecondsOn(a.provider, d)}
    BY DEF Visited
  <2>2. PICK s \in SecondsOn(a.provider, d) : x = d * DayLength + s
    BY <2>1
  <2> HIDE DEF first
  <2>3. d \in Int /\ first <= d
    BY <1>3, <2>1
  <2>4. s \in Int /\ s >= 0
    BY <1>4, <2>2, <2>3
  <2>5. d * DayLength \in Int /\ first * DayLength \in Int
    BY <1>1, <1>3, <2>3
  <2>6. first * DayLength <= d * DayLength
    BY <1>1, <1>3, <2>3
  <2> QED  BY <2>2, <2>4, <2>5, <2>6
<1>6. scan_local_days(a.provider, a.zone, after) =
         IF hits = {} THEN Never ELSE local_to_utc(a.zone, Min(hits))
  BY DEF scan_local_days
<1>7. CASE hits # {}
  <2>1. first * DayLength \in Int
    BY <1>1, <1>3
  <2>2. hits \subseteq Int /\ \A x \in hits : first * DayLength <= x
    BY <1>5
  <2>3. \A x \in hits : local_to_utc(a.zone, x) > after
    OBVIOUS
  <2> HIDE DEF hits, first, V
  <2>4. Min(hits) \in hits
    BY <1>7, <2>1, <2>2, LeastInteger
  <2>5. local_to_utc(a.zone, Min(hits)) \in Int
    BY <1>1, <2>2, <2>4, UtcIsInteger
  <2> QED  BY <1>6, <1>7, <2>3, <2>4, <2>5
<1> QED
  BY <1>6, <1>7

--------------------------------------------------------------------------------
(* Fresh local times, and what occurs. *)

Regular(zone) == zone \in Zone /\ RegularZone(zone)

\* An instant is what local_to_utc() makes of its local time just if that local
\* time is fresh.
LEMMA FreshIsFirst ==
    ASSUME NEW zone \in Zone, NEW u \in Int, Fresh(zone, u)
    PROVE  local_to_utc(zone, utc_to_local(zone, u)) = u
<1> DEFINE x == utc_to_local(zone, u)
           m == local_to_utc(zone, x)
<1>1. x \in Int
  BY LocalTime
<1>2. u \in Showing(zone, x)
  BY <1>1, ShownAt
<1>3. m \in Int /\ utc_to_local(zone, m) = x /\ Fresh(zone, m)
  BY <1>1, <1>2, ShownAt
<1> HIDE DEF m
<1>4. m <= u /\ u <= m
  BY <1>3 DEF Fresh
<1> QED
  BY <1>3, <1>4 DEF m

\* No earlier instant shows the same local time as a fresh one, or a later one.
LEMMA FreshOrder ==
    ASSUME NEW zone \in Zone, NEW v \in Int, NEW w \in Int, v < w, Fresh(zone, w)
    PROVE  utc_to_local(zone, v) < utc_to_local(zone, w)
<1>1. zone.before \in Int /\ zone.after \in Int /\ zone.change \in Int
  BY DEF Zone
<1>2. CASE w < zone.change \/ v >= zone.change
  BY <1>1, <1>2, LocalTime
<1>3. CASE v < zone.change /\ w >= zone.change
  <2>1. /\ utc_to_local(zone, v) = v + zone.before
        /\ utc_to_local(zone, w) = w + zone.after
    BY <1>3, LocalTime
  <2> SUFFICES ASSUME w + zone.after <= v + zone.before PROVE FALSE
    BY <1>1, <2>1
  <2> DEFINE u == w + zone.after - zone.before
  <2>2. u \in Int /\ u <= v /\ u < zone.change
    BY <1>1, <1>3
  <2>3. utc_to_local(zone, u) = u + zone.before
    BY <2>2, LocalTime
  <2>4. utc_to_local(zone, u) = utc_to_local(zone, w)
    BY <1>1, <2>1, <2>3
  <2>5. w <= u
    BY <2>2, <2>4 DEF Fresh
  <2> QED  BY <2>2, <2>5
<1> QED
  BY <1>1, <1>2, <1>3

\* Where the zone is regular, the two days before an instant tell whether it is
\* fresh.
LEMMA OccursIs ==
    ASSUME NEW zone, Regular(zone), NEW p, NEW u \in Int
    PROVE  Occurs(p, zone, u) <=>
              /\ utc_to_local(zone, u) % DayLength
                    \in SecondsOn(p, utc_to_local(zone, u) \div DayLength)
              /\ Fresh(zone, u)
<1>1. /\ zone \in Zone /\ DayLength \in Nat \ {0}
      /\ zone.before \in Int /\ zone.after \in Int /\ zone.change \in Int
      /\ zone.before - zone.after <= DayLength /\ zone.after - zone.before <= DayLength
  BY DatesAssumption DEF Regular, RegularZone, Zone
<1>2. Fresh(zone, u) <=>
         \A v \in u - (DayLength + DayLength) .. u - 1 :
            utc_to_local(zone, v) # utc_to_local(zone, u)
  <2>1. ASSUME NEW v \in Int, v < u, utc_to_local(zone, v) = utc_to_local(zone, u)
        PROVE  v \in u - (DayLength + DayLength) .. u - 1
    <3>1. /\ v < zone.change => utc_to_local(zone, v) = v + zone.before
          /\ v >= zone.change => utc_to_local(zone, v) = v + zone.after
          /\ u < zone.change => utc_to_local(zone, u) = u + zone.before
          /\ u >= zone.change => utc_to_local(zone, u) = u + zone.after
      BY <1>1, LocalTime
    <3> QED  BY <1>1, <2>1, <3>1
  <2>2. ASSUME NEW v \in u - (DayLength + DayLength) .. u - 1
        PROVE  v \in Int /\ v < u
    BY <1>1
  <2> QED  BY <2>1, <2>2 DEF Fresh
<1> QED
  BY <1>2 DEF Occurs

--------------------------------------------------------------------------------
(* The scan finds what occurs next. *)

\* What add_daily_task(), add_weekly_task() and add_monthly_task() make of a rule.
Provider(p) ==
    /\ p.every \in {"day", "week", "month"}
    /\ \A key \in DOMAIN p.at : p.at[key] \subseteq Int

\* The seconds of a day are seconds of a day.
LEMMA Seconds ==
    ASSUME NEW p, Provider(p), NEW d \in Int
    PROVE  SecondsOn(p, d) \subseteq 0 .. (DayLength - 1)
BY DatesAssumption DEF SecondsOn, normalize_seconds, Provider

\* The scan looks some days ahead.
LEMMA AheadIs ==
    ASSUME NEW p, Provider(p)
    PROVE  MaxDays(p) \in Nat
BY DatesAssumption DEF MaxDays, Provider

\* A scan visits the scheduled times of the days it looks at.
LEMMA VisitedIs ==
    ASSUME NEW zone \in Zone, NEW p, Provider(p), NEW after \in Int, NEW first,
           first = utc_to_local(zone, after) \div DayLength
    PROVE  /\ first \in Int
           /\ Visited(p, zone, after) =
                 {x \in Int : /\ x % DayLength \in SecondsOn(p, x \div DayLength)
                              /\ x \div DayLength \in first .. first + MaxDays(p)}
<1>1. DayLength \in Nat \ {0} /\ MaxDays(p) \in Nat /\ first \in Int
  BY AheadIs, DatesAssumption, LocalTime, DivMod
<1>2. ASSUME NEW x \in Visited(p, zone, after)
      PROVE  /\ x \in Int /\ x % DayLength \in SecondsOn(p, x \div DayLength)
             /\ x \div DayLength \in first .. first + MaxDays(p)
  <2>1. PICK d \in first .. first + MaxDays(p) :
               x \in {d * DayLength + s : s \in SecondsOn(p, d)}
    BY <1>2 DEF Visited
  <2>2. PICK s \in SecondsOn(p, d) : x = d * DayLength + s
    BY <2>1
  <2>3. d \in Int /\ s \in 0 .. (DayLength - 1)
    BY <1>1, Seconds
  <2>4. d * DayLength \in Int
    BY <1>1, <2>3
  <2>5. x \in Int /\ x \div DayLength = d /\ x % DayLength = s
    BY <1>1, <2>2, <2>3, <2>4, DivModUnique
  <2> QED  BY <2>5
<1>3. ASSUME NEW x \in Int, x % DayLength \in SecondsOn(p, x \div DayLength),
             x \div DayLength \in first .. first + MaxDays(p)
      PROVE  x \in Visited(p, zone, after)
  <2>1. x = (x \div DayLength) * DayLength + (x % DayLength)
    BY <1>1, DivMod
  <2> QED  BY <1>3, <2>1 DEF Visited
<1> QED
  BY <1>1, <1>2, <1>3

\* A later time is on the same day or on a later one.
LEMMA DaysOrder ==
    ASSUME NEW n \in Nat \ {0}, NEW x \in Int, NEW y \in Int, x <= y
    PROVE  x \div n <= y \div n
<1> DEFINE p == x \div n
           q == y \div n
<1>1. /\ p \in Int /\ q \in Int /\ x % n \in 0 .. (n - 1) /\ y % n \in 0 .. (n - 1)
      /\ x = p * n + (x % n) /\ y = q * n + (y % n)
  BY DivMod
<1> HIDE DEF p, q
<1> SUFFICES ASSUME q < p PROVE FALSE
  BY <1>1 DEF p, q
<1>2. q * n \in Int /\ p * n \in Int /\ q * n + n <= p * n
  BY <1>1, Rows
<1>3. \A r \in 0 .. (n - 1), s \in 0 .. (n - 1) : ~(p * n + r <= q * n + s)
  BY <1>2
<1> QED
  BY <1>1, <1>3

\* What is hit is what occurs after the bound on the days of the scan.
LEMMA HitsAre ==
    ASSUME NEW zone, Regular(zone), NEW p, Provider(p), NEW after \in Nat,
           NEW hits, hits = {x \in Visited(p, zone, after) : local_to_utc(zone, x) > after}
    PROVE  /\ hits \subseteq Visited(p, zone, after)
           /\ \A x \in hits : LET u == local_to_utc(zone, x) IN
                 /\ u \in Int /\ u > after /\ Fresh(zone, u) /\ Occurs(p, zone, u)
                 /\ utc_to_local(zone, u) = x
           /\ \A u \in Int :
                 u > after /\ Occurs(p, zone, u)
                     => \/ utc_to_local(zone, u) \in hits
                        \/ \A x \in Visited(p, zone, after) : x < utc_to_local(zone, u)
<1> DEFINE first == utc_to_local(zone, after) \div DayLength
<1>1. zone \in Zone /\ DayLength \in Nat \ {0} /\ MaxDays(p) \in Nat
  BY AheadIs, DatesAssumption DEF Regular, RegularZone
<1>2. /\ first \in Int
      /\ Visited(p, zone, after) =
                 {x \in Int : /\ x % DayLength \in SecondsOn(p, x \div DayLength)
                              /\ x \div DayLength \in first .. first + MaxDays(p)}
  BY <1>1, VisitedIs
<1>3. ASSUME NEW x \in hits, NEW u, u = local_to_utc(zone, x)
      PROVE  /\ u \in Int /\ u > after /\ Fresh(zone, u) /\ Occurs(p, zone, u)
             /\ utc_to_local(zone, u) = x
  <2>1. x \in Int /\ u > after /\ x % DayLength \in SecondsOn(p, x \div DayLength)
    BY <1>2, <1>3
  <2>2. u # Never
    BY <2>1 DEF Never
  <2>3. u \in Int /\ utc_to_local(zone, u) = x /\ Fresh(zone, u)
    BY <1>1, <1>3, <2>1, <2>2, ShownAt
  <2> QED  BY <2>1, <2>3, OccursIs
<1>4. ASSUME NEW u \in Int, u > after, Occurs(p, zone, u),
             NEW x \in Visited(p, zone, after), ~(x < utc_to_local(zone, u))
      PROVE  utc_to_local(zone, u) \in hits
  <2> DEFINE y == utc_to_local(zone, u)
             d == y \div DayLength
  <2>1. /\ y % DayLength \in SecondsOn(p, d) /\ Fresh(zone, u)
    BY <1>4, OccursIs
  <2>2. utc_to_local(zone, after) < y /\ y \in Int /\ utc_to_local(zone, after) \in Int
    BY <1>1, <1>4, <2>1, FreshOrder, LocalTime
  <2>3. x \in Int /\ y <= x /\ x \div DayLength \in first .. first + MaxDays(p)
    BY <1>2, <1>4, <2>2
  <2>4. first <= d /\ d <= x \div DayLength
    BY <1>1, <2>2, <2>3, DaysOrder
  <2>5. d \in Int
    BY <1>1, <2>2, DivMod
  <2>6. d \in first .. first + MaxDays(p)
    <3> HIDE DEF d, first
    <3> QED  BY <1>1, <1>2, <2>3, <2>4, <2>5
  <2>7. y \in Visited(p, zone, after)
    BY <1>2, <2>1, <2>2, <2>6
  <2>8. local_to_utc(zone, y) = u
    BY <1>1, <2>1, FreshIsFirst
  <2> QED  BY <1>4, <2>7, <2>8
<1> QED
  BY <1>3, <1>4

\* With a hit, the scan returns the next occurrence, at most so many days ahead.
LEMMA ScanHits ==
    ASSUME NEW zone, Regular(zone), NEW p, Provider(p), NEW after \in Nat,
           NEW hits, hits = {x \in Visited(p, zone, after) : local_to_utc(zone, x) > after},
           hits # {}
    PROVE  scan_local_days(p, zone, after) =
              NextOccurrence(p, zone, after, (MaxDays(p) + 3) * DayLength)
<1> DEFINE first == utc_to_local(zone, after) \div DayLength
           n == MaxDays(p)
           x == Min(hits)
           u == local_to_utc(zone, x)
           ahead == (n + 3) * DayLength
           later == {w \in after + 1 .. after + ahead : Occurs(p, zone, w)}
<1>1. zone \in Zone /\ DayLength \in Nat \ {0} /\ n \in Nat
  BY AheadIs, DatesAssumption DEF Regular, RegularZone
<1>2. /\ first \in Int
      /\ \A y \in Visited(p, zone, after) : y \in Int /\ y \div DayLength \in first .. first + n
  BY <1>1, VisitedIs
<1>3. scan_local_days(p, zone, after) = u
  BY DEF scan_local_days
<1>4. /\ first * DayLength \in Int /\ (first + n + 1) * DayLength \in Int
      /\ \A y \in hits : /\ y \in Int /\ first * DayLength <= y
                         /\ y < (first + n + 1) * DayLength
  <2> HIDE DEF first, n
  <2>1. first * DayLength \in Int /\ (first + n + 1) * DayLength \in Int
    BY <1>1, <1>2
  <2>2. ASSUME NEW y \in hits
        PROVE  y \in Int /\ first * DayLength <= y /\ y < (first + n + 1) * DayLength
    <3> DEFINE d == y \div DayLength
    <3>1. y \in Int /\ d \in first .. first + n
      BY <1>2, HitsAre
    <3>2. d \in Int /\ y = d * DayLength + (y % DayLength) /\ y % DayLength \in 0 .. DayLength - 1
      BY <1>1, <3>1, DivMod
    <3> HIDE DEF d
    <3>3. d * DayLength \in Int /\ first * DayLength <= d * DayLength
      <4>1. CASE d = first
        BY <2>1, <4>1
      <4>2. CASE first < d
        <5>1. first * DayLength + DayLength <= d * DayLength /\ d * DayLength \in Int
          BY <1>1, <1>2, <3>2, <4>2, Rows
        <5> QED  BY <1>1, <2>1, <5>1
      <4> QED  BY <1>2, <3>1, <3>2, <4>1, <4>2
    <3>4. d * DayLength + DayLength <= (first + n + 1) * DayLength
      <4>1. d < first + n + 1 /\ first + n + 1 \in Int
        BY <1>1, <1>2, <3>1
      <4> QED  BY <1>1, <3>2, <4>1, Rows
    <3> QED  BY <1>1, <2>1, <3>1, <3>2, <3>3, <3>4
  <2> QED  BY <2>1, <2>2
<1>5. x \in hits /\ \A y \in hits : x <= y
  <2> HIDE DEF first, n
  <2> QED  BY <1>4, LeastInteger
<1>6. u \in Int /\ u > after /\ Fresh(zone, u) /\ Occurs(p, zone, u) /\ utc_to_local(zone, u) = x
  BY <1>5, HitsAre
<1>7. ASSUME NEW w \in Int, w > after, Occurs(p, zone, w) PROVE u <= w
  <2> SUFFICES ASSUME w < u PROVE FALSE
    BY <1>6, <1>7
  <2>1. utc_to_local(zone, w) < x /\ utc_to_local(zone, w) \in Int
    BY <1>1, <1>6, FreshOrder, LocalTime
  <2>2. x \in Visited(p, zone, after) /\ x \in Int
    BY <1>4, <1>5, HitsAre
  <2>3. utc_to_local(zone, w) \in hits
    <3>1. \/ utc_to_local(zone, w) \in hits
          \/ \A y \in Visited(p, zone, after) : y < utc_to_local(zone, w)
      BY <1>7, HitsAre
    <3> HIDE DEF x
    <3> QED  BY <2>1, <2>2, <3>1
  <2>4. x <= utc_to_local(zone, w)
    BY <1>5, <2>3
  <2> QED  BY <2>1, <2>2, <2>4
<1>8. ahead \in Int /\ u <= after + ahead
  <2> DEFINE a == utc_to_local(zone, after)
  <2>0. a \in Int
    BY <1>1, LocalTime
  <2>1. a \in Int /\ a = first * DayLength + (a % DayLength) /\ a % DayLength \in 0 .. DayLength - 1
    <3> HIDE DEF a
    <3>1. a = (a \div DayLength) * DayLength + (a % DayLength) /\ a % DayLength \in 0 .. (DayLength - 1)
      BY <1>1, <2>0, DivMod
    <3> QED  BY <2>0, <3>1 DEF a
  <2>2. first * DayLength <= a
    <3> HIDE DEF a, first
    <3> QED  BY <1>4, <1>1, <2>1
  <2>3. zone.before \in Int /\ zone.after \in Int /\ zone.change \in Int
        /\ zone.before - zone.after <= DayLength /\ zone.after - zone.before <= DayLength
    BY DatesAssumption DEF Regular, RegularZone, Zone
  <2>4. u - after <= x - a + DayLength
    <3>1. /\ u < zone.change => x = u + zone.before
          /\ u >= zone.change => x = u + zone.after
          /\ after < zone.change => a = after + zone.before
          /\ after >= zone.change => a = after + zone.after
      BY <1>1, <1>6, LocalTime
    <3> HIDE DEF u, x, a
    <3> QED  BY <1>1, <1>6, <2>1, <2>3, <3>1
  <2>5. /\ ahead = (first + n + 1) * DayLength - first * DayLength + DayLength + DayLength
        /\ ahead \in Int
    <3> HIDE DEF first, n
    <3> QED  BY <1>1, <1>2
  <2>6. x \in Int /\ x < (first + n + 1) * DayLength
    BY <1>4, <1>5
  <2> HIDE DEF u, x, a, first, n, ahead
  <2> QED  BY <1>1, <1>4, <1>6, <2>1, <2>2, <2>4, <2>5, <2>6
<1>9. u \in later /\ \A w \in later : u <= w
  <2> HIDE DEF u, ahead
  <2> QED  BY <1>6, <1>7, <1>8
<1>10. Min(later) = u
  <2>1. \A w \in later : w \in Int /\ after <= w
    BY <1>8
  <2> HIDE DEF later, u
  <2>2. Min(later) \in later /\ \A w \in later : Min(later) <= w
    BY <1>9, <2>1, LeastInteger
  <2>3. Min(later) <= u /\ u <= Min(later)
    BY <1>9, <2>2
  <2> QED  BY <1>9, <2>1, <2>2, <2>3
<1> QED
  BY <1>3, <1>9, <1>10 DEF NextOccurrence

\* A scheduled day comes at least twice on the days of the scan behind the first.
LEMMA ComesTwice ==
    ASSUME NEW p, Provider(p), RegularYear, NEW first \in Int, NEW d \in Int
    PROVE  \E d1, d2 \in first + 1 .. first + MaxDays(p) :
              d1 < d2 /\ KeyOf(p, d1) = KeyOf(p, d) /\ KeyOf(p, d2) = KeyOf(p, d)
<1>1. CASE p.every = "day"
  <2>1. MaxDays(p) = 2 /\ \A e \in Int : KeyOf(p, e) = 0
    BY <1>1 DEF MaxDays, KeyOf
  <2>2. first + 1 \in first + 1 .. first + 2 /\ first + 2 \in first + 1 .. first + 2
        /\ first + 1 < first + 2
    OBVIOUS
  <2> QED  BY <2>1, <2>2
<1>2. CASE p.every = "week"
  <2> DEFINE n == WeekLength
  <2>1. n \in Nat \ {0} /\ d % n \in 0 .. (n - 1) /\ MaxDays(p) = 2 * n
    BY <1>2, DatesAssumption, DivMod DEF MaxDays
  <2>2. \A e \in Int : KeyOf(p, e) = e % n
    BY <1>2 DEF KeyOf
  <2> HIDE DEF n
  <2>3. PICK d1 \in first + 1 .. first + n : d1 % n = d % n
    BY <2>1, Residue
  <2>c. d1 \in Int /\ d1 <= first + n /\ first + 1 <= d1
    BY <2>1, <2>3
  <2>4. (d1 + n) % n = d % n
    <3>1. d1 \in Int /\ d1 \div n \in Int /\ d1 = (d1 \div n) * n + (d1 % n)
      BY <2>1, <2>c, DivMod
    <3>2. \A q \in Int : q * n + n = (q + 1) * n /\ q * n \in Int
      BY <2>1
    <3>3. d1 + n = (d1 \div n + 1) * n + (d1 % n)
      <4>1. \A q \in Int, r \in Int : d1 = q * n + r => d1 + n = (q + 1) * n + r
        BY <2>1, <3>1, <3>2
      <4>2. d1 % n \in Int
        BY <2>1, <2>3
      <4> QED  BY <3>1, <4>1, <4>2
    <3>4. d1 \div n + 1 \in Int /\ d1 + n \in Int
      BY <2>1, <2>c, <3>1
    <3>5. d % n \in 0 .. (n - 1) /\ d1 + n = (d1 \div n + 1) * n + (d % n)
      BY <2>1, <2>3, <3>3
    <3> DEFINE q == d1 \div n + 1
               r == d % n
               x == d1 + n
    <3>6. q \in Int /\ r \in 0 .. (n - 1) /\ x \in Int /\ x = q * n + r /\ n \in Nat \ {0}
      BY <2>1, <3>4, <3>5
    <3> HIDE DEF q, x, r
    <3>7. x % n = r
      BY <3>6, DivModUnique, Zenon
    <3> QED  BY <3>7 DEF x, r
  <2>5. /\ d1 \in first + 1 .. first + 2 * n /\ d1 + n \in first + 1 .. first + 2 * n
        /\ d1 < d1 + n
    BY <2>1, <2>c
  <2>6. KeyOf(p, d1) = KeyOf(p, d) /\ KeyOf(p, d1 + n) = KeyOf(p, d)
    <3>1. d1 + n \in Int /\ d1 \in Int
      BY <2>1, <2>c
    <3> QED  BY <2>2, <2>3, <2>4, <3>1, Zenon
  <2> QED  BY <2>1, <2>5, <2>6
<1>3. CASE p.every = "month"
  <2> DEFINE n == Len(MonthDays)
  <2>1. n \in Nat \ {0} /\ MaxDays(p) = n + 1 /\ DOMAIN MonthDays = 1 .. n
    BY <1>3, DatesAssumption, LenProperties, EmptySeq DEF MaxDays
  <2>2. \A e \in Int : KeyOf(p, e) = MonthDays[(e % n) + 1]
    BY <1>3 DEF KeyOf
  <2>3. d % n \in 0 .. (n - 1)
    BY <2>1, DivMod
  <2>4. (d % n) + 1 \in DOMAIN MonthDays
    BY <2>1, <2>3
  <2>5. PICK j \in DOMAIN MonthDays : j # (d % n) + 1 /\ MonthDays[j] = MonthDays[(d % n) + 1]
    BY <2>4 DEF RegularYear
  <2>6. j - 1 \in 0 .. (n - 1) /\ (j - 1) + 1 = j
    BY <2>1
  <2>7. PICK e1 \in first + 1 .. first + n : e1 % n = d % n
    BY <2>1, <2>3, Residue
  <2>8. PICK e2 \in first + 1 .. first + n : e2 % n = j - 1
    BY <2>1, <2>6, Residue
  <2>9. e1 # e2
    BY <2>3, <2>5, <2>6, <2>7, <2>8
  <2>10. KeyOf(p, e1) = KeyOf(p, d) /\ KeyOf(p, e2) = KeyOf(p, d)
    <3>1. e1 \in Int /\ e2 \in Int
      BY <2>1
    <3>2. KeyOf(p, e1) = MonthDays[(d % n) + 1] /\ KeyOf(p, d) = MonthDays[(d % n) + 1]
      BY <2>2, <2>7, <3>1
    <3>3. KeyOf(p, e2) = MonthDays[j]
      BY <2>2, <2>6, <2>8, <3>1
    <3> QED  BY <2>5, <3>2, <3>3
  <2>11. e1 \in first + 1 .. first + (n + 1) /\ e2 \in first + 1 .. first + (n + 1)
         /\ (e1 < e2 \/ e2 < e1)
    BY <2>1, <2>9
  <2> QED  BY <2>1, <2>10, <2>11
<1> QED
  BY <1>1, <1>2, <1>3 DEF Provider

\* A local time more than a day ahead is not yet over, if it is shown at all; and
\* without a fold, any local time ahead is not yet over.
LEMMA AheadIsLater ==
    ASSUME NEW zone, Regular(zone), NEW after \in Int, NEW x \in Int,
           Showing(zone, x) # {},
           \/ x > utc_to_local(zone, after) + DayLength
           \/ zone.before <= zone.after /\ x > utc_to_local(zone, after)
    PROVE  local_to_utc(zone, x) \in Int /\ local_to_utc(zone, x) > after
<1> DEFINE u == local_to_utc(zone, x)
           a == utc_to_local(zone, after)
<1>1. /\ zone \in Zone /\ DayLength \in Nat
      /\ zone.before \in Int /\ zone.after \in Int /\ zone.change \in Int
      /\ zone.before - zone.after <= DayLength
  BY DatesAssumption DEF Regular, RegularZone, Zone
<1>2. u \in Int /\ utc_to_local(zone, u) = x
  BY <1>1, ShownAt
<1>3. /\ u < zone.change => x = u + zone.before
      /\ u >= zone.change => x = u + zone.after
      /\ after < zone.change => a = after + zone.before
      /\ after >= zone.change => a = after + zone.after
  BY <1>1, <1>2, LocalTime
<1>4. a \in Int
  BY <1>1, LocalTime
<1>5. x > a + DayLength \/ (zone.before <= zone.after /\ x > a)
  OBVIOUS
<1> HIDE DEF u, a
<1>6. u > after
  BY <1>1, <1>2, <1>3, <1>4, <1>5
<1> QED
  BY <1>2, <1>6 DEF u

\* Of two local times a day apart, or more, one is shown.
LEMMA NotBothLeftOut ==
    ASSUME NEW zone, Regular(zone), NEW x \in Int, NEW y \in Int, x + DayLength <= y,
           Showing(zone, y) = {}
    PROVE  Showing(zone, x) # {} /\ zone.before <= zone.after
<1>1. /\ zone \in Zone /\ DayLength \in Nat \ {0}
      /\ zone.before \in Int /\ zone.after \in Int /\ zone.change \in Int
      /\ zone.after - zone.before <= DayLength
  BY DatesAssumption DEF Regular, RegularZone, Zone
<1>2. \A u \in Int : utc_to_local(zone, u) # y
  BY <1>1, ShownAt
<1>3. y - zone.before >= zone.change /\ y - zone.after < zone.change
  <2>1. y - zone.before \in Int /\ y - zone.after \in Int
    BY <1>1
  <2>2. ~(y - zone.before < zone.change)
    <3> SUFFICES ASSUME y - zone.before < zone.change PROVE FALSE
      OBVIOUS
    <3>1. utc_to_local(zone, y - zone.before) = y
      BY <1>1, <2>1, LocalTime
    <3> QED  BY <1>2, <2>1, <3>1
  <2>3. ~(y - zone.after >= zone.change)
    <3> SUFFICES ASSUME y - zone.after >= zone.change PROVE FALSE
      OBVIOUS
    <3>1. utc_to_local(zone, y - zone.after) = y
      BY <1>1, <2>1, LocalTime
    <3> QED  BY <1>2, <2>1, <3>1
  <2> QED  BY <1>1, <2>1, <2>2, <2>3
<1>4. x - zone.before < zone.change /\ x - zone.before \in Int
  BY <1>1, <1>3
<1>5. utc_to_local(zone, x - zone.before) = x
  BY <1>1, <1>4, LocalTime
<1> QED
  BY <1>1, <1>3, <1>4, <1>5, ShownAt

\* A scan that hits nothing is right: nothing ever occurs after its bound.
LEMMA ScanMisses ==
    ASSUME NEW zone, Regular(zone), NEW p, Provider(p), RegularYear, NEW after \in Nat,
           \A x \in Visited(p, zone, after) : ~(local_to_utc(zone, x) > after),
           NEW w \in Int, w > after, Occurs(p, zone, w)
    PROVE  FALSE
<1> DEFINE a == utc_to_local(zone, after)
           first == a \div DayLength
           x == utc_to_local(zone, w)
           d == x \div DayLength
           s == x % DayLength
           Scheduled(e) == e * DayLength + s
<1>1. zone \in Zone /\ DayLength \in Nat \ {0} /\ a \in Int /\ x \in Int
  BY DatesAssumption, LocalTime DEF Regular, RegularZone
<1>2. first \in Int /\ d \in Int /\ s \in 0 .. (DayLength - 1) /\ s \in SecondsOn(p, d)
  BY <1>1, DivMod, OccursIs
<1>3. PICK d1, d2 \in first + 1 .. first + MaxDays(p) :
         d1 < d2 /\ KeyOf(p, d1) = KeyOf(p, d) /\ KeyOf(p, d2) = KeyOf(p, d)
  BY <1>2, ComesTwice
<1>4. d1 \in Int /\ d2 \in Int /\ first < d1 /\ d1 < d2
  <2> HIDE DEF first
  <2> QED  BY <1>2, <1>3, AheadIs
<1>5. ASSUME NEW e \in {d1, d2}
      PROVE  Scheduled(e) \in Int /\ Scheduled(e) \in Visited(p, zone, after)
  <2>1. e \in Int /\ e \in first .. first + MaxDays(p)
    <3> HIDE DEF first
    <3> QED  BY <1>2, <1>3, <1>4, AheadIs
  <2>2. s \in SecondsOn(p, e)
    BY <1>2, <1>3 DEF SecondsOn
  <2>3. Scheduled(e) \in Int
    <3> HIDE DEF s
    <3> QED  BY <1>1, <1>2, <2>1
  <2>4. Scheduled(e) \div DayLength = e /\ Scheduled(e) % DayLength = s
    <3> DEFINE y == Scheduled(e)
    <3>1. y = e * DayLength + s /\ y \in Int
      BY <2>3
    <3> HIDE DEF y, s
    <3>2. y \div DayLength = e /\ y % DayLength = s
      BY <1>1, <1>2, <2>1, <3>1, DivModUnique
    <3> QED  BY <3>2 DEF y
  <2> QED  BY <1>1, <2>1, <2>2, <2>3, <2>4, VisitedIs
<1>6. Scheduled(d1) > a /\ Scheduled(d1) + DayLength <= Scheduled(d2)
  <2>1. a = first * DayLength + (a % DayLength) /\ a % DayLength \in 0 .. (DayLength - 1)
    BY <1>1, DivMod
  <2>2. first * DayLength \in Int /\ d1 * DayLength \in Int /\ d2 * DayLength \in Int
        /\ first * DayLength + DayLength <= d1 * DayLength
        /\ d1 * DayLength + DayLength <= d2 * DayLength
    <3> HIDE DEF first
    <3> QED  BY <1>1, <1>2, <1>4, Rows
  <2> HIDE DEF first, s, a
  <2> QED  BY <1>1, <1>2, <2>1, <2>2
<1> HIDE DEF Scheduled, first, a
<1>7. ~(local_to_utc(zone, Scheduled(d1)) > after) /\ ~(local_to_utc(zone, Scheduled(d2)) > after)
  BY <1>5
<1>8. CASE Showing(zone, Scheduled(d2)) # {}
  <2>1. Scheduled(d2) > a + DayLength
    BY <1>1, <1>5, <1>6
  <2> QED  BY <1>5, <1>7, <1>8, <2>1, AheadIsLater DEF a
<1>9. CASE Showing(zone, Scheduled(d2)) = {}
  <2>1. Showing(zone, Scheduled(d1)) # {} /\ zone.before <= zone.after
    BY <1>5, <1>6, <1>9, NotBothLeftOut
  <2> QED  BY <1>5, <1>6, <1>7, <2>1, AheadIsLater DEF a
<1> QED
  BY <1>8, <1>9

\* The scan over local days finds the next occurrence, whatever the bound.
LEMMA ScanIsExact ==
    ASSUME NEW zone, Regular(zone), NEW p, Provider(p), RegularYear, NEW after \in Nat
    PROVE  scan_local_days(p, zone, after) =
              NextOccurrence(p, zone, after, (MaxDays(p) + 3) * DayLength)
<1> DEFINE hits == {x \in Visited(p, zone, after) : local_to_utc(zone, x) > after}
           ahead == (MaxDays(p) + 3) * DayLength
<1>1. CASE hits # {}
  BY <1>1, ScanHits
<1>2. CASE hits = {}
  <2>1. scan_local_days(p, zone, after) = Never
    BY <1>2 DEF scan_local_days
  <2>2. ASSUME NEW w \in after + 1 .. after + ahead, Occurs(p, zone, w) PROVE FALSE
    <3>1. \A x \in Visited(p, zone, after) : ~(local_to_utc(zone, x) > after)
      BY <1>2
    <3>2. w \in Int /\ w > after
      <4>1. ahead \in Int
        BY AheadIs, DatesAssumption
      <4> HIDE DEF ahead
      <4> QED  BY <2>2, <4>1
    <3> QED  BY <2>2, <3>1, <3>2, ScanMisses
  <2>3. NextOccurrence(p, zone, after, ahead) = Never
    BY <2>2 DEF NextOccurrence
  <2> QED  BY <2>1, <2>3
<1> QED
  BY <1>1, <1>2

--------------------------------------------------------------------------------
(* The providers. *)

\* A provider, a calendar rule's or a custom one, yields nothing or an instant
\* after its bound.
LEMMA ProvidedMovesOn ==
    ASSUME NEW r, rule[r] \in Additions, NEW after \in Nat,
           NEW n \in Provided(r, after)
    PROVE  n = Never \/ (n \in Nat /\ n > after)
<1>1. CASE rule[r].provider = Custom
  BY <1>1, CalendarAssumption DEF Provided
<1>2. CASE rule[r].provider # Custom
  <2>1. n = scan_local_days(rule[r].provider, rule[r].zone, after)
    BY <1>2 DEF Provided
  <2> QED  BY <1>2, <2>1, ScanMovesOn
<1> QED
  BY <1>1, <1>2

\* So does first_planned_due(), after the last run it was told of ...
LEMMA FirstDueMovesOn ==
    ASSUME NEW r, rule[r] \in Additions, NEW now \in Walls, NEW n \in FirstDue(r, now)
    PROVE  n = Never \/ (n \in Nat /\ n > rule[r].last)
<1>1. now \in Nat /\ rule[r].last \in Nat \cup {Never}
  BY CalendarAssumption
<1>2. CASE rule[r].last = Never
  <2>1. n \in Provided(r, now)
    BY <1>2 DEF FirstDue
  <2> QED  BY <1>1, <1>2, <2>1, ProvidedMovesOn DEF Never
<1>3. CASE rule[r].last # Never
  <2>1. PICK m \in Provided(r, rule[r].last) :
           n \in IF m # Never /\ m <= now /\ rule[r].missed = "skip"
                 THEN Provided(r, now) ELSE {m}
    BY <1>3 DEF FirstDue
  <2>2. m = Never \/ (m \in Nat /\ m > rule[r].last)
    BY <1>1, <1>3, <2>1, ProvidedMovesOn
  <2>3. CASE m # Never /\ m <= now /\ rule[r].missed = "skip"
    <3>1. n = Never \/ (n \in Nat /\ n > now)
      BY <1>1, <2>1, <2>3, ProvidedMovesOn
    <3> QED  BY <1>1, <1>3, <2>2, <2>3, <3>1
  <2> QED  BY <2>1, <2>2, <2>3
<1> QED
  BY <1>2, <1>3

\* ... and schedule_after_run(), after the planned instant of the run before.
LEMMA NextDueMovesOn ==
    ASSUME NEW r, rule[r] \in Additions, NEW previous \in Nat, NEW now \in Walls,
           NEW n \in NextDue(r, previous, now)
    PROVE  n = Never \/ (n \in Nat /\ n > previous)
<1>1. now \in Nat
  BY CalendarAssumption
<1>2. PICK m \in Provided(r, previous) :
         n \in IF m # Never /\ m <= now /\ rule[r].overlap = "skip"
               THEN Provided(r, now) ELSE {m}
  BY DEF NextDue
<1>3. m = Never \/ (m \in Nat /\ m > previous)
  BY <1>2, ProvidedMovesOn
<1>4. CASE m # Never /\ m <= now /\ rule[r].overlap = "skip"
  <2>1. n = Never \/ (n \in Nat /\ n > now)
    BY <1>1, <1>2, <1>4, ProvidedMovesOn
  <2> QED  BY <1>1, <1>3, <1>4, <2>1
<1> QED
  BY <1>2, <1>3, <1>4

--------------------------------------------------------------------------------
(* The types, and what each thread holds where. *)

\* The rules, and what the core keeps of them.
RuleInv ==
    /\ added \in 0 .. MaxRules /\ rule \in Seq(Additions) /\ Len(rule) = added
    /\ active \subseteq 1 .. added /\ cancelled \subseteq 1 .. added
    /\ 1 .. added \subseteq active \cup cancelled
    /\ closed => active = {}
    /\ planned \in [Rules -> Nat] /\ lastRun \in [Rules -> Nat \cup {Never}]
    /\ doomed \subseteq 1 .. added /\ orphaned \subseteq 1 .. added

\* The TaskManager, and the task ids the core has of it.
ManagerInv ==
    /\ submitted \in 0 .. MaxTasks /\ owner \in Seq(Rules) /\ Len(owner) = submitted
    /\ \A k \in 1 .. submitted : owner[k] \in 1 .. added
    /\ queued \subseteq 1 .. submitted
    /\ scheduled \in [Rules -> 0 .. submitted]
    /\ running \in 0 .. submitted /\ victim \in 0 .. submitted

FlagInv == closed \in BOOLEAN /\ managerClosed \in BOOLEAN /\ stopped \in BOOLEAN

AdderPlaces == {"idle", "first", "undo", "submit", "store"}
LoopPlaces  == {"idle", "due", "callback", "after", "check", "next", "submit",
                "store", "complete"}

\* Where a thread holds the planned instant of a run.
Planning == {"callback", "after", "check", "next", "submit", "store"}

\* What a thread holds: one that is not idle has a rule in hand, and at the
\* record it has a task of that rule.
Held(t) ==
    /\ my[t].rule \in 0 .. added /\ my[t].task \in 0 .. submitted
    /\ pc[t] = "idle" <=> my[t].rule = 0
    /\ pc[t] \in Planning => my[t].planned \in Nat
    /\ pc[t] = "store" =>
          my[t].task \in 1 .. submitted /\ owner[my[t].task] = my[t].rule

ThreadInv ==
    /\ pc \in [Threads -> AdderPlaces \cup LoopPlaces]
    /\ pc["adder"] \in AdderPlaces /\ pc["loop"] \in LoopPlaces
    /\ my \in [Threads -> Locals]
    /\ \A t \in Threads : Held(t)

TypeInv == RuleInv /\ ManagerInv /\ FlagInv /\ ThreadInv

\* The initial state has these types.
LEMMA TypeInit == Init => TypeInv
<1> SUFFICES ASSUME Init PROVE TypeInv
  OBVIOUS
<1> USE CalendarAssumption DEF Init
<1>1. RuleInv
  BY DEF RuleInv, Rules, Never
<1>2. ManagerInv
  BY DEF ManagerInv, Rules, NoTask
<1>3. FlagInv
  BY DEF FlagInv
<1>4. ThreadInv
  BY DEF ThreadInv, Held, AdderPlaces, LoopPlaces, Planning, Threads, Nothing, Locals, Never,
         Tasks, NoTask
<1> QED
  BY <1>1, <1>2, <1>3, <1>4 DEF TypeInv

\* The steps, each of one thread.
Adding == AddRule \/ FirstPlanned \/ FirstThrows \/ Undo
Recordings(t) == Submit(t) \/ SubmitRefused(t) \/ Store(t) \/ TakeBack(t)
Running ==
    \/ \E k \in Tasks : StartTask(k)
    \/ RunDueReturns \/ RunDue \/ StopTask \/ CallbackReturns \/ CallbackThrows
    \/ AfterCallback \/ CheckCancelled \/ NextPlanned \/ NextThrows \/ Complete
Cancelling ==
    \/ (\E r \in Rules : Cancel(r)) \/ CancelVictim
    \/ (\E close \in BOOLEAN : CancelAll(close)) \/ CancelDoomed
Managing == ManagerCloses \/ ManagerClears

\* Every step is one of them.
LEMMA NextCases ==
    [Next]_vars => \/ Adding \/ (\E t \in Threads : Recordings(t)) \/ Running
                   \/ Cancelling \/ Managing \/ UNCHANGED vars
BY DEF Next, Adding, Recordings, Running, Cancelling, Managing

\* The flags stay flags.
LEMMA FlagStep == FlagInv /\ [Next]_vars => FlagInv'
<1> SUFFICES ASSUME FlagInv, [Next]_vars PROVE FlagInv'
  OBVIOUS
<1> USE DEF FlagInv, coreVars, managerVars, runVars
<1>1. CASE Adding
  BY <1>1, Zenon DEF Adding, AddRule, FirstPlanned, FirstThrows, Undo
<1>2. ASSUME NEW t \in Threads, Recordings(t) PROVE FlagInv'
  BY <1>2, Zenon DEF Recordings, Submit, SubmitRefused, Store, TakeBack, CancelTask, TaskOver
<1>3. CASE Running
  BY <1>3, Zenon DEF Running, StartTask, RunDueReturns, RunDue, StopTask, CallbackReturns,
     CallbackThrows, AfterCallback, CheckCancelled, NextPlanned, NextThrows, Complete, TaskOver
<1>4. CASE Cancelling
  BY <1>4, Zenon DEF Cancelling, Cancel, CancelVictim, CancelAll, CancelDoomed, CancelTask
<1>5. CASE Managing \/ UNCHANGED vars
  BY <1>5, Zenon DEF Managing, ManagerCloses, ManagerClears, vars
<1> QED
  BY <1>1, <1>2, <1>3, <1>4, <1>5, NextCases

\* The bounds are naturals.
LEMMA Bounds == MaxRules \in Nat /\ MaxTasks \in Nat
BY CalendarAssumption

\* A thread that is not idle holds a rule.
LEMMA HeldRule ==
    ASSUME TypeInv, NEW t \in Threads, pc[t] # "idle"
    PROVE  my[t].rule \in 1 .. added /\ my[t].rule \in Rules
<1>1. my[t].rule \in 0 .. added /\ my[t].rule # 0 /\ added \in 0 .. MaxRules
  BY DEF TypeInv, ThreadInv, Held, RuleInv
<1> QED
  BY <1>1, Bounds DEF Rules

\* The rules keep their types, and no rule is active once the core is closed.
LEMMA RuleStep == TypeInv /\ [Next]_vars => RuleInv'
<1> SUFFICES ASSUME TypeInv, [Next]_vars PROVE RuleInv'
  OBVIOUS
<1> DEFINE ruleState == <<added, rule, active, cancelled, closed, planned, lastRun, doomed,
                          orphaned>>
<1>0. RuleInv /\ ManagerInv /\ FlagInv /\ ThreadInv
  BY DEF TypeInv
<1>1. \A t \in Threads : pc[t] # "idle" => my[t].rule \in 1 .. added /\ my[t].rule \in Rules
  BY HeldRule
<1>2. CASE UNCHANGED ruleState
  BY <1>0, <1>2 DEF RuleInv
<1>3. CASE AddRule
  <2>1. PICK a \in Additions : /\ rule' = Append(rule, a)
                               /\ lastRun' = [lastRun EXCEPT ![added + 1] = a.last]
    BY <1>3 DEF AddRule
  <2>2. a.last \in Nat \cup {Never}
    BY CalendarAssumption
  <2>3. /\ added \in Nat /\ added' = added + 1 /\ added' \in 0 .. MaxRules
        /\ 1 .. added' = 1 .. added \cup {added + 1}
    BY <1>0, <1>3, Bounds DEF RuleInv, AddRule
  <2>4. rule' \in Seq(Additions) /\ Len(rule') = added'
    BY <1>0, <2>1, <2>3 DEF RuleInv
  <2>5. lastRun' \in [Rules -> Nat \cup {Never}]
    BY <1>0, <2>1, <2>2 DEF RuleInv
  <2>6. ~closed' /\ active' = active \cup {added + 1}
    BY <1>3 DEF AddRule
  <2> QED
    BY <1>0, <1>3, <2>3, <2>4, <2>5, <2>6 DEF RuleInv, AddRule, cancelVars
<1>4. CASE Undo
  BY <1>0, <1>1, <1>4 DEF RuleInv, Undo, At, Threads, ruleVars, cancelVars, historyVars
<1>5. ASSUME NEW t \in Threads, Store(t) PROVE RuleInv'
  <2>1. my[t].planned \in Nat
    BY <1>0, <1>5 DEF Store, At, ThreadInv, Held, Planning
  <2> QED  BY <1>0, <1>5, <2>1 DEF RuleInv, Store, historyVars, cancelVars, ruleVars
<1>6. CASE CallbackReturns \/ CallbackThrows
  <2>1. my["loop"].planned \in Nat
    BY <1>0, <1>6 DEF CallbackReturns, CallbackThrows, At, ThreadInv, Held, Planning, Threads
  <2>2. lastRun' \in [Rules -> Nat \cup {Never}]
    BY <1>0, <1>6, <2>1 DEF RuleInv, CallbackReturns, CallbackThrows, Ran
  <2>3. UNCHANGED <<added, rule, active, cancelled, closed, planned, doomed, orphaned>>
    BY <1>6 DEF CallbackReturns, CallbackThrows, ruleVars, coreVars, cancelVars
  <2> QED
    BY <1>0, <2>2, <2>3 DEF RuleInv
<1>7. CASE AfterCallback \/ NextThrows \/ Complete
  <2>1. my["loop"].rule \in 1 .. added
    BY <1>1, <1>7 DEF AfterCallback, NextThrows, Complete, At, Threads
  <2>2. CASE AfterCallback
    <3>1. cancelled' = cancelled \/ cancelled' = cancelled \cup {my["loop"].rule}
      BY <2>2, Zenon DEF AfterCallback
    <3> QED
      BY <1>0, <2>1, <2>2, <3>1 DEF RuleInv, AfterCallback, cancelVars, ruleVars, historyVars
  <2>3. CASE NextThrows
    BY <1>0, <2>1, <2>3 DEF RuleInv, NextThrows, coreVars, cancelVars, ruleVars
  <2>4. CASE Complete
    BY <1>0, <2>1, <2>4 DEF RuleInv, Complete, cancelVars, ruleVars, historyVars
  <2> QED  BY <1>7, <2>2, <2>3, <2>4
<1>8. ASSUME NEW r \in Rules, Cancel(r) PROVE RuleInv'
  BY <1>0, <1>8 DEF RuleInv, Cancel, ruleVars, historyVars
<1>9. ASSUME NEW close \in BOOLEAN, CancelAll(close) PROVE RuleInv'
  BY <1>0, <1>9 DEF RuleInv, CancelAll, ruleVars, historyVars
<1>10. CASE CancelDoomed
  BY <1>0, <1>10 DEF RuleInv, CancelDoomed, ruleVars, coreVars, historyVars
<1>11. CASE ManagerClears
  <2>1. {owner[k] : k \in queued} \subseteq 1 .. added
    BY <1>0 DEF ManagerInv
  <2> QED
    BY <1>0, <1>11, <2>1 DEF RuleInv, ManagerClears, ruleVars, coreVars, cancelVars
<1> HIDE DEF ruleState
<1>12. CASE FirstPlanned \/ FirstThrows \/ UNCHANGED vars \/ ManagerCloses \/ CancelVictim
  <2>1. UNCHANGED ruleState
    BY <1>12 DEF FirstPlanned, FirstThrows, vars, ManagerCloses, CancelVictim, ruleState,
       ruleVars, coreVars, historyVars, cancelVars
  <2> QED  BY <1>2, <2>1
<1>13. ASSUME NEW t \in Threads, Submit(t) \/ SubmitRefused(t) \/ TakeBack(t) PROVE RuleInv'
  <2>1. UNCHANGED ruleState
    BY <1>13 DEF Submit, SubmitRefused, TakeBack, ruleState, ruleVars, coreVars, historyVars,
       cancelVars
  <2> QED  BY <1>2, <2>1
<1>14. CASE \/ \E k \in Tasks : StartTask(k)
            \/ RunDueReturns \/ RunDue \/ StopTask \/ CheckCancelled \/ NextPlanned
  <2>1. UNCHANGED ruleState
    BY <1>14 DEF StartTask, RunDueReturns, RunDue, StopTask, CheckCancelled, NextPlanned,
       ruleState, ruleVars, coreVars, historyVars, cancelVars
  <2> QED  BY <1>2, <2>1
<1> QED
  BY <1>3, <1>4, <1>5, <1>6, <1>7, <1>8, <1>9, <1>10, <1>11, <1>12, <1>13, <1>14, NextCases
     DEF Adding, Recordings, Running, Cancelling, Managing

\* The task ids stay those of submitted tasks.
LEMMA ManagerStep == TypeInv /\ [Next]_vars => ManagerInv'
<1> SUFFICES ASSUME TypeInv, [Next]_vars PROVE ManagerInv'
  OBVIOUS
<1> DEFINE managerState == <<added, submitted, owner, queued, scheduled, running, victim>>
<1>0. RuleInv /\ ManagerInv /\ FlagInv /\ ThreadInv
  BY DEF TypeInv
<1>1. \A t \in Threads : pc[t] # "idle" => my[t].rule \in 1 .. added /\ my[t].rule \in Rules
  BY HeldRule
<1>2. CASE UNCHANGED managerState
  BY <1>0, <1>2 DEF ManagerInv
<1>3. CASE AddRule
  BY <1>0, <1>3 DEF ManagerInv, RuleInv, AddRule, managerVars, runVars, cancelVars
<1>4. ASSUME NEW t \in Threads, Submit(t) PROVE ManagerInv'
  <2>1. my[t].rule \in 1 .. added /\ my[t].rule \in Rules /\ pc[t] = "submit"
    BY <1>1, <1>4 DEF Submit, At
  <2>2. /\ owner' \in Seq(Rules) /\ Len(owner') = submitted + 1
        /\ owner'[submitted + 1] = my[t].rule
        /\ \A k \in 1 .. submitted : owner'[k] = owner[k]
    <3>1. owner' = Append(owner, my[t].rule)
      BY <1>4 DEF Submit
    <3>2. owner \in Seq(Rules) /\ Len(owner) = submitted /\ submitted \in Nat
      BY <1>0 DEF ManagerInv
    <3> QED  BY <2>1, <3>1, <3>2
  <2>3. /\ submitted \in Nat /\ submitted' = submitted + 1 /\ submitted' \in 0 .. MaxTasks
        /\ 1 .. submitted' = 1 .. submitted \cup {submitted + 1}
        /\ 0 .. submitted \subseteq 0 .. submitted'
    BY <1>0, <1>4, Bounds DEF Submit, ManagerInv
  <2>4. \A k \in 1 .. submitted' : owner'[k] \in 1 .. added'
    BY <1>0, <1>4, <2>1, <2>2, <2>3 DEF Submit, ManagerInv, ruleVars
  <2>5. queued' \subseteq 1 .. submitted' /\ scheduled' \in [Rules -> 0 .. submitted']
    BY <1>0, <1>4, <2>3 DEF Submit, ManagerInv, coreVars
  <2>6. running' \in 0 .. submitted' /\ victim' \in 0 .. submitted'
    BY <1>0, <1>4, <2>3 DEF Submit, ManagerInv, runVars, cancelVars
  <2> QED
    BY <2>2, <2>3, <2>4, <2>5, <2>6 DEF ManagerInv
<1>5. ASSUME NEW t \in Threads, Store(t) PROVE ManagerInv'
  <2>1. my[t].task \in 0 .. submitted
    BY <1>0 DEF ThreadInv, Held
  <2>2. submitted \in Nat /\ scheduled' = [scheduled EXCEPT ![my[t].rule] = my[t].task]
    BY <1>0, <1>5 DEF Store, ManagerInv
  <2>3. scheduled' \in [Rules -> 0 .. submitted]
    BY <1>0, <2>1, <2>2 DEF ManagerInv
  <2>4. running' = 0 \/ running' = running
    BY <1>5 DEF Store, TaskOver, runVars, NoTask
  <2> QED
    BY <1>0, <1>5, <2>2, <2>3, <2>4 DEF Store, ManagerInv, managerVars, cancelVars, ruleVars
<1>6. ASSUME NEW t \in Threads, TakeBack(t) PROVE ManagerInv'
  BY <1>0, <1>6 DEF TakeBack, CancelTask, ManagerInv, coreVars, cancelVars, ruleVars
<1>7. ASSUME NEW k \in Tasks, StartTask(k) PROVE ManagerInv'
  BY <1>0, <1>7 DEF StartTask, ManagerInv, coreVars, cancelVars, ruleVars
<1>8. CASE RunDueReturns \/ RunDue \/ NextThrows \/ Complete
  BY <1>0, <1>8 DEF RunDueReturns, RunDue, NextThrows, Complete, TaskOver, ManagerInv, NoTask,
     coreVars, managerVars, runVars, cancelVars, ruleVars
<1>9. ASSUME NEW r \in Rules, Cancel(r) PROVE ManagerInv'
  BY <1>0, <1>9 DEF ManagerInv, Cancel, ruleVars, managerVars, runVars
<1>10. CASE CancelVictim \/ CancelDoomed
  <2>1. queued' \subseteq queued /\ (victim' = victim \/ victim' = 0)
    BY <1>10 DEF CancelVictim, CancelDoomed, CancelTask, NoTask
  <2>2. UNCHANGED <<added, submitted, owner, scheduled, running>>
    BY <1>10 DEF CancelVictim, CancelDoomed, ruleVars, coreVars
  <2>3. 0 \in 0 .. submitted
    BY <1>0 DEF ManagerInv
  <2> QED  BY <1>0, <2>1, <2>2, <2>3 DEF ManagerInv
<1>11. CASE ManagerClears
  BY <1>0, <1>11 DEF ManagerInv, ManagerClears, ruleVars, coreVars, runVars, cancelVars
<1> HIDE DEF managerState
<1>12. CASE FirstPlanned \/ FirstThrows \/ Undo \/ UNCHANGED vars \/ ManagerCloses
  <2>1. UNCHANGED managerState
    BY <1>12 DEF FirstPlanned, FirstThrows, Undo, vars, ManagerCloses, managerState,
       ruleVars, coreVars, managerVars, runVars, cancelVars
  <2> QED  BY <1>2, <2>1
<1>13. ASSUME NEW t \in Threads, SubmitRefused(t) PROVE ManagerInv'
  <2>1. UNCHANGED managerState
    BY <1>13 DEF SubmitRefused, managerState, ruleVars, coreVars, managerVars, runVars,
       cancelVars
  <2> QED  BY <1>2, <2>1
<1>14. CASE \/ StopTask \/ CallbackReturns \/ CallbackThrows \/ AfterCallback
            \/ CheckCancelled \/ NextPlanned
  <2>1. UNCHANGED managerState
    BY <1>14 DEF StopTask, CallbackReturns, CallbackThrows, AfterCallback, CheckCancelled,
       NextPlanned, managerState, ruleVars, coreVars, managerVars, runVars, cancelVars
  <2> QED  BY <1>2, <2>1
<1>15. ASSUME NEW close \in BOOLEAN, CancelAll(close) PROVE ManagerInv'
  <2>1. UNCHANGED managerState
    BY <1>15 DEF CancelAll, managerState, ruleVars, managerVars, runVars
  <2> QED  BY <1>2, <2>1
<1> QED
  BY <1>3, <1>4, <1>5, <1>6, <1>7, <1>8, <1>9, <1>10, <1>11, <1>12, <1>13, <1>14, <1>15,
     NextCases DEF Adding, Recordings, Running, Cancelling, Managing

\* Rules and tasks are only added, and a task keeps its owner.
Grows ==
    /\ added' \in Nat /\ added <= added' /\ submitted' \in Nat /\ submitted <= submitted'
    /\ \A k \in 1 .. submitted : owner'[k] = owner[k]

\* Every step does that.
LEMMA EveryStepGrows == TypeInv /\ [Next]_vars => Grows
<1> SUFFICES ASSUME TypeInv, [Next]_vars PROVE Grows
  OBVIOUS
<1>1. /\ added \in Nat /\ submitted \in Nat
      /\ owner \in Seq(Rules) /\ Len(owner) = submitted
  BY DEF TypeInv, RuleInv, ManagerInv
<1>2. added' = added \/ added' = added + 1
  <2> USE DEF ruleVars
  <2>1. CASE Adding
    BY <2>1 DEF Adding, AddRule, FirstPlanned, FirstThrows, Undo
  <2>2. ASSUME NEW t \in Threads, Recordings(t) PROVE added' = added
    BY <2>2 DEF Recordings, Submit, SubmitRefused, Store, TakeBack
  <2>3. CASE Running
    BY <2>3 DEF Running, StartTask, RunDueReturns, RunDue, StopTask, CallbackReturns,
       CallbackThrows, AfterCallback, CheckCancelled, NextPlanned, NextThrows, Complete
  <2>4. CASE Cancelling
    BY <2>4 DEF Cancelling, Cancel, CancelVictim, CancelAll, CancelDoomed
  <2>5. CASE Managing \/ UNCHANGED vars
    BY <2>5 DEF Managing, ManagerCloses, ManagerClears, vars
  <2> QED  BY <2>1, <2>2, <2>3, <2>4, <2>5, NextCases
<1>3. \/ UNCHANGED <<submitted, owner>>
      \/ \E t \in Threads : Submit(t)
  <2> USE DEF managerVars
  <2>1. CASE Adding
    BY <2>1 DEF Adding, AddRule, FirstPlanned, FirstThrows, Undo
  <2>2. ASSUME NEW t \in Threads, Recordings(t)
        PROVE  UNCHANGED <<submitted, owner>> \/ Submit(t)
    BY <2>2 DEF Recordings, SubmitRefused, Store, TakeBack
  <2>3. CASE Running
    BY <2>3 DEF Running, StartTask, RunDueReturns, RunDue, StopTask, CallbackReturns,
       CallbackThrows, AfterCallback, CheckCancelled, NextPlanned, NextThrows, Complete
  <2>4. CASE Cancelling
    BY <2>4 DEF Cancelling, Cancel, CancelVictim, CancelAll, CancelDoomed
  <2>5. CASE Managing \/ UNCHANGED vars
    BY <2>5 DEF Managing, ManagerCloses, ManagerClears, vars
  <2> QED  BY <2>1, <2>2, <2>3, <2>4, <2>5, NextCases
<1>4. ASSUME NEW t \in Threads, Submit(t)
      PROVE  submitted' = submitted + 1 /\ \A k \in 1 .. submitted : owner'[k] = owner[k]
  <2>1. submitted' = submitted + 1 /\ owner' = Append(owner, my[t].rule)
    BY <1>4 DEF Submit
  <2> QED  BY <1>1, <2>1
<1> QED
  BY <1>1, <1>2, <1>3, <1>4 DEF Grows

\* A thread that does not move keeps what it holds.
LEMMA HeldStays ==
    ASSUME TypeInv, Grows, NEW t \in Threads, pc'[t] = pc[t], my'[t] = my[t]
    PROVE  Held(t)'
<1>1. Held(t) /\ added \in Nat /\ submitted \in Nat
  BY DEF TypeInv, ThreadInv, RuleInv, ManagerInv
<1> QED
  BY <1>1 DEF Held, Grows

\* So do all while none moves.
LEMMA ThreadsStay ==
    ASSUME TypeInv, Grows, UNCHANGED <<pc, my>>
    PROVE  ThreadInv'
<1>1. \A t \in Threads : Held(t)'
  BY HeldStays
<1> QED
  BY <1>1 DEF TypeInv, ThreadInv

\* A thread moves to a place of its own and holds what it should there.
LEMMA ThreadMoves ==
    ASSUME TypeInv, Grows, NEW t \in Threads,
           NEW place \in IF t = "adder" THEN AdderPlaces ELSE LoopPlaces, NEW m \in Locals,
           pc' = [pc EXCEPT ![t] = place], my' = [my EXCEPT ![t] = m],
           m.rule \in 0 .. added' /\ m.task \in 0 .. submitted',
           place = "idle" <=> m.rule = 0,
           place \in Planning => m.planned \in Nat,
           place = "store" => m.task \in 1 .. submitted' /\ owner'[m.task] = m.rule
    PROVE  ThreadInv'
<1>1. ThreadInv /\ place \in AdderPlaces \cup LoopPlaces
  BY DEF TypeInv
<1>2. pc'[t] = place /\ my'[t] = m
  BY <1>1 DEF ThreadInv
<1>3. Held(t)'
  BY <1>2 DEF Held
<1>4. ASSUME NEW u \in Threads, u # t PROVE Held(u)'
  <2>1. pc'[u] = pc[u] /\ my'[u] = my[u]
    BY <1>1, <1>4 DEF ThreadInv
  <2> QED  BY <1>4, <2>1, HeldStays
<1>5. /\ pc' \in [Threads -> AdderPlaces \cup LoopPlaces] /\ my' \in [Threads -> Locals]
      /\ pc'["adder"] \in AdderPlaces /\ pc'["loop"] \in LoopPlaces
  BY <1>1 DEF ThreadInv, Threads
<1> QED
  BY <1>3, <1>4, <1>5 DEF ThreadInv

\* It goes elsewhere with what it has, or with nothing.
LEMMA ThreadGoes ==
    ASSUME TypeInv, Grows, NEW t \in Threads, pc[t] # "idle",
           NEW place \in (IF t = "adder" THEN AdderPlaces ELSE LoopPlaces) \ {"store"},
           Goto(t, place), place \in Planning => pc[t] \in Planning
    PROVE  ThreadInv'
<1>1. ThreadInv /\ Held(t) /\ my[t] \in Locals /\ added \in Nat /\ submitted \in Nat
  BY DEF TypeInv, ThreadInv, RuleInv, ManagerInv
<1>2. CASE place = "idle"
  <2>1. Nothing \in Locals
    BY Bounds DEF Nothing, Locals, Tasks
  <2>2. pc' = [pc EXCEPT ![t] = place] /\ my' = [my EXCEPT ![t] = Nothing]
    BY <1>2 DEF Goto
  <2>3. Nothing.rule \in 0 .. added' /\ Nothing.task \in 0 .. submitted'
    BY DEF Nothing, Grows, NoTask
  <2>4. Nothing.rule = 0 /\ place \notin Planning /\ place # "store"
    BY <1>2 DEF Nothing, Planning
  <2> QED  BY <1>2, <2>1, <2>2, <2>3, <2>4, ThreadMoves
<1>3. CASE place # "idle"
  <2>1. my[t].rule \in 0 .. added' /\ my[t].task \in 0 .. submitted'
    BY <1>1 DEF Held, Grows
  <2>2. my[t].rule # 0 /\ (place \in Planning => my[t].planned \in Nat)
    BY <1>1 DEF Held
  <2>3. pc' = [pc EXCEPT ![t] = place] /\ my' = [my EXCEPT ![t] = my[t]]
    BY <1>1, <1>3 DEF Goto, ThreadInv
  <2> QED  BY <1>1, <1>3, <2>1, <2>2, <2>3, ThreadMoves
<1> QED
  BY <1>2, <1>3

\* A thread that plans takes an occurrence to be submitted, or gives up.
LEMMA ThreadChooses ==
    ASSUME TypeInv, Grows, NEW t \in Threads, pc[t] # "idle", NEW n,
           n = Never \/ n \in Nat,
           NEW place \in (IF t = "adder" THEN AdderPlaces ELSE LoopPlaces) \ {"store"},
           place \notin Planning, Choose(t, n, place)
    PROVE  ThreadInv'
<1>1. CASE n = Never
  BY <1>1, ThreadGoes DEF Choose
<1>2. CASE n # Never
  <2>1. ThreadInv /\ Held(t) /\ my[t] \in Locals /\ added \in Nat /\ submitted \in Nat
    BY DEF TypeInv, ThreadInv, RuleInv, ManagerInv
  <2> DEFINE m == [my[t] EXCEPT !.planned = n]
  <2>2. m \in Locals /\ m.rule = my[t].rule /\ m.task = my[t].task /\ m.planned = n
    BY <1>2, <2>1 DEF Locals
  <2>3. my' = [my EXCEPT ![t] = m] /\ pc' = [pc EXCEPT ![t] = "submit"]
    BY <1>2, <2>1 DEF Choose, ThreadInv
  <2> HIDE DEF m
  <2>4. m.rule \in 0 .. added' /\ m.task \in 0 .. submitted' /\ m.rule # 0
    BY <2>1, <2>2 DEF Held, Grows
  <2>5. "submit" \in IF t = "adder" THEN AdderPlaces ELSE LoopPlaces
    BY DEF AdderPlaces, LoopPlaces
  <2> QED  BY <1>2, <2>2, <2>3, <2>4, <2>5, ThreadMoves
<1> QED
  BY <1>1, <1>2

\* Every step leaves each thread with what it should hold.
LEMMA ThreadStep == TypeInv /\ [Next]_vars => ThreadInv'
<1> SUFFICES ASSUME TypeInv, [Next]_vars PROVE ThreadInv'
  OBVIOUS
<1>0. /\ Grows /\ RuleInv /\ ManagerInv /\ ThreadInv
      /\ added \in Nat /\ submitted \in Nat
      /\ \A t \in Threads : my[t] \in Locals /\ Held(t)
      /\ "adder" \in Threads /\ "loop" \in Threads
  <2>1. Grows /\ RuleInv /\ ManagerInv /\ ThreadInv
    BY EveryStepGrows DEF TypeInv
  <2>2. added \in Nat /\ submitted \in Nat
    BY <2>1 DEF RuleInv, ManagerInv
  <2>3. \A t \in Threads : my[t] \in Locals /\ Held(t)
    BY <2>1 DEF ThreadInv
  <2> QED  BY <2>1, <2>2, <2>3 DEF Threads
<1>1. \A r \in 1 .. added : rule[r] \in Additions
  BY <1>0 DEF RuleInv
<1>2. CASE UNCHANGED <<pc, my>>
  BY <1>0, <1>2, ThreadsStay
<1>3. CASE AddRule
  <2> DEFINE m == [my["adder"] EXCEPT !.rule = added + 1]
  <2>1. added' = added + 1 /\ added < MaxRules /\ UNCHANGED submitted
    BY <1>3 DEF AddRule, managerVars
  <2>2. /\ m \in Locals /\ m.rule = added + 1 /\ m.task = my["adder"].task
    BY <1>0, <2>1, Bounds DEF Locals
  <2>3. my' = [my EXCEPT !["adder"] = m] /\ pc' = [pc EXCEPT !["adder"] = "first"]
    BY <1>0, <1>3 DEF AddRule, ThreadInv
  <2> HIDE DEF m
  <2>4. m.rule \in 0 .. added' /\ m.task \in 0 .. submitted' /\ m.rule # 0
    BY <1>0, <2>1, <2>2 DEF Held
  <2>5. "first" \in AdderPlaces /\ "first" \notin Planning
    BY DEF AdderPlaces, Planning
  <2> QED  BY <1>0, <2>2, <2>3, <2>4, <2>5, ThreadMoves
<1>4. CASE FirstPlanned
  <2>1. pc["adder"] = "first"
    BY <1>4 DEF FirstPlanned, At
  <2>2. PICK now \in Walls, next \in UNION {FirstDue(my["adder"].rule, w) : w \in Walls} :
           next \in FirstDue(my["adder"].rule, now) /\ Choose("adder", next, "undo")
    BY <1>4 DEF FirstPlanned
  <2>3. my["adder"].rule \in 1 .. added
    BY <1>0, <2>1, HeldRule
  <2>4. next = Never \/ next \in Nat
    BY <1>1, <2>2, <2>3, FirstDueMovesOn
  <2>5. "undo" \in AdderPlaces \ {"store"} /\ "undo" \notin Planning
    BY DEF AdderPlaces, Planning
  <2> QED  BY <1>0, <2>1, <2>2, <2>4, <2>5, ThreadChooses
<1>5. CASE FirstThrows \/ Undo
  <2>1. pc["adder"] # "idle" /\ \E place \in {"undo", "idle"} : Goto("adder", place)
    BY <1>5 DEF FirstThrows, Undo, At
  <2>2. \A place \in {"undo", "idle"} :
           place \in AdderPlaces \ {"store"} /\ place \notin Planning
    BY DEF AdderPlaces, Planning
  <2> QED  BY <1>0, <2>1, <2>2, ThreadGoes
<1>6. ASSUME NEW t \in Threads, Submit(t) PROVE ThreadInv'
  <2> DEFINE m == [my[t] EXCEPT !.task = submitted + 1]
  <2>1. /\ submitted' = submitted + 1 /\ submitted < MaxTasks /\ UNCHANGED added
        /\ owner' = Append(owner, my[t].rule) /\ pc[t] = "submit"
    BY <1>6 DEF Submit, ruleVars, At
  <2>2. /\ m \in Locals /\ m.rule = my[t].rule /\ m.task = submitted + 1
        /\ m.planned = my[t].planned
    <3>1. submitted + 1 \in Tasks /\ my[t] \in Locals
      BY <1>0, <2>1, Bounds DEF Tasks
    <3> QED  BY <3>1 DEF Locals
  <2>3. my' = [my EXCEPT ![t] = m] /\ pc' = [pc EXCEPT ![t] = "store"]
    BY <1>0, <1>6 DEF Submit, ThreadInv
  <2> HIDE DEF m
  <2>4. m.rule \in 0 .. added' /\ m.task \in 1 .. submitted' /\ m.rule # 0 /\ m.planned \in Nat
    BY <1>0, <2>1, <2>2 DEF Held, Planning
  <2>5. owner'[m.task] = m.rule
    <3>1. owner \in Seq(Rules) /\ Len(owner) = submitted
      BY <1>0 DEF ManagerInv
    <3> QED  BY <1>0, <2>1, <2>2, <3>1
  <2>6. "store" \in IF t = "adder" THEN AdderPlaces ELSE LoopPlaces
    BY DEF AdderPlaces, LoopPlaces
  <2>7. m.task \in 0 .. submitted'
    BY <1>0, <2>1, <2>4
  <2> QED  BY <1>0, <2>2, <2>3, <2>4, <2>5, <2>6, <2>7, ThreadMoves
<1>7. ASSUME NEW t \in Threads, SubmitRefused(t) \/ Store(t) \/ TakeBack(t) PROVE ThreadInv'
  <2>1. pc[t] # "idle" /\ \E place \in {Failed(t), "idle"} : Goto(t, place)
    BY <1>7 DEF SubmitRefused, Store, TakeBack, At
  <2>2. \A place \in {Failed(t), "idle"} :
           /\ place \in (IF t = "adder" THEN AdderPlaces ELSE LoopPlaces) \ {"store"}
           /\ place \notin Planning
    BY DEF AdderPlaces, LoopPlaces, Planning, Failed
  <2> QED  BY <1>0, <2>1, <2>2, ThreadGoes
<1>8. ASSUME NEW k \in Tasks, StartTask(k) PROVE ThreadInv'
  <2> DEFINE m == [my["loop"] EXCEPT !.rule = owner[k]]
  <2>1. /\ UNCHANGED <<added, submitted>> /\ k \in 1 .. submitted
        /\ owner[k] \in 1 .. added /\ owner[k] \in 0 .. MaxRules
    BY <1>0, <1>8, Bounds DEF StartTask, ruleVars, ManagerInv, RuleInv
  <2>2. m \in Locals /\ m.rule = owner[k] /\ m.task = my["loop"].task
    BY <1>0, <2>1 DEF Locals
  <2>3. my' = [my EXCEPT !["loop"] = m] /\ pc' = [pc EXCEPT !["loop"] = "due"]
    BY <1>0, <1>8 DEF StartTask, ThreadInv
  <2> HIDE DEF m
  <2>4. m.rule \in 0 .. added' /\ m.task \in 0 .. submitted' /\ m.rule # 0
    BY <1>0, <2>1, <2>2 DEF Held
  <2>5. "due" \in LoopPlaces /\ "due" \notin Planning
    BY DEF LoopPlaces, Planning
  <2> QED  BY <1>0, <2>2, <2>3, <2>4, <2>5, ThreadMoves
<1>9. CASE RunDue
  <2> DEFINE m == [my["loop"] EXCEPT !.planned = planned[my["loop"].rule]]
  <2>1. UNCHANGED <<added, submitted>> /\ pc["loop"] = "due"
    BY <1>9 DEF RunDue, ruleVars, managerVars, At
  <2>2. my["loop"].rule \in Rules
    BY <1>0, <2>1, HeldRule
  <2>3. planned[my["loop"].rule] \in Nat
    BY <1>0, <2>2 DEF RuleInv
  <2>4. /\ m \in Locals /\ m.rule = my["loop"].rule /\ m.task = my["loop"].task
        /\ m.planned \in Nat
    BY <1>0, <2>3 DEF Locals
  <2>5. my' = [my EXCEPT !["loop"] = m] /\ pc' = [pc EXCEPT !["loop"] = "callback"]
    BY <1>0, <1>9 DEF RunDue, ThreadInv
  <2> HIDE DEF m
  <2>6. m.rule \in 0 .. added' /\ m.task \in 0 .. submitted' /\ m.rule # 0
    BY <1>0, <2>1, <2>4 DEF Held
  <2>7. "callback" \in LoopPlaces
    BY DEF LoopPlaces
  <2> QED  BY <1>0, <2>4, <2>5, <2>6, <2>7, ThreadMoves
<1>10. CASE \/ RunDueReturns \/ CallbackReturns \/ CallbackThrows \/ AfterCallback
            \/ CheckCancelled \/ NextThrows \/ Complete
  <2>1. /\ pc["loop"] # "idle"
        /\ \/ \E place \in {"idle", "complete"} : Goto("loop", place)
           \/ pc["loop"] \in Planning /\ \E place \in {"after", "check", "next"} :
                 Goto("loop", place)
    BY <1>10 DEF RunDueReturns, CallbackReturns, CallbackThrows, AfterCallback,
       CheckCancelled, NextThrows, Complete, At, Planning
  <2>2. \A place \in {"idle", "complete"} :
           place \in LoopPlaces \ {"store"} /\ place \notin Planning
    BY DEF LoopPlaces, Planning
  <2>3. \A place \in {"after", "check", "next"} : place \in LoopPlaces \ {"store"}
    BY DEF LoopPlaces
  <2> QED  BY <1>0, <2>1, <2>2, <2>3, ThreadGoes
<1>11. CASE NextPlanned
  <2>1. pc["loop"] = "next" /\ my["loop"].planned \in Nat
    BY <1>0, <1>11 DEF NextPlanned, At, Held, Planning
  <2>2. PICK now \in Walls, next \in UNION {NextDue(my["loop"].rule, my["loop"].planned, w)
                                               : w \in Walls} :
           /\ next \in NextDue(my["loop"].rule, my["loop"].planned, now)
           /\ Choose("loop", next, "complete")
    BY <1>11 DEF NextPlanned
  <2>3. my["loop"].rule \in 1 .. added
    BY <1>0, <2>1, HeldRule
  <2>4. next = Never \/ next \in Nat
    BY <1>1, <2>1, <2>2, <2>3, NextDueMovesOn
  <2>5. "complete" \in LoopPlaces \ {"store"} /\ "complete" \notin Planning
    BY DEF LoopPlaces, Planning
  <2> QED  BY <1>0, <2>1, <2>2, <2>4, <2>5, ThreadChooses
<1>12. CASE StopTask \/ Cancelling \/ Managing \/ UNCHANGED vars
  <2>1. UNCHANGED <<pc, my>>
    BY <1>12 DEF StopTask, Cancelling, Cancel, CancelVictim, CancelAll, CancelDoomed,
       Managing, ManagerCloses, ManagerClears, vars
  <2> QED  BY <1>2, <2>1
<1> QED
  BY <1>3, <1>4, <1>5, <1>6, <1>7, <1>8, <1>9, <1>10, <1>11, <1>12, NextCases
     DEF Adding, Recordings, Running

\* Every step keeps the types.
LEMMA TypeStep == TypeInv /\ [Next]_vars => TypeInv'
BY RuleStep, ManagerStep, FlagStep, ThreadStep DEF TypeInv

\* Every variable keeps its type, and a rule is cancelled when it is forgotten,
\* wherever rules are added.
THEOREM TypeCorrect == Spec => []TypeOK
<1>1. TypeInv => TypeOK
  <2> SUFFICES ASSUME TypeInv PROVE TypeOK
    OBVIOUS
  <2>1. RuleInv /\ ManagerInv /\ FlagInv /\ ThreadInv
    BY DEF TypeInv
  <2>2. /\ added \in 0 .. MaxRules /\ DOMAIN rule = 1 .. added
        /\ active \subseteq 1 .. added /\ cancelled \subseteq 1 .. added
        /\ 1 .. added \subseteq active \cup cancelled
        /\ planned \in [Rules -> Nat] /\ lastRun \in [Rules -> Nat \cup {Never}]
        /\ doomed \subseteq Rules /\ orphaned \subseteq Rules
    BY <2>1, Bounds DEF RuleInv, Rules
  <2>3. submitted \in Nat /\ 0 .. submitted \subseteq Tasks \cup {NoTask}
    BY <2>1, Bounds DEF ManagerInv, Tasks, NoTask
  <2>4. owner \in [1 .. submitted -> Rules]
    BY <2>1 DEF ManagerInv
  <2>5. /\ submitted \in 0 .. MaxTasks /\ queued \subseteq 1 .. submitted
        /\ scheduled \in [Rules -> Tasks \cup {NoTask}]
        /\ running \in Tasks \cup {NoTask} /\ victim \in Tasks \cup {NoTask}
    BY <2>1, <2>3 DEF ManagerInv
  <2>6. DOMAIN pc = Threads /\ my \in [Threads -> Locals]
    BY <2>1 DEF ThreadInv
  <2>7. closed \in BOOLEAN /\ managerClosed \in BOOLEAN /\ stopped \in BOOLEAN
    BY <2>1 DEF FlagInv
  <2> QED  BY <2>2, <2>4, <2>5, <2>6, <2>7, Zenon DEF TypeOK
<1> QED
  BY <1>1, TypeInit, TypeStep, PTL DEF Spec

--------------------------------------------------------------------------------
(* The scan of the rules at hand. *)

\* The days a scan looks at suffice, and it finds the next instant at which the
\* clocks of the zone show a scheduled time for the first time, in any zone whose
\* clocks are turned by a day at most, for any daily, weekly or monthly rule and
\* any bound: gaps and folds neither hide an occurrence nor repeat one.
THEOREM ScanIsRight == RegularCalendar => (Spec => []ScanFindsNext)
<1> SUFFICES ASSUME RegularCalendar PROVE Spec => []ScanFindsNext
  OBVIOUS
<1>1. TypeInv => ScanFindsNext
  <2> SUFFICES ASSUME TypeInv, NEW t \in Threads, NEW r, r = my[t].rule,
                      pc[t] \in {"first", "next"}, rule[r].provider # Custom,
                      NEW after \in Walls \cup ({my[t].planned} \ {Never})
               PROVE  scan_local_days(rule[r].provider, rule[r].zone, after) =
                         NextOccurrence(rule[r].provider, rule[r].zone, after,
                                        (MaxDays(rule[r].provider) + 3) * DayLength)
    BY DEF ScanFindsNext
  <2>1. rule[r] \in Additions
    <3>1. r \in 1 .. added
      BY DEF TypeInv, ThreadInv, Held, RuleInv
    <3> QED  BY <3>1 DEF TypeInv, RuleInv
  <2>2. Regular(rule[r].zone) /\ Provider(rule[r].provider) /\ RegularYear
    BY <2>1, CalendarAssumption DEF RegularCalendar, Regular, Zone, Provider
  <2>3. after \in Nat
    BY CalendarAssumption DEF TypeInv, ThreadInv, Locals
  <2> QED  BY <2>2, <2>3, ScanIsExact
<1> QED
  BY <1>1, TypeInit, TypeStep, PTL DEF Spec

--------------------------------------------------------------------------------
(* The task of a rule, with rules added on the loop's thread. *)

\* One thread's turn ends before the other's begins, except in a callback.
OneTurn == pc["adder"] = "idle" \/ pc["loop"] \in {"idle", "callback"}

\* The two have different rules in hand.
Apart == \A t, u \in Threads : my[t].rule = my[u].rule /\ my[t].rule # 0 => t = u

\* A queued task is known to the thread that is about to record it ...
InRecord(k) == \E t \in Threads : pc[t] = "store" /\ my[t].task = k /\ my[t].rule = owner[k]

\* ... or it is recorded, and nobody is busy with its rule.
Recorded(k) == scheduled[owner[k]] = k /\ \A t \in Threads : my[t].rule # owner[k]

QueuedInv == \A k \in queued : InRecord(k) \/ Recorded(k)

\* A rule that is neither cancelled nor orphaned.
Live(r) == r \in active /\ r \notin cancelled /\ r \notin orphaned

\* It has a task or is in a thread's hand.
Served(r) ==
    \/ \E k \in queued : owner[k] = r
    \/ \E t \in Threads : my[t].rule = r /\ pc[t] # "store"

ServedInv == \A r \in 1 .. added : Live(r) => Served(r)

\* cancel() takes only tasks of cancelled rules ...
VictimInv ==
    /\ victim # NoTask => owner[victim] \in cancelled
    /\ doomed \subseteq cancelled
    /\ \A r \in Rules : scheduled[r] # NoTask => owner[scheduled[r]] = r

\* ... and every queued one of them that is not about to be recorded.
CancelInv ==
    \A k \in queued :
        owner[k] \in cancelled => InRecord(k) \/ owner[k] \in doomed \/ k = victim

\* A thread's planned instant is ahead of the rule's last run.
Ahead(t) ==
    /\ pc[t] = "due" => planned[my[t].rule] > lastRun[my[t].rule]
    /\ pc[t] \in {"callback", "submit", "store"} => my[t].planned > lastRun[my[t].rule]
    /\ pc[t] \in {"after", "check", "next"} => my[t].planned = lastRun[my[t].rule]
    /\ pc[t] = "first" => lastRun[my[t].rule] = rule[my[t].rule].last

\* So is the recorded one while the task waits.
ForwardInv ==
    /\ \A k \in queued : Recorded(k) => planned[owner[k]] > lastRun[owner[k]]
    /\ \A t \in Threads : Ahead(t)

TaskInv == OneTurn /\ Apart /\ QueuedInv /\ ServedInv /\ VictimInv /\ CancelInv

\* The initial state has nothing queued and nothing in hand.
LEMMA TaskInit == Init => TaskInv /\ ForwardInv
BY DEF Init, TaskInv, ForwardInv, Ahead, OneTurn, Apart, QueuedInv, ServedInv, VictimInv,
       CancelInv, Threads, Nothing, NoTask

\* The other thread does nothing.
Others(t) == \A u \in Threads \ {t} : pc'[u] = pc[u] /\ my'[u] = my[u]

\* What a thread does with the rule in its hand, and nothing else: it keeps it in
\* hand or lets go of it when it is cancelled or orphaned.
Works(t) ==
    /\ pc[t] \notin {"idle", "store"} /\ pc'[t] # "store"
    /\ Others(t)
    /\ my'[t].rule = IF pc'[t] = "idle" THEN 0 ELSE my[t].rule
    /\ UNCHANGED <<added, rule, submitted, owner, queued, victim, doomed>>
    /\ \A r \in Rules \ {my[t].rule} :
          /\ scheduled'[r] = scheduled[r] /\ planned'[r] = planned[r]
          /\ lastRun'[r] = lastRun[r]
    /\ scheduled'[my[t].rule] \in {scheduled[my[t].rule], NoTask}
    /\ active' \subseteq active
    /\ cancelled \subseteq cancelled' /\ cancelled' \subseteq cancelled \cup {my[t].rule}
    /\ orphaned \subseteq orphaned'
    /\ pc'[t] = "idle" /\ my[t].rule \in active' => my[t].rule \in cancelled' \cup orphaned'

\* The steps that do no more than that.
Work(t) ==
    \/ t = "adder" /\ (FirstPlanned \/ FirstThrows \/ Undo)
    \/ SubmitRefused(t)
    \/ t = "loop" /\ \/ RunDueReturns \/ RunDue \/ CallbackReturns \/ CallbackThrows
                     \/ AfterCallback \/ CheckCancelled \/ NextPlanned \/ NextThrows
                     \/ Complete

\* The threads do nothing; tasks may go and rules be cancelled.
Aside ==
    /\ UNCHANGED <<pc, my, added, rule, submitted, owner, scheduled, planned, lastRun>>
    /\ active' \subseteq active /\ cancelled \subseteq cancelled' /\ orphaned \subseteq orphaned'
    /\ queued' \subseteq queued

\* The steps of the threads, and those of nobody in particular.
LEMMA StepKinds ==
    [Next]_vars => \/ AddRule
                   \/ \E t \in Threads : Work(t) \/ Submit(t) \/ Store(t) \/ TakeBack(t)
                   \/ \E k \in Tasks : StartTask(k)
                   \/ StopTask \/ Cancelling \/ Managing \/ UNCHANGED vars
BY NextCases DEF Adding, Recordings, Running, Work, Threads

\* A thread that goes elsewhere.
LEMMA GoesOn ==
    ASSUME TypeInv, NEW t \in Threads, NEW place, place # "store", Goto(t, place)
    PROVE  /\ pc'[t] = place
           /\ \A u \in Threads \ {t} : pc'[u] = pc[u] /\ my'[u] = my[u]
           /\ my'[t].rule = IF pc'[t] = "idle" THEN 0 ELSE my[t].rule
           /\ my'[t].planned = IF pc'[t] = "idle" THEN Never ELSE my[t].planned
<1>1. pc \in [Threads -> AdderPlaces \cup LoopPlaces] /\ my \in [Threads -> Locals]
  BY DEF TypeInv, ThreadInv
<1> QED
  BY <1>1 DEF Goto, Nothing

\* Or chooses an occurrence.
LEMMA ChoiceGoesOn ==
    ASSUME TypeInv, NEW t \in Threads, pc[t] # "idle", NEW n, NEW place,
           place \notin {"idle", "store"}, Choose(t, n, place)
    PROVE  /\ pc'[t] = (IF n = Never THEN place ELSE "submit")
           /\ \A u \in Threads \ {t} : pc'[u] = pc[u] /\ my'[u] = my[u]
           /\ my'[t].rule = my[t].rule
           /\ my'[t].planned = IF n = Never THEN my[t].planned ELSE n
<1>1. /\ pc \in [Threads -> AdderPlaces \cup LoopPlaces] /\ my \in [Threads -> Locals]
      /\ my[t] \in Locals
  BY DEF TypeInv, ThreadInv
<1>2. CASE n = Never
  BY <1>2, GoesOn DEF Choose
<1>3. CASE n # Never
  BY <1>1, <1>3 DEF Choose, Locals
<1> QED
  BY <1>2, <1>3

\* A step of work is what it should be.
LEMMA WorkIsWork ==
    ASSUME TypeInv, NEW t \in Threads, Work(t)
    PROVE  Works(t)
<1>0. "adder" \in Threads /\ "loop" \in Threads
  BY DEF Threads
<1>1. CASE t = "adder" /\ FirstPlanned
  <2>1. PICK next : Choose("adder", next, "undo")
    BY <1>1 DEF FirstPlanned
  <2>2. pc["adder"] = "first"
    BY <1>1 DEF FirstPlanned, At
  <2>3. /\ pc'["adder"] \in {"undo", "submit"}
        /\ \A u \in Threads \ {"adder"} : pc'[u] = pc[u] /\ my'[u] = my[u]
        /\ my'["adder"].rule = my["adder"].rule
    BY <1>0, <2>1, <2>2, ChoiceGoesOn
  <2> QED
    BY <1>1, <2>2, <2>3 DEF Works, Others, FirstPlanned, ruleVars, coreVars, managerVars,
       historyVars, cancelVars
<1>2. CASE t = "adder" /\ FirstThrows
  BY <1>0, <1>2, GoesOn DEF FirstThrows, At, Works, Others, ruleVars, coreVars, managerVars,
     historyVars, cancelVars
<1>3. CASE t = "adder" /\ Undo
  <2>1. pc["adder"] = "undo" /\ my["adder"].rule \in 1 .. added
    BY <1>0, <1>3, HeldRule DEF Undo, At
  <2>2. my["adder"].rule \notin active' /\ active' \subseteq active
    BY <1>3 DEF Undo
  <2> QED
    BY <1>0, <1>3, <2>1, <2>2, GoesOn DEF Undo, Works, Others, ruleVars, managerVars,
       historyVars, cancelVars
<1>4. CASE SubmitRefused(t)
  <2>1. Failed(t) \notin {"idle", "store"}
    BY DEF Failed
  <2> QED
    BY <1>4, <2>1, GoesOn DEF SubmitRefused, At, Works, Others, ruleVars, coreVars, managerVars,
       historyVars, cancelVars
<1>5. CASE t = "loop" /\ RunDueReturns
  <2>1. my["loop"].rule \in active' => my["loop"].rule \in cancelled' \cup orphaned'
    <3>1. Dead(my["loop"].rule) /\ UNCHANGED <<active, cancelled, closed>>
      BY <1>5 DEF RunDueReturns, coreVars
    <3>2. closed => active = {}
      BY DEF TypeInv, RuleInv
    <3> QED  BY <3>1, <3>2, Zenon DEF Dead
  <2>2. pc["loop"] = "due" /\ Goto("loop", "idle")
    BY <1>5 DEF RunDueReturns, At
  <2> QED
    BY <1>0, <1>5, <2>1, <2>2, GoesOn DEF RunDueReturns, Works, Others, ruleVars, coreVars,
       managerVars, historyVars, cancelVars
<1>6. CASE t = "loop" /\ RunDue
  <2>1. /\ pc["loop"] = "due" /\ pc' = [pc EXCEPT !["loop"] = "callback"]
        /\ my' = [my EXCEPT !["loop"].planned = planned[my["loop"].rule]]
        /\ scheduled' = [scheduled EXCEPT ![my["loop"].rule] = NoTask]
    BY <1>6 DEF RunDue, At
  <2>2. /\ pc \in [Threads -> AdderPlaces \cup LoopPlaces] /\ my \in [Threads -> Locals]
        /\ my["loop"] \in Locals
    BY <1>0 DEF TypeInv, ThreadInv
  <2>3. my["loop"].rule \in Rules /\ scheduled \in [Rules -> 0 .. submitted]
    BY <1>0, <2>1, HeldRule DEF TypeInv, ManagerInv
  <2>4. /\ pc'["loop"] = "callback" /\ my'["loop"].rule = my["loop"].rule
        /\ \A u \in Threads \ {"loop"} : pc'[u] = pc[u] /\ my'[u] = my[u]
    <3> DEFINE old == my["loop"]
               new == [old EXCEPT !.planned = planned[old.rule]]
    <3>1. my' = [my EXCEPT !["loop"] = new]
      BY <2>1
    <3>2. new.rule = old.rule
      BY <2>2 DEF Locals
    <3> HIDE DEF new
    <3>3. my'["loop"] = new /\ \A u \in Threads \ {"loop"} : my'[u] = my[u]
      BY <1>0, <2>2, <3>1
    <3> QED  BY <1>0, <2>1, <2>2, <3>2, <3>3
  <2>5. /\ scheduled'[my["loop"].rule] = NoTask
        /\ \A r \in Rules \ {my["loop"].rule} : scheduled'[r] = scheduled[r]
    BY <2>1, <2>3
  <2> QED
    BY <1>6, <2>1, <2>4, <2>5 DEF RunDue, Works, Others, ruleVars, managerVars, historyVars,
       cancelVars
<1>7. CASE t = "loop" /\ (CallbackReturns \/ CallbackThrows)
  <2>1. /\ pc["loop"] = "callback" /\ Ran
        /\ Goto("loop", "after") \/ Goto("loop", "complete")
    BY <1>7 DEF CallbackReturns, CallbackThrows, At
  <2>2. my["loop"].rule \in Rules /\ lastRun \in [Rules -> Nat \cup {Never}]
    BY <1>0, <2>1, HeldRule DEF TypeInv, RuleInv
  <2>3. \A r \in Rules \ {my["loop"].rule} : lastRun'[r] = lastRun[r]
    BY <2>1, <2>2 DEF Ran
  <2> QED
    BY <1>0, <1>7, <2>1, <2>3, GoesOn DEF CallbackReturns, CallbackThrows, Works, Others,
       ruleVars, coreVars, managerVars, cancelVars
<1>8. CASE t = "loop" /\ AfterCallback
  <2>1. cancelled' = cancelled \/ cancelled' = cancelled \cup {my["loop"].rule}
    BY <1>8, Zenon DEF AfterCallback
  <2> QED
    BY <1>0, <1>8, <2>1, GoesOn DEF AfterCallback, At, Works, Others, ruleVars, managerVars,
       historyVars, cancelVars
<1>9. CASE t = "loop" /\ CheckCancelled
  <2>1. PICK place \in {"complete", "next"} : Goto("loop", place)
    BY <1>9, Zenon DEF CheckCancelled
  <2> QED
    BY <1>0, <1>9, <2>1, GoesOn DEF CheckCancelled, At, Works, Others, ruleVars, coreVars,
       managerVars, historyVars, cancelVars
<1>10. CASE t = "loop" /\ NextPlanned
  <2>1. PICK next : Choose("loop", next, "complete")
    BY <1>10 DEF NextPlanned
  <2>2. pc["loop"] = "next"
    BY <1>10 DEF NextPlanned, At
  <2>3. /\ pc'["loop"] \in {"complete", "submit"}
        /\ \A u \in Threads \ {"loop"} : pc'[u] = pc[u] /\ my'[u] = my[u]
        /\ my'["loop"].rule = my["loop"].rule
    BY <1>0, <2>1, <2>2, ChoiceGoesOn
  <2> QED
    BY <1>10, <2>2, <2>3 DEF Works, Others, NextPlanned, ruleVars, coreVars, managerVars,
       historyVars, cancelVars
<1>11. CASE t = "loop" /\ (NextThrows \/ Complete)
  <2>1. my["loop"].rule \in active' => my["loop"].rule \in cancelled' \cup orphaned'
    BY <1>11 DEF NextThrows, Complete
  <2>2. pc["loop"] \in {"next", "complete"} /\ Goto("loop", "idle")
    BY <1>11 DEF NextThrows, Complete, At
  <2> QED
    BY <1>0, <1>11, <2>1, <2>2, GoesOn DEF NextThrows, Complete, Works, Others, ruleVars,
       coreVars, managerVars, historyVars, cancelVars
<1> QED
  BY <1>1, <1>2, <1>3, <1>4, <1>5, <1>6, <1>7, <1>8, <1>9, <1>10, <1>11 DEF Work

\* What the steps of nobody in particular are.
LEMMA AsideSteps ==
    StopTask \/ Cancelling \/ Managing \/ UNCHANGED vars => Aside
BY DEF StopTask, Cancelling, Cancel, CancelVictim, CancelAll, CancelDoomed, CancelTask,
       Managing, ManagerCloses, ManagerClears, vars, Aside, ruleVars, coreVars, managerVars,
       historyVars, cancelVars

\* add_rule() takes an id that no task and no thread has.
LEMMA AddRuleIs ==
    ASSUME TypeInv, AddRule
    PROVE  /\ pc["adder"] = "idle" /\ added' = added + 1 /\ added + 1 \in Rules
           /\ added \in Nat
           /\ pc'["adder"] = "first" /\ my'["adder"].rule = added + 1
           /\ Others("adder")
           /\ rule' \in Seq(Additions) /\ Len(rule') = added + 1
           /\ lastRun' = [lastRun EXCEPT ![added + 1] = rule'[added + 1].last]
           /\ active' = active \cup {added + 1}
           /\ UNCHANGED <<cancelled, scheduled, planned, submitted, owner, queued, victim,
                          doomed, orphaned>>
           /\ \A r \in 1 .. added : rule'[r] = rule[r]
<1>1. /\ pc \in [Threads -> AdderPlaces \cup LoopPlaces] /\ my \in [Threads -> Locals]
      /\ added \in Nat /\ "adder" \in Threads
      /\ rule \in Seq(Additions) /\ Len(rule) = added
  BY DEF TypeInv, ThreadInv, RuleInv, Threads
<1>2. PICK a \in Additions : /\ rule' = Append(rule, a)
                             /\ lastRun' = [lastRun EXCEPT ![added + 1] = a.last]
  BY DEF AddRule
<1>3. /\ rule' \in Seq(Additions) /\ Len(rule') = added + 1 /\ rule'[added + 1] = a
      /\ \A r \in 1 .. added : rule'[r] = rule[r]
  BY <1>1, <1>2
<1>4. added + 1 \in Rules
  BY <1>1, Bounds DEF AddRule, Rules
<1>5. my'["adder"].rule = added + 1 /\ \A u \in Threads \ {"adder"} : my'[u] = my[u]
  BY <1>1 DEF AddRule, Locals
<1>6. pc'["adder"] = "first" /\ \A u \in Threads \ {"adder"} : pc'[u] = pc[u]
  BY <1>1 DEF AddRule
<1> QED
  BY <1>1, <1>2, <1>3, <1>4, <1>5, <1>6 DEF AddRule, At, Others, managerVars, cancelVars

\* add_task_at() leaves the thread with a task of its rule, and it is queued.
LEMMA SubmitIs ==
    ASSUME TypeInv, NEW t \in Threads, Submit(t)
    PROVE  /\ pc[t] = "submit" /\ pc'[t] = "store"
           /\ my'[t].rule = my[t].rule /\ my'[t].task = submitted + 1
           /\ my'[t].planned = my[t].planned
           /\ Others(t)
           /\ submitted' = submitted + 1 /\ submitted \in Nat
           /\ queued' = queued \cup {submitted + 1}
           /\ owner'[submitted + 1] = my[t].rule
           /\ \A k \in 1 .. submitted : owner'[k] = owner[k]
           /\ UNCHANGED <<added, rule, active, cancelled, scheduled, planned, victim, doomed,
                          lastRun, orphaned>>
<1>1. /\ pc \in [Threads -> AdderPlaces \cup LoopPlaces] /\ my \in [Threads -> Locals]
      /\ my[t] \in Locals
      /\ submitted \in Nat /\ owner \in Seq(Rules) /\ Len(owner) = submitted
  BY DEF TypeInv, ThreadInv, ManagerInv
<1>2. /\ pc[t] = "submit" /\ pc' = [pc EXCEPT ![t] = "store"]
      /\ my' = [my EXCEPT ![t].task = submitted + 1]
      /\ owner' = Append(owner, my[t].rule)
  BY DEF Submit, At
<1>3. /\ my'[t].rule = my[t].rule /\ my'[t].task = submitted + 1
      /\ my'[t].planned = my[t].planned
      /\ \A u \in Threads \ {t} : my'[u] = my[u]
  <2> DEFINE new == [my[t] EXCEPT !.task = submitted + 1]
  <2>1. /\ new.rule = my[t].rule /\ new.task = submitted + 1
        /\ new.planned = my[t].planned
    BY <1>1 DEF Locals
  <2>2. my' = [my EXCEPT ![t] = new]
    BY <1>2
  <2> HIDE DEF new
  <2> QED  BY <1>1, <2>1, <2>2
<1>4. my[t].rule \in Rules
  BY <1>2, HeldRule
<1>5. /\ owner'[submitted + 1] = my[t].rule
      /\ \A k \in 1 .. submitted : owner'[k] = owner[k]
  BY <1>1, <1>2, <1>4
<1>6. pc'[t] = "store" /\ \A u \in Threads \ {t} : pc'[u] = pc[u]
  BY <1>1, <1>2
<1> QED
  BY <1>1, <1>2, <1>3, <1>5, <1>6 DEF Submit, Others, ruleVars, coreVars, cancelVars,
     historyVars

\* The record of a live rule's task.
LEMMA StoreIs ==
    ASSUME TypeInv, NEW t \in Threads, Store(t)
    PROVE  /\ pc[t] = "store" /\ pc'[t] = "idle" /\ my'[t].rule = 0
           /\ my[t].rule \in Rules /\ owner[my[t].task] = my[t].rule
           /\ my[t].rule \notin cancelled
           /\ Others(t)
           /\ scheduled'[my[t].rule] = my[t].task /\ planned'[my[t].rule] = my[t].planned
           /\ \A r \in Rules \ {my[t].rule} :
                 scheduled'[r] = scheduled[r] /\ planned'[r] = planned[r]
           /\ UNCHANGED <<added, rule, active, cancelled, submitted, owner, queued, victim,
                          doomed, lastRun, orphaned>>
<1>1. /\ scheduled \in [Rules -> 0 .. submitted] /\ planned \in [Rules -> Nat]
      /\ Held(t) /\ pc[t] = "store"
  BY DEF TypeInv, ThreadInv, ManagerInv, RuleInv, Store, At
<1>2. my[t].rule \in Rules /\ owner[my[t].task] = my[t].rule
  BY <1>1, HeldRule DEF Held
<1>3. /\ pc'[t] = "idle" /\ my'[t].rule = 0
      /\ \A u \in Threads \ {t} : pc'[u] = pc[u] /\ my'[u] = my[u]
  BY GoesOn DEF Store
<1>4. /\ scheduled' = [scheduled EXCEPT ![my[t].rule] = my[t].task]
      /\ planned' = [planned EXCEPT ![my[t].rule] = my[t].planned]
  BY DEF Store
<1>5. my[t].rule \notin cancelled
  BY DEF Store, Dead
<1> QED
  BY <1>1, <1>2, <1>3, <1>4, <1>5 DEF Store, Others, ruleVars, managerVars, cancelVars,
     historyVars

\* A dead rule's task is taken back, and its thread keeps the rule in hand.
LEMMA TakeBackIs ==
    ASSUME TypeInv, NEW t \in Threads, TakeBack(t)
    PROVE  /\ pc[t] = "store" /\ pc'[t] \in {"undo", "complete"}
           /\ my'[t].rule = my[t].rule /\ Others(t)
           /\ queued' = queued \ {my[t].task}
           /\ UNCHANGED <<added, rule, active, cancelled, scheduled, planned, submitted, owner,
                          victim, doomed, lastRun, orphaned>>
<1>1. pc[t] = "store" /\ Goto(t, Failed(t)) /\ Failed(t) \in {"undo", "complete"}
  BY DEF TakeBack, At, Failed
<1>2. /\ pc'[t] = Failed(t) /\ my'[t].rule = my[t].rule
      /\ \A u \in Threads \ {t} : pc'[u] = pc[u] /\ my'[u] = my[u]
  BY <1>1, GoesOn
<1> QED
  BY <1>1, <1>2 DEF TakeBack, CancelTask, Others, ruleVars, coreVars, cancelVars, historyVars

\* A queued task is started, and its rule is in the loop's hand.
LEMMA StartTaskIs ==
    ASSUME TypeInv, NEW k, StartTask(k)
    PROVE  /\ pc["loop"] = "idle" /\ pc'["loop"] = "due"
           /\ k \in queued /\ my'["loop"].rule = owner[k] /\ owner[k] \in 1 .. added
           /\ Others("loop")
           /\ queued' = queued \ {k}
           /\ UNCHANGED <<added, rule, active, cancelled, scheduled, planned, submitted, owner,
                          victim, doomed, lastRun, orphaned>>
<1>1. /\ pc \in [Threads -> AdderPlaces \cup LoopPlaces] /\ my \in [Threads -> Locals]
      /\ "loop" \in Threads
  BY DEF TypeInv, ThreadInv, Threads
<1>2. k \in queued /\ owner[k] \in 1 .. added
  BY DEF StartTask, TypeInv, ManagerInv
<1>3. my'["loop"].rule = owner[k] /\ \A u \in Threads \ {"loop"} : my'[u] = my[u]
  BY <1>1 DEF StartTask, Locals
<1>4. pc'["loop"] = "due" /\ \A u \in Threads \ {"loop"} : pc'[u] = pc[u]
  BY <1>1 DEF StartTask
<1> QED
  BY <1>2, <1>3, <1>4 DEF StartTask, At, Others, ruleVars, coreVars, cancelVars, historyVars

\* The steps as the invariants see them.
Kinds ==
    \/ AddRule
    \/ \E t \in Threads : Works(t) \/ Submit(t) \/ Store(t) \/ TakeBack(t)
    \/ \E k \in Tasks : StartTask(k)
    \/ Aside

\* Every step is one of them.
LEMMA EveryStep == TypeInv /\ [Next]_vars => Kinds
BY StepKinds, WorkIsWork, AsideSteps DEF Kinds

\* Threads that are one take turns.
LEMMA TurnStep == AddsOnLoop /\ TypeInv /\ OneTurn /\ [Next]_vars => OneTurn'
<1> SUFFICES ASSUME AddsOnLoop, TypeInv, OneTurn, [Next]_vars PROVE OneTurn'
  OBVIOUS
<1>0. pc \in [Threads -> AdderPlaces \cup LoopPlaces]
  BY DEF TypeInv, ThreadInv
<1> USE DEF OneTurn, At, Turn, Threads
<1>1. CASE Adding
  <2>1. pc["loop"] \in {"idle", "callback"} /\ pc'["loop"] = pc["loop"]
    BY <1>0, <1>1 DEF Adding, AddRule, FirstPlanned, FirstThrows, Undo, Choose, Goto
  <2> QED  BY <2>1
<1>2. ASSUME NEW t \in Threads, Recordings(t) PROVE OneTurn'
  <2>1. \E place : pc' = [pc EXCEPT ![t] = place]
    BY <1>2 DEF Recordings, Submit, SubmitRefused, Store, TakeBack, Goto
  <2>2. IF t = "loop" THEN pc["adder"] = "idle" ELSE pc["loop"] \in {"idle", "callback"}
    BY <1>2 DEF Recordings, Submit, SubmitRefused, Store, TakeBack
  <2> QED  BY <1>0, <2>1, <2>2
<1>3. CASE Running
  <2>1. StopTask \/ \E place : pc' = [pc EXCEPT !["loop"] = place]
    BY <1>3 DEF Running, StartTask, RunDueReturns, RunDue, CallbackReturns, CallbackThrows,
       AfterCallback, CheckCancelled, NextPlanned, NextThrows, Complete, Choose, Goto
  <2>2. pc["adder"] = "idle"
    BY <1>3 DEF Running, StartTask, RunDueReturns, RunDue, StopTask, CallbackReturns,
       CallbackThrows, AfterCallback, CheckCancelled, NextPlanned, NextThrows, Complete
  <2>3. StopTask => UNCHANGED pc
    BY DEF StopTask
  <2> QED  BY <1>0, <2>1, <2>2, <2>3
<1>4. CASE Cancelling \/ Managing \/ UNCHANGED vars
  BY <1>4, AsideSteps DEF Aside
<1> QED
  BY <1>1, <1>2, <1>3, <1>4, NextCases

\* A task is started while nobody adds a rule.
LEMMA StartedAlone ==
    ASSUME AddsOnLoop, TypeInv, NEW k, StartTask(k)
    PROVE  \A t \in Threads : pc[t] = "idle" /\ my[t].rule = 0
<1>1. \A t \in Threads : pc[t] = "idle"
  BY DEF StartTask, At, Turn, Threads
<1> QED
  BY <1>1 DEF TypeInv, ThreadInv, Held

\* The threads keep different rules.
LEMMA ApartStep == AddsOnLoop /\ TypeInv /\ Apart /\ [Next]_vars => Apart'
<1> SUFFICES ASSUME AddsOnLoop, TypeInv, Apart, [Next]_vars PROVE Apart'
  OBVIOUS
<1>1. CASE AddRule
  <2>1. \A u \in Threads : my[u].rule \in 0 .. added
    BY DEF TypeInv, ThreadInv, Held
  <2> QED  BY <1>1, <2>1, AddRuleIs DEF Apart, Others
<1>2. ASSUME NEW t \in Threads, Works(t) \/ Submit(t) \/ Store(t) \/ TakeBack(t)
      PROVE  Apart'
  <2>1. my'[t].rule \in {0, my[t].rule} /\ Others(t)
    BY <1>2, SubmitIs, StoreIs, TakeBackIs DEF Works
  <2> QED  BY <2>1 DEF Apart, Others
<1>3. ASSUME NEW k \in Tasks, StartTask(k) PROVE Apart'
  BY <1>3, StartTaskIs, StartedAlone DEF Apart, Others
<1>4. CASE Aside
  BY <1>4 DEF Aside, Apart
<1> QED
  BY <1>1, <1>2, <1>3, <1>4, EveryStep DEF Kinds

\* A thread with a rule in hand is alone with it: no task of it is queued ...
LEMMA HandHasNoTask ==
    ASSUME TypeInv, Apart, QueuedInv, NEW t \in Threads, pc[t] \notin {"idle", "store"},
           NEW k \in queued
    PROVE  owner[k] # my[t].rule
<1>1. my[t].rule # 0
  BY DEF TypeInv, ThreadInv, Held
<1> QED
  BY <1>1 DEF QueuedInv, InRecord, Recorded, Apart

\* ... and the one about to record a task knows of no other.
LEMMA StoreHasOneTask ==
    ASSUME TypeInv, Apart, QueuedInv, NEW t \in Threads, pc[t] = "store",
           NEW k \in queued, owner[k] = my[t].rule
    PROVE  k = my[t].task
<1>1. my[t].rule # 0
  BY DEF TypeInv, ThreadInv, Held
<1> QED
  BY <1>1 DEF QueuedInv, InRecord, Recorded, Apart

\* No rule has two tasks queued.
LEMMA OneQueued ==
    ASSUME TypeInv, Apart, QueuedInv, NEW k \in queued, NEW l \in queued, owner[k] = owner[l]
    PROVE  k = l
<1>1. CASE Recorded(k) \/ Recorded(l)
  BY <1>1 DEF QueuedInv, InRecord, Recorded
<1>2. CASE InRecord(k) /\ InRecord(l)
  BY <1>2, StoreHasOneTask DEF InRecord
<1> QED
  BY <1>1, <1>2 DEF QueuedInv

\* The owners of the tasks are rules, and stay when a rule or a task is added.
LEMMA OwnersStay ==
    ASSUME TypeInv, Grows, NEW k \in queued
    PROVE  owner'[k] = owner[k] /\ owner[k] \in Rules /\ owner[k] \in 1 .. added
<1>1. k \in 1 .. submitted /\ owner[k] \in 1 .. added /\ added \in 0 .. MaxRules
  BY DEF TypeInv, ManagerInv, RuleInv
<1> QED
  BY <1>1, Bounds DEF Grows, Rules

\* A queued task is recorded, or about to be.
LEMMA QueuedStep ==
    AddsOnLoop /\ TypeInv /\ Apart /\ QueuedInv /\ [Next]_vars => QueuedInv'
<1> SUFFICES ASSUME AddsOnLoop, TypeInv, Apart, QueuedInv, [Next]_vars PROVE QueuedInv'
  OBVIOUS
<1>0. \A k \in queued : owner'[k] = owner[k] /\ owner[k] \in Rules /\ owner[k] \in 1 .. added
  BY OwnersStay, EveryStepGrows
<1>1. CASE AddRule
  <2> SUFFICES ASSUME NEW k \in queued' PROVE InRecord(k)' \/ Recorded(k)'
    BY DEF QueuedInv
  <2>1. k \in queued /\ owner[k] # added + 1 /\ owner'[k] = owner[k]
    BY <1>0, <1>1, AddRuleIs
  <2>2. CASE InRecord(k)
    BY <1>1, <2>1, <2>2, AddRuleIs DEF InRecord, Others
  <2>3. CASE Recorded(k)
    BY <1>1, <2>1, <2>3, AddRuleIs DEF Recorded, Others
  <2> QED  BY <2>1, <2>2, <2>3 DEF QueuedInv
<1>2. ASSUME NEW t \in Threads, Works(t) PROVE QueuedInv'
  <2> SUFFICES ASSUME NEW k \in queued' PROVE InRecord(k)' \/ Recorded(k)'
    BY DEF QueuedInv
  <2>1. k \in queued /\ owner'[k] = owner[k] /\ owner[k] \in Rules
    BY <1>0, <1>2 DEF Works
  <2>2. owner[k] # my[t].rule
    BY <1>2, <2>1, HandHasNoTask DEF Works
  <2>3. CASE InRecord(k)
    BY <1>2, <2>1, <2>2, <2>3 DEF InRecord, Works, Others
  <2>4. CASE Recorded(k)
    <3>1. owner[k] # 0
      BY <1>0, <2>1
    <3>2. my'[t].rule # owner[k] /\ scheduled'[owner[k]] = k
      BY <1>2, <2>1, <2>2, <2>4, <3>1 DEF Recorded, Works
    <3> QED  BY <1>2, <2>1, <2>4, <3>2 DEF Recorded, Works, Others
  <2> QED  BY <2>1, <2>3, <2>4 DEF QueuedInv
<1>3. ASSUME NEW t \in Threads, Submit(t) PROVE QueuedInv'
  <2> SUFFICES ASSUME NEW k \in queued' PROVE InRecord(k)' \/ Recorded(k)'
    BY DEF QueuedInv
  <2>1. CASE k = submitted + 1
    BY <1>3, <2>1, SubmitIs DEF InRecord
  <2>2. CASE k \in queued
    <3>1. owner[k] # my[t].rule
      BY <1>3, <2>2, SubmitIs, HandHasNoTask
    <3>2. CASE InRecord(k)
      BY <1>0, <1>3, <2>2, <3>1, <3>2, SubmitIs DEF InRecord, Others
    <3>3. CASE Recorded(k)
      BY <1>0, <1>3, <2>2, <3>1, <3>3, SubmitIs DEF Recorded, Others
    <3> QED  BY <2>2, <3>2, <3>3 DEF QueuedInv
  <2> QED  BY <1>3, <2>1, <2>2, SubmitIs
<1>4. ASSUME NEW t \in Threads, Store(t) PROVE QueuedInv'
  <2> SUFFICES ASSUME NEW k \in queued' PROVE InRecord(k)' \/ Recorded(k)'
    BY DEF QueuedInv
  <2>1. k \in queued /\ owner'[k] = owner[k] /\ owner[k] \in Rules /\ owner[k] # 0
    BY <1>0, <1>4, StoreIs
  <2>2. CASE owner[k] = my[t].rule
    <3>1. k = my[t].task /\ pc[t] = "store"
      BY <1>4, <2>1, <2>2, StoreIs, StoreHasOneTask
    <3>2. \A u \in Threads : my'[u].rule # owner[k]
      BY <1>4, <2>1, <2>2, StoreIs DEF Apart, Others
    <3> QED  BY <1>4, <2>1, <2>2, <3>1, <3>2, StoreIs DEF Recorded
  <2>3. CASE owner[k] # my[t].rule
    <3>1. CASE InRecord(k)
      BY <1>4, <2>1, <2>3, <3>1, StoreIs DEF InRecord, Others
    <3>2. CASE Recorded(k)
      BY <1>4, <2>1, <2>3, <3>2, StoreIs DEF Recorded, Others
    <3> QED  BY <2>1, <3>1, <3>2 DEF QueuedInv
  <2> QED  BY <2>2, <2>3
<1>5. ASSUME NEW t \in Threads, TakeBack(t) PROVE QueuedInv'
  <2> SUFFICES ASSUME NEW k \in queued' PROVE InRecord(k)' \/ Recorded(k)'
    BY DEF QueuedInv
  <2>1. k \in queued /\ k # my[t].task /\ owner'[k] = owner[k]
    BY <1>0, <1>5, TakeBackIs
  <2>2. owner[k] # my[t].rule
    BY <1>5, <2>1, TakeBackIs, StoreHasOneTask
  <2>3. CASE InRecord(k)
    BY <1>5, <2>1, <2>2, <2>3, TakeBackIs DEF InRecord, Others
  <2>4. CASE Recorded(k)
    BY <1>5, <2>1, <2>2, <2>4, TakeBackIs DEF Recorded, Others
  <2> QED  BY <2>1, <2>3, <2>4 DEF QueuedInv
<1>6. ASSUME NEW j \in Tasks, StartTask(j) PROVE QueuedInv'
  <2> SUFFICES ASSUME NEW k \in queued' PROVE InRecord(k)' \/ Recorded(k)'
    BY DEF QueuedInv
  <2>1. k \in queued /\ k # j /\ owner'[k] = owner[k] /\ j \in queued
    BY <1>0, <1>6, StartTaskIs
  <2>2. owner[k] # owner[j]
    BY <2>1, OneQueued
  <2>3. ~InRecord(k)
    BY <1>6, StartedAlone DEF InRecord
  <2> QED  BY <1>6, <2>1, <2>2, <2>3, StartTaskIs DEF QueuedInv, Recorded, Others
<1>7. CASE Aside
  BY <1>7 DEF Aside, QueuedInv, InRecord, Recorded
<1> QED
  BY <1>1, <1>2, <1>3, <1>4, <1>5, <1>6, <1>7, EveryStep DEF Kinds

\* A task leaves the queue unstarted with its rule cancelled or orphaned.
LEMMA DroppedOnlyIfGone ==
    ASSUME TypeInv, VictimInv, StopTask \/ Cancelling \/ Managing \/ UNCHANGED vars,
           NEW k \in queued \ queued'
    PROVE  owner[k] \in cancelled' \cup orphaned'
<1>1. k # NoTask
  BY DEF TypeInv, ManagerInv, NoTask
<1>2. CASE CancelVictim
  BY <1>2 DEF CancelVictim, CancelTask, VictimInv, coreVars
<1>3. CASE CancelDoomed
  <2>1. PICK r \in doomed : CancelTask(scheduled[r])
    BY <1>3 DEF CancelDoomed
  <2>2. k = scheduled[r] /\ r \in cancelled /\ r \in Rules
    BY <2>1, Bounds DEF CancelTask, VictimInv, TypeInv, RuleInv, Rules
  <2>3. owner[k] = r
    BY <1>1, <2>2 DEF VictimInv
  <2> QED  BY <1>3, <2>2, <2>3 DEF CancelDoomed, coreVars
<1>4. CASE ManagerClears
  BY <1>4 DEF ManagerClears
<1>5. CASE \/ StopTask \/ (\E r \in Rules : Cancel(r)) \/ UNCHANGED vars \/ ManagerCloses
           \/ \E close \in BOOLEAN : CancelAll(close)
  BY <1>5 DEF StopTask, Cancel, vars, ManagerCloses, CancelAll, managerVars
<1> QED
  BY <1>2, <1>3, <1>4, <1>5 DEF Cancelling, Managing

\* A rule that is neither cancelled nor orphaned has its task.
LEMMA ServedStep ==
    AddsOnLoop /\ TypeInv /\ Apart /\ QueuedInv /\ VictimInv /\ ServedInv /\ [Next]_vars
        => ServedInv'
<1> SUFFICES ASSUME AddsOnLoop, TypeInv, Apart, QueuedInv, VictimInv, ServedInv, [Next]_vars
             PROVE  ServedInv'
  OBVIOUS
<1>0. /\ \A k \in queued : owner'[k] = owner[k]
      /\ added \in Nat /\ \A r \in 1 .. added : r # 0
  BY OwnersStay, EveryStepGrows DEF TypeInv, RuleInv
<1>1. CASE AddRule
  <2> SUFFICES ASSUME NEW r \in 1 .. added', Live(r)' PROVE Served(r)'
    BY DEF ServedInv
  <2>1. CASE r = added + 1
    BY <1>1, <2>1, AddRuleIs DEF Served, Threads
  <2>2. CASE r # added + 1
    <3>1. r \in 1 .. added /\ Live(r)
      BY <1>0, <1>1, <2>2, AddRuleIs DEF Live
    <3>2. pc["adder"] = "idle" /\ my["adder"].rule # r
      BY <1>0, <1>1, <3>1, AddRuleIs DEF TypeInv, ThreadInv, Held, Threads
    <3>3. Served(r)
      BY <3>1 DEF ServedInv
    <3> QED  BY <1>0, <1>1, <3>2, <3>3, AddRuleIs DEF Served, Others
  <2> QED  BY <2>1, <2>2
<1>2. ASSUME NEW t \in Threads, Works(t) PROVE ServedInv'
  <2> SUFFICES ASSUME NEW r \in 1 .. added', Live(r)' PROVE Served(r)'
    BY DEF ServedInv
  <2>1. r \in 1 .. added /\ Live(r)
    BY <1>2 DEF Works, Live
  <2>2. Served(r)
    BY <2>1 DEF ServedInv
  <2>3. r = my[t].rule => pc'[t] # "idle"
    BY <1>2 DEF Works, Live
  <2> QED  BY <1>0, <1>2, <2>2, <2>3 DEF Served, Works, Others
<1>3. ASSUME NEW t \in Threads, Submit(t) PROVE ServedInv'
  <2> SUFFICES ASSUME NEW r \in 1 .. added', Live(r)' PROVE Served(r)'
    BY DEF ServedInv
  <2>1. Served(r)
    BY <1>3, SubmitIs DEF ServedInv, Live
  <2> QED  BY <1>0, <1>3, <2>1, SubmitIs DEF Served, Others
<1>4. ASSUME NEW t \in Threads, Store(t) PROVE ServedInv'
  <2> SUFFICES ASSUME NEW r \in 1 .. added', Live(r)' PROVE Served(r)'
    BY DEF ServedInv
  <2>1. Served(r)
    BY <1>4, StoreIs DEF ServedInv, Live
  <2> QED  BY <1>0, <1>4, <2>1, StoreIs DEF Served, Others
<1>5. ASSUME NEW t \in Threads, TakeBack(t) PROVE ServedInv'
  <2> SUFFICES ASSUME NEW r \in 1 .. added', Live(r)' PROVE Served(r)'
    BY DEF ServedInv
  <2>1. Served(r)
    BY <1>5, TakeBackIs DEF ServedInv, Live
  <2>2. owner[my[t].task] = my[t].rule
    BY <1>5, TakeBackIs DEF TypeInv, ThreadInv, Held
  <2> QED  BY <1>0, <1>5, <2>1, <2>2, TakeBackIs DEF Served, Others
<1>6. ASSUME NEW j \in Tasks, StartTask(j) PROVE ServedInv'
  <2> SUFFICES ASSUME NEW r \in 1 .. added', Live(r)' PROVE Served(r)'
    BY DEF ServedInv
  <2>1. Served(r)
    BY <1>6, StartTaskIs DEF ServedInv, Live
  <2>2. PICK k \in queued : owner[k] = r
    BY <1>0, <1>6, <2>1, StartedAlone, StartTaskIs DEF Served
  <2>3. CASE k = j
    BY <1>6, <2>2, <2>3, StartTaskIs DEF Served, Threads
  <2>4. CASE k # j
    BY <1>0, <1>6, <2>2, <2>4, StartTaskIs DEF Served
  <2> QED  BY <2>3, <2>4
<1>7. CASE StopTask \/ Cancelling \/ Managing \/ UNCHANGED vars
  <2> SUFFICES ASSUME NEW r \in 1 .. added', Live(r)' PROVE Served(r)'
    BY DEF ServedInv
  <2>1. Aside
    BY <1>7, AsideSteps
  <2>2. Served(r)
    BY <2>1 DEF ServedInv, Live, Aside
  <2>3. \A k \in queued : owner[k] = r => k \in queued'
    BY <1>7, DroppedOnlyIfGone DEF Live
  <2> QED  BY <2>1, <2>2, <2>3 DEF Served, Aside
<1> QED
  BY <1>1, <1>2, <1>3, <1>4, <1>5, <1>6, <1>7, StepKinds, WorkIsWork

\* What cancel() is about to take belongs to cancelled rules.
LEMMA VictimStep == TypeInv /\ VictimInv /\ [Next]_vars => VictimInv'
<1> SUFFICES ASSUME TypeInv, VictimInv, [Next]_vars PROVE VictimInv'
  OBVIOUS
<1>0. /\ \A k \in 1 .. submitted : owner'[k] = owner[k]
      /\ submitted \in Nat
      /\ victim \in 0 .. submitted /\ \A r \in Rules : scheduled[r] \in 0 .. submitted
  BY EveryStepGrows DEF Grows, TypeInv, ManagerInv
<1> USE DEF NoTask
<1>1. CASE AddRule
  BY <1>1, AddRuleIs DEF VictimInv
<1>2. ASSUME NEW t \in Threads, Works(t) PROVE VictimInv'
  BY <1>2 DEF VictimInv, Works
<1>3. ASSUME NEW t \in Threads, Submit(t) PROVE VictimInv'
  <2>1. /\ victim # 0 => victim \in 1 .. submitted
        /\ \A r \in Rules : scheduled[r] # 0 => scheduled[r] \in 1 .. submitted
    BY <1>0
  <2> QED  BY <1>0, <1>3, <2>1, SubmitIs DEF VictimInv
<1>4. ASSUME NEW t \in Threads, Store(t) PROVE VictimInv'
  BY <1>4, StoreIs DEF VictimInv
<1>5. ASSUME NEW t \in Threads, TakeBack(t) PROVE VictimInv'
  BY <1>5, TakeBackIs DEF VictimInv
<1>6. ASSUME NEW j \in Tasks, StartTask(j) PROVE VictimInv'
  BY <1>6, StartTaskIs DEF VictimInv
<1>7. CASE StopTask \/ Cancelling \/ Managing \/ UNCHANGED vars
  BY <1>7 DEF VictimInv, StopTask, Cancelling, Cancel, CancelVictim, CancelAll, CancelDoomed,
     Managing, ManagerCloses, ManagerClears, NoCancel, vars, coreVars, managerVars, cancelVars
<1> QED
  BY <1>1, <1>2, <1>3, <1>4, <1>5, <1>6, <1>7, StepKinds, WorkIsWork

\* No task of a cancelled rule is missed.
LEMMA CancelStep ==
    AddsOnLoop /\ TypeInv /\ Apart /\ QueuedInv /\ CancelInv /\ [Next]_vars => CancelInv'
<1> SUFFICES ASSUME AddsOnLoop, TypeInv, Apart, QueuedInv, CancelInv, [Next]_vars
             PROVE  CancelInv'
  OBVIOUS
<1>0. \A k \in queued : /\ owner'[k] = owner[k] /\ owner[k] \in Rules
                        /\ owner[k] \in 1 .. added /\ k # NoTask
  BY OwnersStay, EveryStepGrows DEF TypeInv, ManagerInv, NoTask
<1> DEFINE Found(k) == InRecord(k) \/ owner[k] \in doomed \/ k = victim
<1>1. CASE AddRule
  <2> SUFFICES ASSUME NEW k \in queued', owner'[k] \in cancelled' PROVE Found(k)'
    BY DEF CancelInv
  <2>1. k \in queued /\ owner'[k] = owner[k] /\ owner[k] \in cancelled
    BY <1>0, <1>1, AddRuleIs
  <2> QED  BY <1>1, <2>1, AddRuleIs DEF CancelInv, InRecord, Others
<1>2. ASSUME NEW t \in Threads, Works(t) PROVE CancelInv'
  <2> SUFFICES ASSUME NEW k \in queued', owner'[k] \in cancelled' PROVE Found(k)'
    BY DEF CancelInv
  <2>1. k \in queued /\ owner'[k] = owner[k] /\ owner[k] # my[t].rule
    BY <1>0, <1>2, HandHasNoTask DEF Works
  <2>2. owner[k] \in cancelled
    BY <1>2, <2>1 DEF Works
  <2> QED  BY <1>2, <2>1, <2>2 DEF CancelInv, InRecord, Works, Others
<1>3. ASSUME NEW t \in Threads, Submit(t) PROVE CancelInv'
  <2> SUFFICES ASSUME NEW k \in queued', owner'[k] \in cancelled' PROVE Found(k)'
    BY DEF CancelInv
  <2>1. CASE k = submitted + 1
    BY <1>3, <2>1, SubmitIs DEF InRecord
  <2>2. CASE k \in queued
    <3>1. owner'[k] = owner[k] /\ owner[k] \in cancelled
      BY <1>0, <1>3, <2>2, SubmitIs
    <3> QED  BY <1>3, <2>2, <3>1, SubmitIs DEF CancelInv, InRecord, Others
  <2> QED  BY <1>3, <2>1, <2>2, SubmitIs
<1>4. ASSUME NEW t \in Threads, Store(t) PROVE CancelInv'
  <2> SUFFICES ASSUME NEW k \in queued', owner'[k] \in cancelled' PROVE Found(k)'
    BY DEF CancelInv
  <2>1. k \in queued /\ owner'[k] = owner[k] /\ owner[k] \in cancelled
    BY <1>0, <1>4, StoreIs
  <2>2. owner[k] # my[t].rule
    BY <1>4, <2>1, StoreIs
  <2> QED  BY <1>4, <2>1, <2>2, StoreIs DEF CancelInv, InRecord, Others
<1>5. ASSUME NEW t \in Threads, TakeBack(t) PROVE CancelInv'
  <2> SUFFICES ASSUME NEW k \in queued', owner'[k] \in cancelled' PROVE Found(k)'
    BY DEF CancelInv
  <2>1. k \in queued /\ k # my[t].task /\ owner'[k] = owner[k] /\ owner[k] \in cancelled
    BY <1>0, <1>5, TakeBackIs
  <2>2. owner[k] # my[t].rule
    BY <1>5, <2>1, TakeBackIs, StoreHasOneTask
  <2> QED  BY <1>5, <2>1, <2>2, TakeBackIs DEF CancelInv, InRecord, Others
<1>6. ASSUME NEW j \in Tasks, StartTask(j) PROVE CancelInv'
  <2> SUFFICES ASSUME NEW k \in queued', owner'[k] \in cancelled' PROVE Found(k)'
    BY DEF CancelInv
  <2>1. k \in queued /\ owner'[k] = owner[k] /\ owner[k] \in cancelled
    BY <1>0, <1>6, StartTaskIs
  <2>2. ~InRecord(k)
    BY <1>6, StartedAlone DEF InRecord
  <2> QED  BY <1>6, <2>1, <2>2, StartTaskIs DEF CancelInv
<1>7. ASSUME NEW r \in Rules, Cancel(r) PROVE CancelInv'
  <2> SUFFICES ASSUME NEW k \in queued', owner'[k] \in cancelled' PROVE Found(k)'
    BY DEF CancelInv
  <2>1. /\ k \in queued /\ UNCHANGED <<pc, my, owner, doomed>>
        /\ victim' = scheduled[r] /\ cancelled' = cancelled \cup {r} /\ NoCancel
    BY <1>7 DEF Cancel, managerVars
  <2>2. CASE InRecord(k)
    BY <2>1, <2>2 DEF InRecord
  <2>3. CASE Recorded(k) /\ owner[k] = r
    BY <2>1, <2>3 DEF Recorded
  <2>4. CASE owner[k] # r
    BY <1>0, <2>1, <2>2, <2>4 DEF CancelInv, NoCancel
  <2> QED  BY <2>1, <2>2, <2>3, <2>4 DEF QueuedInv
<1>8. ASSUME NEW close \in BOOLEAN, CancelAll(close) PROVE CancelInv'
  <2> SUFFICES ASSUME NEW k \in queued', owner'[k] \in cancelled' PROVE Found(k)'
    BY DEF CancelInv
  <2>1. /\ k \in queued /\ UNCHANGED <<pc, my, owner, victim>>
        /\ doomed' = active /\ cancelled' = cancelled \cup active /\ NoCancel
    BY <1>8 DEF CancelAll, managerVars
  <2> QED  BY <1>0, <2>1 DEF CancelInv, NoCancel, InRecord
<1>9. CASE CancelVictim
  BY <1>9 DEF CancelVictim, CancelTask, CancelInv, InRecord, coreVars
<1>10. CASE CancelDoomed
  <2>1. PICK r \in doomed : CancelTask(scheduled[r]) /\ doomed' = doomed \ {r}
    BY <1>10 DEF CancelDoomed
  <2> SUFFICES ASSUME NEW k \in queued', owner'[k] \in cancelled' PROVE Found(k)'
    BY DEF CancelInv
  <2>2. /\ k \in queued /\ k # scheduled[r]
        /\ UNCHANGED <<pc, my, owner, victim, cancelled>>
    BY <1>10, <2>1 DEF CancelTask, CancelDoomed, coreVars
  <2>3. CASE owner[k] = r
    BY <2>2, <2>3 DEF QueuedInv, Recorded, InRecord
  <2>4. CASE owner[k] # r
    BY <2>1, <2>2, <2>4 DEF CancelInv, InRecord
  <2> QED  BY <2>3, <2>4
<1>11. CASE StopTask \/ Managing \/ UNCHANGED vars
  BY <1>11 DEF StopTask, Managing, ManagerCloses, ManagerClears, vars, CancelInv, InRecord,
     coreVars, managerVars, cancelVars
<1> QED
  BY <1>1, <1>2, <1>3, <1>4, <1>5, <1>6, <1>7, <1>8, <1>9, <1>10, <1>11, StepKinds, WorkIsWork
     DEF Cancelling

\* A thread that does nothing stays ahead, for nobody else has its rule.
LEMMA AheadStays ==
    ASSUME TypeInv, Apart, NEW t \in Threads, NEW u \in Threads \ {t}, Ahead(u), Others(t),
           \A r \in 1 .. added : rule'[r] = rule[r],
           \A r \in (1 .. added) \ {my[t].rule} :
              planned'[r] = planned[r] /\ lastRun'[r] = lastRun[r]
    PROVE  Ahead(u)'
<1>1. CASE pc[u] = "idle"
  BY <1>1 DEF Ahead, Others
<1>2. CASE pc[u] # "idle"
  <2>1. my[u].rule \in 1 .. added /\ my[u].rule # 0
    BY <1>2, HeldRule DEF TypeInv, ThreadInv, Held
  <2>2. my[u].rule # my[t].rule
    BY <2>1 DEF Apart
  <2> QED  BY <2>1, <2>2 DEF Ahead, Others
<1> QED
  BY <1>1, <1>2

\* A thread that moves is ahead where it comes to.
LEMMA WorkIsAhead ==
    ASSUME TypeInv, NEW t \in Threads, Ahead(t), Work(t)
    PROVE  Ahead(t)'
<1>0. "adder" \in Threads /\ "loop" \in Threads /\ Works(t)
  BY WorkIsWork DEF Threads
<1>1. \A r \in 1 .. added : rule[r] \in Additions
  BY DEF TypeInv, RuleInv
<1>2. pc[t] # "idle" /\ my[t].rule \in 1 .. added /\ my[t].rule \in Rules
  BY <1>0, HeldRule DEF Works
<1>3. CASE pc'[t] \in {"idle", "undo", "complete"}
  BY <1>3 DEF Ahead
<1>4. CASE t = "adder" /\ FirstPlanned
  <2>1. PICK now \in Walls : \E next \in FirstDue(my["adder"].rule, now) :
           Choose("adder", next, "undo")
    BY <1>4 DEF FirstPlanned
  <2>2. PICK next \in FirstDue(my["adder"].rule, now) : Choose("adder", next, "undo")
    BY <2>1
  <2>3. next = Never \/ next > rule[my[t].rule].last
    BY <1>1, <1>2, <1>4, <2>2, FirstDueMovesOn
  <2>4. /\ pc[t] = "first" /\ pc'[t] = (IF next = Never THEN "undo" ELSE "submit")
        /\ my'[t].rule = my[t].rule
        /\ my'[t].planned = IF next = Never THEN my[t].planned ELSE next
    <3>1. pc[t] = "first"
      BY <1>4 DEF FirstPlanned, At
    <3> QED  BY <1>2, <1>4, <2>2, <3>1, ChoiceGoesOn
  <2>5. UNCHANGED lastRun
    BY <1>4 DEF FirstPlanned, historyVars
  <2> QED  BY <1>3, <2>3, <2>4, <2>5 DEF Ahead
<1>5. CASE t = "adder" /\ (FirstThrows \/ Undo)
  <2>1. pc'[t] \in {"undo", "idle"}
    BY <1>0, <1>5, GoesOn DEF FirstThrows, Undo
  <2> QED  BY <1>3, <2>1
<1>6. CASE SubmitRefused(t)
  <2>1. pc'[t] \in {"undo", "complete"}
    BY <1>6, GoesOn DEF SubmitRefused, Failed
  <2> QED  BY <1>3, <2>1
<1>7. CASE t = "loop" /\ (RunDueReturns \/ CallbackThrows \/ NextThrows \/ Complete)
  <2>1. pc'[t] \in {"idle", "complete"}
    BY <1>0, <1>7, GoesOn DEF RunDueReturns, CallbackThrows, NextThrows, Complete
  <2> QED  BY <1>3, <2>1
<1>8. CASE t = "loop" /\ RunDue
  <2>1. /\ pc["loop"] = "due" /\ pc' = [pc EXCEPT !["loop"] = "callback"]
        /\ my' = [my EXCEPT !["loop"].planned = planned[my["loop"].rule]]
        /\ UNCHANGED lastRun
    BY <1>8 DEF RunDue, At, historyVars
  <2>2. /\ pc \in [Threads -> AdderPlaces \cup LoopPlaces] /\ my \in [Threads -> Locals]
        /\ my["loop"] \in Locals
    BY <1>0 DEF TypeInv, ThreadInv
  <2>3. pc'["loop"] = "callback" /\ my'["loop"].planned = planned[my["loop"].rule]
    BY <1>0, <2>1, <2>2 DEF Locals
  <2>4. my'["loop"].rule = my["loop"].rule
    BY <1>0, <1>8, <2>3 DEF Works
  <2> QED  BY <1>8, <2>1, <2>3, <2>4 DEF Ahead
<1>9. CASE t = "loop" /\ CallbackReturns
  <2>1. Goto("loop", "after") /\ Ran
    BY <1>9 DEF CallbackReturns
  <2>2. lastRun'[my["loop"].rule] = my["loop"].planned
    BY <1>2, <1>9, <2>1 DEF Ran, TypeInv, RuleInv
  <2>3. /\ pc'["loop"] = "after" /\ my'["loop"].rule = my["loop"].rule
        /\ my'["loop"].planned = my["loop"].planned
    BY <1>0, <2>1, GoesOn
  <2> QED  BY <1>9, <2>2, <2>3 DEF Ahead
<1>10. CASE t = "loop" /\ (AfterCallback \/ CheckCancelled)
  <2>1. PICK place \in {"check", "next", "complete"} : Goto("loop", place)
    BY <1>10, Zenon DEF AfterCallback, CheckCancelled
  <2>2. /\ pc'["loop"] = place /\ my'["loop"].rule = my["loop"].rule
        /\ my'["loop"].planned = my["loop"].planned
    BY <1>0, <2>1, GoesOn
  <2>3. UNCHANGED lastRun /\ pc["loop"] \in {"after", "check"}
    BY <1>10 DEF AfterCallback, CheckCancelled, historyVars, At
  <2> QED  BY <1>10, <2>2, <2>3 DEF Ahead
<1>11. CASE t = "loop" /\ NextPlanned
  <2>1. PICK now \in Walls : \E next \in NextDue(my["loop"].rule, my["loop"].planned, now) :
           Choose("loop", next, "complete")
    BY <1>11 DEF NextPlanned
  <2>2. PICK next \in NextDue(my["loop"].rule, my["loop"].planned, now) :
           Choose("loop", next, "complete")
    BY <2>1
  <2>3. pc["loop"] = "next" /\ my["loop"].planned \in Nat
    BY <1>0, <1>11 DEF NextPlanned, At, TypeInv, ThreadInv, Held, Planning
  <2>4. next = Never \/ next > my[t].planned
    BY <1>1, <1>2, <1>11, <2>2, <2>3, NextDueMovesOn
  <2>5. /\ pc'[t] = (IF next = Never THEN "complete" ELSE "submit")
        /\ my'[t].rule = my[t].rule
        /\ my'[t].planned = IF next = Never THEN my[t].planned ELSE next
    BY <1>2, <1>11, <2>2, <2>3, ChoiceGoesOn
  <2>6. UNCHANGED lastRun
    BY <1>11 DEF NextPlanned, historyVars
  <2> QED  BY <1>3, <1>11, <2>3, <2>4, <2>5, <2>6 DEF Ahead
<1> QED
  BY <1>4, <1>5, <1>6, <1>7, <1>8, <1>9, <1>10, <1>11 DEF Work

\* Every rule's planned instants stay ahead of its last run.
LEMMA ForwardStep ==
    AddsOnLoop /\ TypeInv /\ Apart /\ QueuedInv /\ ForwardInv /\ [Next]_vars => ForwardInv'
<1> SUFFICES ASSUME AddsOnLoop, TypeInv, Apart, QueuedInv, ForwardInv, [Next]_vars
             PROVE  ForwardInv'
  OBVIOUS
<1>0. \A k \in queued : /\ owner'[k] = owner[k] /\ owner[k] \in Rules
                        /\ owner[k] \in 1 .. added /\ owner[k] # 0
  BY OwnersStay, EveryStepGrows
<1>1. /\ \A t \in Threads : Ahead(t)
      /\ \A k \in queued : Recorded(k) => planned[owner[k]] > lastRun[owner[k]]
      /\ added \in Nat /\ 1 .. added \subseteq Rules
  BY Bounds DEF ForwardInv, TypeInv, RuleInv, Rules
<1>2. CASE AddRule
  <2>1. Ahead("adder")'
    <3>1. lastRun \in [Rules -> Nat \cup {Never}]
      BY DEF TypeInv, RuleInv
    <3> QED  BY <1>2, <3>1, AddRuleIs DEF Ahead
  <2>2. \A r \in 1 .. added : planned'[r] = planned[r] /\ lastRun'[r] = lastRun[r]
    <3>1. lastRun \in [Rules -> Nat \cup {Never}] /\ \A r \in 1 .. added : r # added + 1
      BY <1>1 DEF TypeInv, RuleInv
    <3> QED  BY <1>1, <1>2, <3>1, AddRuleIs
  <2>3. \A u \in Threads \ {"adder"} : Ahead(u)'
    BY <1>1, <1>2, <2>2, AddRuleIs, AheadStays DEF Threads
  <2>4. ASSUME NEW k \in queued', Recorded(k)'
        PROVE  planned'[owner'[k]] > lastRun'[owner'[k]]
    <3>1. k \in queued /\ owner'[k] = owner[k]
      BY <1>0, <1>2, <2>4, AddRuleIs
    <3>2. Recorded(k)
      <4>1. my["adder"].rule = 0
        BY <1>2, AddRuleIs DEF TypeInv, ThreadInv, Held, Threads
      <4> QED  BY <1>0, <1>2, <2>4, <3>1, <4>1, AddRuleIs DEF Recorded, Others
    <3> QED  BY <1>0, <1>1, <2>2, <3>1, <3>2
  <2> QED  BY <2>1, <2>3, <2>4 DEF ForwardInv
<1>3. ASSUME NEW t \in Threads, Work(t) PROVE ForwardInv'
  <2>1. Works(t)
    BY <1>3, WorkIsWork
  <2>2. Ahead(t)' /\ \A u \in Threads \ {t} : Ahead(u)'
    BY <1>1, <1>3, <2>1, WorkIsAhead, AheadStays DEF Works
  <2>3. ASSUME NEW k \in queued', Recorded(k)'
        PROVE  planned'[owner'[k]] > lastRun'[owner'[k]]
    <3>1. k \in queued /\ owner'[k] = owner[k] /\ owner[k] # my[t].rule
      BY <1>0, <2>1, <2>3, HandHasNoTask DEF Works
    <3>2. Recorded(k)
      BY <1>0, <2>1, <2>3, <3>1 DEF Recorded, Works, Others
    <3> QED  BY <1>0, <1>1, <2>1, <3>1, <3>2 DEF Works
  <2> QED  BY <2>2, <2>3 DEF ForwardInv
<1>4. ASSUME NEW t \in Threads, Submit(t) PROVE ForwardInv'
  <2>1. Ahead(t)'
    BY <1>1, <1>4, SubmitIs DEF Ahead
  <2>2. \A u \in Threads \ {t} : Ahead(u)'
    BY <1>1, <1>4, SubmitIs, AheadStays
  <2>3. ASSUME NEW k \in queued', Recorded(k)'
        PROVE  planned'[owner'[k]] > lastRun'[owner'[k]]
    <3>1. k \in queued /\ owner'[k] = owner[k]
      BY <1>0, <1>4, <2>3, SubmitIs DEF Recorded
    <3>2. Recorded(k)
      BY <1>4, <2>3, <3>1, SubmitIs DEF Recorded, Others
    <3> QED  BY <1>1, <1>4, <3>1, <3>2, SubmitIs
  <2> QED  BY <2>1, <2>2, <2>3 DEF ForwardInv
<1>5. ASSUME NEW t \in Threads, Store(t) PROVE ForwardInv'
  <2>1. Ahead(t)'
    BY <1>5, StoreIs DEF Ahead
  <2>2. \A u \in Threads \ {t} : Ahead(u)'
    BY <1>1, <1>5, StoreIs, AheadStays
  <2>3. ASSUME NEW k \in queued', Recorded(k)'
        PROVE  planned'[owner'[k]] > lastRun'[owner'[k]]
    <3>1. k \in queued /\ owner'[k] = owner[k] /\ UNCHANGED lastRun
      BY <1>0, <1>5, <2>3, StoreIs
    <3>2. CASE owner[k] = my[t].rule
      BY <1>1, <1>5, <3>1, <3>2, StoreIs DEF Ahead
    <3>3. CASE owner[k] # my[t].rule
      <4>1. Recorded(k) /\ planned'[owner[k]] = planned[owner[k]]
        BY <1>0, <1>5, <2>3, <3>1, <3>3, StoreIs DEF Recorded, Others
      <4> QED  BY <1>1, <3>1, <4>1
    <3> QED  BY <3>2, <3>3
  <2> QED  BY <2>1, <2>2, <2>3 DEF ForwardInv
<1>6. ASSUME NEW t \in Threads, TakeBack(t) PROVE ForwardInv'
  <2>1. Ahead(t)'
    BY <1>6, TakeBackIs DEF Ahead
  <2>2. \A u \in Threads \ {t} : Ahead(u)'
    BY <1>1, <1>6, TakeBackIs, AheadStays
  <2>3. ASSUME NEW k \in queued', Recorded(k)'
        PROVE  planned'[owner'[k]] > lastRun'[owner'[k]]
    <3>1. k \in queued /\ Recorded(k)
      BY <1>6, <2>3, TakeBackIs DEF Recorded, Others
    <3> QED  BY <1>1, <1>6, <3>1, TakeBackIs
  <2> QED  BY <2>1, <2>2, <2>3 DEF ForwardInv
<1>7. ASSUME NEW j \in Tasks, StartTask(j) PROVE ForwardInv'
  <2>1. \A k \in queued : Recorded(k)
    BY <1>7, StartedAlone DEF QueuedInv, InRecord
  <2>2. Ahead("loop")'
    BY <1>1, <1>7, <2>1, StartTaskIs DEF Ahead
  <2>3. \A u \in Threads \ {"loop"} : Ahead(u)'
    BY <1>1, <1>7, StartTaskIs, AheadStays DEF Threads
  <2>4. \A k \in queued' : planned'[owner'[k]] > lastRun'[owner'[k]]
    BY <1>1, <1>7, <2>1, StartTaskIs
  <2> QED  BY <2>2, <2>3, <2>4 DEF ForwardInv
<1>8. CASE StopTask \/ Cancelling \/ Managing \/ UNCHANGED vars
  <2>1. Aside
    BY <1>8, AsideSteps
  <2> QED  BY <2>1 DEF Aside, ForwardInv, Ahead, Recorded
<1> QED
  BY <1>2, <1>3, <1>4, <1>5, <1>6, <1>7, <1>8, StepKinds

--------------------------------------------------------------------------------
(* What the scheduler guarantees where rules are added on the loop's thread. *)

\* The inductive invariant.
Inv == TypeInv /\ TaskInv /\ ForwardInv

\* Every reachable state satisfies it.
LEMMA Invariance == AddsOnLoop => (Spec => []Inv)
<1> SUFFICES ASSUME AddsOnLoop PROVE Spec => []Inv
  OBVIOUS
<1>1. Init => Inv
  BY TypeInit, TaskInit DEF Inv
<1>2. Inv /\ [Next]_vars => Inv'
  BY TypeStep, TurnStep, ApartStep, QueuedStep, ServedStep, VictimStep, CancelStep, ForwardStep
     DEF Inv, TaskInv
<1> QED
  BY <1>1, <1>2, PTL DEF Spec

\* A live rule has one task, queued or in hand, and cancel() finds it.
THEOREM OneTaskEach == AddsOnLoop => (Spec => []RuleHasOneTask)
<1> SUFFICES ASSUME AddsOnLoop PROVE Spec => []RuleHasOneTask
  OBVIOUS
<1>1. Inv => RuleHasOneTask
  <2> SUFFICES ASSUME Inv, NEW r \in active \ (cancelled \cup orphaned)
               PROVE  /\ Cardinality(QueuedOf(r)) + Cardinality(InHand(r)) = 1
                      /\ InHand(r) \cup Recording(r) = {} => QueuedOf(r) = {scheduled[r]}
    BY DEF RuleHasOneTask
  <2>1. TypeInv /\ Apart /\ QueuedInv /\ ServedInv
    BY DEF Inv, TaskInv
  <2>2. r # 0 /\ Served(r)
    BY <2>1 DEF TypeInv, RuleInv, ServedInv, Live
  <2>3. CASE QueuedOf(r) # {}
    <3>1. PICK k \in queued : owner[k] = r
      BY <2>3 DEF QueuedOf
    <3>2. QueuedOf(r) = {k}
      BY <2>1, <3>1, OneQueued DEF QueuedOf
    <3>3. InHand(r) = {}
      BY <2>1, <2>2, <3>1, HandHasNoTask DEF InHand, TypeInv, ThreadInv, Held
    <3>4. Recording(r) = {} => k = scheduled[r]
      BY <2>1, <3>1 DEF Recording, QueuedInv, InRecord, Recorded
    <3> QED  BY <3>2, <3>3, <3>4, FS_Singleton, FS_EmptySet
  <2>4. CASE QueuedOf(r) = {}
    <3>1. PICK t \in Threads : my[t].rule = r /\ pc[t] # "store"
      BY <2>2, <2>4 DEF Served, QueuedOf
    <3>2. InHand(r) = {t}
      BY <2>1, <2>2, <3>1 DEF InHand, Apart
    <3>3. Cardinality(InHand(r)) = 1 /\ Cardinality(QueuedOf(r)) = 0
      BY <2>4, <3>2, FS_Singleton, FS_EmptySet
    <3>4. InHand(r) \cup Recording(r) # {}
      BY <3>2
    <3> QED  BY <3>3, <3>4
  <2> QED  BY <2>3, <2>4
<1> QED
  BY <1>1, Invariance, PTL

\* Every queued task of a cancelled rule is about to be taken back or cancelled.
THEOREM CancelReaches == AddsOnLoop => (Spec => []CancelLeavesNothing)
<1> SUFFICES ASSUME AddsOnLoop PROVE Spec => []CancelLeavesNothing
  OBVIOUS
<1>1. Inv => CancelLeavesNothing
  BY DEF Inv, TaskInv, CancelInv, CancelLeavesNothing, QueuedOf, Recording, InRecord
<1> QED
  BY <1>1, Invariance, PTL

\* The planned instants of a rule's callbacks move forward, whatever the wall
\* clock shows.
THEOREM ForwardOnly == AddsOnLoop => (Spec => []RunsForward)
<1> SUFFICES ASSUME AddsOnLoop PROVE Spec => []RunsForward
  OBVIOUS
<1>1. Inv => RunsForward
  BY DEF Inv, ForwardInv, Ahead, RunsForward, Threads
<1> QED
  BY <1>1, Invariance, PTL
================================================================================
