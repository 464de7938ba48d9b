------------------------- MODULE SupervisionProofs -------------------------
(* Proofs about SupervisionHistory, for every set of zones and threshold. *)
EXTENDS SupervisionHistory, TLAPS

\* A counter of m losses tells of a window: its last m reports, or all of them,
\* say "lost", and the one before says "heard".
Counts(window, m) ==
  /\ Len(window) <= Threshold
  /\ m <= Len(window) \/ Len(window) = Threshold
  /\ \A i \in 1 .. Len(window) : i > Len(window) - m => window[i] = TRUE
  /\ m < Len(window) => window[Len(window) - m] = FALSE

CountersTell == \A z \in Zones : Counts(heard[z], misses[z])

\* The reported zones are the listed ones at the threshold.
ReportedCount == reported = {z \in listed : misses[z] >= Threshold}

\* The inductive invariant: agreement with the registry needs nothing else, the
\* reasons for opening and closing an issue need the counters and what they tell.
SHInv == STypeOK /\ ReportedCount /\ CountersTell /\ IssuesAccountedFor

\* Remember keeps a sequence of listings, the newest last and the oldest gone
\* if there were Threshold.
LEMMA RememberWindow ==
  ASSUME NEW seq \in Seq(BOOLEAN), NEW lost \in BOOLEAN, Len(seq) <= Threshold
  PROVE  LET r == R!Remember(seq, lost) IN
         /\ r \in Seq(BOOLEAN) /\ Len(r) \in 1 .. Threshold /\ r[Len(r)] = lost
         /\ Len(seq) < Threshold =>
              Len(r) = Len(seq) + 1 /\ \A i \in 1 .. Len(seq) : r[i] = seq[i]
         /\ Len(seq) = Threshold =>
              Len(r) = Threshold /\ \A i \in 1 .. Threshold - 1 : r[i] = seq[i + 1]
<1> DEFINE longer == Append(seq, lost)
<1>1. /\ longer \in Seq(BOOLEAN) /\ Len(longer) = Len(seq) + 1
      /\ longer[Len(longer)] = lost /\ Len(seq) \in Nat
      /\ \A i \in 1 .. Len(seq) : longer[i] = seq[i]
  OBVIOUS
<1>2. CASE Len(seq) = Threshold
  <2>1. R!Remember(seq, lost) = Tail(longer)
    BY <1>1, <1>2, ThresholdAssumption DEF R!Remember
  <2>2. Len(longer) > 1
    BY <1>1, <1>2, ThresholdAssumption
  <2>3. /\ Tail(longer) \in Seq(BOOLEAN) /\ Len(Tail(longer)) = Threshold
        /\ \A i \in 1 .. Threshold : Tail(longer)[i] = longer[i + 1]
    BY <1>1, <1>2, <2>2
  <2>. QED  BY <1>1, <1>2, <2>1, <2>3, ThresholdAssumption
<1>3. CASE Len(seq) < Threshold
  <2>1. R!Remember(seq, lost) = longer
    BY <1>1, <1>3, ThresholdAssumption DEF R!Remember
  <2>. QED  BY <1>1, <1>3, <2>1, ThresholdAssumption
<1>. QED  BY <1>2, <1>3, ThresholdAssumption

\* One more loss is one more in the counter.
LEMMA CountsLost ==
  ASSUME NEW seq \in Seq(BOOLEAN), NEW m \in Nat, Counts(seq, m)
  PROVE  Counts(R!Remember(seq, TRUE), m + 1)
<1> DEFINE r == R!Remember(seq, TRUE)
<1>1. Len(seq) <= Threshold /\ Len(seq) \in Nat
  BY DEF Counts
<1>2. /\ Len(r) \in 1 .. Threshold /\ r[Len(r)] = TRUE
      /\ Len(seq) < Threshold =>
           Len(r) = Len(seq) + 1 /\ \A i \in 1 .. Len(seq) : r[i] = seq[i]
      /\ Len(seq) = Threshold =>
           Len(r) = Threshold /\ \A i \in 1 .. Threshold - 1 : r[i] = seq[i + 1]
  BY <1>1, RememberWindow, Zenon
<1> HIDE DEF r
<1>3. ASSUME Len(seq) < Threshold
      PROVE  Counts(r, m + 1)
  <2>1. m <= Len(seq) /\ Len(r) = Len(seq) + 1
    BY <1>1, <1>2, <1>3, ThresholdAssumption DEF Counts
  <2>2. ASSUME NEW i \in 1 .. Len(r), i > Len(r) - (m + 1)
        PROVE  r[i] = TRUE
    <3>1. CASE i = Len(r)
      BY <1>2, <3>1
    <3>2. CASE i # Len(r)
      <4>1. i \in 1 .. Len(seq) /\ i > Len(seq) - m
        BY <1>1, <2>1, <2>2, <3>2
      <4>2. seq[i] = TRUE /\ r[i] = seq[i]
        BY <1>2, <1>3, <4>1, Zenon DEF Counts
      <4>. QED  BY <4>2
    <3>. QED  BY <3>1, <3>2
  <2>3. ASSUME m + 1 < Len(r)
        PROVE  r[Len(r) - (m + 1)] = FALSE
    <3>1. m < Len(seq) /\ Len(seq) - m \in 1 .. Len(seq) /\ Len(r) - (m + 1) = Len(seq) - m
      BY <1>1, <2>1, <2>3
    <3>2. seq[Len(seq) - m] = FALSE /\ r[Len(seq) - m] = seq[Len(seq) - m]
      BY <1>2, <1>3, <3>1, Zenon DEF Counts
    <3>. QED  BY <3>1, <3>2, Zenon
  <2>4. Len(r) <= Threshold /\ m + 1 <= Len(r)
    BY <1>1, <1>2, <2>1, ThresholdAssumption
  <2>. QED  BY <2>2, <2>3, <2>4 DEF Counts
<1>4. ASSUME Len(seq) = Threshold
      PROVE  Counts(r, m + 1)
  <2>1. Len(r) = Threshold /\ Threshold \in Nat
    BY <1>2, <1>4, ThresholdAssumption
  <2>2. ASSUME NEW i \in 1 .. Len(r), i > Len(r) - (m + 1)
        PROVE  r[i] = TRUE
    <3>1. CASE i = Len(r)
      BY <1>2, <3>1
    <3>2. CASE i # Len(r)
      <4>1. /\ i \in 1 .. Threshold - 1
            /\ i + 1 \in 1 .. Len(seq) /\ i + 1 > Len(seq) - m
        BY <1>4, <2>1, <2>2, <3>2
      <4>2. seq[i + 1] = TRUE /\ r[i] = seq[i + 1]
        BY <1>2, <1>4, <4>1, Zenon DEF Counts
      <4>. QED  BY <4>2, Zenon
    <3>. QED  BY <3>1, <3>2
  <2>3. ASSUME m + 1 < Len(r)
        PROVE  r[Len(r) - (m + 1)] = FALSE
    <3>1. /\ m < Len(seq) /\ Len(r) - (m + 1) \in 1 .. Threshold - 1
          /\ (Len(r) - (m + 1)) + 1 = Len(seq) - m
      BY <1>4, <2>1, <2>3
    <3>2. /\ seq[Len(seq) - m] = FALSE
          /\ r[Len(r) - (m + 1)] = seq[(Len(r) - (m + 1)) + 1]
      BY <1>2, <1>4, <3>1, Zenon DEF Counts
    <3>. QED  BY <3>1, <3>2, Zenon
  <2>4. Len(r) <= Threshold
    BY <2>1
  <2>. QED  BY <2>1, <2>2, <2>3, <2>4 DEF Counts
<1>5. Len(seq) < Threshold \/ Len(seq) = Threshold
  BY <1>1, ThresholdAssumption
<1>6. Counts(r, m + 1)
  BY <1>3, <1>4, <1>5, Zenon
<1>. QED  BY <1>6 DEF r

\* A zone that is heard from counts from 0 again.
LEMMA CountsHeard ==
  ASSUME NEW seq \in Seq(BOOLEAN), Len(seq) <= Threshold
  PROVE  Counts(R!Remember(seq, FALSE), 0)
<1> DEFINE r == R!Remember(seq, FALSE)
<1>1. Len(r) \in 1 .. Threshold /\ r[Len(r)] = FALSE
  BY RememberWindow, Zenon
<1> HIDE DEF r
<1>2. Counts(r, 0)
  BY <1>1, ThresholdAssumption DEF Counts
<1>. QED  BY <1>2 DEF r

\* The threshold is reached exactly when the whole window says "lost".
LEMMA CountsThroughout ==
  ASSUME NEW seq \in Seq(BOOLEAN), NEW m \in Nat, Counts(seq, m)
  PROVE  R!LostThroughout(seq) <=> m >= Threshold
<1>1. Len(seq) \in Nat
  OBVIOUS
<1>2. CASE m >= Threshold
  BY <1>1, <1>2, ThresholdAssumption DEF Counts, R!LostThroughout
<1>3. CASE m < Threshold /\ Len(seq) = Threshold
  <2>1. Threshold - m \in 1 .. Threshold /\ seq[Threshold - m] = FALSE
    BY <1>3, ThresholdAssumption DEF Counts
  <2>. QED  BY <1>3, <2>1, ThresholdAssumption DEF R!LostThroughout
<1>. QED  BY <1>1, <1>2, <1>3, ThresholdAssumption DEF R!LostThroughout

\* The counters stay within their bound, and move as the code moves them.
LEMMA CountedType ==
  ASSUME STypeOK, NEW present \in SUBSET Zones, NEW lost \in SUBSET present,
         Poll(present, lost)
  PROVE  /\ misses' \in [Zones -> 0 .. MaxMisses]
         /\ \A z \in Zones : misses'[z] = IF z \in lost THEN misses[z] + 1
                                          ELSE IF z \in present THEN 0
                                          ELSE misses[z]
<1>1. misses' = [z \in Zones |-> IF z \in lost THEN misses[z] + 1
                                 ELSE IF z \in present THEN 0
                                 ELSE misses[z]]
  BY DEF Poll, UpdateSupervisionIssues, Counted
<1>2. \A z \in Zones : misses[z] \in 0 .. MaxMisses
  BY DEF STypeOK
<1>3. ASSUME NEW z \in lost
      PROVE  misses[z] + 1 \in 0 .. MaxMisses
  <2>1. z \in Zones /\ misses[z] \in 0 .. MaxMisses
    BY <1>2
  <2>2. misses[z] < MaxMisses
    BY DEF Poll
  <2>. QED  BY <2>1, <2>2, MaxMissesAssumption
<1>. QED  BY <1>1, <1>2, <1>3, MaxMissesAssumption

LEMMA SHInvInit == SHInit => SHInv
<1> SUFFICES ASSUME SHInit PROVE SHInv
  OBVIOUS
<1>1. 0 \in 0 .. MaxMisses /\ <<>> \in Seq(BOOLEAN) /\ Counts(<<>>, 0)
  BY ThresholdAssumption, MaxMissesAssumption DEF Counts
<1>. QED
  BY <1>1 DEF SHInit, SInit, SHInv, STypeOK, ReportedCount, CountersTell,
              IssuesAccountedFor

\* What a poll leaves in the window and the counter of a zone.
LEMMA WindowMoves ==
  ASSUME SHInv, NEW present \in SUBSET Zones, NEW lost \in SUBSET present,
         SHPoll(present, lost), NEW z \in Zones
  PROVE  heard'[z] \in Seq(BOOLEAN) /\ Counts(heard'[z], misses'[z])
<1>1. heard[z] \in Seq(BOOLEAN) /\ misses[z] \in Nat /\ Counts(heard[z], misses[z])
  <2>1. misses[z] \in 0 .. MaxMisses
    BY DEF SHInv, STypeOK
  <2>. QED  BY <2>1, MaxMissesAssumption DEF SHInv, STypeOK, CountersTell
<1>2. misses'[z] = IF z \in lost THEN misses[z] + 1
                   ELSE IF z \in present THEN 0
                   ELSE misses[z]
  BY CountedType DEF SHInv, SHPoll
<1>3. heard'[z] = IF z \in present THEN R!Remember(heard[z], z \in lost)
                  ELSE heard[z]
  BY DEF SHPoll
<1>4. Len(heard[z]) <= Threshold
  BY <1>1 DEF Counts
<1>5. CASE z \in lost
  <2>1. (z \in lost) = TRUE
    BY <1>5
  <2>2. heard'[z] = R!Remember(heard[z], TRUE) /\ misses'[z] = misses[z] + 1
    BY <1>2, <1>3, <1>5, <2>1
  <2>3. Counts(R!Remember(heard[z], TRUE), misses[z] + 1)
    BY <1>1, CountsLost, Zenon
  <2>4. TRUE \in BOOLEAN
    OBVIOUS
  <2>5. R!Remember(heard[z], TRUE) \in Seq(BOOLEAN)
    BY <1>1, <1>4, <2>4, RememberWindow, Zenon
  <2>. QED  BY <2>2, <2>3, <2>5, Zenon
<1>6. CASE z \notin lost /\ z \in present
  <2>1. (z \in lost) = FALSE
    BY <1>6
  <2>2. heard'[z] = R!Remember(heard[z], FALSE) /\ misses'[z] = 0
    BY <1>2, <1>3, <1>6, <2>1
  <2>3. FALSE \in BOOLEAN /\ heard[z] \in Seq(BOOLEAN)
    BY <1>1
  <2>4. Counts(R!Remember(heard[z], FALSE), 0)
    BY <1>4, <2>3, CountsHeard, Zenon
  <2>5. R!Remember(heard[z], FALSE) \in Seq(BOOLEAN)
    BY <1>4, <2>3, RememberWindow, Zenon
  <2>. QED  BY <2>2, <2>4, <2>5, Zenon
<1>7. CASE z \notin lost /\ z \notin present
  BY <1>1, <1>2, <1>3, <1>7
<1>. QED  BY <1>5, <1>6, <1>7

LEMMA SHInvStep == SHInv /\ [SHNext]_shvars => SHInv'
<1> SUFFICES ASSUME SHInv, [SHNext]_shvars PROVE SHInv'
  OBVIOUS
<1>1. ASSUME NEW present \in SUBSET Zones, NEW lost \in SUBSET present,
             SHPoll(present, lost)
      PROVE  SHInv'
  <2> DEFINE raised == {z \in present \ reported : over_threshold(misses'[z])}
  <2>1. /\ reported' = (reported \cup raised) \ Recovered(present)
        /\ issues' = (issues \cup raised) \ Recovered(present)
        /\ inherited' = inherited \ (reported \cup reported')
        /\ Recovered(present) \subseteq reported
        /\ listed' = present
    BY <1>1 DEF SHPoll, Poll, UpdateSupervisionIssues, Recovered
  <2>2. IssuesAccountedFor'
    BY <2>1 DEF SHInv, IssuesAccountedFor
  <2>3. misses' \in [Zones -> 0 .. MaxMisses]
    BY <1>1, CountedType DEF SHInv, SHPoll
  <2>4. ReportedCount'
    BY <2>1 DEF ReportedCount, Recovered, over_threshold
  <2>5. /\ reported' \subseteq Zones /\ issues' \subseteq Zones
        /\ inherited' \subseteq Zones /\ listed' \subseteq Zones
    BY <2>1 DEF SHInv, STypeOK
  <2>6. CountersTell' /\ heard' \in [Zones -> Seq(BOOLEAN)]
    <3>1. \A z \in Zones : heard'[z] \in Seq(BOOLEAN) /\ Counts(heard'[z], misses'[z])
      BY <1>1, WindowMoves, Zenon
    <3>2. heard' = [z \in Zones |-> heard'[z]]
      BY <1>1 DEF SHPoll
    <3>3. heard' \in [Zones -> Seq(BOOLEAN)]
      BY <3>1, <3>2
    <3>. QED  BY <3>1, <3>3, Zenon DEF CountersTell, Counts
  <2>. QED  BY <2>2, <2>3, <2>4, <2>5, <2>6 DEF SHInv, STypeOK
<1>2. ASSUME Forget, NewCounters,
             \/ UNCHANGED issues /\ inherited' = issues
             \/ issues' = {} /\ inherited' = {}
      PROVE  SHInv'
  <2>1. 0 \in 0 .. MaxMisses /\ <<>> \in Seq(BOOLEAN) /\ Counts(<<>>, 0)
    BY ThresholdAssumption, MaxMissesAssumption DEF Counts
  <2>. QED
    BY <1>2, <2>1
       DEF Forget, NewCounters, SHInv, STypeOK, ReportedCount, CountersTell,
           IssuesAccountedFor
<1>3. CASE SHReload
  BY <1>2, <1>3 DEF SHReload, Reload
<1>4. CASE SHRestart
  BY <1>2, <1>4 DEF SHRestart, Restart
<1>5. CASE UNCHANGED shvars
  BY <1>5 DEF shvars, svars, shistory, SHInv, STypeOK, ReportedCount,
              CountersTell, IssuesAccountedFor
<1>. QED  BY <1>1, <1>3, <1>4, <1>5 DEF SHNext

\* The inductive invariant holds.
THEOREM SHInvariant == SHSpec => []SHInv
BY SHInvInit, SHInvStep, PTL DEF SHSpec

\* The counters, the reported set and the registry keep their types.
THEOREM SupervisionTypes == SHSpec => []STypeOK
<1>1. SHInv => STypeOK
  BY DEF SHInv
<1>. QED  BY <1>1, SHInvariant, PTL

\* The reported zones are those the windows call for.
LEMMA ReportedAreDue == SHInv => ReportedIffLostThroughout
<1> SUFFICES ASSUME SHInv PROVE reported = R!Due
  BY DEF ReportedIffLostThroughout
<1>1. ASSUME NEW z \in listed
      PROVE  R!LostThroughout(heard[z]) <=> misses[z] >= Threshold
  <2>1. z \in Zones /\ heard[z] \in Seq(BOOLEAN) /\ Counts(heard[z], misses[z])
    BY <1>1 DEF SHInv, STypeOK, CountersTell
  <2>2. misses[z] \in Nat
    BY <2>1, MaxMissesAssumption DEF SHInv, STypeOK
  <2>. QED  BY <2>1, <2>2, CountsThroughout
<1>2. reported = {z \in listed : misses[z] >= Threshold}
  BY DEF SHInv, ReportedCount
<1>. QED  BY <1>1, <1>2, Zenon DEF R!Due

\* The coordinator reports exactly the zones of the last poll whose last
\* Threshold listings all had lossOfSupervision.
THEOREM ReportedZonesWereLost == SHSpec => []ReportedIffLostThroughout
BY ReportedAreDue, SHInvariant, PTL

\* The coordinator and the issue registry never disagree, except on issues an
\* earlier coordinator left behind.
THEOREM IssuesAreAccountedFor == SHSpec => []IssuesAccountedFor
<1>1. SHInv => IssuesAccountedFor
  BY DEF SHInv
<1>. QED  BY <1>1, SHInvariant, PTL

\* No issue is closed while its zone is still listed as lost, unless Home
\* Assistant restarts.
THEOREM IssuesCloseForAReason == SHSpec => ClosedForAReason
<1> DEFINE Reason(z) == \/ z \notin listed'
                        \/ ~heard'[z][Len(heard'[z])]
                        \/ Restart
           A == \A z \in issues \ issues' : Reason(z)
<1>1. SHInv /\ SHNext => A
  <2> SUFFICES ASSUME SHInv, SHNext, NEW z \in issues \ issues'
               PROVE  Reason(z)
    OBVIOUS
  <2>1. ASSUME NEW present \in SUBSET Zones, NEW lost \in SUBSET present,
               SHPoll(present, lost), z \in listed'
        PROVE  ~heard'[z][Len(heard'[z])]
    <3>1. z \in Recovered(present) /\ z \in present
      BY <2>1 DEF SHPoll, Poll, UpdateSupervisionIssues
    <3>2. /\ ~over_threshold(misses'[z])
          /\ z \in reported /\ z \in Zones
      BY <3>1 DEF Recovered
    <3>3. misses[z] >= Threshold /\ misses[z] \in 0 .. MaxMisses
      BY <3>2 DEF SHInv, ReportedCount, STypeOK
    <3>4. z \notin lost
      <4>1. STypeOK /\ Poll(present, lost)
        BY <2>1 DEF SHInv, SHPoll
      <4>2. z \in lost => misses'[z] = misses[z] + 1
        BY <3>2, <4>1, CountedType
      <4>. QED
        BY <3>2, <3>3, <4>2, ThresholdAssumption, MaxMissesAssumption
           DEF over_threshold
    <3>5. (z \in lost) = FALSE
      BY <3>4
    <3>6. heard'[z] = R!Remember(heard[z], FALSE)
      BY <2>1, <3>1, <3>2, <3>5 DEF SHPoll
    <3>7. heard[z] \in Seq(BOOLEAN) /\ Len(heard[z]) <= Threshold
      BY <3>2 DEF SHInv, STypeOK, CountersTell, Counts
    <3>8. heard'[z][Len(heard'[z])] = FALSE
      BY <3>6, <3>7, RememberWindow, Zenon
    <3>. QED  BY <3>8
  <2>2. CASE SHReload
    BY <2>2 DEF SHReload, Reload
  <2>3. CASE SHRestart
    BY <2>3 DEF SHRestart
  <2>. QED  BY <2>1, <2>2, <2>3 DEF SHNext
<1>2. SHInv /\ [SHNext]_shvars => [A]_shvars
  BY <1>1
<1>. QED  BY <1>2, SHInvariant, PTL DEF SHSpec, ClosedForAReason

\* The counters, the reported set and the registry implement the promise: every
\* step is one that the windows of reports call for.
THEOREM IssuesImplementPromise == SHSpec => IssuesFollowReports
<1>1. SHInit => R!RInit
  BY DEF SHInit, SInit, R!RInit
<1>2. SHInv /\ SHInv' /\ [SHNext]_shvars => [R!RNext]_(R!rvars)
  <2> SUFFICES ASSUME SHInv, SHInv', [SHNext]_shvars
               PROVE  R!RNext \/ UNCHANGED R!rvars
    OBVIOUS
  <2>1. reported = R!Due /\ reported' = R!Due'
    <3>1. ReportedIffLostThroughout /\ ReportedIffLostThroughout'
      BY ReportedAreDue, PTL
    <3>. QED  BY <3>1 DEF ReportedIffLostThroughout
  <2>2. issues' = reported' \cup inherited'
    BY DEF SHInv, IssuesAccountedFor
  <2>3. ASSUME NEW present \in SUBSET Zones, NEW lost \in SUBSET present,
               SHPoll(present, lost)
        PROVE  R!RPoll(present, lost)
    BY <2>1, <2>2, <2>3 DEF SHPoll, R!RPoll
  <2>4. CASE SHReload
    BY <2>4 DEF SHReload, Reload, Forget, R!RNext, R!RAnew
  <2>5. CASE SHRestart
    BY <2>5 DEF SHRestart, Restart, Forget, R!RNext, R!RAnew
  <2>6. CASE UNCHANGED shvars
    BY <2>6 DEF shvars, svars, shistory, R!rvars
  <2>. QED  BY <2>3, <2>4, <2>5, <2>6 DEF SHNext, R!RNext
<1>. QED
  BY <1>1, <1>2, SHInvariant, PTL DEF SHSpec, IssuesFollowReports, R!RSpec
=============================================================================
