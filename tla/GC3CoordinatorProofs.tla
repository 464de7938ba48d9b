------------------------ MODULE GC3CoordinatorProofs ------------------------
(***************************************************************************)
(* What holds of the coordinator for every choice of its constants.  First *)
(* without history: its types, that polling stops only when refused, and   *)
(* that a poll counts as a whole or not at all.  Then the label and the    *)
(* snapshot, carried by one inductive invariant, HInv: what a quiet poll   *)
(* has read so far is still true of the panel; a panel armed by Home       *)
(* Assistant is in the state that command put it in, or in alarm; and a    *)
(* night arm that holds without a race or an alarm has its flag and no     *)
(* status left in flight that would clear it.                              *)
(***************************************************************************)
EXTENDS GC3CoordinatorHistory, TLAPS


\* Snapshots are built from their parts.
LEMMA SnapType ==
  ASSUME NEW a \in ArmState, NEW s \in BOOLEAN, NEW z \in BOOLEAN
  PROVE  Snap(a, s, z) \in Snapshot
  BY DEF Snap, Snapshot, Status

\* The fixed values have their types.
LEMMA FixedTypes ==
  /\ Unread \in Snapshot
  /\ NoPoll \in Poll /\ NewPoll \in Poll /\ NoCommand \in Command
  /\ NoPoll.at = "idle" /\ NewPoll.at = "status" /\ NoCommand.at = "idle"
<1>1. Unread \in Snapshot
  BY SnapType DEF Unread, ArmState
<1>2. NoPoll \in Poll /\ NewPoll \in Poll /\ NoCommand \in Command
  BY <1>1 DEF NoPoll, NewPoll, NoCommand, Poll, Command, AllServices
<1>3. NoPoll.at = "idle" /\ NewPoll.at = "status" /\ NoCommand.at = "idle"
  BY DEF NoPoll, NewPoll, NoCommand
<1>. QED  BY <1>1, <1>2, <1>3

\* The panel stays a panel.
LEMMA PanelType ==
  ASSUME panel \in Snapshot, PanelChanges
  PROVE  panel' \in Snapshot
<1>1. /\ panel.status.arm_state \in ArmState
      /\ panel.status.is_armed_stay \in BOOLEAN
      /\ panel.in_alarm \in BOOLEAN
  BY DEF Snapshot, Status
<1>2. {"ready", "arming", "armed", "alarm"} \subseteq ArmState
  BY DEF ArmState
<1>3. CASE KeypadArms
  BY <1>1, <1>2, <1>3, SnapType, ServicesAssumption DEF KeypadArms
<1>4. CASE OtherArms
  BY <1>1, <1>2, <1>4, SnapType, ServicesAssumption DEF OtherArms
<1>5. CASE ExitDelayEnds
  BY <1>1, <1>2, <1>5, SnapType DEF ExitDelayEnds
<1>6. CASE OtherDisarms
  BY <1>6, FixedTypes DEF OtherDisarms
<1>7. CASE ZoneTrips
  <2>1. [panel EXCEPT !.in_alarm = TRUE] \in Snapshot
    BY DEF Snapshot
  <2>. QED  BY <1>1, <1>2, <1>7, <2>1, SnapType DEF ZoneTrips
<1>8. CASE SirenStops
  BY <1>1, <1>2, <1>8, SnapType DEF SirenStops
<1>. QED  BY <1>3, <1>4, <1>5, <1>6, <1>7, <1>8 DEF PanelChanges

\* Initially every variable has its type.
LEMMA TypeInit == Init => TypeOK
  BY FixedTypes DEF Init, TypeOK, Net

\* Every step keeps them.
LEMMA TypeStep == TypeOK /\ [Next]_vars => TypeOK'
<1>. SUFFICES ASSUME TypeOK, [Next]_vars  PROVE TypeOK'
  OBVIOUS
<1>. USE FixedTypes DEF TypeOK, KeepPrompt
<1>1. CASE PanelChanges
  <2>1. UNCHANGED <<net, ha>>
    BY <1>1 DEF PanelChanges, KeypadArms, OtherArms, ExitDelayEnds,
                OtherDisarms, ZoneTrips, SirenStops
  <2>. QED  BY <1>1, <2>1, PanelType DEF ha
<1>2. CASE NetChanges
  BY <1>2 DEF NetChanges, ha
<1>3. CASE ScheduledPoll
  BY <1>3 DEF ScheduledPoll, BeginPoll, env
<1>4. CASE ServeStatus
  <2>1. poll' \in Poll /\ poll'.at = "zones"
    BY <1>4 DEF ServeStatus, ReadStatus, Poll, Snapshot
  <2>. QED  BY <1>4, <2>1 DEF ServeStatus, env
<1>5. CASE ServeZones
  <2>1. poll' \in Poll /\ poll'.at = "done"
    BY <1>5 DEF ServeZones, Poll, Snapshot
  <2>. QED  BY <1>5, <2>1 DEF ServeZones, env
<1>6. ASSUME EndPoll
      PROVE  /\ poll' \in Poll /\ command' \in Command
             /\ command'.at # "refresh"
  BY <1>6 DEF EndPoll, ReleaseWaiter
<1>7. CASE FinishPoll
  <2>1. data' \in Snapshot /\ armed_night' \in BOOLEAN
    BY <1>7 DEF FinishPoll, TakeSnapshot, ClearNight, Poll
  <2>. QED  BY <1>6, <1>7, <2>1 DEF FinishPoll, env
<1>8. CASE PollFails
  BY <1>6, <1>8 DEF PollFails, GoOffline, env
<1>9. CASE PollDenied
  BY <1>6, <1>9 DEF PollDenied, GoOffline, env
<1>10. ASSUME NEW service \in Services, Call(service)  PROVE TypeOK'
  <2>1. command' \in Command /\ command'.at = "sent"
    BY <1>10, ServicesAssumption DEF Call, Command
  <2>. QED  BY <1>10, <2>1 DEF Call, env
<1>11. CASE Apply
  <2>1. command' \in Command /\ command'.at = "applied"
    BY <1>11 DEF Apply, Command
  <2>2. ArmsStay(command.service) \in BOOLEAN
    BY DEF ArmsStay
  <2>3. panel' \in Snapshot
    BY <1>11, <2>2, SnapType DEF Apply, no_exit_delay, ArmState
  <2>. QED  BY <1>11, <2>1, <2>3 DEF Apply
<1>12. CASE CommandFails
  BY <1>12 DEF CommandFails, env
<1>13. CASE Acknowledge
  <2>1. armed_night' \in BOOLEAN
    BY <1>13 DEF Acknowledge, note_arm
  <2>2. /\ poll' \in Poll /\ command' \in Command /\ timer' \in BOOLEAN
        /\ command'.at = "refresh" => poll'.at # "idle"
    <3>1. [command EXCEPT !.at = "refresh"] \in Command
      BY DEF Command
    <3>. QED
      BY <1>13, <3>1 DEF Acknowledge, RequestRefresh, BeginPoll
  <2>. QED  BY <1>13, <2>1, <2>2 DEF Acknowledge, env
<1>14. ASSUME NewCoordinator, reauth' \in {"none", "open", "withheld"}
       PROVE  TypeOK'
  BY <1>14 DEF NewCoordinator, FirstRefresh, env
<1>15. CASE Reload \/ ReauthConfirmed \/ Restart
  BY <1>14, <1>15 DEF Reload, ReauthConfirmed, Restart
<1>16. CASE UNCHANGED vars
  BY <1>16 DEF vars, env, ha
<1>. QED
  BY <1>1, <1>2, <1>3, <1>4, <1>5, <1>7, <1>8, <1>9, <1>10, <1>11, <1>12,
     <1>13, <1>15, <1>16 DEF Next, PollStep, CommandStep

\* Type correctness, with what ties a waiting command to the poll it waits for.
THEOREM TypeCorrect == Spec => []TypeOK
  BY TypeInit, TypeStep, PTL DEF Spec

\* Polling stops only after keys were refused, and then nothing is shown.  The
\* invariant is inductive as it stands.
THEOREM PollingStopsOnlyWhenRefused == Spec => []StopsOnlyWhenRefused
<1>. USE DEF StopsOnlyWhenRefused, PollingStopped
<1>1. Init => StopsOnlyWhenRefused
  BY DEF Init, NewPoll
<1>2. StopsOnlyWhenRefused /\ [Next]_vars => StopsOnlyWhenRefused'
  <2>. SUFFICES ASSUME StopsOnlyWhenRefused, [Next]_vars
                PROVE  StopsOnlyWhenRefused'
    OBVIOUS
  <2>1. CASE PanelChanges \/ NetChanges \/ UNCHANGED vars
    BY <2>1 DEF PanelChanges, KeypadArms, OtherArms, ExitDelayEnds,
                OtherDisarms, ZoneTrips, SirenStops, NetChanges, vars, ha
  <2>2. CASE ScheduledPoll \/ ServeStatus \/ ServeZones
    BY <2>2 DEF ScheduledPoll, BeginPoll, NewPoll, ServeStatus, ReadStatus,
                ServeZones
  <2>3. CASE FinishPoll \/ PollFails
    BY <2>3 DEF FinishPoll, PollFails
  <2>4. CASE PollDenied
    BY <2>4 DEF PollDenied, GoOffline
  <2>5. CASE (\E service \in Services : Call(service)) \/ Apply \/ CommandFails
    BY <2>5 DEF Call, Apply, CommandFails
  <2>6. CASE Acknowledge
    BY <2>6 DEF Acknowledge, RequestRefresh, BeginPoll, NewPoll
  <2>7. CASE Reload \/ ReauthConfirmed \/ Restart
    BY <2>7 DEF Reload, ReauthConfirmed, Restart, NewCoordinator, FirstRefresh,
                NewPoll
  <2>. QED
    BY <2>1, <2>2, <2>3, <2>4, <2>5, <2>6, <2>7
       DEF Next, PollStep, CommandStep
<1>. QED  BY <1>1, <1>2, PTL DEF Spec

\* Between the beginning of a poll and its last answer nothing of it shows, and
\* a poll that fails has left the flag and the snapshot alone throughout.
THEOREM PollsAreWhole == Spec => WholePollsOnly
<1>. DEFINE Held  == /\ UNCHANGED <<armed_night, data>>
                    /\ Shown' \in {Shown, "unavailable"}
            Whole == \/ poll.at = "done" /\ poll'.at = "idle"
                     \/ Acknowledge \/ NewCoordinator
                     \/ Held
<1>1. [Next]_vars => [Whole]_vars
  <2>. SUFFICES ASSUME Next, ~Acknowledge, ~NewCoordinator,
                       ~(poll.at = "done" /\ poll'.at = "idle")
                PROVE  Held
    OBVIOUS
  <2>1. ASSUME UNCHANGED <<armed_night, data, last_update_success>>
        PROVE  Held
    BY <2>1 DEF Shown, Available, Loaded
  <2>2. CASE PanelChanges \/ NetChanges
    BY <2>1, <2>2 DEF PanelChanges, KeypadArms, OtherArms, ExitDelayEnds,
                      OtherDisarms, ZoneTrips, SirenStops, NetChanges, ha
  <2>3. CASE ScheduledPoll \/ ServeStatus \/ ServeZones
    BY <2>1, <2>3 DEF ScheduledPoll, ServeStatus, ServeZones
  <2>4. CASE PollFails \/ PollDenied
    BY <2>4 DEF PollFails, PollDenied, GoOffline, Shown, Available
  <2>5. CASE (\E service \in Services : Call(service)) \/ Apply \/ CommandFails
    BY <2>1, <2>5 DEF Call, Apply, CommandFails
  <2>6. ~FinishPoll
    BY FixedTypes DEF FinishPoll, EndPoll
  <2>7. ~Reload /\ ~ReauthConfirmed /\ ~Restart
    BY DEF Reload, ReauthConfirmed, Restart
  <2>. QED
    BY <2>2, <2>3, <2>4, <2>5, <2>6, <2>7 DEF Next, PollStep, CommandStep
<1>. QED  BY <1>1, PTL DEF Spec, WholePollsOnly

-----------------------------------------------------------------------------
\* What the poll in flight has read, if the panel has not moved meanwhile.
PollCurrent ==
  pollQuiet => /\ poll.at = "zones" => poll.seen.status = panel.status
               /\ poll.at = "done" => poll.seen = panel

\* Armed by Home Assistant means armed, in alarm or not, without having been
\* through a countdown; and away means away.
ArmedByHA ==
  /\ mode \in {"home", "away", "night"} =>
       panel.status.arm_state \in {"armed", "alarm"}
  /\ AwayStaysAway

NightHeld ==
  nightFate = "held" => /\ mode = "night"
                        /\ ~raced /\ ~alarmed => armed_night /\ ~StaleRead

HInv ==
  /\ HTypeOK /\ SnapshotCurrent /\ PollCurrent
  /\ ArmedByHA /\ NightHeld /\ NightIsOurs

\* With its history a behaviour is still one of GC3Coordinator, so that what is
\* proved of that holds here.  (That the history stops no step cannot be said
\* without ENABLED.  Its conjuncts do nothing but assign the primed variables.)
LEMMA HistoryWatches ==
  /\ HInit => Init
  /\ [HNext]_hvars => [Next]_vars
<1>1. HInit => Init
  BY DEF HInit
<1>2. HNext => Next
  BY DEF HNext, HPanelChanges, HScheduledPoll, HServeStatus, HFinishPoll,
         HPollEnds, HApply, HAcknowledge, HNewCoordinator, HOther, Next, PanelChanges, PollStep,
         CommandStep
<1>3. UNCHANGED hvars => UNCHANGED vars
  BY DEF hvars
<1>. QED  BY <1>1, <1>2, <1>3

\* The label, the snapshot and the history's types, in one invariant.
THEOREM HistoryInvariant == HSpec => []HInv
<1>1. HInit => HInv
  <2>. SUFFICES ASSUME HInit  PROVE HInv
    OBVIOUS
  <2>1. HTypeOK
    BY HistoryWatches, TypeInit DEF HInit, HTypeOK, Mode, Fate
  <2>2. poll.at = "status"
    BY FixedTypes DEF HInit, Init
  <2>. QED
    BY <2>1, <2>2
       DEF HInit, Init, HInv, SnapshotCurrent, PollCurrent, ArmedByHA,
           AwayStaysAway, NightHeld, NightIsOurs
<1>2. HInv /\ [HNext]_hvars => HInv'
  <2>. SUFFICES ASSUME HInv, [HNext]_hvars  PROVE HInv'
    OBVIOUS
  <2>1. TypeOK /\ TypeOK'
    BY HistoryWatches, TypeStep DEF HInv, HTypeOK
  <2>2. CASE HPanelChanges
    <3>1. /\ pollQuiet' = FALSE /\ dataQuiet' = FALSE
          /\ UNCHANGED <<poll, armed_night>>
      BY <2>2 DEF HPanelChanges, PanelMoves, KeypadArms, OtherArms,
                  OtherDisarms, ExitDelayEnds, ZoneTrips, SirenStops, ha
    <3>2. /\ mode' \in Mode /\ nightFate' \in Fate /\ raced' \in BOOLEAN
          /\ alarmed' \in BOOLEAN
          /\ nightFate' = "none" <=> nightFate = "none"
          /\ nightFate' = "held" =>
               /\ nightFate = "held" /\ mode' = mode
               /\ raced' = raced /\ alarmed' = alarmed
      <4>1. PICK m \in {"other", "none", mode} : PanelMoves(m)
        BY <2>2 DEF HPanelChanges
      <4>. QED
        BY <4>1 DEF PanelMoves, Mode, Fate, NightHeld, HInv, HTypeOK
    <3>3. ArmedByHA'
      <4>1. CASE mode' \in {"other", "none"}
        BY <4>1 DEF ArmedByHA, AwayStaysAway
      <4>2. CASE mode' \notin {"other", "none"}
        <5>1. (ExitDelayEnds \/ ZoneTrips \/ SirenStops) /\ mode' = mode
          BY <2>2, <4>2 DEF HPanelChanges, PanelMoves
        <5>2. mode \in {"home", "away", "night"}
          BY <4>2, <5>1 DEF HInv, HTypeOK, Mode
        <5>3. /\ panel.status.arm_state \in {"armed", "alarm"}
              /\ mode = "away" => ~panel.status.is_armed_stay
          BY <5>2 DEF HInv, ArmedByHA, AwayStaysAway
        <5>4. /\ panel'.status.arm_state \in {"armed", "alarm"}
              /\ panel'.status.is_armed_stay = panel.status.is_armed_stay
          <6>1. panel \in Snapshot
            BY <2>1 DEF TypeOK
          <6>2. CASE ZoneTrips
            BY <5>3, <6>1, <6>2 DEF ZoneTrips, Snap, Snapshot
          <6>3. CASE SirenStops
            BY <5>3, <6>1, <6>3 DEF SirenStops, Snap, Snapshot, Status
          <6>. QED  BY <5>1, <5>3, <6>2, <6>3 DEF ExitDelayEnds
        <5>. QED
          BY <5>1, <5>3, <5>4 DEF ArmedByHA, AwayStaysAway
      <4>. QED  BY <4>1, <4>2
    <3>4. HTypeOK' /\ SnapshotCurrent' /\ PollCurrent'
      BY <2>1, <3>1, <3>2 DEF HTypeOK, SnapshotCurrent, PollCurrent
    <3>5. NightHeld' /\ NightIsOurs'
      BY <3>1, <3>2 DEF HInv, NightHeld, StaleRead, NightIsOurs
    <3>. QED  BY <3>3, <3>4, <3>5 DEF HInv
  <2>3. CASE HScheduledPoll
    <3>1. /\ poll' = NewPoll /\ pollQuiet' = TRUE
          /\ UNCHANGED <<panel, data, armed_night, mode, dataQuiet, nightFate,
                         raced, alarmed>>
      BY <2>3 DEF HScheduledPoll, ScheduledPoll, BeginPoll, env
    <3>. QED
      BY <2>1, <3>1, FixedTypes
         DEF HInv, HTypeOK, SnapshotCurrent, PollCurrent, ArmedByHA,
             AwayStaysAway, NightHeld, StaleRead, NightIsOurs
  <2>4. CASE HFinishPoll
    <3>1. /\ poll.at = "done" /\ poll' = NoPoll /\ data' = poll.seen
          /\ dataQuiet' = pollQuiet /\ pollQuiet' = FALSE
          /\ UNCHANGED <<panel, mode, nightFate, raced, alarmed>>
      BY <2>4 DEF HFinishPoll, FinishPoll, EndPoll, TakeSnapshot, env
    <3>2. armed_night' = (armed_night /\ ~StaleRead)
      BY <2>4, <3>1 DEF HFinishPoll, FinishPoll, ClearNight, StaleRead
    <3>3. HTypeOK' /\ SnapshotCurrent' /\ PollCurrent'
      BY <2>1, <3>1 DEF HInv, HTypeOK, SnapshotCurrent, PollCurrent
    <3>4. ArmedByHA'
      BY <3>1 DEF HInv, ArmedByHA, AwayStaysAway
    <3>5. ~StaleRead'
      BY <3>1, FixedTypes DEF StaleRead
    <3>6. NightHeld' /\ NightIsOurs'
      BY <3>1, <3>2, <3>5 DEF HInv, NightHeld, NightIsOurs
    <3>. QED  BY <3>3, <3>4, <3>6 DEF HInv
  <2>5. CASE HPollEnds
    <3>1. /\ poll' = NoPoll /\ pollQuiet' = FALSE
          /\ UNCHANGED <<panel, data, armed_night, mode, dataQuiet, nightFate,
                         raced, alarmed>>
      BY <2>5 DEF HPollEnds, PollFails, PollDenied, EndPoll, env
    <3>. QED
      BY <2>1, <3>1, FixedTypes
         DEF HInv, HTypeOK, SnapshotCurrent, PollCurrent, ArmedByHA,
             AwayStaysAway, NightHeld, StaleRead, NightIsOurs
  <2>6. CASE HApply
    <3>1. /\ pollQuiet' = FALSE /\ dataQuiet' = FALSE
          /\ mode' = ModeOf(command.service)
          /\ UNCHANGED <<poll, armed_night>>
      BY <2>6 DEF HApply, PanelMoves, Apply
    <3>2. command.service \in AllServices
      BY <2>1 DEF TypeOK, Command
    <3>3. /\ mode' \in Mode /\ nightFate' \in Fate /\ raced' \in BOOLEAN
          /\ alarmed' \in BOOLEAN
          /\ nightFate' = "none" <=> nightFate = "none"
          /\ nightFate' = "held" =>
               /\ nightFate = "held" /\ mode' = "night"
               /\ raced' = raced /\ alarmed' = alarmed
      BY <2>6, <3>2
         DEF HApply, PanelMoves, ModeOf, AllServices, Mode, Fate, HInv, HTypeOK
    <3>4. ArmedByHA'
      <4>1. CASE command.service = "disarm"
        BY <3>1, <4>1 DEF ModeOf, ArmedByHA, AwayStaysAway
      <4>2. CASE command.service # "disarm"
        <5>1. panel'.status = [arm_state |-> "armed",
                               is_armed_stay |-> ArmsStay(command.service)]
          BY <2>6, <4>2 DEF HApply, Apply, no_exit_delay, Snap
        <5>2. mode' = "away" => command.service = "arm_away"
          BY <3>1, <3>2, <4>2 DEF ModeOf, AllServices
        <5>3. panel'.status.arm_state = "armed"
          BY <5>1
        <5>4. ASSUME mode' = "away"
              PROVE  ~panel'.status.is_armed_stay
          <6>1. ~ArmsStay(command.service)
            BY <5>2, <5>4 DEF ArmsStay
          <6>2. ArmsStay(command.service) = FALSE
            BY <6>1 DEF ArmsStay
          <6>3. panel'.status = [arm_state |-> "armed",
                                 is_armed_stay |-> FALSE]
            BY <5>1, <6>2, Zenon
          <6>. QED  BY <6>3
        <5>. QED
          BY <5>3, <5>4 DEF ArmedByHA, AwayStaysAway
      <4>. QED  BY <4>1, <4>2
    <3>5. HTypeOK' /\ SnapshotCurrent' /\ PollCurrent'
      BY <2>1, <3>1, <3>3 DEF HTypeOK, SnapshotCurrent, PollCurrent
    <3>6. NightHeld' /\ NightIsOurs'
      BY <3>1, <3>3 DEF HInv, NightHeld, StaleRead, NightIsOurs
    <3>. QED  BY <3>4, <3>5, <3>6 DEF HInv
  <2>7. CASE HAcknowledge
    <3>1. /\ armed_night' = (command.service = "arm_night")
          /\ nightFate' = IF command.service # "arm_night" THEN "none"
                          ELSE IF mode = "night" THEN "held" ELSE "replaced"
          /\ raced' = (nightFate' = "held" /\ StaleRead) /\ alarmed' = FALSE
          /\ pollQuiet' = (pollQuiet \/ PollBegins)
          /\ UNCHANGED <<panel, data, mode, dataQuiet>>
      BY <2>7 DEF HAcknowledge, Acknowledge, note_arm, env
    <3>2. poll' = NewPoll \/ poll' = poll
      BY <2>7 DEF HAcknowledge, Acknowledge, RequestRefresh, BeginPoll
    <3>3. PollCurrent'
      BY <3>1, <3>2, FixedTypes DEF HInv, PollCurrent, PollBegins
    <3>4. HTypeOK' /\ SnapshotCurrent' /\ ArmedByHA'
      <4>1. /\ mode' \in Mode /\ nightFate' \in Fate /\ raced' \in BOOLEAN
            /\ dataQuiet' \in BOOLEAN /\ alarmed' \in BOOLEAN
        BY <3>1 DEF HInv, HTypeOK, Fate
      <4>2. pollQuiet' \in BOOLEAN
        BY <3>1 DEF HInv, HTypeOK
      <4>. QED
        BY <2>1, <3>1, <4>1, <4>2
           DEF HInv, HTypeOK, SnapshotCurrent, ArmedByHA, AwayStaysAway
    <3>5. StaleRead' => StaleRead
      BY <3>2, FixedTypes DEF StaleRead
    <3>6. NightHeld' /\ NightIsOurs'
      BY <3>1, <3>5 DEF NightHeld, NightIsOurs
    <3>. QED  BY <3>3, <3>4, <3>6 DEF HInv
  <2>8. CASE HNewCoordinator
    <3>1. /\ poll' = NewPoll /\ armed_night' = FALSE /\ pollQuiet' = TRUE
          /\ dataQuiet' = FALSE /\ nightFate' = "none"
          /\ raced' = FALSE /\ alarmed' = FALSE
          /\ UNCHANGED <<panel, mode>>
      BY <2>8 DEF HNewCoordinator, Reload, ReauthConfirmed, Restart,
                  NewCoordinator, FirstRefresh, env
    <3>. QED
      BY <2>1, <3>1, FixedTypes
         DEF HInv, HTypeOK, Fate, SnapshotCurrent, PollCurrent, ArmedByHA,
             AwayStaysAway, NightHeld, NightIsOurs
  <2>9. CASE HOther
    <3>1. UNCHANGED <<panel, data, armed_night, history>>
      BY <2>9 DEF HOther, NetChanges, ServeZones, CommandFails, Call, ha, env
    <3>2. HTypeOK' /\ SnapshotCurrent' /\ ArmedByHA' /\ NightIsOurs'
      BY <2>1, <3>1
         DEF history, HInv, HTypeOK, SnapshotCurrent, ArmedByHA,
             AwayStaysAway, NightIsOurs
    <3>3. PollCurrent' /\ NightHeld'
      <4>. USE <3>1 DEF HInv, PollCurrent, NightHeld, StaleRead, history
      <4>1. CASE ServeZones
        <5>1. /\ poll.at = "zones" /\ poll'.at = "done"
              /\ poll'.seen.status = poll.seen.status
              /\ poll'.seen = [status |-> poll.seen.status,
                               in_alarm |-> panel.in_alarm]
          BY <4>1 DEF ServeZones
        <5>2. pollQuiet => poll'.seen = panel
          BY <2>1, <5>1 DEF TypeOK, Snapshot
        <5>. QED  BY <5>1, <5>2
      <4>2. CASE UNCHANGED poll
        BY <4>2
      <4>. QED
        BY <2>9, <4>1, <4>2 DEF HOther, NetChanges, CommandFails, Call, ha
    <3>. QED  BY <3>2, <3>3 DEF HInv
  <2>10. CASE HServeStatus
    <3>1. /\ poll'.at = "zones" /\ poll'.seen.status = panel.status
          /\ UNCHANGED <<panel, data, armed_night, mode, pollQuiet, dataQuiet,
                         nightFate, raced>>
      BY <2>10 DEF HServeStatus, ServeStatus, ReadStatus, env
    <3>2. alarmed' = \/ alarmed
                     \/ nightFate = "held" /\ panel.status.arm_state = "alarm"
      BY <2>10 DEF HServeStatus
    <3>3. HTypeOK' /\ SnapshotCurrent' /\ PollCurrent'
      BY <2>1, <3>1, <3>2 DEF HInv, HTypeOK, SnapshotCurrent, PollCurrent
    <3>4. ArmedByHA' /\ NightIsOurs'
      BY <3>1 DEF HInv, ArmedByHA, AwayStaysAway, NightIsOurs
    <3>5. nightFate = "held" /\ ~alarmed' => ~StaleRead'
      BY <3>1, <3>2 DEF HInv, NightHeld, ArmedByHA, StaleRead, ArmedOrArming
    <3>6. NightHeld'
      BY <3>1, <3>2, <3>5 DEF HInv, NightHeld
    <3>. QED  BY <3>3, <3>4, <3>6 DEF HInv
  <2>11. CASE UNCHANGED hvars
    <3>1. UNCHANGED <<panel, poll, data, armed_night, history>>
      BY <2>11 DEF hvars, vars, env, ha
    <3>. QED
      BY <2>1, <3>1
         DEF history, HInv, HTypeOK, SnapshotCurrent, PollCurrent, ArmedByHA,
             AwayStaysAway, NightHeld, StaleRead, NightIsOurs
  <2>. QED
    BY <2>2, <2>3, <2>4, <2>5, <2>6, <2>7, <2>8, <2>9, <2>10,
       <2>11 DEF HNext
<1>. QED  BY <1>1, <1>2, PTL DEF HSpec

\* The history keeps its types.
THEOREM HistoryTypeCorrect == HSpec => []HTypeOK
<1>1. HInv => HTypeOK
  BY DEF HInv
<1>. QED  BY <1>1, HistoryInvariant, PTL

\* A snapshot behind which the panel has not moved is the panel.
THEOREM SnapshotsAreCurrent == HSpec => []SnapshotCurrent
<1>1. HInv => SnapshotCurrent
  BY DEF HInv
<1>. QED  BY <1>1, HistoryInvariant, PTL

\* armed_night is never shown unless the last acknowledged command was ours and
\* a night arm.
THEOREM NightLabelIsOurs == HSpec => []NightIsOurs
<1>1. HInv => NightIsOurs
  BY DEF HInv
<1>. QED  BY <1>1, HistoryInvariant, PTL

\* A night arm keeps its label while it arms the panel, but for a race at its
\* acknowledgement or an alarm read in armState.
THEOREM NightLabelIsKept == HSpec => []NightKept
<1>1. HInv => NightKept
  BY DEF HInv, NightHeld, NightKept
<1>. QED  BY <1>1, HistoryInvariant, PTL

\* An away arm of ours is never found converted to a stay arm.
THEOREM AwayIsNotConverted == HSpec => []AwayStaysAway
<1>1. HInv => AwayStaysAway
  BY DEF HInv, ArmedByHA
<1>. QED  BY <1>1, HistoryInvariant, PTL
=============================================================================
