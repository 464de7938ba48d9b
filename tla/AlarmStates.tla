---------------------------- MODULE AlarmStates ----------------------------
(***************************************************************************)
(* What the panel reports and what Home Assistant makes of it: the two     *)
(* fields of GET /status, the one bit of GET /zones the alarm entity looks *)
(* at, and map_alarm_state, which combines them with the night flag that   *)
(* only the integration knows.                                             *)
(***************************************************************************)

\* The values of armState the code tells apart.  "ready" stands for every
\* value that is neither armed, arming nor contains "alarm".
ArmState == {"ready", "arming", "armed", "alarm"}

\* PanelStatus: the parsed body of GET /status.
Status == [arm_state : ArmState, is_armed_stay : BOOLEAN]

\* One poll: the status, and whether any listed zone has inAlarm set.
Snapshot == [status : Status, in_alarm : BOOLEAN]

Snap(arm_state, stay, in_alarm) ==
  [status   |-> [arm_state |-> arm_state, is_armed_stay |-> stay],
   in_alarm |-> in_alarm]

\* The states in which the coordinator leaves the night flag alone.
ArmedOrArming == {"armed", "arming"}

\* States of the alarm_control_panel entity.
AlarmState == {"triggered", "armed_away", "armed_night", "armed_home",
               "arming", "disarmed"}

ArmedLabel(stay, armed_night) ==
  IF ~stay THEN "armed_away"
  ELSE IF armed_night THEN "armed_night" ELSE "armed_home"

\* Mutation: the zones are not looked at.
status_alone(s, armed_night) ==
  LET arm == s.status.arm_state IN
  CASE arm = "alarm" -> "triggered"
    [] arm = "armed" -> ArmedLabel(s.status.is_armed_stay, armed_night)
    [] arm = "arming" -> "arming"
    [] arm = "ready" -> "disarmed"

\* Mutation: an alarm is looked for in the zones alone.
zones_alone(s, armed_night) ==
  IF s.in_alarm THEN "triggered"
  ELSE CASE s.status.arm_state = "armed" ->
              ArmedLabel(s.status.is_armed_stay, armed_night)
         [] s.status.arm_state = "arming" -> "arming"
         [] s.status.arm_state \in {"ready", "alarm"} -> "disarmed"

\* The sequence of early returns of map_alarm_state, as exclusive cases.
map_alarm_state(s, armed_night) ==
  LET arm == s.status.arm_state IN
  CASE s.in_alarm \/ arm = "alarm" -> "triggered"
    [] ~s.in_alarm /\ arm = "armed" ->
         ArmedLabel(s.status.is_armed_stay, armed_night)
    [] ~s.in_alarm /\ arm = "arming" -> "arming"
    [] ~s.in_alarm /\ arm = "ready" -> "disarmed"
=============================================================================
