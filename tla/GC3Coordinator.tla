--------------------------- MODULE GC3Coordinator ---------------------------
(***************************************************************************)
(* The heart of the integration: the coordinator that polls the panel, the *)
(* alarm entity that sends it commands, and the night flag they share.     *)
(*                                                                         *)
(* Three things run concurrently on one event loop and meet only at awaits:*)
(* a poll (GET /status, then GET /zones, then the handler's tail), a       *)
(* command (POST, then note_arm, then async_request_refresh) and the entry *)
(* being reloaded.  The panel itself changes whenever it likes, and the    *)
(* network can stop answering or start refusing the keys at any time.      *)
(***************************************************************************)
EXTENDS AlarmStates

CONSTANTS
  Services,   \* the alarm services that are called
  OtherStays, \* the stay flags others arm the panel with (keypad, controllers)
  None        \* coordinator.data before the first successful poll

AllServices == {"disarm", "arm_home", "arm_away", "arm_night"}

ASSUME ServicesAssumption ==
  Services \subseteq AllServices /\ OtherStays \subseteq BOOLEAN
ASSUME NoneAssumption == None \notin Snapshot

VARIABLES
  (* The environment. *)
  panel,   \* what the panel would answer now: its Snapshot
  net,     \* how it answers: "up", "down" (no usable answer), "denied" (403)
  (* The poll in flight.  "status" and "zones" await that answer; "done" has *)
  (* both and has not run the rest of the handler yet.                       *)
  poll,
  (* The alarm command in flight.  "sent" and "applied" await the answer, the *)
  (* panel having acted or not; "refresh" awaits the poll it asked for.       *)
  command,
  (* The coordinator. *)
  armed_night,          \* _armed_night
  data,                 \* the last good poll; None until the entry is set up
  last_update_success,
  timer,   \* a timer that will start a poll is armed: the polling interval,
           \* a deferred refresh, or Home Assistant's retry of a failed setup
  reauth   \* a reauthentication flow waits for the user: "open"; "withheld"
           \* if the last poll called for one and there is none; or "none"

env  == <<panel, net>>
ha   == <<poll, command, armed_night, data, last_update_success, timer, reauth>>
vars == <<env, ha>>

Net     == {"up", "down", "denied"}
Poll    == [at : {"idle", "status", "zones", "done"}, seen : Snapshot]
Command == [at : {"idle", "sent", "applied", "refresh"}, service : AllServices]

Unread    == Snap("ready", FALSE, FALSE)
NoPoll    == [at |-> "idle", seen |-> Unread]
NewPoll   == [at |-> "status", seen |-> Unread]
NoCommand == [at |-> "idle", service |-> "disarm"]

Loaded  == data # None
\* CoordinatorEntity.available, and the entity existing at all.
Available == Loaded /\ last_update_success

\* What the alarm entity shows.
Shown ==
  IF Available THEN map_alarm_state(data, armed_night) ELSE "unavailable"

\* Nothing will poll again by itself.
PollingStopped == poll.at = "idle" /\ ~timer

Init ==
  /\ panel = Unread
  /\ net = "up"
  /\ poll = NewPoll
  /\ command = NoCommand
  /\ armed_night = FALSE
  /\ data = None
  /\ last_update_success = TRUE
  /\ timer = FALSE
  /\ reauth = "none"

-----------------------------------------------------------------------------
(* The panel and the network.  External: modelled from what the code and its *)
(* documents rely on.                                                        *)

InAlarm == panel.in_alarm \/ panel.status.arm_state = "alarm"

\* Armed from the keypad, which keeps its exit delay.
KeypadArms ==
  /\ panel.status.arm_state = "ready"
  /\ \E stay \in OtherStays : panel' = Snap("arming", stay, panel.in_alarm)
  /\ UNCHANGED <<net, ha>>

\* Armed at once by another controller, or by a request of ours that reaches
\* the panel after its caller gave up on it.
OtherArms ==
  /\ panel.status.arm_state # "alarm"
  /\ \E stay \in OtherStays : panel' = Snap("armed", stay, panel.in_alarm)
  /\ UNCHANGED <<net, ha>>

\* The exit delay runs out.  Nobody having left, an away arm may be converted
\* to a stay arm (auto-stay).
ExitDelayEnds ==
  /\ panel.status.arm_state = "arming"
  /\ \E stay \in {panel.status.is_armed_stay, TRUE} :
       panel' = Snap("armed", stay, panel.in_alarm)
  /\ UNCHANGED <<net, ha>>

OtherDisarms ==
  /\ panel # Unread
  /\ panel' = Unread
  /\ UNCHANGED <<net, ha>>

\* A zone trips, which shows in in_alarm; an armed panel may report an alarm in
\* armState as well, or there alone: client.zones() leaves the console out.
ZoneTrips ==
  /\ \/ /\ ~panel.in_alarm
        /\ panel' = [panel EXCEPT !.in_alarm = TRUE]
     \/ /\ panel.status.arm_state = "armed"
        /\ \E in_alarm \in {panel.in_alarm, TRUE} :
             panel' = Snap("alarm", panel.status.is_armed_stay, in_alarm)
  /\ UNCHANGED <<net, ha>>

\* The siren times out; the panel stays as armed as it was.
SirenStops ==
  /\ InAlarm
  /\ panel' = Snap(IF panel.status.arm_state = "alarm" THEN "armed"
                     ELSE panel.status.arm_state,
                   panel.status.is_armed_stay, FALSE)
  /\ UNCHANGED <<net, ha>>

PanelChanges ==
  \/ KeypadArms \/ OtherArms \/ ExitDelayEnds
  \/ OtherDisarms \/ ZoneTrips \/ SirenStops

NetChanges ==
  /\ net' \in Net \ {net}
  /\ UNCHANGED <<panel, ha>>

-----------------------------------------------------------------------------
(* The poll: _async_update_data under DataUpdateCoordinator. *)

\* _async_refresh begins: it cancels both timers and awaits client.status().
BeginPoll ==
  /\ poll.at = "idle"
  /\ poll' = NewPoll
  /\ timer' = FALSE

\* Mutation: the refresh never tells the command that it is over.
KeepWaiter == UNCHANGED command

\* The command that was waiting for this poll, if any, returns.
ReleaseWaiter ==
  command' = IF command.at = "refresh" THEN NoCommand ELSE command

EndPoll ==
  /\ poll' = NoPoll
  /\ ReleaseWaiter

ScheduledPoll ==
  /\ timer
  /\ BeginPoll
  /\ UNCHANGED <<env, command, armed_night, data, last_update_success, reauth>>

\* Mutation: only "arming" is tested for.
ClearNightOnceArmed(status) ==
  armed_night' = (armed_night /\ status.arm_state = "arming")

\* Drop the night flag unless the status that was read is armed or arming.
ClearNight(status) ==
  armed_night' = (armed_night /\ status.arm_state \in ArmedOrArming)

ReadStatus ==
  /\ poll.at = "status" /\ net = "up"
  /\ poll' = [at |-> "zones",
              seen |-> [status |-> panel.status, in_alarm |-> FALSE]]

\* Mutation: the flag is dropped before the zones are asked for.
ServeAndClear ==
  /\ ReadStatus
  /\ ClearNight(panel.status)
  /\ UNCHANGED <<env, command, data, last_update_success, timer, reauth>>

\* The panel answers GET /status.
ServeStatus ==
  /\ ReadStatus
  /\ UNCHANGED <<env, command, armed_night, data, last_update_success, timer,
                 reauth>>

\* The panel answers GET /zones, later.
ServeZones ==
  /\ poll.at = "zones" /\ net = "up"
  /\ poll' = [at |-> "done",
              seen |-> [status |-> poll.seen.status,
                        in_alarm |-> panel.in_alarm]]
  /\ UNCHANGED <<env, command, armed_night, data, last_update_success, timer,
                 reauth>>

\* Mutation: an alarm once seen is carried over from the last snapshot.
LatchAlarm ==
  data' = [poll.seen EXCEPT !.in_alarm = @ \/ (Loaded /\ data.in_alarm)]

TakeSnapshot == data' = poll.seen

\* A flow that is open stays open; that one was withheld is a thing of the past.
KeepPrompt == reauth' = IF reauth = "open" THEN "open" ELSE "none"

\* Both answers are in: the tail of _async_update_data, the new snapshot, and
\* the next poll scheduled.
FinishPoll ==
  /\ poll.at = "done"
  /\ ClearNight(poll.seen.status)
  /\ TakeSnapshot
  /\ last_update_success' = TRUE
  /\ timer' = TRUE
  /\ EndPoll
  /\ KeepPrompt
  /\ UNCHANGED env

\* Mutation: the error is swallowed and the old snapshot returned.
StayOnline == UNCHANGED last_update_success

\* The handler raised: the entities become unavailable.
GoOffline == last_update_success' = FALSE

\* GC3ConnectionError or GC3ResponseError becomes UpdateFailed (during setup,
\* ConfigEntryNotReady): the old snapshot is kept, and polling goes on.
PollFails ==
  /\ poll.at \in {"status", "zones"} /\ net = "down"
  /\ GoOffline
  /\ timer' = TRUE
  /\ EndPoll
  /\ KeepPrompt
  /\ UNCHANGED <<env, armed_night, data>>

\* GC3AuthError becomes ConfigEntryAuthFailed: no further poll is scheduled, and
\* a reauthentication flow starts, but none while a reconfigure dialog of the
\* entry is open (see GC3ConfigFlow, which has the dialogs).
PollDenied ==
  /\ poll.at \in {"status", "zones"} /\ net = "denied"
  /\ GoOffline
  /\ reauth' \in {"open"} \cup (IF reauth = "open" THEN {} ELSE {"withheld"})
  /\ EndPoll
  /\ UNCHANGED <<env, armed_night, data, timer>>

-----------------------------------------------------------------------------
(* Commands.  PARALLEL_UPDATES = 1: one at a time, refresh included. *)

\* Home Assistant calls the service on an available entity only.
Call(service) ==
  /\ command.at = "idle"
  /\ Available
  /\ command' = [at |-> "sent", service |-> service]
  /\ UNCHANGED <<env, poll, armed_night, data, last_update_success, timer,
                 reauth>>

\* Mutation: the panel's own default.
keep_exit_delay == FALSE

\* _arm_options: the exit delay is suppressed in every mode.
no_exit_delay == TRUE

ArmsStay(service) == service \in {"arm_home", "arm_night"}

\* The panel carries the request out.
Apply ==
  /\ command.at = "sent" /\ net = "up"
  /\ command' = [command EXCEPT !.at = "applied"]
  /\ \/ /\ command.service = "disarm"
        /\ panel' = Unread
     \/ /\ command.service # "disarm"
        /\ ~InAlarm
        /\ panel' = Snap(IF no_exit_delay THEN "armed" ELSE "arming",
                         ArmsStay(command.service), FALSE)
  /\ UNCHANGED <<net, poll, armed_night, data, last_update_success, timer,
                 reauth>>

\* The call raises a GC3Error: refused, timed out, or the answer unusable.  The
\* panel may have acted on it.  Neither note_arm nor a refresh follows.
CommandFails ==
  /\ command.at \in {"sent", "applied"}
  /\ command' = NoCommand
  /\ UNCHANGED <<env, poll, armed_night, data, last_update_success, timer,
                 reauth>>

\* Mutation: the flag is set and never reset by a later arm.
note_night_only(isNight) == armed_night' = (armed_night \/ isNight)

note_arm(isNight) == armed_night' = isNight

\* async_request_refresh, through the coordinator's debouncer: refresh now and
\* wait for it; or put it off while cooling down; or, a poll being in flight
\* already, do nothing.
RequestRefresh ==
  \/ /\ BeginPoll
     /\ command' = [command EXCEPT !.at = "refresh"]
  \/ /\ timer' = TRUE
     /\ command' = NoCommand
     /\ UNCHANGED poll
  \/ /\ poll.at # "idle"
     /\ command' = NoCommand
     /\ UNCHANGED <<poll, timer>>

\* The panel's answer arrives: the rest of _command.
Acknowledge ==
  /\ command.at = "applied"
  /\ note_arm(command.service = "arm_night")
  /\ RequestRefresh
  /\ UNCHANGED <<env, data, last_update_success, reauth>>

-----------------------------------------------------------------------------
(* Unload and setup.  A new coordinator starts from nothing, polling at once;*)
(* whatever the old one had in flight no longer matters to it.               *)

\* Mutation: setup does not wait for a first refresh.
NoFirstRefresh == poll' = NoPoll

FirstRefresh == poll' = NewPoll

NewCoordinator ==
  /\ FirstRefresh
  /\ command' = NoCommand
  /\ armed_night' = FALSE
  /\ data' = None
  /\ last_update_success' = TRUE
  /\ timer' = FALSE
  /\ UNCHANGED env

\* The options changed and the update listener reloads the entry, or the user
\* reloads or reconfigures it, waiting to retry its setup or not.
Reload == (Loaded \/ poll.at = "idle") /\ NewCoordinator /\ KeepPrompt

\* The user supplied keys that a GET /status accepted.
ReauthConfirmed ==
  reauth = "open" /\ net = "up" /\ NewCoordinator /\ reauth' = "none"

\* Home Assistant restarts; flows do not survive it.
Restart == NewCoordinator /\ reauth' = "none"

-----------------------------------------------------------------------------
PollStep ==
  \/ ServeStatus \/ ServeZones \/ FinishPoll \/ PollFails \/ PollDenied

CommandStep == Apply \/ CommandFails \/ Acknowledge

Next ==
  \/ PanelChanges \/ NetChanges
  \/ ScheduledPoll \/ PollStep
  \/ \E service \in Services : Call(service)
  \/ CommandStep
  \/ Reload \/ ReauthConfirmed \/ Restart

\* Timers fire; the client's 8 s timeout turns silence into an error, so every
\* request ends; the event loop runs what is ready.  Users, keypads and the
\* network owe nothing.
Fairness ==
  /\ WF_vars(ScheduledPoll)
  /\ WF_vars(PollStep)
  /\ WF_vars(CommandStep)

Spec == Init /\ [][Next]_vars
FairSpec == Spec /\ Fairness

-----------------------------------------------------------------------------
(* Properties. *)

\* Every variable keeps its type; a command waits for a refresh only while a
\* poll is in flight, so that the end of the poll always lets it go.
TypeOK ==
  /\ panel \in Snapshot /\ net \in Net
  /\ poll \in Poll /\ command \in Command
  /\ command.at = "refresh" => poll.at # "idle"
  /\ armed_night \in BOOLEAN
  /\ data \in Snapshot \cup {None}
  /\ last_update_success \in BOOLEAN /\ timer \in BOOLEAN
  /\ reauth \in {"none", "open", "withheld"}

\* Polling stops for refused keys and for nothing else: when no poll is in
\* flight and no timer will start one, whatever failed, was deferred, reloaded
\* or interrupted before, the last poll was one that called for new keys, and
\* nothing is shown for the state it left.  (That the user is asked for them
\* is another matter: see StoppedIsPrompted in GC3ConfigFlow.)
StopsOnlyWhenRefused ==
  PollingStopped => reauth # "none" /\ ~last_update_success

\* A poll counts as a whole or not at all: its first request may succeed and
\* its second fail.  From its beginning until both answers are in, neither the
\* night flag nor the snapshot nor the label moves (but to "unavailable"); in
\* between only a command's acknowledgement moves them, or a new coordinator.
WholePollsOnly ==
  [][\/ poll.at = "done" /\ poll'.at = "idle"
     \/ Acknowledge \/ NewCoordinator
     \/ /\ UNCHANGED <<armed_night, data>>
        /\ Shown' \in {Shown, "unavailable"}]_vars

\* No further coordinator is set up.
NoMoreReloads == <>[][~NewCoordinator]_vars

\* If the panel answers from some point on, its alarms are shown: an alarm that
\* persists is eventually shown as triggered and stays so, whatever else moves
\* at the panel, unless polling waits for the user to reauthenticate.
AlarmReported ==
  <>[](InAlarm /\ net = "up") /\ NoMoreReloads =>
    <>[](Shown = "triggered" \/ PollingStopped)

\* If the panel answers and is left alone from some point on, the entity shows
\* its state for good, whatever polls failed and commands were lost before.
Converges ==
  <>[](net = "up") /\ <>[][UNCHANGED panel]_panel /\ NoMoreReloads =>
    <>[]((Available /\ data = panel) \/ PollingStopped)

\* Every command returns, with the refresh it waits for, so that the next one
\* is not locked out (PARALLEL_UPDATES = 1).
CommandReturns == command.at # "idle" ~> command.at = "idle"
=============================================================================
