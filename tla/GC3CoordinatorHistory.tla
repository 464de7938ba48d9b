----------------------- MODULE GC3CoordinatorHistory -----------------------
(***************************************************************************)
(* GC3Coordinator with history variables: what an onlooker who sees both   *)
(* the panel and Home Assistant knows and the code cannot.  They constrain *)
(* nothing; the properties that relate the label, the snapshot and the     *)
(* panel need them.                                                        *)
(***************************************************************************)
EXTENDS GC3Coordinator

VARIABLES
  mode,        \* what armed the panel: "none", "other" (keypad or another
               \* controller), or the kind of the command of ours that did
  pollQuiet,   \* the panel has not changed since the poll in flight began
  dataQuiet,   \* the panel has not changed since the poll behind data began
  nightFate,   \* what became of the night arm acknowledged last: "none" (there
               \* is none), "held" (it still arms the panel), "replaced" (armed
               \* otherwise since) or "disarmed" (disarmed since)
  raced,       \* it is held, and when it was acknowledged a poll was carrying
               \* a status from before
  alarmed      \* it is held, and a poll has read an alarm in armState since

history == <<mode, pollQuiet, dataQuiet, nightFate, raced, alarmed>>
hvars   == <<vars, history>>

Mode == {"none", "other", "home", "away", "night"}
Fate == {"none", "held", "replaced", "disarmed"}

ModeOf(service) ==
  CASE service = "disarm"    -> "none"
    [] service = "arm_home"  -> "home"
    [] service = "arm_away"  -> "away"
    [] service = "arm_night" -> "night"

HInit ==
  /\ Init
  /\ mode = "none"
  /\ pollQuiet = TRUE
  /\ dataQuiet = FALSE
  /\ nightFate = "none"
  /\ raced = FALSE /\ alarmed = FALSE

\* The panel changes and is now armed by m.
PanelMoves(m) ==
  /\ mode' = m
  /\ pollQuiet' = FALSE
  /\ dataQuiet' = FALSE
  /\ nightFate' = IF nightFate = "none" \/ m = "night" THEN nightFate
                  ELSE IF m = "none" \/ nightFate = "disarmed" THEN "disarmed"
                  ELSE "replaced"
  /\ raced' = (raced /\ nightFate' = "held")
  /\ alarmed' = (alarmed /\ nightFate' = "held")

\* Some poll begins in this step.
PollBegins == poll'.at = "status" /\ poll.at # "status"

\* A poll in flight holds a status that was not yet armed when it was read.
StaleRead ==
  /\ poll.at \in {"zones", "done"}
  /\ poll.seen.status.arm_state \notin ArmedOrArming

HPanelChanges ==
  \/ (KeypadArms \/ OtherArms) /\ PanelMoves("other")
  \/ OtherDisarms /\ PanelMoves("none")
  \/ (ExitDelayEnds \/ ZoneTrips \/ SirenStops) /\ PanelMoves(mode)

HScheduledPoll ==
  ScheduledPoll /\ pollQuiet' = TRUE
                /\ UNCHANGED <<mode, dataQuiet, nightFate, raced, alarmed>>

HServeStatus ==
  /\ ServeStatus
  /\ alarmed' = \/ alarmed
                \/ nightFate = "held" /\ panel.status.arm_state = "alarm"
  /\ UNCHANGED <<mode, pollQuiet, dataQuiet, nightFate, raced>>

HFinishPoll ==
  FinishPoll /\ dataQuiet' = pollQuiet /\ pollQuiet' = FALSE
             /\ UNCHANGED <<mode, nightFate, raced, alarmed>>

HPollEnds ==
  (PollFails \/ PollDenied) /\ pollQuiet' = FALSE
                            /\ UNCHANGED <<mode, dataQuiet, nightFate, raced, alarmed>>

HApply == Apply /\ PanelMoves(ModeOf(command.service))

HAcknowledge ==
  /\ Acknowledge
  /\ nightFate' = IF command.service # "arm_night" THEN "none"
                  ELSE IF mode = "night" THEN "held" ELSE "replaced"
  /\ raced' = (nightFate' = "held" /\ StaleRead)
  /\ alarmed' = FALSE
  /\ pollQuiet' = (pollQuiet \/ PollBegins)
  /\ UNCHANGED <<mode, dataQuiet>>

HNewCoordinator ==
  /\ Reload \/ ReauthConfirmed \/ Restart
  /\ pollQuiet' = TRUE
  /\ dataQuiet' = FALSE
  /\ nightFate' = "none"
  /\ raced' = FALSE /\ alarmed' = FALSE
  /\ UNCHANGED mode

\* Steps in which the history stands still.
HOther ==
  /\ \/ NetChanges \/ ServeZones \/ CommandFails
     \/ \E service \in Services : Call(service)
  /\ UNCHANGED history

HNext ==
  \/ HPanelChanges \/ HScheduledPoll \/ HServeStatus \/ HFinishPoll
  \/ HPollEnds
  \/ HApply \/ HAcknowledge \/ HNewCoordinator \/ HOther

HSpec == HInit /\ [][HNext]_hvars

-----------------------------------------------------------------------------
HTypeOK ==
  /\ TypeOK
  /\ mode \in Mode
  /\ pollQuiet \in BOOLEAN /\ dataQuiet \in BOOLEAN
  /\ nightFate \in Fate /\ raced \in BOOLEAN /\ alarmed \in BOOLEAN

\* What a poll brings back is the panel itself, although it is read by two
\* requests with awaits between them: if nothing has changed at the panel since
\* the poll behind the current data began, data is what the panel would answer.
SnapshotCurrent == dataQuiet => data = panel

\* The label is never invented: the flag is set only if the last command this
\* coordinator saw acknowledged was a night arm.
NightIsOurs == armed_night => nightFate # "none"

\* A night arm that was acknowledged keeps its label for as long as the panel
\* stays armed by it, through alarms, failed polls, other commands and lost
\* answers, but for two cases: a poll carried an older status across the
\* acknowledgement, or one has read an alarm in armState.  (In both the code
\* does not keep it: see NightRemembered.)
NightKept == (nightFate = "held" /\ ~raced /\ ~alarmed) => armed_night

\* An away arm sent by Home Assistant is never turned into a stay arm behind
\* its back: with the exit delay suppressed, the panel's auto-stay conversion
\* has no window to happen in.
AwayStaysAway == mode = "away" => ~panel.status.is_armed_stay

\* What the README says of the night flag, "The integration remembers that *it*
\* issued a night arm", until a restart or a disarm: while the panel stays armed
\* by an acknowledged night arm of this coordinator, the flag is set.
NightRemembered == nightFate = "held" => armed_night

\* What the README says of clearing it, "Any disarm, from any source, clears
\* the flag": if the panel has been disarmed since our night arm, a poll made
\* after that leaves the flag clear.
DisarmClearsNight == (nightFate = "disarmed" /\ dataQuiet) => ~armed_night
=============================================================================
