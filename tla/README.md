# Formal model of the 2GIG GC3 integration

TLA+ models of `homeassistant-2gig-gc3`: the Home Assistant custom component
`custom_components/gc3` and its REST client `pygc3`. TLC checks them on small
instances; TLAPS proves the safety results for every value of the constants.
`PROJECT.json` is the index: components, runs, mutations, the source lines of
every definition, findings, hazards and theorems.

    tlc  -config MCCoordinatorHistory.cfg MCCoordinatorHistory
    tlapm GC3CoordinatorProofs.tla

## The system

| component | state it keeps | operations |
|---|---|---|
| Coordinator (`coordinator.py`) | last snapshot, `_armed_night`, miss counters, reported zones | poll (`/status`, then `/zones`), `note_arm`, `alarm_state` |
| Alarm entity (`alarm_control_panel.py`) | none; a command in flight | disarm, arm home, away, night; each ends in `note_arm` and a refresh |
| Entry (`__init__.py`) | `runtime_data` | setup with the first refresh, unload, reload on changed options |
| Supervision issues (`coordinator.py:126-164`) | counters, reported set; the issues in Home Assistant's registry | count, raise, clear, forget deleted zones |
| Zone sensors (`binary_sensor.py`) | `known`; entity objects; the entity registry | `_sync_zones` at setup and after every poll |
| Client (`pygc3/client.py`) | `_session`, `_owns_session`; calls in flight | requests, error mapping, close |
| Flows (`config_flow.py`) | open dialogs; the entry's data and options | user, reconfigure, reauthentication, options |
| `sensor.py`, health sensors, diagnostics | none | functions of one snapshot |
| SSE probe (`tools/sse_probe.py`) | a `StreamResult` and the bytes not framed yet, per subscriber | connect, retry a refusal, read and frame until an end |
| mDNS probe (`tools/mdns_probe.py`) | the offsets of the packet being parsed | build a query, parse an answer with compressed names |
| other `tools/` | none | pairing scripts |

They meet in these places. A poll and a command run on one event loop and
interleave at awaits; they share the client, the panel and the night flag, and a
command ends by asking for a poll. The poll's tail updates the supervision issues
and, through the coordinator's listeners, the zone entities. A rejected key ends
polling and opens a flow, which reloads the entry. A reload throws the
coordinator away while two things outlive it: the issue registry (until Home
Assistant restarts) and the entity registry (for good).

What is hard: the panel changes at any time and is seen only in polls, each poll
being two requests; a command may be carried out and its answer lost; the night
flag is knowledge the panel does not have, changed by both the poll and the
command; state dies with the coordinator or survives it in the wrong place.

What makes each component correct:

- coordinator and alarm entity: what is shown is the panel, or is going to be, alarms
  above all; the night label is never invented and not lost; polling stops for refused
  keys and for nothing else;
- supervision: an issue is open for exactly the zones that deserve one;
- zone sensors: entities follow the panel, user choices survive;
- client: each failure becomes the exception that leads to the right reaction;
  sessions are neither leaked nor closed when they are somebody else's;
- SSE probe: what it reports of a stream is what happened, however the bytes were cut
  into chunks and however the stream ended;
- flows: there is one entry per panel, a reauthentication changes the keys and nothing
  else, and an entry that stopped polling is prompted for;
- entry: its setup loses neither zones nor issues, however it fails or is overtaken;
- mDNS probe: parsing ends whatever the packet holds, and a name or record is what
  the packet says and no more.

## Modules

| module | what it models |
|---|---|
| `AlarmStates` | the two status fields, a poll's `Snapshot`, `map_alarm_state` |
| `GC3Coordinator` | poll, commands, night flag, failure, reauthentication, reload and restart, against a free panel and network |
| `GC3CoordinatorHistory` | the same with history variables, for the properties that need to know what really happened at the panel |
| `ZoneIds` | the zones, shared by the modules that keep track of them |
| `RepairIssues` | abstract specification: what the repair issues amount to, without counters |
| `Supervision`, `SupervisionHistory` | repair issues and their registry; what each zone reported lately, and the refinement of `RepairIssues` |
| `SupervisionPolls` | the same with the last polls as such, for what the comments say of polls |
| `ZoneSync`, `ZoneSyncHistory` | `_sync_zones` and the entity registry; which zones a setup has seen |
| `GC3Entry` | the config entry's life, composing supervision and zones: setup in three awaited parts, options, unload, restart |
| `GC3ConfigFlow` | the user, reconfigure and reauthentication dialogs over the entries, each awaiting the panel |
| `GC3Client` | calls, error paths and the session |
| `SseStream` | one subscriber of the SSE probe, `stream()` and its framing, against a clock |
| `DnsMessage` | the mDNS probe's codec: `build_query`, `parse_message`, `decode_name`, `decode_rdata` |
| `*Proofs` | theorems about the module of that name (`GC3CoordinatorProofs` and `SupervisionProofs` with its history) |
| `MC*` | constants for TLC |

### `GC3Coordinator`

`poll.at` is the await the poll is at: `status`, `zones`, or `done` when both
answers are there and the handler has not resumed. `ServeStatus` and `ServeZones`
read the panel at two different moments. `FinishPoll` is everything after the
second await: the night flag, the snapshot, `last_update_success`, the next timer
and the return of a waiting command. `PollFails` and `PollDenied` are the two
`except` clauses as DataUpdateCoordinator treats them. `reauth` is what became of the
reauthentication a refusal calls for: Home Assistant opens it or, a reconfigure dialog
being open (which only `GC3ConfigFlow` has), withholds it.

`command.at` is `sent` (the panel has not acted), `applied` (it has), `refresh`
(waiting for the poll it asked for). `CommandFails` is possible in both of the
first two: a timeout does not say whether the panel acted. `Acknowledge` is
`note_arm` and `async_request_refresh` in one step, as there is no await between
them. An arm reaches the panel as `armed` or, without `no_exit_delay`, as
`arming`, in which the panel may convert away to stay. An alarm shows in a zone, in
`armState`, or in both, and the panel stays as armed as it was: the history's `mode` and
`nightFate` go on through it, and `alarmed` notes that a poll has read it in `armState`.

`map_alarm_state` is a sequence of returns in the code and disjoint cases here;
`"ready"` stands for every state that is neither armed, arming nor an alarm.

### `Supervision` and `ZoneSync`

Both take a listing per poll and apply the code's whole pass to it. The order of
zones inside a pass does not matter, since each zone only touches its own counter
and issue. In `ZoneSync` the registry keeps, per zone, whether its entity is
enabled: that is what a wrong removal would lose.

`RepairIssues` says what the counters amount to: a zone has a window of its last
`Threshold` reports, and an issue is open while the window says nothing but "lost";
what an earlier coordinator left open stays until this one has its own reason.
`SupervisionHistory` implements it with `left <- inherited`, `open <- issues`
(`IssuesFollowReports`, checked and proved): counters and reported set are only a way
to do that. The comment on the threshold and the README speak of consecutive *polls*;
`SupervisionPolls` keeps those, and the run `consecutive_polls` shows that a poll which
leaves the zone out makes the difference.

### `GC3Entry`

`phase` is where `async_setup_entry` is: awaiting the first refresh, awaiting the
platforms, or done. A good poll counts (`SHPoll`) and then calls the zone platform
(`Refresh`) in one step, as there is no await between; between `FirstRefresh` and
`SetUpZones` polls happen too, and the platform, not set up yet, misses them.
`ChangeOptions` asks for a reload only in phase `up`, because the listener is added
last (`__init__.py:44`): a change that comes before reloads nothing. `UnloadEntry` keeps the issues, `RestartHA` does not; both keep the entity registry.

### `GC3ConfigFlow`

`flow[f].at` is the await of a dialog: its form, or `_validate`'s request
(`checking`; `abandoned` if the dialog was closed meanwhile). `Submit` is a step up
to that await with its two reasons to abort. `Answer` is the panel's 200 to what was
entered, noted in `flow[f].accepted`; `Fails`, `Creates`, `Updates` are what follows
when the await returns, by when the panel may have moved on. `SubmitReauth` keeps the address the entry has now, which `Updates` stores
later. `Denied` is the poll that stops an entry and opens a reauthentication, or
opens none if a dialog of the entry is open.

### `GC3Client`

`call[c].at` is the await of a call: headers, the body of a 200, an error's body
as JSON, the same as text. `TimesOut` is the total timeout, which covers all of
them. `Parsed` says which shapes of answer the methods accept.

### `SseStream`

`at` is the await: connecting, headers, a refusal's body, the pause before a retry,
a read. A byte is a letter or a newline, which is all the framing looks at; `Framed`
is the `partition` loop, `NonBlank` drops what `strip` leaves nothing of, and `Scan`,
which the property compares them with, reads the whole stream byte by byte. `Finish`
is everything after the loop; `Ends` is the outer handlers, which skip it. The
recursive retry keeps the deadline, so `deadline` is a constant. `Drips` is a piece of
headers or of a refusal's body, which starts `sock_read` again. The clock stops at
`MaxTime`; from then on `Tick` moves `last` back, so that a silence still grows and
times out. `arrivals` is the only history variable.

### `DnsMessage`

One step per turn of `decode_name`'s loop (`NameEnds`, `FollowPointer`, `TakeLabel`)
and per record begun or ended. A packet is any sequence over four bytes: a
terminator, a label's length or letter, another one, and the first byte of a
pointer. `count` is the header, which may claim anything. The sizes of a header, of
what follows a name and of what precedes one are constants, so that TLC has small
ones and the proofs any; type, class and lengths are one byte each.

## Assumptions about what is not in this repository

- Home Assistant: a poll is never started while another is in flight;
  `async_request_refresh` starts a poll, puts it off (debouncer) or does nothing
  while one is running, and only in the first case is waited for;
  `UpdateFailed` and unforeseen exceptions keep the old data and schedule the next
  poll, `ConfigEntryAuthFailed` schedules none and opens a reauthentication flow (or
  does not, see its flows below);
  a setup whose first refresh fails is retried; commands of the one alarm entity
  are serialised by `PARALLEL_UPDATES = 1`, refresh included; services are not
  called on unavailable entities; issues are not persistent, registry entries are.
- Home Assistant's setups: they and unloads of one entry are serialised by its setup
  lock, and several pending reloads are one. Removing an entry is not modelled.
- Home Assistant's flows: `async_set_unique_id` aborts if another open flow has the
  unique id, and a reauthentication has its entry's; no reauthentication is started
  while one, or a reconfigure dialog, of the entry is open; closing a dialog does not
  stop a step that is awaiting something: its update still happens, while an entry it
  would create is dropped; `async_update_reload_and_abort` always reloads.
- The panel (from the comments in `alarm_control_panel.py` and the repository's
  README): the keypad arms with an exit delay; without an exit delay an arm is at
  once `armed`; a zone in alarm sets `inAlarm` and may or may not change `armState`, an
  alarm of the console only `armState`, `zones()` leaving the console out; an armed
  panel stays armed, in the same way, through its alarm.
- aiohttp: `sock_read` limits the silence before each piece, not the whole answer; a
  session is closed as soon as `close()` starts; the total timeout
  raises a plain `TimeoutError`, also while a body is read.

## Runs

| run | question | instance | result |
|---|---|---|---|
| `coordinator_history` | is the label ours, kept, and the snapshot real? | all four commands, others arm to stay | holds, 3.4 M states |
| `coordinator_live` | does polling go on, do polls count whole, does the entity recover, report alarms, let commands go? | disarm and night arm | holds, 229 k states |
| `entry` | do setups, polls and reloads keep issues, entities and registries together, and the issues follow the reports? | 2 zones, 2 descriptors, 2 intervals, threshold 2 | holds, 174 k states |
| `client` | right exception, no leak, every call ends? | 2 calls, 2 closes, 3 sessions | holds, 807 k states |
| `sse_stream` | are frames, events, silences and ends told truly? | 5 bytes, window 3 s, one retry | holds, 78 k states |
| `config_flow` | are entries unique, kept by a reauthentication, prompted for? | 2 dialogs, 2 entries, 2 addresses of which one is typed in two ways | holds, 630 k states |
| `dns_message` | does parsing end, and give names and records their bytes? | packets of up to 6 bytes, 2 jumps | holds, 363 k states |
| `night_remembered` | README.md:165 | night arm only | violated |
| `disarm_clears_night` | README.md:166-167 | night arm only | violated |
| `recovery_clears_issue` | tests/test_coordinator.py:109 | as `entry` | violated |
| `stale_zones_removed` | quality_scale.yaml:129-130 | as `entry` | violated |
| `consecutive_polls` | coordinator.py:31-33, README.md:195-196 | 2 zones, threshold 2 | violated |

Bounds. The coordinator's state is finite without any: one panel, one poll and one
command at a time, no counter. Others arm to stay only (`OtherStays = {TRUE}`):
away arms still occur, by `Services`, and a foreign away arm cannot be confused with
a night arm. The live run leaves home and away out, which differ from night by the
flag alone. Threshold 2 stands for 20: under, at and over it are distinct, and
`MaxMisses` 3 leaves a poll beyond it; the proofs have any. Zones only interact through set
operations, so two show every combination of one staying while another comes or
goes; zones and intervals are symmetric. Three sessions for two calls and two closes allow an old one to be closing
while a new one is opened and a third asked for. Five bytes hold a frame, its
separator, cut anywhere, and a residue; a window of three seconds has an early part,
its last second and its end, and leaves room for one retry. `blank` framing is `auto`
by definition. `MaxTime` 8 is later than any timer that counts from the call; those that count
from the last arrival go on, see `Tick`. Two dialogs are what it takes to overlap, with
an entry for each; a third would wait like one of them. Six bytes hold a question and
a record, or a name, a pointer back to it and a loop of two pointers; a third jump is
one too many.

Fairness. Timers that are armed fire (`ScheduledPoll`); a poll or a command in
flight gets on or fails (`PollStep`, `CommandStep`), because the client gives up
after 8 s, which `GC3Client` checks separately (`CallsEnd`, with fairness for the
timer and for nothing else). `SseStream` has fairness for its timers and its clock,
none for the panel's bytes or answers; a panel that drips for ever is a case that
`WindowEnds` names. `DnsMessage` has fairness for the
parser's own steps, which nothing else interrupts. The panel, the network and users owe nothing.
`AlarmReported` and `Converges` state what they ask of them: the network stays up
from some point on, and the entry is not reloaded for ever.

## What the violations show

- *Night flag lost.* A poll reads `ready`; a night arm is sent, carried out and
  acknowledged; the poll resumes and clears the flag for a status older than the
  arm. The entity shows `armed_home` until disarmed. The same line takes an alarm in
  `armState` for a disarm, so that the panel, still armed when the siren stops, is shown
  as `armed_home`. Without one or the other the flag is kept (`NightKept`, proved).
- *Night flag kept.* Disarmed and armed to stay at the keypad between two polls:
  the poll sees an armed panel, and somebody else's arm is shown as night.
- *Consecutive polls.* The threshold counts listings: a zone lost, left out of a poll
  and lost again is reported as if lost throughout.
- *Orphaned issue.* Raised, reloaded, recovered: the new coordinator does not know
  that the issue exists. `IssuesAccountedFor` (proved, a consequence of
  the refinement) says that this is the only way in which the two differ.
- *Stale registry entry.* Only zones this setup has seen are removed
  (`SeenZonesRemoved`, proved).

Some properties name an exception of their own, where the repository's words have none.
They are in the models, and no run asks for the words:

- keys refused while a reconfigure dialog is open prompt for nothing, and after it is
  closed nothing polls (README.md:132-133; `StoppedIsPrompted` says that there is no
  other case);
- a panel that has moved is refused by the reconfigure dialog as the wrong one, since
  the unique id is the address (README.md:132, config_flow.py:108; `FTypeOK`);
- options changed before there is a listener are not used (\_\_init\_\_.py:54);
- a timeout inside `_safe_message`, which "never raises", makes a connection error of a
  rejected key (client.py:239; still a `GC3Error`, `ErrorsReported`);
- without a read timeout, the default, nothing limits the wait for the SSE probe's
  headers (sse_probe.py:597-598; `WindowEnds`);
- a ClientError skips the residue (sse_probe.py:272-273; `FramesAsSent`).

## Proofs

No proof bounds a constant, except that `Supervision` caps its counters at any
`MaxMisses`. The assumptions are the named `ASSUME`s of the modules.

`GC3CoordinatorProofs`. `TypeOK` is inductive with one relation in it: a command
waits for a refresh only while a poll is in flight. `StopsOnlyWhenRefused` is inductive
beside it: only `PollDenied` ends a poll without a timer, every deferral, reload and
setup leaves a timer or a poll, and what forgets the refusal polls again.
`WholePollsOnly` is proved step by step, the label with the snapshot.

Its second part is about the history. `HInv` strengthens the properties by what is in
flight. `PollCurrent` says of a running poll what `SnapshotCurrent` says of the
data: what it has read so far is the panel, if the panel has been quiet.
`ArmedByHA` says that an arm of ours went straight to `armed`, so that no exit delay
is running which could convert an away arm. `NightHeld` says of a held
night arm that nothing else arms the panel, and that no poll in flight carries a status
which would clear the flag, but one that `raced` or `alarmed` has noted: read before the
arm, or an alarm. Any other read of a held arm finds the panel armed. (`HistoryWatches`
carries the theorems about `GC3Coordinator` over to its history, and says no more.)

`SupervisionProofs`. `SHInv` ties each counter to its zone's window: at least
`Threshold` exactly when the window is full of losses, and otherwise the number of
losses at its end (`CountersTell`, for every threshold: `WindowMoves` is the step).
With `IssuesAccountedFor`, inductive beside it, what is reported is what is due, and
each step of the code is a step of `RepairIssues`: `IssuesImplementPromise`, the
refinement, of which initial states and steps are proved to map.

`GC3EntryProofs`. `EntryIsSupervision` and `EntryIsZoneSync` prove that the
composition implements both of its parts, so their theorems hold of it. `InStep`,
that the platform's data and the last count are of the same poll, then relates the
two: `IssuesAlwaysHaveZones`.

`GC3ConfigFlowProofs`. `FInv` says what a dialog that awaits the panel may rely on.
Unique entries rest on `AddingApart`: two open setups never have the same unique id.
`ReauthKeepsRest` and `StoppedIsPrompted` rest on `ReauthAlone`: beside a
reauthentication there are only dialogs not submitted yet. Both name the case in which
the code does not keep them: a dialog closed or open at the wrong moment.

`DnsMessageProofs`. `DInv` needs that a name ends behind its start unless the packet
does (`NameMoves`), for any packet, pointers and sizes; records then have room.
`NInv` adds `DecodedSoFar`: the labels taken, followed by the `Expansion` of what is
left to read with the jumps that are left, are the `Expansion` of the whole name, and
its end is that of the rest before the first jump and settled after it. When the
loop ends, that is `NamesDecoded`; a name that is cut before its first pointer ends
too near to the packet's end for the fixed part of a record, hence
`NameCutInPlaceYieldsNothing`. (A name cut where a pointer leads, or in a record's data,
does get into a record: `NamesDecoded` says as how much.) `AsAsked` follows
the parser through a query: the offset is where the next question begins and what has
been read is what was asked. That `encode_name`'s bytes expand to its labels
(`NameReadBack`) is proved from the last label to the first. The queries are all that `encode_name` lets through (63
bytes a label at most), empty labels included, which it does not reject: for those,
two dots in a row or no name at all, the property claims nothing, as a name would be
read back cut there.

`ZoneSyncProofs`. `SyncFollows` says what one pass does to `known`, the registry and
the entities; the invariant is that `known` is the last listing, that entities are
known and enabled, and that nothing is seen while nothing is set up. `ZoneTypes` is
about the registry as a function that grows and shrinks.

`GC3ClientProofs`. `OneClose` is the strengthening: until two closes overlap, the
one that is awaited still finds its session in `_session`.

`SseStreamProofs`. `StreamInv` is the inductive invariant: the types with what each
await knows of its locals (`Shape`), the greeting's flags, the silences (`Gaps`) and
the frames. `FramesAsSent` is inductive once it speaks of the open stream: the texts
recorded are the non-blank frames of a byte-by-byte scan of what was received, and
the buffer is what the scan has open. A chunk keeps that because scanning can be
interrupted anywhere (`ScanGoesOn`) and because the `partition` loop is the scan
(`FramedIsScan`, by `FirstCut`: both cut where the separator is first complete). No
letter is lost because each of `strip`, dropping blanks, the scan and the last
splitting by lines loses only newlines. `Gaps` says that `max_gap` is the longest gap
of the arrivals so far and that `last` is the latest of them; a new time splits off
nothing but the gap at the end (`GapGrows`), which is how the tail comes in. Beside
it, an end is noted by the step that makes it and by no other (`NothingNotedYet`),
so each of the three ends of the loop explains itself.

Recursion over data. The library's induction theorems take an operator as an
argument, which the provers cannot instantiate. These two modules prove induction as a
fact about a set (`SetInduction`: a set that has 0 and the successor of each of its
numbers has them all, since otherwise there were a least one outside), and from it
that each recursive function of the model exists (`ExpansionExists`, `FoldExists`,
`ScanExists`, `FlatExists`) and what it returns. For that, recursion in the model is
written as recursive functions, which the proofs unfold.

Model-checked only: liveness (`AlarmReported`, `Converges`, `CommandReturns`,
`CallsEnd`, `WindowEnds`, `ParsingEnds`), which is outside the prover. Every safety
property that a passing run checks is also a theorem. The five violations are
behaviours TLC found; nothing is proved of them.

## Not modelled

- A poll of an old coordinator that ends after its entry was unloaded (a refresh a
  command asked for): `GC3Entry` has one coordinator at a time.
- The composition of the whole poll: `GC3Coordinator` has the night flag and the
  commands, `GC3Entry` the issues and entities. They share the poll and nothing else,
  so that a joint model would only multiply their states.
- Coercions in `models.py`, device classes and the sensors' values: functions of one
  answer or one snapshot, which unit tests reach.
- Diagnostics, wording, logging; the pairing scripts, which are one request each; the
  probes' sockets, windows and reports.
- Port, partition, PIN and the ranges of the dialogs' schemas.

`PROJECT.json` gives the reason for each component.

## Plan

1. The old coordinator's last poll in `GC3Entry`: two sets of counters for one issue
   registry.
2. `PolledView`, an abstract specification of what the entity shows (some past state
   of the panel, never going back), implemented by `GC3Coordinator`.
3. Proofs: the safety half of the liveness properties, a measure that every step of
   the parser, of a call and of a command decreases.
