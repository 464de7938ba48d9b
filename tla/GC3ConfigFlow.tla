---------------------------- MODULE GC3ConfigFlow ----------------------------
(***************************************************************************)
(* The dialogs over config entries: user setup, reconfigure and            *)
(* reauthentication.  Several can be open at once; each awaits a GET       *)
(* /status with what was entered, while the panel moves or changes its     *)
(* keys, other dialogs write, and the user closes the window.              *)
(***************************************************************************)

CONSTANTS
  Hosts,     \* addresses as they can be typed
  Lower(_),  \* str.lower
  Keys,      \* api key and pairing key, as one
  Entries,   \* config entry ids
  Flows,     \* flow ids
  None

ASSUME LowerAssumption == \A h \in Hosts : Lower(h) \in Hosts
ASSUME NoneAssumption == None \notin Hosts /\ None \notin Keys /\ None \notin Entries

VARIABLES
  panel,       \* where the panel answers and the keys it takes
  entry,       \* the config entries; unique_id None where there is none.
               \* running: something will poll it again
  flow,        \* the flows.  "form" waits for the user, "checking" for _validate;
               \* "abandoned" too, but its dialog was closed meanwhile.
               \* accepted: the panel has answered that it takes what was entered
  unprompted,  \* history: entries stopped while a reconfigure dialog was open
  overtaken    \* history: entries an abandoned dialog wrote after new keys were submitted

fvars == <<panel, entry, flow, unprompted, overtaken>>

Panel == [host : {Lower(h) : h \in Hosts}, key : Keys]
NoEntry == [unique_id |-> None, host |-> None, key |-> None, running |-> FALSE]
Entry == [unique_id : Hosts, host : Hosts, key : Keys, running : BOOLEAN]
NoFlow == [kind |-> "none", entry |-> None, unique_id |-> None, at |-> "none",
           host |-> None, key |-> None, accepted |-> FALSE]
Flow == [kind : {"none", "user", "reconfigure", "reauth"}, entry : Entries \cup {None},
         unique_id : Hosts \cup {None}, at : {"none", "form", "checking", "abandoned"},
         host : Hosts \cup {None}, key : Keys \cup {None}, accepted : BOOLEAN]

Exists(e) == entry[e].unique_id # None
Open(f) == flow[f].at \in {"form", "checking"}
OpenOn(e, kinds) == {f \in Flows : Open(f) /\ flow[f].entry = e /\ flow[f].kind \in kinds}
Accepts(host, key) == panel.host = Lower(host) /\ panel.key = key

\* A form of the flow; what was entered in the one before is gone.
Form(kind, e, uid) == [kind |-> kind, entry |-> e, unique_id |-> uid, at |-> "form",
                       host |-> None, key |-> None, accepted |-> FALSE]
Gone(f) == [flow EXCEPT ![f] = NoFlow]

FInit ==
  /\ panel \in Panel
  /\ entry = [e \in Entries |-> NoEntry] /\ flow = [f \in Flows |-> NoFlow]
  /\ unprompted = {} /\ overtaken = {}

-----------------------------------------------------------------------------
(* The panel and the users. *)

PanelChanges ==
  /\ panel' \in Panel \ {panel}
  /\ UNCHANGED <<entry, flow, unprompted, overtaken>>

OpenDialog(f) ==
  /\ flow[f].at = "none"
  /\ \/ flow' = [flow EXCEPT ![f] = Form("user", None, None)]
     \/ \E e \in Entries : /\ Exists(e)
                           /\ flow' = [flow EXCEPT ![f] = Form("reconfigure", e, None)]
  /\ UNCHANGED <<panel, entry, unprompted, overtaken>>

\* Home Assistant forgets the flow; a step that is being handled runs on.
\* (Closing a reauthentication dialog leaves its flow open.)
CloseDialog(f) ==
  /\ Open(f) /\ flow[f].kind # "reauth"
  /\ flow' = IF flow[f].at = "form" THEN Gone(f) ELSE [flow EXCEPT ![f].at = "abandoned"]
  /\ UNCHANGED <<panel, entry, unprompted, overtaken>>

-----------------------------------------------------------------------------
(* Submitting a form. *)

\* Mutation: another flow in progress is no reason.
NeverInProgress(f, uid) == FALSE

\* async_set_unique_id raises if another open flow has the unique id.
InProgressElsewhere(f, uid) == \E g \in Flows \ {f} : Open(g) /\ flow[g].unique_id = uid

\* Mutation: an entry may exist already.
NeverConfigured(uid) == FALSE
Configured(uid) == \E e \in Entries : entry[e].unique_id = uid

\* Mutation: an entry may be pointed anywhere.
AnyHost(f, uid) == FALSE
Mismatch(f, uid) == entry[flow[f].entry].unique_id # uid

\* Why the steps user and reconfigure abort before they ask the panel.
AbortReason(f, uid) ==
  CASE InProgressElsewhere(f, uid) -> "already_in_progress"
    [] ~InProgressElsewhere(f, uid) /\ flow[f].kind = "user" ->
         IF Configured(uid) THEN "already_configured" ELSE "none"
    [] ~InProgressElsewhere(f, uid) /\ flow[f].kind # "user" ->
         IF Mismatch(f, uid) THEN "wrong_panel" ELSE "none"

\* async_step_user, async_step_reconfigure, up to the await in _validate.
Submit(f, host, key) ==
  /\ flow[f].at = "form" /\ flow[f].kind # "reauth"
  /\ flow' = IF AbortReason(f, Lower(host)) # "none" THEN Gone(f)
             ELSE [flow EXCEPT ![f] = [@ EXCEPT !.unique_id = Lower(host), !.at = "checking",
                                                !.host = host, !.key = key]]
  /\ UNCHANGED <<panel, entry, unprompted, overtaken>>

\* async_step_reauth_confirm: the new keys over what the entry has now.
SubmitReauth(f, key) ==
  /\ flow[f].at = "form" /\ flow[f].kind = "reauth"
  /\ flow' = [flow EXCEPT ![f] = [@ EXCEPT !.at = "checking", !.key = key,
                                           !.host = entry[flow[f].entry].host]]
  /\ overtaken' = overtaken \ {flow[f].entry}
  /\ UNCHANGED <<panel, entry, unprompted>>

-----------------------------------------------------------------------------
(* _validate, and the end of the step. *)

Checked(f) == flow[f].at \in {"checking", "abandoned"}

\* The panel answers the GET /status with 200.  It can move or change its keys
\* before the await returns.
Answer(f) ==
  /\ Checked(f) /\ ~flow[f].accepted /\ Accepts(flow[f].host, flow[f].key)
  /\ flow' = [flow EXCEPT ![f].accepted = TRUE]
  /\ UNCHANGED <<panel, entry, unprompted, overtaken>>

\* What _validate returns is what the panel answered.
Valid(f) == flow[f].accepted

\* An error, a lost answer among them: the form again.  (Also for an exception
\* _validate does not catch.)
Fails(f) ==
  /\ Checked(f)
  /\ flow' = IF flow[f].at = "abandoned" THEN Gone(f)
             ELSE [flow EXCEPT ![f] = Form(@.kind, @.entry, @.unique_id)]
  /\ UNCHANGED <<panel, entry, unprompted, overtaken>>

\* async_create_entry; Home Assistant drops the result of an abandoned flow.
Creates(f) ==
  /\ Checked(f) /\ Valid(f) /\ flow[f].kind = "user"
  /\ flow' = Gone(f)
  /\ \/ flow[f].at = "abandoned" /\ UNCHANGED entry
     \/ /\ flow[f].at = "checking"
        /\ \E e \in Entries :
             /\ ~Exists(e)
             /\ entry' = [entry EXCEPT ![e] =
                  [unique_id |-> flow[f].unique_id, host |-> flow[f].host,
                   key |-> flow[f].key, running |-> TRUE]]
  /\ UNCHANGED <<panel, unprompted, overtaken>>

\* Mutation: the entry is updated and left as it is.
StaysStopped(e) == entry[e].running
Reloaded(e) == TRUE

\* async_update_reload_and_abort: the entry gets the data that was checked.
Updates(f) ==
  LET e == flow[f].entry IN
  /\ Checked(f) /\ Valid(f) /\ flow[f].kind # "user"
  /\ flow' = Gone(f)
  /\ entry' = [entry EXCEPT ![e] = [@ EXCEPT !.host = flow[f].host, !.key = flow[f].key,
                                             !.running = Reloaded(e)]]
  /\ unprompted' = unprompted \ {e}
  /\ overtaken' = IF flow[f].at = "abandoned" THEN overtaken \cup {e} ELSE overtaken
  /\ UNCHANGED panel

-----------------------------------------------------------------------------
(* The entry.  External: DataUpdateCoordinator and Home Assistant. *)

\* A poll is refused with 403: ConfigEntryAuthFailed.  Polling stops, and a
\* reauthentication starts unless a dialog on the entry is open already.
Denied(e) ==
  /\ Exists(e) /\ entry[e].running
  /\ panel.host = Lower(entry[e].host) /\ panel.key # entry[e].key
  /\ entry' = [entry EXCEPT ![e].running = FALSE]
  /\ \/ /\ OpenOn(e, {"reconfigure", "reauth"}) # {}
        /\ unprompted' = IF OpenOn(e, {"reauth"}) = {} THEN unprompted \cup {e}
                         ELSE unprompted
        /\ UNCHANGED flow
     \/ /\ OpenOn(e, {"reconfigure", "reauth"}) = {}
        /\ \E f \in Flows :
             /\ flow[f].at = "none"
             /\ flow' = [flow EXCEPT ![f] = Form("reauth", e, entry[e].unique_id)]
        /\ UNCHANGED unprompted
  /\ UNCHANGED <<panel, overtaken>>

Reload(e) ==
  /\ Exists(e)
  /\ entry' = [entry EXCEPT ![e].running = TRUE]
  /\ unprompted' = unprompted \ {e}
  /\ UNCHANGED <<panel, flow, overtaken>>

\* Flows do not survive a restart.
Restart ==
  /\ flow' = [f \in Flows |-> NoFlow]
  /\ entry' = [e \in Entries |-> IF Exists(e) THEN [entry[e] EXCEPT !.running = TRUE]
                                 ELSE entry[e]]
  /\ unprompted' = {} /\ overtaken' = {}
  /\ UNCHANGED panel

FNext ==
  \/ PanelChanges
  \/ \E f \in Flows :
       \/ OpenDialog(f) \/ CloseDialog(f)
       \/ \E host \in Hosts, key \in Keys : Submit(f, host, key)
       \/ \E key \in Keys : SubmitReauth(f, key)
       \/ Answer(f) \/ Fails(f) \/ Creates(f) \/ Updates(f)
  \/ \E e \in Entries : Denied(e) \/ Reload(e)
  \/ Restart

FSpec == FInit /\ [][FNext]_fvars

-----------------------------------------------------------------------------
\* Types; an entry's unique id is its address in lower case, also after it was
\* reconfigured and reauthenticated.
FTypeOK ==
  /\ panel \in Panel
  /\ entry \in [Entries -> Entry \cup {NoEntry}]
  /\ flow \in [Flows -> Flow]
  /\ unprompted \subseteq Entries /\ overtaken \subseteq Entries
  /\ \A e \in Entries : Exists(e) => entry[e].unique_id = Lower(entry[e].host)

\* quality_scale's unique-config-entry, test_config_flow.py:83: however many
\* dialogs are submitted while others await the panel, no two entries have the
\* same unique id.
OneEntryPerHost ==
  \A d, e \in Entries : Exists(d) /\ entry[d].unique_id = entry[e].unique_id => d = e

\* test_config_flow.py:98: a reauthentication replaces the keys and keeps the
\* rest, although it merges before the panel is asked and stores afterwards:
\* nothing else writes the entry between, but for a dialog closed meanwhile.
ReauthKeepsRest ==
  [][\A f \in Flows : Updates(f) /\ flow[f].kind = "reauth" =>
       LET e == flow[f].entry IN
       entry'[e].host = entry[e].host \/ e \in overtaken]_fvars

\* coordinator.py:104-105, README.md:132-133: an entry that nothing polls any
\* more has a reauthentication open, unless it was refused while a reconfigure
\* dialog was.
StoppedIsPrompted ==
  \A e \in Entries :
    Exists(e) /\ ~entry[e].running => e \in unprompted \/ OpenOn(e, {"reauth"}) # {}
=============================================================================
