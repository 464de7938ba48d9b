------------------------- MODULE GC3ConfigFlowProofs -------------------------
(***************************************************************************)
(* The dialogs' properties, for any addresses, keys, entries and flows.    *)
(* The inductive invariant says what a flow that awaits the panel may rely *)
(* on: its address is its unique id, no entry and no other setup has that  *)
(* id, and a reauthentication shares its entry with no dialog that was     *)
(* submitted.                                                              *)
(***************************************************************************)
EXTENDS GC3ConfigFlow, TLAPS

Awaiting(f) == flow[f].at \in {"checking", "abandoned"}
Adding(f) == flow[f].kind = "user" /\ flow[f].at = "checking"

\* A flow that is not idle is about an entry that exists, unless it adds one;
\* what it checks is at the address of its unique id.
FlowsMeantWell ==
  \A f \in Flows :
    /\ flow[f].at # "none" => flow[f].kind # "none"
    /\ flow[f].kind = "none" => flow[f].at = "none"
    /\ flow[f].kind \in {"reconfigure", "reauth"} =>
         flow[f].entry \in Entries /\ Exists(flow[f].entry)
    /\ flow[f].kind = "user" => flow[f].entry = None
    /\ Awaiting(f) => flow[f].host \in Hosts /\ flow[f].key \in Keys
    /\ Awaiting(f) /\ flow[f].kind = "user" => flow[f].unique_id = Lower(flow[f].host)
    /\ Awaiting(f) /\ flow[f].kind # "user" =>
         Lower(flow[f].host) = entry[flow[f].entry].unique_id

\* Two setups in progress differ, and from every entry too.
AddingApart ==
  \A f \in Flows : Adding(f) =>
    /\ \A e \in Entries : entry[e].unique_id # flow[f].unique_id
    /\ \A g \in Flows \ {f} : Adding(g) => flow[g].unique_id # flow[f].unique_id

\* A reauthentication is open as long as it is, has its entry's unique id, and
\* at most unsubmitted reconfigure dialogs beside it.
ReauthAlone ==
  \A f \in Flows : flow[f].kind = "reauth" =>
    /\ flow[f].at \in {"form", "checking"}
    /\ flow[f].unique_id = entry[flow[f].entry].unique_id
    /\ \A g \in Flows \ {f} : Open(g) /\ flow[g].entry = flow[f].entry =>
         flow[g].kind = "reconfigure" /\ flow[g].at = "form"
    /\ flow[f].at = "checking" =>
         flow[f].host = entry[flow[f].entry].host \/ flow[f].entry \in overtaken

FInv ==
  FTypeOK /\ FlowsMeantWell /\ AddingApart /\ OneEntryPerHost /\ ReauthAlone
  /\ StoppedIsPrompted
-----------------------------------------------------------------------------
LEMMA FormFields ==
  ASSUME NEW kind, NEW e, NEW uid
  PROVE  /\ Form(kind, e, uid) = [kind |-> kind, entry |-> e, unique_id |-> uid, at |-> "form",
                                  host |-> None, key |-> None, accepted |-> FALSE]
         /\ kind \in {"user", "reconfigure", "reauth"} /\ e \in Entries \cup {None}
            /\ uid \in Hosts \cup {None} => Form(kind, e, uid) \in Flow
BY DEF Form, Flow

LEMMA PanelChangesKeeps ==
  ASSUME FInv, PanelChanges
  PROVE  FInv'
<1>1. FTypeOK'
  BY DEF FInv, FTypeOK, PanelChanges, Exists
<1>2. FlowsMeantWell' /\ AddingApart' /\ ReauthAlone'
  BY DEF FInv, PanelChanges, FlowsMeantWell, AddingApart, ReauthAlone, Adding, Awaiting, Open, Exists
<1>3. OneEntryPerHost' /\ StoppedIsPrompted'
  BY DEF FInv, PanelChanges, OneEntryPerHost, StoppedIsPrompted, OpenOn, Open, Exists
<1> QED  BY <1>1, <1>2, <1>3 DEF FInv

LEMMA OpenDialogKeeps ==
  ASSUME FInv, NEW f \in Flows, OpenDialog(f)
  PROVE  FInv'
<1> USE DEF FInv
<1>1. PICK kind \in {"user", "reconfigure"}, e \in Entries \cup {None} :
        /\ flow' = [flow EXCEPT ![f] = Form(kind, e, None)]
        /\ kind = "reconfigure" => e \in Entries /\ Exists(e)
        /\ kind = "user" => e = None
  BY DEF OpenDialog
<1>2. /\ Form(kind, e, None) = [kind |-> kind, entry |-> e, unique_id |-> None, at |-> "form",
                               host |-> None, key |-> None, accepted |-> FALSE]
      /\ Form(kind, e, None) \in Flow
  BY FormFields
<1>3. /\ UNCHANGED <<panel, entry, unprompted, overtaken>> /\ flow[f].at = "none"
      /\ \A g \in Flows \ {f} : flow'[g] = flow[g]
      /\ flow'[f] = Form(kind, e, None)
      /\ flow' \in [Flows -> Flow]
  BY <1>1, <1>2 DEF OpenDialog, FTypeOK
<1>4. FTypeOK'
  BY <1>3 DEF FTypeOK, Exists
<1>5. FlowsMeantWell'
  BY <1>1, <1>2, <1>3 DEF FlowsMeantWell, Awaiting, Exists
<1>6. AddingApart'
  BY <1>2, <1>3 DEF AddingApart, Adding
<1>7. OneEntryPerHost'
  BY <1>3 DEF OneEntryPerHost, Exists
<1>8. ReauthAlone'
  BY <1>1, <1>2, <1>3, NoneAssumption DEF ReauthAlone, FlowsMeantWell, Open
<1>9. StoppedIsPrompted'
  <2>1. \A x \in Entries : OpenOn(x, {"reauth"}) \subseteq OpenOn(x, {"reauth"})'
    BY <1>3 DEF OpenOn, Open
  <2> QED  BY <1>3, <2>1 DEF StoppedIsPrompted, Exists
<1> QED  BY <1>4, <1>5, <1>6, <1>7, <1>8, <1>9

LEMMA CloseDialogKeeps ==
  ASSUME FInv, NEW f \in Flows, CloseDialog(f)
  PROVE  FInv'
<1> USE DEF FInv
<1>1. /\ UNCHANGED <<panel, entry, unprompted, overtaken>> /\ flow[f].kind # "reauth"
      /\ \A g \in Flows \ {f} : flow'[g] = flow[g]
      /\ \/ flow'[f] = NoFlow
         \/ flow[f].at = "checking" /\ flow'[f] = [flow[f] EXCEPT !.at = "abandoned"]
  BY DEF CloseDialog, Gone, Open, FTypeOK
<1>2. FTypeOK'
  BY DEF CloseDialog, Gone, FTypeOK, Flow, NoFlow, Exists
<1>3. FlowsMeantWell'
  BY <1>1 DEF FlowsMeantWell, FTypeOK, Flow, NoFlow, Awaiting, Exists
<1>4. AddingApart'
  <2>1. flow'[f].at # "checking"
    BY <1>1 DEF FTypeOK, Flow, NoFlow
  <2> QED  BY <1>1, <2>1 DEF AddingApart, Adding
<1>5. OneEntryPerHost'
  BY <1>1 DEF OneEntryPerHost, Exists
<1>6. ReauthAlone'
  BY <1>1 DEF ReauthAlone, Open, FTypeOK, Flow, NoFlow
<1>7. StoppedIsPrompted'
  BY <1>1 DEF StoppedIsPrompted, OpenOn, Open, Exists
<1> QED  BY <1>2, <1>3, <1>4, <1>5, <1>6, <1>7

LEMMA SubmitKeeps ==
  ASSUME FInv, NEW f \in Flows, NEW host \in Hosts, NEW key \in Keys, Submit(f, host, key)
  PROVE  FInv'
<1> USE DEF FInv
<1>1. /\ UNCHANGED <<panel, entry, unprompted, overtaken>>
      /\ flow[f].at = "form" /\ flow[f].kind \in {"user", "reconfigure"} /\ flow[f] \in Flow
  BY DEF Submit, FTypeOK, FlowsMeantWell, Flow
<1>2. \A g \in Flows \ {f} : flow'[g] = flow[g]
  BY DEF Submit, Gone, FTypeOK
<1>3. OneEntryPerHost'
  BY <1>1 DEF OneEntryPerHost, Exists
<1>4. StoppedIsPrompted'
  BY <1>1, <1>2 DEF StoppedIsPrompted, OpenOn, Open, Exists
<1>5. CASE flow' = Gone(f)
  <2>1. flow'[f] = NoFlow /\ NoFlow \in Flow
    BY <1>5 DEF Gone, FTypeOK, NoFlow, Flow
  <2>2. FTypeOK'
    BY <1>1, <1>5, <2>1 DEF FTypeOK, Gone, Exists
  <2>3. FlowsMeantWell'
    BY <1>1, <1>2, <2>1 DEF FlowsMeantWell, NoFlow, Awaiting, Exists
  <2>4. AddingApart' /\ ReauthAlone'
    BY <1>1, <1>2, <2>1 DEF AddingApart, Adding, ReauthAlone, Open, NoFlow
  <2> QED  BY <1>3, <1>4, <2>2, <2>3, <2>4
<1>6. CASE flow' # Gone(f)
  <2>1. /\ \A g \in Flows \ {f} : Open(g) => flow[g].unique_id # Lower(host)
        /\ flow[f].kind = "user" =>
             \A e \in Entries : entry[e].unique_id # Lower(host)
        /\ flow[f].kind = "reconfigure" => entry[flow[f].entry].unique_id = Lower(host)
    BY <1>1, <1>6 DEF Submit, AbortReason, InProgressElsewhere, Configured, Mismatch
  <2>2. flow' = [flow EXCEPT ![f] = [@ EXCEPT !.unique_id = Lower(host), !.at = "checking",
                                              !.host = host, !.key = key]]
    BY <1>6 DEF Submit
  <2>3. /\ flow'[f] \in Flow
        /\ flow'[f].kind = flow[f].kind /\ flow'[f].entry = flow[f].entry
        /\ flow'[f].unique_id = Lower(host) /\ flow'[f].at = "checking"
        /\ flow'[f].host = host /\ flow'[f].key = key
    BY <1>1, <2>2, LowerAssumption DEF FTypeOK, Flow
  <2>4. FTypeOK'
    BY <1>1, <2>2, <2>3 DEF FTypeOK, Exists
  <2>5. FlowsMeantWell'
    BY <1>1, <1>2, <2>1, <2>3 DEF FlowsMeantWell, Awaiting, Exists
  <2>6. AddingApart'
    BY <1>1, <1>2, <2>1, <2>3 DEF AddingApart, Adding, Open
  <2>7. ReauthAlone'
    BY <1>1, <1>2, <2>1, <2>3, NoneAssumption DEF ReauthAlone, FlowsMeantWell, Open
  <2> QED  BY <1>3, <1>4, <2>4, <2>5, <2>6, <2>7
<1> QED  BY <1>5, <1>6

LEMMA SubmitReauthKeeps ==
  ASSUME FInv, NEW f \in Flows, NEW key \in Keys, SubmitReauth(f, key)
  PROVE  FInv'
<1> USE DEF FInv
<1>1. /\ flow[f] \in Flow /\ flow[f].kind = "reauth" /\ flow[f].at = "form"
      /\ flow[f].entry \in Entries /\ entry[flow[f].entry] \in Entry
      /\ Lower(entry[flow[f].entry].host) = entry[flow[f].entry].unique_id
  BY NoneAssumption DEF FTypeOK, FlowsMeantWell, SubmitReauth, Exists, NoEntry
<1>2. /\ UNCHANGED <<panel, entry, unprompted>> /\ overtaken' = overtaken \ {flow[f].entry}
      /\ \A g \in Flows \ {f} : flow'[g] = flow[g]
  BY DEF SubmitReauth, FTypeOK
<1>3. flow'[f] = [flow[f] EXCEPT !.at = "checking", !.key = key,
                               !.host = entry[flow[f].entry].host]
  BY DEF SubmitReauth, FTypeOK
<1>4. /\ flow'[f] \in Flow /\ flow'[f].at = "checking"
      /\ flow'[f].kind = "reauth" /\ flow'[f].entry = flow[f].entry
      /\ flow'[f].unique_id = flow[f].unique_id
      /\ flow'[f].host = entry[flow[f].entry].host /\ flow'[f].host \in Hosts
      /\ flow'[f].key \in Keys
  BY <1>1, <1>3 DEF Flow, Entry
<1>5. FTypeOK'
  BY <1>2, <1>4 DEF FTypeOK, SubmitReauth, Exists
<1>6. FlowsMeantWell'
  BY <1>1, <1>2, <1>4 DEF FlowsMeantWell, Awaiting, Exists
<1>7. AddingApart'
  BY <1>2, <1>4 DEF AddingApart, Adding
<1>8. OneEntryPerHost'
  BY <1>2 DEF OneEntryPerHost, Exists
<1>9. ReauthAlone'
  BY <1>1, <1>2, <1>4 DEF ReauthAlone, Open
<1>10. StoppedIsPrompted'
  BY <1>1, <1>2, <1>4 DEF StoppedIsPrompted, OpenOn, Open, Exists
<1> QED  BY <1>5, <1>6, <1>7, <1>8, <1>9, <1>10

LEMMA AnswerKeeps ==
  ASSUME FInv, NEW f \in Flows, Answer(f)
  PROVE  FInv'
<1> USE DEF FInv
<1>1. /\ UNCHANGED <<panel, entry, unprompted, overtaken>>
      /\ \A g \in Flows \ {f} : flow'[g] = flow[g]
      /\ flow'[f] = [flow[f] EXCEPT !.accepted = TRUE] /\ flow[f] \in Flow
  BY DEF Answer, FTypeOK
<1>2. /\ flow'[f] \in Flow
       /\ flow'[f].kind = flow[f].kind /\ flow'[f].entry = flow[f].entry
       /\ flow'[f].unique_id = flow[f].unique_id /\ flow'[f].at = flow[f].at
       /\ flow'[f].host = flow[f].host /\ flow'[f].key = flow[f].key
  BY <1>1 DEF Flow
<1>3. \A g \in Flows :
        /\ flow'[g] \in Flow
        /\ flow'[g].kind = flow[g].kind /\ flow'[g].entry = flow[g].entry
        /\ flow'[g].unique_id = flow[g].unique_id /\ flow'[g].at = flow[g].at
        /\ flow'[g].host = flow[g].host /\ flow'[g].key = flow[g].key
  BY <1>1, <1>2 DEF FTypeOK
<1>4. FTypeOK'
  BY <1>1, <1>3 DEF FTypeOK, Answer, Exists
<1>5. FlowsMeantWell'
  BY <1>1, <1>3 DEF FlowsMeantWell, Awaiting, Exists
<1>6. AddingApart' /\ OneEntryPerHost'
  BY <1>1, <1>3 DEF AddingApart, Adding, OneEntryPerHost, Exists
<1>7. ReauthAlone'
  BY <1>1, <1>3 DEF ReauthAlone, Open
<1>8. StoppedIsPrompted'
  BY <1>1, <1>3 DEF StoppedIsPrompted, OpenOn, Open, Exists
<1> QED  BY <1>4, <1>5, <1>6, <1>7, <1>8

LEMMA FailsKeeps ==
  ASSUME FInv, NEW f \in Flows, Fails(f)
  PROVE  FInv'
<1> USE DEF FInv
<1>1. /\ UNCHANGED <<panel, entry, unprompted, overtaken>>
      /\ flow[f].at \in {"checking", "abandoned"} /\ flow[f].kind # "none" /\ flow[f] \in Flow
      /\ \A g \in Flows \ {f} : flow'[g] = flow[g]
  BY DEF Fails, Checked, Gone, FTypeOK, FlowsMeantWell
<1>2. OneEntryPerHost'
  BY <1>1 DEF OneEntryPerHost, Exists
<1>3. CASE flow[f].at = "abandoned"
  <2>1. /\ flow' = [flow EXCEPT ![f] = NoFlow] /\ flow'[f] = NoFlow /\ NoFlow \in Flow
        /\ flow[f].kind # "reauth"
    BY <1>3 DEF Fails, Gone, FTypeOK, NoFlow, Flow, ReauthAlone
  <2>2. FTypeOK' /\ FlowsMeantWell'
    BY <1>1, <2>1 DEF FTypeOK, FlowsMeantWell, NoFlow, Awaiting, Exists
  <2>3. AddingApart' /\ ReauthAlone'
    BY <1>1, <2>1 DEF AddingApart, Adding, ReauthAlone, Open, NoFlow
  <2>4. StoppedIsPrompted'
    BY <1>1, <2>1 DEF StoppedIsPrompted, OpenOn, Open, Exists
  <2> QED  BY <1>2, <2>2, <2>3, <2>4
<1>4. CASE flow[f].at = "checking"
  <2>1. flow' = [flow EXCEPT ![f] = Form(flow[f].kind, flow[f].entry, flow[f].unique_id)]
    BY <1>4 DEF Fails
  <2>2. /\ Form(flow[f].kind, flow[f].entry, flow[f].unique_id) =
             [kind |-> flow[f].kind, entry |-> flow[f].entry, unique_id |-> flow[f].unique_id,
              at |-> "form", host |-> None, key |-> None, accepted |-> FALSE]
        /\ Form(flow[f].kind, flow[f].entry, flow[f].unique_id) \in Flow
    <3>1. /\ flow[f].kind \in {"user", "reconfigure", "reauth"}
          /\ flow[f].entry \in Entries \cup {None} /\ flow[f].unique_id \in Hosts \cup {None}
      BY <1>1 DEF Flow
    <3> QED  BY <3>1, FormFields
  <2>3. /\ flow'[f].kind = flow[f].kind /\ flow'[f].entry = flow[f].entry
        /\ flow'[f].unique_id = flow[f].unique_id /\ flow'[f].at = "form"
    BY <2>1, <2>2 DEF FTypeOK
  <2>4. FTypeOK' /\ FlowsMeantWell'
    BY <1>1, <2>1, <2>2, <2>3 DEF FTypeOK, FlowsMeantWell, Awaiting, Exists
  <2>5. AddingApart' /\ ReauthAlone'
    BY <1>1, <1>4, <2>3 DEF AddingApart, Adding, ReauthAlone, Open
  <2>6. StoppedIsPrompted'
    BY <1>1, <1>4, <2>3 DEF StoppedIsPrompted, OpenOn, Open, Exists
  <2> QED  BY <1>2, <2>4, <2>5, <2>6
<1> QED  BY <1>1, <1>3, <1>4

LEMMA CreatesKeeps ==
  ASSUME FInv, NEW f \in Flows, Creates(f)
  PROVE  FInv'
<1> USE DEF FInv
<1>1. /\ flow' = [flow EXCEPT ![f] = NoFlow] /\ flow'[f] = NoFlow /\ NoFlow \in Flow
      /\ \A g \in Flows \ {f} : flow'[g] = flow[g]
      /\ UNCHANGED <<panel, unprompted, overtaken>> /\ flow[f].kind = "user"
  BY DEF Creates, Gone, FTypeOK, NoFlow, Flow
<1>2. /\ flow[f].unique_id = Lower(flow[f].host)
      /\ flow[f].host \in Hosts /\ flow[f].key \in Keys
  BY DEF FlowsMeantWell, Awaiting, Creates, Checked
<1> DEFINE new == [unique_id |-> flow[f].unique_id, host |-> flow[f].host,
                   key |-> flow[f].key, running |-> TRUE]
<1>3. new \in Entry /\ new.unique_id = Lower(new.host) /\ new.unique_id # None /\ new.running
  BY <1>2, LowerAssumption, NoneAssumption DEF Entry
<1>4. CASE entry' = entry
  <2>1. FTypeOK' /\ FlowsMeantWell'
    BY <1>1, <1>4 DEF FTypeOK, FlowsMeantWell, NoFlow, Awaiting, Exists
  <2>2. AddingApart' /\ ReauthAlone'
    BY <1>1, <1>4 DEF AddingApart, Adding, ReauthAlone, Open, NoFlow
  <2>3. OneEntryPerHost' /\ StoppedIsPrompted'
    BY <1>1, <1>4 DEF OneEntryPerHost, StoppedIsPrompted, OpenOn, Open, Exists
  <2> QED  BY <2>1, <2>2, <2>3
<1>5. CASE entry' # entry
  <2>1. PICK e \in Entries : ~Exists(e) /\ entry' = [entry EXCEPT ![e] = new]
    BY <1>5 DEF Creates
  <2>2. Adding(f) /\ new.unique_id = flow[f].unique_id
    BY <1>5 DEF Creates, Adding
  <2>3. entry'[e] = new /\ \A x \in Entries \ {e} : entry'[x] = entry[x]
    BY <2>1 DEF FTypeOK
  <2> HIDE DEF new
  <2>4. FTypeOK'
    BY <1>1, <1>3, <2>1, <2>3 DEF FTypeOK, Exists
  <2>5. FlowsMeantWell'
    <3>1. \A g \in Flows : flow[g].kind \in {"reconfigure", "reauth"} => flow[g].entry # e
      BY <2>1 DEF FlowsMeantWell
    <3> QED  BY <1>1, <2>3, <3>1 DEF FlowsMeantWell, FTypeOK, Flow, NoFlow, Awaiting, Exists
  <2>6. AddingApart'
    BY <1>1, <2>2, <2>3 DEF AddingApart, Adding, NoFlow
  <2>7. OneEntryPerHost'
    BY <2>2, <2>3 DEF OneEntryPerHost, AddingApart, Exists
  <2>8. ReauthAlone'
    <3>1. \A g \in Flows : flow[g].kind = "reauth" => flow[g].entry \in Entries \ {e}
      BY <2>1 DEF FlowsMeantWell
    <3> QED  BY <1>1, <2>3, <3>1 DEF ReauthAlone, Open, NoFlow
  <2>9. StoppedIsPrompted'
    BY <1>1, <1>3, <2>3 DEF StoppedIsPrompted, OpenOn, Open, Exists
  <2> QED  BY <2>4, <2>5, <2>6, <2>7, <2>8, <2>9
<1> QED  BY <1>4, <1>5

LEMMA UpdatesKeeps ==
  ASSUME FInv, NEW f \in Flows, Updates(f)
  PROVE  FInv'
<1> USE DEF FInv
<1> DEFINE e == flow[f].entry
           new == [entry[e] EXCEPT !.host = flow[f].host, !.key = flow[f].key, !.running = TRUE]
<1>1. /\ flow' = [flow EXCEPT ![f] = NoFlow] /\ flow'[f] = NoFlow /\ NoFlow \in Flow
      /\ \A g \in Flows \ {f} : flow'[g] = flow[g]
      /\ UNCHANGED panel /\ unprompted' = unprompted \ {e}
      /\ overtaken' = IF flow[f].at = "abandoned" THEN overtaken \cup {e} ELSE overtaken
  BY DEF Updates, Gone, FTypeOK, NoFlow, Flow
<1>2. /\ flow[f].kind \in {"reconfigure", "reauth"} /\ e \in Entries /\ entry[e] \in Entry
      /\ flow[f].host \in Hosts /\ flow[f].key \in Keys
      /\ Lower(flow[f].host) = entry[e].unique_id
  BY NoneAssumption DEF FTypeOK, FlowsMeantWell, Awaiting, Updates, Checked, Exists, Flow, NoEntry
<1>3. entry' = [entry EXCEPT ![e] = new]
  BY DEF Updates, Reloaded
<1>4. /\ new \in Entry /\ new.unique_id = entry[e].unique_id
      /\ new.host = flow[f].host /\ new.running
  BY <1>2 DEF Entry
<1>5. entry'[e] = new /\ \A x \in Entries \ {e} : entry'[x] = entry[x]
  BY <1>2, <1>3 DEF FTypeOK
<1> HIDE DEF e, new
<1>6. FTypeOK'
  BY <1>1, <1>2, <1>3, <1>4, <1>5 DEF FTypeOK, Exists
<1>7. \A x \in Entries : entry'[x].unique_id = entry[x].unique_id
  BY <1>4, <1>5
<1>8. FlowsMeantWell'
  BY <1>1, <1>7 DEF FlowsMeantWell, FTypeOK, Flow, NoFlow, Awaiting, Exists
<1>9. AddingApart' /\ OneEntryPerHost'
  BY <1>1, <1>7 DEF AddingApart, Adding, OneEntryPerHost, Exists, NoFlow
<1>10. ReauthAlone'
  <2>1. ASSUME NEW g \in Flows \ {f}, flow[g].kind = "reauth", flow[g].at = "checking",
               flow[g].entry = e
        PROVE  e \in overtaken'
    <3>1. ~Open(f)
      BY <1>2, <2>1, Zenon DEF ReauthAlone, Updates, Checked, Open, e
    <3> QED  BY <1>1, <3>1 DEF Updates, Checked, Open
  <2>2. \A g \in Flows : flow[g].kind = "reauth" => flow[g].entry \in Entries
    BY DEF FlowsMeantWell
  <2> QED  BY <1>1, <1>5, <1>7, <2>1, <2>2 DEF ReauthAlone, Open, NoFlow
<1>11. StoppedIsPrompted'
  <2>1. ASSUME NEW x \in Entries \ {e}
        PROVE  OpenOn(x, {"reauth"}) \subseteq OpenOn(x, {"reauth"})'
    BY <1>1, <2>1 DEF OpenOn, Open, e
  <2> QED  BY <1>1, <1>4, <1>5, <2>1 DEF StoppedIsPrompted, Exists
<1> QED  BY <1>6, <1>8, <1>9, <1>10, <1>11

LEMMA DeniedKeeps ==
  ASSUME FInv, NEW e \in Entries, Denied(e)
  PROVE  FInv'
<1> USE DEF FInv
<1>1. /\ UNCHANGED <<panel, overtaken>> /\ entry[e] \in Entry
      /\ entry' = [entry EXCEPT ![e].running = FALSE]
  BY NoneAssumption DEF Denied, FTypeOK, Exists, NoEntry
<1>2. \A x \in Entries : /\ entry'[x].unique_id = entry[x].unique_id
                         /\ entry'[x].host = entry[x].host
                         /\ x # e => entry'[x] = entry[x]
  BY <1>1 DEF FTypeOK, Entry
<1>3. entry' \in [Entries -> Entry \cup {NoEntry}]
  <2>1. [entry[e] EXCEPT !.running = FALSE] \in Entry
    BY <1>1 DEF Entry
  <2> QED  BY <1>1, <2>1 DEF FTypeOK
<1>4. OneEntryPerHost'
  BY <1>2 DEF OneEntryPerHost, Exists
<1>5. CASE OpenOn(e, {"reconfigure", "reauth"}) # {}
  <2>1. /\ UNCHANGED flow /\ unprompted \subseteq unprompted' /\ unprompted' \subseteq Entries
        /\ e \in unprompted' \/ OpenOn(e, {"reauth"}) # {}
    BY <1>5 DEF Denied, FTypeOK
  <2>2. FTypeOK'
    BY <1>1, <1>2, <1>3, <2>1 DEF FTypeOK, Exists
  <2>3. FlowsMeantWell' /\ AddingApart' /\ ReauthAlone'
    BY <1>1, <1>2, <2>1 DEF FlowsMeantWell, AddingApart, Adding, ReauthAlone, Awaiting, Open, Exists
  <2>4. StoppedIsPrompted'
    BY <1>2, <2>1 DEF StoppedIsPrompted, Exists, OpenOn, Open
  <2> QED  BY <1>4, <2>2, <2>3, <2>4
<1>6. CASE OpenOn(e, {"reconfigure", "reauth"}) = {}
  <2>1. PICK f \in Flows : /\ flow[f].at = "none"
                           /\ flow' = [flow EXCEPT ![f] = Form("reauth", e, entry[e].unique_id)]
                           /\ UNCHANGED unprompted
    BY <1>6 DEF Denied
  <2>2. /\ Form("reauth", e, entry[e].unique_id) =
             [kind |-> "reauth", entry |-> e, unique_id |-> entry[e].unique_id, at |-> "form",
              host |-> None, key |-> None, accepted |-> FALSE]
        /\ Form("reauth", e, entry[e].unique_id) \in Flow
    BY <1>1, FormFields DEF Entry
  <2>3. /\ \A g \in Flows \ {f} : flow'[g] = flow[g]
        /\ flow'[f] = Form("reauth", e, entry[e].unique_id)
        /\ flow' \in [Flows -> Flow]
    BY <2>1, <2>2 DEF FTypeOK
  <2>4. FTypeOK'
    BY <1>1, <1>2, <1>3, <2>1, <2>3 DEF FTypeOK, Exists
  <2>5. FlowsMeantWell'
    BY <1>1, <1>2, <2>2, <2>3 DEF FlowsMeantWell, Awaiting, Exists, Denied
  <2>6. AddingApart'
    BY <1>2, <2>2, <2>3 DEF AddingApart, Adding
  <2>7. ReauthAlone'
    <3>1. \A g \in Flows \ {f} :
            flow[g].entry = e => ~(Open(g) /\ flow[g].kind \in {"reconfigure", "reauth"})
      BY <1>6 DEF OpenOn
    <3>2. \A g \in Flows : Open(g) /\ flow[g].kind \notin {"reconfigure", "reauth"} =>
            flow[g].entry \notin Entries
      BY NoneAssumption DEF Open, FlowsMeantWell, FTypeOK, Flow
    <3> QED  BY <1>1, <1>2, <2>1, <2>2, <2>3, <3>1, <3>2 DEF ReauthAlone, Open, FTypeOK, Flow
  <2>8. StoppedIsPrompted'
    <3>1. \A x \in Entries : OpenOn(x, {"reauth"}) \subseteq OpenOn(x, {"reauth"})'
      BY <2>1, <2>3 DEF OpenOn, Open
    <3>2. f \in OpenOn(e, {"reauth"})'
      BY <2>2, <2>3 DEF OpenOn, Open
    <3> QED  BY <1>2, <2>1, <3>1, <3>2 DEF StoppedIsPrompted, Exists
  <2> QED  BY <1>4, <2>4, <2>5, <2>6, <2>7, <2>8
<1> QED  BY <1>5, <1>6

LEMMA ReloadKeeps ==
  ASSUME FInv, NEW e \in Entries, Reload(e)
  PROVE  FInv'
<1> USE DEF FInv
<1>1. /\ UNCHANGED <<panel, flow, overtaken>> /\ unprompted' = unprompted \ {e}
      /\ entry' = [entry EXCEPT ![e].running = TRUE] /\ entry[e] \in Entry
  BY NoneAssumption DEF FTypeOK, Reload, Exists, NoEntry
<1>2. [entry[e] EXCEPT !.running = TRUE] \in Entry
  BY <1>1 DEF Entry
<1>3. /\ entry'[e].running
      /\ \A x \in Entries : /\ entry'[x].unique_id = entry[x].unique_id
                            /\ entry'[x].host = entry[x].host
                            /\ x # e => entry'[x] = entry[x]
  BY <1>1 DEF FTypeOK, Entry
<1>4. FTypeOK'
  BY <1>1, <1>2, <1>3 DEF FTypeOK, Exists
<1>5. FlowsMeantWell'
  BY <1>1, <1>3 DEF FlowsMeantWell, Awaiting, Exists
<1>6. AddingApart' /\ OneEntryPerHost'
  BY <1>1, <1>3 DEF AddingApart, Adding, OneEntryPerHost, Exists
<1>7. ReauthAlone'
  BY <1>1, <1>3 DEF ReauthAlone, FlowsMeantWell, Open
<1>8. StoppedIsPrompted'
  BY <1>1, <1>3 DEF StoppedIsPrompted, OpenOn, Open, Exists
<1> QED  BY <1>4, <1>5, <1>6, <1>7, <1>8

LEMMA RestartKeeps ==
  ASSUME FInv, Restart
  PROVE  FInv'
<1> USE DEF FInv
<1>1. NoFlow \in Flow /\ \A f \in Flows : flow'[f] = NoFlow
  BY DEF Restart, Flow, NoFlow
<1>2. ASSUME NEW e \in Entries
      PROVE  /\ entry'[e] \in Entry \cup {NoEntry}
             /\ entry'[e].host = entry[e].host
             /\ entry'[e].unique_id = entry[e].unique_id
             /\ Exists(e) => entry'[e].running
  <2>1. CASE entry[e] \in Entry
    BY <2>1 DEF Restart, Entry
  <2>2. CASE entry[e] = NoEntry
    BY <2>2 DEF Restart, NoEntry, Exists
  <2> QED  BY <2>1, <2>2 DEF FTypeOK
<1>3. FTypeOK'
  BY <1>1, <1>2 DEF FTypeOK, Restart, Exists
<1>4. FlowsMeantWell' /\ AddingApart' /\ ReauthAlone'
  BY <1>1 DEF FlowsMeantWell, AddingApart, Adding, ReauthAlone, Awaiting, NoFlow
<1>5. OneEntryPerHost' /\ StoppedIsPrompted'
  BY <1>2 DEF OneEntryPerHost, StoppedIsPrompted, Exists
<1> QED  BY <1>3, <1>4, <1>5

-----------------------------------------------------------------------------
THEOREM FlowsInvariant == FSpec => []FInv
<1>1. FInit => FInv
  <2> SUFFICES ASSUME FInit PROVE FInv
    OBVIOUS
  <2>1. NoFlow \in Flow /\ \A f \in Flows : flow[f] = NoFlow
    BY DEF FInit, NoFlow, Flow
  <2>2. \A e \in Entries : ~Exists(e)
    BY DEF FInit, Exists, NoEntry
  <2>3. FTypeOK /\ FlowsMeantWell
    BY <2>1, <2>2 DEF FInit, FTypeOK, FlowsMeantWell, NoFlow, Awaiting
  <2>4. AddingApart /\ OneEntryPerHost /\ ReauthAlone /\ StoppedIsPrompted
    BY <2>1, <2>2 DEF AddingApart, Adding, OneEntryPerHost, ReauthAlone, StoppedIsPrompted, NoFlow
  <2> QED  BY <2>3, <2>4 DEF FInv
<1>2. FInv /\ [FNext]_fvars => FInv'
  <2> SUFFICES ASSUME FInv, [FNext]_fvars PROVE FInv'
    OBVIOUS
  <2>1. CASE UNCHANGED fvars
    BY <2>1 DEF fvars, FInv, FTypeOK, FlowsMeantWell, AddingApart, OneEntryPerHost, ReauthAlone,
                StoppedIsPrompted, Exists, Open, OpenOn, Awaiting, Adding
  <2>2. CASE FNext
    BY <2>2, PanelChangesKeeps, OpenDialogKeeps, CloseDialogKeeps, SubmitKeeps,
       SubmitReauthKeeps, AnswerKeeps, FailsKeeps, CreatesKeeps, UpdatesKeeps, DeniedKeeps, ReloadKeeps,
       RestartKeeps DEF FNext
  <2> QED  BY <2>1, <2>2
<1> QED  BY <1>1, <1>2, PTL DEF FSpec

\* Types, and an entry's unique id being its address in lower case.
THEOREM FlowTypes == FSpec => []FTypeOK
<1>1. FInv => FTypeOK
  BY DEF FInv
<1> QED  BY <1>1, FlowsInvariant, PTL

\* However many setups are submitted at once, an address has one entry.
THEOREM EntriesAreUnique == FSpec => []OneEntryPerHost
<1>1. FInv => OneEntryPerHost
  BY DEF FInv
<1> QED  BY <1>1, FlowsInvariant, PTL

\* An entry stops being polled only with a reauthentication open, or while a
\* reconfigure dialog was.
THEOREM StoppedEntriesArePrompted == FSpec => []StoppedIsPrompted
<1>1. FInv => StoppedIsPrompted
  BY DEF FInv
<1> QED  BY <1>1, FlowsInvariant, PTL

\* A reauthentication leaves the address alone, unless a dialog closed earlier
\* changed it while the new keys were checked.
THEOREM ReauthOnlyChangesKeys == FSpec => ReauthKeepsRest
<1> DEFINE A == \A f \in Flows : Updates(f) /\ flow[f].kind = "reauth" =>
      LET e == flow[f].entry IN entry'[e].host = entry[e].host \/ e \in overtaken
<1>1. FInv /\ [FNext]_fvars => [A]_fvars
  <2> SUFFICES ASSUME FInv, NEW f \in Flows, Updates(f), flow[f].kind = "reauth"
               PROVE  \/ entry'[flow[f].entry].host = entry[flow[f].entry].host
                      \/ flow[f].entry \in overtaken
    OBVIOUS
  <2>1. flow[f].entry \in Entries /\ entry[flow[f].entry] \in Entry /\ flow[f].at = "checking"
    BY NoneAssumption DEF Updates, Checked, FInv, FTypeOK, FlowsMeantWell, ReauthAlone, Exists,
                          NoEntry
  <2>2. entry'[flow[f].entry].host = flow[f].host
    BY <2>1 DEF Updates, FInv, FTypeOK, Entry
  <2> QED  BY <2>1, <2>2 DEF FInv, ReauthAlone
<1> QED  BY <1>1, FlowsInvariant, PTL DEF FSpec, ReauthKeepsRest
=============================================================================
