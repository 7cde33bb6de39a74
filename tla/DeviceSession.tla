--------------------------- MODULE DeviceSession ---------------------------
(***************************************************************************)
(* The engine's view of the MIDI devices: which endpoints it lists, which  *)
(* are open, how they are linked, and the scenes and the profile file that *)
(* bring links back (crates/midi-forge-app/src/app.rs, on the WinMM        *)
(* backend and the in-process cables of crates/midi-forge-io).             *)
(*                                                                         *)
(* An endpoint id is <<kind, number>>: "in" and "out" are positions in the *)
(* operating system's lists, "cin" and "cout" the ends of a cable.  The    *)
(* engine numbers the endpoints it meets and routes by number              *)
(* (ensure_port); the numbers are never reused, so an id stands for its    *)
(* number here.  One link carries one setting for its filter and map.      *)
(*                                                                         *)
(* A rescan reopens, and a profile links, one endpoint or link at a time   *)
(* under the engine's lock: devices come and go in between, nothing else   *)
(* runs.                                                                   *)
(***************************************************************************)
EXTENDS Naturals, Sequences, FiniteSets

CONSTANTS Keyboards,    \* devices with an input
          Synths,       \* devices with an output
          Gone,         \* what a handle is on once its device was unplugged
          Settings,     \* the filters and maps a link can have
          Default,      \* the setting of a new link
          SceneNames,   \* names under which scenes are saved
          UserOps,      \* the controls that are used
          Refusing,     \* a driver may refuse to open or to enumerate
          MaxCables,    \* bound: cables added in one run of the program
          MaxChanges    \* bound: devices plugged or unplugged

ASSUME DefaultAssumption == Default \in Settings
ASSUME GoneAssumption == Gone \notin Keyboards \cup Synths
ASSUME RefusingAssumption == Refusing \in BOOLEAN
ASSUME BoundsAssumption == MaxCables \in Nat /\ MaxChanges \in Nat

VARIABLES os,           \* the operating system's lists of inputs and outputs
          changes,      \* devices plugged or unplugged so far
          cables,       \* SoftwareLoopbacks.cables
          made,         \* SoftwareLoopbacks.next_index - 1
          handles,      \* what the backend has open, and on which device
          endpoints,    \* EngineInner.endpoints: the names by id
          device_fp,    \* the listing at the last rescan
          open,         \* open_inputs and open_outputs
          port_errors,  \* the endpoints that show an error
          links,        \* the router's links and their settings
          scenes,       \* the saved scenes' links
          file,         \* the profile file, which outlives the program
          reopen,       \* the endpoints this rescan has still to open
          loading,      \* the links of the profile applied last
          todo,         \* those it has still to link
          excused       \* history: closed on purpose, missing or refused

osVars == <<os, changes>>
cableVars == <<cables, made>>
listVars == <<endpoints, device_fp>>
openVars == <<handles, open, port_errors, excused>>
loadVars == <<loading, todo>>
savedVars == <<scenes, file>>
vars == <<osVars, cableVars, listVars, openVars, links, loadVars, savedVars, reopen>>

\* A function without the keys S, and one with k set to v.
Without(f, S) == [k \in DOMAIN f \ S |-> f[k]]
Put(f, k, v) == [x \in DOMAIN f \cup {k} |-> IF x = k THEN v ELSE f[x]]
Nothing == [k \in {} |-> Gone]

Positions == {"in", "out"}
CableEnds(c) == {<<"cin", c>>, <<"cout", c>>}
IsInput(id) == id[1] \in {"in", "cin"}
Ends(pair) == {pair[1], pair[2]}

\* is_loopback_pair: the two ends of one cable.
IsLoopbackPair(pair) == pair[1][1] = "cin" /\ pair[2] = <<"cout", pair[1][2]>>

\* What is attached when the cables are cs, the name or device of an id, and
\* rebuild_endpoints.
AttachedWith(cs) == UNION {{k} \X DOMAIN os[k] : k \in Positions} \cup UNION {CableEnds(c) : c \in cs}
Attached == AttachedWith(cables)
Device(id) == IF id[1] \in Positions THEN os[id[1]][id[2]] ELSE id
ListingWith(cs) == [id \in AttachedWith(cs) |-> Device(id)]
Listing == ListingWith(cables)

Idle == reopen = {} /\ todo = {}
Willing == IF Refusing THEN BOOLEAN ELSE {TRUE}

-----------------------------------------------------------------------------
(* Opening and closing.                                                    *)

\* MidiBackend::open_input, open_output: fails for an id that is attached no
\* longer, that is open already, or when a device's driver refuses.
Opens(id, willing) ==
  id \in Attached /\ id \notin DOMAIN handles /\ (willing \/ id[1] \notin Positions)

\* set_input_open and set_output_open with open = true, for the ids got that
\* open and the ids failed that show an error for it.
Opened(got, failed) ==
  /\ open' = open \cup got
  /\ handles' = [id \in DOMAIN handles \cup got |-> IF id \in got THEN Device(id) ELSE handles[id]]
  /\ port_errors' = (port_errors \ got) \cup failed

\* ... with open = false.
Closed(ids) ==
  /\ open' = open \ ids
  /\ handles' = Without(handles, ids \cap open)

\* An endpoint's check box, and the panels and tools that open their output
\* before they send: some show the error, some only return it.
SetOpen(id) ==
  /\ Idle /\ "open" \in UserOps
  /\ id \in DOMAIN endpoints \ open
  /\ \E willing \in Willing :
       IF Opens(id, willing)
       THEN Opened({id}, {}) /\ excused' = excused \ {id}
       ELSE (\E shown \in SUBSET {id} : Opened({}, shown)) /\ UNCHANGED excused
  /\ UNCHANGED <<osVars, cableVars, listVars, links, loadVars, savedVars, reopen>>

SetClosed(id) ==
  /\ Idle /\ "close" \in UserOps
  /\ id \in DOMAIN endpoints \cap open
  /\ Closed({id})
  /\ excused' = excused \cup {id}
  /\ UNCHANGED <<osVars, cableVars, listVars, links, loadVars, savedVars, reopen, port_errors>>

\* Panic opens every listed output, and may fail to send to one whose device
\* is gone.
Panic ==
  /\ Idle /\ "panic" \in UserOps
  /\ LET shut == {id \in DOMAIN endpoints : ~ IsInput(id)} \ open
     IN \E refused \in SUBSET (IF Refusing THEN shut ELSE {}) :
          LET got == {id \in shut : Opens(id, id \notin refused)}
              dead == {id \in open : ~ IsInput(id) /\ handles[id] = Gone}
          IN /\ \E silent \in SUBSET dead : Opened(got, (shut \ got) \cup silent)
             /\ excused' = excused \ got
  /\ UNCHANGED <<osVars, cableVars, listVars, links, loadVars, savedVars, reopen>>

-----------------------------------------------------------------------------
(* Thru links, scenes and the profile.                                     *)

\* set_thru(from, to, true) and what its callers do with an error: refuse the
\* two ends of one cable; open the source, then the destination, then link.
ThruOn(pair, setting) ==
  \E w1, w2 \in Willing :
    LET source == ~ IsLoopbackPair(pair) /\ (pair[1] \in open \/ Opens(pair[1], w1))
        both == source /\ (pair[2] \in open \/ Opens(pair[2], w2))
        got == (IF both THEN Ends(pair) ELSE IF source THEN {pair[1]} ELSE {}) \ open
    IN /\ Opened(got, IF both THEN {} ELSE {pair[2]})
       /\ excused' = excused \ got
       /\ links' = IF both THEN Put(links, pair, setting) ELSE links

\* The cells of the thru matrix.
Matrix == {id \in DOMAIN endpoints : IsInput(id)} \X {id \in DOMAIN endpoints : ~ IsInput(id)}

Link(pair) ==
  /\ Idle /\ "link" \in UserOps
  /\ pair \in Matrix \ DOMAIN links
  /\ ThruOn(pair, Default)
  /\ UNCHANGED <<osVars, cableVars, listVars, loadVars, savedVars, reopen>>

Unlink(pair) ==
  /\ Idle /\ "unlink" \in UserOps
  /\ pair \in Matrix \cap DOMAIN links
  /\ links' = Without(links, {pair})
  /\ UNCHANGED <<osVars, cableVars, listVars, openVars, loadVars, savedVars, reopen>>

\* The filter and map editors.
SetSetting(pair, setting) ==
  /\ Idle /\ "edit" \in UserOps
  /\ pair \in DOMAIN links
  /\ links' = [links EXCEPT ![pair] = setting]
  /\ UNCHANGED <<osVars, cableVars, listVars, openVars, loadVars, savedVars, reopen>>

\* Bug: the router is not cleared first.
ApplyMore(matrix) ==
  /\ UNCHANGED links
  /\ loading' = matrix /\ todo' = DOMAIN matrix

\* apply_profile up to its loop over the links.
Apply(matrix) ==
  /\ links' = Nothing
  /\ loading' = matrix /\ todo' = DOMAIN matrix

\* One round of that loop.
LoadLink(pair) ==
  /\ pair \in todo
  /\ todo' = todo \ {pair}
  /\ IF Ends(pair) \subseteq DOMAIN endpoints
     THEN ThruOn(pair, loading[pair])
     ELSE UNCHANGED <<openVars, links>>
  /\ UNCHANGED <<osVars, cableVars, listVars, loading, savedVars, reopen>>

SaveScene(name) ==
  /\ Idle /\ "scene" \in UserOps
  /\ scenes' = Put(scenes, name, links)
  /\ UNCHANGED <<osVars, cableVars, listVars, openVars, links, loadVars, file, reopen>>

RecallScene(name) ==
  /\ Idle /\ "scene" \in UserOps
  /\ name \in DOMAIN scenes
  /\ Apply(scenes[name])
  /\ UNCHANGED <<osVars, cableVars, listVars, openVars, savedVars, reopen>>

SaveProfile ==
  /\ Idle /\ "file" \in UserOps
  /\ file' = {[links |-> links, scenes |-> scenes]}
  /\ UNCHANGED <<osVars, cableVars, listVars, openVars, links, loadVars, scenes, reopen>>

LoadProfile ==
  /\ Idle /\ "file" \in UserOps
  /\ \E profile \in file :
       /\ Apply(profile.links)
       /\ scenes' = IF DOMAIN profile.scenes = {} THEN scenes ELSE profile.scenes
  /\ UNCHANGED <<osVars, cableVars, listVars, openVars, file, reopen>>

-----------------------------------------------------------------------------
(* Devices and cables come and go.                                         *)

\* A device is plugged in: the lists are renumbered around it.
Plug(kind, device) ==
  /\ changes < MaxChanges /\ changes' = changes + 1
  /\ \A n \in DOMAIN os[kind] : os[kind][n] # device
  /\ \E at \in 0 .. Len(os[kind]) :
       os' = [os EXCEPT ![kind] = SubSeq(@, 1, at) \o <<device>> \o SubSeq(@, at + 1, Len(@))]
  /\ UNCHANGED <<cableVars, listVars, openVars, links, loadVars, savedVars, reopen>>

Unplug(kind, n) ==
  /\ changes < MaxChanges /\ changes' = changes + 1
  /\ os' = [os EXCEPT ![kind] = SubSeq(@, 1, n - 1) \o SubSeq(@, n + 1, Len(@))]
  /\ handles' = [id \in DOMAIN handles |-> IF handles[id] = os[kind][n] THEN Gone ELSE handles[id]]
  /\ UNCHANGED <<cableVars, listVars, open, port_errors, excused, links, loadVars, savedVars, reopen>>

\* Bug: only the inputs are opened again.
RescanInputs(listing, read) ==
  /\ Closed(open)
  /\ endpoints' = listing /\ device_fp' = listing
  /\ port_errors' = IF read THEN {} ELSE port_errors
  /\ reopen' = {id \in open \cap DOMAIN listing : IsInput(id)}
  /\ excused' = excused \cup (open \ DOMAIN listing)

\* refresh_devices up to its loops: everything is closed, the system's lists
\* are read unless that fails, and what was open and is listed is reopened.
Rescan(listing, read) ==
  /\ Closed(open)
  /\ endpoints' = listing /\ device_fp' = listing
  /\ port_errors' = IF read THEN {} ELSE port_errors
  /\ reopen' = open \cap DOMAIN listing
  /\ excused' = excused \cup (open \ DOMAIN listing)

\* One round of those loops, and of the one with which EngineInner::new opens
\* the inputs.
Reopen(id) ==
  /\ id \in reopen
  /\ reopen' = reopen \ {id}
  /\ \E willing \in Willing :
       IF Opens(id, willing)
       THEN Opened({id}, {}) /\ excused' = excused \ {id}
       ELSE Opened({}, {id}) /\ excused' = excused \cup {id}
  /\ UNCHANGED <<osVars, cableVars, listVars, links, loadVars, savedVars>>

\* The Refresh button.
RefreshDevices ==
  /\ Idle /\ "refresh" \in UserOps
  /\ \E read \in Willing : Rescan(IF read THEN Listing ELSE endpoints, read)
  /\ UNCHANGED <<osVars, cableVars, links, loadVars, savedVars>>

\* Bug: the listing is compared before it is read.
PollBefore ==
  /\ Idle
  /\ IF endpoints = device_fp
     THEN UNCHANGED <<listVars, openVars, reopen>>
     ELSE \E read \in Willing : Rescan(Listing, read)
  /\ UNCHANGED <<osVars, cableVars, links, loadVars, savedVars>>

\* Every two seconds: read the lists, and rescan when they have changed.  The
\* rescan reads them again, which may fail.
PollHotplug ==
  /\ Idle
  /\ IF Listing = device_fp
     THEN endpoints' = Listing /\ UNCHANGED <<device_fp, openVars, reopen>>
     ELSE \E read \in Willing : Rescan(Listing, read)
  /\ UNCHANGED <<osVars, cableVars, links, loadVars, savedVars>>

\* add_cable: the cable exists even when reading the lists then fails.
AddCable ==
  /\ Idle /\ "cable" \in UserOps
  /\ made < MaxCables /\ made' = made + 1
  /\ cables' = cables \cup {made'}
  /\ \E read \in Willing :
       IF read
       THEN /\ endpoints' = ListingWith(cables')
            /\ open' = open \cup CableEnds(made')
            /\ handles' = [id \in DOMAIN handles \cup CableEnds(made') |->
                             IF id \in CableEnds(made') THEN id ELSE handles[id]]
       ELSE UNCHANGED <<endpoints, open, handles>>
  /\ UNCHANGED <<osVars, device_fp, port_errors, excused, links, loadVars, savedVars, reopen>>

\* Bug: the cable is removed from under its open ends.
RemoveOpenCable(c) ==
  /\ Idle /\ "cable" \in UserOps
  /\ CableEnds(c) \subseteq DOMAIN endpoints
  /\ handles' = Without(handles, CableEnds(c))
  /\ cables' = cables \ {c}
  /\ excused' = excused \cup CableEnds(c)
  /\ \E read \in Willing : endpoints' = IF read THEN ListingWith(cables') ELSE endpoints
  /\ UNCHANGED <<osVars, made, device_fp, open, port_errors, links, loadVars, savedVars, reopen>>

\* remove_cable: its ends are closed, its links stay.
RemoveCable(c) ==
  /\ Idle /\ "cable" \in UserOps
  /\ CableEnds(c) \subseteq DOMAIN endpoints
  /\ open' = open \ CableEnds(c)
  /\ handles' = Without(handles, CableEnds(c))
  /\ cables' = cables \ {c}
  /\ excused' = excused \cup CableEnds(c)
  /\ \E read \in Willing : endpoints' = IF read THEN ListingWith(cables') ELSE endpoints
  /\ UNCHANGED <<osVars, made, device_fp, port_errors, links, loadVars, savedVars, reopen>>

-----------------------------------------------------------------------------

Lists(S) == {s \in UNION {[1 .. n -> S] : n \in 0 .. Cardinality(S)} :
               \A i, j \in DOMAIN s : s[i] = s[j] => i = j}

\* EngineInner::new: unless the lists cannot be read, the inputs in them are
\* going to be opened.
Init ==
  /\ os \in {[in |-> i, out |-> o] : i \in Lists(Keyboards), o \in Lists(Synths)} /\ changes = 0
  /\ cables = {} /\ made = 0
  /\ \E read \in Willing : endpoints = IF read THEN Listing ELSE Nothing
  /\ device_fp = endpoints
  /\ handles = Nothing /\ open = {} /\ port_errors = {} /\ excused = {}
  /\ links = Nothing /\ loading = Nothing /\ todo = {}
  /\ scenes = Nothing /\ file = {}
  /\ reopen = {id \in DOMAIN endpoints : IsInput(id)}

\* The program ends, whatever it was doing, and is started again.
Restart ==
  /\ "restart" \in UserOps
  /\ cables' = {} /\ made' = 0
  /\ \E read \in Willing : endpoints' = IF read THEN ListingWith({}) ELSE Nothing
  /\ device_fp' = endpoints'
  /\ handles' = Nothing /\ open' = {} /\ port_errors' = {} /\ excused' = {}
  /\ Apply(Nothing)
  /\ scenes' = Nothing
  /\ reopen' = {id \in DOMAIN endpoints' : IsInput(id)}
  /\ UNCHANGED <<osVars, file>>

Engine == PollHotplug \/ (\E id \in reopen : Reopen(id)) \/ (\E pair \in todo : LoadLink(pair))

World ==
  \/ \E device \in Keyboards : Plug("in", device)
  \/ \E device \in Synths : Plug("out", device)
  \/ \E kind \in Positions : \E n \in DOMAIN os[kind] : Unplug(kind, n)

User ==
  \/ \E id \in DOMAIN endpoints : SetOpen(id) \/ SetClosed(id)
  \/ \E pair \in Matrix : Link(pair) \/ Unlink(pair)
  \/ \E pair \in DOMAIN links, setting \in Settings : SetSetting(pair, setting)
  \/ \E name \in SceneNames : SaveScene(name) \/ RecallScene(name)
  \/ SaveProfile \/ LoadProfile
  \/ Panic \/ RefreshDevices \/ AddCable \/ Restart
  \/ \E c \in cables : RemoveCable(c)

Next == Engine \/ World \/ User

Spec == Init /\ [][Next]_vars

\* engine_loop takes the lock again and again, between what the user does
\* (UserOps): a rescan that can be due becomes due, and a loop goes on.
FairSpec ==
  /\ Spec
  /\ SF_vars(PollHotplug)
  /\ WF_vars(\E id \in reopen : Reopen(id))
  /\ WF_vars(\E pair \in todo : LoadLink(pair))

-----------------------------------------------------------------------------
(* Properties.                                                             *)

Ids == (Positions \X (1 .. Cardinality(Keyboards \cup Synths))) \cup ({"cin", "cout"} \X (1 .. MaxCables))
Pairs == {id \in Ids : IsInput(id)} \X {id \in Ids : ~ IsInput(id)}
Names == Keyboards \cup Synths \cup Ids

\* No type changes: the listings name known devices, handles and links are
\* between endpoints, and a rescan never runs together with a profile load.
TypeOK ==
  /\ \A k \in Positions : os[k] \in Seq(Keyboards \cup Synths)
  /\ changes \in 0 .. MaxChanges /\ made \in 0 .. MaxCables /\ cables \subseteq 1 .. made
  /\ \A f \in {endpoints, device_fp} : DOMAIN f \subseteq Ids /\ \A id \in DOMAIN f : f[id] \in Names
  /\ DOMAIN handles \subseteq Ids /\ \A id \in DOMAIN handles : handles[id] \in Names \cup {Gone}
  /\ \A ids \in {open, port_errors, excused, reopen} : ids \subseteq Ids
  /\ \A m \in {links, loading} : DOMAIN m \subseteq Pairs /\ \A p \in DOMAIN m : m[p] \in Settings
  /\ todo \subseteq DOMAIN loading
  /\ DOMAIN scenes \subseteq SceneNames /\ Cardinality(file) <= 1
  /\ reopen = {} \/ todo = {}

\* The engine and the backend always agree on what is open: after rescans that
\* fail halfway, refused drivers, removed cables and devices that vanished.  An
\* endpoint the backend holds and the engine does not know of could never be
\* opened again (AlreadyOpen), one the other way round never closed.
BackendAgrees == open = DOMAIN handles

\* A link does not go dead by itself: an end of it that is not open was closed
\* by the user, was missing at a rescan, or was refused when it was reopened.
LinksStayOpen ==
  \A pair \in DOMAIN links : \A id \in Ends(pair) : id \in open \cup reopen \cup excused

\* Recalling a scene or loading a profile leaves exactly its links, with their
\* filters and maps and with both ends open, but for links of which an end is
\* not listed or could not be opened.
LoadRestores ==
  [][todo # {} /\ loading' = loading =>
       /\ \A pair \in DOMAIN links' : pair \in DOMAIN loading /\ links'[pair] = loading[pair]
       /\ \A pair \in todo \ todo' : pair \notin DOMAIN links' =>
            \/ ~ Ends(pair) \subseteq DOMAIN endpoints
            \/ ~ Ends(pair) \subseteq open']_vars

\* The list of endpoints catches up with the devices again and again, whatever
\* the user does meanwhile.
ListCatchesUp == []<>(endpoints = Listing)
=============================================================================
