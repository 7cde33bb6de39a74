------------------------ MODULE DeviceSession_proofs ------------------------
(***************************************************************************)
(* For every set of devices, scenes and controls: the engine and the       *)
(* backend agree on what is open, links do not go dead by themselves, and  *)
(* a load restores what was saved.                                         *)
(***************************************************************************)
EXTENDS DeviceSession, TLAPS

\* Opening keeps the engine and the backend in step.
LEMMA OpenedAgrees ==
  ASSUME BackendAgrees, NEW got, NEW failed, Opened(got, failed)
  PROVE  BackendAgrees'
BY DEF BackendAgrees, Opened

\* So does closing.
LEMMA ClosedAgrees ==
  ASSUME BackendAgrees, NEW ids, Closed(ids)
  PROVE  BackendAgrees'
BY DEF BackendAgrees, Closed, Without

\* A step that leaves what is open alone keeps them in step.
LEMMA SameAgrees ==
  ASSUME BackendAgrees, open' = open, DOMAIN handles' = DOMAIN handles
  PROVE  BackendAgrees'
BY DEF BackendAgrees

\* Every step of the specification keeps them in step.
LEMMA AgreesStep ==
  ASSUME BackendAgrees, [Next]_vars
  PROVE  BackendAgrees'
<1> USE DEF openVars
<1>1. CASE PollHotplug
  <2>1. CASE UNCHANGED openVars
    BY <2>1, SameAgrees
  <2>2. CASE \E read \in Willing : Rescan(Listing, read)
    BY <2>2, ClosedAgrees DEF Rescan
  <2> QED
    BY <1>1, <2>1, <2>2 DEF PollHotplug
<1>2. ASSUME NEW id \in reopen, Reopen(id)
      PROVE  BackendAgrees'
  BY <1>2, OpenedAgrees DEF Reopen
<1>3. ASSUME NEW pair \in todo, LoadLink(pair)
      PROVE  BackendAgrees'
  BY <1>3, OpenedAgrees, SameAgrees DEF LoadLink, ThruOn
<1>4. ASSUME NEW kind, NEW device, Plug(kind, device)
      PROVE  BackendAgrees'
  BY <1>4, SameAgrees DEF Plug
<1>5. ASSUME NEW kind, NEW n, Unplug(kind, n)
      PROVE  BackendAgrees'
  BY <1>5, SameAgrees DEF Unplug
<1>6. ASSUME NEW id, SetOpen(id) \/ SetClosed(id)
      PROVE  BackendAgrees'
  BY <1>6, OpenedAgrees, ClosedAgrees DEF SetOpen, SetClosed
<1>7. ASSUME NEW pair, Link(pair) \/ Unlink(pair)
      PROVE  BackendAgrees'
  BY <1>7, OpenedAgrees, SameAgrees DEF Link, Unlink, ThruOn
<1>8. ASSUME NEW pair, NEW setting, SetSetting(pair, setting)
      PROVE  BackendAgrees'
  BY <1>8, SameAgrees DEF SetSetting
<1>9. ASSUME NEW name, SaveScene(name) \/ RecallScene(name)
      PROVE  BackendAgrees'
  BY <1>9, SameAgrees DEF SaveScene, RecallScene
<1>10. CASE SaveProfile \/ LoadProfile
  BY <1>10, SameAgrees DEF SaveProfile, LoadProfile
<1>11. CASE Panic
  BY <1>11, OpenedAgrees DEF Panic
<1>12. CASE RefreshDevices
  BY <1>12, ClosedAgrees DEF RefreshDevices, Rescan
<1>13. CASE AddCable
  BY <1>13 DEF AddCable, BackendAgrees
<1>14. ASSUME NEW c, RemoveCable(c)
      PROVE  BackendAgrees'
  BY <1>14 DEF RemoveCable, BackendAgrees, Without
<1>15. CASE Restart
  BY <1>15 DEF Restart, BackendAgrees, Nothing
<1>16. CASE UNCHANGED vars
  BY <1>16, SameAgrees DEF vars
<1> QED
  BY <1>1, <1>2, <1>3, <1>4, <1>5, <1>6, <1>7, <1>8, <1>9, <1>10, <1>11, <1>12,
     <1>13, <1>14, <1>15, <1>16 DEF Next, Engine, World, User

\* At every moment, in a rescan or a load as well as between them, the engine's
\* open endpoints are exactly the backend's.
THEOREM EngineAndBackendAgree == Spec => []BackendAgrees
<1>1. Init => BackendAgrees
  BY DEF Init, BackendAgrees, Nothing
<1>2. BackendAgrees /\ [Next]_vars => BackendAgrees'
  BY AgreesStep
<1> QED
  BY <1>1, <1>2, PTL DEF Spec

-----------------------------------------------------------------------------

\* A step that keeps the links, and every end that was accounted for, keeps
\* the links accounted for.
LEMMA SameLinksStay ==
  ASSUME LinksStayOpen, DOMAIN links' \subseteq DOMAIN links,
         open \cup reopen \cup excused \subseteq (open \cup reopen \cup excused)'
  PROVE  LinksStayOpen'
BY DEF LinksStayOpen, Ends

\* set_thru links what it has opened.
LEMMA ThruOnStays ==
  ASSUME LinksStayOpen, NEW pair, NEW setting, ThruOn(pair, setting), reopen' = reopen
  PROVE  LinksStayOpen'
<1>1. PICK w1 \in Willing, w2 \in Willing :
        LET source == ~ IsLoopbackPair(pair) /\ (pair[1] \in open \/ Opens(pair[1], w1))
            both == source /\ (pair[2] \in open \/ Opens(pair[2], w2))
            got == (IF both THEN Ends(pair) ELSE IF source THEN {pair[1]} ELSE {}) \ open
        IN /\ open' = open \cup got
           /\ excused' = excused \ got
           /\ links' = IF both THEN Put(links, pair, setting) ELSE links
  BY DEF ThruOn, Opened
<1> DEFINE source == ~ IsLoopbackPair(pair) /\ (pair[1] \in open \/ Opens(pair[1], w1))
           both == source /\ (pair[2] \in open \/ Opens(pair[2], w2))
<1>2. open \cup reopen \cup excused \subseteq (open \cup reopen \cup excused)'
  BY <1>1
<1>3. CASE both
  <2>1. Ends(pair) \subseteq open'
    BY <1>1, <1>3
  <2>2. DOMAIN links' = DOMAIN links \cup {pair}
    BY <1>1, <1>3 DEF Put
  <2> QED
    BY <1>2, <2>1, <2>2 DEF LinksStayOpen, Ends
<1>4. CASE ~ both
  <2>1. links' = links
    BY <1>1, <1>4
  <2> QED
    BY <1>2, <2>1, SameLinksStay
<1> QED
  BY <1>3, <1>4

\* A rescan accounts for all that it closes.
LEMMA RescanStays ==
  ASSUME LinksStayOpen, Idle, NEW listing, NEW read, Rescan(listing, read), links' = links
  PROVE  LinksStayOpen'
<1>1. open \cup reopen \cup excused \subseteq (open \cup reopen \cup excused)'
  BY DEF Idle, Rescan, Closed
<1> QED
  BY <1>1, SameLinksStay

\* Every step keeps the links accounted for.
LEMMA StaysStep ==
  ASSUME LinksStayOpen, [Next]_vars
  PROVE  LinksStayOpen'
<1> USE DEF openVars
<1>1. CASE PollHotplug
  <2>1. CASE UNCHANGED <<openVars, reopen>>
    BY <1>1, <2>1, SameLinksStay DEF PollHotplug
  <2>2. CASE \E read \in Willing : Rescan(Listing, read)
    BY <1>1, <2>2, RescanStays DEF PollHotplug
  <2> QED
    BY <1>1, <2>1, <2>2 DEF PollHotplug
<1>2. ASSUME NEW id \in reopen, Reopen(id)
      PROVE  LinksStayOpen'
  <2>1. open \cup reopen \cup excused \subseteq (open \cup reopen \cup excused)'
    BY <1>2 DEF Reopen, Opened
  <2> QED
    BY <1>2, <2>1, SameLinksStay DEF Reopen
<1>3. ASSUME NEW pair \in todo, LoadLink(pair)
      PROVE  LinksStayOpen'
  BY <1>3, ThruOnStays, SameLinksStay DEF LoadLink
<1>4. ASSUME NEW kind, NEW device, Plug(kind, device)
      PROVE  LinksStayOpen'
  BY <1>4, SameLinksStay DEF Plug
<1>5. ASSUME NEW kind, NEW n, Unplug(kind, n)
      PROVE  LinksStayOpen'
  BY <1>5, SameLinksStay DEF Unplug
<1>6. ASSUME NEW id, SetOpen(id)
      PROVE  LinksStayOpen'
  BY <1>6, SameLinksStay DEF SetOpen, Opened
<1>7. ASSUME NEW id, SetClosed(id)
      PROVE  LinksStayOpen'
  BY <1>7, SameLinksStay DEF SetClosed, Closed
<1>8. ASSUME NEW pair, Link(pair)
      PROVE  LinksStayOpen'
  BY <1>8, ThruOnStays DEF Link
<1>9. ASSUME NEW pair, Unlink(pair)
      PROVE  LinksStayOpen'
  BY <1>9, SameLinksStay DEF Unlink, Without
<1>10. ASSUME NEW pair, NEW setting, SetSetting(pair, setting)
      PROVE  LinksStayOpen'
  BY <1>10, SameLinksStay DEF SetSetting
<1>11. ASSUME NEW name, SaveScene(name)
      PROVE  LinksStayOpen'
  BY <1>11, SameLinksStay DEF SaveScene
<1>12. CASE SaveProfile
  BY <1>12, SameLinksStay DEF SaveProfile
<1>13. CASE links' = Nothing
  BY <1>13 DEF Nothing, LinksStayOpen
<1>14. CASE Panic
  <2>1. open \cup reopen \cup excused \subseteq (open \cup reopen \cup excused)'
    BY <1>14 DEF Panic, Opened
  <2> QED
    BY <1>14, <2>1, SameLinksStay DEF Panic
<1>15. CASE RefreshDevices
  BY <1>15, RescanStays DEF RefreshDevices
<1>16. CASE AddCable
  <2>1. open \cup reopen \cup excused \subseteq (open \cup reopen \cup excused)'
    BY <1>16 DEF AddCable
  <2> QED
    BY <1>16, <2>1, SameLinksStay DEF AddCable
<1>17. ASSUME NEW c, RemoveCable(c)
      PROVE  LinksStayOpen'
  BY <1>17, SameLinksStay DEF RemoveCable
<1>18. CASE UNCHANGED vars
  BY <1>18, SameLinksStay DEF vars
<1>19. CASE LoadProfile \/ Restart \/ \E name \in SceneNames : RecallScene(name)
  BY <1>13, <1>19 DEF LoadProfile, Restart, RecallScene, Apply
<1> QED
  BY <1>1, <1>2, <1>3, <1>4, <1>5, <1>6, <1>7, <1>8, <1>9, <1>10, <1>11, <1>12,
     <1>14, <1>15, <1>16, <1>17, <1>18, <1>19 DEF Next, Engine, World, User

\* An end of a link that is not open was closed by the user, was missing at a
\* rescan, or was refused when it was reopened.
THEOREM NoLinkDiesByItself == Spec => []LinksStayOpen
<1>1. Init => LinksStayOpen
  BY DEF Init, LinksStayOpen, Nothing
<1>2. LinksStayOpen /\ [Next]_vars => LinksStayOpen'
  BY StaysStep
<1> QED
  BY <1>1, <1>2, PTL DEF Spec

-----------------------------------------------------------------------------

\* Links go from an input to an output, but not between the two ends of one
\* cable.
Forward(pair) == IsInput(pair[1]) /\ ~ IsInput(pair[2])
Apart(matrix) == \A pair \in DOMAIN matrix : Forward(pair) /\ ~ IsLoopbackPair(pair)

\* ... among the links, in the profile being applied, in a scene or in the file.
AllApart ==
  /\ Apart(links) /\ Apart(loading)
  /\ \A name \in DOMAIN scenes : Apart(scenes[name])
  /\ \A profile \in file :
       Apart(profile.links) /\ \A name \in DOMAIN profile.scenes : Apart(profile.scenes[name])

\* What LoadRestores needs of the states between the rounds of a load: the
\* links still to come are among the profile's, and so are, with their
\* settings, the links that have come back.
Loading ==
  /\ todo \subseteq DOMAIN loading
  /\ todo # {} => \A pair \in DOMAIN links : pair \in DOMAIN loading /\ links[pair] = loading[pair]

\* The inductive invariant.
LoadInv == AllApart /\ Loading

\* set_thru adds the link it is asked for, if any, and never one between the
\* two ends of one cable; it fails only if an end is not open afterwards.
LEMMA ThruOnLinks ==
  ASSUME NEW pair, NEW setting, ThruOn(pair, setting), Forward(pair)
  PROVE  \/ links' = links /\ (IsLoopbackPair(pair) \/ ~ Ends(pair) \subseteq open')
         \/ links' = Put(links, pair, setting) /\ ~ IsLoopbackPair(pair)
<1>1. PICK w1 \in Willing, w2 \in Willing :
        LET source == ~ IsLoopbackPair(pair) /\ (pair[1] \in open \/ Opens(pair[1], w1))
            both == source /\ (pair[2] \in open \/ Opens(pair[2], w2))
            got == (IF both THEN Ends(pair) ELSE IF source THEN {pair[1]} ELSE {}) \ open
        IN /\ open' = open \cup got
           /\ links' = IF both THEN Put(links, pair, setting) ELSE links
  BY DEF ThruOn, Opened
<1> DEFINE source == ~ IsLoopbackPair(pair) /\ (pair[1] \in open \/ Opens(pair[1], w1))
           both == source /\ (pair[2] \in open \/ Opens(pair[2], w2))
<1>2. CASE both
  BY <1>1, <1>2
<1>3. CASE source /\ ~ both
  <2>1. open' = open \cup ({pair[1]} \ open) /\ links' = links
    BY <1>1, <1>3
  <2>2. pair[2] # pair[1]
    BY DEF Forward
  <2>3. pair[2] \notin open'
    BY <1>3, <2>1, <2>2
  <2> QED
    BY <2>1, <2>3 DEF Ends
<1>4. CASE ~ source
  <2>1. open' = open /\ links' = links
    BY <1>1, <1>4
  <2> QED
    BY <1>4, <2>1 DEF Ends
<1> QED
  BY <1>2, <1>3, <1>4

\* One more link, not between the ends of one cable, keeps the links apart.
LEMMA PutApart ==
  ASSUME NEW matrix, Apart(matrix), NEW pair, Forward(pair), ~ IsLoopbackPair(pair), NEW setting
  PROVE  Apart(Put(matrix, pair, setting))
BY DEF Apart, Put

\* A round of a load leaves links of the profile behind, and the one it was for
\* unless an end of it is not listed or not open.
LEMMA RoundRestores ==
  ASSUME LoadInv, NEW pair \in todo, LoadLink(pair)
  PROVE  /\ \A p \in DOMAIN links' : p \in DOMAIN loading /\ links'[p] = loading[p]
         /\ pair \in DOMAIN links' \/ ~ Ends(pair) \subseteq DOMAIN endpoints
                                   \/ ~ Ends(pair) \subseteq open'
         /\ Apart(links')
<1>1. \A p \in DOMAIN links : p \in DOMAIN loading /\ links[p] = loading[p]
  BY DEF LoadInv, Loading
<1>2. pair \in DOMAIN loading /\ Forward(pair) /\ ~ IsLoopbackPair(pair) /\ Apart(links)
  BY DEF LoadInv, Loading, AllApart, Apart
<1>3. CASE ~ Ends(pair) \subseteq DOMAIN endpoints
  BY <1>1, <1>2, <1>3 DEF LoadLink
<1>4. CASE Ends(pair) \subseteq DOMAIN endpoints
  <2>1. ThruOn(pair, loading[pair])
    BY <1>4 DEF LoadLink
  <2>2. CASE links' = links /\ ~ Ends(pair) \subseteq open'
    BY <1>1, <1>2, <2>2
  <2>3. CASE links' = Put(links, pair, loading[pair])
    <3>1. Apart(links')
      BY <1>2, <2>3, PutApart
    <3> QED
      BY <1>1, <1>2, <2>3, <3>1 DEF Put
  <2> QED
    BY <1>2, <2>1, <2>2, <2>3, ThruOnLinks
<1> QED
  BY <1>3, <1>4

\* A step that leaves links, profiles and scenes alone.
LEMMA SameLoad ==
  ASSUME LoadInv, UNCHANGED <<links, loadVars, savedVars>>
  PROVE  LoadInv'
BY DEF LoadInv, AllApart, Loading, Apart, loadVars, savedVars

\* A step of the user between loads that changes one thing.
LEMMA NewMatrix ==
  ASSUME LoadInv, Idle, Apart(links'), UNCHANGED <<loadVars, savedVars>>
  PROVE  LoadInv'
BY DEF LoadInv, AllApart, Loading, Apart, Idle, loadVars, savedVars

\* Every step keeps the invariant.
LEMMA LoadStep ==
  ASSUME LoadInv, [Next]_vars
  PROVE  LoadInv'
<1>1. CASE PollHotplug
  BY <1>1, SameLoad DEF PollHotplug
<1>2. ASSUME NEW id \in reopen, Reopen(id)
      PROVE  LoadInv'
  BY <1>2, SameLoad DEF Reopen
<1>3. ASSUME NEW pair \in todo, LoadLink(pair)
      PROVE  LoadInv'
  <2>1. todo' \subseteq todo /\ UNCHANGED <<loading, savedVars>>
    BY <1>3 DEF LoadLink
  <2>2. AllApart'
    BY <1>3, <2>1, RoundRestores DEF LoadInv, AllApart, Apart, savedVars
  <2>3. Loading'
    BY <1>3, <2>1, RoundRestores DEF LoadInv, Loading
  <2> QED
    BY <2>2, <2>3 DEF LoadInv
<1>4. ASSUME NEW kind, NEW device, Plug(kind, device)
      PROVE  LoadInv'
  BY <1>4, SameLoad DEF Plug
<1>5. ASSUME NEW kind, NEW n, Unplug(kind, n)
      PROVE  LoadInv'
  BY <1>5, SameLoad DEF Unplug
<1>6. ASSUME NEW id, SetOpen(id) \/ SetClosed(id)
      PROVE  LoadInv'
  BY <1>6, SameLoad DEF SetOpen, SetClosed
<1>7. ASSUME NEW pair \in Matrix, Link(pair)
      PROVE  LoadInv'
  <2>1. Apart(links) /\ Forward(pair) /\ ThruOn(pair, Default)
    BY <1>7 DEF LoadInv, AllApart, Forward, Matrix, Link
  <2>2. Apart(links')
    BY <2>1, ThruOnLinks, PutApart
  <2> QED
    BY <1>7, <2>2, NewMatrix DEF Link
<1>8. ASSUME NEW pair, Unlink(pair)
      PROVE  LoadInv'
  <2>1. Apart(links')
    BY <1>8 DEF LoadInv, AllApart, Apart, Unlink, Without
  <2> QED
    BY <1>8, <2>1, NewMatrix DEF Unlink
<1>9. ASSUME NEW pair, NEW setting, SetSetting(pair, setting)
      PROVE  LoadInv'
  <2>1. Apart(links')
    BY <1>9 DEF LoadInv, AllApart, Apart, SetSetting
  <2> QED
    BY <1>9, <2>1, NewMatrix DEF SetSetting
<1>10. ASSUME NEW name, SaveScene(name)
      PROVE  LoadInv'
  BY <1>10 DEF LoadInv, AllApart, Loading, SaveScene, Put, loadVars
<1>11. ASSUME NEW name, RecallScene(name)
      PROVE  LoadInv'
  BY <1>11 DEF LoadInv, AllApart, Loading, Apart, RecallScene, Apply, Nothing, savedVars
<1>12. CASE SaveProfile
  BY <1>12 DEF LoadInv, AllApart, Loading, SaveProfile, loadVars
<1>13. CASE LoadProfile
  BY <1>13 DEF LoadInv, AllApart, Loading, Apart, LoadProfile, Apply, Nothing
<1>14. CASE Panic \/ RefreshDevices \/ AddCable \/ \E c \in cables : RemoveCable(c)
  BY <1>14, SameLoad DEF Panic, RefreshDevices, AddCable, RemoveCable
<1>15. CASE Restart
  BY <1>15 DEF LoadInv, AllApart, Loading, Apart, Restart, Apply, Nothing
<1>16. CASE UNCHANGED vars
  BY <1>16, SameLoad DEF vars
<1> QED
  BY <1>1, <1>2, <1>3, <1>4, <1>5, <1>6, <1>7, <1>8, <1>9, <1>10, <1>11, <1>12,
     <1>13, <1>14, <1>15, <1>16 DEF Next, Engine, World, User

\* Recalling a scene or loading a profile leaves exactly its links, with their
\* filters and maps, but for those of which an end is not listed or not open.
THEOREM LoadsRestore == Spec => LoadRestores
<1> DEFINE Restores ==
      todo # {} /\ loading' = loading =>
        /\ \A pair \in DOMAIN links' : pair \in DOMAIN loading /\ links'[pair] = loading[pair]
        /\ \A pair \in todo \ todo' : pair \notin DOMAIN links' =>
             \/ ~ Ends(pair) \subseteq DOMAIN endpoints
             \/ ~ Ends(pair) \subseteq open'
<1>1. Init => LoadInv
  BY DEF Init, LoadInv, AllApart, Loading, Apart, Nothing
<1>2. LoadInv /\ [Next]_vars => LoadInv'
  BY LoadStep
<1>3. LoadInv /\ [Next]_vars => [Restores]_vars
  <2> SUFFICES ASSUME LoadInv, Next, todo # {}, loading' = loading
               PROVE  Restores
    OBVIOUS
  <2>1. CASE \E pair \in todo : LoadLink(pair)
    <3>1. PICK pair \in todo : LoadLink(pair)
      BY <2>1
    <3>2. todo \ todo' \subseteq {pair}
      BY <3>1 DEF LoadLink
    <3> QED
      BY <3>1, <3>2, RoundRestores
  <2>2. CASE Restart
    <3>1. DOMAIN loading = {}
      BY <2>2 DEF Restart, Apply, Nothing
    <3> QED
      BY <3>1 DEF LoadInv, Loading
  <2>3. CASE links' = links /\ todo' = todo
    BY <2>3 DEF LoadInv, Loading
  <2>4. (links' = links /\ todo' = todo) \/ Restart \/ \E pair \in todo : LoadLink(pair)
    <3>1. ~ Idle
      BY DEF Idle
    <3>2. CASE \E id \in reopen : Reopen(id)
      BY <3>2 DEF Reopen, loadVars
    <3>3. CASE World
      BY <3>3 DEF World, Plug, Unplug, loadVars
    <3>4. CASE User
      BY <3>1, <3>4 DEF User, SetOpen, SetClosed, Link, Unlink, SetSetting, SaveScene, RecallScene,
        SaveProfile, LoadProfile, Panic, RefreshDevices, AddCable, RemoveCable
    <3> QED
      BY <3>1, <3>2, <3>3, <3>4 DEF Next, Engine, PollHotplug
  <2> QED
    BY <2>1, <2>2, <2>3, <2>4
<1> QED
  BY <1>1, <1>2, <1>3, PTL DEF Spec, LoadRestores
=============================================================================
