----------------------------- MODULE AppsProofs ------------------------------
(***************************************************************************)
(* Proofs about the applications in the sites, part by part of the sites   *)
(* run, each with an inductive invariant of its own: the choice of plugins *)
(* for new sites, the automation, the sign-in helper, the Instatic         *)
(* instances, the connections to MainWP and the deployments from Git.      *)
(***************************************************************************)
EXTENDS MCSites, Integers, Sequences, TLAPS

-----------------------------------------------------------------------------
(* Choice of plugins. WordPress comes to a site once CloudPanel has        *)
(* logged it, and the last line of the log is then its creator's.          *)
PlaceIsLogged ==
  /\ place.wp => place.logged
  /\ place.logged => place.id # 0 /\ Len(events) > 0 /\ events[Len(events)] = place.by
  /\ place.id # 0 /\ ~place.logged => Len(events) < made

(* A plugin is an upload whose parts have all come.                        *)
PluginsWhole == \A u \in Uploads : uploads[u].plugin => uploads[u].parts = 2

(* Choices that count share no upload, but for one taken from an installer.*)
ChoicesAreDisjoint == \A j, k \in Choose!Choices :
  Choose!Counts(j) /\ Choose!Counts(k) /\ j # k => choices[j].ups \cap choices[k].ups \subseteq givenBack

(* The uploads of a choice that counts are plugins, and claimed.           *)
TheirUploads == \A j \in Choose!Choices :
  Choose!Counts(j) => \A u \in choices[j].ups \ givenBack : uploads[u].plugin /\ uploads[u].claimed

(* Of the choices of one user, one waits.                                  *)
OneWaits == \A j, k \in Choose!Choices :
      /\ j # k /\ Choose!Counts(j) /\ Choose!Counts(k)
      /\ choices[j].phase = "wait" /\ choices[k].phase = "wait"
   => choices[j].by # choices[k].by

(* A choice that installs was not replaced before it began.                *)
InstallersCount == \A j \in Choose!Choices :
  choices[j].phase = "installing" => ~choices[j].superseded

(* Whoever chooses has made the user's last choice give way, and has       *)
(* uploads of its own.                                                     *)
ChooserAlone ==
  /\ chooser.at # "idle" => \A j \in Choose!Choices :
       Choose!Counts(j) /\ choices[j].phase = "wait" => choices[j].by # chooser.by
  /\ chooser.at = "start" => /\ \A u \in chooser.ups \ givenBack : uploads[u].plugin /\ uploads[u].claimed
                             /\ \A j \in Choose!Choices : Choose!Counts(j)
                                    => choices[j].ups \cap chooser.ups \subseteq givenBack

(* The inductive invariant of the choice of plugins.                       *)
ChooseInv ==
  /\ Choose!TypeOK /\ Choose!IntoOwnSite /\ PlaceIsLogged /\ PluginsWhole /\ ChoicesAreDisjoint
  /\ TheirUploads /\ OneWaits /\ InstallersCount /\ ChooserAlone

(* No site, no upload and no choice at first.                              *)
LEMMA ChooseStarts == Choose!ConstantsOK /\ Choose!Init => ChooseInv
<1> SUFFICES ASSUME Choose!ConstantsOK, Choose!Init PROVE ChooseInv
  OBVIOUS
<1>1. place \in Choose!Places /\ made \in 0..MaxMade
  BY DEF Choose!Init, Choose!NoPlace, Choose!Places, Choose!Users, Choose!ConstantsOK
<1>2. events \in Seq(Choose!Users) /\ Len(events) <= made
  BY DEF Choose!Init
<1>3. uploads \in [Uploads -> Choose!Staged]
  BY DEF Choose!Init, Choose!NoUpload, Choose!Staged
<1>4. choices \in [Choose!Choices -> Choose!ChoiceRecords]
  BY DEF Choose!Init, Choose!NoChoice, Choose!ChoiceRecords, Choose!Users, Choose!ConstantsOK
<1>5. chooser \in Choose!Choosers
  BY DEF Choose!Init, Choose!NotChoosing, Choose!Choosers, Choose!Users
<1>6. \A j \in Choose!Choices : ~Choose!Counts(j) /\ choices[j].phase = "wait"
  BY DEF Choose!Init, Choose!Counts, Choose!Active, Choose!NoChoice
<1>7. PlaceIsLogged /\ PluginsWhole /\ Choose!IntoOwnSite /\ chooser.at = "idle" /\ givenBack = {}
  BY DEF Choose!Init, PlaceIsLogged, PluginsWhole, Choose!NoPlace, Choose!NoUpload,
     Choose!IntoOwnSite, Choose!NotChoosing
<1>8. QED
  BY <1>1, <1>2, <1>3, <1>4, <1>5, <1>6, <1>7 DEF ChooseInv, Choose!TypeOK,
     ChoicesAreDisjoint, TheirUploads, OneWaits, InstallersCount, ChooserAlone

(* CloudPanel creates a site, logs it, installs WordPress, or deletes it.  *)
LEMMA PlacesGoOn ==
  ASSUME Choose!ConstantsOK, ChooseInv,
         Choose!CreatePlace \/ Choose!LogPlace \/ Choose!WordPressComes \/ Choose!DeletePlace
  PROVE  ChooseInv'
<1>1. UNCHANGED <<uploads, choices, chooser, givenBack, took>>
  BY DEF Choose!CreatePlace, Choose!LogPlace, Choose!WordPressComes, Choose!DeletePlace,
     Choose!Elsewhere
<1>2. /\ place \in Choose!Places /\ made \in 0..MaxMade /\ events \in Seq(Choose!Users)
      /\ Len(events) <= made /\ MaxMade \in Nat
      /\ Len(events) \in Nat
  BY DEF ChooseInv, Choose!TypeOK, Choose!ConstantsOK
<1>3. /\ place' \in Choose!Places /\ made' \in 0..MaxMade /\ events' \in Seq(Choose!Users)
      /\ Len(events') <= made'
      /\ PlaceIsLogged'
  <2>1. CASE Choose!CreatePlace
    <3>1. PICK by \in Choose!Users : place' = [Choose!NoPlace EXCEPT !.id = made + 1, !.by = by]
      BY <2>1 DEF Choose!CreatePlace
    <3>0. made' = made + 1 /\ made < MaxMade /\ events' = events
      BY <2>1 DEF Choose!CreatePlace
    <3>2. made' = made + 1 /\ made' \in 0..MaxMade /\ events' = events
      BY <1>2, <3>0
    <3>3. place' = [id |-> made', by |-> by, logged |-> FALSE, wp |-> FALSE]
      BY <3>1, <3>2 DEF Choose!NoPlace
    <3>4. place' \in Choose!Places /\ ~place'.wp /\ ~place'.logged
      BY <3>2, <3>3 DEF Choose!Places
    <3>5. Len(events') < made' /\ Len(events') <= made'
      BY <1>2, <3>2
    <3>6. QED
      BY <1>2, <3>2, <3>4, <3>5 DEF PlaceIsLogged
  <2>2. CASE Choose!LogPlace
    <3>1. /\ events' = Append(events, place.by) /\ place.by \in Choose!Users /\ made' = made
          /\ place.id # 0 /\ ~place.logged
          /\ place' = [place EXCEPT !.logged = TRUE]
      BY <1>2, <2>2 DEF Choose!LogPlace, Choose!Places
    <3>2. place' \in Choose!Places /\ place'.by = place.by /\ place'.id = place.id /\ place'.logged
      BY <1>2, <3>1 DEF Choose!Places
    <3>3. /\ events' \in Seq(Choose!Users) /\ Len(events') = Len(events) + 1
          /\ events'[Len(events')] = place.by
      BY <1>2, <3>1
    <3>4. Len(events) < made
      BY <3>1 DEF ChooseInv, PlaceIsLogged
    <3>5. QED
      BY <1>2, <3>1, <3>2, <3>3, <3>4 DEF PlaceIsLogged
  <2>3. CASE Choose!WordPressComes
    BY <1>2, <2>3 DEF Choose!WordPressComes, Choose!Places, ChooseInv, PlaceIsLogged
  <2>4. CASE Choose!DeletePlace
    <3>1. /\ Choose!NoPlace \in Choose!Places /\ ~Choose!NoPlace.wp /\ ~Choose!NoPlace.logged
          /\ Choose!NoPlace.id = 0
      BY <1>2 DEF Choose!NoPlace, Choose!Places, Choose!Users
    <3>2. QED
      BY <1>2, <2>4, <3>1 DEF Choose!DeletePlace, PlaceIsLogged
  <2>5. QED
    BY <2>1, <2>2, <2>3, <2>4
<1>4. Choose!TypeOK'
  BY <1>1, <1>3 DEF ChooseInv, Choose!TypeOK
<1>5. QED
  BY <1>1, <1>3, <1>4 DEF ChooseInv, Choose!IntoOwnSite, PluginsWhole, ChoicesAreDisjoint,
     TheirUploads, OneWaits, InstallersCount, ChooserAlone, Choose!Counts, Choose!Active

(* What an upload becomes is one.                                          *)
LEMMA StagedIs ==
  ASSUME Choose!TypeOK, NEW us \in SUBSET Uploads, NEW yes \in BOOLEAN
  PROVE  /\ Choose!Without(us) \in [Uploads -> Choose!Staged]
         /\ Choose!Claim(us, yes) \in [Uploads -> Choose!Staged]
         /\ \A u \in Uploads : /\ Choose!Without(us)[u].plugin
                                      => /\ uploads[u].plugin
                                         /\ Choose!Without(us)[u].parts = uploads[u].parts
                               /\ Choose!Claim(us, yes)[u].plugin = uploads[u].plugin
                               /\ Choose!Claim(us, yes)[u].parts = uploads[u].parts
                               /\ u \notin us
                                      => /\ Choose!Without(us)[u] = uploads[u]
                                         /\ Choose!Claim(us, yes)[u] = uploads[u]
                               /\ u \in us /\ uploads[u].parts > 0
                                      => Choose!Claim(us, yes)[u].claimed = yes
<1>1. \A u \in Uploads : uploads[u] \in Choose!Staged
  BY DEF Choose!TypeOK
<1>2. \A u \in Uploads : [uploads[u] EXCEPT !.claimed = yes] \in Choose!Staged
  BY <1>1 DEF Choose!Staged
<1>3. Choose!NoUpload \in Choose!Staged /\ ~Choose!NoUpload.plugin
  BY DEF Choose!NoUpload, Choose!Staged
<1>4. /\ Choose!Without(us) \in [Uploads -> Choose!Staged]
      /\ Choose!Claim(us, yes) \in [Uploads -> Choose!Staged]
  BY <1>1, <1>2, <1>3 DEF Choose!Without, Choose!Claim
<1>5. ASSUME NEW u \in Uploads
      PROVE  /\ Choose!Without(us)[u].plugin
                    => uploads[u].plugin /\ Choose!Without(us)[u].parts = uploads[u].parts
             /\ Choose!Claim(us, yes)[u].plugin = uploads[u].plugin
             /\ Choose!Claim(us, yes)[u].parts = uploads[u].parts
             /\ u \notin us
                    => Choose!Without(us)[u] = uploads[u] /\ Choose!Claim(us, yes)[u] = uploads[u]
             /\ u \in us /\ uploads[u].parts > 0 => Choose!Claim(us, yes)[u].claimed = yes
  BY <1>1, <1>3 DEF Choose!Without, Choose!Claim, Choose!Staged
<1>6. QED
  BY <1>4, <1>5

(* Uploads stay as they are, and fewer choices count, with the same users  *)
(* and uploads.                                                            *)
LEMMA FewerCount ==
  ASSUME ChooseInv, UNCHANGED Choose!panelOfChoice, took' = {},
         uploads' \in [Uploads -> Choose!Staged],
         choices' \in [Choose!Choices -> Choose!ChoiceRecords], chooser' \in Choose!Choosers,
         PluginsWhole', InstallersCount', ChooserAlone',
         givenBack \subseteq givenBack', givenBack' \subseteq Uploads,
         \A j \in Choose!Choices : Choose!Counts(j)' =>
           /\ Choose!Counts(j) /\ choices'[j].by = choices[j].by
           /\ choices'[j].ups = choices[j].ups
           /\ choices'[j].phase = "wait" => choices[j].phase = "wait"
           /\ \A u \in choices[j].ups \ givenBack' : uploads'[u] = uploads[u]
  PROVE  ChooseInv'
<1>1. Choose!TypeOK'
  BY DEF ChooseInv, Choose!TypeOK, Choose!panelOfChoice
<1>2. PlaceIsLogged' /\ Choose!IntoOwnSite'
  BY DEF ChooseInv, PlaceIsLogged, Choose!panelOfChoice, Choose!IntoOwnSite
<1>3. ChoicesAreDisjoint'
  BY DEF ChooseInv, ChoicesAreDisjoint
<1>4. TheirUploads'
  BY DEF ChooseInv, TheirUploads
<1>5. OneWaits'
  BY DEF ChooseInv, OneWaits
<1>6. QED
  BY <1>1, <1>2, <1>3, <1>4, <1>5 DEF ChooseInv

(* One upload nobody has claimed changes.                                  *)
LEMMA UploadChanges ==
  ASSUME ChooseInv, NEW u \in Uploads, NEW new \in Choose!Staged, Choose!Upload(u, new),
         new.plugin => new.parts = 2,
         \A j \in Choose!Choices : Choose!Counts(j) => u \notin choices[j].ups \ givenBack,
         chooser.at = "start" => u \notin chooser.ups \ givenBack
  PROVE  ChooseInv'
<1>1. /\ uploads' = [uploads EXCEPT ![u] = new]
      /\ UNCHANGED <<place, made, events, choices, chooser, givenBack, took>>
      /\ uploads \in [Uploads -> Choose!Staged]
  BY DEF Choose!Upload, ChooseInv, Choose!TypeOK, Choose!panelOfChoice
<1>2. /\ uploads' \in [Uploads -> Choose!Staged]
      /\ \A v \in Uploads : uploads'[v] = IF v = u THEN new ELSE uploads[v]
  BY <1>1
<1>3. PluginsWhole'
  BY <1>2 DEF ChooseInv, PluginsWhole
<1>4. \A j \in Choose!Choices : choices[j].ups \subseteq Uploads
  BY DEF ChooseInv, Choose!TypeOK, Choose!ChoiceRecords
<1>5. chooser.ups \subseteq Uploads
  BY DEF ChooseInv, Choose!TypeOK, Choose!Choosers
<1>6. InstallersCount'
  BY <1>1 DEF ChooseInv, InstallersCount
<1>7. ChooserAlone'
  BY <1>1, <1>2, <1>5 DEF ChooseInv, ChooserAlone, Choose!Counts, Choose!Active
<1>8. \A j \in Choose!Choices : Choose!Counts(j)' = Choose!Counts(j)
  BY <1>1 DEF Choose!Counts, Choose!Active
<1>9. Choose!TypeOK'
  BY <1>1, <1>2 DEF ChooseInv, Choose!TypeOK
<1>10. TheirUploads'
  BY <1>1, <1>2, <1>4, <1>8 DEF ChooseInv, TheirUploads
<1>11. QED
  BY <1>1, <1>3, <1>6, <1>7, <1>8, <1>9, <1>10 DEF ChooseInv, Choose!IntoOwnSite,
     PlaceIsLogged, ChoicesAreDisjoint, OneWaits

(* An upload begins, gets a part, ends, or is cleared away.                *)
LEMMA PluginUploadsKeep ==
  ASSUME ChooseInv, NEW u \in Uploads,
         Choose!stageUploadPart(u) \/ Choose!discardUpload(u) \/ Choose!pruneUploads(u)
  PROVE  ChooseInv'
<1>1. uploads[u] \in Choose!Staged /\ Choose!NoUpload \in Choose!Staged /\ ~Choose!NoUpload.plugin
  BY DEF ChooseInv, Choose!TypeOK, Choose!NoUpload, Choose!Staged
<1>2. CASE Choose!stageUploadPart(u)
  <2>1. PICK new \in Choose!Staged : Choose!Upload(u, new) /\ (new.plugin => new.parts = 2)
    <3>0. 1 \in 0..2 /\ 2 \in 0..2
      OBVIOUS
    <3>1. /\ [Choose!NoUpload EXCEPT !.parts = 1] \in Choose!Staged
          /\ ~[Choose!NoUpload EXCEPT !.parts = 1].plugin
      BY <1>1, <3>0 DEF Choose!Staged
    <3>2. /\ [uploads[u] EXCEPT !.parts = 2, !.plugin = TRUE] \in Choose!Staged
          /\ [uploads[u] EXCEPT !.parts = 2, !.plugin = TRUE].parts = 2
      BY <1>1, <3>0 DEF Choose!Staged
    <3>3. QED
      BY <1>1, <1>2, <3>1, <3>2 DEF Choose!stageUploadPart
  <2>2. ~uploads[u].plugin /\ chooser.at = "idle"
    BY <1>1, <1>2 DEF Choose!stageUploadPart, Choose!ChooserFree, ChooseInv, PluginsWhole,
       Choose!Staged
  <2>3. QED
    BY <2>1, <2>2, UploadChanges DEF ChooseInv, TheirUploads
<1>3. CASE Choose!discardUpload(u)
  BY <1>1, <1>3, UploadChanges DEF Choose!discardUpload, ChooseInv, TheirUploads, ChooserAlone
<1>4. CASE Choose!pruneUploads(u)
  <2>1. \A j \in Choose!Choices : Choose!Counts(j) => u \notin choices[j].ups \ givenBack
    BY <1>4 DEF Choose!pruneUploads, ChooseInv, TheirUploads, Choose!Counts
  <2>2. chooser.at = "start" => u \notin chooser.ups \ givenBack
    BY <1>4 DEF Choose!pruneUploads, ChooseInv, ChooserAlone, Choose!ChooserFree
  <2>3. QED
    BY <1>1, <1>4, <2>1, <2>2, UploadChanges DEF Choose!pruneUploads
<1>5. QED
  BY <1>2, <1>3, <1>4

(* The user's choice before gives way to the new one.                      *)
LEMMA GiveWayKeeps ==
  ASSUME ChooseInv, NEW by \in Choose!Users, Choose!GiveWay(Choose!Replaced(by)),
         chooser.at = "idle",
         \/ uploads' = Choose!Claim(Choose!Released(Choose!Replaced(by)), FALSE)
         \/ uploads' = Choose!Without(Choose!Released(Choose!Replaced(by))),
         UNCHANGED <<Choose!panelOfChoice, took>>, chooser' \in Choose!Choosers,
         chooser'.at = "idle" \/ (chooser'.at = "claim" /\ chooser'.by = by)
  PROVE  ChooseInv'
<1> DEFINE js == Choose!Replaced(by)
<1>1. /\ choices \in [Choose!Choices -> Choose!ChoiceRecords] /\ Choose!TypeOK
      /\ \A j \in Choose!Choices : /\ choices[j] \in Choose!ChoiceRecords
                                   /\ choices[j].ups \subseteq Uploads
  BY DEF ChooseInv, Choose!TypeOK, Choose!ChoiceRecords
<1>2. js \subseteq Choose!Choices /\ \A j \in js : choices[j].phase = "wait"
  BY DEF Choose!Replaced
<1>3. Choose!Released(js) \in SUBSET Uploads
  BY <1>1, <1>2 DEF Choose!Released
<1>4. /\ uploads' \in [Uploads -> Choose!Staged]
      /\ \A u \in Uploads : /\ u \notin Choose!Released(js) => uploads'[u] = uploads[u]
                            /\ uploads'[u].plugin => /\ uploads[u].plugin
                                                     /\ uploads'[u].parts = uploads[u].parts
  <2> HIDE DEF js
  <2> DEFINE back == Choose!Released(js)
  <2>1. CASE uploads' = Choose!Claim(back, FALSE)
    <3>1. /\ Choose!Claim(back, FALSE) \in [Uploads -> Choose!Staged]
          /\ \A u \in Uploads : /\ Choose!Claim(back, FALSE)[u].plugin = uploads[u].plugin
                                /\ Choose!Claim(back, FALSE)[u].parts = uploads[u].parts
                                /\ u \notin back => Choose!Claim(back, FALSE)[u] = uploads[u]
      BY <1>1, <1>3, StagedIs
    <3>2. QED
      BY <2>1, <3>1
  <2>2. CASE uploads' = Choose!Without(back)
    <3>1. /\ Choose!Without(back) \in [Uploads -> Choose!Staged]
          /\ \A u \in Uploads : /\ Choose!Without(back)[u].plugin
                                      => /\ uploads[u].plugin
                                         /\ Choose!Without(back)[u].parts = uploads[u].parts
                                /\ u \notin back => Choose!Without(back)[u] = uploads[u]
      BY <1>1, <1>3, StagedIs
    <3>2. QED
      BY <2>2, <3>1
  <2>3. QED
    BY <2>1, <2>2 DEF js
<1>5. /\ choices' = [j \in Choose!Choices |->
                       IF j \in js THEN [choices[j] EXCEPT !.superseded = TRUE] ELSE choices[j]]
      /\ givenBack' = givenBack \cup {u \in Choose!Released(js) :
                         \E k \in Choose!Choices \ js : Choose!Counts(k) /\ u \in choices[k].ups}
  BY DEF Choose!GiveWay
<1> HIDE DEF js
<1>6. choices' \in [Choose!Choices -> Choose!ChoiceRecords]
  <2>1. \A j \in Choose!Choices : [choices[j] EXCEPT !.superseded = TRUE] \in Choose!ChoiceRecords
    BY <1>1 DEF Choose!ChoiceRecords
  <2>2. QED
    BY <1>1, <1>5, <2>1
<1>7. \A j \in Choose!Choices :
        /\ j \in js => choices'[j].superseded /\ choices'[j].phase = choices[j].phase
        /\ j \notin js => choices'[j] = choices[j]
  BY <1>1, <1>5 DEF Choose!ChoiceRecords
<1>8. ASSUME NEW j \in Choose!Choices, Choose!Counts(j)'
      PROVE  /\ Choose!Counts(j) /\ j \notin js /\ choices'[j] = choices[j]
             /\ \A u \in choices[j].ups \ givenBack' : uploads'[u] = uploads[u]
  <2>1. Choose!Counts(j) /\ j \notin js /\ choices'[j] = choices[j]
    BY <1>7, <1>8 DEF Choose!Counts, Choose!Active
  <2>2. choices[j].ups \cap Choose!Released(js) \subseteq givenBack'
    BY <1>5, <2>1
  <2>3. QED
    BY <1>1, <1>4, <2>1, <2>2
<1>9. PluginsWhole'
  BY <1>4 DEF ChooseInv, PluginsWhole
<1>10. InstallersCount'
  BY <1>2, <1>7 DEF ChooseInv, InstallersCount
<1>11. ChooserAlone'
  <2>1. \A j \in Choose!Choices :
          Choose!Counts(j)' /\ choices'[j].phase = "wait" => choices'[j].by # by
    BY <1>8 DEF js, Choose!Replaced, Choose!Counts
  <2>2. QED
    BY <2>1 DEF ChooserAlone
<1>12. took' = {}
  BY DEF ChooseInv, Choose!IntoOwnSite
<1>13. givenBack \subseteq givenBack' /\ givenBack' \subseteq Uploads
  BY <1>1, <1>3, <1>5 DEF Choose!TypeOK
<1>14. QED
  BY <1>4, <1>6, <1>8, <1>9, <1>10, <1>11, <1>12, <1>13, FewerCount

(* A form is sent, or refused.                                             *)
LEMMA PluginFormsKeep ==
  ASSUME ChooseInv, NEW by \in Choose!Users,
         Choose!Clear(by) \/ \E us \in SUBSET Uploads : Choose!Submit(by, us)
  PROVE  ChooseInv'
<1>1. chooser \in Choose!Choosers
  BY DEF ChooseInv, Choose!TypeOK
<1>2. CASE Choose!Clear(by)
  BY <1>1, <1>2, GiveWayKeeps DEF Choose!Clear, Choose!ChooserFree
<1>3. ASSUME NEW us \in SUBSET Uploads, Choose!Submit(by, us) PROVE ChooseInv'
  <2>1. [at |-> "claim", by |-> by, ups |-> us] \in Choose!Choosers
    BY DEF Choose!Choosers
  <2>2. QED
    BY <1>3, <2>1, GiveWayKeeps DEF Choose!Submit, Choose!ChooserFree
<1>4. QED
  BY <1>2, <1>3

(* The uploads of a form are claimed.                                      *)
LEMMA PluginClaimKeeps ==
  ASSUME ChooseInv, Choose!claimUploads \/ Choose!StartRefused \/ Choose!ChooserDies
  PROVE  ChooseInv'
<1>1. /\ UNCHANGED <<Choose!panelOfChoice, choices, givenBack, took>> /\ took = {}
      /\ chooser \in Choose!Choosers /\ chooser.ups \in SUBSET Uploads
      /\ choices \in [Choose!Choices -> Choose!ChoiceRecords] /\ Choose!TypeOK
      /\ uploads \in [Uploads -> Choose!Staged] /\ givenBack \subseteq Uploads
      /\ \A j \in Choose!Choices : choices[j].ups \subseteq Uploads
  BY DEF Choose!claimUploads, Choose!StartRefused, Choose!ChooserDies, ChooseInv,
     Choose!TypeOK, Choose!IntoOwnSite, Choose!Choosers, Choose!ChoiceRecords
<1>2. Choose!NotChoosing \in Choose!Choosers /\ Choose!NotChoosing.at = "idle"
  BY DEF Choose!NotChoosing, Choose!Choosers, Choose!Users
<1>3. InstallersCount'
  BY <1>1 DEF ChooseInv, InstallersCount
<1>4. \A j \in Choose!Choices : Choose!Counts(j)' => Choose!Counts(j) /\ choices'[j] = choices[j]
  BY <1>1 DEF Choose!Counts, Choose!Active
<1>5. CASE Choose!claimUploads /\ Choose!stagedUploads(chooser.ups, {})
  <2>1. /\ uploads' = Choose!Claim(chooser.ups, TRUE) /\ chooser' = [chooser EXCEPT !.at = "start"]
        /\ chooser.at = "claim"
    BY <1>5 DEF Choose!claimUploads
  <2>2. \A u \in chooser.ups : uploads[u].plugin /\ ~uploads[u].claimed /\ uploads[u].parts > 0
    <3>1. \A u \in chooser.ups : uploads[u].plugin /\ ~uploads[u].claimed
      BY <1>5 DEF Choose!stagedUploads
    <3>2. QED
      BY <1>1, <3>1 DEF ChooseInv, PluginsWhole
  <2>3. /\ uploads' \in [Uploads -> Choose!Staged]
        /\ \A u \in Uploads : /\ u \notin chooser.ups => uploads'[u] = uploads[u]
                              /\ uploads'[u].plugin = uploads[u].plugin
                              /\ uploads'[u].parts = uploads[u].parts
                              /\ u \in chooser.ups => uploads'[u].claimed
    <3>1. /\ Choose!Claim(chooser.ups, TRUE) \in [Uploads -> Choose!Staged]
          /\ \A u \in Uploads :
               /\ Choose!Claim(chooser.ups, TRUE)[u].plugin = uploads[u].plugin
               /\ Choose!Claim(chooser.ups, TRUE)[u].parts = uploads[u].parts
               /\ u \notin chooser.ups => Choose!Claim(chooser.ups, TRUE)[u] = uploads[u]
               /\ u \in chooser.ups /\ uploads[u].parts > 0
                      => Choose!Claim(chooser.ups, TRUE)[u].claimed = TRUE
      BY <1>1, StagedIs
    <3>2. QED
      BY <2>1, <2>2, <3>1
  <2>4. \A j \in Choose!Choices :
          Choose!Counts(j) => choices[j].ups \cap chooser.ups \subseteq givenBack
    BY <2>2 DEF ChooseInv, TheirUploads
  <2>5. /\ chooser' \in Choose!Choosers /\ chooser'.at = "start" /\ chooser'.ups = chooser.ups
        /\ chooser'.by = chooser.by
    BY <1>1, <2>1 DEF Choose!Choosers
  <2>6. PluginsWhole'
    BY <2>3 DEF ChooseInv, PluginsWhole
  <2>7. ChooserAlone'
    <3>1. \A j \in Choose!Choices :
            Choose!Counts(j)' /\ choices'[j].phase = "wait" => choices'[j].by # chooser'.by
      BY <1>4, <2>1, <2>5 DEF ChooseInv, ChooserAlone
    <3>2. \A u \in chooser'.ups : uploads'[u].plugin /\ uploads'[u].claimed
      BY <1>1, <2>2, <2>3, <2>5
    <3>3. \A j \in Choose!Choices :
            Choose!Counts(j)' => choices'[j].ups \cap chooser'.ups \subseteq givenBack'
      BY <1>1, <1>4, <2>4, <2>5
    <3>4. QED
      BY <3>1, <3>2, <3>3 DEF ChooserAlone
  <2>8. QED
    BY <1>1, <1>3, <1>4, <2>3, <2>4, <2>5, <2>6, <2>7, FewerCount
<1>6. CASE chooser' = Choose!NotChoosing /\ UNCHANGED uploads
  <2>1. PluginsWhole' /\ ChooserAlone'
    BY <1>2, <1>6 DEF ChooseInv, PluginsWhole, ChooserAlone
  <2>2. QED
    BY <1>1, <1>2, <1>3, <1>4, <1>6, <2>1, FewerCount
<1>7. CASE Choose!StartRefused
  <2>1. /\ uploads' = Choose!Claim(chooser.ups, FALSE) /\ chooser' = Choose!NotChoosing
        /\ chooser.at = "start"
    BY <1>7 DEF Choose!StartRefused
  <2>2. /\ uploads' \in [Uploads -> Choose!Staged]
        /\ \A u \in Uploads : /\ u \notin chooser.ups => uploads'[u] = uploads[u]
                              /\ uploads'[u].plugin = uploads[u].plugin
                              /\ uploads'[u].parts = uploads[u].parts
    BY <1>1, <2>1, StagedIs
  <2>3. \A j \in Choose!Choices :
          Choose!Counts(j) => choices[j].ups \cap chooser.ups \subseteq givenBack
    BY <2>1 DEF ChooseInv, ChooserAlone
  <2>4. PluginsWhole' /\ ChooserAlone'
    BY <1>2, <2>1, <2>2 DEF ChooseInv, PluginsWhole, ChooserAlone
  <2>5. QED
    BY <1>1, <1>2, <1>3, <1>4, <2>1, <2>2, <2>3, <2>4, FewerCount
<1>8. QED
  BY <1>5, <1>6, <1>7 DEF Choose!claimUploads, Choose!ChooserDies

(* A choice starts, with uploads that are in no other.                     *)
LEMMA NewChoiceKeeps ==
  ASSUME ChooseInv, NEW j \in Choose!Choices, Choose!startWpJob(j)
  PROVE  ChooseInv'
<1> DEFINE new == [Choose!NoChoice EXCEPT !.state = "running", !.by = chooser.by,
                                          !.ups = chooser.ups, !.after = made,
                                          !.log = Len(events)]
<1>1. /\ chooser.at = "start" /\ chooser' = Choose!NotChoosing
      /\ choices' = [choices EXCEPT ![j] = new]
      /\ UNCHANGED <<place, made, events, uploads, givenBack, took>> /\ chooser \in Choose!Choosers
      /\ choices \in [Choose!Choices -> Choose!ChoiceRecords]
      /\ made \in 0..MaxMade /\ Len(events) \in Nat
  BY DEF Choose!startWpJob, Choose!panelOfChoice, ChooseInv, Choose!TypeOK
<1>2. /\ Choose!NoChoice \in [state : {"none", "running", "ended"}, by : Choose!Users,
                              ups : SUBSET Uploads, after : Nat, log : Nat,
                              superseded : BOOLEAN, phase : {"wait", "installing"}]
      /\ ~Choose!NoChoice.superseded /\ Choose!NoChoice.phase = "wait"
  BY DEF Choose!NoChoice, Choose!Users
<1>3. new \in Choose!ChoiceRecords
  BY <1>1, <1>2 DEF Choose!ChoiceRecords, Choose!Choosers
<1>4. new.by = chooser.by /\ new.ups = chooser.ups /\ new.phase = "wait" /\ ~new.superseded
  BY <1>2
<1> HIDE DEF new
<1>5. Choose!NotChoosing \in Choose!Choosers /\ Choose!NotChoosing.at = "idle"
  BY DEF Choose!NotChoosing, Choose!Choosers, Choose!Users
<1>6. /\ choices' \in [Choose!Choices -> Choose!ChoiceRecords] /\ choices'[j] = new
      /\ \A k \in Choose!Choices : k # j => choices'[k] = choices[k]
  BY <1>1, <1>3
<1>7. Choose!TypeOK'
  BY <1>1, <1>5, <1>6 DEF ChooseInv, Choose!TypeOK
<1>8. \A k \in Choose!Choices : k # j => Choose!Counts(k)' = Choose!Counts(k)
  BY <1>6 DEF Choose!Counts, Choose!Active
<1>9. ChoicesAreDisjoint'
  BY <1>1, <1>4, <1>6, <1>8 DEF ChooseInv, ChoicesAreDisjoint, ChooserAlone
<1>10. TheirUploads'
  BY <1>1, <1>4, <1>6, <1>8 DEF ChooseInv, TheirUploads, ChooserAlone
<1>11. OneWaits'
  BY <1>1, <1>4, <1>6, <1>8 DEF ChooseInv, OneWaits, ChooserAlone
<1>12. InstallersCount'
  BY <1>4, <1>6 DEF ChooseInv, InstallersCount
<1>13. QED
  BY <1>1, <1>5, <1>7, <1>9, <1>10, <1>11, <1>12 DEF ChooseInv, Choose!IntoOwnSite,
     PlaceIsLogged, PluginsWhole, ChooserAlone

(* A choice ends, and its uploads with it.                                 *)
LEMMA ChoiceEndsKeeps ==
  ASSUME Choose!ConstantsOK, ChooseInv, NEW j \in Choose!Choices, Choose!Ends(j), Choose!Job,
         took' = {},
         UNCHANGED uploads \/ (Choose!Counts(j) /\ uploads' = Choose!Without(choices[j].ups))
  PROVE  ChooseInv'
<1>1. /\ choices \in [Choose!Choices -> Choose!ChoiceRecords] /\ Choose!TypeOK
      /\ uploads \in [Uploads -> Choose!Staged] /\ chooser \in Choose!Choosers
      /\ \A k \in Choose!Choices : choices[k].ups \in SUBSET Uploads
      /\ chooser.ups \subseteq Uploads /\ givenBack \subseteq Uploads
      /\ UNCHANGED <<Choose!panelOfChoice, chooser, givenBack>>
  BY DEF ChooseInv, Choose!TypeOK, Choose!ChoiceRecords, Choose!Choosers, Choose!Job
<1> DEFINE over == [Choose!NoChoice EXCEPT !.state = "ended"]
<1>2. over \in Choose!ChoiceRecords /\ over.state = "ended" /\ over.phase = "wait"
  <2>1. /\ Choose!NoChoice \in [state : {"none", "running", "ended"}, by : Choose!Users,
                                ups : SUBSET Uploads, after : 0..MaxMade, log : Nat,
                                superseded : BOOLEAN, phase : {"wait", "installing"}]
        /\ Choose!NoChoice.phase = "wait"
    <3>1. 0 \in 0..MaxMade
      BY DEF Choose!ConstantsOK
    <3>2. QED
      BY <3>1 DEF Choose!NoChoice, Choose!Users
  <2>2. QED
    BY <2>1 DEF Choose!ChoiceRecords
<1>3. /\ choices' \in [Choose!Choices -> Choose!ChoiceRecords] /\ choices'[j] = over
      /\ \A k \in Choose!Choices : k # j => choices'[k] = choices[k]
  BY <1>1, <1>2 DEF Choose!Ends
<1> HIDE DEF over
<1>4. \A k \in Choose!Choices :
        Choose!Counts(k)' => Choose!Counts(k) /\ k # j /\ choices'[k] = choices[k]
  BY <1>2, <1>3 DEF Choose!Counts, Choose!Active
<1>5. /\ uploads' \in [Uploads -> Choose!Staged]
      /\ \A u \in Uploads :
           /\ uploads'[u].plugin => uploads[u].plugin /\ uploads'[u].parts = uploads[u].parts
           /\ u \notin choices[j].ups \/ ~Choose!Counts(j) => uploads'[u] = uploads[u]
  <2>1. CASE UNCHANGED uploads
    BY <1>1, <2>1
  <2>2. CASE Choose!Counts(j) /\ uploads' = Choose!Without(choices[j].ups)
    <3>1. /\ Choose!Without(choices[j].ups) \in [Uploads -> Choose!Staged]
          /\ \A u \in Uploads :
               /\ Choose!Without(choices[j].ups)[u].plugin
                    => /\ uploads[u].plugin
                       /\ Choose!Without(choices[j].ups)[u].parts = uploads[u].parts
               /\ u \notin choices[j].ups
                    => Choose!Without(choices[j].ups)[u] = uploads[u]
      <4>1. TRUE \in BOOLEAN /\ choices[j].ups \in SUBSET Uploads
        BY <1>1
      <4>2. QED
        BY <1>1, <4>1, StagedIs
    <3>2. QED
      BY <2>2, <3>1
  <2>3. QED
    BY <2>1, <2>2
<1>6. \A k \in Choose!Choices :
        Choose!Counts(k)' => \A u \in choices[k].ups \ givenBack : uploads'[u] = uploads[u]
  BY <1>1, <1>4, <1>5 DEF ChooseInv, ChoicesAreDisjoint
<1>7. PluginsWhole'
  BY <1>5 DEF ChooseInv, PluginsWhole
<1>8. InstallersCount'
  BY <1>2, <1>3 DEF ChooseInv, InstallersCount
<1>9. ChooserAlone'
  <2>1. chooser.at = "start" => \A u \in chooser.ups \ givenBack : uploads'[u] = uploads[u]
    BY <1>1, <1>5 DEF ChooseInv, ChooserAlone
  <2>2. QED
    BY <1>1, <1>4, <2>1 DEF ChooseInv, ChooserAlone
<1>10. QED
  BY <1>1, <1>3, <1>4, <1>5, <1>6, <1>7, <1>8, <1>9, FewerCount

(* The job of a choice: it waits for the site, begins, installs once       *)
(* WordPress is there, or dies.                                            *)
LEMMA ChoiceJobsKeep ==
  ASSUME Choose!ConstantsOK, ChooseInv, NEW j \in Choose!Choices,
         Choose!AwaitSite(j) \/ Choose!begin(j) \/ Choose!AwaitWordPress(j) \/ Choose!RunnerDies(j)
  PROVE  ChooseInv'
<1>1. took = {}
  BY DEF ChooseInv, Choose!IntoOwnSite
<1>2. CASE Choose!AwaitSite(j) \/ Choose!RunnerDies(j)
  BY <1>1, <1>2, ChoiceEndsKeeps DEF Choose!AwaitSite, Choose!RunnerDies, Choose!Superseded,
     Choose!Done, Choose!Running, Choose!Counts, Choose!Active
<1>3. CASE Choose!begin(j)
  <2>1. CASE Choose!Superseded(j)
    BY <1>1, <2>1, ChoiceEndsKeeps DEF Choose!Superseded
  <2>2. CASE ~choices[j].superseded /\ Choose!Done(j)
    BY <1>1, <1>3, <2>2, ChoiceEndsKeeps DEF Choose!begin, Choose!Done, Choose!Running,
       Choose!Counts, Choose!Active
  <2>3. CASE /\ ~choices[j].superseded /\ choices' = [choices EXCEPT ![j].phase = "installing"]
             /\ UNCHANGED <<uploads, took>> /\ Choose!Job
    <3>1. /\ choices \in [Choose!Choices -> Choose!ChoiceRecords] /\ chooser \in Choose!Choosers
          /\ uploads \in [Uploads -> Choose!Staged] /\ givenBack \subseteq Uploads
          /\ UNCHANGED <<uploads, took, chooser, givenBack, Choose!panelOfChoice>>
      BY <2>3 DEF ChooseInv, Choose!TypeOK, Choose!Job
    <3>2. /\ choices' \in [Choose!Choices -> Choose!ChoiceRecords]
          /\ \A k \in Choose!Choices : k # j => choices'[k] = choices[k]
          /\ choices'[j].phase = "installing" /\ choices'[j].superseded = choices[j].superseded
          /\ choices'[j].state = choices[j].state
          /\ choices'[j].by = choices[j].by /\ choices'[j].ups = choices[j].ups
      <4>1. [choices[j] EXCEPT !.phase = "installing"] \in Choose!ChoiceRecords
        BY <3>1 DEF Choose!ChoiceRecords
      <4>2. QED
        BY <2>3, <3>1, <4>1 DEF Choose!ChoiceRecords
    <3>3. \A k \in Choose!Choices : Choose!Counts(k)' =>
            /\ Choose!Counts(k) /\ choices'[k].by = choices[k].by
            /\ choices'[k].ups = choices[k].ups
            /\ choices'[k].phase = "wait" => choices[k].phase = "wait"
      BY <3>2 DEF Choose!Counts, Choose!Active
    <3>4. InstallersCount'
      BY <2>3, <3>2 DEF ChooseInv, InstallersCount
    <3>5. ChooserAlone'
      BY <3>1, <3>3 DEF ChooseInv, ChooserAlone
    <3>6. PluginsWhole'
      BY <3>1 DEF ChooseInv, PluginsWhole
    <3>7. QED
      BY <1>1, <3>1, <3>2, <3>3, <3>4, <3>5, <3>6, FewerCount
  <2>4. QED
    BY <1>3, <2>1, <2>2, <2>3 DEF Choose!begin
<1>4. CASE Choose!AwaitWordPress(j)
  <2>1. /\ Choose!Counts(j) /\ Choose!Ends(j) /\ uploads' = Choose!Without(choices[j].ups)
        /\ Choose!Job
    BY <1>4 DEF Choose!AwaitWordPress, Choose!Running, Choose!Done, Choose!Counts,
       Choose!Active, ChooseInv, InstallersCount
  <2>2. took' = {}
    <3>1. CASE UNCHANGED took
      BY <1>1, <3>1
    <3>2. CASE /\ place.wp /\ Choose!Mine(j)
               /\ took' = took \cup {w \in {"another's", "missing"} :
                                 IF w = "missing" THEN \E u \in choices[j].ups \ givenBack : ~uploads[u].plugin
                                 ELSE choices[j].by \notin {"admin", place.by}}
      <4>1. \A u \in choices[j].ups \ givenBack : uploads[u].plugin
        BY <2>1 DEF ChooseInv, TheirUploads
      <4>2. choices[j].by \in {"admin", place.by}
        BY <3>2 DEF Choose!Mine, Choose!Creators, ChooseInv, PlaceIsLogged
      <4>3. QED
        BY <1>1, <3>2, <4>1, <4>2
    <3>3. QED
      BY <1>4, <3>1, <3>2 DEF Choose!AwaitWordPress, Choose!Done
  <2>3. QED
    BY <2>1, <2>2, ChoiceEndsKeeps
<1>5. QED
  BY <1>2, <1>3, <1>4

(* The invariant is inductive.                                             *)
LEMMA ChooseGoesOn ==
  ASSUME Choose!ConstantsOK, ChooseInv, [Choose!Next]_(Choose!chooseVars)
  PROVE  ChooseInv'
<1>1. CASE UNCHANGED Choose!chooseVars
  BY <1>1 DEF Choose!chooseVars, ChooseInv, Choose!TypeOK, Choose!IntoOwnSite, PlaceIsLogged,
     PluginsWhole, ChoicesAreDisjoint, TheirUploads, OneWaits, InstallersCount, ChooserAlone,
     Choose!Counts, Choose!Active
<1>2. QED
  BY <1>1, PlacesGoOn, PluginUploadsKeep, PluginFormsKeep, PluginClaimKeeps, NewChoiceKeeps,
     ChoiceJobsKeep DEF Choose!Next

(* It implies that the later of two choices is the one that counts.        *)
LEMMA LaterOnesCount == ChooseInv => Choose!LaterCounts
  BY DEF ChooseInv, Choose!LaterCounts, ChoicesAreDisjoint, TheirUploads, OneWaits,
     InstallersCount

(* Its invariant while a behaviour is about it.                            *)
ChooseHolds == part = "choose" => ChooseInv

LEMMA ChooseHoldsAtFirst == Init => ChooseHolds
<1>1. SUFFICES ASSUME Init, part = "choose" PROVE ChooseInv
  BY DEF ChooseHolds
<1>2. Choose!Init
  BY <1>1 DEF Init
<1>3. QED
  BY <1>2, Constants, ChooseStarts

LEMMA ChooseMoves ==
  ASSUME [Next]_vars, part' = "choose"
  PROVE  part = "choose" /\ [Choose!Next]_(Choose!chooseVars)
<1>1. part = "choose" /\ (Choose!Next \/ UNCHANGED chooseVars)
  BY DEF Next, vars
<1>2. QED
  BY <1>1 DEF chooseVars, Choose!chooseVars

LEMMA ChooseHoldsOn == ChooseHolds /\ [Next]_vars => ChooseHolds'
<1>1. SUFFICES ASSUME ChooseHolds, [Next]_vars, part' = "choose"
               PROVE  ChooseInv'
  BY DEF ChooseHolds
<1>2. ChooseInv /\ [Choose!Next]_(Choose!chooseVars)
  BY <1>1, ChooseMoves DEF ChooseHolds
<1>3. QED
  BY <1>2, Constants, ChooseGoesOn

(* Of two choices of plugins the later counts, with uploads of its own,    *)
(* and none installs a plugin in the site of another user or one that is   *)
(* not whole: of any users, uploads and sites, also while a replaced choice*)
(* is still at work.  An upload that a form takes from an installer,       *)
(* because a choice replaced before that named it too, is excepted.        *)
THEOREM ChoicesAreTheirOwn ==
  Spec => [](part = "choose" => /\ Choose!TypeOK
                                /\ Choose!LaterCounts
                                /\ Choose!IntoOwnSite)
<1>1. Init => ChooseHolds
  BY ChooseHoldsAtFirst
<1>2. ChooseHolds /\ [Next]_vars => ChooseHolds'
  BY ChooseHoldsOn
<1>3. ChooseHolds
        => (part = "choose" => /\ Choose!TypeOK
                               /\ Choose!LaterCounts
                               /\ Choose!IntoOwnSite)
  BY LaterOnesCount DEF ChooseHolds, ChooseInv
<1>4. QED
  BY <1>1, <1>2, <1>3, PTL DEF Spec

-----------------------------------------------------------------------------
(* Automation. A pass's copy of the policy is what is saved: both are      *)
(* changed only under the lock it holds.                                   *)
CopyIsCurrent == wpass.at # "idle" => wpass.state = varnish

(* A site that had the plugin was seen with it: in the record before a     *)
(* pass looks, in what the pass saw before it acts.                        *)
SeenIsRecorded ==
  /\ wsite.wp \/ wsite.had => Automation!Here
  /\ wsite.gone => wsite.had
  /\ wpass.at \in {"idle", "look"} /\ wsite.had => varnish.rec.seen
  /\ wpass.at \in {"act", "recheck"} => varnish.rec.seen
  /\ wpass.at = "act" /\ wsite.had => wpass.was
  /\ wpass.at = "act" /\ wpass.kind # "install" => ~wpass.was

(* The inductive invariant of the automation.                              *)
AutomationInv == Automation!TypeOK /\ CopyIsCurrent /\ SeenIsRecorded

(* No site, no policy and no pass at first.                                *)
LEMMA AutomationStarts == Automation!ConstantsOK /\ Automation!Init => AutomationInv
<1> SUFFICES ASSUME Automation!ConstantsOK, Automation!Init PROVE AutomationInv
  OBVIOUS
<1>1. Automation!NoRec \in Automation!PolicyRecords
  BY DEF Automation!NoRec, Automation!PolicyRecords, Automation!Plugins
<1>2. varnish \in Automation!Policies
  BY <1>1 DEF Automation!Init, Automation!Policies
<1>3. wpass \in Automation!Passes
  BY <1>1 DEF Automation!Init, Automation!NotPassing, Automation!Passes, Automation!Policies,
     Automation!Kinds
<1>4. wsite \in Automation!SiteRecords
  BY DEF Automation!Init, Automation!NoSite, Automation!SiteRecords, Automation!Plugins,
     Automation!ConstantsOK
<1>5. Automation!TypeOK
  BY <1>2, <1>3, <1>4 DEF Automation!Init, Automation!TypeOK, Automation!NoNews,
     Automation!ConstantsOK
<1>6. CopyIsCurrent /\ SeenIsRecorded
  BY DEF Automation!Init, Automation!NotPassing, CopyIsCurrent, SeenIsRecorded,
     Automation!NoSite
<1>7. QED
  BY <1>5, <1>6 DEF AutomationInv

(* Pruning and what a pass or an operator changes in a policy leave one.   *)
LEMMA PolicyIs ==
  ASSUME NEW v \in Automation!Policies
  PROVE  /\ Automation!Pruned(v) \in Automation!Policies /\ Automation!Pruned(v).enabled = v.enabled
         /\ (Automation!Here => Automation!Pruned(v) = v)
         /\ v.enabled \in BOOLEAN /\ v.rec \in Automation!PolicyRecords /\ v.rec.seen \in BOOLEAN
         /\ [v EXCEPT !.enabled = ~@] \in Automation!Policies
         /\ [v EXCEPT !.enabled = ~@].rec = v.rec
         /\ \A r \in Automation!PolicyRecords :
              /\ [v EXCEPT !.rec = r] \in Automation!Policies
              /\ [v EXCEPT !.rec = r].enabled = v.enabled /\ [v EXCEPT !.rec = r].rec = r
<1>1. Automation!NoRec \in Automation!PolicyRecords
  BY DEF Automation!NoRec, Automation!PolicyRecords, Automation!Plugins
<1>2. QED
  BY <1>1 DEF Automation!Pruned, Automation!Policies, Automation!PolicyRecords

(* The side of the site alone changes.                                     *)
LEMMA WpSiteChanges ==
  ASSUME AutomationInv, wsite' \in Automation!SiteRecords, ids' \in 0..MaxIds, hands' \in Nat,
         UNCHANGED <<varnish, news, wjob, wpass>>,
         wsite'.wp \/ wsite'.had => wsite'.id # 0, wsite'.gone => wsite'.had,
         wsite'.had => wsite.had
  PROVE  AutomationInv'
<1>1. Automation!TypeOK'
  BY DEF AutomationInv, Automation!TypeOK
<1>2. CopyIsCurrent'
  BY DEF AutomationInv, CopyIsCurrent
<1>3. SeenIsRecorded'
  BY DEF AutomationInv, SeenIsRecorded, Automation!Here
<1>4. QED
  BY <1>1, <1>2, <1>3 DEF AutomationInv

(* CloudPanel and its user: a site comes, gets WordPress, goes, or has     *)
(* its plugin changed by hand.                                             *)
LEMMA WpPanelMoves ==
  ASSUME Automation!ConstantsOK, AutomationInv,
         Automation!SiteComes \/ Automation!WpComes \/ Automation!SiteGoes \/ Automation!ByHand
  PROVE  AutomationInv'
<1>0. /\ wsite \in Automation!SiteRecords /\ ids \in 0..MaxIds /\ hands \in Nat
      /\ wsite.wp \/ wsite.had => wsite.id # 0
      /\ wsite.gone => wsite.had
      /\ Automation!NoSite \in Automation!SiteRecords
  BY DEF AutomationInv, Automation!TypeOK, SeenIsRecorded, Automation!Here, Automation!NoSite,
     Automation!SiteRecords, Automation!Plugins, Automation!ConstantsOK
<1>1. CASE Automation!SiteComes
  <2>1. /\ ids' \in 0..MaxIds /\ ids' # 0 /\ wsite' = [Automation!NoSite EXCEPT !.id = ids']
        /\ UNCHANGED <<hands, varnish, news, wjob, wpass>>
    BY <1>0, <1>1 DEF Automation!SiteComes, Automation!Panel, Automation!ConstantsOK
  <2>2. wsite' \in Automation!SiteRecords /\ ~wsite'.had /\ ~wsite'.gone /\ wsite'.id = ids'
    BY <1>0, <2>1 DEF Automation!SiteRecords, Automation!NoSite
  <2>3. QED
    BY <1>0, <2>1, <2>2, WpSiteChanges
<1>2. CASE Automation!WpComes
  <2>1. /\ wsite' \in Automation!SiteRecords /\ wsite'.had = wsite.had /\ wsite'.gone = wsite.gone
        /\ wsite'.id = wsite.id /\ wsite.id # 0
    BY <1>0, <1>2 DEF Automation!WpComes, Automation!SiteRecords, Automation!Here
  <2>2. UNCHANGED <<ids, hands, varnish, news, wjob, wpass>>
    BY <1>2 DEF Automation!WpComes, Automation!Panel
  <2>3. QED
    BY <1>0, <2>1, <2>2, WpSiteChanges
<1>3. CASE Automation!SiteGoes
  <2>1. ~Automation!NoSite.had /\ ~Automation!NoSite.gone /\ ~Automation!NoSite.wp
    BY DEF Automation!NoSite
  <2>2. wsite' = Automation!NoSite /\ UNCHANGED <<ids, hands, varnish, news, wjob, wpass>>
    BY <1>3 DEF Automation!SiteGoes, Automation!Panel
  <2>3. QED
    BY <1>0, <2>1, <2>2, WpSiteChanges
<1>4. CASE Automation!ByHand
  <2>1. PICK p \in Automation!Plugins :
          wsite' = [wsite EXCEPT !.plugin = p, !.gone = p = "missing" /\ wsite.had]
    BY <1>4 DEF Automation!ByHand
  <2>2. hands' = hands + 1 /\ UNCHANGED <<ids, varnish, news, wjob, wpass>>
    BY <1>4 DEF Automation!ByHand, Automation!Panel
  <2>3. /\ wsite' \in Automation!SiteRecords /\ wsite'.had = wsite.had
        /\ (wsite'.gone => wsite'.had)
        /\ wsite'.id = wsite.id /\ wsite'.wp = wsite.wp
    BY <1>0, <2>1 DEF Automation!SiteRecords
  <2>4. QED
    BY <1>0, <2>2, <2>3, WpSiteChanges
<1>5. QED
  BY <1>1, <1>2, <1>3, <1>4

(* An operator switches the automation.                                    *)
LEMMA ConfigureKeeps ==
  ASSUME AutomationInv, Automation!configureVarnish
  PROVE  AutomationInv'
<1>1. /\ wpass.at = "idle" /\ varnish' = [Automation!Pruned(varnish) EXCEPT !.enabled = ~@]
      /\ hands' = hands + 1
      /\ UNCHANGED <<wsite, ids, news, wjob, wpass, passesRun>>
  BY DEF Automation!configureVarnish, Automation!configureBeside, Automation!Unlocked
<1>2. varnish' \in Automation!Policies /\ varnish'.rec = Automation!Pruned(varnish).rec
  BY <1>1, PolicyIs DEF AutomationInv, Automation!TypeOK
<1>3. wsite.had => varnish'.rec.seen
  BY <1>1, <1>2, PolicyIs DEF AutomationInv, Automation!TypeOK, SeenIsRecorded
<1>4. Automation!TypeOK'
  BY <1>1, <1>2 DEF AutomationInv, Automation!TypeOK
<1>5. CopyIsCurrent'
  BY <1>1 DEF CopyIsCurrent
<1>6. SeenIsRecorded'
  BY <1>1, <1>3 DEF AutomationInv, SeenIsRecorded, Automation!Here
<1>7. QED
  BY <1>4, <1>5, <1>6 DEF AutomationInv

(* A pass begins.                                                          *)
LEMMA PassStartKeeps ==
  ASSUME AutomationInv, NEW kind \in Automation!Kinds, NEW job \in BOOLEAN,
         Automation!Start(kind, job)
  PROVE  AutomationInv'
<1>1. /\ wpass.at = "idle" /\ varnish' = Automation!Pruned(varnish)
      /\ UNCHANGED <<wsite, ids, news, hands>>
      /\ \/ /\ wpass' = [Automation!NotPassing EXCEPT !.at = "look", !.kind = kind, !.job = job,
                                                       !.state = varnish']
            /\ wjob' = IF job THEN "running" ELSE wjob
         \/ wpass' = Automation!NotPassing /\ wjob' = IF job THEN "ended" ELSE wjob
  BY DEF Automation!Start, Automation!Unlocked
<1>2. varnish' \in Automation!Policies /\ (wsite.had => varnish'.rec.seen)
  BY <1>1, PolicyIs DEF AutomationInv, Automation!TypeOK, SeenIsRecorded
<1>3. /\ wpass' \in Automation!Passes /\ wpass'.at \in {"idle", "look"}
      /\ wpass'.at # "idle" => wpass'.state = varnish'
  <2>1. [enabled |-> FALSE, rec |-> Automation!NoRec] \in Automation!Policies
    BY DEF Automation!Policies, Automation!NoRec, Automation!PolicyRecords, Automation!Plugins
  <2>2. Automation!NotPassing \in Automation!Passes /\ Automation!NotPassing.at = "idle"
    BY <2>1 DEF Automation!NotPassing, Automation!Passes, Automation!Kinds
  <2> DEFINE begins == [Automation!NotPassing EXCEPT !.at = "look", !.kind = kind, !.job = job,
                                                     !.state = varnish']
  <2>3. begins \in Automation!Passes
    BY <1>2, <2>2 DEF Automation!Passes
  <2>4. begins.state = varnish'
    BY DEF Automation!NotPassing
  <2>5. begins.at = "look"
    BY DEF Automation!NotPassing
  <2>6. QED
    BY <1>1, <2>2, <2>3, <2>4, <2>5
<1>4. Automation!TypeOK'
  BY <1>1, <1>2, <1>3 DEF AutomationInv, Automation!TypeOK
<1>5. CopyIsCurrent' /\ SeenIsRecorded'
  BY <1>1, <1>2, <1>3 DEF AutomationInv, CopyIsCurrent, SeenIsRecorded, Automation!Here
<1>6. QED
  BY <1>4, <1>5 DEF AutomationInv

(* A pass ends: what is left of its copy is saved.                         *)
LEMMA PassFinishKeeps ==
  ASSUME AutomationInv, NEW r \in Automation!PolicyRecords, wpass.at # "idle", Automation!Finish(r),
         wsite' \in Automation!SiteRecords, wsite' = [wsite EXCEPT !.had = wsite'.had],
         wsite'.had => r.seen,
         wsite'.had => Automation!Here, wsite.gone => wsite'.had, UNCHANGED <<ids, news, hands>>
  PROVE  AutomationInv' /\ varnish'.enabled = varnish.enabled
<1>1. wpass.state = varnish /\ varnish \in Automation!Policies
  BY DEF AutomationInv, Automation!TypeOK, CopyIsCurrent
<1>2. varnish' \in Automation!Policies /\ varnish'.rec = r /\ varnish'.enabled = varnish.enabled
  <2>1. varnish' = [varnish EXCEPT !.rec = r]
    BY <1>1 DEF Automation!Finish
  <2>2. QED
    BY <1>1, <2>1, PolicyIs
<1>3. wpass' \in Automation!Passes /\ wpass'.at = "idle"
  BY DEF Automation!Finish, Automation!NotPassing, Automation!Passes, Automation!Kinds,
     Automation!Policies, Automation!NoRec, Automation!PolicyRecords, Automation!Plugins
<1>4. wsite'.wp = wsite.wp /\ wsite'.gone = wsite.gone /\ wsite'.id = wsite.id
  BY DEF AutomationInv, Automation!TypeOK, Automation!SiteRecords
<1>5. wjob' \in {"none", "queued", "running", "ended"}
  BY DEF AutomationInv, Automation!TypeOK, Automation!Finish
<1>6. Automation!TypeOK'
  BY <1>2, <1>3, <1>5 DEF AutomationInv, Automation!TypeOK
<1>7. CopyIsCurrent' /\ SeenIsRecorded'
  BY <1>2, <1>3, <1>4 DEF AutomationInv, CopyIsCurrent, SeenIsRecorded, Automation!Here
<1>8. QED
  BY <1>2, <1>6, <1>7 DEF AutomationInv

(* A pass looks at the site.                                               *)
LEMMA PassLookKeeps ==
  ASSUME AutomationInv, Automation!Look
  PROVE  AutomationInv' /\ varnish'.enabled = varnish.enabled
<1> DEFINE seen == wpass.state.rec.seen \/ wsite.plugin # "missing"
           r == [status |-> wsite.plugin, seen |-> seen]
           starts == [status |-> wsite.plugin, seen |-> TRUE]
<1>1. /\ wpass.at = "look" /\ wsite.wp /\ wpass.state = varnish /\ varnish \in Automation!Policies
      /\ wpass \in Automation!Passes
      /\ wsite \in Automation!SiteRecords /\ UNCHANGED <<ids, news, hands>>
      /\ wsite' = [wsite EXCEPT !.had = @ \/ wsite.plugin # "missing"]
      /\ wsite.had => varnish.rec.seen
      /\ Automation!Here /\ (wsite.gone => wsite.had)
  BY DEF Automation!Look, Automation!Pass, AutomationInv, Automation!TypeOK, CopyIsCurrent,
     SeenIsRecorded
<1>2. /\ wsite' \in Automation!SiteRecords /\ wsite' = [wsite EXCEPT !.had = wsite'.had]
      /\ wsite'.wp = wsite.wp
      /\ wsite'.gone = wsite.gone /\ wsite'.id = wsite.id
      /\ wsite'.had = (wsite.had \/ wsite.plugin # "missing")
  BY <1>1 DEF Automation!SiteRecords
<1>3. /\ r \in Automation!PolicyRecords /\ r.seen = seen /\ starts \in Automation!PolicyRecords
      /\ starts.seen /\ seen \in BOOLEAN
  BY <1>1, PolicyIs DEF Automation!PolicyRecords, Automation!SiteRecords
<1>4. CASE Automation!Finish(r)
  <2> HIDE DEF r
  <2>1. QED
    BY <1>1, <1>2, <1>3, <1>4, PassFinishKeeps
<1>5. CASE /\ Automation!Intends(seen) /\ varnish' = [wpass.state EXCEPT !.rec = starts]
           /\ wpass' = [wpass EXCEPT !.at = "act", !.was = seen, !.state = varnish']
           /\ UNCHANGED wjob
  <2>1. /\ varnish' \in Automation!Policies /\ varnish'.rec = starts
        /\ varnish'.enabled = varnish.enabled
    BY <1>1, <1>3, <1>5, PolicyIs
  <2>2. /\ wpass' \in Automation!Passes /\ wpass'.at = "act" /\ wpass'.was = seen
        /\ wpass'.state = varnish' /\ wpass'.kind = wpass.kind
    BY <1>1, <1>3, <1>5, <2>1 DEF Automation!Passes
  <2>3. wpass.kind # "install" => ~seen
    BY <1>1, <1>5 DEF Automation!Intends, Automation!SiteRecords, Automation!Plugins
  <2>4. wsite'.had => seen
    BY <1>1, <1>2
  <2>5. Automation!TypeOK'
    BY <1>1, <1>2, <1>5, <2>1, <2>2 DEF AutomationInv, Automation!TypeOK
  <2>6. CopyIsCurrent' /\ SeenIsRecorded'
    BY <1>1, <1>2, <1>3, <2>1, <2>2, <2>3, <2>4 DEF CopyIsCurrent, SeenIsRecorded,
       Automation!Here
  <2>7. QED
    BY <2>1, <2>5, <2>6 DEF AutomationInv
<1>6. QED
  BY <1>4, <1>5 DEF Automation!Look

(* A pass that has looked again ends.                                      *)
LEMMA PassEndsKeep ==
  ASSUME AutomationInv,
         \/ Automation!LookFails \/ Automation!ActFails
         \/ Automation!Recheck \/ Automation!RecheckFails
  PROVE  AutomationInv' /\ varnish'.enabled = varnish.enabled
<1> DEFINE failed == [status |-> "error", seen |-> wpass.state.rec.seen]
           unmade == [status |-> "error", seen |-> wpass.was]
           checked == [status |-> IF wsite.plugin = "active" THEN "active" ELSE "error",
                       seen |-> TRUE]
<1>1. /\ wpass.at # "idle" /\ wpass.state = varnish /\ varnish \in Automation!Policies
      /\ wpass \in Automation!Passes
      /\ wsite \in Automation!SiteRecords /\ UNCHANGED <<wsite, ids, news, hands>>
      /\ (wsite.had => Automation!Here) /\ (wsite.gone => wsite.had)
  BY DEF Automation!LookFails, Automation!ActFails, Automation!Recheck,
     Automation!RecheckFails, Automation!Failed, Automation!Pass, AutomationInv,
     Automation!TypeOK, CopyIsCurrent, SeenIsRecorded
<1>2. /\ failed \in Automation!PolicyRecords /\ unmade \in Automation!PolicyRecords
      /\ checked \in Automation!PolicyRecords
      /\ failed.seen = varnish.rec.seen /\ unmade.seen = wpass.was /\ checked.seen
  <2>1. /\ wpass.state.rec.seen = varnish.rec.seen /\ varnish.rec.seen \in BOOLEAN
        /\ wpass.was \in BOOLEAN
    BY <1>1, PolicyIs DEF Automation!Passes
  <2>2. QED
    BY <2>1 DEF Automation!PolicyRecords, Automation!Plugins
<1>3. /\ wsite' \in Automation!SiteRecords /\ wsite' = [wsite EXCEPT !.had = wsite'.had]
      /\ wsite'.had = wsite.had
  BY <1>1 DEF Automation!SiteRecords
<1>4. \/ Automation!Finish(failed) /\ wpass.at \in {"look", "recheck"}
      \/ Automation!Finish(unmade) /\ wpass.at = "act"
      \/ Automation!Finish(checked)
  BY DEF Automation!LookFails, Automation!ActFails, Automation!Recheck,
     Automation!RecheckFails, Automation!Failed
<1>5. /\ wpass.at \in {"look", "recheck"} /\ wsite.had => varnish.rec.seen
      /\ wpass.at = "act" /\ wsite.had => wpass.was
  BY DEF AutomationInv, SeenIsRecorded
<1> HIDE DEF failed, unmade, checked
<1>6. CASE Automation!Finish(failed) /\ wpass.at \in {"look", "recheck"}
  BY <1>1, <1>2, <1>3, <1>5, <1>6, PassFinishKeeps
<1>7. CASE Automation!Finish(unmade) /\ wpass.at = "act"
  BY <1>1, <1>2, <1>3, <1>5, <1>7, PassFinishKeeps
<1>8. CASE Automation!Finish(checked)
  BY <1>1, <1>2, <1>3, <1>8, PassFinishKeeps
<1>9. QED
  BY <1>4, <1>6, <1>7, <1>8

(* A pass installs, activates or takes out.                                *)
LEMMA PassActKeeps ==
  ASSUME AutomationInv, Automation!Act
  PROVE  AutomationInv'
<1>1. /\ wpass.at = "act" /\ wsite \in Automation!SiteRecords /\ wpass \in Automation!Passes
      /\ wsite.wp /\ Automation!Here /\ varnish.rec.seen
      /\ wpass.state = varnish
      /\ wsite' = [wsite EXCEPT !.plugin = "active", !.had = TRUE, !.gone = FALSE]
      /\ wpass' = [wpass EXCEPT !.at = "recheck"] /\ UNCHANGED <<varnish, wjob, ids, news, hands>>
  BY DEF Automation!Act, Automation!Pass, AutomationInv, Automation!TypeOK, SeenIsRecorded,
     CopyIsCurrent
<1>2. /\ wsite' \in Automation!SiteRecords /\ wsite'.wp = wsite.wp /\ wsite'.id = wsite.id
      /\ wsite'.had /\ ~wsite'.gone
  BY <1>1 DEF Automation!SiteRecords, Automation!Plugins
<1>3. wpass' \in Automation!Passes /\ wpass'.at = "recheck" /\ wpass'.state = wpass.state
  BY <1>1 DEF Automation!Passes
<1>4. Automation!TypeOK'
  BY <1>1, <1>2, <1>3 DEF AutomationInv, Automation!TypeOK
<1>5. CopyIsCurrent' /\ SeenIsRecorded'
  BY <1>1, <1>2, <1>3 DEF AutomationInv, CopyIsCurrent, SeenIsRecorded, Automation!Here
<1>6. QED
  BY <1>4, <1>5 DEF AutomationInv

(* A pass is killed.                                                       *)
LEMMA PassKilledKeeps ==
  ASSUME AutomationInv, Automation!PassKilled
  PROVE  AutomationInv'
<1>1. /\ wpass.at # "idle" /\ wpass' = Automation!NotPassing
      /\ UNCHANGED <<wsite, varnish, ids, news, hands>>
  BY DEF Automation!PassKilled, Automation!Unlocked, Automation!Pass
<1>2. wpass' \in Automation!Passes /\ wpass'.at = "idle"
  BY <1>1 DEF Automation!NotPassing, Automation!Passes, Automation!Kinds, Automation!Policies,
     Automation!NoRec, Automation!PolicyRecords, Automation!Plugins
<1>3. wsite.had => varnish.rec.seen
  BY <1>1 DEF AutomationInv, Automation!TypeOK, Automation!Passes, SeenIsRecorded
<1>4. Automation!TypeOK'
  BY <1>1, <1>2 DEF AutomationInv, Automation!TypeOK, Automation!PassKilled
<1>5. CopyIsCurrent' /\ SeenIsRecorded'
  BY <1>1, <1>2, <1>3 DEF AutomationInv, CopyIsCurrent, SeenIsRecorded, Automation!Here
<1>6. QED
  BY <1>4, <1>5 DEF AutomationInv

(* The record of new sites asks for a pass.                                *)
LEMMA ReconcileKeeps ==
  ASSUME AutomationInv, Automation!reconcileWpNewSites \/ Automation!Expires
  PROVE  AutomationInv'
<1>1. UNCHANGED <<wsite, ids, varnish, wpass, hands>>
  BY DEF Automation!reconcileWpNewSites, Automation!Expires
<1> DEFINE News == [known : BOOLEAN, pending : BOOLEAN, wp : BOOLEAN, tried : BOOLEAN]
<1>2. /\ news \in News /\ (news.tried => news.pending) /\ wsite \in Automation!SiteRecords
      /\ wjob \in {"none", "queued", "running", "ended"}
  BY DEF AutomationInv, Automation!TypeOK
<1>3. /\ Automation!Noted \in News /\ (Automation!Noted.tried => Automation!Noted.pending)
  BY <1>2 DEF Automation!Noted, Automation!Here
<1>4. /\ news' \in News /\ (news'.tried => news'.pending)
      /\ wjob' \in {"none", "queued", "running", "ended"}
  <2>1. CASE Automation!Expires
    BY <1>2, <2>1 DEF Automation!Expires
  <2>2. CASE Automation!reconcileWpNewSites
    <3> DEFINE ready == Automation!Noted.pending /\ wsite.wp
               runs == /\ ready /\ Automation!Owed /\ ~Automation!Noted.tried
                       /\ wjob \in {"none", "ended"}
    <3>1. \/ news' = [Automation!Noted EXCEPT !.pending = FALSE, !.wp = FALSE, !.tried = FALSE]
          \/ news' = [Automation!Noted EXCEPT !.wp = ready, !.tried = @ \/ runs]
      BY <2>2 DEF Automation!reconcileWpNewSites
    <3>2. wjob' \in {wjob, "queued"}
      BY <2>2 DEF Automation!reconcileWpNewSites
    <3>3. ready \in BOOLEAN /\ runs \in BOOLEAN /\ (runs => Automation!Noted.pending)
      BY <1>2, <1>3 DEF Automation!SiteRecords
    <3> HIDE DEF ready, runs
    <3>4. QED
      BY <1>2, <1>3, <3>1, <3>2, <3>3
  <2>3. QED
    BY <2>1, <2>2
<1>5. Automation!TypeOK'
  BY <1>1, <1>4 DEF AutomationInv, Automation!TypeOK
<1>6. CopyIsCurrent' /\ SeenIsRecorded'
  BY <1>1 DEF AutomationInv, CopyIsCurrent, SeenIsRecorded, Automation!Here
<1>7. QED
  BY <1>5, <1>6 DEF AutomationInv

(* The invariant is inductive, and under it a plugin taken out is never    *)
(* put back and a setting is only changed by the operator.                 *)
LEMMA AutomationGoesOn ==
  ASSUME Automation!ConstantsOK, AutomationInv, [Automation!Next]_(Automation!autoVars)
  PROVE  AutomationInv' /\ Automation!NeverPutBackStep /\ Automation!SettingKeptStep
<1>1. AutomationInv'
  <2>1. CASE \E kind \in Automation!Kinds : Automation!Start(kind, FALSE)
    BY <2>1, PassStartKeeps
  <2>2. CASE Automation!Start("check", TRUE)
    BY <2>2, PassStartKeeps DEF Automation!Kinds
  <2>3. CASE UNCHANGED Automation!autoVars
    BY <2>3 DEF Automation!autoVars, AutomationInv, Automation!TypeOK, CopyIsCurrent,
       SeenIsRecorded, Automation!Here
  <2>4. QED
    BY <2>1, <2>2, <2>3, WpPanelMoves, ConfigureKeeps, PassLookKeeps, PassEndsKeep,
       PassActKeeps, PassKilledKeeps, ReconcileKeeps DEF Automation!Next
<1>2. Automation!NeverPutBackStep
  <2>1. wsite.gone /\ wpass.at = "act" => wpass.kind = "install"
    BY DEF AutomationInv, SeenIsRecorded
  <2>2. QED
    BY <2>1 DEF Automation!NeverPutBackStep
<1>3. Automation!SettingKeptStep
  <2>1. SUFFICES ASSUME hands' = hands PROVE varnish'.enabled = varnish.enabled
    BY DEF Automation!SettingKeptStep
  <2>2. ~Automation!configureVarnish
    BY <2>1 DEF Automation!configureVarnish, Automation!configureBeside, AutomationInv,
       Automation!TypeOK
  <2>3. ASSUME NEW kind, NEW job, Automation!Start(kind, job)
        PROVE  varnish'.enabled = varnish.enabled
    BY <2>3, PolicyIs DEF Automation!Start, AutomationInv, Automation!TypeOK
  <2>4. CASE \/ Automation!SiteComes \/ Automation!WpComes \/ Automation!SiteGoes
             \/ Automation!ByHand \/ Automation!Act \/ Automation!PassKilled
             \/ Automation!reconcileWpNewSites \/ Automation!Expires
             \/ UNCHANGED Automation!autoVars
    BY <2>4 DEF Automation!SiteComes, Automation!WpComes, Automation!SiteGoes,
       Automation!ByHand, Automation!Panel, Automation!Act, Automation!PassKilled,
       Automation!reconcileWpNewSites, Automation!Expires, Automation!autoVars
  <2>5. QED
    BY <2>2, <2>3, <2>4, PassLookKeeps, PassEndsKeep DEF Automation!Next
<1>4. QED
  BY <1>1, <1>2, <1>3

(* Its invariant while a behaviour is about it.                            *)
AutomationHolds == part = "auto" => AutomationInv

LEMMA AutomationHoldsAtFirst == Init => AutomationHolds
<1>1. SUFFICES ASSUME Init, part = "auto" PROVE AutomationInv
  BY DEF AutomationHolds
<1>2. Automation!Init
  BY <1>1 DEF Init
<1>3. QED
  BY <1>2, Constants, AutomationStarts

LEMMA AutomationMoves ==
  ASSUME [Next]_vars, part' = "auto"
  PROVE  part = "auto" /\ [Automation!Next]_(Automation!autoVars)
<1>1. part = "auto" /\ (Automation!Next \/ UNCHANGED autoVars)
  BY DEF Next, vars
<1>2. QED
  BY <1>1 DEF autoVars, Automation!autoVars

LEMMA AutomationHoldsOn == AutomationHolds /\ [Next]_vars => AutomationHolds'
<1>1. SUFFICES ASSUME AutomationHolds, [Next]_vars, part' = "auto"
               PROVE  AutomationInv'
  BY DEF AutomationHolds
<1>2. AutomationInv /\ [Automation!Next]_(Automation!autoVars)
  BY <1>1, AutomationMoves DEF AutomationHolds
<1>3. QED
  BY <1>2, Constants, AutomationGoesOn

(* The policy, the record and the pass of the automation are of their      *)
(* types, of any number of sites that come and go.                         *)
THEOREM AutomationTyped ==
  Spec => [](part = "auto" => Automation!TypeOK)
<1>1. Init => AutomationHolds
  BY AutomationHoldsAtFirst
<1>2. AutomationHolds /\ [Next]_vars => AutomationHolds'
  BY AutomationHoldsOn
<1>3. AutomationHolds
        => (part = "auto" => Automation!TypeOK)
  BY DEF AutomationHolds, AutomationInv
<1>4. QED
  BY <1>1, <1>2, <1>3, PTL DEF Spec

(* A plugin an administrator took out is not put back by the automation,   *)
(* and no pass, killed or not, changes what the operator switched.         *)
THEOREM AutomationLeavesTheRest ==
  Spec => [][part = "auto" => /\ Automation!NeverPutBackStep
                              /\ Automation!SettingKeptStep]_vars
<1>1. Init => AutomationHolds
  BY AutomationHoldsAtFirst
<1>2. AutomationHolds /\ [Next]_vars => AutomationHolds'
  BY AutomationHoldsOn
<1>3. AutomationHolds /\ [Next]_vars
        => [part = "auto" => /\ Automation!NeverPutBackStep
                             /\ Automation!SettingKeptStep]_vars
  <2>1. SUFFICES ASSUME AutomationHolds, Next, part = "auto"
                 PROVE  Automation!NeverPutBackStep /\ Automation!SettingKeptStep
    OBVIOUS
  <2>2. AutomationInv /\ Automation!Next
    BY <2>1 DEF AutomationHolds, Next
  <2>3. QED
    BY <2>2, Constants, AutomationGoesOn
<1>4. QED
  BY <1>1, <1>2, <1>3, PTL DEF Spec

-----------------------------------------------------------------------------
(* Sign-in. Whoever signs in has a site; at the token and after it         *)
(* WordPress is a site's, and nobody withdraws the helper.                 *)
SignsIn == /\ signer \in [at : {"idle", "asked", "mint", "open"}, site : WpSites \cup {"none"},
                           root : WpRoots \cup {"none"}, allow : SUBSET SignIn!Gates, blocked : SUBSET SignIn!Gates]
           /\ signer.at # "idle" => signer.site \in WpSites
           /\ signer.at = "mint" => SignIn!Place \in SignIn!Places
           /\ signer.at \in {"mint", "open"} => wpConfig /\ withdrawal.at = "idle"

(* A withdrawal goes over the places before it takes the setting off: what *)
(* it has still to look at, failed at or skipped is where a helper can be  *)
(* left.                                                                   *)
Withdraws ==
  /\ withdrawal \in [at : {"idle", "sites"}, sites : SUBSET SignIn!Places, failed : SUBSET SignIn!Places]
  /\ withdrawal.at = "idle" => withdrawal.sites = {}
  /\ withdrawal.at = "sites"
         => wpConfig /\ loader \subseteq withdrawal.sites \cup withdrawal.failed \cup skipped

(* The inductive invariant of the sign-in helper.                          *)
SignInInv == SignIn!TypeOK /\ SignIn!WithdrawnLeavesNone /\ mints \in Nat /\ SignsIn /\ Withdraws

(* Nobody signs in at first.                                               *)
LEMMA SignInStarts == SignIn!ConstantsOK /\ SignIn!Init => SignInInv
<1> SUFFICES ASSUME SignIn!ConstantsOK, SignIn!Init PROVE SignInInv
  OBVIOUS
<1>1. SignIn!TypeOK
  BY DEF SignIn!Init, SignIn!TypeOK, SignIn!ConstantsOK, SignIn!NotSigning,
     SignIn!NotWithdrawing, SignIn!Gates
<1>2. QED
  BY <1>1 DEF SignIn!Init, SignInInv, SignsIn, Withdraws, SignIn!NotSigning,
     SignIn!NotWithdrawing, SignIn!WithdrawnLeavesNone, SignIn!Gates

(* Every step of the sign-in, of the withdrawal and of the operator keeps  *)
(* it.                                                                     *)
LEMMA SignInGoesOn ==
  ASSUME SignIn!ConstantsOK, SignInInv, [SignIn!Next]_(SignIn!signVars)
  PROVE  SignInInv'
<1> USE DEF SignInInv, SignsIn, Withdraws, SignIn!TypeOK, SignIn!WithdrawnLeavesNone,
        SignIn!NotSigning, SignIn!NotWithdrawing
<1>1. ASSUME NEW s \in WpSites, SignIn!OperatorGates(s) PROVE SignInInv'
  BY <1>1 DEF SignIn!OperatorGates, SignIn!Place
<1>2. ASSUME NEW s \in WpSites, SignIn!Ask(s) PROVE SignInInv'
  BY <1>2 DEF SignIn!Ask, SignIn!Signer, SignIn!Elsewhere
<1>16. ASSUME NEW s \in WpSites, SignIn!OperatorMoves(s) PROVE SignInInv'
  BY <1>16 DEF SignIn!OperatorMoves, SignIn!Place
<1>3. ASSUME NEW p \in SignIn!Places, SignIn!Redeem(p) PROVE SignInInv'
  BY <1>3 DEF SignIn!Redeem, SignIn!ConstantsOK, SignIn!Place
<1>4. ASSUME NEW p \in SignIn!Places, SignIn!removeWpLogin(p) PROVE SignInInv'
  <2>1. CASE /\ loader' = loader \ {p} /\ secret' = [secret EXCEPT ![p] = 0]
             /\ withdrawal' = [withdrawal EXCEPT !.sites = @ \ {p}]
    BY <1>4, <2>1 DEF SignIn!removeWpLogin, SignIn!Withdrawing, SignIn!ConstantsOK, SignIn!Place
  <2>2. CASE /\ withdrawal' = [withdrawal EXCEPT !.sites = @ \ {p}, !.failed = @ \cup {p}]
             /\ UNCHANGED <<loader, secret>>
    BY <1>4, <2>2 DEF SignIn!removeWpLogin, SignIn!Withdrawing, SignIn!Place
  <2>3. QED
    BY <1>4, <2>1, <2>2 DEF SignIn!removeWpLogin
<1>5. CASE SignIn!Enter
  <2>1. CASE SignIn!Reply
    BY <1>5, <2>1 DEF SignIn!Enter, SignIn!Signer, SignIn!Elsewhere, SignIn!Reply
  <2>2. CASE /\ signer' = [signer EXCEPT !.at = "mint", !.root = wpRoot[signer.site], !.blocked = gates[signer.site]]
             /\ wpConfig /\ wpRoot[signer.site] # "none"
    <3>1. signer.site \in WpSites /\ wpRoot[signer.site] \in WpRoots
      BY <1>5, <2>2 DEF SignIn!Enter
    <3>2. SignIn!Place' \in SignIn!Places
      BY <2>2, <3>1 DEF SignIn!Place, SignIn!Places
    <3>3. QED
      BY <1>5, <2>2, <3>1, <3>2 DEF SignIn!Enter, SignIn!Signer, SignIn!Elsewhere, SignIn!Unlocked
  <2>3. QED
    BY <1>5, <2>1, <2>2 DEF SignIn!Enter
<1>6. CASE SignIn!mintWpLogin
  BY <1>6 DEF SignIn!mintWpLogin, SignIn!Signer, SignIn!Elsewhere, SignIn!ConstantsOK
<1>7. CASE SignIn!MintFails
  BY <1>7 DEF SignIn!MintFails, SignIn!Signer, SignIn!Elsewhere, SignIn!Reply
<1>8. CASE SignIn!Open
  BY <1>8 DEF SignIn!Open, SignIn!Signer, SignIn!Reply
<1>9. CASE SignIn!SignerKilled
  BY <1>9 DEF SignIn!SignerKilled, SignIn!Signer, SignIn!Elsewhere, SignIn!Reply
<1>10. CASE SignIn!Disable
  BY <1>10 DEF SignIn!Disable, SignIn!Withdrawing, SignIn!Unlocked, SignIn!Resolved
<1>11. CASE SignIn!removeConfig
  BY <1>11 DEF SignIn!removeConfig, SignIn!Withdrawing
<1>12. CASE SignIn!DisableKilled
  BY <1>12 DEF SignIn!DisableKilled, SignIn!Withdrawing
<1>13. CASE SignIn!Enable
  BY <1>13 DEF SignIn!Enable, SignIn!Withdrawing
<1>14. CASE UNCHANGED SignIn!signVars
  BY <1>14 DEF SignIn!signVars, SignIn!Place
<1>15. QED
  BY <1>1, <1>2, <1>3, <1>4, <1>5, <1>6, <1>7, <1>8, <1>9, <1>10, <1>11, <1>12, <1>13, <1>14, <1>16
     DEF SignIn!Next

(* Its invariant while a behaviour is about it.                            *)
SignInHolds == part = "sign" => SignInInv

LEMMA SignInHoldsAtFirst == Init => SignInHolds
<1>1. SUFFICES ASSUME Init, part = "sign" PROVE SignInInv
  BY DEF SignInHolds
<1>2. SignIn!Init
  BY <1>1 DEF Init
<1>3. QED
  BY <1>2, Constants, SignInStarts

LEMMA SignInMoves ==
  ASSUME [Next]_vars, part' = "sign"
  PROVE  part = "sign" /\ [SignIn!Next]_(SignIn!signVars)
<1>1. part = "sign" /\ (SignIn!Next \/ UNCHANGED signVars)
  BY DEF Next, vars
<1>2. QED
  BY <1>1 DEF signVars, SignIn!signVars

LEMMA SignInHoldsOn == SignInHolds /\ [Next]_vars => SignInHolds'
<1>1. SUFFICES ASSUME SignInHolds, [Next]_vars, part' = "sign"
               PROVE  SignInInv'
  BY DEF SignInHolds
<1>2. SignInInv /\ [SignIn!Next]_(SignIn!signVars)
  BY <1>1, SignInMoves DEF SignInHolds
<1>3. QED
  BY <1>2, Constants, SignInGoesOn

(* Once the addon is disabled no site has a sign-in helper but where the   *)
(* disable said so or a place it did not resolve to, of any sites, roots,  *)
(* gates and tokens and wherever the sign-in or the withdrawal dies        *)
(* (removeWpLogin).                                                        *)
THEOREM SignInLeavesNone ==
  Spec => [](part = "sign" => /\ SignIn!TypeOK
                              /\ SignIn!WithdrawnLeavesNone)
<1>1. Init => SignInHolds
  BY SignInHoldsAtFirst
<1>2. SignInHolds /\ [Next]_vars => SignInHolds'
  BY SignInHoldsOn
<1>3. SignInHolds
        => (part = "sign" => /\ SignIn!TypeOK
                             /\ SignIn!WithdrawnLeavesNone)
  BY DEF SignInHolds, SignInInv
<1>4. QED
  BY <1>1, <1>2, <1>3, PTL DEF Spec

-----------------------------------------------------------------------------
(* Instatic. The operations that put a new container in the place of one.  *)
Replaces == {"update", "recreate", "restore"}

(* Where an operation is says what it is, what it has done so far, and     *)
(* whether there is an instance.                                           *)
VerbOfPlace ==
  /\ op.at = "idle" <=> op.verb = "none"
  /\ op.at = "idle" => op = Instance!Idle
  /\ op.verb = "create" => op.at \in Instance!Creating /\ ~Instance!Recorded /\ op.tag = 1
  /\ op.verb \in Replaces => op.at \in Instance!Replacing /\ Instance!Recorded /\ op.tag # 0
  /\ op.verb = "delete" => op.at \in Instance!Deleting /\ Instance!Recorded
  /\ op.verb = "restore" => meta.home
  /\ op.verb = "restore" /\ op.at \in {"start", "health"} => op.changed
  /\ op.at = "replace" /\ op.changed => op.verb = "restore"
  /\ op.at = "drop" => meta.home
  /\ op.candidate \/ op.changed \/ op.renamed \/ op.was => op.verb \in Replaces
  /\ op.at = "health" => op.verb = "create" \/ op.candidate
  /\ op.at = "undo-copy" => ~Instance!Legacy /\ Instance!Touched
  /\ op.candidate => op.at \in {"health", "drop"} \cup Instance!Undoing
  /\ op.changed => /\ op.verb \in Replaces
                   /\ op.at \in {"replace", "start", "health", "drop"} \cup Instance!Undoing
  /\ op.renamed => op.at \in {"replace", "start", "health", "drop"} \cup Instance!Undoing

(* The container is stopped before the data is touched, out of the way     *)
(* while it is, and gone before it is put back.                            *)
MainAway ==
  /\ op.at \in {"site", "storage", "start", "clean", "unsite", "unstore", "replace", "undo-copy"}
       => ~Instance!Present
  /\ op.at \in {"aside", "rename"} /\ Instance!Present => main.is = "stopped"
  /\ op.renamed /\ op.at # "undo-run" => prev.is = "stopped"
  /\ op.changed \/ op.renamed => op.candidate \/ main.is # "running"
  /\ op.changed /\ ~op.candidate /\ op.at \in Instance!Undoing \ {"undo-run"} => ~Instance!Present
  /\ op.candidate /\ op.at \in Instance!Undoing \ {"undo", "undo-run"} => ~Instance!Present

(* A container that is to run again is there, under its name or the        *)
(* other.                                                                  *)
WasThere ==
  /\ op.was /\ ~op.renamed => Instance!Present /\ ~op.candidate
  /\ op.renamed /\ op.at = "undo-run" => Instance!Present

(* A container for the site's home has data there.                         *)
MainHasData == Instance!Present /\ main.home => store # Instance!NoData

(* The key file is the data's, an instance not yet migrated has its data,  *)
(* and a site the addon says it made is not the operator's.                *)
PartsFit ==
  /\ store.k = env
  /\ Instance!Legacy => old # Instance!NoData
  /\ Instance!Legacy /\ op.at \in {"stop", "aside", "rename"} => store = Instance!NoData
  /\ native # Instance!NoBackup => meta.home
  /\ meta.created \/ op.made => instanceSite # "operator"
  /\ op.verb = "create" /\ op.at \in {"site", "storage", "start"}
       => instanceKeys < InstanceMaxKeys

(* No copy is later than the last write.                                   *)
NoneLater ==
  /\ store.v <= cur /\ old.v <= cur /\ native.data.v <= cur /\ kept <= cur /\ archives <= cur
  /\ op.aside.v <= cur /\ op.found.v <= cur /\ op.had <= cur

(* The instance has been stopped and set aside, and its replacement is     *)
(* not recorded.                                                           *)
Underway == /\ op.verb \in Replaces /\ op.at # "drop"
            /\ \/ op.renamed \/ op.changed \/ op.candidate
               \/ op.at \in {"rename", "replace", "start"}

(* Before the data may be lost the last write is in a copy.                *)
SetAside ==
  /\ op.verb = "create" /\ op.at = "health" => store.v = cur
  /\ op.at \in {"remove", "unsite", "unstore"} => cur \in {kept, archives}
  /\ op.verb \in {"update", "restore"} /\ op.at \in {"rename", "replace", "start", "health"}
       => cur \in {kept, archives}
  /\ Instance!Touched /\ ~Instance!Legacy /\ op.at # "drop"
       => op.verb # "recreate" /\ cur \in {kept, archives}

(* What an operation found is in the copy it set aside, in the old         *)
(* storage, or still in place; at the old container's return it is back.   *)
AsFound ==
  /\ op.at = "aside" => op.found = Instance!Storage
  /\ Underway
       => /\ op.verb # "recreate" \/ Instance!Legacy => op.aside = op.found
          /\ Instance!Legacy => old = op.found
          /\ ~Instance!Legacy /\ op.verb # "recreate" /\ ~Instance!Touched => store = op.found
          /\ op.verb # "recreate" /\ op.at \in {"undo-name", "undo-run"}
               => Instance!Storage = op.found
  /\ op.renamed /\ op.verb \in Replaces /\ op.at \notin {"drop", "undo-run"}
       => /\ Instance!Legacy => ~prev.home
          /\ ~Instance!Legacy /\ prev.home
               => (IF op.verb = "recreate" THEN store ELSE op.found) # Instance!NoData
  /\ Instance!Legacy /\ op.verb \in Replaces /\ op.at \in {"start", "health"}
       => store.v = old.v /\ store.k = old.k

(* A restore's copy goes with its undoing: by then the last write is       *)
(* elsewhere.                                                              *)
ComesBack ==
  op.verb = "restore"
    => \/ cur \in {op.had, archives}
       \/ IF op.changed /\ op.at \notin {"undo-name", "undo-run"}
          THEN op.found.v = cur ELSE store.v = cur

(* The inductive invariant of an instance.                                 *)
InstanceInv == /\ Instance!TypeOK /\ VerbOfPlace /\ MainAway /\ WasThere /\ MainHasData
               /\ PartsFit /\ NoneLater /\ SetAside /\ AsFound /\ ComesBack
               /\ Instance!NothingLost

(* What the parts of the state are.                                        *)
LEMMA NoDataIs ==
  /\ Instance!NoData \in Instance!Data /\ Instance!NoData.v = 0 /\ Instance!NoData.k = 0
  /\ Instance!NoData.s = 0
  BY DEF Instance!NoData, Instance!Data

LEMMA IdleOperation ==
  ASSUME Instance!ConstantsOK
  PROVE  /\ Instance!Idle \in Instance!Operations /\ Instance!Idle.verb = "none"
         /\ Instance!Idle.at = "idle" /\ Instance!Idle.tag = 0
         /\ ~Instance!Idle.was /\ ~Instance!Idle.renamed /\ ~Instance!Idle.candidate
         /\ ~Instance!Idle.changed /\ ~Instance!Idle.made /\ ~Instance!Idle.owns
         /\ Instance!Idle.aside = Instance!NoData /\ Instance!Idle.found = Instance!NoData
         /\ Instance!Idle.had = 0
  BY NoDataIs DEF Instance!Idle, Instance!Operations, Instance!ConstantsOK

LEMMA AbsentContainer ==
  ASSUME Instance!ConstantsOK
  PROVE  /\ Instance!Absent \in Instance!Containers /\ Instance!Absent.is = "none"
         /\ ~Instance!Absent.home
  BY DEF Instance!Absent, Instance!Containers, Instance!ConstantsOK

(* Storage and record are read.                                            *)
LEMMA ReadsStorage ==
  ASSUME Instance!TypeOK
  PROVE  /\ Instance!Storage \in Instance!Data
         /\ meta \in [tag : 0..MaxTag, created : BOOLEAN, home : BOOLEAN]
         /\ op \in Instance!Operations
  BY DEF Instance!TypeOK, Instance!Storage

LEMMA InstanceDataIs ==
  ASSUME Instance!ConstantsOK, NEW d \in Instance!Data
  PROVE  /\ d.v \in 0..MaxWrites /\ d.k \in 0..InstanceMaxKeys /\ d.s \in 0..MaxTag
         /\ (d # Instance!NoData) = (d.v # 0)
<1>1. CASE d = Instance!NoData
  BY <1>1, NoDataIs DEF Instance!ConstantsOK
<1>2. CASE d # Instance!NoData
  BY <1>2, NoDataIs DEF Instance!Data, Instance!ConstantsOK
<1>3. QED
  BY <1>1, <1>2

(* A container that starts, or a visitor, changes data that is there, not  *)
(* its key.                                                                *)
LEMMA MigratedIs ==
  ASSUME Instance!ConstantsOK, NEW d \in Instance!Data, d # Instance!NoData, NEW t \in 0..MaxTag
  PROVE  /\ Instance!Migrated(d, t) \in Instance!Data /\ Instance!Migrated(d, t) # Instance!NoData
         /\ Instance!Migrated(d, t).v = d.v /\ Instance!Migrated(d, t).k = d.k
  BY DEF Instance!Data, Instance!NoData, Instance!Migrated, Instance!Newer, Instance!ConstantsOK

LEMMA WrittenIs ==
  ASSUME Instance!ConstantsOK, NEW d \in Instance!Data, d # Instance!NoData,
         NEW w \in 1..MaxWrites
  PROVE  /\ [d EXCEPT !.v = w] \in Instance!Data /\ [d EXCEPT !.v = w] # Instance!NoData
         /\ [d EXCEPT !.v = w].v = w /\ [d EXCEPT !.v = w].k = d.k
  BY DEF Instance!Data, Instance!NoData, Instance!ConstantsOK

(* Visitors and the operator, outside any operation.                       *)
LEMMA InstanceWriteKeeps ==
  ASSUME Instance!ConstantsOK, InstanceInv, Instance!Write
  PROVE  InstanceInv'
<1> USE IdleOperation, NoDataIs DEF
      InstanceInv, Instance!Absent, Instance!Recorded, Instance!Present, Instance!Legacy,
      Instance!Storage, Instance!Key, Instance!At, Instance!NoMeta, Instance!NoBackup,
      Instance!containers, Instance!data, Instance!copies, Instance!counts
<1>0. /\ op \in Instance!Operations /\ op.verb # "delete" /\ main.is = "running"
      /\ Instance!Present /\ ~op.candidate
      /\ Instance!Recorded /\ main.home = meta.home
      /\ cur' = cur + 1 /\ cur + 1 \in 1..MaxWrites
      /\ IF Instance!Legacy
           THEN /\ store' = store /\ old' \in Instance!Data /\ old' # Instance!NoData
                /\ old'.v = cur + 1
                /\ old'.k = old.k /\ old # Instance!NoData
           ELSE /\ old' = old /\ store' \in Instance!Data /\ store' # Instance!NoData
                /\ store'.v = cur + 1
                /\ store'.k = store.k /\ store # Instance!NoData
      /\ UNCHANGED <<instanceSite, meta, Instance!containers, env, Instance!copies,
                     instanceKeys, instanceKills, op>>
  <2>1. cur + 1 \in 1..MaxWrites
    BY DEF Instance!Write, Instance!TypeOK, Instance!ConstantsOK
  <2>2. CASE Instance!Legacy
    <3>1. old \in Instance!Data /\ old # Instance!NoData
      BY <2>2 DEF Instance!TypeOK, PartsFit
    <3>2. old' = [old EXCEPT !.v = cur + 1] /\ store' = store
      BY <2>2 DEF Instance!Write
    <3>3. old' \in Instance!Data /\ old' # Instance!NoData /\ old'.v = cur + 1 /\ old'.k = old.k
      BY <2>1, <3>1, <3>2, WrittenIs
    <3>4. QED
      BY <2>1, <2>2, <3>1, <3>2, <3>3 DEF Instance!Write, Instance!TypeOK
  <2>3. CASE ~Instance!Legacy
    <3>1. store \in Instance!Data /\ store # Instance!NoData
      BY <2>3 DEF Instance!Write, Instance!TypeOK, MainHasData
    <3>2. store' = [store EXCEPT !.v = cur + 1] /\ old' = old
      BY <2>3 DEF Instance!Write
    <3>3. /\ store' \in Instance!Data /\ store' # Instance!NoData /\ store'.v = cur + 1
          /\ store'.k = store.k
      BY <2>1, <3>1, <3>2, WrittenIs
    <3>4. QED
      BY <2>1, <2>3, <3>1, <3>2, <3>3 DEF Instance!Write, Instance!TypeOK
  <2>4. QED
    BY <2>2, <2>3
<1>a. /\ ~(op.verb = "create")
      /\ op.at \notin {"remove", "unsite", "unstore", "rename", "replace", "start", "health"}
      /\ ~op.changed
  BY <1>0 DEF MainAway, VerbOfPlace, Instance!Operations, Instance!Deleting,
     Instance!Creating, Instance!Replacing, Instance!Undoing, Replaces
<1>1. Instance!TypeOK'
  <2>1. op' \in Instance!Operations
    BY <1>0, ReadsStorage DEF Instance!TypeOK, Instance!Operations, Instance!Creating,
       Instance!Replacing, Instance!Undoing, Instance!Deleting, Instance!ConstantsOK
  <2>2. /\ instanceSite' \in {"none", "addon", "operator"}
        /\ meta' \in [tag : 0..MaxTag, created : BOOLEAN, home : BOOLEAN]
    BY <1>0 DEF Instance!TypeOK, Instance!Operations, Instance!ConstantsOK
  <2>3. main' \in Instance!Containers /\ prev' \in Instance!Containers
    BY <1>0, AbsentContainer DEF Instance!TypeOK, Instance!Containers, Instance!Operations
  <2>4. /\ store' \in Instance!Data /\ old' \in Instance!Data
        /\ native' \in [data : Instance!Data, tag : 0..MaxTag]
    BY <1>0 DEF Instance!TypeOK, Instance!Data, Instance!Operations, Instance!ConstantsOK,
       PartsFit, VerbOfPlace, Instance!NoData
  <2>5. /\ kept' \in 0..MaxWrites /\ archives' \in 0..MaxWrites /\ cur' \in 1..MaxWrites
        /\ env' \in 0..InstanceMaxKeys /\ instanceKeys' \in 0..InstanceMaxKeys
        /\ instanceKills' \in 0..InstanceMaxKills
    BY <1>0 DEF Instance!TypeOK, Instance!Data, Instance!Operations, Instance!ConstantsOK,
       PartsFit, VerbOfPlace, Instance!NoData
  <2>6. QED
    BY <2>1, <2>2, <2>3, <2>4, <2>5 DEF Instance!TypeOK
<1>2. VerbOfPlace'
  BY <1>0, <1>a DEF VerbOfPlace, Instance!TypeOK, Instance!Operations, Replaces,
     Instance!Creating, Instance!Replacing, Instance!Undoing, Instance!Deleting,
     Instance!Touched
<1>3. MainAway'
  BY <1>0, <1>a DEF MainAway, VerbOfPlace, Instance!TypeOK, Instance!Operations,
     Instance!Containers, Instance!Undoing
<1>4. WasThere'
  BY <1>0, <1>a DEF WasThere, MainAway, VerbOfPlace, Instance!TypeOK, Instance!Operations,
     Instance!Containers, Instance!Undoing, Replaces
<1>5. MainHasData'
  BY <1>0, <1>a DEF MainHasData, MainAway, PartsFit, AsFound, VerbOfPlace, Instance!TypeOK,
     Instance!Containers, Instance!Operations, Instance!Data, Underway, Instance!Touched,
     Replaces, WasThere
<1>6. PartsFit'
  BY <1>0, <1>a DEF PartsFit, VerbOfPlace, Instance!TypeOK, Instance!Operations,
     Instance!Data, Replaces
<1>7. NoneLater'
  BY <1>0, <1>a DEF NoneLater, Instance!TypeOK, Instance!Operations, Instance!Data
<1>8. SetAside'
  BY <1>0, <1>a DEF SetAside, MainAway, Instance!NothingLost, NoneLater, VerbOfPlace,
     Instance!TypeOK, Instance!Operations, Instance!Data, Instance!Touched, Replaces,
     Instance!Undoing, PartsFit, WasThere
<1>9. AsFound'
  BY <1>0, <1>a DEF AsFound, SetAside, MainAway, MainHasData, VerbOfPlace, Instance!TypeOK,
     Instance!Operations, Instance!Data, Underway, Instance!Touched, Replaces,
     Instance!Undoing, PartsFit, WasThere
<1>10. ComesBack'
  BY <1>0, <1>a DEF ComesBack, AsFound, SetAside, MainAway, Instance!NothingLost, VerbOfPlace,
     Instance!TypeOK, Instance!Operations, Instance!Data, Underway, Instance!Touched,
     Replaces, PartsFit, WasThere
<1>11. Instance!NothingLost'
  BY <1>0, <1>a DEF Instance!NothingLost, SetAside, ComesBack, AsFound, PartsFit, NoneLater,
     MainAway, VerbOfPlace, Instance!TypeOK, Instance!Operations, Instance!Data, Underway,
     Instance!Touched, Replaces, WasThere
<1>12. QED
  BY <1>1, <1>2, <1>3, <1>4, <1>5, <1>6, <1>7, <1>8, <1>9, <1>10, <1>11

LEMMA InstanceOperatorAddsKeeps ==
  ASSUME Instance!ConstantsOK, InstanceInv, Instance!OperatorAdds
  PROVE  InstanceInv'
<1> USE IdleOperation, NoDataIs DEF
      InstanceInv, Instance!OperatorAdds, Instance!Absent, Instance!Recorded,
      Instance!Present, Instance!Legacy, Instance!Storage, Instance!Key, Instance!At,
      Instance!NoMeta, Instance!NoBackup, Instance!containers, Instance!data, Instance!copies,
      Instance!counts
<1>0. op = Instance!Idle /\ op.verb = "none"
  BY DEF VerbOfPlace
<1>1. Instance!TypeOK'
  <2>1. op' \in Instance!Operations
    BY <1>0, ReadsStorage DEF Instance!TypeOK, Instance!Operations, Instance!Creating,
       Instance!Replacing, Instance!Undoing, Instance!Deleting, Instance!ConstantsOK
  <2>2. /\ instanceSite' \in {"none", "addon", "operator"}
        /\ meta' \in [tag : 0..MaxTag, created : BOOLEAN, home : BOOLEAN]
    BY <1>0 DEF Instance!TypeOK, Instance!Operations, Instance!ConstantsOK
  <2>3. main' \in Instance!Containers /\ prev' \in Instance!Containers
    BY <1>0, AbsentContainer DEF Instance!TypeOK, Instance!Containers, Instance!Operations
  <2>4. /\ store' \in Instance!Data /\ old' \in Instance!Data
        /\ native' \in [data : Instance!Data, tag : 0..MaxTag]
    BY <1>0 DEF Instance!TypeOK, Instance!Data, Instance!Operations, Instance!ConstantsOK,
       PartsFit, VerbOfPlace, Instance!NoData
  <2>5. /\ kept' \in 0..MaxWrites /\ archives' \in 0..MaxWrites /\ cur' \in 1..MaxWrites
        /\ env' \in 0..InstanceMaxKeys /\ instanceKeys' \in 0..InstanceMaxKeys
        /\ instanceKills' \in 0..InstanceMaxKills
    BY <1>0 DEF Instance!TypeOK, Instance!Data, Instance!Operations, Instance!ConstantsOK,
       PartsFit, VerbOfPlace, Instance!NoData
  <2>6. QED
    BY <2>1, <2>2, <2>3, <2>4, <2>5 DEF Instance!TypeOK
<1>2. VerbOfPlace'
  BY <1>0 DEF VerbOfPlace, Instance!TypeOK, Instance!Operations, Replaces, Instance!Creating,
     Instance!Replacing, Instance!Undoing, Instance!Deleting, Instance!Touched
<1>3. MainAway'
  BY <1>0 DEF MainAway, VerbOfPlace, Instance!TypeOK, Instance!Operations,
     Instance!Containers, Instance!Undoing
<1>4. WasThere'
  BY <1>0 DEF WasThere, MainAway, VerbOfPlace, Instance!TypeOK, Instance!Operations,
     Instance!Containers, Instance!Undoing, Replaces
<1>5. MainHasData'
  BY <1>0 DEF MainHasData, MainAway, PartsFit, AsFound, VerbOfPlace, Instance!TypeOK,
     Instance!Containers, Instance!Operations, Instance!Data, Underway, Instance!Touched,
     Replaces, WasThere
<1>6. PartsFit'
  BY <1>0 DEF PartsFit, VerbOfPlace, Instance!TypeOK, Instance!Operations, Instance!Data,
     Replaces
<1>7. NoneLater'
  BY <1>0 DEF NoneLater, Instance!TypeOK, Instance!Operations, Instance!Data
<1>8. SetAside'
  BY <1>0 DEF SetAside, MainAway, Instance!NothingLost, NoneLater, VerbOfPlace,
     Instance!TypeOK, Instance!Operations, Instance!Data, Instance!Touched, Replaces,
     Instance!Undoing, PartsFit, WasThere
<1>9. AsFound'
  BY <1>0 DEF AsFound, SetAside, MainAway, MainHasData, VerbOfPlace, Instance!TypeOK,
     Instance!Operations, Instance!Data, Underway, Instance!Touched, Replaces,
     Instance!Undoing, PartsFit, WasThere
<1>10. ComesBack'
  BY <1>0 DEF ComesBack, AsFound, SetAside, MainAway, Instance!NothingLost, VerbOfPlace,
     Instance!TypeOK, Instance!Operations, Instance!Data, Underway, Instance!Touched,
     Replaces, PartsFit, WasThere
<1>11. Instance!NothingLost'
  BY <1>0 DEF Instance!NothingLost, SetAside, ComesBack, AsFound, PartsFit, NoneLater,
     MainAway, VerbOfPlace, Instance!TypeOK, Instance!Operations, Instance!Data, Underway,
     Instance!Touched, Replaces, WasThere
<1>12. QED
  BY <1>1, <1>2, <1>3, <1>4, <1>5, <1>6, <1>7, <1>8, <1>9, <1>10, <1>11

LEMMA InstanceLifecycleKeeps ==
  ASSUME Instance!ConstantsOK, InstanceInv, Instance!Lifecycle
  PROVE  InstanceInv'
<1> USE IdleOperation, NoDataIs DEF
      InstanceInv, Instance!Lifecycle, Instance!Absent, Instance!Recorded, Instance!Present,
      Instance!Legacy, Instance!Storage, Instance!Key, Instance!At, Instance!NoMeta,
      Instance!NoBackup, Instance!containers, Instance!data, Instance!copies, Instance!counts
<1>0. /\ op = Instance!Idle /\ op.verb = "none"
      /\ Instance!Present /\ main.home => /\ Instance!Migrated(store, main.tag) \in Instance!Data
                                          /\ Instance!Migrated(store, main.tag) # Instance!NoData
                                          /\ Instance!Migrated(store, main.tag).v = store.v
                                          /\ Instance!Migrated(store, main.tag).k = store.k
  <2>1. op = Instance!Idle /\ op.verb = "none"
    BY DEF VerbOfPlace
  <2>2. store \in Instance!Data /\ main.tag \in 0..MaxTag
    BY DEF Instance!TypeOK, Instance!Containers
  <2>3. Instance!Present /\ main.home => store # Instance!NoData
    BY DEF MainHasData
  <2>4. QED
    BY <2>1, <2>2, <2>3, MigratedIs
<1>1. Instance!TypeOK'
  <2>1. op' \in Instance!Operations
    BY <1>0, ReadsStorage DEF Instance!TypeOK, Instance!Operations, Instance!Creating,
       Instance!Replacing, Instance!Undoing, Instance!Deleting, Instance!ConstantsOK
  <2>2. /\ instanceSite' \in {"none", "addon", "operator"}
        /\ meta' \in [tag : 0..MaxTag, created : BOOLEAN, home : BOOLEAN]
    BY <1>0 DEF Instance!TypeOK, Instance!Operations, Instance!ConstantsOK
  <2>3. main' \in Instance!Containers /\ prev' \in Instance!Containers
    BY <1>0, AbsentContainer DEF Instance!TypeOK, Instance!Containers, Instance!Operations
  <2>4. /\ store' \in Instance!Data /\ old' \in Instance!Data
        /\ native' \in [data : Instance!Data, tag : 0..MaxTag]
    BY <1>0, MigratedIs DEF Instance!TypeOK, Instance!Data, Instance!Operations,
       Instance!ConstantsOK, PartsFit, VerbOfPlace, Instance!NoData
  <2>5. /\ kept' \in 0..MaxWrites /\ archives' \in 0..MaxWrites /\ cur' \in 1..MaxWrites
        /\ env' \in 0..InstanceMaxKeys /\ instanceKeys' \in 0..InstanceMaxKeys
        /\ instanceKills' \in 0..InstanceMaxKills
    BY <1>0 DEF Instance!TypeOK, Instance!Data, Instance!Operations, Instance!ConstantsOK,
       PartsFit, VerbOfPlace, Instance!NoData
  <2>6. QED
    BY <2>1, <2>2, <2>3, <2>4, <2>5 DEF Instance!TypeOK
<1>2. VerbOfPlace'
  BY <1>0 DEF VerbOfPlace, Instance!TypeOK, Instance!Operations, Replaces, Instance!Creating,
     Instance!Replacing, Instance!Undoing, Instance!Deleting, Instance!Touched
<1>3. MainAway'
  BY <1>0 DEF MainAway, VerbOfPlace, Instance!TypeOK, Instance!Operations,
     Instance!Containers, Instance!Undoing
<1>4. WasThere'
  BY <1>0 DEF WasThere, MainAway, VerbOfPlace, Instance!TypeOK, Instance!Operations,
     Instance!Containers, Instance!Undoing, Replaces
<1>5. MainHasData'
  BY <1>0 DEF MainHasData, MainAway, PartsFit, AsFound, VerbOfPlace, Instance!TypeOK,
     Instance!Containers, Instance!Operations, Instance!Data, Underway, Instance!Touched,
     Replaces, WasThere
<1>6. PartsFit'
  BY <1>0 DEF PartsFit, VerbOfPlace, Instance!TypeOK, Instance!Operations, Instance!Data,
     Replaces
<1>7. NoneLater'
  BY <1>0 DEF NoneLater, Instance!TypeOK, Instance!Operations, Instance!Data
<1>8. SetAside'
  BY <1>0 DEF SetAside, MainAway, Instance!NothingLost, NoneLater, VerbOfPlace,
     Instance!TypeOK, Instance!Operations, Instance!Data, Instance!Touched, Replaces,
     Instance!Undoing, PartsFit, WasThere
<1>9. AsFound'
  BY <1>0 DEF AsFound, SetAside, MainAway, MainHasData, VerbOfPlace, Instance!TypeOK,
     Instance!Operations, Instance!Data, Underway, Instance!Touched, Replaces,
     Instance!Undoing, PartsFit, WasThere
<1>10. ComesBack'
  BY <1>0 DEF ComesBack, AsFound, SetAside, MainAway, Instance!NothingLost, VerbOfPlace,
     Instance!TypeOK, Instance!Operations, Instance!Data, Underway, Instance!Touched,
     Replaces, PartsFit, WasThere
<1>11. Instance!NothingLost'
  BY <1>0 DEF Instance!NothingLost, SetAside, ComesBack, AsFound, PartsFit, NoneLater,
     MainAway, VerbOfPlace, Instance!TypeOK, Instance!Operations, Instance!Data, Underway,
     Instance!Touched, Replaces, WasThere
<1>12. QED
  BY <1>1, <1>2, <1>3, <1>4, <1>5, <1>6, <1>7, <1>8, <1>9, <1>10, <1>11

LEMMA InstanceMakeNativeBackupKeeps ==
  ASSUME Instance!ConstantsOK, InstanceInv, Instance!makeNativeBackup
  PROVE  InstanceInv'
<1> USE IdleOperation, NoDataIs DEF
      InstanceInv, Instance!makeNativeBackup, Instance!Absent, Instance!Recorded,
      Instance!Present, Instance!Legacy, Instance!Storage, Instance!Key, Instance!At,
      Instance!NoMeta, Instance!NoBackup, Instance!containers, Instance!data, Instance!copies,
      Instance!counts
<1>0. op = Instance!Idle /\ op.verb = "none"
  BY DEF VerbOfPlace
<1>1. Instance!TypeOK'
  <2>1. op' \in Instance!Operations
    BY <1>0, ReadsStorage DEF Instance!TypeOK, Instance!Operations, Instance!Creating,
       Instance!Replacing, Instance!Undoing, Instance!Deleting, Instance!ConstantsOK
  <2>2. /\ instanceSite' \in {"none", "addon", "operator"}
        /\ meta' \in [tag : 0..MaxTag, created : BOOLEAN, home : BOOLEAN]
    BY <1>0 DEF Instance!TypeOK, Instance!Operations, Instance!ConstantsOK
  <2>3. main' \in Instance!Containers /\ prev' \in Instance!Containers
    BY <1>0, AbsentContainer DEF Instance!TypeOK, Instance!Containers, Instance!Operations
  <2>4. /\ store' \in Instance!Data /\ old' \in Instance!Data
        /\ native' \in [data : Instance!Data, tag : 0..MaxTag]
    BY <1>0 DEF Instance!TypeOK, Instance!Data, Instance!Operations, Instance!ConstantsOK,
       PartsFit, VerbOfPlace, Instance!NoData
  <2>5. /\ kept' \in 0..MaxWrites /\ archives' \in 0..MaxWrites /\ cur' \in 1..MaxWrites
        /\ env' \in 0..InstanceMaxKeys /\ instanceKeys' \in 0..InstanceMaxKeys
        /\ instanceKills' \in 0..InstanceMaxKills
    BY <1>0 DEF Instance!TypeOK, Instance!Data, Instance!Operations, Instance!ConstantsOK,
       PartsFit, VerbOfPlace, Instance!NoData
  <2>6. QED
    BY <2>1, <2>2, <2>3, <2>4, <2>5 DEF Instance!TypeOK
<1>2. VerbOfPlace'
  BY <1>0 DEF VerbOfPlace, Instance!TypeOK, Instance!Operations, Replaces, Instance!Creating,
     Instance!Replacing, Instance!Undoing, Instance!Deleting, Instance!Touched
<1>3. MainAway'
  BY <1>0 DEF MainAway, VerbOfPlace, Instance!TypeOK, Instance!Operations,
     Instance!Containers, Instance!Undoing
<1>4. WasThere'
  BY <1>0 DEF WasThere, MainAway, VerbOfPlace, Instance!TypeOK, Instance!Operations,
     Instance!Containers, Instance!Undoing, Replaces
<1>5. MainHasData'
  BY <1>0 DEF MainHasData, MainAway, PartsFit, AsFound, VerbOfPlace, Instance!TypeOK,
     Instance!Containers, Instance!Operations, Instance!Data, Underway, Instance!Touched,
     Replaces, WasThere
<1>6. PartsFit'
  BY <1>0 DEF PartsFit, VerbOfPlace, Instance!TypeOK, Instance!Operations, Instance!Data,
     Replaces
<1>7. NoneLater'
  BY <1>0 DEF NoneLater, Instance!TypeOK, Instance!Operations, Instance!Data
<1>8. SetAside'
  BY <1>0 DEF SetAside, MainAway, Instance!NothingLost, NoneLater, VerbOfPlace,
     Instance!TypeOK, Instance!Operations, Instance!Data, Instance!Touched, Replaces,
     Instance!Undoing, PartsFit, WasThere
<1>9. AsFound'
  BY <1>0 DEF AsFound, SetAside, MainAway, MainHasData, VerbOfPlace, Instance!TypeOK,
     Instance!Operations, Instance!Data, Underway, Instance!Touched, Replaces,
     Instance!Undoing, PartsFit, WasThere
<1>10. ComesBack'
  BY <1>0 DEF ComesBack, AsFound, SetAside, MainAway, Instance!NothingLost, VerbOfPlace,
     Instance!TypeOK, Instance!Operations, Instance!Data, Underway, Instance!Touched,
     Replaces, PartsFit, WasThere
<1>11. Instance!NothingLost'
  BY <1>0 DEF Instance!NothingLost, SetAside, ComesBack, AsFound, PartsFit, NoneLater,
     MainAway, VerbOfPlace, Instance!TypeOK, Instance!Operations, Instance!Data, Underway,
     Instance!Touched, Replaces, WasThere
<1>12. QED
  BY <1>1, <1>2, <1>3, <1>4, <1>5, <1>6, <1>7, <1>8, <1>9, <1>10, <1>11

(* Death at any place.                                                     *)
LEMMA InstanceKilledKeeps ==
  ASSUME Instance!ConstantsOK, InstanceInv, Instance!Killed
  PROVE  InstanceInv'
<1> USE IdleOperation, NoDataIs DEF
      InstanceInv, Instance!Killed, Instance!Absent, Instance!Recorded, Instance!Present,
      Instance!Legacy, Instance!Storage, Instance!Key, Instance!At, Instance!NoMeta,
      Instance!NoBackup, Instance!containers, Instance!data, Instance!copies, Instance!counts,
      Instance!End
<1>0. op \in Instance!Operations
  BY DEF Instance!TypeOK
<1>1. Instance!TypeOK'
  <2>1. op' \in Instance!Operations
    BY <1>0, ReadsStorage DEF Instance!TypeOK, Instance!Operations, Instance!Creating,
       Instance!Replacing, Instance!Undoing, Instance!Deleting, Instance!ConstantsOK
  <2>2. /\ instanceSite' \in {"none", "addon", "operator"}
        /\ meta' \in [tag : 0..MaxTag, created : BOOLEAN, home : BOOLEAN]
    BY <1>0 DEF Instance!TypeOK, Instance!Operations, Instance!ConstantsOK
  <2>3. main' \in Instance!Containers /\ prev' \in Instance!Containers
    BY <1>0, AbsentContainer DEF Instance!TypeOK, Instance!Containers, Instance!Operations
  <2>4. /\ store' \in Instance!Data /\ old' \in Instance!Data
        /\ native' \in [data : Instance!Data, tag : 0..MaxTag]
    BY <1>0 DEF Instance!TypeOK, Instance!Data, Instance!Operations, Instance!ConstantsOK,
       PartsFit, VerbOfPlace, Instance!NoData
  <2>5. /\ kept' \in 0..MaxWrites /\ archives' \in 0..MaxWrites /\ cur' \in 1..MaxWrites
        /\ env' \in 0..InstanceMaxKeys /\ instanceKeys' \in 0..InstanceMaxKeys
        /\ instanceKills' \in 0..InstanceMaxKills
    BY <1>0 DEF Instance!TypeOK, Instance!Data, Instance!Operations, Instance!ConstantsOK,
       PartsFit, VerbOfPlace, Instance!NoData
  <2>6. QED
    BY <2>1, <2>2, <2>3, <2>4, <2>5 DEF Instance!TypeOK
<1>2. VerbOfPlace'
  BY <1>0 DEF VerbOfPlace, Instance!TypeOK, Instance!Operations, Replaces, Instance!Creating,
     Instance!Replacing, Instance!Undoing, Instance!Deleting, Instance!Touched
<1>3. MainAway'
  BY <1>0 DEF MainAway, VerbOfPlace, Instance!TypeOK, Instance!Operations,
     Instance!Containers, Instance!Undoing
<1>4. WasThere'
  BY <1>0 DEF WasThere, MainAway, VerbOfPlace, Instance!TypeOK, Instance!Operations,
     Instance!Containers, Instance!Undoing, Replaces
<1>5. MainHasData'
  BY <1>0 DEF MainHasData, MainAway, PartsFit, AsFound, VerbOfPlace, Instance!TypeOK,
     Instance!Containers, Instance!Operations, Instance!Data, Underway, Instance!Touched,
     Replaces, WasThere
<1>6. PartsFit'
  BY <1>0 DEF PartsFit, VerbOfPlace, Instance!TypeOK, Instance!Operations, Instance!Data,
     Replaces
<1>7. NoneLater'
  BY <1>0 DEF NoneLater, Instance!TypeOK, Instance!Operations, Instance!Data
<1>8. SetAside'
  BY <1>0 DEF SetAside, MainAway, Instance!NothingLost, NoneLater, VerbOfPlace,
     Instance!TypeOK, Instance!Operations, Instance!Data, Instance!Touched, Replaces,
     Instance!Undoing, PartsFit, WasThere
<1>9. AsFound'
  BY <1>0 DEF AsFound, SetAside, MainAway, MainHasData, VerbOfPlace, Instance!TypeOK,
     Instance!Operations, Instance!Data, Underway, Instance!Touched, Replaces,
     Instance!Undoing, PartsFit, WasThere
<1>10. ComesBack'
  BY <1>0 DEF ComesBack, AsFound, SetAside, MainAway, Instance!NothingLost, VerbOfPlace,
     Instance!TypeOK, Instance!Operations, Instance!Data, Underway, Instance!Touched,
     Replaces, PartsFit, WasThere
<1>11. Instance!NothingLost'
  BY <1>0 DEF Instance!NothingLost, SetAside, ComesBack, AsFound, PartsFit, NoneLater,
     MainAway, VerbOfPlace, Instance!TypeOK, Instance!Operations, Instance!Data, Underway,
     Instance!Touched, Replaces, WasThere
<1>12. QED
  BY <1>1, <1>2, <1>3, <1>4, <1>5, <1>6, <1>7, <1>8, <1>9, <1>10, <1>11

(* Creating an instance, and the clean-up after a failure.                 *)
LEMMA InstanceCmdCreateKeeps ==
  ASSUME Instance!ConstantsOK, InstanceInv, Instance!cmdCreate
  PROVE  InstanceInv'
<1> USE IdleOperation, NoDataIs DEF
      InstanceInv, Instance!cmdCreate, Instance!Absent, Instance!Recorded, Instance!Present,
      Instance!Legacy, Instance!Storage, Instance!Key, Instance!At, Instance!NoMeta,
      Instance!NoBackup, Instance!containers, Instance!data, Instance!copies, Instance!counts
<1>0. op = Instance!Idle /\ op.verb = "none"
  BY DEF VerbOfPlace
<1>1. Instance!TypeOK'
  <2>1. op' \in Instance!Operations
    <3>1. 1 \in 0..MaxTag
      BY DEF Instance!ConstantsOK
    <3>2. QED
      BY <3>1 DEF Instance!Operations, Instance!Creating
  <2>2. /\ instanceSite' \in {"none", "addon", "operator"}
        /\ meta' \in [tag : 0..MaxTag, created : BOOLEAN, home : BOOLEAN]
    BY <1>0 DEF Instance!TypeOK, Instance!Operations, Instance!ConstantsOK
  <2>3. main' \in Instance!Containers /\ prev' \in Instance!Containers
    BY <1>0, AbsentContainer DEF Instance!TypeOK, Instance!Containers, Instance!Operations
  <2>4. /\ store' \in Instance!Data /\ old' \in Instance!Data
        /\ native' \in [data : Instance!Data, tag : 0..MaxTag]
    BY <1>0 DEF Instance!TypeOK, Instance!Data, Instance!Operations, Instance!ConstantsOK,
       PartsFit, VerbOfPlace, Instance!NoData
  <2>5. /\ kept' \in 0..MaxWrites /\ archives' \in 0..MaxWrites /\ cur' \in 1..MaxWrites
        /\ env' \in 0..InstanceMaxKeys /\ instanceKeys' \in 0..InstanceMaxKeys
        /\ instanceKills' \in 0..InstanceMaxKills
    BY <1>0 DEF Instance!TypeOK, Instance!Data, Instance!Operations, Instance!ConstantsOK,
       PartsFit, VerbOfPlace, Instance!NoData
  <2>6. QED
    BY <2>1, <2>2, <2>3, <2>4, <2>5 DEF Instance!TypeOK
<1>2. VerbOfPlace'
  BY <1>0 DEF VerbOfPlace, Instance!TypeOK, Instance!Operations, Replaces, Instance!Creating,
     Instance!Replacing, Instance!Undoing, Instance!Deleting, Instance!Touched
<1>3. MainAway'
  BY <1>0 DEF MainAway, VerbOfPlace, Instance!TypeOK, Instance!Operations,
     Instance!Containers, Instance!Undoing
<1>4. WasThere'
  BY <1>0 DEF WasThere, MainAway, VerbOfPlace, Instance!TypeOK, Instance!Operations,
     Instance!Containers, Instance!Undoing, Replaces
<1>5. MainHasData'
  BY <1>0 DEF MainHasData, MainAway, PartsFit, AsFound, VerbOfPlace, Instance!TypeOK,
     Instance!Containers, Instance!Operations, Instance!Data, Underway, Instance!Touched,
     Replaces, WasThere
<1>6. PartsFit'
  BY <1>0 DEF PartsFit, VerbOfPlace, Instance!TypeOK, Instance!Operations, Instance!Data,
     Replaces
<1>7. NoneLater'
  BY <1>0 DEF NoneLater, Instance!TypeOK, Instance!Operations, Instance!Data
<1>8. SetAside'
  BY <1>0 DEF SetAside, MainAway, Instance!NothingLost, NoneLater, VerbOfPlace,
     Instance!TypeOK, Instance!Operations, Instance!Data, Instance!Touched, Replaces,
     Instance!Undoing, PartsFit, WasThere
<1>9. AsFound'
  BY <1>0 DEF AsFound, SetAside, MainAway, MainHasData, VerbOfPlace, Instance!TypeOK,
     Instance!Operations, Instance!Data, Underway, Instance!Touched, Replaces,
     Instance!Undoing, PartsFit, WasThere
<1>10. ComesBack'
  BY <1>0 DEF ComesBack, AsFound, SetAside, MainAway, Instance!NothingLost, VerbOfPlace,
     Instance!TypeOK, Instance!Operations, Instance!Data, Underway, Instance!Touched,
     Replaces, PartsFit, WasThere
<1>11. Instance!NothingLost'
  BY <1>0 DEF Instance!NothingLost, SetAside, ComesBack, AsFound, PartsFit, NoneLater,
     MainAway, VerbOfPlace, Instance!TypeOK, Instance!Operations, Instance!Data, Underway,
     Instance!Touched, Replaces, WasThere
<1>12. QED
  BY <1>1, <1>2, <1>3, <1>4, <1>5, <1>6, <1>7, <1>8, <1>9, <1>10, <1>11

LEMMA InstanceAddSiteKeeps ==
  ASSUME Instance!ConstantsOK, InstanceInv, Instance!AddSite
  PROVE  InstanceInv'
<1> USE IdleOperation, NoDataIs DEF
      InstanceInv, Instance!AddSite, Instance!Absent, Instance!Recorded, Instance!Present,
      Instance!Legacy, Instance!Storage, Instance!Key, Instance!At, Instance!NoMeta,
      Instance!NoBackup, Instance!containers, Instance!data, Instance!copies, Instance!counts
<1>0. op.verb = "create" /\ ~Instance!Recorded /\ ~op.candidate /\ ~op.changed /\ ~op.renamed
  BY DEF Instance!TypeOK, Instance!Operations, VerbOfPlace, Instance!Creating,
     Instance!Replacing, Instance!Undoing, Instance!Deleting, Replaces
<1>1. Instance!TypeOK'
  <2>1. op' \in Instance!Operations
    BY <1>0, ReadsStorage DEF Instance!TypeOK, Instance!Operations, Instance!Creating,
       Instance!Replacing, Instance!Undoing, Instance!Deleting, Instance!ConstantsOK
  <2>2. /\ instanceSite' \in {"none", "addon", "operator"}
        /\ meta' \in [tag : 0..MaxTag, created : BOOLEAN, home : BOOLEAN]
    BY <1>0 DEF Instance!TypeOK, Instance!Operations, Instance!ConstantsOK
  <2>3. main' \in Instance!Containers /\ prev' \in Instance!Containers
    BY <1>0, AbsentContainer DEF Instance!TypeOK, Instance!Containers, Instance!Operations
  <2>4. /\ store' \in Instance!Data /\ old' \in Instance!Data
        /\ native' \in [data : Instance!Data, tag : 0..MaxTag]
    BY <1>0 DEF Instance!TypeOK, Instance!Data, Instance!Operations, Instance!ConstantsOK,
       PartsFit, VerbOfPlace, Instance!NoData
  <2>5. /\ kept' \in 0..MaxWrites /\ archives' \in 0..MaxWrites /\ cur' \in 1..MaxWrites
        /\ env' \in 0..InstanceMaxKeys /\ instanceKeys' \in 0..InstanceMaxKeys
        /\ instanceKills' \in 0..InstanceMaxKills
    BY <1>0 DEF Instance!TypeOK, Instance!Data, Instance!Operations, Instance!ConstantsOK,
       PartsFit, VerbOfPlace, Instance!NoData
  <2>6. QED
    BY <2>1, <2>2, <2>3, <2>4, <2>5 DEF Instance!TypeOK
<1>2. VerbOfPlace'
  BY <1>0 DEF VerbOfPlace, Instance!TypeOK, Instance!Operations, Replaces, Instance!Creating,
     Instance!Replacing, Instance!Undoing, Instance!Deleting, Instance!Touched
<1>3. MainAway'
  BY <1>0 DEF MainAway, VerbOfPlace, Instance!TypeOK, Instance!Operations,
     Instance!Containers, Instance!Undoing
<1>4. WasThere'
  BY <1>0 DEF WasThere, MainAway, VerbOfPlace, Instance!TypeOK, Instance!Operations,
     Instance!Containers, Instance!Undoing, Replaces
<1>5. MainHasData'
  BY <1>0 DEF MainHasData, MainAway, PartsFit, AsFound, VerbOfPlace, Instance!TypeOK,
     Instance!Containers, Instance!Operations, Instance!Data, Underway, Instance!Touched,
     Replaces, WasThere
<1>6. PartsFit'
  BY <1>0 DEF PartsFit, VerbOfPlace, Instance!TypeOK, Instance!Operations, Instance!Data,
     Replaces
<1>7. NoneLater'
  BY <1>0 DEF NoneLater, Instance!TypeOK, Instance!Operations, Instance!Data
<1>8. SetAside'
  BY <1>0 DEF SetAside, MainAway, Instance!NothingLost, NoneLater, VerbOfPlace,
     Instance!TypeOK, Instance!Operations, Instance!Data, Instance!Touched, Replaces,
     Instance!Undoing, PartsFit, WasThere
<1>9. AsFound'
  BY <1>0 DEF AsFound, SetAside, MainAway, MainHasData, VerbOfPlace, Instance!TypeOK,
     Instance!Operations, Instance!Data, Underway, Instance!Touched, Replaces,
     Instance!Undoing, PartsFit, WasThere
<1>10. ComesBack'
  BY <1>0 DEF ComesBack, AsFound, SetAside, MainAway, Instance!NothingLost, VerbOfPlace,
     Instance!TypeOK, Instance!Operations, Instance!Data, Underway, Instance!Touched,
     Replaces, PartsFit, WasThere
<1>11. Instance!NothingLost'
  BY <1>0 DEF Instance!NothingLost, SetAside, ComesBack, AsFound, PartsFit, NoneLater,
     MainAway, VerbOfPlace, Instance!TypeOK, Instance!Operations, Instance!Data, Underway,
     Instance!Touched, Replaces, WasThere
<1>12. QED
  BY <1>1, <1>2, <1>3, <1>4, <1>5, <1>6, <1>7, <1>8, <1>9, <1>10, <1>11

LEMMA InstancePrepareStorageKeeps ==
  ASSUME Instance!ConstantsOK, InstanceInv, Instance!PrepareStorage
  PROVE  InstanceInv'
<1> USE IdleOperation, NoDataIs DEF
      InstanceInv, Instance!PrepareStorage, Instance!Absent, Instance!Recorded,
      Instance!Present, Instance!Legacy, Instance!Storage, Instance!Key, Instance!At,
      Instance!NoMeta, Instance!NoBackup, Instance!containers, Instance!data, Instance!copies,
      Instance!counts
<1>0. op.verb = "create" /\ ~Instance!Recorded /\ ~op.candidate /\ ~op.changed /\ ~op.renamed
  BY DEF Instance!TypeOK, Instance!Operations, VerbOfPlace, Instance!Creating,
     Instance!Replacing, Instance!Undoing, Instance!Deleting, Replaces
<1>1. Instance!TypeOK'
  <2>1. op' \in Instance!Operations
    BY <1>0, ReadsStorage DEF Instance!TypeOK, Instance!Operations, Instance!Creating,
       Instance!Replacing, Instance!Undoing, Instance!Deleting, Instance!ConstantsOK
  <2>2. /\ instanceSite' \in {"none", "addon", "operator"}
        /\ meta' \in [tag : 0..MaxTag, created : BOOLEAN, home : BOOLEAN]
    BY <1>0 DEF Instance!TypeOK, Instance!Operations, Instance!ConstantsOK
  <2>3. main' \in Instance!Containers /\ prev' \in Instance!Containers
    BY <1>0, AbsentContainer DEF Instance!TypeOK, Instance!Containers, Instance!Operations
  <2>4. /\ store' \in Instance!Data /\ old' \in Instance!Data
        /\ native' \in [data : Instance!Data, tag : 0..MaxTag]
    BY <1>0 DEF Instance!TypeOK, Instance!Data, Instance!Operations, Instance!ConstantsOK,
       PartsFit, VerbOfPlace, Instance!NoData
  <2>5. /\ kept' \in 0..MaxWrites /\ archives' \in 0..MaxWrites /\ cur' \in 1..MaxWrites
        /\ env' \in 0..InstanceMaxKeys /\ instanceKeys' \in 0..InstanceMaxKeys
        /\ instanceKills' \in 0..InstanceMaxKills
    BY <1>0 DEF Instance!TypeOK, Instance!Data, Instance!Operations, Instance!ConstantsOK,
       PartsFit, VerbOfPlace, Instance!NoData
  <2>6. QED
    BY <2>1, <2>2, <2>3, <2>4, <2>5 DEF Instance!TypeOK
<1>2. VerbOfPlace'
  BY <1>0 DEF VerbOfPlace, Instance!TypeOK, Instance!Operations, Replaces, Instance!Creating,
     Instance!Replacing, Instance!Undoing, Instance!Deleting, Instance!Touched
<1>3. MainAway'
  BY <1>0 DEF MainAway, VerbOfPlace, Instance!TypeOK, Instance!Operations,
     Instance!Containers, Instance!Undoing
<1>4. WasThere'
  BY <1>0 DEF WasThere, MainAway, VerbOfPlace, Instance!TypeOK, Instance!Operations,
     Instance!Containers, Instance!Undoing, Replaces
<1>5. MainHasData'
  BY <1>0 DEF MainHasData, MainAway, PartsFit, AsFound, VerbOfPlace, Instance!TypeOK,
     Instance!Containers, Instance!Operations, Instance!Data, Underway, Instance!Touched,
     Replaces, WasThere
<1>6. PartsFit'
  BY <1>0 DEF PartsFit, VerbOfPlace, Instance!TypeOK, Instance!Operations, Instance!Data,
     Replaces
<1>7. NoneLater'
  BY <1>0 DEF NoneLater, Instance!TypeOK, Instance!Operations, Instance!Data
<1>8. SetAside'
  BY <1>0 DEF SetAside, MainAway, Instance!NothingLost, NoneLater, VerbOfPlace,
     Instance!TypeOK, Instance!Operations, Instance!Data, Instance!Touched, Replaces,
     Instance!Undoing, PartsFit, WasThere
<1>9. AsFound'
  BY <1>0 DEF AsFound, SetAside, MainAway, MainHasData, VerbOfPlace, Instance!TypeOK,
     Instance!Operations, Instance!Data, Underway, Instance!Touched, Replaces,
     Instance!Undoing, PartsFit, WasThere
<1>10. ComesBack'
  BY <1>0 DEF ComesBack, AsFound, SetAside, MainAway, Instance!NothingLost, VerbOfPlace,
     Instance!TypeOK, Instance!Operations, Instance!Data, Underway, Instance!Touched,
     Replaces, PartsFit, WasThere
<1>11. Instance!NothingLost'
  BY <1>0 DEF Instance!NothingLost, SetAside, ComesBack, AsFound, PartsFit, NoneLater,
     MainAway, VerbOfPlace, Instance!TypeOK, Instance!Operations, Instance!Data, Underway,
     Instance!Touched, Replaces, WasThere
<1>12. QED
  BY <1>1, <1>2, <1>3, <1>4, <1>5, <1>6, <1>7, <1>8, <1>9, <1>10, <1>11

LEMMA InstanceStartFreshKeeps ==
  ASSUME Instance!ConstantsOK, InstanceInv, Instance!StartFresh
  PROVE  InstanceInv'
<1> USE IdleOperation, NoDataIs DEF
      InstanceInv, Instance!StartFresh, Instance!Absent, Instance!Recorded, Instance!Present,
      Instance!Legacy, Instance!Storage, Instance!Key, Instance!At, Instance!NoMeta,
      Instance!NoBackup, Instance!containers, Instance!data, Instance!copies, Instance!counts,
      Instance!Goto
<1>0. op.verb = "create" /\ ~Instance!Recorded /\ ~op.candidate /\ ~op.changed /\ ~op.renamed
  BY DEF Instance!TypeOK, Instance!Operations, VerbOfPlace, Instance!Creating,
     Instance!Replacing, Instance!Undoing, Instance!Deleting, Replaces
<1>1. Instance!TypeOK'
  <2>1. op' \in Instance!Operations
    BY <1>0, ReadsStorage DEF Instance!TypeOK, Instance!Operations, Instance!Creating,
       Instance!Replacing, Instance!Undoing, Instance!Deleting, Instance!ConstantsOK
  <2>2. /\ instanceSite' \in {"none", "addon", "operator"}
        /\ meta' \in [tag : 0..MaxTag, created : BOOLEAN, home : BOOLEAN]
    BY <1>0 DEF Instance!TypeOK, Instance!Operations, Instance!ConstantsOK
  <2>3. main' \in Instance!Containers /\ prev' \in Instance!Containers
    BY <1>0, AbsentContainer DEF Instance!TypeOK, Instance!Containers, Instance!Operations,
       Instance!Container
  <2>4. /\ store' \in Instance!Data /\ old' \in Instance!Data
        /\ native' \in [data : Instance!Data, tag : 0..MaxTag]
    BY <1>0 DEF Instance!TypeOK, Instance!Data, Instance!Operations, Instance!ConstantsOK,
       PartsFit, VerbOfPlace, Instance!NoData
  <2>5. /\ kept' \in 0..MaxWrites /\ archives' \in 0..MaxWrites /\ cur' \in 1..MaxWrites
        /\ env' \in 0..InstanceMaxKeys /\ instanceKeys' \in 0..InstanceMaxKeys
        /\ instanceKills' \in 0..InstanceMaxKills
    BY <1>0 DEF Instance!TypeOK, Instance!Data, Instance!Operations, Instance!ConstantsOK,
       PartsFit, VerbOfPlace, Instance!NoData
  <2>6. QED
    BY <2>1, <2>2, <2>3, <2>4, <2>5 DEF Instance!TypeOK
<1>2. VerbOfPlace'
  BY <1>0 DEF VerbOfPlace, Instance!TypeOK, Instance!Operations, Replaces, Instance!Creating,
     Instance!Replacing, Instance!Undoing, Instance!Deleting, Instance!Touched,
     Instance!Container
<1>3. MainAway'
  BY <1>0 DEF MainAway, VerbOfPlace, Instance!TypeOK, Instance!Operations,
     Instance!Containers, Instance!Undoing, Instance!Container
<1>4. WasThere'
  BY <1>0 DEF WasThere, MainAway, VerbOfPlace, Instance!TypeOK, Instance!Operations,
     Instance!Containers, Instance!Undoing, Replaces, Instance!Container
<1>5. MainHasData'
  BY <1>0 DEF MainHasData, MainAway, PartsFit, AsFound, VerbOfPlace, Instance!TypeOK,
     Instance!Containers, Instance!Operations, Instance!Data, Underway, Instance!Touched,
     Replaces, WasThere, Instance!Container
<1>6. PartsFit'
  BY <1>0 DEF PartsFit, VerbOfPlace, Instance!TypeOK, Instance!Operations, Instance!Data,
     Replaces, Instance!Container
<1>7. NoneLater'
  BY <1>0 DEF NoneLater, Instance!TypeOK, Instance!Operations, Instance!Data, Instance!Container
<1>8. SetAside'
  BY <1>0 DEF SetAside, MainAway, Instance!NothingLost, NoneLater, VerbOfPlace,
     Instance!TypeOK, Instance!Operations, Instance!Data, Instance!Touched, Replaces,
     Instance!Undoing, PartsFit, WasThere, Instance!Container
<1>9. AsFound'
  BY <1>0 DEF AsFound, SetAside, MainAway, MainHasData, VerbOfPlace, Instance!TypeOK,
     Instance!Operations, Instance!Data, Underway, Instance!Touched, Replaces,
     Instance!Undoing, PartsFit, WasThere, Instance!Container
<1>10. ComesBack'
  BY <1>0 DEF ComesBack, AsFound, SetAside, MainAway, Instance!NothingLost, VerbOfPlace,
     Instance!TypeOK, Instance!Operations, Instance!Data, Underway, Instance!Touched,
     Replaces, PartsFit, WasThere, Instance!Container
<1>11. Instance!NothingLost'
  BY <1>0 DEF Instance!NothingLost, SetAside, ComesBack, AsFound, PartsFit, NoneLater,
     MainAway, VerbOfPlace, Instance!TypeOK, Instance!Operations, Instance!Data, Underway,
     Instance!Touched, Replaces, WasThere, Instance!Container
<1>12. QED
  BY <1>1, <1>2, <1>3, <1>4, <1>5, <1>6, <1>7, <1>8, <1>9, <1>10, <1>11

LEMMA InstanceRecordKeeps ==
  ASSUME Instance!ConstantsOK, InstanceInv, Instance!Record
  PROVE  InstanceInv'
<1> USE IdleOperation, NoDataIs DEF
      InstanceInv, Instance!Record, Instance!Absent, Instance!Recorded, Instance!Present,
      Instance!Legacy, Instance!Storage, Instance!Key, Instance!At, Instance!NoMeta,
      Instance!NoBackup, Instance!containers, Instance!data, Instance!copies, Instance!counts,
      Instance!End
<1>0. op.verb = "create" /\ ~Instance!Recorded /\ ~op.candidate /\ ~op.changed /\ ~op.renamed
  BY DEF Instance!TypeOK, Instance!Operations, VerbOfPlace, Instance!Creating,
     Instance!Replacing, Instance!Undoing, Instance!Deleting, Replaces
<1>1. Instance!TypeOK'
  <2>1. op' \in Instance!Operations
    BY <1>0, ReadsStorage DEF Instance!TypeOK, Instance!Operations, Instance!Creating,
       Instance!Replacing, Instance!Undoing, Instance!Deleting, Instance!ConstantsOK
  <2>2. /\ instanceSite' \in {"none", "addon", "operator"}
        /\ meta' \in [tag : 0..MaxTag, created : BOOLEAN, home : BOOLEAN]
    BY <1>0 DEF Instance!TypeOK, Instance!Operations, Instance!ConstantsOK
  <2>3. main' \in Instance!Containers /\ prev' \in Instance!Containers
    BY <1>0, AbsentContainer DEF Instance!TypeOK, Instance!Containers, Instance!Operations
  <2>4. /\ store' \in Instance!Data /\ old' \in Instance!Data
        /\ native' \in [data : Instance!Data, tag : 0..MaxTag]
    BY <1>0 DEF Instance!TypeOK, Instance!Data, Instance!Operations, Instance!ConstantsOK,
       PartsFit, VerbOfPlace, Instance!NoData
  <2>5. /\ kept' \in 0..MaxWrites /\ archives' \in 0..MaxWrites /\ cur' \in 1..MaxWrites
        /\ env' \in 0..InstanceMaxKeys /\ instanceKeys' \in 0..InstanceMaxKeys
        /\ instanceKills' \in 0..InstanceMaxKills
    BY <1>0 DEF Instance!TypeOK, Instance!Data, Instance!Operations, Instance!ConstantsOK,
       PartsFit, VerbOfPlace, Instance!NoData
  <2>6. QED
    BY <2>1, <2>2, <2>3, <2>4, <2>5 DEF Instance!TypeOK
<1>2. VerbOfPlace'
  BY <1>0 DEF VerbOfPlace, Instance!TypeOK, Instance!Operations, Replaces, Instance!Creating,
     Instance!Replacing, Instance!Undoing, Instance!Deleting, Instance!Touched
<1>3. MainAway'
  BY <1>0 DEF MainAway, VerbOfPlace, Instance!TypeOK, Instance!Operations,
     Instance!Containers, Instance!Undoing
<1>4. WasThere'
  BY <1>0 DEF WasThere, MainAway, VerbOfPlace, Instance!TypeOK, Instance!Operations,
     Instance!Containers, Instance!Undoing, Replaces
<1>5. MainHasData'
  BY <1>0 DEF MainHasData, MainAway, PartsFit, AsFound, VerbOfPlace, Instance!TypeOK,
     Instance!Containers, Instance!Operations, Instance!Data, Underway, Instance!Touched,
     Replaces, WasThere
<1>6. PartsFit'
  BY <1>0 DEF PartsFit, VerbOfPlace, Instance!TypeOK, Instance!Operations, Instance!Data,
     Replaces
<1>7. NoneLater'
  BY <1>0 DEF NoneLater, Instance!TypeOK, Instance!Operations, Instance!Data
<1>8. SetAside'
  BY <1>0 DEF SetAside, MainAway, Instance!NothingLost, NoneLater, VerbOfPlace,
     Instance!TypeOK, Instance!Operations, Instance!Data, Instance!Touched, Replaces,
     Instance!Undoing, PartsFit, WasThere
<1>9. AsFound'
  BY <1>0 DEF AsFound, SetAside, MainAway, MainHasData, VerbOfPlace, Instance!TypeOK,
     Instance!Operations, Instance!Data, Underway, Instance!Touched, Replaces,
     Instance!Undoing, PartsFit, WasThere
<1>10. ComesBack'
  BY <1>0 DEF ComesBack, AsFound, SetAside, MainAway, Instance!NothingLost, VerbOfPlace,
     Instance!TypeOK, Instance!Operations, Instance!Data, Underway, Instance!Touched,
     Replaces, PartsFit, WasThere
<1>11. Instance!NothingLost'
  BY <1>0 DEF Instance!NothingLost, SetAside, ComesBack, AsFound, PartsFit, NoneLater,
     MainAway, VerbOfPlace, Instance!TypeOK, Instance!Operations, Instance!Data, Underway,
     Instance!Touched, Replaces, WasThere
<1>12. QED
  BY <1>1, <1>2, <1>3, <1>4, <1>5, <1>6, <1>7, <1>8, <1>9, <1>10, <1>11

LEMMA InstanceFailCreateKeeps ==
  ASSUME Instance!ConstantsOK, InstanceInv, Instance!FailCreate
  PROVE  InstanceInv'
<1> USE IdleOperation, NoDataIs DEF
      InstanceInv, Instance!FailCreate, Instance!Absent, Instance!Recorded, Instance!Present,
      Instance!Legacy, Instance!Storage, Instance!Key, Instance!At, Instance!NoMeta,
      Instance!NoBackup, Instance!containers, Instance!data, Instance!copies, Instance!counts,
      Instance!Goto
<1>0. op.verb = "create" /\ ~Instance!Recorded /\ ~op.candidate /\ ~op.changed /\ ~op.renamed
  BY DEF Instance!TypeOK, Instance!Operations, VerbOfPlace, Instance!Creating,
     Instance!Replacing, Instance!Undoing, Instance!Deleting, Replaces
<1>1. Instance!TypeOK'
  <2>1. op' \in Instance!Operations
    BY <1>0, ReadsStorage DEF Instance!TypeOK, Instance!Operations, Instance!Creating,
       Instance!Replacing, Instance!Undoing, Instance!Deleting, Instance!ConstantsOK
  <2>2. /\ instanceSite' \in {"none", "addon", "operator"}
        /\ meta' \in [tag : 0..MaxTag, created : BOOLEAN, home : BOOLEAN]
    BY <1>0 DEF Instance!TypeOK, Instance!Operations, Instance!ConstantsOK
  <2>3. main' \in Instance!Containers /\ prev' \in Instance!Containers
    BY <1>0, AbsentContainer DEF Instance!TypeOK, Instance!Containers, Instance!Operations
  <2>4. /\ store' \in Instance!Data /\ old' \in Instance!Data
        /\ native' \in [data : Instance!Data, tag : 0..MaxTag]
    BY <1>0 DEF Instance!TypeOK, Instance!Data, Instance!Operations, Instance!ConstantsOK,
       PartsFit, VerbOfPlace, Instance!NoData
  <2>5. /\ kept' \in 0..MaxWrites /\ archives' \in 0..MaxWrites /\ cur' \in 1..MaxWrites
        /\ env' \in 0..InstanceMaxKeys /\ instanceKeys' \in 0..InstanceMaxKeys
        /\ instanceKills' \in 0..InstanceMaxKills
    BY <1>0 DEF Instance!TypeOK, Instance!Data, Instance!Operations, Instance!ConstantsOK,
       PartsFit, VerbOfPlace, Instance!NoData
  <2>6. QED
    BY <2>1, <2>2, <2>3, <2>4, <2>5 DEF Instance!TypeOK
<1>2. VerbOfPlace'
  BY <1>0 DEF VerbOfPlace, Instance!TypeOK, Instance!Operations, Replaces, Instance!Creating,
     Instance!Replacing, Instance!Undoing, Instance!Deleting, Instance!Touched
<1>3. MainAway'
  BY <1>0 DEF MainAway, VerbOfPlace, Instance!TypeOK, Instance!Operations,
     Instance!Containers, Instance!Undoing
<1>4. WasThere'
  BY <1>0 DEF WasThere, MainAway, VerbOfPlace, Instance!TypeOK, Instance!Operations,
     Instance!Containers, Instance!Undoing, Replaces
<1>5. MainHasData'
  BY <1>0 DEF MainHasData, MainAway, PartsFit, AsFound, VerbOfPlace, Instance!TypeOK,
     Instance!Containers, Instance!Operations, Instance!Data, Underway, Instance!Touched,
     Replaces, WasThere
<1>6. PartsFit'
  BY <1>0 DEF PartsFit, VerbOfPlace, Instance!TypeOK, Instance!Operations, Instance!Data,
     Replaces
<1>7. NoneLater'
  BY <1>0 DEF NoneLater, Instance!TypeOK, Instance!Operations, Instance!Data
<1>8. SetAside'
  BY <1>0 DEF SetAside, MainAway, Instance!NothingLost, NoneLater, VerbOfPlace,
     Instance!TypeOK, Instance!Operations, Instance!Data, Instance!Touched, Replaces,
     Instance!Undoing, PartsFit, WasThere
<1>9. AsFound'
  BY <1>0 DEF AsFound, SetAside, MainAway, MainHasData, VerbOfPlace, Instance!TypeOK,
     Instance!Operations, Instance!Data, Underway, Instance!Touched, Replaces,
     Instance!Undoing, PartsFit, WasThere
<1>10. ComesBack'
  BY <1>0 DEF ComesBack, AsFound, SetAside, MainAway, Instance!NothingLost, VerbOfPlace,
     Instance!TypeOK, Instance!Operations, Instance!Data, Underway, Instance!Touched,
     Replaces, PartsFit, WasThere
<1>11. Instance!NothingLost'
  BY <1>0 DEF Instance!NothingLost, SetAside, ComesBack, AsFound, PartsFit, NoneLater,
     MainAway, VerbOfPlace, Instance!TypeOK, Instance!Operations, Instance!Data, Underway,
     Instance!Touched, Replaces, WasThere
<1>12. QED
  BY <1>1, <1>2, <1>3, <1>4, <1>5, <1>6, <1>7, <1>8, <1>9, <1>10, <1>11

LEMMA InstanceCleanContainerKeeps ==
  ASSUME Instance!ConstantsOK, InstanceInv, Instance!CleanContainer
  PROVE  InstanceInv'
<1> USE IdleOperation, NoDataIs DEF
      InstanceInv, Instance!CleanContainer, Instance!Absent, Instance!Recorded,
      Instance!Present, Instance!Legacy, Instance!Storage, Instance!Key, Instance!At,
      Instance!NoMeta, Instance!NoBackup, Instance!containers, Instance!data, Instance!copies,
      Instance!counts, Instance!End, Instance!Goto
<1>0. op.verb = "create" /\ ~Instance!Recorded /\ ~op.candidate /\ ~op.changed /\ ~op.renamed
  BY DEF Instance!TypeOK, Instance!Operations, VerbOfPlace, Instance!Creating,
     Instance!Replacing, Instance!Undoing, Instance!Deleting, Replaces
<1>1. Instance!TypeOK'
  <2>1. op' \in Instance!Operations
    BY <1>0, ReadsStorage DEF Instance!TypeOK, Instance!Operations, Instance!Creating,
       Instance!Replacing, Instance!Undoing, Instance!Deleting, Instance!ConstantsOK
  <2>2. /\ instanceSite' \in {"none", "addon", "operator"}
        /\ meta' \in [tag : 0..MaxTag, created : BOOLEAN, home : BOOLEAN]
    BY <1>0 DEF Instance!TypeOK, Instance!Operations, Instance!ConstantsOK
  <2>3. main' \in Instance!Containers /\ prev' \in Instance!Containers
    BY <1>0, AbsentContainer DEF Instance!TypeOK, Instance!Containers, Instance!Operations
  <2>4. /\ store' \in Instance!Data /\ old' \in Instance!Data
        /\ native' \in [data : Instance!Data, tag : 0..MaxTag]
    BY <1>0 DEF Instance!TypeOK, Instance!Data, Instance!Operations, Instance!ConstantsOK,
       PartsFit, VerbOfPlace, Instance!NoData
  <2>5. /\ kept' \in 0..MaxWrites /\ archives' \in 0..MaxWrites /\ cur' \in 1..MaxWrites
        /\ env' \in 0..InstanceMaxKeys /\ instanceKeys' \in 0..InstanceMaxKeys
        /\ instanceKills' \in 0..InstanceMaxKills
    BY <1>0 DEF Instance!TypeOK, Instance!Data, Instance!Operations, Instance!ConstantsOK,
       PartsFit, VerbOfPlace, Instance!NoData
  <2>6. QED
    BY <2>1, <2>2, <2>3, <2>4, <2>5 DEF Instance!TypeOK
<1>2. VerbOfPlace'
  BY <1>0 DEF VerbOfPlace, Instance!TypeOK, Instance!Operations, Replaces, Instance!Creating,
     Instance!Replacing, Instance!Undoing, Instance!Deleting, Instance!Touched
<1>3. MainAway'
  BY <1>0 DEF MainAway, VerbOfPlace, Instance!TypeOK, Instance!Operations,
     Instance!Containers, Instance!Undoing
<1>4. WasThere'
  BY <1>0 DEF WasThere, MainAway, VerbOfPlace, Instance!TypeOK, Instance!Operations,
     Instance!Containers, Instance!Undoing, Replaces
<1>5. MainHasData'
  BY <1>0 DEF MainHasData, MainAway, PartsFit, AsFound, VerbOfPlace, Instance!TypeOK,
     Instance!Containers, Instance!Operations, Instance!Data, Underway, Instance!Touched,
     Replaces, WasThere
<1>6. PartsFit'
  BY <1>0 DEF PartsFit, VerbOfPlace, Instance!TypeOK, Instance!Operations, Instance!Data,
     Replaces
<1>7. NoneLater'
  BY <1>0 DEF NoneLater, Instance!TypeOK, Instance!Operations, Instance!Data
<1>8. SetAside'
  BY <1>0 DEF SetAside, MainAway, Instance!NothingLost, NoneLater, VerbOfPlace,
     Instance!TypeOK, Instance!Operations, Instance!Data, Instance!Touched, Replaces,
     Instance!Undoing, PartsFit, WasThere
<1>9. AsFound'
  BY <1>0 DEF AsFound, SetAside, MainAway, MainHasData, VerbOfPlace, Instance!TypeOK,
     Instance!Operations, Instance!Data, Underway, Instance!Touched, Replaces,
     Instance!Undoing, PartsFit, WasThere
<1>10. ComesBack'
  BY <1>0 DEF ComesBack, AsFound, SetAside, MainAway, Instance!NothingLost, VerbOfPlace,
     Instance!TypeOK, Instance!Operations, Instance!Data, Underway, Instance!Touched,
     Replaces, PartsFit, WasThere
<1>11. Instance!NothingLost'
  BY <1>0 DEF Instance!NothingLost, SetAside, ComesBack, AsFound, PartsFit, NoneLater,
     MainAway, VerbOfPlace, Instance!TypeOK, Instance!Operations, Instance!Data, Underway,
     Instance!Touched, Replaces, WasThere
<1>12. QED
  BY <1>1, <1>2, <1>3, <1>4, <1>5, <1>6, <1>7, <1>8, <1>9, <1>10, <1>11

LEMMA InstanceCleanupCreateKeeps ==
  ASSUME Instance!ConstantsOK, InstanceInv, Instance!cleanupCreate
  PROVE  InstanceInv'
<1> USE IdleOperation, NoDataIs DEF
      InstanceInv, Instance!cleanupCreate, Instance!Absent, Instance!Recorded,
      Instance!Present, Instance!Legacy, Instance!Storage, Instance!Key, Instance!At,
      Instance!NoMeta, Instance!NoBackup, Instance!containers, Instance!data, Instance!copies,
      Instance!counts, Instance!End
<1>0. op.verb = "create" /\ ~Instance!Recorded /\ ~op.candidate /\ ~op.changed /\ ~op.renamed
  BY DEF Instance!TypeOK, Instance!Operations, VerbOfPlace, Instance!Creating,
     Instance!Replacing, Instance!Undoing, Instance!Deleting, Replaces
<1>1. Instance!TypeOK'
  <2>1. op' \in Instance!Operations
    BY <1>0, ReadsStorage DEF Instance!TypeOK, Instance!Operations, Instance!Creating,
       Instance!Replacing, Instance!Undoing, Instance!Deleting, Instance!ConstantsOK
  <2>2. /\ instanceSite' \in {"none", "addon", "operator"}
        /\ meta' \in [tag : 0..MaxTag, created : BOOLEAN, home : BOOLEAN]
    BY <1>0 DEF Instance!TypeOK, Instance!Operations, Instance!ConstantsOK
  <2>3. main' \in Instance!Containers /\ prev' \in Instance!Containers
    BY <1>0, AbsentContainer DEF Instance!TypeOK, Instance!Containers, Instance!Operations
  <2>4. /\ store' \in Instance!Data /\ old' \in Instance!Data
        /\ native' \in [data : Instance!Data, tag : 0..MaxTag]
    BY <1>0 DEF Instance!TypeOK, Instance!Data, Instance!Operations, Instance!ConstantsOK,
       PartsFit, VerbOfPlace, Instance!NoData
  <2>5. /\ kept' \in 0..MaxWrites /\ archives' \in 0..MaxWrites /\ cur' \in 1..MaxWrites
        /\ env' \in 0..InstanceMaxKeys /\ instanceKeys' \in 0..InstanceMaxKeys
        /\ instanceKills' \in 0..InstanceMaxKills
    BY <1>0 DEF Instance!TypeOK, Instance!Data, Instance!Operations, Instance!ConstantsOK,
       PartsFit, VerbOfPlace, Instance!NoData
  <2>6. QED
    BY <2>1, <2>2, <2>3, <2>4, <2>5 DEF Instance!TypeOK
<1>2. VerbOfPlace'
  BY <1>0 DEF VerbOfPlace, Instance!TypeOK, Instance!Operations, Replaces, Instance!Creating,
     Instance!Replacing, Instance!Undoing, Instance!Deleting, Instance!Touched
<1>3. MainAway'
  BY <1>0 DEF MainAway, VerbOfPlace, Instance!TypeOK, Instance!Operations,
     Instance!Containers, Instance!Undoing
<1>4. WasThere'
  BY <1>0 DEF WasThere, MainAway, VerbOfPlace, Instance!TypeOK, Instance!Operations,
     Instance!Containers, Instance!Undoing, Replaces
<1>5. MainHasData'
  BY <1>0 DEF MainHasData, MainAway, PartsFit, AsFound, VerbOfPlace, Instance!TypeOK,
     Instance!Containers, Instance!Operations, Instance!Data, Underway, Instance!Touched,
     Replaces, WasThere
<1>6. PartsFit'
  BY <1>0 DEF PartsFit, VerbOfPlace, Instance!TypeOK, Instance!Operations, Instance!Data,
     Replaces
<1>7. NoneLater'
  BY <1>0 DEF NoneLater, Instance!TypeOK, Instance!Operations, Instance!Data
<1>8. SetAside'
  BY <1>0 DEF SetAside, MainAway, Instance!NothingLost, NoneLater, VerbOfPlace,
     Instance!TypeOK, Instance!Operations, Instance!Data, Instance!Touched, Replaces,
     Instance!Undoing, PartsFit, WasThere
<1>9. AsFound'
  BY <1>0 DEF AsFound, SetAside, MainAway, MainHasData, VerbOfPlace, Instance!TypeOK,
     Instance!Operations, Instance!Data, Underway, Instance!Touched, Replaces,
     Instance!Undoing, PartsFit, WasThere
<1>10. ComesBack'
  BY <1>0 DEF ComesBack, AsFound, SetAside, MainAway, Instance!NothingLost, VerbOfPlace,
     Instance!TypeOK, Instance!Operations, Instance!Data, Underway, Instance!Touched,
     Replaces, PartsFit, WasThere
<1>11. Instance!NothingLost'
  BY <1>0 DEF Instance!NothingLost, SetAside, ComesBack, AsFound, PartsFit, NoneLater,
     MainAway, VerbOfPlace, Instance!TypeOK, Instance!Operations, Instance!Data, Underway,
     Instance!Touched, Replaces, WasThere
<1>12. QED
  BY <1>1, <1>2, <1>3, <1>4, <1>5, <1>6, <1>7, <1>8, <1>9, <1>10, <1>11

(* Updating, recreating, restoring: the way there, and the way back.       *)
LEMMA InstanceStopOldKeeps ==
  ASSUME Instance!ConstantsOK, InstanceInv, Instance!StopOld
  PROVE  InstanceInv'
<1> USE IdleOperation, NoDataIs DEF
      InstanceInv, Instance!Absent, Instance!Recorded, Instance!Present, Instance!Legacy,
      Instance!Storage, Instance!Key, Instance!At, Instance!NoMeta, Instance!NoBackup,
      Instance!containers, Instance!data, Instance!copies, Instance!counts
<1>0. /\ op.verb \in Replaces /\ Instance!Recorded /\ Instance!At("stop")
      /\ op' \in Instance!Operations
      /\ op'.at = "aside" /\ op'.verb = op.verb /\ op'.tag = op.tag /\ op'.was = op.was
      /\ op'.renamed = op.renamed /\ op'.candidate = op.candidate /\ op'.changed = op.changed
      /\ op'.made = op.made /\ op'.owns = op.owns /\ op'.found = Instance!Storage
      /\ op'.had = op.had
      /\ op'.aside = op.aside
      /\ main' = IF Instance!Present THEN [main EXCEPT !.is = "stopped"] ELSE main
      /\ UNCHANGED <<instanceSite, meta, prev, Instance!data, Instance!copies, Instance!counts>>
  <2>1. op \in Instance!Operations /\ Instance!Storage \in Instance!Data
    BY ReadsStorage
  <2>2. op.verb \in Replaces /\ Instance!Recorded /\ Instance!At("stop")
    BY <2>1 DEF Instance!StopOld, Instance!Operations, VerbOfPlace, Instance!Creating,
       Instance!Replacing, Instance!Undoing, Instance!Deleting, Replaces
  <2>3. QED
    BY <2>1, <2>2 DEF Instance!StopOld, Instance!Operations, Instance!Replacing
<1>1. Instance!TypeOK'
  <2>1. op' \in Instance!Operations
    BY <1>0, ReadsStorage DEF Instance!TypeOK, Instance!Operations, Instance!Creating,
       Instance!Replacing, Instance!Undoing, Instance!Deleting, Instance!ConstantsOK
  <2>2. /\ instanceSite' \in {"none", "addon", "operator"}
        /\ meta' \in [tag : 0..MaxTag, created : BOOLEAN, home : BOOLEAN]
    BY <1>0 DEF Instance!TypeOK, Instance!Operations, Instance!ConstantsOK
  <2>3. main' \in Instance!Containers /\ prev' \in Instance!Containers
    BY <1>0, AbsentContainer DEF Instance!TypeOK, Instance!Containers, Instance!Operations
  <2>4. /\ store' \in Instance!Data /\ old' \in Instance!Data
        /\ native' \in [data : Instance!Data, tag : 0..MaxTag]
    BY <1>0 DEF Instance!TypeOK, Instance!Data, Instance!Operations, Instance!ConstantsOK,
       PartsFit, VerbOfPlace, Instance!NoData
  <2>5. /\ kept' \in 0..MaxWrites /\ archives' \in 0..MaxWrites /\ cur' \in 1..MaxWrites
        /\ env' \in 0..InstanceMaxKeys /\ instanceKeys' \in 0..InstanceMaxKeys
        /\ instanceKills' \in 0..InstanceMaxKills
    BY <1>0 DEF Instance!TypeOK, Instance!Data, Instance!Operations, Instance!ConstantsOK,
       PartsFit, VerbOfPlace, Instance!NoData
  <2>6. QED
    BY <2>1, <2>2, <2>3, <2>4, <2>5 DEF Instance!TypeOK
<1>2. VerbOfPlace'
  BY <1>0 DEF VerbOfPlace, Instance!TypeOK, Instance!Operations, Replaces, Instance!Creating,
     Instance!Replacing, Instance!Undoing, Instance!Deleting, Instance!Touched
<1>3. MainAway'
  BY <1>0 DEF MainAway, VerbOfPlace, Instance!TypeOK, Instance!Operations,
     Instance!Containers, Instance!Undoing
<1>4. WasThere'
  BY <1>0 DEF WasThere, MainAway, VerbOfPlace, Instance!TypeOK, Instance!Operations,
     Instance!Containers, Instance!Undoing, Replaces
<1>5. MainHasData'
  BY <1>0 DEF MainHasData, MainAway, PartsFit, AsFound, VerbOfPlace, Instance!TypeOK,
     Instance!Containers, Instance!Operations, Instance!Data, Underway, Instance!Touched,
     Replaces, WasThere
<1>6. PartsFit'
  BY <1>0 DEF PartsFit, VerbOfPlace, Instance!TypeOK, Instance!Operations, Instance!Data,
     Replaces
<1>7. NoneLater'
  BY <1>0 DEF NoneLater, Instance!TypeOK, Instance!Operations, Instance!Data
<1>8. SetAside'
  BY <1>0 DEF SetAside, MainAway, Instance!NothingLost, NoneLater, VerbOfPlace,
     Instance!TypeOK, Instance!Operations, Instance!Data, Instance!Touched, Replaces,
     Instance!Undoing, PartsFit, WasThere
<1>9. AsFound'
  BY <1>0 DEF AsFound, SetAside, MainAway, MainHasData, VerbOfPlace, Instance!TypeOK,
     Instance!Operations, Instance!Data, Underway, Instance!Touched, Replaces,
     Instance!Undoing, PartsFit, WasThere
<1>10. ComesBack'
  <2>1. ~op.changed /\ ~op'.changed
    BY <1>0 DEF VerbOfPlace, Instance!Undoing
  <2>2. QED
    BY <1>0, <2>1 DEF ComesBack
<1>11. Instance!NothingLost'
  BY <1>0 DEF Instance!NothingLost, SetAside, ComesBack, AsFound, PartsFit, NoneLater,
     MainAway, VerbOfPlace, Instance!TypeOK, Instance!Operations, Instance!Data, Underway,
     Instance!Touched, Replaces, WasThere
<1>12. QED
  BY <1>1, <1>2, <1>3, <1>4, <1>5, <1>6, <1>7, <1>8, <1>9, <1>10, <1>11

LEMMA InstanceAsideKeeps ==
  ASSUME Instance!ConstantsOK, InstanceInv, Instance!Aside
  PROVE  InstanceInv'
<1> USE IdleOperation, NoDataIs DEF
      InstanceInv, Instance!Absent, Instance!Recorded, Instance!Present, Instance!Legacy,
      Instance!Storage, Instance!Key, Instance!At, Instance!NoMeta, Instance!NoBackup,
      Instance!containers, Instance!data, Instance!copies, Instance!counts, Instance!Newer
<1>0. /\ op.verb \in Replaces /\ Instance!Recorded /\ Instance!At("aside")
      /\ op' \in Instance!Operations
      /\ op'.at = "rename" /\ op'.verb = op.verb /\ op'.tag = op.tag /\ op'.was = op.was
      /\ op'.renamed = op.renamed /\ op'.candidate = op.candidate /\ op'.changed = op.changed
      /\ op'.made = op.made /\ op'.owns = op.owns /\ op'.found = op.found /\ op'.had = op.had
      /\ IF op.verb # "recreate" \/ Instance!Legacy
           THEN op'.aside = Instance!Storage /\ kept' = Instance!Newer(kept, Instance!Storage.v)
           ELSE op'.aside = op.aside /\ kept' = kept
      /\ UNCHANGED <<instanceSite, meta, Instance!containers, Instance!data, archives, native,
                     Instance!counts>>
  <2>1. op \in Instance!Operations /\ Instance!Storage \in Instance!Data
    BY ReadsStorage
  <2>2. op.verb \in Replaces /\ Instance!Recorded /\ Instance!At("aside")
    BY <2>1 DEF Instance!Aside, Instance!Operations, VerbOfPlace, Instance!Creating,
       Instance!Replacing, Instance!Undoing, Instance!Deleting, Replaces
  <2>3. CASE op.verb # "recreate" \/ Instance!Legacy
    BY <2>1, <2>2, <2>3 DEF Instance!Aside, Instance!Operations, Instance!Replacing
  <2>4. CASE ~(op.verb # "recreate" \/ Instance!Legacy)
    BY <2>1, <2>2, <2>4 DEF Instance!Aside, Instance!Goto, Instance!Operations,
       Instance!Replacing
  <2>5. QED
    BY <2>3, <2>4
<1>1. Instance!TypeOK'
  <2>1. op' \in Instance!Operations
    BY <1>0, ReadsStorage DEF Instance!TypeOK, Instance!Operations, Instance!Creating,
       Instance!Replacing, Instance!Undoing, Instance!Deleting, Instance!ConstantsOK
  <2>2. /\ instanceSite' \in {"none", "addon", "operator"}
        /\ meta' \in [tag : 0..MaxTag, created : BOOLEAN, home : BOOLEAN]
    BY <1>0 DEF Instance!TypeOK, Instance!Operations, Instance!ConstantsOK
  <2>3. main' \in Instance!Containers /\ prev' \in Instance!Containers
    BY <1>0, AbsentContainer DEF Instance!TypeOK, Instance!Containers, Instance!Operations
  <2>4. /\ store' \in Instance!Data /\ old' \in Instance!Data
        /\ native' \in [data : Instance!Data, tag : 0..MaxTag]
    BY <1>0 DEF Instance!TypeOK, Instance!Data, Instance!Operations, Instance!ConstantsOK,
       PartsFit, VerbOfPlace, Instance!NoData
  <2>5. /\ kept' \in 0..MaxWrites /\ archives' \in 0..MaxWrites /\ cur' \in 1..MaxWrites
        /\ env' \in 0..InstanceMaxKeys /\ instanceKeys' \in 0..InstanceMaxKeys
        /\ instanceKills' \in 0..InstanceMaxKills
    BY <1>0 DEF Instance!TypeOK, Instance!Data, Instance!Operations, Instance!ConstantsOK,
       PartsFit, VerbOfPlace, Instance!NoData
  <2>6. QED
    BY <2>1, <2>2, <2>3, <2>4, <2>5 DEF Instance!TypeOK
<1>2. VerbOfPlace'
  BY <1>0 DEF VerbOfPlace, Instance!TypeOK, Instance!Operations, Replaces, Instance!Creating,
     Instance!Replacing, Instance!Undoing, Instance!Deleting, Instance!Touched
<1>3. MainAway'
  BY <1>0 DEF MainAway, VerbOfPlace, Instance!TypeOK, Instance!Operations,
     Instance!Containers, Instance!Undoing
<1>4. WasThere'
  BY <1>0 DEF WasThere, MainAway, VerbOfPlace, Instance!TypeOK, Instance!Operations,
     Instance!Containers, Instance!Undoing, Replaces
<1>5. MainHasData'
  BY <1>0 DEF MainHasData, MainAway, PartsFit, AsFound, VerbOfPlace, Instance!TypeOK,
     Instance!Containers, Instance!Operations, Instance!Data, Underway, Instance!Touched,
     Replaces, WasThere
<1>6. PartsFit'
  BY <1>0 DEF PartsFit, VerbOfPlace, Instance!TypeOK, Instance!Operations, Instance!Data,
     Replaces
<1>7. NoneLater'
  BY <1>0 DEF NoneLater, Instance!TypeOK, Instance!Operations, Instance!Data
<1>8. SetAside'
  BY <1>0 DEF SetAside, MainAway, Instance!NothingLost, NoneLater, VerbOfPlace,
     Instance!TypeOK, Instance!Operations, Instance!Data, Instance!Touched, Replaces,
     Instance!Undoing, PartsFit, WasThere
<1>9. AsFound'
  BY <1>0 DEF AsFound, SetAside, MainAway, MainHasData, VerbOfPlace, Instance!TypeOK,
     Instance!Operations, Instance!Data, Underway, Instance!Touched, Replaces,
     Instance!Undoing, PartsFit, WasThere
<1>10. ComesBack'
  BY <1>0 DEF ComesBack, AsFound, SetAside, MainAway, Instance!NothingLost, VerbOfPlace,
     Instance!TypeOK, Instance!Operations, Instance!Data, Underway, Instance!Touched,
     Replaces, PartsFit, WasThere
<1>11. Instance!NothingLost'
  BY <1>0 DEF Instance!NothingLost, SetAside, ComesBack, AsFound, PartsFit, NoneLater,
     MainAway, VerbOfPlace, Instance!TypeOK, Instance!Operations, Instance!Data, Underway,
     Instance!Touched, Replaces, WasThere
<1>12. QED
  BY <1>1, <1>2, <1>3, <1>4, <1>5, <1>6, <1>7, <1>8, <1>9, <1>10, <1>11

LEMMA InstanceRenameOldKeeps ==
  ASSUME Instance!ConstantsOK, InstanceInv, Instance!RenameOld
  PROVE  InstanceInv'
<1> USE IdleOperation, NoDataIs DEF
      InstanceInv, Instance!RenameOld, Instance!Absent, Instance!Recorded, Instance!Present,
      Instance!Legacy, Instance!Storage, Instance!Key, Instance!At, Instance!NoMeta,
      Instance!NoBackup, Instance!containers, Instance!data, Instance!copies, Instance!counts
<1>0. op.verb \in Replaces /\ Instance!Recorded
  BY DEF Instance!TypeOK, Instance!Operations, VerbOfPlace, Instance!Creating,
     Instance!Replacing, Instance!Undoing, Instance!Deleting, Replaces
<1>1. Instance!TypeOK'
  <2>1. op' \in Instance!Operations
    BY <1>0, ReadsStorage DEF Instance!TypeOK, Instance!Operations, Instance!Creating,
       Instance!Replacing, Instance!Undoing, Instance!Deleting, Instance!ConstantsOK
  <2>2. /\ instanceSite' \in {"none", "addon", "operator"}
        /\ meta' \in [tag : 0..MaxTag, created : BOOLEAN, home : BOOLEAN]
    BY <1>0 DEF Instance!TypeOK, Instance!Operations, Instance!ConstantsOK
  <2>3. main' \in Instance!Containers /\ prev' \in Instance!Containers
    BY <1>0, AbsentContainer DEF Instance!TypeOK, Instance!Containers, Instance!Operations
  <2>4. /\ store' \in Instance!Data /\ old' \in Instance!Data
        /\ native' \in [data : Instance!Data, tag : 0..MaxTag]
    BY <1>0 DEF Instance!TypeOK, Instance!Data, Instance!Operations, Instance!ConstantsOK,
       PartsFit, VerbOfPlace, Instance!NoData
  <2>5. /\ kept' \in 0..MaxWrites /\ archives' \in 0..MaxWrites /\ cur' \in 1..MaxWrites
        /\ env' \in 0..InstanceMaxKeys /\ instanceKeys' \in 0..InstanceMaxKeys
        /\ instanceKills' \in 0..InstanceMaxKills
    BY <1>0 DEF Instance!TypeOK, Instance!Data, Instance!Operations, Instance!ConstantsOK,
       PartsFit, VerbOfPlace, Instance!NoData
  <2>6. QED
    BY <2>1, <2>2, <2>3, <2>4, <2>5 DEF Instance!TypeOK
<1>2. VerbOfPlace'
  BY <1>0 DEF VerbOfPlace, Instance!TypeOK, Instance!Operations, Replaces, Instance!Creating,
     Instance!Replacing, Instance!Undoing, Instance!Deleting, Instance!Touched
<1>3. MainAway'
  BY <1>0 DEF MainAway, VerbOfPlace, Instance!TypeOK, Instance!Operations,
     Instance!Containers, Instance!Undoing
<1>4. WasThere'
  BY <1>0 DEF WasThere, MainAway, VerbOfPlace, Instance!TypeOK, Instance!Operations,
     Instance!Containers, Instance!Undoing, Replaces
<1>5. MainHasData'
  BY <1>0 DEF MainHasData, MainAway, PartsFit, AsFound, VerbOfPlace, Instance!TypeOK,
     Instance!Containers, Instance!Operations, Instance!Data, Underway, Instance!Touched,
     Replaces, WasThere
<1>6. PartsFit'
  BY <1>0 DEF PartsFit, VerbOfPlace, Instance!TypeOK, Instance!Operations, Instance!Data,
     Replaces
<1>7. NoneLater'
  BY <1>0 DEF NoneLater, Instance!TypeOK, Instance!Operations, Instance!Data
<1>8. SetAside'
  BY <1>0 DEF SetAside, MainAway, Instance!NothingLost, NoneLater, VerbOfPlace,
     Instance!TypeOK, Instance!Operations, Instance!Data, Instance!Touched, Replaces,
     Instance!Undoing, PartsFit, WasThere
<1>9. AsFound'
  BY <1>0 DEF AsFound, SetAside, MainAway, MainHasData, VerbOfPlace, Instance!TypeOK,
     Instance!Operations, Instance!Data, Underway, Instance!Touched, Replaces,
     Instance!Undoing, PartsFit, WasThere
<1>10. ComesBack'
  BY <1>0 DEF ComesBack, AsFound, SetAside, MainAway, Instance!NothingLost, VerbOfPlace,
     Instance!TypeOK, Instance!Operations, Instance!Data, Underway, Instance!Touched,
     Replaces, PartsFit, WasThere
<1>11. Instance!NothingLost'
  BY <1>0 DEF Instance!NothingLost, SetAside, ComesBack, AsFound, PartsFit, NoneLater,
     MainAway, VerbOfPlace, Instance!TypeOK, Instance!Operations, Instance!Data, Underway,
     Instance!Touched, Replaces, WasThere
<1>12. QED
  BY <1>1, <1>2, <1>3, <1>4, <1>5, <1>6, <1>7, <1>8, <1>9, <1>10, <1>11

LEMMA InstanceClearDataKeeps ==
  ASSUME Instance!ConstantsOK, InstanceInv, Instance!ClearData
  PROVE  InstanceInv'
<1> USE IdleOperation, NoDataIs DEF
      InstanceInv, Instance!ClearData, Instance!Absent, Instance!Recorded, Instance!Present,
      Instance!Legacy, Instance!Storage, Instance!Key, Instance!At, Instance!NoMeta,
      Instance!NoBackup, Instance!containers, Instance!data, Instance!copies, Instance!counts
<1>0. op.verb \in Replaces /\ Instance!Recorded
  BY DEF Instance!TypeOK, Instance!Operations, VerbOfPlace, Instance!Creating,
     Instance!Replacing, Instance!Undoing, Instance!Deleting, Replaces
<1>1. Instance!TypeOK'
  <2>1. op' \in Instance!Operations
    BY <1>0, ReadsStorage DEF Instance!TypeOK, Instance!Operations, Instance!Creating,
       Instance!Replacing, Instance!Undoing, Instance!Deleting, Instance!ConstantsOK
  <2>2. /\ instanceSite' \in {"none", "addon", "operator"}
        /\ meta' \in [tag : 0..MaxTag, created : BOOLEAN, home : BOOLEAN]
    BY <1>0 DEF Instance!TypeOK, Instance!Operations, Instance!ConstantsOK
  <2>3. main' \in Instance!Containers /\ prev' \in Instance!Containers
    BY <1>0, AbsentContainer DEF Instance!TypeOK, Instance!Containers, Instance!Operations
  <2>4. /\ store' \in Instance!Data /\ old' \in Instance!Data
        /\ native' \in [data : Instance!Data, tag : 0..MaxTag]
    BY <1>0 DEF Instance!TypeOK, Instance!Data, Instance!Operations, Instance!ConstantsOK,
       PartsFit, VerbOfPlace, Instance!NoData
  <2>5. /\ kept' \in 0..MaxWrites /\ archives' \in 0..MaxWrites /\ cur' \in 1..MaxWrites
        /\ env' \in 0..InstanceMaxKeys /\ instanceKeys' \in 0..InstanceMaxKeys
        /\ instanceKills' \in 0..InstanceMaxKills
    BY <1>0 DEF Instance!TypeOK, Instance!Data, Instance!Operations, Instance!ConstantsOK,
       PartsFit, VerbOfPlace, Instance!NoData
  <2>6. QED
    BY <2>1, <2>2, <2>3, <2>4, <2>5 DEF Instance!TypeOK
<1>2. VerbOfPlace'
  BY <1>0 DEF VerbOfPlace, Instance!TypeOK, Instance!Operations, Replaces, Instance!Creating,
     Instance!Replacing, Instance!Undoing, Instance!Deleting, Instance!Touched
<1>3. MainAway'
  BY <1>0 DEF MainAway, VerbOfPlace, Instance!TypeOK, Instance!Operations,
     Instance!Containers, Instance!Undoing
<1>4. WasThere'
  BY <1>0 DEF WasThere, MainAway, VerbOfPlace, Instance!TypeOK, Instance!Operations,
     Instance!Containers, Instance!Undoing, Replaces
<1>5. MainHasData'
  BY <1>0 DEF MainHasData, MainAway, PartsFit, AsFound, VerbOfPlace, Instance!TypeOK,
     Instance!Containers, Instance!Operations, Instance!Data, Underway, Instance!Touched,
     Replaces, WasThere
<1>6. PartsFit'
  BY <1>0 DEF PartsFit, VerbOfPlace, Instance!TypeOK, Instance!Operations, Instance!Data,
     Replaces
<1>7. NoneLater'
  BY <1>0 DEF NoneLater, Instance!TypeOK, Instance!Operations, Instance!Data
<1>8. SetAside'
  BY <1>0 DEF SetAside, MainAway, Instance!NothingLost, NoneLater, VerbOfPlace,
     Instance!TypeOK, Instance!Operations, Instance!Data, Instance!Touched, Replaces,
     Instance!Undoing, PartsFit, WasThere
<1>9. AsFound'
  BY <1>0 DEF AsFound, SetAside, MainAway, MainHasData, VerbOfPlace, Instance!TypeOK,
     Instance!Operations, Instance!Data, Underway, Instance!Touched, Replaces,
     Instance!Undoing, PartsFit, WasThere
<1>10. ComesBack'
  BY <1>0 DEF ComesBack, AsFound, SetAside, MainAway, Instance!NothingLost, VerbOfPlace,
     Instance!TypeOK, Instance!Operations, Instance!Data, Underway, Instance!Touched,
     Replaces, PartsFit, WasThere
<1>11. Instance!NothingLost'
  BY <1>0 DEF Instance!NothingLost, SetAside, ComesBack, AsFound, PartsFit, NoneLater,
     MainAway, VerbOfPlace, Instance!TypeOK, Instance!Operations, Instance!Data, Underway,
     Instance!Touched, Replaces, WasThere
<1>12. QED
  BY <1>1, <1>2, <1>3, <1>4, <1>5, <1>6, <1>7, <1>8, <1>9, <1>10, <1>11

LEMMA InstanceCopyDataKeeps ==
  ASSUME Instance!ConstantsOK, InstanceInv, Instance!CopyData
  PROVE  InstanceInv'
<1> USE IdleOperation, NoDataIs DEF
      InstanceInv, Instance!Absent, Instance!Recorded, Instance!Present, Instance!Legacy,
      Instance!Storage, Instance!Key, Instance!At, Instance!NoMeta, Instance!NoBackup,
      Instance!containers, Instance!data, Instance!copies, Instance!counts
<1>0. /\ op.verb \in Replaces /\ Instance!Recorded /\ Instance!At("replace")
      /\ op' \in Instance!Operations
      /\ op'.at = "start" /\ op'.verb = op.verb /\ op'.tag = op.tag /\ op'.was = op.was
      /\ op'.renamed = op.renamed /\ op'.candidate = op.candidate
      /\ op'.changed = (op.verb = "restore" \/ Instance!Legacy)
      /\ op'.made = op.made /\ op'.owns = op.owns /\ op'.found = op.found /\ op'.had = op.had
      /\ op'.aside = op.aside /\ (op.verb = "restore" => op.changed)
      /\ IF op.verb = "restore" THEN store' = native.data /\ env' = native.data.k
         ELSE IF Instance!Legacy THEN store' = old /\ env' = old.k
         ELSE UNCHANGED <<store, env>>
      /\ UNCHANGED <<instanceSite, meta, Instance!containers, old, Instance!copies,
                     Instance!counts>>
  <2>1. op \in Instance!Operations
    BY ReadsStorage
  <2>2. op.verb \in Replaces /\ Instance!Recorded /\ Instance!At("replace")
    BY <2>1 DEF Instance!CopyData, Instance!Operations, VerbOfPlace, Instance!Creating,
       Instance!Replacing, Instance!Undoing, Instance!Deleting, Replaces
  <2>3. QED
    BY <2>1, <2>2 DEF Instance!CopyData, Instance!Operations, Instance!Replacing,
       Instance!Legacy
<1>1. Instance!TypeOK'
  <2>1. op' \in Instance!Operations
    BY <1>0, ReadsStorage DEF Instance!TypeOK, Instance!Operations, Instance!Creating,
       Instance!Replacing, Instance!Undoing, Instance!Deleting, Instance!ConstantsOK
  <2>2. /\ instanceSite' \in {"none", "addon", "operator"}
        /\ meta' \in [tag : 0..MaxTag, created : BOOLEAN, home : BOOLEAN]
    BY <1>0 DEF Instance!TypeOK, Instance!Operations, Instance!ConstantsOK
  <2>3. main' \in Instance!Containers /\ prev' \in Instance!Containers
    BY <1>0, AbsentContainer DEF Instance!TypeOK, Instance!Containers, Instance!Operations
  <2>4. /\ store' \in Instance!Data /\ old' \in Instance!Data
        /\ native' \in [data : Instance!Data, tag : 0..MaxTag]
    BY <1>0 DEF Instance!TypeOK, Instance!Data, Instance!Operations, Instance!ConstantsOK,
       PartsFit, VerbOfPlace, Instance!NoData
  <2>5. /\ kept' \in 0..MaxWrites /\ archives' \in 0..MaxWrites /\ cur' \in 1..MaxWrites
        /\ env' \in 0..InstanceMaxKeys /\ instanceKeys' \in 0..InstanceMaxKeys
        /\ instanceKills' \in 0..InstanceMaxKills
    BY <1>0 DEF Instance!TypeOK, Instance!Data, Instance!Operations, Instance!ConstantsOK,
       PartsFit, VerbOfPlace, Instance!NoData
  <2>6. QED
    BY <2>1, <2>2, <2>3, <2>4, <2>5 DEF Instance!TypeOK
<1>2. VerbOfPlace'
  BY <1>0 DEF VerbOfPlace, Instance!TypeOK, Instance!Operations, Replaces, Instance!Creating,
     Instance!Replacing, Instance!Undoing, Instance!Deleting, Instance!Touched
<1>3. MainAway'
  BY <1>0 DEF MainAway, VerbOfPlace, Instance!TypeOK, Instance!Operations,
     Instance!Containers, Instance!Undoing
<1>4. WasThere'
  BY <1>0 DEF WasThere, MainAway, VerbOfPlace, Instance!TypeOK, Instance!Operations,
     Instance!Containers, Instance!Undoing, Replaces
<1>5. MainHasData'
  BY <1>0 DEF MainHasData, MainAway, PartsFit, AsFound, VerbOfPlace, Instance!TypeOK,
     Instance!Containers, Instance!Operations, Instance!Data, Underway, Instance!Touched,
     Replaces, WasThere
<1>6. PartsFit'
  BY <1>0 DEF PartsFit, VerbOfPlace, Instance!TypeOK, Instance!Operations, Instance!Data,
     Replaces
<1>7. NoneLater'
  BY <1>0 DEF NoneLater, Instance!TypeOK, Instance!Operations, Instance!Data
<1>8. SetAside'
  BY <1>0 DEF SetAside, MainAway, Instance!NothingLost, NoneLater, VerbOfPlace,
     Instance!TypeOK, Instance!Operations, Instance!Data, Instance!Touched, Replaces,
     Instance!Undoing, PartsFit, WasThere
<1>9. AsFound'
  <2>0. /\ op.at = "replace" /\ op'.at = "start" /\ op \in Instance!Operations
        /\ op'.verb = op.verb
        /\ Instance!Legacy' = Instance!Legacy /\ prev' = prev /\ op'.aside = op.aside
        /\ op'.found = op.found
    BY <1>0 DEF Instance!Operations, Instance!TypeOK
  <2>1. /\ op.verb # "recreate" \/ Instance!Legacy => op.aside = op.found
        /\ Instance!Legacy => old = op.found
        /\ ~Instance!Legacy /\ op.verb # "recreate" /\ ~Instance!Touched => store = op.found
    BY <1>0, <2>0 DEF AsFound, Underway
  <2>2. ~Instance!Legacy /\ op.verb # "recreate" /\ ~Instance!Touched' => store' = op.found
    BY <1>0, <2>0, <2>1 DEF Instance!Touched, Replaces, VerbOfPlace
  <2>3. op.renamed /\ Instance!Legacy => ~prev.home
    BY <1>0, <2>0 DEF AsFound, Underway
  <2>4. op.renamed /\ ~Instance!Legacy /\ prev.home
          => (IF op.verb = "recreate" THEN store' ELSE op.found) # Instance!NoData
    BY <1>0, <2>0 DEF AsFound, Underway, Replaces
  <2>5. Instance!Legacy => store'.v = old'.v /\ store'.k = old'.k
    BY <1>0, <2>0 DEF VerbOfPlace, Replaces
  <2>6. QED
    BY <1>0, <2>0, <2>1, <2>2, <2>3, <2>4, <2>5 DEF AsFound, Underway
<1>10. ComesBack'
  BY <1>0 DEF ComesBack, AsFound, SetAside, MainAway, Instance!NothingLost, VerbOfPlace,
     Instance!TypeOK, Instance!Operations, Instance!Data, Underway, Instance!Touched,
     Replaces, PartsFit, WasThere
<1>11. Instance!NothingLost'
  BY <1>0 DEF Instance!NothingLost, SetAside, ComesBack, AsFound, PartsFit, NoneLater,
     MainAway, VerbOfPlace, Instance!TypeOK, Instance!Operations, Instance!Data, Underway,
     Instance!Touched, Replaces, WasThere
<1>12. QED
  BY <1>1, <1>2, <1>3, <1>4, <1>5, <1>6, <1>7, <1>8, <1>9, <1>10, <1>11

LEMMA InstanceStartNewKeeps ==
  ASSUME Instance!ConstantsOK, InstanceInv, Instance!StartNew
  PROVE  InstanceInv'
<1> USE IdleOperation, NoDataIs DEF
      InstanceInv, Instance!StartNew, Instance!Absent, Instance!Recorded, Instance!Present,
      Instance!Legacy, Instance!Storage, Instance!Key, Instance!At, Instance!NoMeta,
      Instance!NoBackup, Instance!containers, Instance!data, Instance!copies, Instance!counts,
      Instance!Migrated, Instance!Newer
<1>0. op.verb \in Replaces /\ Instance!Recorded
  BY DEF Instance!TypeOK, Instance!Operations, VerbOfPlace, Instance!Creating,
     Instance!Replacing, Instance!Undoing, Instance!Deleting, Replaces
<1>1. Instance!TypeOK'
  <2>1. op' \in Instance!Operations
    BY <1>0, ReadsStorage DEF Instance!TypeOK, Instance!Operations, Instance!Creating,
       Instance!Replacing, Instance!Undoing, Instance!Deleting, Instance!ConstantsOK
  <2>2. /\ instanceSite' \in {"none", "addon", "operator"}
        /\ meta' \in [tag : 0..MaxTag, created : BOOLEAN, home : BOOLEAN]
    BY <1>0 DEF Instance!TypeOK, Instance!Operations, Instance!ConstantsOK
  <2>3. main' \in Instance!Containers /\ prev' \in Instance!Containers
    BY <1>0, AbsentContainer DEF Instance!TypeOK, Instance!Containers, Instance!Operations,
       Instance!Container
  <2>4. /\ store' \in Instance!Data /\ old' \in Instance!Data
        /\ native' \in [data : Instance!Data, tag : 0..MaxTag]
    BY <1>0, MigratedIs DEF Instance!TypeOK, Instance!Data, Instance!Operations,
       Instance!ConstantsOK, PartsFit, VerbOfPlace, Instance!NoData
  <2>5. /\ kept' \in 0..MaxWrites /\ archives' \in 0..MaxWrites /\ cur' \in 1..MaxWrites
        /\ env' \in 0..InstanceMaxKeys /\ instanceKeys' \in 0..InstanceMaxKeys
        /\ instanceKills' \in 0..InstanceMaxKills
    BY <1>0 DEF Instance!TypeOK, Instance!Data, Instance!Operations, Instance!ConstantsOK,
       PartsFit, VerbOfPlace, Instance!NoData
  <2>6. QED
    BY <2>1, <2>2, <2>3, <2>4, <2>5 DEF Instance!TypeOK
<1>2. VerbOfPlace'
  BY <1>0 DEF VerbOfPlace, Instance!TypeOK, Instance!Operations, Replaces, Instance!Creating,
     Instance!Replacing, Instance!Undoing, Instance!Deleting, Instance!Touched,
     Instance!Container
<1>3. MainAway'
  BY <1>0 DEF MainAway, VerbOfPlace, Instance!TypeOK, Instance!Operations,
     Instance!Containers, Instance!Undoing, Instance!Container
<1>4. WasThere'
  BY <1>0 DEF WasThere, MainAway, VerbOfPlace, Instance!TypeOK, Instance!Operations,
     Instance!Containers, Instance!Undoing, Replaces, Instance!Container
<1>5. MainHasData'
  BY <1>0 DEF MainHasData, MainAway, PartsFit, AsFound, VerbOfPlace, Instance!TypeOK,
     Instance!Containers, Instance!Operations, Instance!Data, Underway, Instance!Touched,
     Replaces, WasThere, Instance!Container
<1>6. PartsFit'
  BY <1>0 DEF PartsFit, VerbOfPlace, Instance!TypeOK, Instance!Operations, Instance!Data,
     Replaces, Instance!Container
<1>7. NoneLater'
  BY <1>0 DEF NoneLater, Instance!TypeOK, Instance!Operations, Instance!Data, Instance!Container
<1>8. SetAside'
  BY <1>0 DEF SetAside, MainAway, Instance!NothingLost, NoneLater, VerbOfPlace,
     Instance!TypeOK, Instance!Operations, Instance!Data, Instance!Touched, Replaces,
     Instance!Undoing, PartsFit, WasThere, Instance!Container
<1>9. AsFound'
  BY <1>0 DEF AsFound, SetAside, MainAway, MainHasData, VerbOfPlace, Instance!TypeOK,
     Instance!Operations, Instance!Data, Underway, Instance!Touched, Replaces,
     Instance!Undoing, PartsFit, WasThere, Instance!Container
<1>10. ComesBack'
  BY <1>0 DEF ComesBack, AsFound, SetAside, MainAway, Instance!NothingLost, VerbOfPlace,
     Instance!TypeOK, Instance!Operations, Instance!Data, Underway, Instance!Touched,
     Replaces, PartsFit, WasThere, Instance!Container
<1>11. Instance!NothingLost'
  BY <1>0 DEF Instance!NothingLost, SetAside, ComesBack, AsFound, PartsFit, NoneLater,
     MainAway, VerbOfPlace, Instance!TypeOK, Instance!Operations, Instance!Data, Underway,
     Instance!Touched, Replaces, WasThere, Instance!Container
<1>12. QED
  BY <1>1, <1>2, <1>3, <1>4, <1>5, <1>6, <1>7, <1>8, <1>9, <1>10, <1>11

LEMMA InstanceRecordNewKeeps ==
  ASSUME Instance!ConstantsOK, InstanceInv, Instance!RecordNew
  PROVE  InstanceInv'
<1> USE IdleOperation, NoDataIs DEF
      InstanceInv, Instance!RecordNew, Instance!Absent, Instance!Recorded, Instance!Present,
      Instance!Legacy, Instance!Storage, Instance!Key, Instance!At, Instance!NoMeta,
      Instance!NoBackup, Instance!containers, Instance!data, Instance!copies, Instance!counts,
      Instance!Goto
<1>0. op.verb \in Replaces /\ Instance!Recorded
  BY DEF Instance!TypeOK, Instance!Operations, VerbOfPlace, Instance!Creating,
     Instance!Replacing, Instance!Undoing, Instance!Deleting, Replaces
<1>1. Instance!TypeOK'
  <2>1. op' \in Instance!Operations
    BY <1>0, ReadsStorage DEF Instance!TypeOK, Instance!Operations, Instance!Creating,
       Instance!Replacing, Instance!Undoing, Instance!Deleting, Instance!ConstantsOK
  <2>2. /\ instanceSite' \in {"none", "addon", "operator"}
        /\ meta' \in [tag : 0..MaxTag, created : BOOLEAN, home : BOOLEAN]
    BY <1>0 DEF Instance!TypeOK, Instance!Operations, Instance!ConstantsOK
  <2>3. main' \in Instance!Containers /\ prev' \in Instance!Containers
    BY <1>0, AbsentContainer DEF Instance!TypeOK, Instance!Containers, Instance!Operations
  <2>4. /\ store' \in Instance!Data /\ old' \in Instance!Data
        /\ native' \in [data : Instance!Data, tag : 0..MaxTag]
    BY <1>0 DEF Instance!TypeOK, Instance!Data, Instance!Operations, Instance!ConstantsOK,
       PartsFit, VerbOfPlace, Instance!NoData
  <2>5. /\ kept' \in 0..MaxWrites /\ archives' \in 0..MaxWrites /\ cur' \in 1..MaxWrites
        /\ env' \in 0..InstanceMaxKeys /\ instanceKeys' \in 0..InstanceMaxKeys
        /\ instanceKills' \in 0..InstanceMaxKills
    BY <1>0 DEF Instance!TypeOK, Instance!Data, Instance!Operations, Instance!ConstantsOK,
       PartsFit, VerbOfPlace, Instance!NoData
  <2>6. QED
    BY <2>1, <2>2, <2>3, <2>4, <2>5 DEF Instance!TypeOK
<1>2. VerbOfPlace'
  BY <1>0 DEF VerbOfPlace, Instance!TypeOK, Instance!Operations, Replaces, Instance!Creating,
     Instance!Replacing, Instance!Undoing, Instance!Deleting, Instance!Touched
<1>3. MainAway'
  BY <1>0 DEF MainAway, VerbOfPlace, Instance!TypeOK, Instance!Operations,
     Instance!Containers, Instance!Undoing
<1>4. WasThere'
  BY <1>0 DEF WasThere, MainAway, VerbOfPlace, Instance!TypeOK, Instance!Operations,
     Instance!Containers, Instance!Undoing, Replaces
<1>5. MainHasData'
  BY <1>0 DEF MainHasData, MainAway, PartsFit, AsFound, VerbOfPlace, Instance!TypeOK,
     Instance!Containers, Instance!Operations, Instance!Data, Underway, Instance!Touched,
     Replaces, WasThere
<1>6. PartsFit'
  BY <1>0 DEF PartsFit, VerbOfPlace, Instance!TypeOK, Instance!Operations, Instance!Data,
     Replaces
<1>7. NoneLater'
  BY <1>0 DEF NoneLater, Instance!TypeOK, Instance!Operations, Instance!Data
<1>8. SetAside'
  BY <1>0 DEF SetAside, MainAway, Instance!NothingLost, NoneLater, VerbOfPlace,
     Instance!TypeOK, Instance!Operations, Instance!Data, Instance!Touched, Replaces,
     Instance!Undoing, PartsFit, WasThere
<1>9. AsFound'
  BY <1>0 DEF AsFound, SetAside, MainAway, MainHasData, VerbOfPlace, Instance!TypeOK,
     Instance!Operations, Instance!Data, Underway, Instance!Touched, Replaces,
     Instance!Undoing, PartsFit, WasThere
<1>10. ComesBack'
  BY <1>0 DEF ComesBack, AsFound, SetAside, MainAway, Instance!NothingLost, VerbOfPlace,
     Instance!TypeOK, Instance!Operations, Instance!Data, Underway, Instance!Touched,
     Replaces, PartsFit, WasThere
<1>11. Instance!NothingLost'
  BY <1>0 DEF Instance!NothingLost, SetAside, ComesBack, AsFound, PartsFit, NoneLater,
     MainAway, VerbOfPlace, Instance!TypeOK, Instance!Operations, Instance!Data, Underway,
     Instance!Touched, Replaces, WasThere
<1>12. QED
  BY <1>1, <1>2, <1>3, <1>4, <1>5, <1>6, <1>7, <1>8, <1>9, <1>10, <1>11

LEMMA InstanceDropOldKeeps ==
  ASSUME Instance!ConstantsOK, InstanceInv, Instance!DropOld
  PROVE  InstanceInv'
<1> USE IdleOperation, NoDataIs DEF
      InstanceInv, Instance!DropOld, Instance!Absent, Instance!Recorded, Instance!Present,
      Instance!Legacy, Instance!Storage, Instance!Key, Instance!At, Instance!NoMeta,
      Instance!NoBackup, Instance!containers, Instance!data, Instance!copies, Instance!counts,
      Instance!End
<1>0. op.verb \in Replaces /\ Instance!Recorded
  BY DEF Instance!TypeOK, Instance!Operations, VerbOfPlace, Instance!Creating,
     Instance!Replacing, Instance!Undoing, Instance!Deleting, Replaces
<1>1. Instance!TypeOK'
  <2>1. op' \in Instance!Operations
    BY <1>0, ReadsStorage DEF Instance!TypeOK, Instance!Operations, Instance!Creating,
       Instance!Replacing, Instance!Undoing, Instance!Deleting, Instance!ConstantsOK
  <2>2. /\ instanceSite' \in {"none", "addon", "operator"}
        /\ meta' \in [tag : 0..MaxTag, created : BOOLEAN, home : BOOLEAN]
    BY <1>0 DEF Instance!TypeOK, Instance!Operations, Instance!ConstantsOK
  <2>3. main' \in Instance!Containers /\ prev' \in Instance!Containers
    BY <1>0, AbsentContainer DEF Instance!TypeOK, Instance!Containers, Instance!Operations
  <2>4. /\ store' \in Instance!Data /\ old' \in Instance!Data
        /\ native' \in [data : Instance!Data, tag : 0..MaxTag]
    BY <1>0 DEF Instance!TypeOK, Instance!Data, Instance!Operations, Instance!ConstantsOK,
       PartsFit, VerbOfPlace, Instance!NoData
  <2>5. /\ kept' \in 0..MaxWrites /\ archives' \in 0..MaxWrites /\ cur' \in 1..MaxWrites
        /\ env' \in 0..InstanceMaxKeys /\ instanceKeys' \in 0..InstanceMaxKeys
        /\ instanceKills' \in 0..InstanceMaxKills
    BY <1>0 DEF Instance!TypeOK, Instance!Data, Instance!Operations, Instance!ConstantsOK,
       PartsFit, VerbOfPlace, Instance!NoData
  <2>6. QED
    BY <2>1, <2>2, <2>3, <2>4, <2>5 DEF Instance!TypeOK
<1>2. VerbOfPlace'
  BY <1>0 DEF VerbOfPlace, Instance!TypeOK, Instance!Operations, Replaces, Instance!Creating,
     Instance!Replacing, Instance!Undoing, Instance!Deleting, Instance!Touched
<1>3. MainAway'
  BY <1>0 DEF MainAway, VerbOfPlace, Instance!TypeOK, Instance!Operations,
     Instance!Containers, Instance!Undoing
<1>4. WasThere'
  BY <1>0 DEF WasThere, MainAway, VerbOfPlace, Instance!TypeOK, Instance!Operations,
     Instance!Containers, Instance!Undoing, Replaces
<1>5. MainHasData'
  BY <1>0 DEF MainHasData, MainAway, PartsFit, AsFound, VerbOfPlace, Instance!TypeOK,
     Instance!Containers, Instance!Operations, Instance!Data, Underway, Instance!Touched,
     Replaces, WasThere
<1>6. PartsFit'
  BY <1>0 DEF PartsFit, VerbOfPlace, Instance!TypeOK, Instance!Operations, Instance!Data,
     Replaces
<1>7. NoneLater'
  BY <1>0 DEF NoneLater, Instance!TypeOK, Instance!Operations, Instance!Data
<1>8. SetAside'
  BY <1>0 DEF SetAside, MainAway, Instance!NothingLost, NoneLater, VerbOfPlace,
     Instance!TypeOK, Instance!Operations, Instance!Data, Instance!Touched, Replaces,
     Instance!Undoing, PartsFit, WasThere
<1>9. AsFound'
  BY <1>0 DEF AsFound, SetAside, MainAway, MainHasData, VerbOfPlace, Instance!TypeOK,
     Instance!Operations, Instance!Data, Underway, Instance!Touched, Replaces,
     Instance!Undoing, PartsFit, WasThere
<1>10. ComesBack'
  BY <1>0 DEF ComesBack, AsFound, SetAside, MainAway, Instance!NothingLost, VerbOfPlace,
     Instance!TypeOK, Instance!Operations, Instance!Data, Underway, Instance!Touched,
     Replaces, PartsFit, WasThere
<1>11. Instance!NothingLost'
  BY <1>0 DEF Instance!NothingLost, SetAside, ComesBack, AsFound, PartsFit, NoneLater,
     MainAway, VerbOfPlace, Instance!TypeOK, Instance!Operations, Instance!Data, Underway,
     Instance!Touched, Replaces, WasThere
<1>12. QED
  BY <1>1, <1>2, <1>3, <1>4, <1>5, <1>6, <1>7, <1>8, <1>9, <1>10, <1>11

LEMMA InstanceFailReplaceKeeps ==
  ASSUME Instance!ConstantsOK, InstanceInv, Instance!FailReplace
  PROVE  InstanceInv'
<1> USE IdleOperation, NoDataIs DEF
      InstanceInv, Instance!FailReplace, Instance!Absent, Instance!Recorded, Instance!Present,
      Instance!Legacy, Instance!Storage, Instance!Key, Instance!At, Instance!NoMeta,
      Instance!NoBackup, Instance!containers, Instance!data, Instance!copies, Instance!counts,
      Instance!Goto
<1>0. op.verb \in Replaces /\ Instance!Recorded
  BY DEF Instance!TypeOK, Instance!Operations, VerbOfPlace, Instance!Creating,
     Instance!Replacing, Instance!Undoing, Instance!Deleting, Replaces
<1>1. Instance!TypeOK'
  <2>1. op' \in Instance!Operations
    BY <1>0, ReadsStorage DEF Instance!TypeOK, Instance!Operations, Instance!Creating,
       Instance!Replacing, Instance!Undoing, Instance!Deleting, Instance!ConstantsOK
  <2>2. /\ instanceSite' \in {"none", "addon", "operator"}
        /\ meta' \in [tag : 0..MaxTag, created : BOOLEAN, home : BOOLEAN]
    BY <1>0 DEF Instance!TypeOK, Instance!Operations, Instance!ConstantsOK
  <2>3. main' \in Instance!Containers /\ prev' \in Instance!Containers
    BY <1>0, AbsentContainer DEF Instance!TypeOK, Instance!Containers, Instance!Operations
  <2>4. /\ store' \in Instance!Data /\ old' \in Instance!Data
        /\ native' \in [data : Instance!Data, tag : 0..MaxTag]
    BY <1>0 DEF Instance!TypeOK, Instance!Data, Instance!Operations, Instance!ConstantsOK,
       PartsFit, VerbOfPlace, Instance!NoData
  <2>5. /\ kept' \in 0..MaxWrites /\ archives' \in 0..MaxWrites /\ cur' \in 1..MaxWrites
        /\ env' \in 0..InstanceMaxKeys /\ instanceKeys' \in 0..InstanceMaxKeys
        /\ instanceKills' \in 0..InstanceMaxKills
    BY <1>0 DEF Instance!TypeOK, Instance!Data, Instance!Operations, Instance!ConstantsOK,
       PartsFit, VerbOfPlace, Instance!NoData
  <2>6. QED
    BY <2>1, <2>2, <2>3, <2>4, <2>5 DEF Instance!TypeOK
<1>2. VerbOfPlace'
  BY <1>0 DEF VerbOfPlace, Instance!TypeOK, Instance!Operations, Replaces, Instance!Creating,
     Instance!Replacing, Instance!Undoing, Instance!Deleting, Instance!Touched
<1>3. MainAway'
  BY <1>0 DEF MainAway, VerbOfPlace, Instance!TypeOK, Instance!Operations,
     Instance!Containers, Instance!Undoing
<1>4. WasThere'
  BY <1>0 DEF WasThere, MainAway, VerbOfPlace, Instance!TypeOK, Instance!Operations,
     Instance!Containers, Instance!Undoing, Replaces
<1>5. MainHasData'
  BY <1>0 DEF MainHasData, MainAway, PartsFit, AsFound, VerbOfPlace, Instance!TypeOK,
     Instance!Containers, Instance!Operations, Instance!Data, Underway, Instance!Touched,
     Replaces, WasThere
<1>6. PartsFit'
  BY <1>0 DEF PartsFit, VerbOfPlace, Instance!TypeOK, Instance!Operations, Instance!Data,
     Replaces
<1>7. NoneLater'
  BY <1>0 DEF NoneLater, Instance!TypeOK, Instance!Operations, Instance!Data
<1>8. SetAside'
  BY <1>0 DEF SetAside, MainAway, Instance!NothingLost, NoneLater, VerbOfPlace,
     Instance!TypeOK, Instance!Operations, Instance!Data, Instance!Touched, Replaces,
     Instance!Undoing, PartsFit, WasThere
<1>9. AsFound'
  BY <1>0 DEF AsFound, SetAside, MainAway, MainHasData, VerbOfPlace, Instance!TypeOK,
     Instance!Operations, Instance!Data, Underway, Instance!Touched, Replaces,
     Instance!Undoing, PartsFit, WasThere
<1>10. ComesBack'
  BY <1>0 DEF ComesBack, AsFound, SetAside, MainAway, Instance!NothingLost, VerbOfPlace,
     Instance!TypeOK, Instance!Operations, Instance!Data, Underway, Instance!Touched,
     Replaces, PartsFit, WasThere
<1>11. Instance!NothingLost'
  BY <1>0 DEF Instance!NothingLost, SetAside, ComesBack, AsFound, PartsFit, NoneLater,
     MainAway, VerbOfPlace, Instance!TypeOK, Instance!Operations, Instance!Data, Underway,
     Instance!Touched, Replaces, WasThere
<1>12. QED
  BY <1>1, <1>2, <1>3, <1>4, <1>5, <1>6, <1>7, <1>8, <1>9, <1>10, <1>11

LEMMA InstanceUndoStartKeeps ==
  ASSUME Instance!ConstantsOK, InstanceInv, Instance!UndoStart
  PROVE  InstanceInv'
<1> USE IdleOperation, NoDataIs DEF
      InstanceInv, Instance!UndoStart, Instance!Absent, Instance!Recorded, Instance!Present,
      Instance!Legacy, Instance!Storage, Instance!Key, Instance!At, Instance!NoMeta,
      Instance!NoBackup, Instance!containers, Instance!data, Instance!copies, Instance!counts,
      Instance!Goto, Instance!End
<1>0. op.verb \in Replaces /\ Instance!Recorded
  BY DEF Instance!TypeOK, Instance!Operations, VerbOfPlace, Instance!Creating,
     Instance!Replacing, Instance!Undoing, Instance!Deleting, Replaces
<1>1. Instance!TypeOK'
  <2>1. op' \in Instance!Operations
    BY <1>0, ReadsStorage DEF Instance!TypeOK, Instance!Operations, Instance!Creating,
       Instance!Replacing, Instance!Undoing, Instance!Deleting, Instance!ConstantsOK
  <2>2. /\ instanceSite' \in {"none", "addon", "operator"}
        /\ meta' \in [tag : 0..MaxTag, created : BOOLEAN, home : BOOLEAN]
    BY <1>0 DEF Instance!TypeOK, Instance!Operations, Instance!ConstantsOK
  <2>3. main' \in Instance!Containers /\ prev' \in Instance!Containers
    BY <1>0, AbsentContainer DEF Instance!TypeOK, Instance!Containers, Instance!Operations
  <2>4. /\ store' \in Instance!Data /\ old' \in Instance!Data
        /\ native' \in [data : Instance!Data, tag : 0..MaxTag]
    BY <1>0 DEF Instance!TypeOK, Instance!Data, Instance!Operations, Instance!ConstantsOK,
       PartsFit, VerbOfPlace, Instance!NoData
  <2>5. /\ kept' \in 0..MaxWrites /\ archives' \in 0..MaxWrites /\ cur' \in 1..MaxWrites
        /\ env' \in 0..InstanceMaxKeys /\ instanceKeys' \in 0..InstanceMaxKeys
        /\ instanceKills' \in 0..InstanceMaxKills
    BY <1>0 DEF Instance!TypeOK, Instance!Data, Instance!Operations, Instance!ConstantsOK,
       PartsFit, VerbOfPlace, Instance!NoData
  <2>6. QED
    BY <2>1, <2>2, <2>3, <2>4, <2>5 DEF Instance!TypeOK
<1>2. VerbOfPlace'
  BY <1>0 DEF VerbOfPlace, Instance!TypeOK, Instance!Operations, Replaces, Instance!Creating,
     Instance!Replacing, Instance!Undoing, Instance!Deleting, Instance!Touched
<1>3. MainAway'
  BY <1>0 DEF MainAway, VerbOfPlace, Instance!TypeOK, Instance!Operations,
     Instance!Containers, Instance!Undoing
<1>4. WasThere'
  BY <1>0 DEF WasThere, MainAway, VerbOfPlace, Instance!TypeOK, Instance!Operations,
     Instance!Containers, Instance!Undoing, Replaces
<1>5. MainHasData'
  BY <1>0 DEF MainHasData, MainAway, PartsFit, AsFound, VerbOfPlace, Instance!TypeOK,
     Instance!Containers, Instance!Operations, Instance!Data, Underway, Instance!Touched,
     Replaces, WasThere
<1>6. PartsFit'
  BY <1>0 DEF PartsFit, VerbOfPlace, Instance!TypeOK, Instance!Operations, Instance!Data,
     Replaces
<1>7. NoneLater'
  BY <1>0 DEF NoneLater, Instance!TypeOK, Instance!Operations, Instance!Data
<1>8. SetAside'
  BY <1>0 DEF SetAside, MainAway, Instance!NothingLost, NoneLater, VerbOfPlace,
     Instance!TypeOK, Instance!Operations, Instance!Data, Instance!Touched, Replaces,
     Instance!Undoing, PartsFit, WasThere
<1>9. AsFound'
  BY <1>0 DEF AsFound, SetAside, MainAway, MainHasData, VerbOfPlace, Instance!TypeOK,
     Instance!Operations, Instance!Data, Underway, Instance!Touched, Replaces,
     Instance!Undoing, PartsFit, WasThere
<1>10. ComesBack'
  BY <1>0 DEF ComesBack, AsFound, SetAside, MainAway, Instance!NothingLost, VerbOfPlace,
     Instance!TypeOK, Instance!Operations, Instance!Data, Underway, Instance!Touched,
     Replaces, PartsFit, WasThere
<1>11. Instance!NothingLost'
  BY <1>0 DEF Instance!NothingLost, SetAside, ComesBack, AsFound, PartsFit, NoneLater,
     MainAway, VerbOfPlace, Instance!TypeOK, Instance!Operations, Instance!Data, Underway,
     Instance!Touched, Replaces, WasThere
<1>12. QED
  BY <1>1, <1>2, <1>3, <1>4, <1>5, <1>6, <1>7, <1>8, <1>9, <1>10, <1>11

LEMMA InstanceUndoDataKeeps ==
  ASSUME Instance!ConstantsOK, InstanceInv, Instance!UndoData
  PROVE  InstanceInv'
<1> USE IdleOperation, NoDataIs DEF
      InstanceInv, Instance!UndoData, Instance!Absent, Instance!Recorded, Instance!Present,
      Instance!Legacy, Instance!Storage, Instance!Key, Instance!At, Instance!NoMeta,
      Instance!NoBackup, Instance!containers, Instance!data, Instance!copies, Instance!counts,
      Instance!Goto, Instance!Touched
<1>0. op.verb \in Replaces /\ Instance!Recorded
  BY DEF Instance!TypeOK, Instance!Operations, VerbOfPlace, Instance!Creating,
     Instance!Replacing, Instance!Undoing, Instance!Deleting, Replaces
<1>1. Instance!TypeOK'
  <2>1. op' \in Instance!Operations
    BY <1>0, ReadsStorage DEF Instance!TypeOK, Instance!Operations, Instance!Creating,
       Instance!Replacing, Instance!Undoing, Instance!Deleting, Instance!ConstantsOK
  <2>2. /\ instanceSite' \in {"none", "addon", "operator"}
        /\ meta' \in [tag : 0..MaxTag, created : BOOLEAN, home : BOOLEAN]
    BY <1>0 DEF Instance!TypeOK, Instance!Operations, Instance!ConstantsOK
  <2>3. main' \in Instance!Containers /\ prev' \in Instance!Containers
    BY <1>0, AbsentContainer DEF Instance!TypeOK, Instance!Containers, Instance!Operations
  <2>4. /\ store' \in Instance!Data /\ old' \in Instance!Data
        /\ native' \in [data : Instance!Data, tag : 0..MaxTag]
    BY <1>0 DEF Instance!TypeOK, Instance!Data, Instance!Operations, Instance!ConstantsOK,
       PartsFit, VerbOfPlace, Instance!NoData
  <2>5. /\ kept' \in 0..MaxWrites /\ archives' \in 0..MaxWrites /\ cur' \in 1..MaxWrites
        /\ env' \in 0..InstanceMaxKeys /\ instanceKeys' \in 0..InstanceMaxKeys
        /\ instanceKills' \in 0..InstanceMaxKills
    BY <1>0 DEF Instance!TypeOK, Instance!Data, Instance!Operations, Instance!ConstantsOK,
       PartsFit, VerbOfPlace, Instance!NoData
  <2>6. QED
    BY <2>1, <2>2, <2>3, <2>4, <2>5 DEF Instance!TypeOK
<1>2. VerbOfPlace'
  BY <1>0 DEF VerbOfPlace, Instance!TypeOK, Instance!Operations, Replaces, Instance!Creating,
     Instance!Replacing, Instance!Undoing, Instance!Deleting, Instance!Touched
<1>3. MainAway'
  BY <1>0 DEF MainAway, VerbOfPlace, Instance!TypeOK, Instance!Operations,
     Instance!Containers, Instance!Undoing
<1>4. WasThere'
  BY <1>0 DEF WasThere, MainAway, VerbOfPlace, Instance!TypeOK, Instance!Operations,
     Instance!Containers, Instance!Undoing, Replaces
<1>5. MainHasData'
  BY <1>0 DEF MainHasData, MainAway, PartsFit, AsFound, VerbOfPlace, Instance!TypeOK,
     Instance!Containers, Instance!Operations, Instance!Data, Underway, Instance!Touched,
     Replaces, WasThere
<1>6. PartsFit'
  BY <1>0 DEF PartsFit, VerbOfPlace, Instance!TypeOK, Instance!Operations, Instance!Data,
     Replaces
<1>7. NoneLater'
  BY <1>0 DEF NoneLater, Instance!TypeOK, Instance!Operations, Instance!Data
<1>8. SetAside'
  BY <1>0 DEF SetAside, MainAway, Instance!NothingLost, NoneLater, VerbOfPlace,
     Instance!TypeOK, Instance!Operations, Instance!Data, Instance!Touched, Replaces,
     Instance!Undoing, PartsFit, WasThere
<1>9. AsFound'
  BY <1>0 DEF AsFound, SetAside, MainAway, MainHasData, VerbOfPlace, Instance!TypeOK,
     Instance!Operations, Instance!Data, Underway, Instance!Touched, Replaces,
     Instance!Undoing, PartsFit, WasThere
<1>10. ComesBack'
  BY <1>0 DEF ComesBack, AsFound, SetAside, MainAway, Instance!NothingLost, VerbOfPlace,
     Instance!TypeOK, Instance!Operations, Instance!Data, Underway, Instance!Touched,
     Replaces, PartsFit, WasThere
<1>11. Instance!NothingLost'
  BY <1>0 DEF Instance!NothingLost, SetAside, ComesBack, AsFound, PartsFit, NoneLater,
     MainAway, VerbOfPlace, Instance!TypeOK, Instance!Operations, Instance!Data, Underway,
     Instance!Touched, Replaces, WasThere
<1>12. QED
  BY <1>1, <1>2, <1>3, <1>4, <1>5, <1>6, <1>7, <1>8, <1>9, <1>10, <1>11

LEMMA InstanceUndoCopyKeeps ==
  ASSUME Instance!ConstantsOK, InstanceInv, Instance!UndoCopy
  PROVE  InstanceInv'
<1> USE IdleOperation, NoDataIs DEF
      InstanceInv, Instance!UndoCopy, Instance!Absent, Instance!Recorded, Instance!Present,
      Instance!Legacy, Instance!Storage, Instance!Key, Instance!At, Instance!NoMeta,
      Instance!NoBackup, Instance!containers, Instance!data, Instance!copies, Instance!counts,
      Instance!Goto, Instance!End
<1>0. op.verb \in Replaces /\ Instance!Recorded
  BY DEF Instance!TypeOK, Instance!Operations, VerbOfPlace, Instance!Creating,
     Instance!Replacing, Instance!Undoing, Instance!Deleting, Replaces
<1>1. Instance!TypeOK'
  <2>1. op' \in Instance!Operations
    BY <1>0, ReadsStorage DEF Instance!TypeOK, Instance!Operations, Instance!Creating,
       Instance!Replacing, Instance!Undoing, Instance!Deleting, Instance!ConstantsOK
  <2>2. /\ instanceSite' \in {"none", "addon", "operator"}
        /\ meta' \in [tag : 0..MaxTag, created : BOOLEAN, home : BOOLEAN]
    BY <1>0 DEF Instance!TypeOK, Instance!Operations, Instance!ConstantsOK
  <2>3. main' \in Instance!Containers /\ prev' \in Instance!Containers
    BY <1>0, AbsentContainer DEF Instance!TypeOK, Instance!Containers, Instance!Operations
  <2>4. /\ store' \in Instance!Data /\ old' \in Instance!Data
        /\ native' \in [data : Instance!Data, tag : 0..MaxTag]
    BY <1>0 DEF Instance!TypeOK, Instance!Data, Instance!Operations, Instance!ConstantsOK,
       PartsFit, VerbOfPlace, Instance!NoData
  <2>5. /\ kept' \in 0..MaxWrites /\ archives' \in 0..MaxWrites /\ cur' \in 1..MaxWrites
        /\ env' \in 0..InstanceMaxKeys /\ instanceKeys' \in 0..InstanceMaxKeys
        /\ instanceKills' \in 0..InstanceMaxKills
    BY <1>0 DEF Instance!TypeOK, Instance!Data, Instance!Operations, Instance!ConstantsOK,
       PartsFit, VerbOfPlace, Instance!NoData
  <2>6. QED
    BY <2>1, <2>2, <2>3, <2>4, <2>5 DEF Instance!TypeOK
<1>2. VerbOfPlace'
  BY <1>0 DEF VerbOfPlace, Instance!TypeOK, Instance!Operations, Replaces, Instance!Creating,
     Instance!Replacing, Instance!Undoing, Instance!Deleting, Instance!Touched
<1>3. MainAway'
  BY <1>0 DEF MainAway, VerbOfPlace, Instance!TypeOK, Instance!Operations,
     Instance!Containers, Instance!Undoing
<1>4. WasThere'
  BY <1>0 DEF WasThere, MainAway, VerbOfPlace, Instance!TypeOK, Instance!Operations,
     Instance!Containers, Instance!Undoing, Replaces
<1>5. MainHasData'
  BY <1>0 DEF MainHasData, MainAway, PartsFit, AsFound, VerbOfPlace, Instance!TypeOK,
     Instance!Containers, Instance!Operations, Instance!Data, Underway, Instance!Touched,
     Replaces, WasThere
<1>6. PartsFit'
  BY <1>0 DEF PartsFit, VerbOfPlace, Instance!TypeOK, Instance!Operations, Instance!Data,
     Replaces
<1>7. NoneLater'
  BY <1>0 DEF NoneLater, Instance!TypeOK, Instance!Operations, Instance!Data
<1>8. SetAside'
  BY <1>0 DEF SetAside, MainAway, Instance!NothingLost, NoneLater, VerbOfPlace,
     Instance!TypeOK, Instance!Operations, Instance!Data, Instance!Touched, Replaces,
     Instance!Undoing, PartsFit, WasThere
<1>9. AsFound'
  BY <1>0 DEF AsFound, SetAside, MainAway, MainHasData, VerbOfPlace, Instance!TypeOK,
     Instance!Operations, Instance!Data, Underway, Instance!Touched, Replaces,
     Instance!Undoing, PartsFit, WasThere
<1>10. ComesBack'
  BY <1>0 DEF ComesBack, AsFound, SetAside, MainAway, Instance!NothingLost, VerbOfPlace,
     Instance!TypeOK, Instance!Operations, Instance!Data, Underway, Instance!Touched,
     Replaces, PartsFit, WasThere
<1>11. Instance!NothingLost'
  BY <1>0 DEF Instance!NothingLost, SetAside, ComesBack, AsFound, PartsFit, NoneLater,
     MainAway, VerbOfPlace, Instance!TypeOK, Instance!Operations, Instance!Data, Underway,
     Instance!Touched, Replaces, WasThere
<1>12. QED
  BY <1>1, <1>2, <1>3, <1>4, <1>5, <1>6, <1>7, <1>8, <1>9, <1>10, <1>11

LEMMA InstanceUndoNameKeeps ==
  ASSUME Instance!ConstantsOK, InstanceInv, Instance!UndoName
  PROVE  InstanceInv'
<1> USE IdleOperation, NoDataIs DEF
      InstanceInv, Instance!UndoName, Instance!Absent, Instance!Recorded, Instance!Present,
      Instance!Legacy, Instance!Storage, Instance!Key, Instance!At, Instance!NoMeta,
      Instance!NoBackup, Instance!containers, Instance!data, Instance!copies, Instance!counts,
      Instance!Goto, Instance!End
<1>0. op.verb \in Replaces /\ Instance!Recorded
  BY DEF Instance!TypeOK, Instance!Operations, VerbOfPlace, Instance!Creating,
     Instance!Replacing, Instance!Undoing, Instance!Deleting, Replaces
<1>1. Instance!TypeOK'
  <2>1. op' \in Instance!Operations
    BY <1>0, ReadsStorage DEF Instance!TypeOK, Instance!Operations, Instance!Creating,
       Instance!Replacing, Instance!Undoing, Instance!Deleting, Instance!ConstantsOK
  <2>2. /\ instanceSite' \in {"none", "addon", "operator"}
        /\ meta' \in [tag : 0..MaxTag, created : BOOLEAN, home : BOOLEAN]
    BY <1>0 DEF Instance!TypeOK, Instance!Operations, Instance!ConstantsOK
  <2>3. main' \in Instance!Containers /\ prev' \in Instance!Containers
    BY <1>0, AbsentContainer DEF Instance!TypeOK, Instance!Containers, Instance!Operations
  <2>4. /\ store' \in Instance!Data /\ old' \in Instance!Data
        /\ native' \in [data : Instance!Data, tag : 0..MaxTag]
    BY <1>0 DEF Instance!TypeOK, Instance!Data, Instance!Operations, Instance!ConstantsOK,
       PartsFit, VerbOfPlace, Instance!NoData
  <2>5. /\ kept' \in 0..MaxWrites /\ archives' \in 0..MaxWrites /\ cur' \in 1..MaxWrites
        /\ env' \in 0..InstanceMaxKeys /\ instanceKeys' \in 0..InstanceMaxKeys
        /\ instanceKills' \in 0..InstanceMaxKills
    BY <1>0 DEF Instance!TypeOK, Instance!Data, Instance!Operations, Instance!ConstantsOK,
       PartsFit, VerbOfPlace, Instance!NoData
  <2>6. QED
    BY <2>1, <2>2, <2>3, <2>4, <2>5 DEF Instance!TypeOK
<1>2. VerbOfPlace'
  BY <1>0 DEF VerbOfPlace, Instance!TypeOK, Instance!Operations, Replaces, Instance!Creating,
     Instance!Replacing, Instance!Undoing, Instance!Deleting, Instance!Touched
<1>3. MainAway'
  BY <1>0 DEF MainAway, VerbOfPlace, Instance!TypeOK, Instance!Operations,
     Instance!Containers, Instance!Undoing
<1>4. WasThere'
  BY <1>0 DEF WasThere, MainAway, VerbOfPlace, Instance!TypeOK, Instance!Operations,
     Instance!Containers, Instance!Undoing, Replaces
<1>5. MainHasData'
  BY <1>0 DEF MainHasData, MainAway, PartsFit, AsFound, VerbOfPlace, Instance!TypeOK,
     Instance!Containers, Instance!Operations, Instance!Data, Underway, Instance!Touched,
     Replaces, WasThere
<1>6. PartsFit'
  BY <1>0 DEF PartsFit, VerbOfPlace, Instance!TypeOK, Instance!Operations, Instance!Data,
     Replaces
<1>7. NoneLater'
  BY <1>0 DEF NoneLater, Instance!TypeOK, Instance!Operations, Instance!Data
<1>8. SetAside'
  BY <1>0 DEF SetAside, MainAway, Instance!NothingLost, NoneLater, VerbOfPlace,
     Instance!TypeOK, Instance!Operations, Instance!Data, Instance!Touched, Replaces,
     Instance!Undoing, PartsFit, WasThere
<1>9. AsFound'
  BY <1>0 DEF AsFound, SetAside, MainAway, MainHasData, VerbOfPlace, Instance!TypeOK,
     Instance!Operations, Instance!Data, Underway, Instance!Touched, Replaces,
     Instance!Undoing, PartsFit, WasThere
<1>10. ComesBack'
  BY <1>0 DEF ComesBack, AsFound, SetAside, MainAway, Instance!NothingLost, VerbOfPlace,
     Instance!TypeOK, Instance!Operations, Instance!Data, Underway, Instance!Touched,
     Replaces, PartsFit, WasThere
<1>11. Instance!NothingLost'
  BY <1>0 DEF Instance!NothingLost, SetAside, ComesBack, AsFound, PartsFit, NoneLater,
     MainAway, VerbOfPlace, Instance!TypeOK, Instance!Operations, Instance!Data, Underway,
     Instance!Touched, Replaces, WasThere
<1>12. QED
  BY <1>1, <1>2, <1>3, <1>4, <1>5, <1>6, <1>7, <1>8, <1>9, <1>10, <1>11

LEMMA InstanceUndoRunKeeps ==
  ASSUME Instance!ConstantsOK, InstanceInv, Instance!UndoRun
  PROVE  InstanceInv'
<1> USE IdleOperation, NoDataIs DEF
      InstanceInv, Instance!UndoRun, Instance!Absent, Instance!Recorded, Instance!Present,
      Instance!Legacy, Instance!Storage, Instance!Key, Instance!At, Instance!NoMeta,
      Instance!NoBackup, Instance!containers, Instance!data, Instance!copies, Instance!counts,
      Instance!End
<1>0. op.verb \in Replaces /\ Instance!Recorded
  BY DEF Instance!TypeOK, Instance!Operations, VerbOfPlace, Instance!Creating,
     Instance!Replacing, Instance!Undoing, Instance!Deleting, Replaces
<1>1. Instance!TypeOK'
  <2>1. op' \in Instance!Operations
    BY <1>0, ReadsStorage DEF Instance!TypeOK, Instance!Operations, Instance!Creating,
       Instance!Replacing, Instance!Undoing, Instance!Deleting, Instance!ConstantsOK
  <2>2. /\ instanceSite' \in {"none", "addon", "operator"}
        /\ meta' \in [tag : 0..MaxTag, created : BOOLEAN, home : BOOLEAN]
    BY <1>0 DEF Instance!TypeOK, Instance!Operations, Instance!ConstantsOK
  <2>3. main' \in Instance!Containers /\ prev' \in Instance!Containers
    BY <1>0, AbsentContainer DEF Instance!TypeOK, Instance!Containers, Instance!Operations
  <2>4. /\ store' \in Instance!Data /\ old' \in Instance!Data
        /\ native' \in [data : Instance!Data, tag : 0..MaxTag]
    BY <1>0 DEF Instance!TypeOK, Instance!Data, Instance!Operations, Instance!ConstantsOK,
       PartsFit, VerbOfPlace, Instance!NoData
  <2>5. /\ kept' \in 0..MaxWrites /\ archives' \in 0..MaxWrites /\ cur' \in 1..MaxWrites
        /\ env' \in 0..InstanceMaxKeys /\ instanceKeys' \in 0..InstanceMaxKeys
        /\ instanceKills' \in 0..InstanceMaxKills
    BY <1>0 DEF Instance!TypeOK, Instance!Data, Instance!Operations, Instance!ConstantsOK,
       PartsFit, VerbOfPlace, Instance!NoData
  <2>6. QED
    BY <2>1, <2>2, <2>3, <2>4, <2>5 DEF Instance!TypeOK
<1>2. VerbOfPlace'
  BY <1>0 DEF VerbOfPlace, Instance!TypeOK, Instance!Operations, Replaces, Instance!Creating,
     Instance!Replacing, Instance!Undoing, Instance!Deleting, Instance!Touched
<1>3. MainAway'
  BY <1>0 DEF MainAway, VerbOfPlace, Instance!TypeOK, Instance!Operations,
     Instance!Containers, Instance!Undoing
<1>4. WasThere'
  BY <1>0 DEF WasThere, MainAway, VerbOfPlace, Instance!TypeOK, Instance!Operations,
     Instance!Containers, Instance!Undoing, Replaces
<1>5. MainHasData'
  BY <1>0 DEF MainHasData, MainAway, PartsFit, AsFound, VerbOfPlace, Instance!TypeOK,
     Instance!Containers, Instance!Operations, Instance!Data, Underway, Instance!Touched,
     Replaces, WasThere
<1>6. PartsFit'
  BY <1>0 DEF PartsFit, VerbOfPlace, Instance!TypeOK, Instance!Operations, Instance!Data,
     Replaces
<1>7. NoneLater'
  BY <1>0 DEF NoneLater, Instance!TypeOK, Instance!Operations, Instance!Data
<1>8. SetAside'
  BY <1>0 DEF SetAside, MainAway, Instance!NothingLost, NoneLater, VerbOfPlace,
     Instance!TypeOK, Instance!Operations, Instance!Data, Instance!Touched, Replaces,
     Instance!Undoing, PartsFit, WasThere
<1>9. AsFound'
  BY <1>0 DEF AsFound, SetAside, MainAway, MainHasData, VerbOfPlace, Instance!TypeOK,
     Instance!Operations, Instance!Data, Underway, Instance!Touched, Replaces,
     Instance!Undoing, PartsFit, WasThere
<1>10. ComesBack'
  BY <1>0 DEF ComesBack, AsFound, SetAside, MainAway, Instance!NothingLost, VerbOfPlace,
     Instance!TypeOK, Instance!Operations, Instance!Data, Underway, Instance!Touched,
     Replaces, PartsFit, WasThere
<1>11. Instance!NothingLost'
  BY <1>0 DEF Instance!NothingLost, SetAside, ComesBack, AsFound, PartsFit, NoneLater,
     MainAway, VerbOfPlace, Instance!TypeOK, Instance!Operations, Instance!Data, Underway,
     Instance!Touched, Replaces, WasThere
<1>12. QED
  BY <1>1, <1>2, <1>3, <1>4, <1>5, <1>6, <1>7, <1>8, <1>9, <1>10, <1>11

(* Deleting.                                                               *)
LEMMA InstanceBeginDeleteKeeps ==
  ASSUME Instance!ConstantsOK, InstanceInv, Instance!BeginDelete
  PROVE  InstanceInv'
<1> USE IdleOperation, NoDataIs DEF
      InstanceInv, Instance!BeginDelete, Instance!Absent, Instance!Recorded, Instance!Present,
      Instance!Legacy, Instance!Storage, Instance!Key, Instance!At, Instance!NoMeta,
      Instance!NoBackup, Instance!containers, Instance!data, Instance!copies, Instance!counts
<1>0. op = Instance!Idle /\ op.verb = "none"
  BY DEF VerbOfPlace
<1>1. Instance!TypeOK'
  <2>1. op' \in Instance!Operations
    BY <1>0, ReadsStorage DEF Instance!TypeOK, Instance!Operations, Instance!Creating,
       Instance!Replacing, Instance!Undoing, Instance!Deleting, Instance!ConstantsOK
  <2>2. /\ instanceSite' \in {"none", "addon", "operator"}
        /\ meta' \in [tag : 0..MaxTag, created : BOOLEAN, home : BOOLEAN]
    BY <1>0 DEF Instance!TypeOK, Instance!Operations, Instance!ConstantsOK
  <2>3. main' \in Instance!Containers /\ prev' \in Instance!Containers
    BY <1>0, AbsentContainer DEF Instance!TypeOK, Instance!Containers, Instance!Operations
  <2>4. /\ store' \in Instance!Data /\ old' \in Instance!Data
        /\ native' \in [data : Instance!Data, tag : 0..MaxTag]
    BY <1>0 DEF Instance!TypeOK, Instance!Data, Instance!Operations, Instance!ConstantsOK,
       PartsFit, VerbOfPlace, Instance!NoData
  <2>5. /\ kept' \in 0..MaxWrites /\ archives' \in 0..MaxWrites /\ cur' \in 1..MaxWrites
        /\ env' \in 0..InstanceMaxKeys /\ instanceKeys' \in 0..InstanceMaxKeys
        /\ instanceKills' \in 0..InstanceMaxKills
    BY <1>0 DEF Instance!TypeOK, Instance!Data, Instance!Operations, Instance!ConstantsOK,
       PartsFit, VerbOfPlace, Instance!NoData
  <2>6. QED
    BY <2>1, <2>2, <2>3, <2>4, <2>5 DEF Instance!TypeOK
<1>2. VerbOfPlace'
  BY <1>0 DEF VerbOfPlace, Instance!TypeOK, Instance!Operations, Replaces, Instance!Creating,
     Instance!Replacing, Instance!Undoing, Instance!Deleting, Instance!Touched
<1>3. MainAway'
  BY <1>0 DEF MainAway, VerbOfPlace, Instance!TypeOK, Instance!Operations,
     Instance!Containers, Instance!Undoing
<1>4. WasThere'
  BY <1>0 DEF WasThere, MainAway, VerbOfPlace, Instance!TypeOK, Instance!Operations,
     Instance!Containers, Instance!Undoing, Replaces
<1>5. MainHasData'
  BY <1>0 DEF MainHasData, MainAway, PartsFit, AsFound, VerbOfPlace, Instance!TypeOK,
     Instance!Containers, Instance!Operations, Instance!Data, Underway, Instance!Touched,
     Replaces, WasThere
<1>6. PartsFit'
  BY <1>0 DEF PartsFit, VerbOfPlace, Instance!TypeOK, Instance!Operations, Instance!Data,
     Replaces
<1>7. NoneLater'
  BY <1>0 DEF NoneLater, Instance!TypeOK, Instance!Operations, Instance!Data
<1>8. SetAside'
  BY <1>0 DEF SetAside, MainAway, Instance!NothingLost, NoneLater, VerbOfPlace,
     Instance!TypeOK, Instance!Operations, Instance!Data, Instance!Touched, Replaces,
     Instance!Undoing, PartsFit, WasThere
<1>9. AsFound'
  BY <1>0 DEF AsFound, SetAside, MainAway, MainHasData, VerbOfPlace, Instance!TypeOK,
     Instance!Operations, Instance!Data, Underway, Instance!Touched, Replaces,
     Instance!Undoing, PartsFit, WasThere
<1>10. ComesBack'
  BY <1>0 DEF ComesBack, AsFound, SetAside, MainAway, Instance!NothingLost, VerbOfPlace,
     Instance!TypeOK, Instance!Operations, Instance!Data, Underway, Instance!Touched,
     Replaces, PartsFit, WasThere
<1>11. Instance!NothingLost'
  BY <1>0 DEF Instance!NothingLost, SetAside, ComesBack, AsFound, PartsFit, NoneLater,
     MainAway, VerbOfPlace, Instance!TypeOK, Instance!Operations, Instance!Data, Underway,
     Instance!Touched, Replaces, WasThere
<1>12. QED
  BY <1>1, <1>2, <1>3, <1>4, <1>5, <1>6, <1>7, <1>8, <1>9, <1>10, <1>11

LEMMA InstanceArchiveKeeps ==
  ASSUME Instance!ConstantsOK, InstanceInv, Instance!Archive
  PROVE  InstanceInv'
<1> USE IdleOperation, NoDataIs DEF
      InstanceInv, Instance!Archive, Instance!Absent, Instance!Recorded, Instance!Present,
      Instance!Legacy, Instance!Storage, Instance!Key, Instance!At, Instance!NoMeta,
      Instance!NoBackup, Instance!containers, Instance!data, Instance!copies, Instance!counts,
      Instance!Goto, Instance!End, Instance!Newer
<1>0. op.verb = "delete" /\ Instance!Recorded /\ ~op.candidate /\ ~op.changed /\ ~op.renamed
  BY DEF Instance!TypeOK, Instance!Operations, VerbOfPlace, Instance!Creating,
     Instance!Replacing, Instance!Undoing, Instance!Deleting, Replaces
<1>1. Instance!TypeOK'
  <2>1. op' \in Instance!Operations
    BY <1>0, ReadsStorage DEF Instance!TypeOK, Instance!Operations, Instance!Creating,
       Instance!Replacing, Instance!Undoing, Instance!Deleting, Instance!ConstantsOK
  <2>2. /\ instanceSite' \in {"none", "addon", "operator"}
        /\ meta' \in [tag : 0..MaxTag, created : BOOLEAN, home : BOOLEAN]
    BY <1>0 DEF Instance!TypeOK, Instance!Operations, Instance!ConstantsOK
  <2>3. main' \in Instance!Containers /\ prev' \in Instance!Containers
    BY <1>0, AbsentContainer DEF Instance!TypeOK, Instance!Containers, Instance!Operations
  <2>4. /\ store' \in Instance!Data /\ old' \in Instance!Data
        /\ native' \in [data : Instance!Data, tag : 0..MaxTag]
    BY <1>0 DEF Instance!TypeOK, Instance!Data, Instance!Operations, Instance!ConstantsOK,
       PartsFit, VerbOfPlace, Instance!NoData
  <2>5. /\ kept' \in 0..MaxWrites /\ archives' \in 0..MaxWrites /\ cur' \in 1..MaxWrites
        /\ env' \in 0..InstanceMaxKeys /\ instanceKeys' \in 0..InstanceMaxKeys
        /\ instanceKills' \in 0..InstanceMaxKills
    BY <1>0 DEF Instance!TypeOK, Instance!Data, Instance!Operations, Instance!ConstantsOK,
       PartsFit, VerbOfPlace, Instance!NoData
  <2>6. QED
    BY <2>1, <2>2, <2>3, <2>4, <2>5 DEF Instance!TypeOK
<1>2. VerbOfPlace'
  BY <1>0 DEF VerbOfPlace, Instance!TypeOK, Instance!Operations, Replaces, Instance!Creating,
     Instance!Replacing, Instance!Undoing, Instance!Deleting, Instance!Touched
<1>3. MainAway'
  BY <1>0 DEF MainAway, VerbOfPlace, Instance!TypeOK, Instance!Operations,
     Instance!Containers, Instance!Undoing
<1>4. WasThere'
  BY <1>0 DEF WasThere, MainAway, VerbOfPlace, Instance!TypeOK, Instance!Operations,
     Instance!Containers, Instance!Undoing, Replaces
<1>5. MainHasData'
  BY <1>0 DEF MainHasData, MainAway, PartsFit, AsFound, VerbOfPlace, Instance!TypeOK,
     Instance!Containers, Instance!Operations, Instance!Data, Underway, Instance!Touched,
     Replaces, WasThere
<1>6. PartsFit'
  BY <1>0 DEF PartsFit, VerbOfPlace, Instance!TypeOK, Instance!Operations, Instance!Data,
     Replaces
<1>7. NoneLater'
  BY <1>0 DEF NoneLater, Instance!TypeOK, Instance!Operations, Instance!Data
<1>8. SetAside'
  BY <1>0 DEF SetAside, MainAway, Instance!NothingLost, NoneLater, VerbOfPlace,
     Instance!TypeOK, Instance!Operations, Instance!Data, Instance!Touched, Replaces,
     Instance!Undoing, PartsFit, WasThere
<1>9. AsFound'
  BY <1>0 DEF AsFound, SetAside, MainAway, MainHasData, VerbOfPlace, Instance!TypeOK,
     Instance!Operations, Instance!Data, Underway, Instance!Touched, Replaces,
     Instance!Undoing, PartsFit, WasThere
<1>10. ComesBack'
  BY <1>0 DEF ComesBack, AsFound, SetAside, MainAway, Instance!NothingLost, VerbOfPlace,
     Instance!TypeOK, Instance!Operations, Instance!Data, Underway, Instance!Touched,
     Replaces, PartsFit, WasThere
<1>11. Instance!NothingLost'
  BY <1>0 DEF Instance!NothingLost, SetAside, ComesBack, AsFound, PartsFit, NoneLater,
     MainAway, VerbOfPlace, Instance!TypeOK, Instance!Operations, Instance!Data, Underway,
     Instance!Touched, Replaces, WasThere
<1>12. QED
  BY <1>1, <1>2, <1>3, <1>4, <1>5, <1>6, <1>7, <1>8, <1>9, <1>10, <1>11

LEMMA InstanceRemoveContainerKeeps ==
  ASSUME Instance!ConstantsOK, InstanceInv, Instance!RemoveContainer
  PROVE  InstanceInv'
<1> USE IdleOperation, NoDataIs DEF
      InstanceInv, Instance!RemoveContainer, Instance!Absent, Instance!Recorded,
      Instance!Present, Instance!Legacy, Instance!Storage, Instance!Key, Instance!At,
      Instance!NoMeta, Instance!NoBackup, Instance!containers, Instance!data, Instance!copies,
      Instance!counts, Instance!Goto, Instance!End
<1>0. op.verb = "delete" /\ Instance!Recorded /\ ~op.candidate /\ ~op.changed /\ ~op.renamed
  BY DEF Instance!TypeOK, Instance!Operations, VerbOfPlace, Instance!Creating,
     Instance!Replacing, Instance!Undoing, Instance!Deleting, Replaces
<1>1. Instance!TypeOK'
  <2>1. op' \in Instance!Operations
    BY <1>0, ReadsStorage DEF Instance!TypeOK, Instance!Operations, Instance!Creating,
       Instance!Replacing, Instance!Undoing, Instance!Deleting, Instance!ConstantsOK
  <2>2. /\ instanceSite' \in {"none", "addon", "operator"}
        /\ meta' \in [tag : 0..MaxTag, created : BOOLEAN, home : BOOLEAN]
    BY <1>0 DEF Instance!TypeOK, Instance!Operations, Instance!ConstantsOK
  <2>3. main' \in Instance!Containers /\ prev' \in Instance!Containers
    BY <1>0, AbsentContainer DEF Instance!TypeOK, Instance!Containers, Instance!Operations
  <2>4. /\ store' \in Instance!Data /\ old' \in Instance!Data
        /\ native' \in [data : Instance!Data, tag : 0..MaxTag]
    BY <1>0 DEF Instance!TypeOK, Instance!Data, Instance!Operations, Instance!ConstantsOK,
       PartsFit, VerbOfPlace, Instance!NoData
  <2>5. /\ kept' \in 0..MaxWrites /\ archives' \in 0..MaxWrites /\ cur' \in 1..MaxWrites
        /\ env' \in 0..InstanceMaxKeys /\ instanceKeys' \in 0..InstanceMaxKeys
        /\ instanceKills' \in 0..InstanceMaxKills
    BY <1>0 DEF Instance!TypeOK, Instance!Data, Instance!Operations, Instance!ConstantsOK,
       PartsFit, VerbOfPlace, Instance!NoData
  <2>6. QED
    BY <2>1, <2>2, <2>3, <2>4, <2>5 DEF Instance!TypeOK
<1>2. VerbOfPlace'
  BY <1>0 DEF VerbOfPlace, Instance!TypeOK, Instance!Operations, Replaces, Instance!Creating,
     Instance!Replacing, Instance!Undoing, Instance!Deleting, Instance!Touched
<1>3. MainAway'
  BY <1>0 DEF MainAway, VerbOfPlace, Instance!TypeOK, Instance!Operations,
     Instance!Containers, Instance!Undoing
<1>4. WasThere'
  BY <1>0 DEF WasThere, MainAway, VerbOfPlace, Instance!TypeOK, Instance!Operations,
     Instance!Containers, Instance!Undoing, Replaces
<1>5. MainHasData'
  BY <1>0 DEF MainHasData, MainAway, PartsFit, AsFound, VerbOfPlace, Instance!TypeOK,
     Instance!Containers, Instance!Operations, Instance!Data, Underway, Instance!Touched,
     Replaces, WasThere
<1>6. PartsFit'
  BY <1>0 DEF PartsFit, VerbOfPlace, Instance!TypeOK, Instance!Operations, Instance!Data,
     Replaces
<1>7. NoneLater'
  BY <1>0 DEF NoneLater, Instance!TypeOK, Instance!Operations, Instance!Data
<1>8. SetAside'
  BY <1>0 DEF SetAside, MainAway, Instance!NothingLost, NoneLater, VerbOfPlace,
     Instance!TypeOK, Instance!Operations, Instance!Data, Instance!Touched, Replaces,
     Instance!Undoing, PartsFit, WasThere
<1>9. AsFound'
  BY <1>0 DEF AsFound, SetAside, MainAway, MainHasData, VerbOfPlace, Instance!TypeOK,
     Instance!Operations, Instance!Data, Underway, Instance!Touched, Replaces,
     Instance!Undoing, PartsFit, WasThere
<1>10. ComesBack'
  BY <1>0 DEF ComesBack, AsFound, SetAside, MainAway, Instance!NothingLost, VerbOfPlace,
     Instance!TypeOK, Instance!Operations, Instance!Data, Underway, Instance!Touched,
     Replaces, PartsFit, WasThere
<1>11. Instance!NothingLost'
  BY <1>0 DEF Instance!NothingLost, SetAside, ComesBack, AsFound, PartsFit, NoneLater,
     MainAway, VerbOfPlace, Instance!TypeOK, Instance!Operations, Instance!Data, Underway,
     Instance!Touched, Replaces, WasThere
<1>12. QED
  BY <1>1, <1>2, <1>3, <1>4, <1>5, <1>6, <1>7, <1>8, <1>9, <1>10, <1>11

LEMMA InstanceRemoveSiteKeeps ==
  ASSUME Instance!ConstantsOK, InstanceInv, Instance!RemoveSite
  PROVE  InstanceInv'
<1> USE IdleOperation, NoDataIs DEF
      InstanceInv, Instance!RemoveSite, Instance!Absent, Instance!Recorded, Instance!Present,
      Instance!Legacy, Instance!Storage, Instance!Key, Instance!At, Instance!NoMeta,
      Instance!NoBackup, Instance!containers, Instance!data, Instance!copies, Instance!counts,
      Instance!Goto, Instance!End
<1>0. op.verb = "delete" /\ Instance!Recorded /\ ~op.candidate /\ ~op.changed /\ ~op.renamed
  BY DEF Instance!TypeOK, Instance!Operations, VerbOfPlace, Instance!Creating,
     Instance!Replacing, Instance!Undoing, Instance!Deleting, Replaces
<1>1. Instance!TypeOK'
  <2>1. op' \in Instance!Operations
    BY <1>0, ReadsStorage DEF Instance!TypeOK, Instance!Operations, Instance!Creating,
       Instance!Replacing, Instance!Undoing, Instance!Deleting, Instance!ConstantsOK
  <2>2. /\ instanceSite' \in {"none", "addon", "operator"}
        /\ meta' \in [tag : 0..MaxTag, created : BOOLEAN, home : BOOLEAN]
    BY <1>0 DEF Instance!TypeOK, Instance!Operations, Instance!ConstantsOK
  <2>3. main' \in Instance!Containers /\ prev' \in Instance!Containers
    BY <1>0, AbsentContainer DEF Instance!TypeOK, Instance!Containers, Instance!Operations
  <2>4. /\ store' \in Instance!Data /\ old' \in Instance!Data
        /\ native' \in [data : Instance!Data, tag : 0..MaxTag]
    BY <1>0 DEF Instance!TypeOK, Instance!Data, Instance!Operations, Instance!ConstantsOK,
       PartsFit, VerbOfPlace, Instance!NoData
  <2>5. /\ kept' \in 0..MaxWrites /\ archives' \in 0..MaxWrites /\ cur' \in 1..MaxWrites
        /\ env' \in 0..InstanceMaxKeys /\ instanceKeys' \in 0..InstanceMaxKeys
        /\ instanceKills' \in 0..InstanceMaxKills
    BY <1>0 DEF Instance!TypeOK, Instance!Data, Instance!Operations, Instance!ConstantsOK,
       PartsFit, VerbOfPlace, Instance!NoData
  <2>6. QED
    BY <2>1, <2>2, <2>3, <2>4, <2>5 DEF Instance!TypeOK
<1>2. VerbOfPlace'
  BY <1>0 DEF VerbOfPlace, Instance!TypeOK, Instance!Operations, Replaces, Instance!Creating,
     Instance!Replacing, Instance!Undoing, Instance!Deleting, Instance!Touched
<1>3. MainAway'
  BY <1>0 DEF MainAway, VerbOfPlace, Instance!TypeOK, Instance!Operations,
     Instance!Containers, Instance!Undoing
<1>4. WasThere'
  BY <1>0 DEF WasThere, MainAway, VerbOfPlace, Instance!TypeOK, Instance!Operations,
     Instance!Containers, Instance!Undoing, Replaces
<1>5. MainHasData'
  BY <1>0 DEF MainHasData, MainAway, PartsFit, AsFound, VerbOfPlace, Instance!TypeOK,
     Instance!Containers, Instance!Operations, Instance!Data, Underway, Instance!Touched,
     Replaces, WasThere
<1>6. PartsFit'
  BY <1>0 DEF PartsFit, VerbOfPlace, Instance!TypeOK, Instance!Operations, Instance!Data,
     Replaces
<1>7. NoneLater'
  BY <1>0 DEF NoneLater, Instance!TypeOK, Instance!Operations, Instance!Data
<1>8. SetAside'
  BY <1>0 DEF SetAside, MainAway, Instance!NothingLost, NoneLater, VerbOfPlace,
     Instance!TypeOK, Instance!Operations, Instance!Data, Instance!Touched, Replaces,
     Instance!Undoing, PartsFit, WasThere
<1>9. AsFound'
  BY <1>0 DEF AsFound, SetAside, MainAway, MainHasData, VerbOfPlace, Instance!TypeOK,
     Instance!Operations, Instance!Data, Underway, Instance!Touched, Replaces,
     Instance!Undoing, PartsFit, WasThere
<1>10. ComesBack'
  BY <1>0 DEF ComesBack, AsFound, SetAside, MainAway, Instance!NothingLost, VerbOfPlace,
     Instance!TypeOK, Instance!Operations, Instance!Data, Underway, Instance!Touched,
     Replaces, PartsFit, WasThere
<1>11. Instance!NothingLost'
  BY <1>0 DEF Instance!NothingLost, SetAside, ComesBack, AsFound, PartsFit, NoneLater,
     MainAway, VerbOfPlace, Instance!TypeOK, Instance!Operations, Instance!Data, Underway,
     Instance!Touched, Replaces, WasThere
<1>12. QED
  BY <1>1, <1>2, <1>3, <1>4, <1>5, <1>6, <1>7, <1>8, <1>9, <1>10, <1>11

LEMMA InstanceRemoveStorageKeeps ==
  ASSUME Instance!ConstantsOK, InstanceInv, Instance!RemoveStorage
  PROVE  InstanceInv'
<1> USE IdleOperation, NoDataIs DEF
      InstanceInv, Instance!RemoveStorage, Instance!Absent, Instance!Recorded,
      Instance!Present, Instance!Legacy, Instance!Storage, Instance!Key, Instance!At,
      Instance!NoMeta, Instance!NoBackup, Instance!containers, Instance!data, Instance!copies,
      Instance!counts, Instance!End
<1>0. op.verb = "delete" /\ Instance!Recorded /\ ~op.candidate /\ ~op.changed /\ ~op.renamed
  BY DEF Instance!TypeOK, Instance!Operations, VerbOfPlace, Instance!Creating,
     Instance!Replacing, Instance!Undoing, Instance!Deleting, Replaces
<1>1. Instance!TypeOK'
  <2>1. op' \in Instance!Operations
    BY <1>0, ReadsStorage DEF Instance!TypeOK, Instance!Operations, Instance!Creating,
       Instance!Replacing, Instance!Undoing, Instance!Deleting, Instance!ConstantsOK
  <2>2. /\ instanceSite' \in {"none", "addon", "operator"}
        /\ meta' \in [tag : 0..MaxTag, created : BOOLEAN, home : BOOLEAN]
    BY <1>0 DEF Instance!TypeOK, Instance!Operations, Instance!ConstantsOK
  <2>3. main' \in Instance!Containers /\ prev' \in Instance!Containers
    BY <1>0, AbsentContainer DEF Instance!TypeOK, Instance!Containers, Instance!Operations
  <2>4. /\ store' \in Instance!Data /\ old' \in Instance!Data
        /\ native' \in [data : Instance!Data, tag : 0..MaxTag]
    BY <1>0 DEF Instance!TypeOK, Instance!Data, Instance!Operations, Instance!ConstantsOK,
       PartsFit, VerbOfPlace, Instance!NoData
  <2>5. /\ kept' \in 0..MaxWrites /\ archives' \in 0..MaxWrites /\ cur' \in 1..MaxWrites
        /\ env' \in 0..InstanceMaxKeys /\ instanceKeys' \in 0..InstanceMaxKeys
        /\ instanceKills' \in 0..InstanceMaxKills
    BY <1>0 DEF Instance!TypeOK, Instance!Data, Instance!Operations, Instance!ConstantsOK,
       PartsFit, VerbOfPlace, Instance!NoData
  <2>6. QED
    BY <2>1, <2>2, <2>3, <2>4, <2>5 DEF Instance!TypeOK
<1>2. VerbOfPlace'
  BY <1>0 DEF VerbOfPlace, Instance!TypeOK, Instance!Operations, Replaces, Instance!Creating,
     Instance!Replacing, Instance!Undoing, Instance!Deleting, Instance!Touched
<1>3. MainAway'
  BY <1>0 DEF MainAway, VerbOfPlace, Instance!TypeOK, Instance!Operations,
     Instance!Containers, Instance!Undoing
<1>4. WasThere'
  BY <1>0 DEF WasThere, MainAway, VerbOfPlace, Instance!TypeOK, Instance!Operations,
     Instance!Containers, Instance!Undoing, Replaces
<1>5. MainHasData'
  BY <1>0 DEF MainHasData, MainAway, PartsFit, AsFound, VerbOfPlace, Instance!TypeOK,
     Instance!Containers, Instance!Operations, Instance!Data, Underway, Instance!Touched,
     Replaces, WasThere
<1>6. PartsFit'
  BY <1>0 DEF PartsFit, VerbOfPlace, Instance!TypeOK, Instance!Operations, Instance!Data,
     Replaces
<1>7. NoneLater'
  BY <1>0 DEF NoneLater, Instance!TypeOK, Instance!Operations, Instance!Data
<1>8. SetAside'
  BY <1>0 DEF SetAside, MainAway, Instance!NothingLost, NoneLater, VerbOfPlace,
     Instance!TypeOK, Instance!Operations, Instance!Data, Instance!Touched, Replaces,
     Instance!Undoing, PartsFit, WasThere
<1>9. AsFound'
  BY <1>0 DEF AsFound, SetAside, MainAway, MainHasData, VerbOfPlace, Instance!TypeOK,
     Instance!Operations, Instance!Data, Underway, Instance!Touched, Replaces,
     Instance!Undoing, PartsFit, WasThere
<1>10. ComesBack'
  BY <1>0 DEF ComesBack, AsFound, SetAside, MainAway, Instance!NothingLost, VerbOfPlace,
     Instance!TypeOK, Instance!Operations, Instance!Data, Underway, Instance!Touched,
     Replaces, PartsFit, WasThere
<1>11. Instance!NothingLost'
  BY <1>0 DEF Instance!NothingLost, SetAside, ComesBack, AsFound, PartsFit, NoneLater,
     MainAway, VerbOfPlace, Instance!TypeOK, Instance!Operations, Instance!Data, Underway,
     Instance!Touched, Replaces, WasThere
<1>12. QED
  BY <1>1, <1>2, <1>3, <1>4, <1>5, <1>6, <1>7, <1>8, <1>9, <1>10, <1>11

(* The begin of an update, a recreation or a restore.                      *)
LEMMA InstanceBeginReplaceKeeps ==
  ASSUME Instance!ConstantsOK, InstanceInv, NEW verb \in Replaces, NEW tag \in 1..MaxTag,
         Instance!BeginReplace(verb, tag)
  PROVE  InstanceInv'
<1> USE IdleOperation, NoDataIs DEF
      InstanceInv, Instance!Absent, Instance!Recorded, Instance!Present, Instance!Legacy,
      Instance!Storage, Instance!Key, Instance!At, Instance!NoMeta, Instance!NoBackup,
      Instance!containers, Instance!data, Instance!copies, Instance!counts
<1>0. /\ op.verb = "none" /\ op.at = "idle" /\ op' \in Instance!Operations
      /\ op'.at = "stop" /\ op'.verb = verb /\ op'.tag = tag /\ op'.was = (main.is = "running")
      /\ ~op'.renamed /\ ~op'.candidate /\ ~op'.changed /\ ~op'.made /\ ~op'.owns
      /\ op'.aside = Instance!NoData /\ op'.found = Instance!NoData /\ op'.had = kept
      /\ prev = Instance!Absent /\ instanceSite # "none" /\ Instance!Recorded /\ tag # 0
      /\ verb = "restore" => native # Instance!NoBackup /\ ~Instance!Legacy
      /\ Instance!Legacy => store = Instance!NoData /\ env = 0
      /\ UNCHANGED <<instanceSite, meta, Instance!containers, Instance!data, Instance!copies,
                     Instance!counts>>
  <2>1. op.verb = "none" /\ op.at = "idle" /\ tag # 0 /\ kept \in 0..MaxWrites
    BY DEF VerbOfPlace, Instance!BeginReplace, Instance!ConstantsOK, Instance!TypeOK
  <2>2. /\ op' \in Instance!Operations
        /\ op'.at = "stop" /\ op'.verb = verb /\ op'.tag = tag /\ op'.was = (main.is = "running")
        /\ ~op'.renamed /\ ~op'.candidate /\ ~op'.changed /\ ~op'.made /\ ~op'.owns
        /\ op'.aside = Instance!NoData /\ op'.found = Instance!NoData /\ op'.had = kept
    <3>1. /\ tag \in 0..MaxTag /\ verb \in {"update", "recreate", "restore"}
          /\ Instance!Idle \in Instance!Operations
      BY IdleOperation DEF Replaces, Instance!ConstantsOK
    <3>2. op' = [Instance!Idle EXCEPT !.verb = verb, !.at = "stop", !.tag = tag,
                                      !.was = main.is = "running", !.had = kept]
      BY DEF Instance!BeginReplace
    <3>3. QED
      BY <2>1, <3>1, <3>2, IdleOperation DEF Instance!Operations, Instance!Replacing
  <2>3. verb = "restore" => meta.home
    BY DEF Instance!BeginReplace, PartsFit
  <2>4. Instance!Recorded
    BY <2>3 DEF Instance!BeginReplace, Replaces
  <2>5. QED
    BY <2>1, <2>2, <2>4 DEF Instance!BeginReplace
<1>1. Instance!TypeOK'
  <2>1. op' \in Instance!Operations
    BY <1>0, ReadsStorage DEF Instance!TypeOK, Instance!Operations, Instance!Creating,
       Instance!Replacing, Instance!Undoing, Instance!Deleting, Replaces, Instance!ConstantsOK
  <2>2. /\ instanceSite' \in {"none", "addon", "operator"}
        /\ meta' \in [tag : 0..MaxTag, created : BOOLEAN, home : BOOLEAN]
    BY <1>0 DEF Instance!TypeOK, Instance!Operations, Instance!ConstantsOK
  <2>3. main' \in Instance!Containers /\ prev' \in Instance!Containers
    BY <1>0, AbsentContainer DEF Instance!TypeOK, Instance!Containers, Instance!Operations
  <2>4. /\ store' \in Instance!Data /\ old' \in Instance!Data
        /\ native' \in [data : Instance!Data, tag : 0..MaxTag]
    BY <1>0 DEF Instance!TypeOK, Instance!Data, Instance!Operations, Instance!ConstantsOK,
       PartsFit, VerbOfPlace, Instance!NoData
  <2>5. /\ kept' \in 0..MaxWrites /\ archives' \in 0..MaxWrites /\ cur' \in 1..MaxWrites
        /\ env' \in 0..InstanceMaxKeys /\ instanceKeys' \in 0..InstanceMaxKeys
        /\ instanceKills' \in 0..InstanceMaxKills
    BY <1>0 DEF Instance!TypeOK, Instance!Data, Instance!Operations, Instance!ConstantsOK,
       PartsFit, VerbOfPlace, Instance!NoData
  <2>6. QED
    BY <2>1, <2>2, <2>3, <2>4, <2>5 DEF Instance!TypeOK
<1>2. VerbOfPlace'
  BY <1>0 DEF VerbOfPlace, Instance!TypeOK, Instance!Operations, Replaces, Instance!Creating,
     Instance!Replacing, Instance!Undoing, Instance!Deleting, Instance!Touched
<1>3. MainAway'
  BY <1>0 DEF MainAway, VerbOfPlace, Instance!TypeOK, Instance!Operations,
     Instance!Containers, Instance!Undoing, Replaces
<1>4. WasThere'
  BY <1>0 DEF WasThere, MainAway, VerbOfPlace, Instance!TypeOK, Instance!Operations,
     Instance!Containers, Instance!Undoing, Replaces
<1>5. MainHasData'
  BY <1>0 DEF MainHasData, MainAway, PartsFit, AsFound, VerbOfPlace, Instance!TypeOK,
     Instance!Containers, Instance!Operations, Instance!Data, Underway, Instance!Touched,
     Replaces, WasThere
<1>6. PartsFit'
  BY <1>0 DEF PartsFit, VerbOfPlace, Instance!TypeOK, Instance!Operations, Instance!Data,
     Replaces
<1>7. NoneLater'
  BY <1>0 DEF NoneLater, Instance!TypeOK, Instance!Operations, Instance!Data, Replaces
<1>8. SetAside'
  BY <1>0 DEF SetAside, MainAway, Instance!NothingLost, NoneLater, VerbOfPlace,
     Instance!TypeOK, Instance!Operations, Instance!Data, Instance!Touched, Replaces,
     Instance!Undoing, PartsFit, WasThere
<1>9. AsFound'
  BY <1>0 DEF AsFound, SetAside, MainAway, MainHasData, VerbOfPlace, Instance!TypeOK,
     Instance!Operations, Instance!Data, Underway, Instance!Touched, Replaces,
     Instance!Undoing, PartsFit, WasThere
<1>10. ComesBack'
  BY <1>0 DEF ComesBack, AsFound, SetAside, MainAway, Instance!NothingLost, VerbOfPlace,
     Instance!TypeOK, Instance!Operations, Instance!Data, Underway, Instance!Touched,
     Replaces, PartsFit, WasThere
<1>11. Instance!NothingLost'
  BY <1>0 DEF Instance!NothingLost, SetAside, ComesBack, AsFound, PartsFit, NoneLater,
     MainAway, VerbOfPlace, Instance!TypeOK, Instance!Operations, Instance!Data, Underway,
     Instance!Touched, Replaces, WasThere
<1>12. QED
  BY <1>1, <1>2, <1>3, <1>4, <1>5, <1>6, <1>7, <1>8, <1>9, <1>10, <1>11

(* Nothing yet, or an instance an older release left: the invariant holds. *)
LEMMA InstanceStarts == Instance!ConstantsOK /\ Instance!Init => InstanceInv
<1>1. SUFFICES ASSUME Instance!ConstantsOK, Instance!Init
               PROVE  InstanceInv
  OBVIOUS
<1>2. /\ op = Instance!Idle /\ prev = Instance!Absent /\ store = Instance!NoData /\ env = 0
      /\ cur = 1
      /\ native = Instance!NoBackup /\ kept = 0 /\ archives = 0
  BY <1>1 DEF Instance!Init
<1>3. \/ /\ instanceSite = "none" /\ meta = Instance!NoMeta
         /\ main = Instance!Absent /\ old = Instance!NoData
      \/ /\ instanceSite = "addon" /\ meta = [tag |-> 1, created |-> TRUE, home |-> FALSE]
         /\ main = [is |-> "running", tag |-> 1, home |-> FALSE]
         /\ old = [v |-> 1, k |-> 1, s |-> 1]
  BY <1>1 DEF Instance!Init
<1>4. Instance!TypeOK
  <2>1. [v |-> 1, k |-> 1, s |-> 1] \in Instance!Data /\ 1 \in 1..MaxWrites
    BY <1>1 DEF Instance!Data, Instance!ConstantsOK
  <2>2. [tag |-> 1, created |-> TRUE, home |-> FALSE]
          \in [tag : 0..MaxTag, created : BOOLEAN, home : BOOLEAN]
    BY <1>1 DEF Instance!ConstantsOK
  <2>3. Instance!NoMeta \in [tag : 0..MaxTag, created : BOOLEAN, home : BOOLEAN]
    BY <1>1 DEF Instance!ConstantsOK, Instance!NoMeta
  <2>4. /\ [is |-> "running", tag |-> 1, home |-> FALSE] \in Instance!Containers
        /\ Instance!Absent \in Instance!Containers
    BY <1>1, AbsentContainer DEF Instance!ConstantsOK, Instance!Containers
  <2>5. Instance!NoBackup \in [data : Instance!Data, tag : 0..MaxTag]
    BY <1>1, NoDataIs DEF Instance!ConstantsOK, Instance!NoBackup
  <2>6. /\ kept \in 0..MaxWrites /\ archives \in 0..MaxWrites /\ env \in 0..InstanceMaxKeys
        /\ instanceKeys \in 0..InstanceMaxKeys /\ instanceKills \in 0..InstanceMaxKills
    BY <1>1 DEF Instance!Init, Instance!ConstantsOK
  <2>7. instanceSite \in {"none", "addon", "operator"}
    BY <1>3
  <2>8. op \in Instance!Operations
    BY <1>1, <1>2, IdleOperation
  <2>9. QED
    BY <1>2, <1>3, <2>1, <2>2, <2>3, <2>4, <2>5, <2>6, <2>7, <2>8, NoDataIs DEF Instance!TypeOK
<1>5. VerbOfPlace /\ MainAway /\ WasThere
  <2>1. VerbOfPlace
    BY <1>1, <1>2, IdleOperation DEF VerbOfPlace, Instance!Undoing, Replaces
  <2>2. MainAway
    BY <1>1, <1>2, IdleOperation DEF MainAway, Instance!Undoing
  <2>3. WasThere
    BY <1>1, <1>2, IdleOperation DEF WasThere
  <2>4. QED
    BY <2>1, <2>2, <2>3
<1>6. MainHasData /\ PartsFit
  BY <1>1, <1>2, <1>3, IdleOperation, NoDataIs, AbsentContainer
  DEF MainHasData, PartsFit, Instance!Present, Instance!Legacy, Instance!Recorded,
      Instance!NoMeta, Instance!NoBackup, Instance!NoData
<1>7. NoneLater /\ SetAside /\ AsFound /\ ComesBack
  BY <1>1, <1>2, <1>3, IdleOperation, NoDataIs
  DEF NoneLater, SetAside, AsFound, ComesBack, Underway, Instance!Touched, Instance!Undoing,
      Replaces, Instance!NoBackup, Instance!NoData
<1>8. Instance!NothingLost
  BY <1>2, <1>3 DEF Instance!NothingLost, Instance!Recorded, Instance!Legacy,
     Instance!Storage, Instance!Key, Instance!NoMeta, Instance!NoData
<1>9. QED
  BY <1>4, <1>5, <1>6, <1>7, <1>8 DEF InstanceInv

(* What does not move keeps it.                                            *)
LEMMA InstanceRests ==
  ASSUME InstanceInv, UNCHANGED (Instance!vars)
  PROVE  InstanceInv'
<1>1. /\ Instance!TypeOK' = Instance!TypeOK /\ VerbOfPlace' = VerbOfPlace /\ MainAway' = MainAway
      /\ WasThere' = WasThere
  BY DEF Instance!vars, Instance!TypeOK, VerbOfPlace, MainAway, WasThere, Instance!Recorded,
     Instance!Legacy, Instance!Present, Instance!Touched
<1>2. /\ MainHasData' = MainHasData /\ PartsFit' = PartsFit /\ NoneLater' = NoneLater
      /\ SetAside' = SetAside
  BY DEF Instance!vars, MainHasData, PartsFit, NoneLater, SetAside, Instance!Recorded,
     Instance!Legacy, Instance!Present, Instance!Touched
<1>3. /\ AsFound' = AsFound /\ ComesBack' = ComesBack
      /\ Instance!NothingLost' = Instance!NothingLost
  BY DEF Instance!vars, AsFound, ComesBack, Instance!NothingLost, Instance!Recorded,
     Instance!Legacy, Instance!Storage, Instance!Key, Underway, Instance!Touched
<1>4. QED
  BY <1>1, <1>2, <1>3 DEF InstanceInv

(* And it holds on, whatever step is taken.                                *)
LEMMA InstanceGoesOn ==
  ASSUME Instance!ConstantsOK, InstanceInv, [Instance!Next]_(Instance!vars)
  PROVE  InstanceInv'
<1>1. CASE UNCHANGED (Instance!vars)
  BY <1>1, InstanceRests
<1>2. ASSUME NEW verb \in {"update", "recreate", "restore"}, NEW tag \in 1..MaxTag,
             Instance!BeginReplace(verb, tag)
      PROVE  InstanceInv'
  BY <1>2, InstanceBeginReplaceKeeps DEF Replaces
<1>3. QED
  BY <1>1, <1>2, InstanceWriteKeeps, InstanceOperatorAddsKeeps, InstanceLifecycleKeeps,
     InstanceMakeNativeBackupKeeps, InstanceKilledKeeps, InstanceCmdCreateKeeps,
     InstanceAddSiteKeeps, InstancePrepareStorageKeeps, InstanceStartFreshKeeps,
     InstanceRecordKeeps, InstanceFailCreateKeeps, InstanceCleanContainerKeeps,
     InstanceCleanupCreateKeeps, InstanceBeginReplaceKeeps, InstanceStopOldKeeps,
     InstanceAsideKeeps, InstanceRenameOldKeeps, InstanceClearDataKeeps,
     InstanceCopyDataKeeps, InstanceStartNewKeeps, InstanceRecordNewKeeps,
     InstanceDropOldKeeps, InstanceFailReplaceKeeps, InstanceUndoStartKeeps,
     InstanceUndoDataKeeps, InstanceUndoCopyKeeps, InstanceUndoNameKeeps,
     InstanceUndoRunKeeps, InstanceBeginDeleteKeeps, InstanceArchiveKeeps,
     InstanceRemoveContainerKeeps, InstanceRemoveSiteKeeps, InstanceRemoveStorageKeeps
  DEF Instance!Next

(* What is written is in the storage or a copy, and a container that runs  *)
(* has its own data.                                                       *)
LEMMA InstanceRunsItsOwn == InstanceInv => Instance!RunsItsOwnData
<1>1. SUFFICES ASSUME InstanceInv
               PROVE  Instance!RunsItsOwnData
  OBVIOUS
<1>2. main.is = "running" /\ main.home => store.k = env
  BY <1>1 DEF InstanceInv, PartsFit
<1>3. ASSUME Instance!At("undo-run"), op.renamed, op.verb # "recreate"
      PROVE  Instance!Storage = op.found
  <2>1. op.verb \in Replaces /\ op.at = "undo-run"
    BY <1>1, <1>3 DEF InstanceInv, VerbOfPlace, Instance!At
  <2>2. QED
    BY <1>1, <1>3, <2>1 DEF InstanceInv, AsFound, Underway
<1>4. QED
  BY <1>2, <1>3 DEF Instance!RunsItsOwnData

(* Only delete's removals take a site, one the addon made, or a record, and *)
(* then the last write is in the archive or was only in a copy.            *)
LEMMA InstanceTakesItsOwn ==
  ASSUME Instance!ConstantsOK, InstanceInv, Instance!Next
  PROVE  Instance!DeletesItsOwnStep
<1> USE DEF Instance!At
<1>1. CASE Instance!AddSite
  <2>1. op.at = "site" /\ meta' = meta
    BY <1>1 DEF Instance!AddSite
  <2>2. instanceSite = "operator" => instanceSite' = "operator"
    BY <1>1 DEF Instance!AddSite
  <2>3. QED
    BY <2>1, <2>2 DEF Instance!DeletesItsOwnStep, Instance!Recorded
<1>2. CASE Instance!cleanupCreate
  <2>1. meta' = meta
    BY <1>2 DEF Instance!cleanupCreate
  <2>2. instanceSite = "operator" => instanceSite' = "operator"
    BY <1>2 DEF Instance!cleanupCreate, InstanceInv, PartsFit
  <2>3. QED
    BY <2>1, <2>2 DEF Instance!DeletesItsOwnStep, Instance!Recorded
<1>3. CASE Instance!RemoveSite
  <2>1. meta' = meta
    BY <1>3 DEF Instance!RemoveSite
  <2>2. instanceSite = "operator" => instanceSite' = "operator"
    BY <1>3 DEF Instance!RemoveSite, InstanceInv, PartsFit
  <2>3. QED
    BY <2>1, <2>2 DEF Instance!DeletesItsOwnStep, Instance!Recorded
<1>4. CASE Instance!RemoveStorage
  <2>1. instanceSite' = instanceSite /\ op.at = "unstore"
    BY <1>4 DEF Instance!RemoveStorage
  <2>2. cur \in {kept, archives}
    BY <2>1 DEF InstanceInv, SetAside
  <2>3. QED
    BY <2>1, <2>2 DEF Instance!DeletesItsOwnStep
<1>5. CASE Instance!Record
  <2>1. instanceSite' = instanceSite /\ op.verb = "create"
    BY <1>5 DEF Instance!Record
  <2>2. ~Instance!Recorded
    BY <2>1 DEF InstanceInv, VerbOfPlace
  <2>3. QED
    BY <2>1, <2>2 DEF Instance!DeletesItsOwnStep
<1>6. CASE Instance!RecordNew
  <2>1. instanceSite' = instanceSite /\ meta'.home
    BY <1>6 DEF Instance!RecordNew, InstanceInv, Instance!TypeOK
  <2>2. meta' # Instance!NoMeta
    BY <2>1 DEF Instance!NoMeta
  <2>3. QED
    BY <2>1, <2>2 DEF Instance!DeletesItsOwnStep
<1>7. CASE Instance!OperatorAdds
  BY <1>7 DEF Instance!OperatorAdds, Instance!DeletesItsOwnStep, Instance!Recorded
<1>8. CASE UNCHANGED <<instanceSite, meta>>
  BY <1>8 DEF Instance!DeletesItsOwnStep, Instance!Recorded
<1>9. \/ UNCHANGED <<instanceSite, meta>> \/ Instance!AddSite \/ Instance!cleanupCreate
      \/ Instance!RemoveSite \/ Instance!RemoveStorage \/ Instance!Record \/ Instance!RecordNew
      \/ Instance!OperatorAdds
  BY DEF Instance!Next, Instance!Write, Instance!Lifecycle, Instance!makeNativeBackup,
     Instance!Killed, Instance!cmdCreate, Instance!PrepareStorage, Instance!StartFresh,
     Instance!FailCreate, Instance!CleanContainer, Instance!BeginReplace, Instance!StopOld,
     Instance!Aside, Instance!RenameOld, Instance!ClearData, Instance!CopyData,
     Instance!StartNew, Instance!DropOld, Instance!FailReplace, Instance!UndoStart,
     Instance!UndoData, Instance!UndoCopy, Instance!UndoName, Instance!UndoRun,
     Instance!BeginDelete, Instance!Archive, Instance!RemoveContainer
<1>10. QED
  BY <1>1, <1>2, <1>3, <1>4, <1>5, <1>6, <1>7, <1>8, <1>9

(* Its invariant while a behaviour is about it.                            *)
InstanceHolds == part = "instance" => InstanceInv

LEMMA InstanceHoldsAtFirst == Init => InstanceHolds
<1>1. SUFFICES ASSUME Init, part = "instance" PROVE InstanceInv
  BY DEF InstanceHolds
<1>2. Instance!Init
  BY <1>1 DEF Init
<1>3. QED
  BY <1>2, Constants, InstanceStarts

LEMMA InstanceMoves ==
  ASSUME [Next]_vars, part' = "instance"
  PROVE  part = "instance" /\ [Instance!Next]_(Instance!vars)
<1>1. part = "instance" /\ (Instance!Next \/ UNCHANGED instanceVars)
  BY DEF Next, vars
<1>2. QED
  BY <1>1 DEF instanceVars, Instance!vars

LEMMA InstanceHoldsOn == InstanceHolds /\ [Next]_vars => InstanceHolds'
<1>1. SUFFICES ASSUME InstanceHolds, [Next]_vars, part' = "instance"
               PROVE  InstanceInv'
  BY DEF InstanceHolds
<1>2. InstanceInv /\ [Instance!Next]_(Instance!vars)
  BY <1>1, InstanceMoves DEF InstanceHolds
<1>3. QED
  BY <1>2, Constants, InstanceGoesOn

(* Whatever fails in an operation on an instance, or in its recovery, or   *)
(* is killed, the last write is in its storage or in a copy with its key,  *)
(* and the container that comes back runs on the data it was stopped on:   *)
(* of any writes, keys and releases, of an instance in the site's home or  *)
(* one still in /var/lib.                                                  *)
THEOREM InstanceLosesNothing ==
  Spec => [](part = "instance" => /\ Instance!TypeOK
                                  /\ Instance!NothingLost
                                  /\ Instance!RunsItsOwnData)
<1>1. Init => InstanceHolds
  BY InstanceHoldsAtFirst
<1>2. InstanceHolds /\ [Next]_vars => InstanceHolds'
  BY InstanceHoldsOn
<1>3. InstanceHolds
        => (part = "instance" => /\ Instance!TypeOK
                                 /\ Instance!NothingLost
                                 /\ Instance!RunsItsOwnData)
  BY InstanceRunsItsOwn DEF InstanceHolds, InstanceInv
<1>4. QED
  BY <1>1, <1>2, <1>3, PTL DEF Spec

(* No step takes a site the operator made, or the record of an instance    *)
(* whose last write is in no archive or copy.                              *)
THEOREM InstanceDeletesItsOwn ==
  Spec => [][part = "instance" => Instance!DeletesItsOwnStep]_vars
<1>1. Init => InstanceHolds
  BY InstanceHoldsAtFirst
<1>2. InstanceHolds /\ [Next]_vars => InstanceHolds'
  BY InstanceHoldsOn
<1>3. InstanceHolds /\ [Next]_vars
        => [part = "instance" => Instance!DeletesItsOwnStep]_vars
  <2>1. SUFFICES ASSUME InstanceHolds, Next, part = "instance"
                 PROVE  Instance!DeletesItsOwnStep
    OBVIOUS
  <2>2. InstanceInv /\ Instance!Next
    BY <2>1 DEF InstanceHolds, Next
  <2>3. QED
    BY <2>2, Constants, InstanceTakesItsOwn
<1>4. QED
  BY <1>1, <1>2, <1>3, PTL DEF Spec

-----------------------------------------------------------------------------
(* MainWP. A Dashboard without a record of the site.                       *)
NoDashboardRecord == [id |-> 0, key |-> 0, by |-> "none"]

(* The operators of the two WordPress sites have changed nothing yet.      *)
Quiet == wpEdits = 0

(* The setting a snapshot holds is the operator's; it is off in the site   *)
(* only where the saved record says that a connection was interrupted.     *)
SettingIsKnown ==
  /\ record.snapshot.auth /\ pass.record.snapshot.auth /\ pass.before.snapshot.auth
  /\ pass.seenAs.auth
  /\ pass.at = "recover" => pass.record = record
  /\ pass.at \in Dashboard!Enrolling
         => Dashboard!needsAuthRecovery(record) /\ Dashboard!needsAuthRecovery(pass.record)
  /\ ~child.auth => /\ Dashboard!needsAuthRecovery(record)
                    /\ pass.at \in {"none", "recover", "register", "confirm",
                                    "giveBack", "restore"}

(* A cleanup takes from the child what the addon put there, as it read     *)
(* it.                                                                     *)
SeenIsOurs ==
  /\ pass.at \in {"clean", "undo"} => child.sec = pass.seenAs.sec
  /\ pass.at = "undo" => Dashboard!Ours(pass.record)

(* What a pass has read at each place, and which way it is going.          *)
WhichWay ==
  /\ Dashboard!Idle => pass = Dashboard!NoPass
  /\ pass.at \in {"recover", "read"} => pass.conn = Dashboard!NoConnection
  /\ pass.at = "visit" /\ ~pass.ok => cleaning
  /\ pass.at \in Dashboard!Withdrawing => cleaning
  /\ pass.at \in {"check", "enroll"} \cup Dashboard!Enrolling => ~cleaning
  /\ pass.at \in {"check", "enroll", "install", "prepare", "register"} => pass.ok

(* An owned connection has a snapshot; from its claim to its end, so has   *)
(* an enrolment, on disk as in memory, and the token it enrols with.       *)
ClaimIsSaved ==
  /\ record.ownedConnection => record.snapshot # Dashboard!NoSnapshot
  /\ pass.record.ownedConnection => pass.record.snapshot # Dashboard!NoSnapshot
  /\ pass.before.ownedConnection => pass.before.snapshot # Dashboard!NoSnapshot
  /\ pass.at \in Dashboard!Enrolling =>
       /\ pass.record.snapshot # Dashboard!NoSnapshot /\ record.snapshot = pass.record.snapshot
       /\ pass.record.token # 0 /\ record.token = pass.record.token

(* With quiet operators the Dashboard's record is the addon's.             *)
OnlyOurs ==
  Quiet => dash = NoDashboardRecord \/ (dash.by = "addon" /\ dash.id # 0 /\ dash.key # 0)

(* A connection to be retired is that record, once the site is clean.      *)
RetiredIsTheRecord ==
  Quiet /\ retired # {} => /\ retired = {Dashboard!Shown(dash)} /\ dash # NoDashboardRecord
                           /\ Dashboard!Idle /\ cleaning
                           /\ record.snapshot = Dashboard!NoSnapshot

(* A record that owns a connection owns the one there is.                  *)
OwnsTheRecord(r) == /\ r.reconnect = 0
                    /\ r.ownedConnection
                           => dash # NoDashboardRecord /\ r.connection = Dashboard!Shown(dash)
OwnedIsTheRecord == Quiet => /\ OwnsTheRecord(record) /\ OwnsTheRecord(pass.record)
                             /\ pass.before.reconnect = 0 /\ ~pass.before.ownedConnection

(* What a pass read of the Dashboard and of the site is still so.          *)
ReadIsTheRecord ==
  Quiet => /\ pass.at \in {"visit", "clean"}
                  => pass.conn = IF pass.ok THEN Dashboard!Shown(dash)
                                 ELSE Dashboard!NoConnection
           /\ pass.at \in {"check", "enroll", "install", "prepare", "register"}
                  => pass.conn = Dashboard!Shown(dash)
           /\ pass.at = "restore" /\ pass.ok
                  => pass.conn = Dashboard!Shown(dash) /\ dash # NoDashboardRecord
           /\ pass.at \in {"check", "clean", "enroll", "undo"} => pass.seenAs = child
           /\ pass.at \in {"enroll", "install", "prepare", "register"}
                  => dash = NoDashboardRecord

(* Before a cleanup the site keeps the connection the Dashboard has.       *)
StaysPaired ==
  Quiet /\ dash # NoDashboardRecord /\ ~cleaning => child.plugin = "active" /\ child.key = dash.key

(* A record knows the connection: it owns it, or it has the Security ID    *)
(* of the enrolment it came from.                                          *)
KnownBy(r) ==
  \/ r.ownedConnection
  \/ /\ r.token # 0 /\ r.token = child.sec /\ r.snapshot # Dashboard!NoSnapshot
     /\ child.plugin = "active" /\ child.key = dash.key

(* The record on disk knows the connection there is, and so does that of   *)
(* a pass.                                                                 *)
RecordIsKnown ==
  Quiet /\ dash # NoDashboardRecord =>
    /\ KnownBy(record) \/ retired # {}
    /\ ~Dashboard!Idle => KnownBy(pass.record)
    /\ pass.at \in {"undo", "remove"} => record.ownedConnection /\ pass.record.ownedConnection

(* The inductive invariant of the connection to MainWP.                    *)
ConnectionInv == /\ Dashboard!TypeOK /\ SettingIsKnown /\ SeenIsOurs /\ WhichWay
                 /\ ClaimIsSaved /\ OnlyOurs
                 /\ RetiredIsTheRecord /\ OwnedIsTheRecord /\ ReadIsTheRecord /\ StaysPaired
                 /\ RecordIsKnown

(* What the values of nothing are.                                         *)
LEMMA BlankRecords ==
  ASSUME Dashboard!ConstantsOK
  PROVE  /\ 0 \in 0..MainwpMaxKeys /\ Dashboard!NoConnection \in Dashboard!Connections
         /\ Dashboard!NoConnection.id = 0 /\ Dashboard!NoConnection.key = 0
         /\ Dashboard!NoSnapshot \in Dashboard!Snapshots /\ Dashboard!NoSnapshot.auth
         /\ Dashboard!NoSnapshot.plugin = "none"
         /\ Dashboard!NoChild \in Dashboard!Children /\ Dashboard!NoChild.auth
         /\ Dashboard!NoRecord \in Dashboard!Records
         /\ Dashboard!NoRecord.snapshot = Dashboard!NoSnapshot
         /\ Dashboard!NoRecord.connection = Dashboard!NoConnection
         /\ Dashboard!NoRecord.token = 0 /\ ~Dashboard!NoRecord.ownedConnection
         /\ Dashboard!NoRecord.reconnect = 0 /\ Dashboard!NoRecord.phase = "none"
         /\ Dashboard!NoPass \in Dashboard!PassesOf /\ Dashboard!NoPass.at = "none"
         /\ Dashboard!NoPass.record = Dashboard!NoRecord
         /\ Dashboard!NoPass.before = Dashboard!NoRecord
         /\ Dashboard!NoPass.seenAs = Dashboard!NoChild
         /\ Dashboard!NoPass.conn = Dashboard!NoConnection
         /\ NoDashboardRecord.id = 0 /\ NoDashboardRecord.key = 0
         /\ NoDashboardRecord.by = "none"
         /\ Dashboard!Shown(NoDashboardRecord) = Dashboard!NoConnection
<1> USE DEF Dashboard!ConstantsOK
<1>1. /\ 0 \in 0..MainwpMaxKeys /\ Dashboard!NoConnection \in Dashboard!Connections
      /\ Dashboard!NoConnection.id = 0 /\ Dashboard!NoConnection.key = 0
      /\ NoDashboardRecord.id = 0 /\ NoDashboardRecord.key = 0
      /\ NoDashboardRecord.by = "none"
      /\ Dashboard!Shown(NoDashboardRecord) = Dashboard!NoConnection
  BY DEF Dashboard!NoConnection, Dashboard!Connections, NoDashboardRecord, Dashboard!Shown
<1>2. /\ Dashboard!NoSnapshot \in Dashboard!Snapshots /\ Dashboard!NoSnapshot.auth
      /\ Dashboard!NoSnapshot.plugin = "none"
  BY DEF Dashboard!NoSnapshot, Dashboard!Snapshots
<1>3. Dashboard!NoChild \in Dashboard!Children /\ Dashboard!NoChild.auth
  BY DEF Dashboard!NoChild, Dashboard!Children
<1>4. /\ Dashboard!NoRecord \in Dashboard!Records
      /\ Dashboard!NoRecord.snapshot = Dashboard!NoSnapshot
      /\ Dashboard!NoRecord.connection = Dashboard!NoConnection
      /\ Dashboard!NoRecord.token = 0 /\ ~Dashboard!NoRecord.ownedConnection
      /\ Dashboard!NoRecord.reconnect = 0 /\ Dashboard!NoRecord.phase = "none"
  BY <1>1, <1>2 DEF Dashboard!NoRecord, Dashboard!Records
<1>5. /\ Dashboard!NoPass \in Dashboard!PassesOf /\ Dashboard!NoPass.at = "none"
      /\ Dashboard!NoPass.record = Dashboard!NoRecord
      /\ Dashboard!NoPass.before = Dashboard!NoRecord
      /\ Dashboard!NoPass.seenAs = Dashboard!NoChild
      /\ Dashboard!NoPass.conn = Dashboard!NoConnection
  BY <1>1, <1>3, <1>4 DEF Dashboard!NoPass, Dashboard!PassesOf
<1>6. QED
  BY <1>1, <1>2, <1>3, <1>4, <1>5

(* What a record says of a connection, before adopting it and after.       *)
OwnsConnection(a, linked) == a.ownedConnection /\ a.connection = linked
AdoptedAs(a, r, linked) ==
  /\ a.reconnect = 0
  /\ \/ OwnsConnection(a, linked) /\ a.snapshot = r.snapshot
     \/ /\ r.reconnect = linked.id /\ ~a.ownedConnection
        /\ a.snapshot \in {r.snapshot, Dashboard!NoSnapshot}

SameClaim(a, r) == /\ a.ownedConnection = r.ownedConnection /\ a.connection = r.connection
                   /\ a.snapshot = r.snapshot /\ a.reconnect = r.reconnect

(* What a pass has read stays.                                             *)
SameReads(p, q) == p.conn = q.conn /\ p.seenAs = q.seenAs /\ p.before = q.before /\ p.ok = q.ok

(* Whether a cleanup has more to do, when a visit ends.                    *)
StillCleaning(r, todo) == cleaning /\ (r.snapshot # Dashboard!NoSnapshot \/ todo # {})

(* What a pass read is the addon's own enrolment.                          *)
EnrolledHere == Dashboard!enrolledBy(pass.record, pass.seenAs, pass.conn)

LEMMA AdoptAdopts ==
  ASSUME Dashboard!ConstantsOK, NEW r \in Dashboard!Records, NEW linked \in Dashboard!Connections
  PROVE  /\ Dashboard!adopt(r, linked) \in Dashboard!Records
         /\ AdoptedAs(Dashboard!adopt(r, linked), r, linked)
<1> DEFINE settled == [r EXCEPT !.reconnect = 0]
           operators == r.reconnect = linked.id /\ ~(r.ownedConnection
               /\ r.connection.id = linked.id)
<1>1. /\ settled \in Dashboard!Records /\ settled.reconnect = 0 /\ settled.seen = r.seen
      /\ settled.snapshot = r.snapshot
  BY DEF Dashboard!ConstantsOK, Dashboard!Records
<1>2. CASE ~operators
  <2>1. Dashboard!adopt(r, linked) =
            [settled EXCEPT !.ownedConnection = TRUE, !.connection = linked]
    BY <1>2 DEF Dashboard!adopt
  <2>2. QED
    BY <1>1, <2>1 DEF AdoptedAs, OwnsConnection, Dashboard!Records
<1>3. CASE operators /\ r.ownedPlugin
  <2>1. Dashboard!adopt(r, linked) =
            [settled EXCEPT !.ownedConnection = FALSE, !.connection = linked]
    BY <1>3 DEF Dashboard!adopt
  <2>2. QED
    BY <1>1, <1>3, <2>1 DEF AdoptedAs, OwnsConnection, Dashboard!Records
<1>4. CASE operators /\ ~r.ownedPlugin
  <2>1. Dashboard!adopt(r, linked) = Dashboard!forget(settled)
    BY <1>4 DEF Dashboard!adopt
  <2>2. /\ Dashboard!forget(settled) \in Dashboard!Records
        /\ Dashboard!forget(settled).reconnect = 0 /\ Dashboard!forget(settled).seen = r.seen
        /\ ~Dashboard!forget(settled).ownedConnection
        /\ Dashboard!forget(settled).snapshot = Dashboard!NoSnapshot
    BY <1>1, BlankRecords DEF Dashboard!forget, Dashboard!Records, Dashboard!ConstantsOK
  <2>3. QED
    BY <1>4, <2>1, <2>2 DEF AdoptedAs, OwnsConnection
<1>5. QED
  BY <1>2, <1>3, <1>4

LEMMA ForgetForgets ==
  ASSUME Dashboard!ConstantsOK, NEW r \in Dashboard!Records
  PROVE  /\ Dashboard!forget(r) \in Dashboard!Records /\ Dashboard!forget(r).reconnect = 0
         /\ ~Dashboard!forget(r).ownedConnection
         /\ Dashboard!forget(r).snapshot = Dashboard!NoSnapshot /\ Dashboard!forget(r).token = 0
BY BlankRecords DEF Dashboard!forget, Dashboard!Records, Dashboard!ConstantsOK

LEMMA RestoredAuth ==
  ASSUME Dashboard!ConstantsOK, NEW c \in Dashboard!Children, NEW s \in Dashboard!Snapshots
  PROVE  LET d == Dashboard!AuthRestored(c, s) IN
         /\ d \in Dashboard!Children /\ d.auth = s.auth /\ d.key = c.key /\ d.sec = c.sec
         /\ d.plugin = c.plugin \/ c.key = 0
BY DEF Dashboard!AuthRestored, Dashboard!Children, Dashboard!Snapshots

LEMMA CleansUp ==
  ASSUME Dashboard!ConstantsOK, NEW c \in Dashboard!Children, NEW s \in Dashboard!Snapshots,
      NEW b \in BOOLEAN
  PROVE  /\ Dashboard!CleanedUp(c, s, b) \in Dashboard!Children
         /\ Dashboard!CleanedUp(c, s, b).auth = s.auth
BY DEF Dashboard!CleanedUp, Dashboard!Children, Dashboard!Snapshots

(* The parts of the state keep their types.                                *)
LEMMA ConnectionTyped ==
  ASSUME Dashboard!TypeOK
  PROVE  /\ child \in Dashboard!Children /\ record \in Dashboard!Records
         /\ record.snapshot \in Dashboard!Snapshots
         /\ pass \in Dashboard!PassesOf /\ pass.conn \in Dashboard!Connections
         /\ pass.seenAs \in Dashboard!Children
         /\ pass.record \in Dashboard!Records /\ pass.before \in Dashboard!Records
         /\ pass.record.snapshot \in Dashboard!Snapshots
         /\ pass.record.connection \in Dashboard!Connections /\ pass.ok \in BOOLEAN
         /\ pass.record.ownedPlugin \in BOOLEAN /\ pass.record.ownedConnection \in BOOLEAN
         /\ pass.record.token \in 0..MainwpMaxKeys
         /\ Dashboard!Shown(dash) \in Dashboard!Connections
         /\ cleaning \in BOOLEAN /\ enabled \in BOOLEAN
<1>1. /\ child \in Dashboard!Children /\ record \in Dashboard!Records
      /\ pass \in Dashboard!PassesOf
      /\ dash \in [id : 0..MainwpMaxKeys, key : 0..MainwpMaxKeys,
             by : {"none", "operator", "addon"}]
  BY DEF Dashboard!TypeOK
<1>2. /\ pass.conn \in Dashboard!Connections /\ pass.seenAs \in Dashboard!Children
      /\ pass.record \in Dashboard!Records
      /\ pass.before \in Dashboard!Records /\ pass.ok \in BOOLEAN
  BY <1>1 DEF Dashboard!PassesOf
<1>3. /\ record.snapshot \in Dashboard!Snapshots /\ pass.record.snapshot \in Dashboard!Snapshots
      /\ pass.record.connection \in Dashboard!Connections
      /\ pass.record.token \in 0..MainwpMaxKeys
      /\ pass.record.ownedPlugin \in BOOLEAN /\ pass.record.ownedConnection \in BOOLEAN
  BY <1>1, <1>2 DEF Dashboard!Records
<1>4. Dashboard!Shown(dash) \in Dashboard!Connections
  BY <1>1 DEF Dashboard!Shown, Dashboard!Connections
<1>5. QED
  BY <1>1, <1>2, <1>3, <1>4 DEF Dashboard!TypeOK

(* Edits by the operators, after which they are not quiet.                 *)
LEMMA DashboardOperatorConnectsKeeps ==
  ASSUME Dashboard!ConstantsOK, ConnectionInv, Dashboard!OperatorConnects
  PROVE  ConnectionInv'
<1> USE DEF ConnectionInv, Dashboard!OperatorConnects, Dashboard!Idle, Dashboard!saved,
    Dashboard!wpCounts, Dashboard!NoRecord, Dashboard!NoSnapshot, Dashboard!NoConnection,
    Dashboard!NoChild, Dashboard!Shown, Quiet, NoDashboardRecord, Dashboard!Edited
<1>1. Dashboard!TypeOK'
  BY BlankRecords, ConnectionTyped DEF Dashboard!ConstantsOK, Dashboard!TypeOK,
     Dashboard!Records, Dashboard!PassesOf, Dashboard!Children, Dashboard!Snapshots,
     Dashboard!Connections, Dashboard!Enrolling, Dashboard!Withdrawing
<1>2. SettingIsKnown'
  BY BlankRecords, ConnectionTyped DEF SettingIsKnown, Dashboard!needsAuthRecovery,
     Dashboard!TypeOK, Dashboard!Records, Dashboard!PassesOf, Dashboard!Children,
     Dashboard!Snapshots, Dashboard!Connections, Dashboard!Enrolling, Dashboard!Withdrawing
<1>3. SeenIsOurs'
  BY BlankRecords, ConnectionTyped DEF SeenIsOurs, Dashboard!Ours, Dashboard!TypeOK,
     Dashboard!Records, Dashboard!PassesOf, Dashboard!Children, Dashboard!Snapshots,
     Dashboard!Connections, Dashboard!Enrolling, Dashboard!Withdrawing
<1>4. WhichWay'
  BY BlankRecords, ConnectionTyped DEF WhichWay, Dashboard!TypeOK, Dashboard!Records,
     Dashboard!PassesOf, Dashboard!Children, Dashboard!Snapshots, Dashboard!Connections,
     Dashboard!Enrolling, Dashboard!Withdrawing
<1>5. ClaimIsSaved'
  BY BlankRecords, ConnectionTyped DEF ClaimIsSaved, Dashboard!TypeOK, Dashboard!Records,
     Dashboard!PassesOf, Dashboard!Children, Dashboard!Snapshots, Dashboard!Connections,
     Dashboard!Enrolling, Dashboard!Withdrawing
<1>6. OnlyOurs'
  BY BlankRecords, ConnectionTyped DEF OnlyOurs, Dashboard!TypeOK, Dashboard!Records,
     Dashboard!PassesOf, Dashboard!Children, Dashboard!Snapshots, Dashboard!Connections,
     Dashboard!Enrolling, Dashboard!Withdrawing
<1>7. RetiredIsTheRecord'
  BY BlankRecords, ConnectionTyped DEF RetiredIsTheRecord, OnlyOurs, OwnedIsTheRecord,
     ClaimIsSaved, RecordIsKnown, WhichWay, OwnsTheRecord, KnownBy, Dashboard!TypeOK,
     Dashboard!Records, Dashboard!PassesOf, Dashboard!Children, Dashboard!Snapshots,
     Dashboard!Connections, Dashboard!Enrolling, Dashboard!Withdrawing
<1>8. OwnedIsTheRecord'
  BY BlankRecords, ConnectionTyped DEF OwnedIsTheRecord, OwnsTheRecord, ReadIsTheRecord,
     OnlyOurs, RecordIsKnown, Dashboard!TypeOK, Dashboard!Records, Dashboard!PassesOf,
     Dashboard!Children, Dashboard!Snapshots, Dashboard!Connections, Dashboard!Enrolling,
     Dashboard!Withdrawing, ClaimIsSaved, RetiredIsTheRecord, WhichWay
<1>9. ReadIsTheRecord'
  BY BlankRecords, ConnectionTyped DEF ReadIsTheRecord, StaysPaired, OnlyOurs, WhichWay,
     OwnedIsTheRecord, OwnsTheRecord, Dashboard!TypeOK, Dashboard!Records,
     Dashboard!PassesOf, Dashboard!Children, Dashboard!Snapshots, Dashboard!Connections,
     Dashboard!Enrolling, Dashboard!Withdrawing
<1>10. StaysPaired'
  BY BlankRecords, ConnectionTyped DEF StaysPaired, RecordIsKnown, ReadIsTheRecord,
     ClaimIsSaved, RetiredIsTheRecord, KnownBy, OnlyOurs, WhichWay, OwnedIsTheRecord,
     OwnsTheRecord, Dashboard!TypeOK, Dashboard!Records, Dashboard!PassesOf,
     Dashboard!Children, Dashboard!Snapshots, Dashboard!Connections, Dashboard!Enrolling,
     Dashboard!Withdrawing
<1>11. RecordIsKnown'
  BY BlankRecords, ConnectionTyped DEF RecordIsKnown, KnownBy, StaysPaired, ReadIsTheRecord,
     ClaimIsSaved, RetiredIsTheRecord, OnlyOurs, WhichWay, OwnedIsTheRecord, OwnsTheRecord,
     Dashboard!TypeOK, Dashboard!Records, Dashboard!PassesOf, Dashboard!Children,
     Dashboard!Snapshots, Dashboard!Connections, Dashboard!Enrolling, Dashboard!Withdrawing
<1>12. QED
  BY <1>1, <1>2, <1>3, <1>4, <1>5, <1>6, <1>7, <1>8, <1>9, <1>10, <1>11

LEMMA DashboardOtherDashboardKeeps ==
  ASSUME Dashboard!ConstantsOK, ConnectionInv, Dashboard!OtherDashboard
  PROVE  ConnectionInv'
<1> USE DEF ConnectionInv, Dashboard!OtherDashboard, Dashboard!Idle, Dashboard!saved,
    Dashboard!wpCounts, Dashboard!NoRecord, Dashboard!NoSnapshot, Dashboard!NoConnection,
    Dashboard!NoChild, Dashboard!Shown, Quiet, NoDashboardRecord, Dashboard!Edited
<1>1. Dashboard!TypeOK'
  BY BlankRecords, ConnectionTyped DEF Dashboard!ConstantsOK, Dashboard!TypeOK,
     Dashboard!Records, Dashboard!PassesOf, Dashboard!Children, Dashboard!Snapshots,
     Dashboard!Connections, Dashboard!Enrolling, Dashboard!Withdrawing
<1>2. SettingIsKnown'
  BY BlankRecords, ConnectionTyped DEF SettingIsKnown, Dashboard!needsAuthRecovery,
     Dashboard!TypeOK, Dashboard!Records, Dashboard!PassesOf, Dashboard!Children,
     Dashboard!Snapshots, Dashboard!Connections, Dashboard!Enrolling, Dashboard!Withdrawing
<1>3. SeenIsOurs'
  BY BlankRecords, ConnectionTyped DEF SeenIsOurs, Dashboard!Ours, Dashboard!TypeOK,
     Dashboard!Records, Dashboard!PassesOf, Dashboard!Children, Dashboard!Snapshots,
     Dashboard!Connections, Dashboard!Enrolling, Dashboard!Withdrawing
<1>4. WhichWay'
  BY BlankRecords, ConnectionTyped DEF WhichWay, Dashboard!TypeOK, Dashboard!Records,
     Dashboard!PassesOf, Dashboard!Children, Dashboard!Snapshots, Dashboard!Connections,
     Dashboard!Enrolling, Dashboard!Withdrawing
<1>5. ClaimIsSaved'
  BY BlankRecords, ConnectionTyped DEF ClaimIsSaved, Dashboard!TypeOK, Dashboard!Records,
     Dashboard!PassesOf, Dashboard!Children, Dashboard!Snapshots, Dashboard!Connections,
     Dashboard!Enrolling, Dashboard!Withdrawing
<1>6. OnlyOurs'
  BY BlankRecords, ConnectionTyped DEF OnlyOurs, Dashboard!TypeOK, Dashboard!Records,
     Dashboard!PassesOf, Dashboard!Children, Dashboard!Snapshots, Dashboard!Connections,
     Dashboard!Enrolling, Dashboard!Withdrawing
<1>7. RetiredIsTheRecord'
  BY BlankRecords, ConnectionTyped DEF RetiredIsTheRecord, OnlyOurs, OwnedIsTheRecord,
     ClaimIsSaved, RecordIsKnown, WhichWay, OwnsTheRecord, KnownBy, Dashboard!TypeOK,
     Dashboard!Records, Dashboard!PassesOf, Dashboard!Children, Dashboard!Snapshots,
     Dashboard!Connections, Dashboard!Enrolling, Dashboard!Withdrawing
<1>8. OwnedIsTheRecord'
  BY BlankRecords, ConnectionTyped DEF OwnedIsTheRecord, OwnsTheRecord, ReadIsTheRecord,
     OnlyOurs, RecordIsKnown, Dashboard!TypeOK, Dashboard!Records, Dashboard!PassesOf,
     Dashboard!Children, Dashboard!Snapshots, Dashboard!Connections, Dashboard!Enrolling,
     Dashboard!Withdrawing, ClaimIsSaved, RetiredIsTheRecord, WhichWay
<1>9. ReadIsTheRecord'
  BY BlankRecords, ConnectionTyped DEF ReadIsTheRecord, StaysPaired, OnlyOurs, WhichWay,
     OwnedIsTheRecord, OwnsTheRecord, Dashboard!TypeOK, Dashboard!Records,
     Dashboard!PassesOf, Dashboard!Children, Dashboard!Snapshots, Dashboard!Connections,
     Dashboard!Enrolling, Dashboard!Withdrawing
<1>10. StaysPaired'
  BY BlankRecords, ConnectionTyped DEF StaysPaired, RecordIsKnown, ReadIsTheRecord,
     ClaimIsSaved, RetiredIsTheRecord, KnownBy, OnlyOurs, WhichWay, OwnedIsTheRecord,
     OwnsTheRecord, Dashboard!TypeOK, Dashboard!Records, Dashboard!PassesOf,
     Dashboard!Children, Dashboard!Snapshots, Dashboard!Connections, Dashboard!Enrolling,
     Dashboard!Withdrawing
<1>11. RecordIsKnown'
  BY BlankRecords, ConnectionTyped DEF RecordIsKnown, KnownBy, StaysPaired, ReadIsTheRecord,
     ClaimIsSaved, RetiredIsTheRecord, OnlyOurs, WhichWay, OwnedIsTheRecord, OwnsTheRecord,
     Dashboard!TypeOK, Dashboard!Records, Dashboard!PassesOf, Dashboard!Children,
     Dashboard!Snapshots, Dashboard!Connections, Dashboard!Enrolling, Dashboard!Withdrawing
<1>12. QED
  BY <1>1, <1>2, <1>3, <1>4, <1>5, <1>6, <1>7, <1>8, <1>9, <1>10, <1>11

LEMMA DashboardDisconnectsKeeps ==
  ASSUME Dashboard!ConstantsOK, ConnectionInv, Dashboard!Disconnects
  PROVE  ConnectionInv'
<1> USE DEF ConnectionInv, Dashboard!Disconnects, Dashboard!Idle, Dashboard!saved,
    Dashboard!wpCounts, Dashboard!NoRecord, Dashboard!NoSnapshot, Dashboard!NoConnection,
    Dashboard!NoChild, Dashboard!Shown, Quiet, NoDashboardRecord, Dashboard!Edited
<1>1. Dashboard!TypeOK'
  BY BlankRecords, ConnectionTyped DEF Dashboard!ConstantsOK, Dashboard!TypeOK,
     Dashboard!Records, Dashboard!PassesOf, Dashboard!Children, Dashboard!Snapshots,
     Dashboard!Connections, Dashboard!Enrolling, Dashboard!Withdrawing
<1>2. SettingIsKnown'
  BY BlankRecords, ConnectionTyped DEF SettingIsKnown, Dashboard!needsAuthRecovery,
     Dashboard!TypeOK, Dashboard!Records, Dashboard!PassesOf, Dashboard!Children,
     Dashboard!Snapshots, Dashboard!Connections, Dashboard!Enrolling, Dashboard!Withdrawing
<1>3. SeenIsOurs'
  BY BlankRecords, ConnectionTyped DEF SeenIsOurs, Dashboard!Ours, Dashboard!TypeOK,
     Dashboard!Records, Dashboard!PassesOf, Dashboard!Children, Dashboard!Snapshots,
     Dashboard!Connections, Dashboard!Enrolling, Dashboard!Withdrawing
<1>4. WhichWay'
  BY BlankRecords, ConnectionTyped DEF WhichWay, Dashboard!TypeOK, Dashboard!Records,
     Dashboard!PassesOf, Dashboard!Children, Dashboard!Snapshots, Dashboard!Connections,
     Dashboard!Enrolling, Dashboard!Withdrawing
<1>5. ClaimIsSaved'
  BY BlankRecords, ConnectionTyped DEF ClaimIsSaved, Dashboard!TypeOK, Dashboard!Records,
     Dashboard!PassesOf, Dashboard!Children, Dashboard!Snapshots, Dashboard!Connections,
     Dashboard!Enrolling, Dashboard!Withdrawing
<1>6. OnlyOurs'
  BY BlankRecords, ConnectionTyped DEF OnlyOurs, Dashboard!TypeOK, Dashboard!Records,
     Dashboard!PassesOf, Dashboard!Children, Dashboard!Snapshots, Dashboard!Connections,
     Dashboard!Enrolling, Dashboard!Withdrawing
<1>7. RetiredIsTheRecord'
  BY BlankRecords, ConnectionTyped DEF RetiredIsTheRecord, OnlyOurs, OwnedIsTheRecord,
     ClaimIsSaved, RecordIsKnown, WhichWay, OwnsTheRecord, KnownBy, Dashboard!TypeOK,
     Dashboard!Records, Dashboard!PassesOf, Dashboard!Children, Dashboard!Snapshots,
     Dashboard!Connections, Dashboard!Enrolling, Dashboard!Withdrawing
<1>8. OwnedIsTheRecord'
  BY BlankRecords, ConnectionTyped DEF OwnedIsTheRecord, OwnsTheRecord, ReadIsTheRecord,
     OnlyOurs, RecordIsKnown, Dashboard!TypeOK, Dashboard!Records, Dashboard!PassesOf,
     Dashboard!Children, Dashboard!Snapshots, Dashboard!Connections, Dashboard!Enrolling,
     Dashboard!Withdrawing, ClaimIsSaved, RetiredIsTheRecord, WhichWay
<1>9. ReadIsTheRecord'
  BY BlankRecords, ConnectionTyped DEF ReadIsTheRecord, StaysPaired, OnlyOurs, WhichWay,
     OwnedIsTheRecord, OwnsTheRecord, Dashboard!TypeOK, Dashboard!Records,
     Dashboard!PassesOf, Dashboard!Children, Dashboard!Snapshots, Dashboard!Connections,
     Dashboard!Enrolling, Dashboard!Withdrawing
<1>10. StaysPaired'
  BY BlankRecords, ConnectionTyped DEF StaysPaired, RecordIsKnown, ReadIsTheRecord,
     ClaimIsSaved, RetiredIsTheRecord, KnownBy, OnlyOurs, WhichWay, OwnedIsTheRecord,
     OwnsTheRecord, Dashboard!TypeOK, Dashboard!Records, Dashboard!PassesOf,
     Dashboard!Children, Dashboard!Snapshots, Dashboard!Connections, Dashboard!Enrolling,
     Dashboard!Withdrawing
<1>11. RecordIsKnown'
  BY BlankRecords, ConnectionTyped DEF RecordIsKnown, KnownBy, StaysPaired, ReadIsTheRecord,
     ClaimIsSaved, RetiredIsTheRecord, OnlyOurs, WhichWay, OwnedIsTheRecord, OwnsTheRecord,
     Dashboard!TypeOK, Dashboard!Records, Dashboard!PassesOf, Dashboard!Children,
     Dashboard!Snapshots, Dashboard!Connections, Dashboard!Enrolling, Dashboard!Withdrawing
<1>12. QED
  BY <1>1, <1>2, <1>3, <1>4, <1>5, <1>6, <1>7, <1>8, <1>9, <1>10, <1>11

LEMMA DashboardDropsDashboardRecordKeeps ==
  ASSUME Dashboard!ConstantsOK, ConnectionInv, Dashboard!DropsDashboardRecord
  PROVE  ConnectionInv'
<1> USE DEF ConnectionInv, Dashboard!DropsDashboardRecord, Dashboard!Idle, Dashboard!saved,
    Dashboard!wpCounts, Dashboard!NoRecord, Dashboard!NoSnapshot, Dashboard!NoConnection,
    Dashboard!NoChild, Dashboard!Shown, Quiet, NoDashboardRecord, Dashboard!Edited
<1>1. Dashboard!TypeOK'
  BY BlankRecords, ConnectionTyped DEF Dashboard!ConstantsOK, Dashboard!TypeOK,
     Dashboard!Records, Dashboard!PassesOf, Dashboard!Children, Dashboard!Snapshots,
     Dashboard!Connections, Dashboard!Enrolling, Dashboard!Withdrawing
<1>2. SettingIsKnown'
  BY BlankRecords, ConnectionTyped DEF SettingIsKnown, Dashboard!needsAuthRecovery,
     Dashboard!TypeOK, Dashboard!Records, Dashboard!PassesOf, Dashboard!Children,
     Dashboard!Snapshots, Dashboard!Connections, Dashboard!Enrolling, Dashboard!Withdrawing
<1>3. SeenIsOurs'
  BY BlankRecords, ConnectionTyped DEF SeenIsOurs, Dashboard!Ours, Dashboard!TypeOK,
     Dashboard!Records, Dashboard!PassesOf, Dashboard!Children, Dashboard!Snapshots,
     Dashboard!Connections, Dashboard!Enrolling, Dashboard!Withdrawing
<1>4. WhichWay'
  BY BlankRecords, ConnectionTyped DEF WhichWay, Dashboard!TypeOK, Dashboard!Records,
     Dashboard!PassesOf, Dashboard!Children, Dashboard!Snapshots, Dashboard!Connections,
     Dashboard!Enrolling, Dashboard!Withdrawing
<1>5. ClaimIsSaved'
  BY BlankRecords, ConnectionTyped DEF ClaimIsSaved, Dashboard!TypeOK, Dashboard!Records,
     Dashboard!PassesOf, Dashboard!Children, Dashboard!Snapshots, Dashboard!Connections,
     Dashboard!Enrolling, Dashboard!Withdrawing
<1>6. OnlyOurs'
  BY BlankRecords, ConnectionTyped DEF OnlyOurs, Dashboard!TypeOK, Dashboard!Records,
     Dashboard!PassesOf, Dashboard!Children, Dashboard!Snapshots, Dashboard!Connections,
     Dashboard!Enrolling, Dashboard!Withdrawing
<1>7. RetiredIsTheRecord'
  BY BlankRecords, ConnectionTyped DEF RetiredIsTheRecord, OnlyOurs, OwnedIsTheRecord,
     ClaimIsSaved, RecordIsKnown, WhichWay, OwnsTheRecord, KnownBy, Dashboard!TypeOK,
     Dashboard!Records, Dashboard!PassesOf, Dashboard!Children, Dashboard!Snapshots,
     Dashboard!Connections, Dashboard!Enrolling, Dashboard!Withdrawing
<1>8. OwnedIsTheRecord'
  BY BlankRecords, ConnectionTyped DEF OwnedIsTheRecord, OwnsTheRecord, ReadIsTheRecord,
     OnlyOurs, RecordIsKnown, Dashboard!TypeOK, Dashboard!Records, Dashboard!PassesOf,
     Dashboard!Children, Dashboard!Snapshots, Dashboard!Connections, Dashboard!Enrolling,
     Dashboard!Withdrawing, ClaimIsSaved, RetiredIsTheRecord, WhichWay
<1>9. ReadIsTheRecord'
  BY BlankRecords, ConnectionTyped DEF ReadIsTheRecord, StaysPaired, OnlyOurs, WhichWay,
     OwnedIsTheRecord, OwnsTheRecord, Dashboard!TypeOK, Dashboard!Records,
     Dashboard!PassesOf, Dashboard!Children, Dashboard!Snapshots, Dashboard!Connections,
     Dashboard!Enrolling, Dashboard!Withdrawing
<1>10. StaysPaired'
  BY BlankRecords, ConnectionTyped DEF StaysPaired, RecordIsKnown, ReadIsTheRecord,
     ClaimIsSaved, RetiredIsTheRecord, KnownBy, OnlyOurs, WhichWay, OwnedIsTheRecord,
     OwnsTheRecord, Dashboard!TypeOK, Dashboard!Records, Dashboard!PassesOf,
     Dashboard!Children, Dashboard!Snapshots, Dashboard!Connections, Dashboard!Enrolling,
     Dashboard!Withdrawing
<1>11. RecordIsKnown'
  BY BlankRecords, ConnectionTyped DEF RecordIsKnown, KnownBy, StaysPaired, ReadIsTheRecord,
     ClaimIsSaved, RetiredIsTheRecord, OnlyOurs, WhichWay, OwnedIsTheRecord, OwnsTheRecord,
     Dashboard!TypeOK, Dashboard!Records, Dashboard!PassesOf, Dashboard!Children,
     Dashboard!Snapshots, Dashboard!Connections, Dashboard!Enrolling, Dashboard!Withdrawing
<1>12. QED
  BY <1>1, <1>2, <1>3, <1>4, <1>5, <1>6, <1>7, <1>8, <1>9, <1>10, <1>11

LEMMA DashboardDeletesPluginKeeps ==
  ASSUME Dashboard!ConstantsOK, ConnectionInv, Dashboard!DeletesPlugin
  PROVE  ConnectionInv'
<1> USE DEF ConnectionInv, Dashboard!DeletesPlugin, Dashboard!Idle, Dashboard!saved,
    Dashboard!wpCounts, Dashboard!NoRecord, Dashboard!NoSnapshot, Dashboard!NoConnection,
    Dashboard!NoChild, Dashboard!Shown, Quiet, NoDashboardRecord, Dashboard!Edited,
    Dashboard!Installed
<1>1. Dashboard!TypeOK'
  BY BlankRecords, ConnectionTyped DEF Dashboard!ConstantsOK, Dashboard!TypeOK,
     Dashboard!Records, Dashboard!PassesOf, Dashboard!Children, Dashboard!Snapshots,
     Dashboard!Connections, Dashboard!Enrolling, Dashboard!Withdrawing
<1>2. SettingIsKnown'
  BY BlankRecords, ConnectionTyped DEF SettingIsKnown, Dashboard!needsAuthRecovery,
     Dashboard!TypeOK, Dashboard!Records, Dashboard!PassesOf, Dashboard!Children,
     Dashboard!Snapshots, Dashboard!Connections, Dashboard!Enrolling, Dashboard!Withdrawing
<1>3. SeenIsOurs'
  BY BlankRecords, ConnectionTyped DEF SeenIsOurs, Dashboard!Ours, Dashboard!TypeOK,
     Dashboard!Records, Dashboard!PassesOf, Dashboard!Children, Dashboard!Snapshots,
     Dashboard!Connections, Dashboard!Enrolling, Dashboard!Withdrawing
<1>4. WhichWay'
  BY BlankRecords, ConnectionTyped DEF WhichWay, Dashboard!TypeOK, Dashboard!Records,
     Dashboard!PassesOf, Dashboard!Children, Dashboard!Snapshots, Dashboard!Connections,
     Dashboard!Enrolling, Dashboard!Withdrawing
<1>5. ClaimIsSaved'
  BY BlankRecords, ConnectionTyped DEF ClaimIsSaved, Dashboard!TypeOK, Dashboard!Records,
     Dashboard!PassesOf, Dashboard!Children, Dashboard!Snapshots, Dashboard!Connections,
     Dashboard!Enrolling, Dashboard!Withdrawing
<1>6. OnlyOurs'
  BY BlankRecords, ConnectionTyped DEF OnlyOurs, Dashboard!TypeOK, Dashboard!Records,
     Dashboard!PassesOf, Dashboard!Children, Dashboard!Snapshots, Dashboard!Connections,
     Dashboard!Enrolling, Dashboard!Withdrawing
<1>7. RetiredIsTheRecord'
  BY BlankRecords, ConnectionTyped DEF RetiredIsTheRecord, OnlyOurs, OwnedIsTheRecord,
     ClaimIsSaved, RecordIsKnown, WhichWay, OwnsTheRecord, KnownBy, Dashboard!TypeOK,
     Dashboard!Records, Dashboard!PassesOf, Dashboard!Children, Dashboard!Snapshots,
     Dashboard!Connections, Dashboard!Enrolling, Dashboard!Withdrawing
<1>8. OwnedIsTheRecord'
  BY BlankRecords, ConnectionTyped DEF OwnedIsTheRecord, OwnsTheRecord, ReadIsTheRecord,
     OnlyOurs, RecordIsKnown, Dashboard!TypeOK, Dashboard!Records, Dashboard!PassesOf,
     Dashboard!Children, Dashboard!Snapshots, Dashboard!Connections, Dashboard!Enrolling,
     Dashboard!Withdrawing, ClaimIsSaved, RetiredIsTheRecord, WhichWay
<1>9. ReadIsTheRecord'
  BY BlankRecords, ConnectionTyped DEF ReadIsTheRecord, StaysPaired, OnlyOurs, WhichWay,
     OwnedIsTheRecord, OwnsTheRecord, Dashboard!TypeOK, Dashboard!Records,
     Dashboard!PassesOf, Dashboard!Children, Dashboard!Snapshots, Dashboard!Connections,
     Dashboard!Enrolling, Dashboard!Withdrawing
<1>10. StaysPaired'
  BY BlankRecords, ConnectionTyped DEF StaysPaired, RecordIsKnown, ReadIsTheRecord,
     ClaimIsSaved, RetiredIsTheRecord, KnownBy, OnlyOurs, WhichWay, OwnedIsTheRecord,
     OwnsTheRecord, Dashboard!TypeOK, Dashboard!Records, Dashboard!PassesOf,
     Dashboard!Children, Dashboard!Snapshots, Dashboard!Connections, Dashboard!Enrolling,
     Dashboard!Withdrawing
<1>11. RecordIsKnown'
  BY BlankRecords, ConnectionTyped DEF RecordIsKnown, KnownBy, StaysPaired, ReadIsTheRecord,
     ClaimIsSaved, RetiredIsTheRecord, OnlyOurs, WhichWay, OwnedIsTheRecord, OwnsTheRecord,
     Dashboard!TypeOK, Dashboard!Records, Dashboard!PassesOf, Dashboard!Children,
     Dashboard!Snapshots, Dashboard!Connections, Dashboard!Enrolling, Dashboard!Withdrawing
<1>12. QED
  BY <1>1, <1>2, <1>3, <1>4, <1>5, <1>6, <1>7, <1>8, <1>9, <1>10, <1>11

(* A pass begins: the setting, then what the Dashboard has, then the       *)
(* site.                                                                   *)
LEMMA DashboardConfigureMainwpKeeps ==
  ASSUME Dashboard!ConstantsOK, ConnectionInv, Dashboard!configureMainwp
  PROVE  ConnectionInv'
<1> USE DEF ConnectionInv, Dashboard!configureMainwp, Dashboard!Idle, Dashboard!saved,
    Dashboard!wpCounts, Dashboard!NoRecord, Dashboard!NoSnapshot, Dashboard!NoConnection,
    Dashboard!NoChild, Dashboard!Shown, Quiet, NoDashboardRecord
<1>1. Dashboard!TypeOK'
  BY BlankRecords, ConnectionTyped DEF Dashboard!ConstantsOK, Dashboard!TypeOK,
     Dashboard!Records, Dashboard!PassesOf, Dashboard!Children, Dashboard!Snapshots,
     Dashboard!Connections, Dashboard!Enrolling, Dashboard!Withdrawing
<1>2. SettingIsKnown'
  BY BlankRecords, ConnectionTyped DEF SettingIsKnown, Dashboard!needsAuthRecovery,
     Dashboard!TypeOK, Dashboard!Records, Dashboard!PassesOf, Dashboard!Children,
     Dashboard!Snapshots, Dashboard!Connections, Dashboard!Enrolling, Dashboard!Withdrawing
<1>3. SeenIsOurs'
  BY BlankRecords, ConnectionTyped DEF SeenIsOurs, Dashboard!Ours, Dashboard!TypeOK,
     Dashboard!Records, Dashboard!PassesOf, Dashboard!Children, Dashboard!Snapshots,
     Dashboard!Connections, Dashboard!Enrolling, Dashboard!Withdrawing
<1>4. WhichWay'
  BY BlankRecords, ConnectionTyped DEF WhichWay, Dashboard!TypeOK, Dashboard!Records,
     Dashboard!PassesOf, Dashboard!Children, Dashboard!Snapshots, Dashboard!Connections,
     Dashboard!Enrolling, Dashboard!Withdrawing
<1>5. ClaimIsSaved'
  BY BlankRecords, ConnectionTyped DEF ClaimIsSaved, Dashboard!TypeOK, Dashboard!Records,
     Dashboard!PassesOf, Dashboard!Children, Dashboard!Snapshots, Dashboard!Connections,
     Dashboard!Enrolling, Dashboard!Withdrawing
<1>6. OnlyOurs'
  BY BlankRecords, ConnectionTyped DEF OnlyOurs, Dashboard!TypeOK, Dashboard!Records,
     Dashboard!PassesOf, Dashboard!Children, Dashboard!Snapshots, Dashboard!Connections,
     Dashboard!Enrolling, Dashboard!Withdrawing
<1>7. RetiredIsTheRecord'
  BY BlankRecords, ConnectionTyped DEF RetiredIsTheRecord, OnlyOurs, OwnedIsTheRecord,
     ClaimIsSaved, RecordIsKnown, WhichWay, OwnsTheRecord, KnownBy, Dashboard!TypeOK,
     Dashboard!Records, Dashboard!PassesOf, Dashboard!Children, Dashboard!Snapshots,
     Dashboard!Connections, Dashboard!Enrolling, Dashboard!Withdrawing
<1>8. OwnedIsTheRecord'
  BY BlankRecords, ConnectionTyped DEF OwnedIsTheRecord, OwnsTheRecord, ReadIsTheRecord,
     OnlyOurs, RecordIsKnown, Dashboard!TypeOK, Dashboard!Records, Dashboard!PassesOf,
     Dashboard!Children, Dashboard!Snapshots, Dashboard!Connections, Dashboard!Enrolling,
     Dashboard!Withdrawing, ClaimIsSaved, RetiredIsTheRecord, WhichWay
<1>9. ReadIsTheRecord'
  BY BlankRecords, ConnectionTyped DEF ReadIsTheRecord, StaysPaired, OnlyOurs, WhichWay,
     OwnedIsTheRecord, OwnsTheRecord, Dashboard!TypeOK, Dashboard!Records,
     Dashboard!PassesOf, Dashboard!Children, Dashboard!Snapshots, Dashboard!Connections,
     Dashboard!Enrolling, Dashboard!Withdrawing
<1>10. StaysPaired'
  BY BlankRecords, ConnectionTyped DEF StaysPaired, RecordIsKnown, ReadIsTheRecord,
     ClaimIsSaved, RetiredIsTheRecord, KnownBy, OnlyOurs, WhichWay, OwnedIsTheRecord,
     OwnsTheRecord, Dashboard!TypeOK, Dashboard!Records, Dashboard!PassesOf,
     Dashboard!Children, Dashboard!Snapshots, Dashboard!Connections, Dashboard!Enrolling,
     Dashboard!Withdrawing
<1>11. RecordIsKnown'
  BY BlankRecords, ConnectionTyped DEF RecordIsKnown, KnownBy, StaysPaired, ReadIsTheRecord,
     ClaimIsSaved, RetiredIsTheRecord, OnlyOurs, WhichWay, OwnedIsTheRecord, OwnsTheRecord,
     Dashboard!TypeOK, Dashboard!Records, Dashboard!PassesOf, Dashboard!Children,
     Dashboard!Snapshots, Dashboard!Connections, Dashboard!Enrolling, Dashboard!Withdrawing
<1>12. QED
  BY <1>1, <1>2, <1>3, <1>4, <1>5, <1>6, <1>7, <1>8, <1>9, <1>10, <1>11

LEMMA DashboardSyncMainwpKeeps ==
  ASSUME Dashboard!ConstantsOK, ConnectionInv, Dashboard!syncMainwp
  PROVE  ConnectionInv'
<1> USE DEF ConnectionInv, Dashboard!Idle, Quiet, OwnsConnection, AdoptedAs, SameClaim,
    SameReads, StillCleaning, EnrolledHere
<1>0. /\ child' = child /\ dash' = dash /\ record' = record /\ retired' = retired
      /\ wpEdits' = wpEdits /\ mainwpKeys' \in 0..MainwpMaxKeys /\ passes' \in 0..MaxPasses
      /\ faults' \in 0..MaxFaults /\ cleaning' \in BOOLEAN /\ enabled' \in BOOLEAN
      /\ (cleaning => cleaning') /\ (cleaning' => record.snapshot # Dashboard!NoSnapshot)
      /\ pass' \in Dashboard!PassesOf /\ pass'.conn = Dashboard!NoConnection
      /\ pass'.seenAs = Dashboard!NoChild
      /\ pass'.before = Dashboard!NoRecord /\ pass'.ok = Dashboard!NoPass.ok
      /\ pass'.at = "recover"
      /\ pass'.record = record
  <2> USE DEF Dashboard!TypeOK
  <2>1. PICK verb \in {"sync", "connect", "cleanup"} :
          /\ cleaning' = (cleaning \/ verb = "cleanup") /\ enabled' = (enabled /\ ~cleaning')
          /\ Dashboard!Due(verb = "connect")
          /\ pass' = [Dashboard!NoPass EXCEPT !.at = "recover", !.asked = (verb = "connect"),
                 !.record = record]
    BY DEF Dashboard!syncMainwp
  <2>2. /\ pass' \in Dashboard!PassesOf /\ pass'.conn = Dashboard!NoConnection
        /\ pass'.seenAs = Dashboard!NoChild
        /\ pass'.before = Dashboard!NoRecord /\ pass'.ok = Dashboard!NoPass.ok
        /\ pass'.at = "recover"
        /\ pass'.record = record
    BY <2>1, BlankRecords, ConnectionTyped DEF Dashboard!PassesOf
  <2>3. QED
    BY <2>1, <2>2 DEF Dashboard!syncMainwp, Dashboard!Due, Dashboard!ConstantsOK
<1>1. Dashboard!TypeOK'
  BY <1>0, BlankRecords, ConnectionTyped DEF Dashboard!ConstantsOK, Dashboard!TypeOK
<1>2. SettingIsKnown'
  BY <1>0, BlankRecords, ConnectionTyped DEF SettingIsKnown, Dashboard!needsAuthRecovery,
     Dashboard!Enrolling, Dashboard!Withdrawing, Dashboard!Shown
<1>3. SeenIsOurs'
  BY <1>0, BlankRecords, ConnectionTyped DEF SeenIsOurs, Dashboard!Ours, Dashboard!Enrolling,
     Dashboard!Withdrawing, Dashboard!Shown
<1>4. WhichWay'
  BY <1>0, BlankRecords, ConnectionTyped DEF WhichWay, Dashboard!Enrolling,
     Dashboard!Withdrawing, Dashboard!Shown
<1>5. ClaimIsSaved'
  BY <1>0, BlankRecords, ConnectionTyped DEF ClaimIsSaved, Dashboard!Enrolling,
     Dashboard!Withdrawing, Dashboard!Shown, Dashboard!enrolledBy, Dashboard!paired
<1>6. OnlyOurs'
  BY <1>0, BlankRecords, ConnectionTyped DEF OnlyOurs, Dashboard!Enrolling,
     Dashboard!Withdrawing, Dashboard!Shown, OwnedIsTheRecord, OwnsTheRecord
<1>7. RetiredIsTheRecord'
  BY <1>0, BlankRecords, ConnectionTyped DEF RetiredIsTheRecord, OnlyOurs, OwnedIsTheRecord,
     ClaimIsSaved, RecordIsKnown, WhichWay, OwnsTheRecord, KnownBy, Dashboard!Enrolling,
     Dashboard!Withdrawing, Dashboard!Shown
<1>8. OwnedIsTheRecord'
  BY <1>0, BlankRecords, ConnectionTyped DEF OwnedIsTheRecord, OwnsTheRecord,
     ReadIsTheRecord, OnlyOurs, RecordIsKnown, Dashboard!Enrolling, Dashboard!Withdrawing,
     Dashboard!Shown, Dashboard!enrolledBy, Dashboard!paired
<1>9. ReadIsTheRecord'
  BY <1>0, BlankRecords, ConnectionTyped DEF ReadIsTheRecord, StaysPaired, OnlyOurs,
     WhichWay, OwnedIsTheRecord, OwnsTheRecord, Dashboard!Enrolling, Dashboard!Withdrawing,
     Dashboard!Shown, Dashboard!enrolledBy, Dashboard!paired
<1>10. StaysPaired'
  BY <1>0, BlankRecords, ConnectionTyped DEF StaysPaired, RecordIsKnown, ReadIsTheRecord,
     ClaimIsSaved, RetiredIsTheRecord, KnownBy, OnlyOurs, WhichWay, OwnedIsTheRecord,
     OwnsTheRecord, Dashboard!Enrolling, Dashboard!Withdrawing, Dashboard!Shown,
     ClaimIsSaved, Dashboard!enrolledBy, Dashboard!paired
<1>11. RecordIsKnown'
  BY <1>0, BlankRecords, ConnectionTyped DEF RecordIsKnown, KnownBy, StaysPaired,
     ReadIsTheRecord, ClaimIsSaved, RetiredIsTheRecord, OnlyOurs, WhichWay, OwnedIsTheRecord,
     OwnsTheRecord, Dashboard!Enrolling, Dashboard!Withdrawing, Dashboard!Shown,
     Dashboard!enrolledBy, Dashboard!paired
<1>12. QED
  BY <1>1, <1>2, <1>3, <1>4, <1>5, <1>6, <1>7, <1>8, <1>9, <1>10, <1>11

LEMMA DashboardRestoreAuthFirstKeeps ==
  ASSUME Dashboard!ConstantsOK, ConnectionInv, Dashboard!restoreAuthFirst
  PROVE  ConnectionInv'
<1> USE DEF ConnectionInv, Dashboard!Idle, Quiet, OwnsConnection, AdoptedAs, SameClaim,
    SameReads, StillCleaning, EnrolledHere
<1>0. /\ pass.at = "recover" /\ dash' = dash /\ wpEdits' = wpEdits /\ retired' = retired
      /\ mainwpKeys' \in 0..MainwpMaxKeys /\ passes' \in 0..MaxPasses
      /\ faults' \in 0..MaxFaults
      /\ \/ /\ Dashboard!needsAuthRecovery(pass.record) /\ child' \in Dashboard!Children
            /\ child'.auth = pass.record.snapshot.auth /\ child'.key = child.key
            /\ child'.sec = child.sec /\ (child'.plugin = child.plugin \/ child.key = 0)
            /\ enabled' = enabled /\ cleaning' = cleaning /\ pass' \in Dashboard!PassesOf
            /\ SameReads(pass', pass) /\ pass'.at = "read" /\ pass'.record = record'
            /\ record' \in Dashboard!Records /\ SameClaim(record', pass.record)
            /\ record'.token = pass.record.token /\ record'.phase = "restored"
         \/ /\ pass' = Dashboard!NoPass /\ record' = pass.record
            /\ cleaning' = StillCleaning(pass.record, retired) /\ enabled' = enabled
            /\ child' = child
         \/ /\ ~Dashboard!needsAuthRecovery(pass.record) /\ child' = child /\ enabled' = enabled
            /\ cleaning' = cleaning /\ record' = record /\ pass' \in Dashboard!PassesOf
            /\ SameReads(pass', pass) /\ pass'.at = "read" /\ pass'.record = pass.record
  <2> USE DEF Dashboard!restoreAuthFirst, Dashboard!TypeOK, Dashboard!saved, Dashboard!NoFault
  <2>1. CASE /\ Dashboard!needsAuthRecovery(pass.record)
             /\ ~(Dashboard!Fault /\ Dashboard!End(pass.record) /\ UNCHANGED child)
    <3>1. /\ record' = [pass.record EXCEPT !.phase = "restored"]
          /\ pass' = [pass EXCEPT !.at = "read", !.record = record']
      BY <2>1 DEF Dashboard!To
    <3>2. /\ record' \in Dashboard!Records /\ SameClaim(record', pass.record)
          /\ record'.token = pass.record.token /\ record'.phase = "restored"
      BY <3>1, ConnectionTyped DEF Dashboard!Records
    <3>3. /\ pass' \in Dashboard!PassesOf /\ SameReads(pass', pass) /\ pass'.at = "read"
          /\ pass'.record = record'
      BY <3>1, <3>2, ConnectionTyped DEF Dashboard!PassesOf
    <3>4. QED
      BY <2>1, <3>2, <3>3, RestoredAuth, ConnectionTyped DEF Dashboard!TypeOK
  <2>2. CASE Dashboard!Fault /\ Dashboard!End(pass.record) /\ UNCHANGED child
    BY <2>2, ConnectionTyped DEF Dashboard!End, Dashboard!EndWith, Dashboard!Fault,
       Dashboard!ConstantsOK
  <2>3. CASE /\ ~Dashboard!needsAuthRecovery(pass.record)
             /\ ~(Dashboard!Fault /\ Dashboard!End(pass.record) /\ UNCHANGED child)
    <3>1. pass' = [pass EXCEPT !.at = "read", !.record = pass.record]
      BY <2>3 DEF Dashboard!To
    <3>2. /\ pass' \in Dashboard!PassesOf /\ SameReads(pass', pass) /\ pass'.at = "read"
          /\ pass'.record = pass.record
      BY <3>1, ConnectionTyped DEF Dashboard!PassesOf
    <3>3. QED
      BY <2>3, <3>2
  <2>4. QED
    BY <2>1, <2>2, <2>3
<1>1. Dashboard!TypeOK'
  BY <1>0, BlankRecords, ConnectionTyped DEF Dashboard!ConstantsOK, Dashboard!TypeOK
<1>2. SettingIsKnown'
  BY <1>0, BlankRecords, ConnectionTyped DEF SettingIsKnown, Dashboard!needsAuthRecovery,
     Dashboard!Enrolling, Dashboard!Withdrawing, Dashboard!Shown
<1>3. SeenIsOurs'
  BY <1>0, BlankRecords, ConnectionTyped DEF SeenIsOurs, Dashboard!Ours, Dashboard!Enrolling,
     Dashboard!Withdrawing, Dashboard!Shown
<1>4. WhichWay'
  BY <1>0, BlankRecords, ConnectionTyped DEF WhichWay, Dashboard!Enrolling,
     Dashboard!Withdrawing, Dashboard!Shown
<1>5. ClaimIsSaved'
  BY <1>0, BlankRecords, ConnectionTyped DEF ClaimIsSaved, Dashboard!Enrolling,
     Dashboard!Withdrawing, Dashboard!Shown, Dashboard!enrolledBy, Dashboard!paired
<1>6. OnlyOurs'
  BY <1>0, BlankRecords, ConnectionTyped DEF OnlyOurs, Dashboard!Enrolling,
     Dashboard!Withdrawing, Dashboard!Shown, OwnedIsTheRecord, OwnsTheRecord
<1>7. RetiredIsTheRecord'
  BY <1>0, BlankRecords, ConnectionTyped DEF RetiredIsTheRecord, OnlyOurs, OwnedIsTheRecord,
     ClaimIsSaved, RecordIsKnown, WhichWay, OwnsTheRecord, KnownBy, Dashboard!Enrolling,
     Dashboard!Withdrawing, Dashboard!Shown
<1>8. OwnedIsTheRecord'
  BY <1>0, BlankRecords, ConnectionTyped DEF OwnedIsTheRecord, OwnsTheRecord,
     ReadIsTheRecord, OnlyOurs, RecordIsKnown, Dashboard!Enrolling, Dashboard!Withdrawing,
     Dashboard!Shown, Dashboard!enrolledBy, Dashboard!paired
<1>9. ReadIsTheRecord'
  BY <1>0, BlankRecords, ConnectionTyped DEF ReadIsTheRecord, StaysPaired, OnlyOurs,
     WhichWay, OwnedIsTheRecord, OwnsTheRecord, Dashboard!Enrolling, Dashboard!Withdrawing,
     Dashboard!Shown, Dashboard!enrolledBy, Dashboard!paired
<1>10. StaysPaired'
  BY <1>0, BlankRecords, ConnectionTyped DEF StaysPaired, RecordIsKnown, ReadIsTheRecord,
     ClaimIsSaved, RetiredIsTheRecord, KnownBy, OnlyOurs, WhichWay, OwnedIsTheRecord,
     OwnsTheRecord, Dashboard!Enrolling, Dashboard!Withdrawing, Dashboard!Shown,
     ClaimIsSaved, Dashboard!enrolledBy, Dashboard!paired
<1>11. RecordIsKnown'
  BY <1>0, BlankRecords, ConnectionTyped DEF RecordIsKnown, KnownBy, StaysPaired,
     ReadIsTheRecord, ClaimIsSaved, RetiredIsTheRecord, OnlyOurs, WhichWay, OwnedIsTheRecord,
     OwnsTheRecord, Dashboard!Enrolling, Dashboard!Withdrawing, Dashboard!Shown,
     Dashboard!enrolledBy, Dashboard!paired
<1>12. QED
  BY <1>1, <1>2, <1>3, <1>4, <1>5, <1>6, <1>7, <1>8, <1>9, <1>10, <1>11

LEMMA DashboardReadDashboardKeeps ==
  ASSUME Dashboard!ConstantsOK, ConnectionInv, Dashboard!readDashboard
  PROVE  ConnectionInv'
<1> USE DEF ConnectionInv, Dashboard!Idle, Quiet, OwnsConnection, AdoptedAs, SameClaim,
    SameReads, StillCleaning, EnrolledHere
<1>0. /\ pass.at = "read" /\ dash' = dash /\ wpEdits' = wpEdits /\ child' = child
      /\ retired' = retired /\ mainwpKeys' \in 0..MainwpMaxKeys /\ passes' \in 0..MaxPasses
      /\ faults' \in 0..MaxFaults
      /\ \/ /\ pass' \in Dashboard!PassesOf /\ pass'.conn = Dashboard!Shown(dash)
            /\ pass'.seenAs = pass.seenAs
            /\ pass'.before = pass.before /\ pass'.ok = TRUE /\ pass'.at = "visit"
            /\ pass'.record = pass.record /\ enabled' = enabled /\ cleaning' = cleaning
            /\ record' = record
         \/ /\ cleaning /\ pass' \in Dashboard!PassesOf /\ pass'.conn = pass.conn
            /\ pass'.seenAs = pass.seenAs /\ pass'.before = pass.before /\ pass'.ok = FALSE
            /\ pass'.at = "visit" /\ pass'.record = pass.record /\ enabled' = enabled
            /\ cleaning' = cleaning /\ record' = record
         \/ /\ ~cleaning /\ pass' = Dashboard!NoPass /\ record' = pass.record
            /\ cleaning' = StillCleaning(pass.record, retired) /\ enabled' = enabled
  <2> USE DEF Dashboard!readDashboard, Dashboard!TypeOK, Dashboard!saved, Dashboard!NoFault
  <2>1. CASE /\ pass' = [pass EXCEPT !.at = "visit", !.conn = Dashboard!Shown(dash), !.ok = TRUE]
             /\ Dashboard!NoFault /\ UNCHANGED (Dashboard!saved)
    <3>1. /\ pass' \in Dashboard!PassesOf /\ pass'.conn = Dashboard!Shown(dash)
          /\ pass'.seenAs = pass.seenAs
          /\ pass'.before = pass.before /\ pass'.ok = TRUE /\ pass'.at = "visit"
          /\ pass'.record = pass.record
      BY <2>1, ConnectionTyped DEF Dashboard!PassesOf
    <3>2. QED
      BY <2>1, <3>1
  <2>2. CASE /\ Dashboard!Fault /\ cleaning
             /\ pass' = [pass EXCEPT !.at = "visit", !.ok = FALSE]
             /\ UNCHANGED (Dashboard!saved)
    <3>1. /\ pass' \in Dashboard!PassesOf /\ pass'.conn = pass.conn
          /\ pass'.seenAs = pass.seenAs
          /\ pass'.before = pass.before /\ pass'.ok = FALSE /\ pass'.at = "visit"
          /\ pass'.record = pass.record
      BY <2>2, ConnectionTyped DEF Dashboard!PassesOf
    <3>2. QED
      BY <2>2, <3>1 DEF Dashboard!Fault, Dashboard!ConstantsOK
  <2>3. CASE Dashboard!Fault /\ ~cleaning /\ Dashboard!End(pass.record)
    BY <2>3 DEF Dashboard!End, Dashboard!EndWith, Dashboard!Fault, Dashboard!ConstantsOK
  <2>4. QED
    BY <2>1, <2>2, <2>3
<1>1. Dashboard!TypeOK'
  BY <1>0, BlankRecords, ConnectionTyped DEF Dashboard!ConstantsOK, Dashboard!TypeOK
<1>2. SettingIsKnown'
  BY <1>0, BlankRecords, ConnectionTyped DEF SettingIsKnown, Dashboard!needsAuthRecovery,
     Dashboard!Enrolling, Dashboard!Withdrawing, Dashboard!Shown
<1>3. SeenIsOurs'
  BY <1>0, BlankRecords, ConnectionTyped DEF SeenIsOurs, Dashboard!Ours, Dashboard!Enrolling,
     Dashboard!Withdrawing, Dashboard!Shown
<1>4. WhichWay'
  BY <1>0, BlankRecords, ConnectionTyped DEF WhichWay, Dashboard!Enrolling,
     Dashboard!Withdrawing, Dashboard!Shown
<1>5. ClaimIsSaved'
  BY <1>0, BlankRecords, ConnectionTyped DEF ClaimIsSaved, Dashboard!Enrolling,
     Dashboard!Withdrawing, Dashboard!Shown, Dashboard!enrolledBy, Dashboard!paired
<1>6. OnlyOurs'
  BY <1>0, BlankRecords, ConnectionTyped DEF OnlyOurs, Dashboard!Enrolling,
     Dashboard!Withdrawing, Dashboard!Shown, OwnedIsTheRecord, OwnsTheRecord
<1>7. RetiredIsTheRecord'
  BY <1>0, BlankRecords, ConnectionTyped DEF RetiredIsTheRecord, OnlyOurs, OwnedIsTheRecord,
     ClaimIsSaved, RecordIsKnown, WhichWay, OwnsTheRecord, KnownBy, Dashboard!Enrolling,
     Dashboard!Withdrawing, Dashboard!Shown
<1>8. OwnedIsTheRecord'
  BY <1>0, BlankRecords, ConnectionTyped DEF OwnedIsTheRecord, OwnsTheRecord,
     ReadIsTheRecord, OnlyOurs, RecordIsKnown, Dashboard!Enrolling, Dashboard!Withdrawing,
     Dashboard!Shown, Dashboard!enrolledBy, Dashboard!paired
<1>9. ReadIsTheRecord'
  BY <1>0, BlankRecords, ConnectionTyped DEF ReadIsTheRecord, StaysPaired, OnlyOurs,
     WhichWay, OwnedIsTheRecord, OwnsTheRecord, Dashboard!Enrolling, Dashboard!Withdrawing,
     Dashboard!Shown, Dashboard!enrolledBy, Dashboard!paired
<1>10. StaysPaired'
  BY <1>0, BlankRecords, ConnectionTyped DEF StaysPaired, RecordIsKnown, ReadIsTheRecord,
     ClaimIsSaved, RetiredIsTheRecord, KnownBy, OnlyOurs, WhichWay, OwnedIsTheRecord,
     OwnsTheRecord, Dashboard!Enrolling, Dashboard!Withdrawing, Dashboard!Shown,
     ClaimIsSaved, Dashboard!enrolledBy, Dashboard!paired
<1>11. RecordIsKnown'
  BY <1>0, BlankRecords, ConnectionTyped DEF RecordIsKnown, KnownBy, StaysPaired,
     ReadIsTheRecord, ClaimIsSaved, RetiredIsTheRecord, OnlyOurs, WhichWay, OwnedIsTheRecord,
     OwnsTheRecord, Dashboard!Enrolling, Dashboard!Withdrawing, Dashboard!Shown,
     Dashboard!enrolledBy, Dashboard!paired
<1>12. QED
  BY <1>1, <1>2, <1>3, <1>4, <1>5, <1>6, <1>7, <1>8, <1>9, <1>10, <1>11

LEMMA DashboardVisitKeeps ==
  ASSUME Dashboard!ConstantsOK, ConnectionInv, Dashboard!visit
  PROVE  ConnectionInv'
<1> USE DEF ConnectionInv, Dashboard!Idle, Quiet, OwnsConnection, AdoptedAs, SameClaim,
    SameReads, StillCleaning, EnrolledHere
<1>0. /\ pass.at = "visit" /\ dash' = dash /\ wpEdits' = wpEdits /\ retired' = retired
      /\ mainwpKeys' \in 0..MainwpMaxKeys /\ passes' \in 0..MaxPasses
      /\ faults' \in 0..MaxFaults
      /\ \/ /\ child' \in Dashboard!Children
            /\ (child'.auth = child.auth \/ child'.auth = pass.record.snapshot.auth)
            /\ child'.key = child.key /\ child'.sec = child.sec
            /\ (child'.plugin = child.plugin \/ child.key = 0) /\ enabled' = enabled
            /\ cleaning' = cleaning /\ record' = record /\ pass' \in Dashboard!PassesOf
            /\ pass'.conn = pass.conn /\ pass'.seenAs = child' /\ pass'.before = pass.before
            /\ pass'.ok = pass.ok /\ (pass'.at = IF cleaning THEN "clean" ELSE "check")
            /\ pass'.record = pass.record
         \/ /\ pass' = Dashboard!NoPass /\ record' = pass.record
            /\ cleaning' = StillCleaning(pass.record, retired) /\ enabled' = enabled
            /\ child' = child
  <2> USE DEF Dashboard!visit, Dashboard!TypeOK, Dashboard!saved, Dashboard!NoFault
  <2>1. CASE ~(Dashboard!Fault /\ Dashboard!End(pass.record) /\ UNCHANGED child)
    <3>1. /\ child' = IF Dashboard!Restoring
                 THEN Dashboard!AuthRestored(child, pass.record.snapshot) ELSE child
          /\ pass' = [pass EXCEPT !.at = IF cleaning THEN "clean"
                 ELSE "check", !.seenAs = child']
      BY <2>1
    <3>2. /\ child' \in Dashboard!Children
          /\ (child'.auth = child.auth \/ child'.auth = pass.record.snapshot.auth)
          /\ child'.key = child.key /\ child'.sec = child.sec
          /\ (child'.plugin = child.plugin \/ child.key = 0)
      BY <3>1, RestoredAuth, ConnectionTyped
    <3>3. /\ pass' \in Dashboard!PassesOf /\ pass'.conn = pass.conn /\ pass'.seenAs = child'
          /\ pass'.before = pass.before /\ pass'.ok = pass.ok
          /\ (pass'.at = IF cleaning THEN "clean" ELSE "check")
          /\ pass'.record = pass.record
      BY <3>1, <3>2, ConnectionTyped DEF Dashboard!PassesOf, Dashboard!Withdrawing
    <3>4. QED
      BY <2>1, <3>2, <3>3
  <2>2. CASE Dashboard!Fault /\ Dashboard!End(pass.record) /\ UNCHANGED child
    BY <2>2 DEF Dashboard!End, Dashboard!EndWith, Dashboard!Fault, Dashboard!ConstantsOK
  <2>3. QED
    BY <2>1, <2>2
<1>1. Dashboard!TypeOK'
  BY <1>0, BlankRecords, ConnectionTyped DEF Dashboard!ConstantsOK, Dashboard!TypeOK
<1>2. SettingIsKnown'
  BY <1>0, BlankRecords, ConnectionTyped DEF SettingIsKnown, Dashboard!needsAuthRecovery,
     Dashboard!Enrolling, Dashboard!Withdrawing, Dashboard!Shown
<1>3. SeenIsOurs'
  BY <1>0, BlankRecords, ConnectionTyped DEF SeenIsOurs, Dashboard!Ours, Dashboard!Enrolling,
     Dashboard!Withdrawing, Dashboard!Shown
<1>4. WhichWay'
  BY <1>0, BlankRecords, ConnectionTyped DEF WhichWay, Dashboard!Enrolling,
     Dashboard!Withdrawing, Dashboard!Shown
<1>5. ClaimIsSaved'
  BY <1>0, BlankRecords, ConnectionTyped DEF ClaimIsSaved, Dashboard!Enrolling,
     Dashboard!Withdrawing, Dashboard!Shown, Dashboard!enrolledBy, Dashboard!paired
<1>6. OnlyOurs'
  BY <1>0, BlankRecords, ConnectionTyped DEF OnlyOurs, Dashboard!Enrolling,
     Dashboard!Withdrawing, Dashboard!Shown, OwnedIsTheRecord, OwnsTheRecord
<1>7. RetiredIsTheRecord'
  BY <1>0, BlankRecords, ConnectionTyped DEF RetiredIsTheRecord, OnlyOurs, OwnedIsTheRecord,
     ClaimIsSaved, RecordIsKnown, WhichWay, OwnsTheRecord, KnownBy, Dashboard!Enrolling,
     Dashboard!Withdrawing, Dashboard!Shown
<1>8. OwnedIsTheRecord'
  BY <1>0, BlankRecords, ConnectionTyped DEF OwnedIsTheRecord, OwnsTheRecord,
     ReadIsTheRecord, OnlyOurs, RecordIsKnown, Dashboard!Enrolling, Dashboard!Withdrawing,
     Dashboard!Shown, Dashboard!enrolledBy, Dashboard!paired
<1>9. ReadIsTheRecord'
  BY <1>0, BlankRecords, ConnectionTyped DEF ReadIsTheRecord, StaysPaired, OnlyOurs,
     WhichWay, OwnedIsTheRecord, OwnsTheRecord, Dashboard!Enrolling, Dashboard!Withdrawing,
     Dashboard!Shown, Dashboard!enrolledBy, Dashboard!paired
<1>10. StaysPaired'
  BY <1>0, BlankRecords, ConnectionTyped DEF StaysPaired, RecordIsKnown, ReadIsTheRecord,
     ClaimIsSaved, RetiredIsTheRecord, KnownBy, OnlyOurs, WhichWay, OwnedIsTheRecord,
     OwnsTheRecord, Dashboard!Enrolling, Dashboard!Withdrawing, Dashboard!Shown,
     ClaimIsSaved, Dashboard!enrolledBy, Dashboard!paired
<1>11. RecordIsKnown'
  BY <1>0, BlankRecords, ConnectionTyped DEF RecordIsKnown, KnownBy, StaysPaired,
     ReadIsTheRecord, ClaimIsSaved, RetiredIsTheRecord, OnlyOurs, WhichWay, OwnedIsTheRecord,
     OwnsTheRecord, Dashboard!Enrolling, Dashboard!Withdrawing, Dashboard!Shown,
     Dashboard!enrolledBy, Dashboard!paired
<1>12. QED
  BY <1>1, <1>2, <1>3, <1>4, <1>5, <1>6, <1>7, <1>8, <1>9, <1>10, <1>11

LEMMA DashboardCheckSiteKeeps ==
  ASSUME Dashboard!ConstantsOK, ConnectionInv, Dashboard!checkSite
  PROVE  ConnectionInv'
<1> USE DEF ConnectionInv, Dashboard!Idle, Quiet, OwnsConnection, AdoptedAs, SameClaim,
    SameReads, StillCleaning, EnrolledHere
<1>0. /\ pass.at = "check" /\ child' = child /\ dash' = dash /\ mainwpKeys' = mainwpKeys
      /\ passes' = passes /\ faults' = faults /\ wpEdits' = wpEdits /\ retired' = retired
      /\ enabled' = enabled
      /\ \/ /\ Dashboard!paired(pass.seenAs, pass.conn) /\ pass' = Dashboard!NoPass
            /\ record' \in Dashboard!Records /\ cleaning' \in BOOLEAN /\ (cleaning' => cleaning)
            /\ ((EnrolledHere /\ AdoptedAs(record', pass.record, pass.conn))
                   \/ (~EnrolledHere /\ SameClaim(record', pass.record)))
         \/ /\ ~Dashboard!paired(pass.seenAs, pass.conn) /\ pass' = Dashboard!NoPass
            /\ cleaning' \in BOOLEAN
            /\ (cleaning' => cleaning) /\ record' \in Dashboard!Records
            /\ SameClaim(record', pass.record) /\ record'.token = pass.record.token
         \/ /\ ~Dashboard!paired(pass.seenAs, pass.conn) /\ record' = record
            /\ cleaning' = cleaning
            /\ pass' \in Dashboard!PassesOf /\ SameReads(pass', pass) /\ pass'.at = "enroll"
            /\ pass'.record \in Dashboard!Records /\ SameClaim(pass'.record, pass.record)
            /\ pass'.record.token = pass.record.token
            /\ pass'.record.phase = pass.record.phase
  <2> USE DEF Dashboard!checkSite, Dashboard!TypeOK, Dashboard!saved, Dashboard!wpCounts
  <2> DEFINE r == IF EnrolledHere THEN Dashboard!adopt(pass.record, pass.conn) ELSE pass.record
             seen == [r EXCEPT !.seen = @ \/ Dashboard!Installed(pass.seenAs)]
  <2>1. EnrolledHere => Dashboard!paired(pass.seenAs, pass.conn)
    BY DEF EnrolledHere, Dashboard!enrolledBy
  <2>2. /\ r \in Dashboard!Records /\ (EnrolledHere => AdoptedAs(r, pass.record, pass.conn))
        /\ (~EnrolledHere => r = pass.record)
    BY AdoptAdopts, ConnectionTyped DEF AdoptedAs
  <2>3. r.seen \in BOOLEAN /\ Dashboard!Installed(pass.seenAs) \in BOOLEAN
    BY <2>2 DEF Dashboard!Records, Dashboard!Installed
  <2>4. ASSUME NEW q, Dashboard!End(q)
        PROVE  /\ pass' = Dashboard!NoPass /\ record' = q /\ cleaning' \in BOOLEAN
               /\ (cleaning' => cleaning)
               /\ enabled' = enabled /\ retired' = retired
    BY <2>4 DEF Dashboard!End, Dashboard!EndWith
  <2> HIDE DEF r
  <2>5. CASE Dashboard!paired(pass.seenAs, pass.conn)
    <3> DEFINE q == [r EXCEPT !.seen = TRUE, !.token = 0, !.phase = "none"]
    <3>1. Dashboard!End(q)
      BY <2>5 DEF EnrolledHere, r
    <3>2. /\ q \in Dashboard!Records /\ SameClaim(q, r)
      BY <2>2, BlankRecords DEF Dashboard!Records
    <3> HIDE DEF q
    <3>3. QED
      BY <2>2, <2>4, <2>5, <3>1, <3>2 DEF AdoptedAs, EnrolledHere
  <2>6. CASE ~Dashboard!paired(pass.seenAs, pass.conn) /\ ~pass.asked /\ ~enabled
    <3> DEFINE q == [seen EXCEPT !.phase = "none"]
    <3>1. Dashboard!End(q)
      BY <2>6 DEF EnrolledHere, r
    <3>2. /\ q \in Dashboard!Records /\ SameClaim(q, r) /\ q.token = r.token
      BY <2>2, <2>3 DEF Dashboard!Records
    <3> HIDE DEF q
    <3>3. QED
      BY <2>1, <2>2, <2>4, <2>6, <3>1, <3>2
  <2>7. CASE ~Dashboard!paired(pass.seenAs, pass.conn) /\ (pass.asked \/ enabled)
    <3>1. Dashboard!To("enroll", seen) /\ UNCHANGED (Dashboard!saved)
      BY <2>7 DEF EnrolledHere, r
    <3>2. /\ seen \in Dashboard!Records /\ SameClaim(seen, r) /\ seen.token = r.token
          /\ seen.phase = r.phase
      BY <2>2, <2>3 DEF Dashboard!Records
    <3> HIDE DEF seen
    <3>3. /\ pass' \in Dashboard!PassesOf /\ SameReads(pass', pass) /\ pass'.at = "enroll"
          /\ pass'.record = seen
      BY <3>1, <3>2, ConnectionTyped DEF Dashboard!PassesOf, Dashboard!To
    <3>4. QED
      BY <2>1, <2>2, <2>7, <3>1, <3>2, <3>3
  <2>8. QED
    BY <2>5, <2>6, <2>7
<1>1. Dashboard!TypeOK'
  BY <1>0, BlankRecords, ConnectionTyped DEF Dashboard!ConstantsOK, Dashboard!TypeOK
<1>2. SettingIsKnown'
  BY <1>0, BlankRecords, ConnectionTyped DEF SettingIsKnown, Dashboard!needsAuthRecovery,
     Dashboard!Enrolling, Dashboard!Withdrawing, Dashboard!Shown
<1>3. SeenIsOurs'
  BY <1>0, BlankRecords, ConnectionTyped DEF SeenIsOurs, Dashboard!Ours, Dashboard!Enrolling,
     Dashboard!Withdrawing, Dashboard!Shown
<1>4. WhichWay'
  BY <1>0, BlankRecords, ConnectionTyped DEF WhichWay, Dashboard!Enrolling,
     Dashboard!Withdrawing, Dashboard!Shown
<1>5. ClaimIsSaved'
  BY <1>0, BlankRecords, ConnectionTyped DEF ClaimIsSaved, Dashboard!Enrolling,
     Dashboard!Withdrawing, Dashboard!Shown, Dashboard!enrolledBy, Dashboard!paired
<1>6. OnlyOurs'
  BY <1>0, BlankRecords, ConnectionTyped DEF OnlyOurs, Dashboard!Enrolling,
     Dashboard!Withdrawing, Dashboard!Shown, OwnedIsTheRecord, OwnsTheRecord
<1>7. RetiredIsTheRecord'
  BY <1>0, BlankRecords, ConnectionTyped DEF RetiredIsTheRecord, OnlyOurs, OwnedIsTheRecord,
     ClaimIsSaved, RecordIsKnown, WhichWay, OwnsTheRecord, KnownBy, Dashboard!Enrolling,
     Dashboard!Withdrawing, Dashboard!Shown
<1>8. OwnedIsTheRecord'
  BY <1>0, BlankRecords, ConnectionTyped DEF OwnedIsTheRecord, OwnsTheRecord,
     ReadIsTheRecord, OnlyOurs, RecordIsKnown, Dashboard!Enrolling, Dashboard!Withdrawing,
     Dashboard!Shown, Dashboard!enrolledBy, Dashboard!paired
<1>9. ReadIsTheRecord'
  BY <1>0, BlankRecords, ConnectionTyped DEF ReadIsTheRecord, StaysPaired, OnlyOurs,
     WhichWay, OwnedIsTheRecord, OwnsTheRecord, Dashboard!Enrolling, Dashboard!Withdrawing,
     Dashboard!Shown, Dashboard!enrolledBy, Dashboard!paired
<1>10. StaysPaired'
  BY <1>0, BlankRecords, ConnectionTyped DEF StaysPaired, RecordIsKnown, ReadIsTheRecord,
     ClaimIsSaved, RetiredIsTheRecord, KnownBy, OnlyOurs, WhichWay, OwnedIsTheRecord,
     OwnsTheRecord, Dashboard!Enrolling, Dashboard!Withdrawing, Dashboard!Shown,
     ClaimIsSaved, Dashboard!enrolledBy, Dashboard!paired
<1>11. RecordIsKnown'
  BY <1>0, BlankRecords, ConnectionTyped DEF RecordIsKnown, KnownBy, StaysPaired,
     ReadIsTheRecord, ClaimIsSaved, RetiredIsTheRecord, OnlyOurs, WhichWay, OwnedIsTheRecord,
     OwnsTheRecord, Dashboard!Enrolling, Dashboard!Withdrawing, Dashboard!Shown,
     Dashboard!enrolledBy, Dashboard!paired
<1>12. QED
  BY <1>1, <1>2, <1>3, <1>4, <1>5, <1>6, <1>7, <1>8, <1>9, <1>10, <1>11

(* An enrolment, from its claim to the setting put back.                   *)
LEMMA DashboardUndoFirstKeeps ==
  ASSUME Dashboard!ConstantsOK, ConnectionInv, Dashboard!undoFirst
  PROVE  ConnectionInv'
<1> USE DEF ConnectionInv, Dashboard!Idle, Quiet, OwnsConnection, AdoptedAs, SameClaim,
    SameReads, StillCleaning, EnrolledHere
<1>0. /\ pass.at = "enroll" /\ dash' = dash /\ wpEdits' = wpEdits /\ retired' = retired
      /\ mainwpKeys' \in 0..MainwpMaxKeys /\ passes' \in 0..MaxPasses
      /\ faults' \in 0..MaxFaults
      /\ \/ /\ child' \in Dashboard!Children /\ child'.auth = pass.record.snapshot.auth
            /\ enabled' = enabled /\ cleaning' = cleaning /\ record' = record
            /\ pass' \in Dashboard!PassesOf /\ pass'.conn = pass.conn /\ pass'.seenAs = child'
            /\ pass'.before = pass.before /\ pass'.ok = pass.ok /\ pass'.at = pass.at
            /\ pass'.record = pass.record
         \/ /\ pass' = Dashboard!NoPass /\ record' = pass.record
            /\ cleaning' = StillCleaning(pass.record, retired) /\ enabled' = enabled
            /\ child' = child
  <2> USE DEF Dashboard!undoFirst, Dashboard!TypeOK, Dashboard!saved, Dashboard!NoFault
  <2>1. CASE ~((Dashboard!Fault \/ Dashboard!NoFault) /\ Dashboard!End(pass.record)
                 /\ UNCHANGED child)
    <3>1. /\ child' = Dashboard!CleanedUp(child, pass.record.snapshot, FALSE)
          /\ pass' = [pass EXCEPT !.seenAs = child']
      BY <2>1
    <3>2. child' \in Dashboard!Children /\ child'.auth = pass.record.snapshot.auth
      BY <3>1, CleansUp, ConnectionTyped
    <3>3. /\ pass' \in Dashboard!PassesOf /\ pass'.conn = pass.conn /\ pass'.seenAs = child'
          /\ pass'.before = pass.before /\ pass'.ok = pass.ok /\ pass'.at = pass.at
          /\ pass'.record = pass.record
      BY <3>1, <3>2, ConnectionTyped DEF Dashboard!PassesOf
    <3>4. QED
      BY <2>1, <3>2, <3>3
  <2>2. CASE /\ (Dashboard!Fault \/ Dashboard!NoFault) /\ Dashboard!End(pass.record)
             /\ UNCHANGED child
    BY <2>2 DEF Dashboard!End, Dashboard!EndWith, Dashboard!Fault, Dashboard!ConstantsOK
  <2>3. QED
    BY <2>1, <2>2
<1>1. Dashboard!TypeOK'
  BY <1>0, BlankRecords, ConnectionTyped DEF Dashboard!ConstantsOK, Dashboard!TypeOK
<1>2. SettingIsKnown'
  BY <1>0, BlankRecords, ConnectionTyped DEF SettingIsKnown, Dashboard!needsAuthRecovery,
     Dashboard!Enrolling, Dashboard!Withdrawing, Dashboard!Shown
<1>3. SeenIsOurs'
  BY <1>0, BlankRecords, ConnectionTyped DEF SeenIsOurs, Dashboard!Ours, Dashboard!Enrolling,
     Dashboard!Withdrawing, Dashboard!Shown
<1>4. WhichWay'
  BY <1>0, BlankRecords, ConnectionTyped DEF WhichWay, Dashboard!Enrolling,
     Dashboard!Withdrawing, Dashboard!Shown
<1>5. ClaimIsSaved'
  BY <1>0, BlankRecords, ConnectionTyped DEF ClaimIsSaved, Dashboard!Enrolling,
     Dashboard!Withdrawing, Dashboard!Shown, Dashboard!enrolledBy, Dashboard!paired
<1>6. OnlyOurs'
  BY <1>0, BlankRecords, ConnectionTyped DEF OnlyOurs, Dashboard!Enrolling,
     Dashboard!Withdrawing, Dashboard!Shown, OwnedIsTheRecord, OwnsTheRecord
<1>7. RetiredIsTheRecord'
  BY <1>0, BlankRecords, ConnectionTyped DEF RetiredIsTheRecord, OnlyOurs, OwnedIsTheRecord,
     ClaimIsSaved, RecordIsKnown, WhichWay, OwnsTheRecord, KnownBy, Dashboard!Enrolling,
     Dashboard!Withdrawing, Dashboard!Shown
<1>8. OwnedIsTheRecord'
  BY <1>0, BlankRecords, ConnectionTyped DEF OwnedIsTheRecord, OwnsTheRecord,
     ReadIsTheRecord, OnlyOurs, RecordIsKnown, Dashboard!Enrolling, Dashboard!Withdrawing,
     Dashboard!Shown, Dashboard!enrolledBy, Dashboard!paired
<1>9. ReadIsTheRecord'
  BY <1>0, BlankRecords, ConnectionTyped DEF ReadIsTheRecord, StaysPaired, OnlyOurs,
     WhichWay, OwnedIsTheRecord, OwnsTheRecord, Dashboard!Enrolling, Dashboard!Withdrawing,
     Dashboard!Shown, Dashboard!enrolledBy, Dashboard!paired
<1>10. StaysPaired'
  BY <1>0, BlankRecords, ConnectionTyped DEF StaysPaired, RecordIsKnown, ReadIsTheRecord,
     ClaimIsSaved, RetiredIsTheRecord, KnownBy, OnlyOurs, WhichWay, OwnedIsTheRecord,
     OwnsTheRecord, Dashboard!Enrolling, Dashboard!Withdrawing, Dashboard!Shown,
     ClaimIsSaved, Dashboard!enrolledBy, Dashboard!paired
<1>11. RecordIsKnown'
  BY <1>0, BlankRecords, ConnectionTyped DEF RecordIsKnown, KnownBy, StaysPaired,
     ReadIsTheRecord, ClaimIsSaved, RetiredIsTheRecord, OnlyOurs, WhichWay, OwnedIsTheRecord,
     OwnsTheRecord, Dashboard!Enrolling, Dashboard!Withdrawing, Dashboard!Shown,
     Dashboard!enrolledBy, Dashboard!paired
<1>12. QED
  BY <1>1, <1>2, <1>3, <1>4, <1>5, <1>6, <1>7, <1>8, <1>9, <1>10, <1>11

LEMMA DashboardWaitForHttpsKeeps ==
  ASSUME Dashboard!ConstantsOK, ConnectionInv, Dashboard!waitForHttps
  PROVE  ConnectionInv'
<1> USE DEF ConnectionInv, Dashboard!Idle, Quiet, OwnsConnection, AdoptedAs, SameClaim,
    SameReads, StillCleaning, EnrolledHere
<1>0. /\ pass.at = "enroll" /\ dash' = dash /\ wpEdits' = wpEdits /\ retired' = retired
      /\ child' = child /\ mainwpKeys' \in 0..MainwpMaxKeys /\ passes' \in 0..MaxPasses
      /\ faults' \in 0..MaxFaults /\ pass' = Dashboard!NoPass /\ record' = pass.record
      /\ cleaning' = StillCleaning(pass.record, retired) /\ enabled' = enabled
  BY DEF Dashboard!waitForHttps, Dashboard!End, Dashboard!EndWith, Dashboard!Fault,
     Dashboard!TypeOK, Dashboard!ConstantsOK
<1>1. Dashboard!TypeOK'
  BY <1>0, BlankRecords, ConnectionTyped DEF Dashboard!ConstantsOK, Dashboard!TypeOK
<1>2. SettingIsKnown'
  BY <1>0, BlankRecords, ConnectionTyped DEF SettingIsKnown, Dashboard!needsAuthRecovery,
     Dashboard!Enrolling, Dashboard!Withdrawing, Dashboard!Shown
<1>3. SeenIsOurs'
  BY <1>0, BlankRecords, ConnectionTyped DEF SeenIsOurs, Dashboard!Ours, Dashboard!Enrolling,
     Dashboard!Withdrawing, Dashboard!Shown
<1>4. WhichWay'
  BY <1>0, BlankRecords, ConnectionTyped DEF WhichWay, Dashboard!Enrolling,
     Dashboard!Withdrawing, Dashboard!Shown
<1>5. ClaimIsSaved'
  BY <1>0, BlankRecords, ConnectionTyped DEF ClaimIsSaved, Dashboard!Enrolling,
     Dashboard!Withdrawing, Dashboard!Shown, Dashboard!enrolledBy, Dashboard!paired
<1>6. OnlyOurs'
  BY <1>0, BlankRecords, ConnectionTyped DEF OnlyOurs, Dashboard!Enrolling,
     Dashboard!Withdrawing, Dashboard!Shown, OwnedIsTheRecord, OwnsTheRecord
<1>7. RetiredIsTheRecord'
  BY <1>0, BlankRecords, ConnectionTyped DEF RetiredIsTheRecord, OnlyOurs, OwnedIsTheRecord,
     ClaimIsSaved, RecordIsKnown, WhichWay, OwnsTheRecord, KnownBy, Dashboard!Enrolling,
     Dashboard!Withdrawing, Dashboard!Shown
<1>8. OwnedIsTheRecord'
  BY <1>0, BlankRecords, ConnectionTyped DEF OwnedIsTheRecord, OwnsTheRecord,
     ReadIsTheRecord, OnlyOurs, RecordIsKnown, Dashboard!Enrolling, Dashboard!Withdrawing,
     Dashboard!Shown, Dashboard!enrolledBy, Dashboard!paired
<1>9. ReadIsTheRecord'
  BY <1>0, BlankRecords, ConnectionTyped DEF ReadIsTheRecord, StaysPaired, OnlyOurs,
     WhichWay, OwnedIsTheRecord, OwnsTheRecord, Dashboard!Enrolling, Dashboard!Withdrawing,
     Dashboard!Shown, Dashboard!enrolledBy, Dashboard!paired
<1>10. StaysPaired'
  BY <1>0, BlankRecords, ConnectionTyped DEF StaysPaired, RecordIsKnown, ReadIsTheRecord,
     ClaimIsSaved, RetiredIsTheRecord, KnownBy, OnlyOurs, WhichWay, OwnedIsTheRecord,
     OwnsTheRecord, Dashboard!Enrolling, Dashboard!Withdrawing, Dashboard!Shown,
     ClaimIsSaved, Dashboard!enrolledBy, Dashboard!paired
<1>11. RecordIsKnown'
  BY <1>0, BlankRecords, ConnectionTyped DEF RecordIsKnown, KnownBy, StaysPaired,
     ReadIsTheRecord, ClaimIsSaved, RetiredIsTheRecord, OnlyOurs, WhichWay, OwnedIsTheRecord,
     OwnsTheRecord, Dashboard!Enrolling, Dashboard!Withdrawing, Dashboard!Shown,
     Dashboard!enrolledBy, Dashboard!paired
<1>12. QED
  BY <1>1, <1>2, <1>3, <1>4, <1>5, <1>6, <1>7, <1>8, <1>9, <1>10, <1>11

LEMMA DashboardEnrollKeeps ==
  ASSUME Dashboard!ConstantsOK, ConnectionInv, Dashboard!enroll
  PROVE  ConnectionInv'
<1> USE DEF ConnectionInv, Dashboard!Idle, Quiet, OwnsConnection, AdoptedAs, SameClaim,
    SameReads, StillCleaning, EnrolledHere
<1>0. /\ pass.at = "enroll" /\ child' = child /\ dash' = dash /\ enabled' = enabled
      /\ cleaning' = cleaning /\ retired' = retired /\ wpEdits' = wpEdits
      /\ mainwpKeys' = mainwpKeys
      /\ passes' = passes /\ faults' = faults /\ pass' \in Dashboard!PassesOf
      /\ pass'.conn = pass.conn /\ pass'.seenAs = pass.seenAs /\ pass'.before = pass.record
      /\ pass'.ok = pass.ok /\ pass'.at = "install" /\ pass'.record = record'
      /\ record' \in Dashboard!Records /\ record'.ownedConnection = pass.record.ownedConnection
      /\ record'.connection = pass.record.connection /\ record'.reconnect = pass.conn.id
      /\ record'.token # 0 /\ record'.snapshot # Dashboard!NoSnapshot
      /\ (record'.snapshot = pass.record.snapshot \/ record'.snapshot.auth = child.auth)
      /\ Dashboard!needsAuthRecovery(record')
  <2> DEFINE r == Dashboard!takeSnapshot(pass.record)
  <2> USE DEF Dashboard!TypeOK
  <2>1. /\ r \in Dashboard!Records /\ r.ownedConnection = pass.record.ownedConnection
        /\ r.connection = pass.record.connection /\ r.reconnect = pass.record.reconnect
        /\ r.token = pass.record.token /\ r.phase = pass.record.phase
        /\ r.snapshot # Dashboard!NoSnapshot
        /\ (r.snapshot = pass.record.snapshot \/ r.snapshot.auth = child.auth)
    <3>1. CASE pass.record.snapshot # Dashboard!NoSnapshot
      BY <3>1, ConnectionTyped DEF Dashboard!takeSnapshot
    <3>2. CASE pass.record.snapshot = Dashboard!NoSnapshot
      <4> DEFINE s ==
          [whole |-> ~Dashboard!Installed(pass.seenAs), plugin |-> child.plugin,
          sec |-> child.sec, auth |-> child.auth,
                       key |-> IF pass.seenAs.key # 0 THEN 0 ELSE child.key]
      <4>1. Dashboard!Installed(pass.seenAs) \in BOOLEAN
        BY DEF Dashboard!Installed
      <4>2. /\ s \in Dashboard!Snapshots /\ s.auth = child.auth /\ s.plugin = child.plugin
            /\ child.plugin # "none"
        BY <4>1, ConnectionTyped DEF Dashboard!Snapshots, Dashboard!Children,
           Dashboard!ConstantsOK
      <4>3. s # Dashboard!NoSnapshot
        BY <4>2, BlankRecords
      <4>4. r = [pass.record EXCEPT !.snapshot = s,
                !.ownedPlugin = ~Dashboard!Installed(pass.seenAs)]
        BY <3>2 DEF Dashboard!takeSnapshot
      <4> HIDE DEF s
      <4>5. QED
        BY <4>1, <4>2, <4>3, <4>4, ConnectionTyped DEF Dashboard!Records
    <3>3. QED
      BY <3>1, <3>2
  <2>2. record' = [r EXCEPT !.token = IF @ = 0 THEN mainwpKeys + 1
            ELSE @, !.seen = TRUE, !.reconnect = pass.conn.id,
                            !.phase = IF Dashboard!Installed(pass.seenAs) THEN "connect"
                                ELSE "install"]
    BY DEF Dashboard!enroll
  <2>3. /\ pass.conn.id \in 0..MainwpMaxKeys /\ mainwpKeys + 1 \in 0..MainwpMaxKeys
        /\ mainwpKeys + 1 # 0
    BY ConnectionTyped DEF Dashboard!Connections, Dashboard!ConstantsOK, Dashboard!enroll
  <2> HIDE DEF r
  <2>4. /\ record' \in Dashboard!Records
        /\ record'.ownedConnection = pass.record.ownedConnection
        /\ record'.connection = pass.record.connection /\ record'.reconnect = pass.conn.id
        /\ record'.token # 0 /\ record'.snapshot = r.snapshot
        /\ Dashboard!needsAuthRecovery(record')
    BY <2>1, <2>2, <2>3 DEF Dashboard!Records, Dashboard!needsAuthRecovery
  <2>5. /\ pass' \in Dashboard!PassesOf /\ pass'.conn = pass.conn /\ pass'.seenAs = pass.seenAs
        /\ pass'.before = pass.record /\ pass'.ok = pass.ok /\ pass'.at = "install"
        /\ pass'.record = record'
    BY <2>4, ConnectionTyped DEF Dashboard!PassesOf, Dashboard!Enrolling, Dashboard!enroll
  <2>6. QED
    BY <2>1, <2>4, <2>5 DEF Dashboard!enroll, Dashboard!wpCounts
<1>1. Dashboard!TypeOK'
  BY <1>0, BlankRecords, ConnectionTyped DEF Dashboard!ConstantsOK, Dashboard!TypeOK
<1>2. SettingIsKnown'
  BY <1>0, BlankRecords, ConnectionTyped DEF SettingIsKnown, Dashboard!needsAuthRecovery,
     Dashboard!Enrolling, Dashboard!Withdrawing, Dashboard!Shown
<1>3. SeenIsOurs'
  BY <1>0, BlankRecords, ConnectionTyped DEF SeenIsOurs, Dashboard!Ours, Dashboard!Enrolling,
     Dashboard!Withdrawing, Dashboard!Shown
<1>4. WhichWay'
  BY <1>0, BlankRecords, ConnectionTyped DEF WhichWay, Dashboard!Enrolling,
     Dashboard!Withdrawing, Dashboard!Shown
<1>5. ClaimIsSaved'
  BY <1>0, BlankRecords, ConnectionTyped DEF ClaimIsSaved, Dashboard!Enrolling,
     Dashboard!Withdrawing, Dashboard!Shown, Dashboard!enrolledBy, Dashboard!paired
<1>6. OnlyOurs'
  BY <1>0, BlankRecords, ConnectionTyped DEF OnlyOurs, Dashboard!Enrolling,
     Dashboard!Withdrawing, Dashboard!Shown, OwnedIsTheRecord, OwnsTheRecord
<1>7. RetiredIsTheRecord'
  BY <1>0, BlankRecords, ConnectionTyped DEF RetiredIsTheRecord, OnlyOurs, OwnedIsTheRecord,
     ClaimIsSaved, RecordIsKnown, WhichWay, OwnsTheRecord, KnownBy, Dashboard!Enrolling,
     Dashboard!Withdrawing, Dashboard!Shown
<1>8. OwnedIsTheRecord'
  BY <1>0, BlankRecords, ConnectionTyped DEF OwnedIsTheRecord, OwnsTheRecord,
     ReadIsTheRecord, OnlyOurs, RecordIsKnown, Dashboard!Enrolling, Dashboard!Withdrawing,
     Dashboard!Shown, Dashboard!enrolledBy, Dashboard!paired
<1>9. ReadIsTheRecord'
  BY <1>0, BlankRecords, ConnectionTyped DEF ReadIsTheRecord, StaysPaired, OnlyOurs,
     WhichWay, OwnedIsTheRecord, OwnsTheRecord, Dashboard!Enrolling, Dashboard!Withdrawing,
     Dashboard!Shown, Dashboard!enrolledBy, Dashboard!paired
<1>10. StaysPaired'
  BY <1>0, BlankRecords, ConnectionTyped DEF StaysPaired, RecordIsKnown, ReadIsTheRecord,
     ClaimIsSaved, RetiredIsTheRecord, KnownBy, OnlyOurs, WhichWay, OwnedIsTheRecord,
     OwnsTheRecord, Dashboard!Enrolling, Dashboard!Withdrawing, Dashboard!Shown,
     ClaimIsSaved, Dashboard!enrolledBy, Dashboard!paired
<1>11. RecordIsKnown'
  BY <1>0, BlankRecords, ConnectionTyped DEF RecordIsKnown, KnownBy, StaysPaired,
     ReadIsTheRecord, ClaimIsSaved, RetiredIsTheRecord, OnlyOurs, WhichWay, OwnedIsTheRecord,
     OwnsTheRecord, Dashboard!Enrolling, Dashboard!Withdrawing, Dashboard!Shown,
     Dashboard!enrolledBy, Dashboard!paired
<1>12. QED
  BY <1>1, <1>2, <1>3, <1>4, <1>5, <1>6, <1>7, <1>8, <1>9, <1>10, <1>11

LEMMA DashboardDownloadChildKeeps ==
  ASSUME Dashboard!ConstantsOK, ConnectionInv, Dashboard!downloadChild
  PROVE  ConnectionInv'
<1> USE DEF ConnectionInv, Dashboard!Idle, Quiet, OwnsConnection, AdoptedAs, SameClaim,
    SameReads, StillCleaning, EnrolledHere
<1>0. /\ pass.at = "install" /\ dash' = dash /\ wpEdits' = wpEdits /\ enabled' = enabled
      /\ cleaning' = cleaning /\ retired' = retired /\ mainwpKeys' \in 0..MainwpMaxKeys
      /\ passes' \in 0..MaxPasses /\ faults' \in 0..MaxFaults
      /\ \/ /\ child' \in Dashboard!Children /\ child'.auth = child.auth
            /\ child'.key = child.key
            /\ child'.sec = child.sec /\ pass' \in Dashboard!PassesOf /\ SameReads(pass', pass)
            /\ pass'.at = "prepare" /\ pass'.record = record'
            /\ record' \in Dashboard!Records /\ SameClaim(record', pass.record)
            /\ record'.token = pass.record.token /\ record'.phase = "connect"
         \/ /\ child' = child /\ record' = record /\ pass' \in Dashboard!PassesOf
            /\ pass'.conn = pass.conn /\ pass'.seenAs = pass.seenAs
            /\ pass'.before = pass.before /\ pass'.ok = FALSE /\ pass'.at = "restore"
            /\ pass'.record = pass.record
  <2> USE DEF Dashboard!downloadChild, Dashboard!TypeOK, Dashboard!NoFault
  <2>1. CASE /\ record' = [pass.record EXCEPT !.phase = "connect"]
             /\ Dashboard!To("prepare", record') /\ Dashboard!NoFault
             /\ child' = IF ~Dashboard!Installed(pass.seenAs) /\ ~Dashboard!Installed(child)
                    THEN [child EXCEPT !.plugin = "inactive"] ELSE child
    <3>1. /\ record' \in Dashboard!Records /\ SameClaim(record', pass.record)
          /\ record'.token = pass.record.token /\ record'.phase = "connect"
      BY <2>1, ConnectionTyped DEF Dashboard!Records
    <3>2. /\ pass' \in Dashboard!PassesOf /\ SameReads(pass', pass) /\ pass'.at = "prepare"
          /\ pass'.record = record'
      BY <2>1, <3>1, ConnectionTyped DEF Dashboard!PassesOf, Dashboard!Enrolling, Dashboard!To
    <3>3. /\ child' \in Dashboard!Children /\ child'.auth = child.auth
          /\ child'.key = child.key /\ child'.sec = child.sec
      BY <2>1, ConnectionTyped DEF Dashboard!Children
    <3>4. QED
      BY <2>1, <3>1, <3>2, <3>3
  <2>2. CASE /\ Dashboard!Fault /\ pass' = [pass EXCEPT !.at = "restore", !.ok = FALSE]
             /\ UNCHANGED <<child, record>>
    <3>1. /\ pass' \in Dashboard!PassesOf /\ pass'.conn = pass.conn
          /\ pass'.seenAs = pass.seenAs
          /\ pass'.before = pass.before /\ pass'.ok = FALSE /\ pass'.at = "restore"
          /\ pass'.record = pass.record
      BY <2>2, ConnectionTyped DEF Dashboard!PassesOf, Dashboard!Enrolling
    <3>2. QED
      BY <2>2, <3>1 DEF Dashboard!Fault, Dashboard!ConstantsOK
  <2>3. QED
    BY <2>1, <2>2
<1>1. Dashboard!TypeOK'
  BY <1>0, BlankRecords, ConnectionTyped DEF Dashboard!ConstantsOK, Dashboard!TypeOK
<1>2. SettingIsKnown'
  BY <1>0, BlankRecords, ConnectionTyped DEF SettingIsKnown, Dashboard!needsAuthRecovery,
     Dashboard!Enrolling, Dashboard!Withdrawing, Dashboard!Shown
<1>3. SeenIsOurs'
  BY <1>0, BlankRecords, ConnectionTyped DEF SeenIsOurs, Dashboard!Ours, Dashboard!Enrolling,
     Dashboard!Withdrawing, Dashboard!Shown
<1>4. WhichWay'
  BY <1>0, BlankRecords, ConnectionTyped DEF WhichWay, Dashboard!Enrolling,
     Dashboard!Withdrawing, Dashboard!Shown
<1>5. ClaimIsSaved'
  BY <1>0, BlankRecords, ConnectionTyped DEF ClaimIsSaved, Dashboard!Enrolling,
     Dashboard!Withdrawing, Dashboard!Shown, Dashboard!enrolledBy, Dashboard!paired
<1>6. OnlyOurs'
  BY <1>0, BlankRecords, ConnectionTyped DEF OnlyOurs, Dashboard!Enrolling,
     Dashboard!Withdrawing, Dashboard!Shown, OwnedIsTheRecord, OwnsTheRecord
<1>7. RetiredIsTheRecord'
  BY <1>0, BlankRecords, ConnectionTyped DEF RetiredIsTheRecord, OnlyOurs, OwnedIsTheRecord,
     ClaimIsSaved, RecordIsKnown, WhichWay, OwnsTheRecord, KnownBy, Dashboard!Enrolling,
     Dashboard!Withdrawing, Dashboard!Shown
<1>8. OwnedIsTheRecord'
  BY <1>0, BlankRecords, ConnectionTyped DEF OwnedIsTheRecord, OwnsTheRecord,
     ReadIsTheRecord, OnlyOurs, RecordIsKnown, Dashboard!Enrolling, Dashboard!Withdrawing,
     Dashboard!Shown, Dashboard!enrolledBy, Dashboard!paired
<1>9. ReadIsTheRecord'
  BY <1>0, BlankRecords, ConnectionTyped DEF ReadIsTheRecord, StaysPaired, OnlyOurs,
     WhichWay, OwnedIsTheRecord, OwnsTheRecord, Dashboard!Enrolling, Dashboard!Withdrawing,
     Dashboard!Shown, Dashboard!enrolledBy, Dashboard!paired
<1>10. StaysPaired'
  BY <1>0, BlankRecords, ConnectionTyped DEF StaysPaired, RecordIsKnown, ReadIsTheRecord,
     ClaimIsSaved, RetiredIsTheRecord, KnownBy, OnlyOurs, WhichWay, OwnedIsTheRecord,
     OwnsTheRecord, Dashboard!Enrolling, Dashboard!Withdrawing, Dashboard!Shown,
     ClaimIsSaved, Dashboard!enrolledBy, Dashboard!paired
<1>11. RecordIsKnown'
  BY <1>0, BlankRecords, ConnectionTyped DEF RecordIsKnown, KnownBy, StaysPaired,
     ReadIsTheRecord, ClaimIsSaved, RetiredIsTheRecord, OnlyOurs, WhichWay, OwnedIsTheRecord,
     OwnsTheRecord, Dashboard!Enrolling, Dashboard!Withdrawing, Dashboard!Shown,
     Dashboard!enrolledBy, Dashboard!paired
<1>12. QED
  BY <1>1, <1>2, <1>3, <1>4, <1>5, <1>6, <1>7, <1>8, <1>9, <1>10, <1>11

LEMMA DashboardPrepareKeeps ==
  ASSUME Dashboard!ConstantsOK, ConnectionInv, Dashboard!prepare
  PROVE  ConnectionInv'
<1> USE DEF ConnectionInv, Dashboard!Idle, Quiet, OwnsConnection, AdoptedAs, SameClaim,
    SameReads, StillCleaning, EnrolledHere
<1>0. /\ pass.at = "prepare" /\ child' \in Dashboard!Children /\ dash' = dash
      /\ wpEdits' = wpEdits
      /\ enabled' = enabled /\ cleaning' = cleaning /\ retired' = retired
      /\ record' = record /\ mainwpKeys' \in 0..MainwpMaxKeys /\ passes' \in 0..MaxPasses
      /\ faults' \in 0..MaxFaults
      /\ \/ /\ pass' \in Dashboard!PassesOf /\ SameReads(pass', pass) /\ pass'.at = "register"
            /\ pass'.record = pass.record
         \/ /\ pass' \in Dashboard!PassesOf /\ pass'.conn = pass.conn
            /\ pass'.seenAs = pass.seenAs
            /\ pass'.before = pass.before /\ pass'.ok = FALSE /\ pass'.at = "restore"
            /\ pass'.record = pass.record
  <2> USE DEF Dashboard!prepare, Dashboard!TypeOK, Dashboard!NoFault, Dashboard!saved
  <2>1. CASE /\ pass' = [pass EXCEPT !.at = "register", !.released = child.key]
             /\ Dashboard!NoFault
             /\ child' = [plugin |-> "active", key |-> 0, sec |-> pass.record.token,
                    auth |-> FALSE]
    <3>1. child.key \in 0..MainwpMaxKeys /\ child' \in Dashboard!Children
      BY <2>1, ConnectionTyped DEF Dashboard!Children, Dashboard!ConstantsOK
    <3>2. /\ pass' \in Dashboard!PassesOf /\ SameReads(pass', pass) /\ pass'.at = "register"
          /\ pass'.record = pass.record
      BY <2>1, <3>1, ConnectionTyped DEF Dashboard!PassesOf, Dashboard!Enrolling
    <3>3. QED
      BY <2>1, <3>1, <3>2
  <2>2. CASE /\ pass' = [pass EXCEPT !.at = "restore", !.ok = FALSE]
             /\ (Dashboard!Fault \/ Dashboard!NoFault)
             /\ child' \in {child,
                    [child EXCEPT !.key = 0, !.sec = pass.record.token, !.auth = FALSE]}
    <3>1. child' \in Dashboard!Children
      <4>1. CASE child' = child
        BY <4>1, ConnectionTyped
      <4>2. CASE child' = [child EXCEPT !.key = 0, !.sec = pass.record.token, !.auth = FALSE]
        BY <4>2, ConnectionTyped, BlankRecords DEF Dashboard!Children
      <4>3. QED
        BY <2>2, <4>1, <4>2
    <3>2. /\ pass' \in Dashboard!PassesOf /\ pass'.conn = pass.conn
          /\ pass'.seenAs = pass.seenAs
          /\ pass'.before = pass.before /\ pass'.ok = FALSE /\ pass'.at = "restore"
          /\ pass'.record = pass.record
      BY <2>2, ConnectionTyped DEF Dashboard!PassesOf, Dashboard!Enrolling
    <3>3. QED
      BY <2>2, <3>1, <3>2 DEF Dashboard!Fault, Dashboard!ConstantsOK
  <2>3. QED
    BY <2>1, <2>2
<1>1. Dashboard!TypeOK'
  BY <1>0, BlankRecords, ConnectionTyped DEF Dashboard!ConstantsOK, Dashboard!TypeOK
<1>2. SettingIsKnown'
  BY <1>0, BlankRecords, ConnectionTyped DEF SettingIsKnown, Dashboard!needsAuthRecovery,
     Dashboard!Enrolling, Dashboard!Withdrawing, Dashboard!Shown
<1>3. SeenIsOurs'
  BY <1>0, BlankRecords, ConnectionTyped DEF SeenIsOurs, Dashboard!Ours, Dashboard!Enrolling,
     Dashboard!Withdrawing, Dashboard!Shown
<1>4. WhichWay'
  BY <1>0, BlankRecords, ConnectionTyped DEF WhichWay, Dashboard!Enrolling,
     Dashboard!Withdrawing, Dashboard!Shown
<1>5. ClaimIsSaved'
  BY <1>0, BlankRecords, ConnectionTyped DEF ClaimIsSaved, Dashboard!Enrolling,
     Dashboard!Withdrawing, Dashboard!Shown, Dashboard!enrolledBy, Dashboard!paired
<1>6. OnlyOurs'
  BY <1>0, BlankRecords, ConnectionTyped DEF OnlyOurs, Dashboard!Enrolling,
     Dashboard!Withdrawing, Dashboard!Shown, OwnedIsTheRecord, OwnsTheRecord
<1>7. RetiredIsTheRecord'
  BY <1>0, BlankRecords, ConnectionTyped DEF RetiredIsTheRecord, OnlyOurs, OwnedIsTheRecord,
     ClaimIsSaved, RecordIsKnown, WhichWay, OwnsTheRecord, KnownBy, Dashboard!Enrolling,
     Dashboard!Withdrawing, Dashboard!Shown
<1>8. OwnedIsTheRecord'
  BY <1>0, BlankRecords, ConnectionTyped DEF OwnedIsTheRecord, OwnsTheRecord,
     ReadIsTheRecord, OnlyOurs, RecordIsKnown, Dashboard!Enrolling, Dashboard!Withdrawing,
     Dashboard!Shown, Dashboard!enrolledBy, Dashboard!paired
<1>9. ReadIsTheRecord'
  BY <1>0, BlankRecords, ConnectionTyped DEF ReadIsTheRecord, StaysPaired, OnlyOurs,
     WhichWay, OwnedIsTheRecord, OwnsTheRecord, Dashboard!Enrolling, Dashboard!Withdrawing,
     Dashboard!Shown, Dashboard!enrolledBy, Dashboard!paired
<1>10. StaysPaired'
  BY <1>0, BlankRecords, ConnectionTyped DEF StaysPaired, RecordIsKnown, ReadIsTheRecord,
     ClaimIsSaved, RetiredIsTheRecord, KnownBy, OnlyOurs, WhichWay, OwnedIsTheRecord,
     OwnsTheRecord, Dashboard!Enrolling, Dashboard!Withdrawing, Dashboard!Shown,
     ClaimIsSaved, Dashboard!enrolledBy, Dashboard!paired
<1>11. RecordIsKnown'
  BY <1>0, BlankRecords, ConnectionTyped DEF RecordIsKnown, KnownBy, StaysPaired,
     ReadIsTheRecord, ClaimIsSaved, RetiredIsTheRecord, OnlyOurs, WhichWay, OwnedIsTheRecord,
     OwnsTheRecord, Dashboard!Enrolling, Dashboard!Withdrawing, Dashboard!Shown,
     Dashboard!enrolledBy, Dashboard!paired
<1>12. QED
  BY <1>1, <1>2, <1>3, <1>4, <1>5, <1>6, <1>7, <1>8, <1>9, <1>10, <1>11

LEMMA DashboardRegisterKeeps ==
  ASSUME Dashboard!ConstantsOK, ConnectionInv, Dashboard!register
  PROVE  ConnectionInv'
<1> USE DEF ConnectionInv, Dashboard!Idle, Quiet, OwnsConnection, AdoptedAs, SameClaim,
    SameReads, StillCleaning, EnrolledHere
<1>0. /\ pass.at = "register" /\ child' \in Dashboard!Children /\ child'.auth = child.auth
      /\ child'.sec = child.sec /\ enabled' = enabled /\ cleaning' = cleaning
      /\ retired' = retired /\ record' = record /\ wpEdits' = wpEdits
      /\ mainwpKeys' \in 0..MainwpMaxKeys /\ passes' \in 0..MaxPasses
      /\ faults' \in 0..MaxFaults
      /\ \/ /\ child.plugin = "active" /\ child'.plugin = "active"
            /\ child'.key = mainwpKeys + 1
            /\ mainwpKeys + 1 # 0 /\ child.sec = pass.record.token
            /\ (pass.record.reconnect = 0 => dash.id = 0)
            /\ (pass.record.reconnect = 0
                   => dash' = [id |-> mainwpKeys + 1, key |-> mainwpKeys + 1, by |-> "addon"])
            /\ dash' \in [id : 0..MainwpMaxKeys, key : 0..MainwpMaxKeys,
                   by : {"none", "operator", "addon"}]
            /\ pass' \in Dashboard!PassesOf /\ SameReads(pass', pass) /\ pass'.at = "confirm"
            /\ pass'.record = pass.record
         \/ /\ dash' = dash /\ pass' \in Dashboard!PassesOf /\ SameReads(pass', pass)
            /\ pass'.at = "giveBack" /\ pass'.record = pass.record
  <2> USE DEF Dashboard!register, Dashboard!TypeOK, Dashboard!NoFault, Dashboard!saved
  <2> DEFINE recon == pass.record.reconnect
             takes == /\ child.plugin = "active" /\ child.key = 0
                      /\ child.sec = pass.record.token
                      /\ IF recon # 0 THEN dash.id = recon ELSE dash.id = 0
             new == [id |-> IF recon # 0 THEN recon ELSE mainwpKeys + 1, key |-> mainwpKeys + 1,
                     by |-> IF recon # 0 THEN dash.by ELSE "addon"]
  <2>1. /\ Dashboard!Registered \in Dashboard!Children
        /\ Dashboard!Registered.auth = child.auth /\ Dashboard!Registered.sec = child.sec
        /\ Dashboard!Registered.key = mainwpKeys + 1
        /\ Dashboard!Registered.plugin = child.plugin /\ mainwpKeys + 1 \in 0..MainwpMaxKeys
        /\ mainwpKeys + 1 # 0
    BY ConnectionTyped DEF Dashboard!Children, Dashboard!ConstantsOK, Dashboard!Registered
  <2>2. /\ new \in [id : 0..MainwpMaxKeys, key : 0..MainwpMaxKeys,
               by : {"none", "operator", "addon"}]
        /\ (recon = 0 => new = [id |-> mainwpKeys + 1, key |-> mainwpKeys + 1, by |-> "addon"])
    BY <2>1, ConnectionTyped DEF Dashboard!Records
  <2>3. ASSUME NEW a \in {"confirm", "giveBack"}, Dashboard!To(a, pass.record)
        PROVE  /\ pass' \in Dashboard!PassesOf /\ SameReads(pass', pass) /\ pass'.at = a
               /\ pass'.record = pass.record
    BY <2>3, ConnectionTyped DEF Dashboard!PassesOf, Dashboard!Enrolling, Dashboard!To
  <2>4. CASE /\ takes /\ child' = Dashboard!Registered /\ mainwpKeys' = mainwpKeys + 1
             /\ dash' = new /\ Dashboard!To("confirm", pass.record) /\ Dashboard!NoFault
    BY <2>1, <2>2, <2>3, <2>4
  <2>5. CASE /\ takes /\ child' = Dashboard!Registered /\ mainwpKeys' = mainwpKeys + 1
             /\ Dashboard!To("giveBack", pass.record) /\ Dashboard!Fault /\ UNCHANGED dash
    BY <2>1, <2>3, <2>5 DEF Dashboard!Fault, Dashboard!ConstantsOK
  <2>6. CASE /\ (Dashboard!NoFault \/ Dashboard!Fault)
             /\ Dashboard!To("giveBack", pass.record) /\ UNCHANGED <<child, dash, mainwpKeys>>
    BY <2>3, <2>6 DEF Dashboard!Fault, Dashboard!ConstantsOK
  <2>7. QED
    BY <2>4, <2>5, <2>6
<1>1. Dashboard!TypeOK'
  BY <1>0, BlankRecords, ConnectionTyped DEF Dashboard!ConstantsOK, Dashboard!TypeOK
<1>2. SettingIsKnown'
  BY <1>0, BlankRecords, ConnectionTyped DEF SettingIsKnown, Dashboard!needsAuthRecovery,
     Dashboard!Enrolling, Dashboard!Withdrawing, Dashboard!Shown
<1>3. SeenIsOurs'
  BY <1>0, BlankRecords, ConnectionTyped DEF SeenIsOurs, Dashboard!Ours, Dashboard!Enrolling,
     Dashboard!Withdrawing, Dashboard!Shown
<1>4. WhichWay'
  BY <1>0, BlankRecords, ConnectionTyped DEF WhichWay, Dashboard!Enrolling,
     Dashboard!Withdrawing, Dashboard!Shown
<1>5. ClaimIsSaved'
  BY <1>0, BlankRecords, ConnectionTyped DEF ClaimIsSaved, Dashboard!Enrolling,
     Dashboard!Withdrawing, Dashboard!Shown, Dashboard!enrolledBy, Dashboard!paired
<1>6. OnlyOurs'
  BY <1>0, BlankRecords, ConnectionTyped DEF OnlyOurs, Dashboard!Enrolling,
     Dashboard!Withdrawing, Dashboard!Shown, OwnedIsTheRecord, OwnsTheRecord
<1>7. RetiredIsTheRecord'
  BY <1>0, BlankRecords, ConnectionTyped DEF RetiredIsTheRecord, OnlyOurs, OwnedIsTheRecord,
     ClaimIsSaved, RecordIsKnown, WhichWay, OwnsTheRecord, KnownBy, Dashboard!Enrolling,
     Dashboard!Withdrawing, Dashboard!Shown
<1>8. OwnedIsTheRecord'
  BY <1>0, BlankRecords, ConnectionTyped DEF OwnedIsTheRecord, OwnsTheRecord,
     ReadIsTheRecord, OnlyOurs, RecordIsKnown, Dashboard!Enrolling, Dashboard!Withdrawing,
     Dashboard!Shown, Dashboard!enrolledBy, Dashboard!paired
<1>9. ReadIsTheRecord'
  BY <1>0, BlankRecords, ConnectionTyped DEF ReadIsTheRecord, StaysPaired, OnlyOurs,
     WhichWay, OwnedIsTheRecord, OwnsTheRecord, Dashboard!Enrolling, Dashboard!Withdrawing,
     Dashboard!Shown, Dashboard!enrolledBy, Dashboard!paired
<1>10. StaysPaired'
  BY <1>0, BlankRecords, ConnectionTyped DEF StaysPaired, RecordIsKnown, ReadIsTheRecord,
     ClaimIsSaved, RetiredIsTheRecord, KnownBy, OnlyOurs, WhichWay, OwnedIsTheRecord,
     OwnsTheRecord, Dashboard!Enrolling, Dashboard!Withdrawing, Dashboard!Shown,
     ClaimIsSaved, Dashboard!enrolledBy, Dashboard!paired
<1>11. RecordIsKnown'
  BY <1>0, BlankRecords, ConnectionTyped DEF RecordIsKnown, KnownBy, StaysPaired,
     ReadIsTheRecord, ClaimIsSaved, RetiredIsTheRecord, OnlyOurs, WhichWay, OwnedIsTheRecord,
     OwnsTheRecord, Dashboard!Enrolling, Dashboard!Withdrawing, Dashboard!Shown,
     Dashboard!enrolledBy, Dashboard!paired
<1>12. QED
  BY <1>1, <1>2, <1>3, <1>4, <1>5, <1>6, <1>7, <1>8, <1>9, <1>10, <1>11

LEMMA DashboardConfirmKeeps ==
  ASSUME Dashboard!ConstantsOK, ConnectionInv, Dashboard!confirm
  PROVE  ConnectionInv'
<1> USE DEF ConnectionInv, Dashboard!Idle, Quiet, OwnsConnection, AdoptedAs, SameClaim,
    SameReads, StillCleaning, EnrolledHere
<1>0. /\ pass.at = "confirm" /\ dash' = dash /\ wpEdits' = wpEdits /\ child' = child
      /\ enabled' = enabled /\ cleaning' = cleaning /\ retired' = retired
      /\ record' = record /\ mainwpKeys' \in 0..MainwpMaxKeys /\ passes' \in 0..MaxPasses
      /\ faults' \in 0..MaxFaults
      /\ \/ /\ Dashboard!enrolledBy(pass.record, child, Dashboard!Shown(dash))
            /\ pass' \in Dashboard!PassesOf
            /\ pass'.conn = Dashboard!Shown(dash) /\ pass'.seenAs = pass.seenAs
            /\ pass'.before = pass.before /\ pass'.ok = TRUE /\ pass'.at = "restore"
            /\ pass'.record \in Dashboard!Records
            /\ pass'.record.snapshot = pass.record.snapshot
            /\ pass'.record.reconnect = pass.record.reconnect
            /\ pass'.record.token = pass.record.token
            /\ pass'.record.phase = pass.record.phase
            /\ ((pass.record.reconnect # dash.id
                   /\ OwnsConnection(pass'.record, Dashboard!Shown(dash)))
                   \/ (pass.record.reconnect = dash.id /\ pass'.record = pass.record))
         \/ /\ pass' \in Dashboard!PassesOf /\ pass'.conn = pass.conn
            /\ pass'.seenAs = pass.seenAs
            /\ pass'.before = pass.before /\ pass'.ok = FALSE /\ pass'.at = "giveBack"
            /\ pass'.record = pass.record
  <2> USE DEF Dashboard!confirm, Dashboard!TypeOK, Dashboard!NoFault, Dashboard!saved
  <2> DEFINE freshRecord == Dashboard!Shown(dash)
             r == IF pass.record.reconnect # freshRecord.id
                  THEN [pass.record EXCEPT !.ownedConnection = TRUE,
                      !.connection = freshRecord] ELSE pass.record
  <2>1. CASE /\ Dashboard!enrolledBy(pass.record, child, freshRecord) /\ Dashboard!NoFault
             /\ pass' = [pass EXCEPT !.at = "restore", !.conn = freshRecord, !.ok = TRUE,
                    !.released = 0,
                           !.record = IF @.reconnect # freshRecord.id
                                      THEN [@ EXCEPT !.ownedConnection = TRUE,
                                          !.connection = freshRecord] ELSE @]
    <3>1. pass' =
              [pass EXCEPT !.at = "restore", !.conn = freshRecord, !.ok = TRUE,
              !.released = 0, !.record = r]
      BY <2>1
    <3>2. freshRecord.id = dash.id
      BY DEF Dashboard!Shown
    <3>3. /\ r \in Dashboard!Records /\ r.snapshot = pass.record.snapshot
          /\ r.reconnect = pass.record.reconnect /\ r.token = pass.record.token
          /\ r.phase = pass.record.phase
          /\ \/ pass.record.reconnect # dash.id /\ OwnsConnection(r, freshRecord)
             \/ pass.record.reconnect = dash.id /\ r = pass.record
      BY <3>2, ConnectionTyped DEF Dashboard!Records
    <3> HIDE DEF r, freshRecord
    <3>4. /\ pass' \in Dashboard!PassesOf /\ pass'.conn = freshRecord
          /\ pass'.seenAs = pass.seenAs
          /\ pass'.before = pass.before /\ pass'.ok = TRUE /\ pass'.at = "restore"
          /\ pass'.record = r
      <4>1. freshRecord \in Dashboard!Connections
        BY ConnectionTyped DEF freshRecord
      <4>2. pass' \in Dashboard!PassesOf
        BY <3>1, <3>3, <4>1, BlankRecords, ConnectionTyped DEF Dashboard!PassesOf,
           Dashboard!Enrolling
      <4>3. QED
        BY <3>1, <4>2, ConnectionTyped DEF Dashboard!PassesOf
    <3>5. QED
      BY <2>1, <3>3, <3>4 DEF freshRecord
  <2>2. CASE /\ pass' = [pass EXCEPT !.at = "giveBack", !.ok = FALSE]
             /\ (Dashboard!NoFault \/ Dashboard!Fault)
    <3>1. /\ pass' \in Dashboard!PassesOf /\ pass'.conn = pass.conn
          /\ pass'.seenAs = pass.seenAs
          /\ pass'.before = pass.before /\ pass'.ok = FALSE /\ pass'.at = "giveBack"
          /\ pass'.record = pass.record
      BY <2>2, ConnectionTyped DEF Dashboard!PassesOf, Dashboard!Enrolling
    <3>2. QED
      BY <2>2, <3>1 DEF Dashboard!Fault, Dashboard!ConstantsOK
  <2>3. QED
    BY <2>1, <2>2
<1>1. Dashboard!TypeOK'
  BY <1>0, BlankRecords, ConnectionTyped DEF Dashboard!ConstantsOK, Dashboard!TypeOK
<1>2. SettingIsKnown'
  BY <1>0, BlankRecords, ConnectionTyped DEF SettingIsKnown, Dashboard!needsAuthRecovery,
     Dashboard!Enrolling, Dashboard!Withdrawing, Dashboard!Shown
<1>3. SeenIsOurs'
  BY <1>0, BlankRecords, ConnectionTyped DEF SeenIsOurs, Dashboard!Ours, Dashboard!Enrolling,
     Dashboard!Withdrawing, Dashboard!Shown
<1>4. WhichWay'
  BY <1>0, BlankRecords, ConnectionTyped DEF WhichWay, Dashboard!Enrolling,
     Dashboard!Withdrawing, Dashboard!Shown
<1>5. ClaimIsSaved'
  BY <1>0, BlankRecords, ConnectionTyped DEF ClaimIsSaved, Dashboard!Enrolling,
     Dashboard!Withdrawing, Dashboard!Shown, Dashboard!enrolledBy, Dashboard!paired
<1>6. OnlyOurs'
  BY <1>0, BlankRecords, ConnectionTyped DEF OnlyOurs, Dashboard!Enrolling,
     Dashboard!Withdrawing, Dashboard!Shown, OwnedIsTheRecord, OwnsTheRecord
<1>7. RetiredIsTheRecord'
  BY <1>0, BlankRecords, ConnectionTyped DEF RetiredIsTheRecord, OnlyOurs, OwnedIsTheRecord,
     ClaimIsSaved, RecordIsKnown, WhichWay, OwnsTheRecord, KnownBy, Dashboard!Enrolling,
     Dashboard!Withdrawing, Dashboard!Shown
<1>8. OwnedIsTheRecord'
  BY <1>0, BlankRecords, ConnectionTyped DEF OwnedIsTheRecord, OwnsTheRecord,
     ReadIsTheRecord, OnlyOurs, RecordIsKnown, Dashboard!Enrolling, Dashboard!Withdrawing,
     Dashboard!Shown, Dashboard!enrolledBy, Dashboard!paired
<1>9. ReadIsTheRecord'
  BY <1>0, BlankRecords, ConnectionTyped DEF ReadIsTheRecord, StaysPaired, OnlyOurs,
     WhichWay, OwnedIsTheRecord, OwnsTheRecord, Dashboard!Enrolling, Dashboard!Withdrawing,
     Dashboard!Shown, Dashboard!enrolledBy, Dashboard!paired
<1>10. StaysPaired'
  BY <1>0, BlankRecords, ConnectionTyped DEF StaysPaired, RecordIsKnown, ReadIsTheRecord,
     ClaimIsSaved, RetiredIsTheRecord, KnownBy, OnlyOurs, WhichWay, OwnedIsTheRecord,
     OwnsTheRecord, Dashboard!Enrolling, Dashboard!Withdrawing, Dashboard!Shown,
     ClaimIsSaved, Dashboard!enrolledBy, Dashboard!paired
<1>11. RecordIsKnown'
  BY <1>0, BlankRecords, ConnectionTyped DEF RecordIsKnown, KnownBy, StaysPaired,
     ReadIsTheRecord, ClaimIsSaved, RetiredIsTheRecord, OnlyOurs, WhichWay, OwnedIsTheRecord,
     OwnsTheRecord, Dashboard!Enrolling, Dashboard!Withdrawing, Dashboard!Shown,
     Dashboard!enrolledBy, Dashboard!paired
<1>12. QED
  BY <1>1, <1>2, <1>3, <1>4, <1>5, <1>6, <1>7, <1>8, <1>9, <1>10, <1>11

LEMMA DashboardGiveBackKeeps ==
  ASSUME Dashboard!ConstantsOK, ConnectionInv, Dashboard!giveBack
  PROVE  ConnectionInv'
<1> USE DEF ConnectionInv, Dashboard!Idle, Quiet, OwnsConnection, AdoptedAs, SameClaim,
    SameReads, StillCleaning, EnrolledHere
<1>0. /\ pass.at = "giveBack" /\ dash' = dash /\ wpEdits' = wpEdits /\ mainwpKeys' = mainwpKeys
      /\ passes' = passes /\ faults' = faults /\ enabled' = enabled /\ cleaning' = cleaning
      /\ retired' = retired /\ record' = record /\ child' \in Dashboard!Children
      /\ child'.auth = child.auth /\ child'.sec = child.sec /\ child'.plugin = child.plugin
      /\ (child'.key = child.key \/ child.key = 0) /\ pass' \in Dashboard!PassesOf
      /\ pass'.conn = pass.conn /\ pass'.seenAs = pass.seenAs /\ pass'.before = pass.before
      /\ pass'.ok = FALSE /\ pass'.at = "restore" /\ pass'.record = pass.record
  <2> USE DEF Dashboard!giveBack, Dashboard!TypeOK, Dashboard!saved, Dashboard!wpCounts
  <2>1. pass.released \in 0..MainwpMaxKeys
    BY DEF Dashboard!PassesOf
  <2>2. /\ child' \in Dashboard!Children /\ child'.auth = child.auth /\ child'.sec = child.sec
        /\ child'.plugin = child.plugin
        /\ (child'.key = child.key \/ child.key = 0)
    BY <2>1, ConnectionTyped DEF Dashboard!Children
  <2>3. /\ pass' \in Dashboard!PassesOf /\ pass'.conn = pass.conn /\ pass'.seenAs = pass.seenAs
        /\ pass'.before = pass.before /\ pass'.ok = FALSE /\ pass'.at = "restore"
        /\ pass'.record = pass.record
    BY ConnectionTyped DEF Dashboard!PassesOf, Dashboard!Enrolling
  <2>4. QED
    BY <2>2, <2>3
<1>1. Dashboard!TypeOK'
  BY <1>0, BlankRecords, ConnectionTyped DEF Dashboard!ConstantsOK, Dashboard!TypeOK
<1>2. SettingIsKnown'
  BY <1>0, BlankRecords, ConnectionTyped DEF SettingIsKnown, Dashboard!needsAuthRecovery,
     Dashboard!Enrolling, Dashboard!Withdrawing, Dashboard!Shown
<1>3. SeenIsOurs'
  BY <1>0, BlankRecords, ConnectionTyped DEF SeenIsOurs, Dashboard!Ours, Dashboard!Enrolling,
     Dashboard!Withdrawing, Dashboard!Shown
<1>4. WhichWay'
  BY <1>0, BlankRecords, ConnectionTyped DEF WhichWay, Dashboard!Enrolling,
     Dashboard!Withdrawing, Dashboard!Shown
<1>5. ClaimIsSaved'
  BY <1>0, BlankRecords, ConnectionTyped DEF ClaimIsSaved, Dashboard!Enrolling,
     Dashboard!Withdrawing, Dashboard!Shown, Dashboard!enrolledBy, Dashboard!paired
<1>6. OnlyOurs'
  BY <1>0, BlankRecords, ConnectionTyped DEF OnlyOurs, Dashboard!Enrolling,
     Dashboard!Withdrawing, Dashboard!Shown, OwnedIsTheRecord, OwnsTheRecord
<1>7. RetiredIsTheRecord'
  BY <1>0, BlankRecords, ConnectionTyped DEF RetiredIsTheRecord, OnlyOurs, OwnedIsTheRecord,
     ClaimIsSaved, RecordIsKnown, WhichWay, OwnsTheRecord, KnownBy, Dashboard!Enrolling,
     Dashboard!Withdrawing, Dashboard!Shown
<1>8. OwnedIsTheRecord'
  BY <1>0, BlankRecords, ConnectionTyped DEF OwnedIsTheRecord, OwnsTheRecord,
     ReadIsTheRecord, OnlyOurs, RecordIsKnown, Dashboard!Enrolling, Dashboard!Withdrawing,
     Dashboard!Shown, Dashboard!enrolledBy, Dashboard!paired
<1>9. ReadIsTheRecord'
  BY <1>0, BlankRecords, ConnectionTyped DEF ReadIsTheRecord, StaysPaired, OnlyOurs,
     WhichWay, OwnedIsTheRecord, OwnsTheRecord, Dashboard!Enrolling, Dashboard!Withdrawing,
     Dashboard!Shown, Dashboard!enrolledBy, Dashboard!paired
<1>10. StaysPaired'
  BY <1>0, BlankRecords, ConnectionTyped DEF StaysPaired, RecordIsKnown, ReadIsTheRecord,
     ClaimIsSaved, RetiredIsTheRecord, KnownBy, OnlyOurs, WhichWay, OwnedIsTheRecord,
     OwnsTheRecord, Dashboard!Enrolling, Dashboard!Withdrawing, Dashboard!Shown,
     ClaimIsSaved, Dashboard!enrolledBy, Dashboard!paired
<1>11. RecordIsKnown'
  BY <1>0, BlankRecords, ConnectionTyped DEF RecordIsKnown, KnownBy, StaysPaired,
     ReadIsTheRecord, ClaimIsSaved, RetiredIsTheRecord, OnlyOurs, WhichWay, OwnedIsTheRecord,
     OwnsTheRecord, Dashboard!Enrolling, Dashboard!Withdrawing, Dashboard!Shown,
     Dashboard!enrolledBy, Dashboard!paired
<1>12. QED
  BY <1>1, <1>2, <1>3, <1>4, <1>5, <1>6, <1>7, <1>8, <1>9, <1>10, <1>11

LEMMA DashboardRestoreAuthKeeps ==
  ASSUME Dashboard!ConstantsOK, ConnectionInv, Dashboard!restoreAuth
  PROVE  ConnectionInv'
<1> USE DEF ConnectionInv, Dashboard!Idle, Quiet, OwnsConnection, AdoptedAs, SameClaim,
    SameReads, StillCleaning, EnrolledHere
<1>0. /\ pass.at = "restore" /\ pass' = Dashboard!NoPass /\ record' \in Dashboard!Records
      /\ cleaning' \in BOOLEAN /\ (cleaning' => cleaning) /\ dash' = dash
      /\ wpEdits' = wpEdits /\ enabled' = enabled /\ retired' = retired
      /\ mainwpKeys' \in 0..MainwpMaxKeys /\ passes' \in 0..MaxPasses
      /\ faults' \in 0..MaxFaults
      /\ child' \in Dashboard!Children
      /\ (child'.auth # pass.record.snapshot.auth => child' = child)
      /\ (child'.auth # pass.record.snapshot.auth /\ record' # pass.record
             => record' = pass.before /\ child' = pass.seenAs)
      /\ child'.key = child.key /\ child'.sec = child.sec
      /\ (child'.plugin = child.plugin \/ child.key = 0)
      /\ \/ /\ pass.ok /\ AdoptedAs(record', pass.record, pass.conn)
         \/ /\ record' \in Dashboard!Records /\ SameClaim(record', pass.record)
            /\ record'.token = pass.record.token
         \/ /\ ~pass.ok /\ record' = pass.before /\ dash.id = 0
  <2> USE DEF Dashboard!restoreAuth, Dashboard!TypeOK, Dashboard!NoFault
  <2> DEFINE settled == [pass.record EXCEPT !.phase = "none"]
             bareRecord == [settled EXCEPT !.token = 0]
  <2>1. /\ settled \in Dashboard!Records /\ SameClaim(settled, pass.record)
        /\ settled.token = pass.record.token
    BY ConnectionTyped DEF Dashboard!Records
  <2>2. /\ bareRecord \in Dashboard!Records /\ SameClaim(bareRecord, pass.record)
    BY <2>1, BlankRecords DEF Dashboard!Records
  <2> HIDE DEF settled, bareRecord
  <2>3. /\ Dashboard!adopt(bareRecord, pass.conn) \in Dashboard!Records
        /\ AdoptedAs(Dashboard!adopt(bareRecord, pass.conn), bareRecord, pass.conn)
    BY <2>2, AdoptAdopts, ConnectionTyped
  <2>4. ASSUME NEW r, Dashboard!End(r)
        PROVE  /\ pass' = Dashboard!NoPass /\ record' = r /\ cleaning' \in BOOLEAN
               /\ (cleaning' => cleaning)
               /\ enabled' = enabled /\ retired' = retired
    BY <2>4 DEF Dashboard!End, Dashboard!EndWith
  <2>5. CASE /\ child' = Dashboard!AuthRestored(child, pass.record.snapshot)
             /\ Dashboard!NoFault
             /\ \E r \in IF pass.ok THEN {Dashboard!adopt(bareRecord, pass.conn)}
                    ELSE Dashboard!untouched(settled) : Dashboard!End(r)
    <3>1. /\ child' \in Dashboard!Children /\ child'.auth = pass.record.snapshot.auth
          /\ child'.key = child.key /\ child'.sec = child.sec
          /\ (child'.plugin = child.plugin \/ child.key = 0)
      BY <2>5, RestoredAuth, ConnectionTyped
    <3>2. CASE pass.ok
      <4>1. Dashboard!End(Dashboard!adopt(bareRecord, pass.conn))
        BY <2>5, <3>2
      <4>2. QED
        BY <2>2, <2>3, <2>4, <2>5, <3>1, <3>2, <4>1 DEF AdoptedAs
    <3>3. CASE ~pass.ok
      <4>1. PICK r \in {settled, pass.before} :
              Dashboard!End(r) /\ (r = pass.before /\ r # settled => dash.id = 0)
        BY <2>5, <3>3 DEF Dashboard!untouched
      <4>2. QED
        BY <2>1, <2>4, <2>5, <3>1, <3>3, <4>1, ConnectionTyped
    <3>4. QED
      BY <3>2, <3>3
  <2>6. CASE Dashboard!Fault /\ UNCHANGED child /\ \E r \in IF pass.ok THEN {pass.record}
                 ELSE Dashboard!untouched(pass.record) : Dashboard!End(r)
    <3>1. PICK r \in {pass.record, pass.before} :
            /\ Dashboard!End(r)
            /\ r # pass.record
                   => r = pass.before /\ dash.id = 0 /\ ~pass.ok /\ child' = pass.seenAs
      BY <2>6 DEF Dashboard!untouched
    <3>2. QED
      BY <2>4, <2>6, <3>1, ConnectionTyped DEF Dashboard!Fault, Dashboard!ConstantsOK
  <2>7. QED
    BY <2>5, <2>6 DEF settled, bareRecord
<1>1. Dashboard!TypeOK'
  BY <1>0, BlankRecords, ConnectionTyped DEF Dashboard!ConstantsOK, Dashboard!TypeOK
<1>2. SettingIsKnown'
  BY <1>0, BlankRecords, ConnectionTyped DEF SettingIsKnown, Dashboard!needsAuthRecovery,
     Dashboard!Enrolling, Dashboard!Withdrawing, Dashboard!Shown
<1>3. SeenIsOurs'
  BY <1>0, BlankRecords, ConnectionTyped DEF SeenIsOurs, Dashboard!Ours, Dashboard!Enrolling,
     Dashboard!Withdrawing, Dashboard!Shown
<1>4. WhichWay'
  BY <1>0, BlankRecords, ConnectionTyped DEF WhichWay, Dashboard!Enrolling,
     Dashboard!Withdrawing, Dashboard!Shown
<1>5. ClaimIsSaved'
  BY <1>0, BlankRecords, ConnectionTyped DEF ClaimIsSaved, Dashboard!Enrolling,
     Dashboard!Withdrawing, Dashboard!Shown, Dashboard!enrolledBy, Dashboard!paired
<1>6. OnlyOurs'
  BY <1>0, BlankRecords, ConnectionTyped DEF OnlyOurs, Dashboard!Enrolling,
     Dashboard!Withdrawing, Dashboard!Shown, OwnedIsTheRecord, OwnsTheRecord
<1>7. RetiredIsTheRecord'
  BY <1>0, BlankRecords, ConnectionTyped DEF RetiredIsTheRecord, OnlyOurs, OwnedIsTheRecord,
     ClaimIsSaved, RecordIsKnown, WhichWay, OwnsTheRecord, KnownBy, Dashboard!Enrolling,
     Dashboard!Withdrawing, Dashboard!Shown
<1>8. OwnedIsTheRecord'
  BY <1>0, BlankRecords, ConnectionTyped DEF OwnedIsTheRecord, OwnsTheRecord,
     ReadIsTheRecord, OnlyOurs, RecordIsKnown, Dashboard!Enrolling, Dashboard!Withdrawing,
     Dashboard!Shown, Dashboard!enrolledBy, Dashboard!paired
<1>9. ReadIsTheRecord'
  BY <1>0, BlankRecords, ConnectionTyped DEF ReadIsTheRecord, StaysPaired, OnlyOurs,
     WhichWay, OwnedIsTheRecord, OwnsTheRecord, Dashboard!Enrolling, Dashboard!Withdrawing,
     Dashboard!Shown, Dashboard!enrolledBy, Dashboard!paired
<1>10. StaysPaired'
  BY <1>0, BlankRecords, ConnectionTyped DEF StaysPaired, RecordIsKnown, ReadIsTheRecord,
     ClaimIsSaved, RetiredIsTheRecord, KnownBy, OnlyOurs, WhichWay, OwnedIsTheRecord,
     OwnsTheRecord, Dashboard!Enrolling, Dashboard!Withdrawing, Dashboard!Shown,
     ClaimIsSaved, Dashboard!enrolledBy, Dashboard!paired
<1>11. RecordIsKnown'
  BY <1>0, BlankRecords, ConnectionTyped DEF RecordIsKnown, KnownBy, StaysPaired,
     ReadIsTheRecord, ClaimIsSaved, RetiredIsTheRecord, OnlyOurs, WhichWay, OwnedIsTheRecord,
     OwnsTheRecord, Dashboard!Enrolling, Dashboard!Withdrawing, Dashboard!Shown,
     Dashboard!enrolledBy, Dashboard!paired
<1>12. QED
  BY <1>1, <1>2, <1>3, <1>4, <1>5, <1>6, <1>7, <1>8, <1>9, <1>10, <1>11

(* Withdrawing.                                                            *)
LEMMA DashboardCleanupSiteKeeps ==
  ASSUME Dashboard!ConstantsOK, ConnectionInv, Dashboard!cleanupSite
  PROVE  ConnectionInv'
<1> USE DEF ConnectionInv, Dashboard!Idle, Quiet, OwnsConnection, AdoptedAs, SameClaim,
    SameReads, StillCleaning, EnrolledHere
<1>0. /\ pass.at = "clean" /\ child' = child /\ dash' = dash /\ mainwpKeys' = mainwpKeys
      /\ passes' = passes /\ faults' = faults /\ wpEdits' = wpEdits /\ retired' = retired
      /\ enabled' = enabled /\ record' \in Dashboard!Records
      /\ record'.snapshot = pass.record.snapshot
      /\ record'.reconnect = pass.record.reconnect /\ record'.token = pass.record.token
      /\ ((EnrolledHere /\ OwnsConnection(record', pass.conn))
             \/ (~EnrolledHere /\ SameClaim(record', pass.record)))
      /\ \/ /\ pass' = Dashboard!NoPass
            /\ (cleaning' = (cleaning
                   /\ (record'.snapshot # Dashboard!NoSnapshot \/ retired # {})))
            /\ (record'.snapshot = Dashboard!NoSnapshot
                   \/ (~pass.ok /\ record'.token # 0 /\ ~record'.ownedConnection))
         \/ /\ record'.snapshot # Dashboard!NoSnapshot
            /\ (pass.ok \/ record'.token = 0 \/ record'.ownedConnection)
            /\ (cleaning => cleaning') /\ cleaning' \in BOOLEAN
            /\ (pass'.at = "undo" => Dashboard!Ours(record')) /\ pass' \in Dashboard!PassesOf
            /\ SameReads(pass', pass)
            /\ (pass'.at = IF Dashboard!Ours(record') THEN "undo" ELSE "remove")
            /\ pass'.record = record'
  <2> USE DEF Dashboard!cleanupSite, Dashboard!TypeOK, Dashboard!saved, Dashboard!wpCounts
  <2> DEFINE r == IF EnrolledHere
      THEN [pass.record EXCEPT !.ownedConnection = TRUE, !.connection = pass.conn]
                  ELSE pass.record
             stop == r.snapshot = Dashboard!NoSnapshot
                 \/ (~pass.ok /\ r.token # 0 /\ ~r.ownedConnection)
  <2>1. /\ r \in Dashboard!Records /\ r.snapshot = pass.record.snapshot
        /\ r.reconnect = pass.record.reconnect /\ r.token = pass.record.token
        /\ ((EnrolledHere /\ OwnsConnection(r, pass.conn))
               \/ (~EnrolledHere /\ r = pass.record))
    BY ConnectionTyped DEF Dashboard!Records
  <2> HIDE DEF r
  <2>2. CASE stop
    <3>1. Dashboard!End(r)
      BY <2>2 DEF EnrolledHere, r
    <3>2. QED
      BY <2>1, <2>2, <3>1 DEF Dashboard!End, Dashboard!EndWith, EnrolledHere
  <2>3. CASE ~stop
    <3> DEFINE s == [r EXCEPT !.phase = "cleanup", !.seen = @
        /\ ~(Dashboard!Ours(r) /\ r.ownedPlugin /\ Dashboard!Installed(pass.seenAs))]
    <3>1. /\ record' = s
          /\ Dashboard!To(IF Dashboard!Ours(r) THEN "undo" ELSE "remove", record')
          /\ cleaning' = cleaning /\ enabled' = enabled /\ retired' = retired
      BY <2>3 DEF EnrolledHere, r
    <3>2. /\ r.seen \in BOOLEAN /\ r.ownedPlugin \in BOOLEAN /\ Dashboard!Ours(r) \in BOOLEAN
          /\ Dashboard!Installed(pass.seenAs) \in BOOLEAN
      BY <2>1 DEF Dashboard!Records, Dashboard!Ours, Dashboard!Installed
    <3>3. /\ s \in Dashboard!Records /\ SameClaim(s, r) /\ s.token = r.token
      BY <2>1, <3>2 DEF Dashboard!Records
    <3> HIDE DEF s
    <3>4. Dashboard!Ours(s) = Dashboard!Ours(r)
      BY <3>3 DEF Dashboard!Ours
    <3>5. Dashboard!Ours(record') = Dashboard!Ours(s)
      BY <3>1
    <3>6. /\ pass' \in Dashboard!PassesOf /\ SameReads(pass', pass)
          /\ (pass'.at = IF Dashboard!Ours(record') THEN "undo" ELSE "remove")
          /\ pass'.record = record'
      BY <3>1, <3>3, <3>4, <3>5, ConnectionTyped DEF Dashboard!PassesOf,
         Dashboard!Withdrawing, Dashboard!To
    <3>7. pass'.at = "undo" => Dashboard!Ours(record')
      BY <3>6
    <3>8. QED
      BY <2>1, <2>3, <3>1, <3>3, <3>6, <3>7 DEF EnrolledHere
  <2>4. QED
    BY <2>2, <2>3
<1>1. Dashboard!TypeOK'
  BY <1>0, BlankRecords, ConnectionTyped DEF Dashboard!ConstantsOK, Dashboard!TypeOK
<1>2. SettingIsKnown'
  BY <1>0, BlankRecords, ConnectionTyped DEF SettingIsKnown, Dashboard!needsAuthRecovery,
     Dashboard!Enrolling, Dashboard!Withdrawing, Dashboard!Shown
<1>3. SeenIsOurs'
  BY <1>0, BlankRecords, ConnectionTyped DEF SeenIsOurs, Dashboard!Ours, Dashboard!Enrolling,
     Dashboard!Withdrawing, Dashboard!Shown
<1>4. WhichWay'
  BY <1>0, BlankRecords, ConnectionTyped DEF WhichWay, Dashboard!Enrolling,
     Dashboard!Withdrawing, Dashboard!Shown
<1>5. ClaimIsSaved'
  BY <1>0, BlankRecords, ConnectionTyped DEF ClaimIsSaved, Dashboard!Enrolling,
     Dashboard!Withdrawing, Dashboard!Shown, Dashboard!enrolledBy, Dashboard!paired
<1>6. OnlyOurs'
  BY <1>0, BlankRecords, ConnectionTyped DEF OnlyOurs, Dashboard!Enrolling,
     Dashboard!Withdrawing, Dashboard!Shown, OwnedIsTheRecord, OwnsTheRecord
<1>7. RetiredIsTheRecord'
  BY <1>0, BlankRecords, ConnectionTyped DEF RetiredIsTheRecord, OnlyOurs, OwnedIsTheRecord,
     ClaimIsSaved, RecordIsKnown, WhichWay, OwnsTheRecord, KnownBy, Dashboard!Enrolling,
     Dashboard!Withdrawing, Dashboard!Shown
<1>8. OwnedIsTheRecord'
  BY <1>0, BlankRecords, ConnectionTyped DEF OwnedIsTheRecord, OwnsTheRecord,
     ReadIsTheRecord, OnlyOurs, RecordIsKnown, Dashboard!Enrolling, Dashboard!Withdrawing,
     Dashboard!Shown, Dashboard!enrolledBy, Dashboard!paired
<1>9. ReadIsTheRecord'
  BY <1>0, BlankRecords, ConnectionTyped DEF ReadIsTheRecord, StaysPaired, OnlyOurs,
     WhichWay, OwnedIsTheRecord, OwnsTheRecord, Dashboard!Enrolling, Dashboard!Withdrawing,
     Dashboard!Shown, Dashboard!enrolledBy, Dashboard!paired
<1>10. StaysPaired'
  BY <1>0, BlankRecords, ConnectionTyped DEF StaysPaired, RecordIsKnown, ReadIsTheRecord,
     ClaimIsSaved, RetiredIsTheRecord, KnownBy, OnlyOurs, WhichWay, OwnedIsTheRecord,
     OwnsTheRecord, Dashboard!Enrolling, Dashboard!Withdrawing, Dashboard!Shown,
     ClaimIsSaved, Dashboard!enrolledBy, Dashboard!paired
<1>11. RecordIsKnown'
  BY <1>0, BlankRecords, ConnectionTyped DEF RecordIsKnown, KnownBy, StaysPaired,
     ReadIsTheRecord, ClaimIsSaved, RetiredIsTheRecord, OnlyOurs, WhichWay, OwnedIsTheRecord,
     OwnsTheRecord, Dashboard!Enrolling, Dashboard!Withdrawing, Dashboard!Shown,
     Dashboard!enrolledBy, Dashboard!paired
<1>12. QED
  BY <1>1, <1>2, <1>3, <1>4, <1>5, <1>6, <1>7, <1>8, <1>9, <1>10, <1>11

LEMMA DashboardUndoChildKeeps ==
  ASSUME Dashboard!ConstantsOK, ConnectionInv, Dashboard!undoChild
  PROVE  ConnectionInv'
<1> USE DEF ConnectionInv, Dashboard!Idle, Quiet, OwnsConnection, AdoptedAs, SameClaim,
    SameReads, StillCleaning, EnrolledHere
<1>0. /\ pass.at = "undo" /\ dash' = dash /\ wpEdits' = wpEdits /\ retired' = retired
      /\ mainwpKeys' \in 0..MainwpMaxKeys /\ passes' \in 0..MaxPasses
      /\ faults' \in 0..MaxFaults
      /\ \/ /\ child' \in Dashboard!Children /\ child'.auth = pass.record.snapshot.auth
            /\ enabled' = enabled /\ record' = record /\ (cleaning => cleaning')
            /\ cleaning' \in BOOLEAN /\ pass' \in Dashboard!PassesOf /\ SameReads(pass', pass)
            /\ pass'.at = "remove" /\ pass'.record = pass.record
         \/ /\ pass' = Dashboard!NoPass /\ record' = pass.record
            /\ cleaning' = StillCleaning(pass.record, retired) /\ enabled' = enabled
            /\ child' = child
  <2> USE DEF Dashboard!undoChild, Dashboard!TypeOK, Dashboard!saved, Dashboard!NoFault
  <2>1. CASE ~((Dashboard!Fault \/ Dashboard!NoFault) /\ Dashboard!End(pass.record)
                 /\ UNCHANGED child)
    <3>1. /\ child' = Dashboard!CleanedUp(child, pass.record.snapshot, pass.record.ownedPlugin)
          /\ pass' = [pass EXCEPT !.at = "remove", !.record = pass.record]
      BY <2>1 DEF Dashboard!To
    <3>2. child' \in Dashboard!Children /\ child'.auth = pass.record.snapshot.auth
      BY <3>1, CleansUp, ConnectionTyped
    <3>3. /\ pass' \in Dashboard!PassesOf /\ SameReads(pass', pass) /\ pass'.at = "remove"
          /\ pass'.record = pass.record
      BY <3>1, ConnectionTyped DEF Dashboard!PassesOf, Dashboard!Withdrawing
    <3>4. QED
      BY <2>1, <3>2, <3>3
  <2>2. CASE /\ (Dashboard!Fault \/ Dashboard!NoFault) /\ Dashboard!End(pass.record)
             /\ UNCHANGED child
    BY <2>2 DEF Dashboard!End, Dashboard!EndWith, Dashboard!Fault, Dashboard!ConstantsOK
  <2>3. QED
    BY <2>1, <2>2
<1>1. Dashboard!TypeOK'
  BY <1>0, BlankRecords, ConnectionTyped DEF Dashboard!ConstantsOK, Dashboard!TypeOK
<1>2. SettingIsKnown'
  BY <1>0, BlankRecords, ConnectionTyped DEF SettingIsKnown, Dashboard!needsAuthRecovery,
     Dashboard!Enrolling, Dashboard!Withdrawing, Dashboard!Shown
<1>3. SeenIsOurs'
  BY <1>0, BlankRecords, ConnectionTyped DEF SeenIsOurs, Dashboard!Ours, Dashboard!Enrolling,
     Dashboard!Withdrawing, Dashboard!Shown
<1>4. WhichWay'
  BY <1>0, BlankRecords, ConnectionTyped DEF WhichWay, Dashboard!Enrolling,
     Dashboard!Withdrawing, Dashboard!Shown
<1>5. ClaimIsSaved'
  BY <1>0, BlankRecords, ConnectionTyped DEF ClaimIsSaved, Dashboard!Enrolling,
     Dashboard!Withdrawing, Dashboard!Shown, Dashboard!enrolledBy, Dashboard!paired
<1>6. OnlyOurs'
  BY <1>0, BlankRecords, ConnectionTyped DEF OnlyOurs, Dashboard!Enrolling,
     Dashboard!Withdrawing, Dashboard!Shown, OwnedIsTheRecord, OwnsTheRecord
<1>7. RetiredIsTheRecord'
  BY <1>0, BlankRecords, ConnectionTyped DEF RetiredIsTheRecord, OnlyOurs, OwnedIsTheRecord,
     ClaimIsSaved, RecordIsKnown, WhichWay, OwnsTheRecord, KnownBy, Dashboard!Enrolling,
     Dashboard!Withdrawing, Dashboard!Shown
<1>8. OwnedIsTheRecord'
  BY <1>0, BlankRecords, ConnectionTyped DEF OwnedIsTheRecord, OwnsTheRecord,
     ReadIsTheRecord, OnlyOurs, RecordIsKnown, Dashboard!Enrolling, Dashboard!Withdrawing,
     Dashboard!Shown, Dashboard!enrolledBy, Dashboard!paired
<1>9. ReadIsTheRecord'
  BY <1>0, BlankRecords, ConnectionTyped DEF ReadIsTheRecord, StaysPaired, OnlyOurs,
     WhichWay, OwnedIsTheRecord, OwnsTheRecord, Dashboard!Enrolling, Dashboard!Withdrawing,
     Dashboard!Shown, Dashboard!enrolledBy, Dashboard!paired
<1>10. StaysPaired'
  BY <1>0, BlankRecords, ConnectionTyped DEF StaysPaired, RecordIsKnown, ReadIsTheRecord,
     ClaimIsSaved, RetiredIsTheRecord, KnownBy, OnlyOurs, WhichWay, OwnedIsTheRecord,
     OwnsTheRecord, Dashboard!Enrolling, Dashboard!Withdrawing, Dashboard!Shown,
     ClaimIsSaved, Dashboard!enrolledBy, Dashboard!paired
<1>11. RecordIsKnown'
  BY <1>0, BlankRecords, ConnectionTyped DEF RecordIsKnown, KnownBy, StaysPaired,
     ReadIsTheRecord, ClaimIsSaved, RetiredIsTheRecord, OnlyOurs, WhichWay, OwnedIsTheRecord,
     OwnsTheRecord, Dashboard!Enrolling, Dashboard!Withdrawing, Dashboard!Shown,
     Dashboard!enrolledBy, Dashboard!paired
<1>12. QED
  BY <1>1, <1>2, <1>3, <1>4, <1>5, <1>6, <1>7, <1>8, <1>9, <1>10, <1>11

LEMMA DashboardRemoveRecordKeeps ==
  ASSUME Dashboard!ConstantsOK, ConnectionInv, Dashboard!removeRecord
  PROVE  ConnectionInv'
<1> USE DEF ConnectionInv, Dashboard!Idle, Quiet, OwnsConnection, AdoptedAs, SameClaim,
    SameReads, StillCleaning, EnrolledHere
<1>0. /\ pass.at = "remove" /\ pass' = Dashboard!NoPass /\ record' \in Dashboard!Records
      /\ cleaning' \in BOOLEAN /\ (cleaning' => cleaning) /\ child' = child
      /\ wpEdits' = wpEdits /\ enabled' = enabled /\ mainwpKeys' \in 0..MainwpMaxKeys
      /\ passes' \in 0..MaxPasses /\ faults' \in 0..MaxFaults
      /\ \/ /\ retired' = retired /\ record'.reconnect = 0 /\ ~record'.ownedConnection
            /\ record'.snapshot = Dashboard!NoSnapshot /\ cleaning' = (cleaning /\ retired # {})
            /\ dash' \in [id : 0..MainwpMaxKeys, key : 0..MainwpMaxKeys,
                   by : {"none", "operator", "addon"}]
            /\ dash' \in {dash, NoDashboardRecord}
            /\ (~pass.record.ownedConnection => dash' = dash)
            /\ (pass.record.ownedConnection /\ pass.record.connection = Dashboard!Shown(dash)
                   => dash' = NoDashboardRecord)
         \/ /\ pass.record.ownedConnection /\ dash' = dash
            /\ retired' = retired \cup {pass.record.connection} /\ record'.reconnect = 0
            /\ ~record'.ownedConnection /\ record'.snapshot = Dashboard!NoSnapshot
            /\ cleaning' = (cleaning /\ retired' # {})
         \/ /\ dash' = dash /\ retired' = retired /\ record' = pass.record
            /\ pass.record.ownedConnection
            /\ (cleaning' = (cleaning
                   /\ (pass.record.snapshot # Dashboard!NoSnapshot \/ retired # {})))
  <2> USE DEF Dashboard!removeRecord, Dashboard!TypeOK, Dashboard!NoFault
  <2>1. /\ Dashboard!forget(pass.record) \in Dashboard!Records
        /\ Dashboard!forget(pass.record).reconnect = 0
        /\ ~Dashboard!forget(pass.record).ownedConnection
        /\ Dashboard!forget(pass.record).snapshot = Dashboard!NoSnapshot
    BY ForgetForgets, ConnectionTyped
  <2>2. CASE /\ pass.record.ownedConnection /\ pass.ok /\ Dashboard!Fault
             /\ Dashboard!End(pass.record) /\ UNCHANGED dash
    BY <2>2, ConnectionTyped DEF Dashboard!End, Dashboard!EndWith, Dashboard!Fault,
       Dashboard!ConstantsOK
  <2>3. CASE /\ Dashboard!EndWith(Dashboard!forget(pass.record)) /\ Dashboard!NoFault
             /\ UNCHANGED <<enabled, retired>>
             /\ dash' = IF pass.record.ownedConnection
                    THEN Dashboard!RemovedFrom(dash, pass.record.connection) ELSE dash
    <3>1. dash' \in [id : 0..MainwpMaxKeys, key : 0..MainwpMaxKeys,
              by : {"none", "operator", "addon"}]
      BY <2>3 DEF Dashboard!RemovedFrom, Dashboard!ConstantsOK
    <3>2. /\ dash' \in {dash, NoDashboardRecord}
          /\ (~pass.record.ownedConnection => dash' = dash)
          /\ (pass.record.ownedConnection /\ pass.record.connection = Dashboard!Shown(dash)
                 => dash' = NoDashboardRecord)
      BY <2>3 DEF Dashboard!RemovedFrom, NoDashboardRecord, Dashboard!Shown
    <3>3. QED
      BY <2>1, <2>3, <3>1, <3>2 DEF Dashboard!EndWith
  <2>4. CASE /\ pass.record.ownedConnection /\ retired' = retired \cup {pass.record.connection}
             /\ Dashboard!EndWith(Dashboard!forget(pass.record)) /\ Dashboard!NoFault
             /\ UNCHANGED <<enabled, dash>>
    BY <2>1, <2>4 DEF Dashboard!EndWith
  <2>5. QED
    BY <2>2, <2>3, <2>4
<1>1. Dashboard!TypeOK'
  BY <1>0, BlankRecords, ConnectionTyped DEF Dashboard!ConstantsOK, Dashboard!TypeOK
<1>2. SettingIsKnown'
  BY <1>0, BlankRecords, ConnectionTyped DEF SettingIsKnown, Dashboard!needsAuthRecovery,
     Dashboard!Enrolling, Dashboard!Withdrawing, Dashboard!Shown
<1>3. SeenIsOurs'
  BY <1>0, BlankRecords, ConnectionTyped DEF SeenIsOurs, Dashboard!Ours, Dashboard!Enrolling,
     Dashboard!Withdrawing, Dashboard!Shown
<1>4. WhichWay'
  BY <1>0, BlankRecords, ConnectionTyped DEF WhichWay, Dashboard!Enrolling,
     Dashboard!Withdrawing, Dashboard!Shown
<1>5. ClaimIsSaved'
  BY <1>0, BlankRecords, ConnectionTyped DEF ClaimIsSaved, Dashboard!Enrolling,
     Dashboard!Withdrawing, Dashboard!Shown, Dashboard!enrolledBy, Dashboard!paired
<1>6. OnlyOurs'
  BY <1>0, BlankRecords, ConnectionTyped DEF OnlyOurs, Dashboard!Enrolling,
     Dashboard!Withdrawing, Dashboard!Shown, OwnedIsTheRecord, OwnsTheRecord
<1>7. RetiredIsTheRecord'
  BY <1>0, BlankRecords, ConnectionTyped DEF RetiredIsTheRecord, OnlyOurs, OwnedIsTheRecord,
     ClaimIsSaved, RecordIsKnown, WhichWay, OwnsTheRecord, KnownBy, Dashboard!Enrolling,
     Dashboard!Withdrawing, Dashboard!Shown
<1>8. OwnedIsTheRecord'
  BY <1>0, BlankRecords, ConnectionTyped DEF OwnedIsTheRecord, OwnsTheRecord,
     ReadIsTheRecord, OnlyOurs, RecordIsKnown, Dashboard!Enrolling, Dashboard!Withdrawing,
     Dashboard!Shown, Dashboard!enrolledBy, Dashboard!paired
<1>9. ReadIsTheRecord'
  BY <1>0, BlankRecords, ConnectionTyped DEF ReadIsTheRecord, StaysPaired, OnlyOurs,
     WhichWay, OwnedIsTheRecord, OwnsTheRecord, Dashboard!Enrolling, Dashboard!Withdrawing,
     Dashboard!Shown, Dashboard!enrolledBy, Dashboard!paired
<1>10. StaysPaired'
  BY <1>0, BlankRecords, ConnectionTyped DEF StaysPaired, RecordIsKnown, ReadIsTheRecord,
     ClaimIsSaved, RetiredIsTheRecord, KnownBy, OnlyOurs, WhichWay, OwnedIsTheRecord,
     OwnsTheRecord, Dashboard!Enrolling, Dashboard!Withdrawing, Dashboard!Shown,
     ClaimIsSaved, Dashboard!enrolledBy, Dashboard!paired
<1>11. RecordIsKnown'
  BY <1>0, BlankRecords, ConnectionTyped DEF RecordIsKnown, KnownBy, StaysPaired,
     ReadIsTheRecord, ClaimIsSaved, RetiredIsTheRecord, OnlyOurs, WhichWay, OwnedIsTheRecord,
     OwnsTheRecord, Dashboard!Enrolling, Dashboard!Withdrawing, Dashboard!Shown,
     Dashboard!enrolledBy, Dashboard!paired
<1>12. QED
  BY <1>1, <1>2, <1>3, <1>4, <1>5, <1>6, <1>7, <1>8, <1>9, <1>10, <1>11

LEMMA DashboardRetireKeeps ==
  ASSUME Dashboard!ConstantsOK, ConnectionInv, Dashboard!retire
  PROVE  ConnectionInv'
<1> USE DEF ConnectionInv, Dashboard!retire, Dashboard!Idle, Dashboard!saved,
    Dashboard!wpCounts, Dashboard!NoRecord, Dashboard!NoSnapshot, Dashboard!NoConnection,
    Dashboard!NoChild, Dashboard!Shown, Quiet, NoDashboardRecord, Dashboard!RemovedFrom
<1>1. Dashboard!TypeOK'
  BY BlankRecords, ConnectionTyped DEF Dashboard!ConstantsOK, Dashboard!TypeOK,
     Dashboard!Records, Dashboard!PassesOf, Dashboard!Children, Dashboard!Snapshots,
     Dashboard!Connections, Dashboard!Enrolling, Dashboard!Withdrawing
<1>2. SettingIsKnown'
  BY BlankRecords, ConnectionTyped DEF SettingIsKnown, Dashboard!needsAuthRecovery,
     Dashboard!TypeOK, Dashboard!Records, Dashboard!PassesOf, Dashboard!Children,
     Dashboard!Snapshots, Dashboard!Connections, Dashboard!Enrolling, Dashboard!Withdrawing
<1>3. SeenIsOurs'
  BY BlankRecords, ConnectionTyped DEF SeenIsOurs, Dashboard!Ours, Dashboard!TypeOK,
     Dashboard!Records, Dashboard!PassesOf, Dashboard!Children, Dashboard!Snapshots,
     Dashboard!Connections, Dashboard!Enrolling, Dashboard!Withdrawing
<1>4. WhichWay'
  BY BlankRecords, ConnectionTyped DEF WhichWay, Dashboard!TypeOK, Dashboard!Records,
     Dashboard!PassesOf, Dashboard!Children, Dashboard!Snapshots, Dashboard!Connections,
     Dashboard!Enrolling, Dashboard!Withdrawing
<1>5. ClaimIsSaved'
  BY BlankRecords, ConnectionTyped DEF ClaimIsSaved, Dashboard!TypeOK, Dashboard!Records,
     Dashboard!PassesOf, Dashboard!Children, Dashboard!Snapshots, Dashboard!Connections,
     Dashboard!Enrolling, Dashboard!Withdrawing
<1>6. OnlyOurs'
  BY BlankRecords, ConnectionTyped DEF OnlyOurs, Dashboard!TypeOK, Dashboard!Records,
     Dashboard!PassesOf, Dashboard!Children, Dashboard!Snapshots, Dashboard!Connections,
     Dashboard!Enrolling, Dashboard!Withdrawing
<1>7. RetiredIsTheRecord'
  BY BlankRecords, ConnectionTyped DEF RetiredIsTheRecord, OnlyOurs, OwnedIsTheRecord,
     ClaimIsSaved, RecordIsKnown, WhichWay, OwnsTheRecord, KnownBy, Dashboard!TypeOK,
     Dashboard!Records, Dashboard!PassesOf, Dashboard!Children, Dashboard!Snapshots,
     Dashboard!Connections, Dashboard!Enrolling, Dashboard!Withdrawing
<1>8. OwnedIsTheRecord'
  BY BlankRecords, ConnectionTyped DEF OwnedIsTheRecord, OwnsTheRecord, ReadIsTheRecord,
     OnlyOurs, RecordIsKnown, Dashboard!TypeOK, Dashboard!Records, Dashboard!PassesOf,
     Dashboard!Children, Dashboard!Snapshots, Dashboard!Connections, Dashboard!Enrolling,
     Dashboard!Withdrawing, ClaimIsSaved, RetiredIsTheRecord, WhichWay
<1>9. ReadIsTheRecord'
  BY BlankRecords, ConnectionTyped DEF ReadIsTheRecord, StaysPaired, OnlyOurs, WhichWay,
     OwnedIsTheRecord, OwnsTheRecord, Dashboard!TypeOK, Dashboard!Records,
     Dashboard!PassesOf, Dashboard!Children, Dashboard!Snapshots, Dashboard!Connections,
     Dashboard!Enrolling, Dashboard!Withdrawing
<1>10. StaysPaired'
  BY BlankRecords, ConnectionTyped DEF StaysPaired, RecordIsKnown, ReadIsTheRecord,
     ClaimIsSaved, RetiredIsTheRecord, KnownBy, OnlyOurs, WhichWay, OwnedIsTheRecord,
     OwnsTheRecord, Dashboard!TypeOK, Dashboard!Records, Dashboard!PassesOf,
     Dashboard!Children, Dashboard!Snapshots, Dashboard!Connections, Dashboard!Enrolling,
     Dashboard!Withdrawing
<1>11. RecordIsKnown'
  BY BlankRecords, ConnectionTyped DEF RecordIsKnown, KnownBy, StaysPaired, ReadIsTheRecord,
     ClaimIsSaved, RetiredIsTheRecord, OnlyOurs, WhichWay, OwnedIsTheRecord, OwnsTheRecord,
     Dashboard!TypeOK, Dashboard!Records, Dashboard!PassesOf, Dashboard!Children,
     Dashboard!Snapshots, Dashboard!Connections, Dashboard!Enrolling, Dashboard!Withdrawing
<1>12. QED
  BY <1>1, <1>2, <1>3, <1>4, <1>5, <1>6, <1>7, <1>8, <1>9, <1>10, <1>11

(* The pass killed at any place.                                           *)
LEMMA DashboardKilledKeeps ==
  ASSUME Dashboard!ConstantsOK, ConnectionInv, Dashboard!Killed
  PROVE  ConnectionInv'
<1> USE DEF ConnectionInv, Dashboard!Killed, Dashboard!Idle, Dashboard!saved,
    Dashboard!wpCounts, Dashboard!NoRecord, Dashboard!NoSnapshot, Dashboard!NoConnection,
    Dashboard!NoChild, Dashboard!Shown, Quiet, NoDashboardRecord, Dashboard!NoPass
<1>1. Dashboard!TypeOK'
  BY BlankRecords, ConnectionTyped DEF Dashboard!ConstantsOK, Dashboard!TypeOK,
     Dashboard!Records, Dashboard!PassesOf, Dashboard!Children, Dashboard!Snapshots,
     Dashboard!Connections, Dashboard!Enrolling, Dashboard!Withdrawing
<1>2. SettingIsKnown'
  BY BlankRecords, ConnectionTyped DEF SettingIsKnown, Dashboard!needsAuthRecovery,
     Dashboard!TypeOK, Dashboard!Records, Dashboard!PassesOf, Dashboard!Children,
     Dashboard!Snapshots, Dashboard!Connections, Dashboard!Enrolling, Dashboard!Withdrawing
<1>3. SeenIsOurs'
  BY BlankRecords, ConnectionTyped DEF SeenIsOurs, Dashboard!Ours, Dashboard!TypeOK,
     Dashboard!Records, Dashboard!PassesOf, Dashboard!Children, Dashboard!Snapshots,
     Dashboard!Connections, Dashboard!Enrolling, Dashboard!Withdrawing
<1>4. WhichWay'
  BY BlankRecords, ConnectionTyped DEF WhichWay, Dashboard!TypeOK, Dashboard!Records,
     Dashboard!PassesOf, Dashboard!Children, Dashboard!Snapshots, Dashboard!Connections,
     Dashboard!Enrolling, Dashboard!Withdrawing
<1>5. ClaimIsSaved'
  BY BlankRecords, ConnectionTyped DEF ClaimIsSaved, Dashboard!TypeOK, Dashboard!Records,
     Dashboard!PassesOf, Dashboard!Children, Dashboard!Snapshots, Dashboard!Connections,
     Dashboard!Enrolling, Dashboard!Withdrawing
<1>6. OnlyOurs'
  BY BlankRecords, ConnectionTyped DEF OnlyOurs, Dashboard!TypeOK, Dashboard!Records,
     Dashboard!PassesOf, Dashboard!Children, Dashboard!Snapshots, Dashboard!Connections,
     Dashboard!Enrolling, Dashboard!Withdrawing
<1>7. RetiredIsTheRecord'
  BY BlankRecords, ConnectionTyped DEF RetiredIsTheRecord, OnlyOurs, OwnedIsTheRecord,
     ClaimIsSaved, RecordIsKnown, WhichWay, OwnsTheRecord, KnownBy, Dashboard!TypeOK,
     Dashboard!Records, Dashboard!PassesOf, Dashboard!Children, Dashboard!Snapshots,
     Dashboard!Connections, Dashboard!Enrolling, Dashboard!Withdrawing
<1>8. OwnedIsTheRecord'
  BY BlankRecords, ConnectionTyped DEF OwnedIsTheRecord, OwnsTheRecord, ReadIsTheRecord,
     OnlyOurs, RecordIsKnown, Dashboard!TypeOK, Dashboard!Records, Dashboard!PassesOf,
     Dashboard!Children, Dashboard!Snapshots, Dashboard!Connections, Dashboard!Enrolling,
     Dashboard!Withdrawing, ClaimIsSaved, RetiredIsTheRecord, WhichWay
<1>9. ReadIsTheRecord'
  BY BlankRecords, ConnectionTyped DEF ReadIsTheRecord, StaysPaired, OnlyOurs, WhichWay,
     OwnedIsTheRecord, OwnsTheRecord, Dashboard!TypeOK, Dashboard!Records,
     Dashboard!PassesOf, Dashboard!Children, Dashboard!Snapshots, Dashboard!Connections,
     Dashboard!Enrolling, Dashboard!Withdrawing
<1>10. StaysPaired'
  BY BlankRecords, ConnectionTyped DEF StaysPaired, RecordIsKnown, ReadIsTheRecord,
     ClaimIsSaved, RetiredIsTheRecord, KnownBy, OnlyOurs, WhichWay, OwnedIsTheRecord,
     OwnsTheRecord, Dashboard!TypeOK, Dashboard!Records, Dashboard!PassesOf,
     Dashboard!Children, Dashboard!Snapshots, Dashboard!Connections, Dashboard!Enrolling,
     Dashboard!Withdrawing
<1>11. RecordIsKnown'
  BY BlankRecords, ConnectionTyped DEF RecordIsKnown, KnownBy, StaysPaired, ReadIsTheRecord,
     ClaimIsSaved, RetiredIsTheRecord, OnlyOurs, WhichWay, OwnedIsTheRecord, OwnsTheRecord,
     Dashboard!TypeOK, Dashboard!Records, Dashboard!PassesOf, Dashboard!Children,
     Dashboard!Snapshots, Dashboard!Connections, Dashboard!Enrolling, Dashboard!Withdrawing
<1>12. QED
  BY <1>1, <1>2, <1>3, <1>4, <1>5, <1>6, <1>7, <1>8, <1>9, <1>10, <1>11

LEMMA ConnectionStarts ==
  ASSUME Dashboard!ConstantsOK, Dashboard!Init
  PROVE  ConnectionInv
<1>1. /\ dash = NoDashboardRecord /\ enabled \in BOOLEAN /\ cleaning = FALSE
      /\ record = Dashboard!NoRecord /\ retired = {} /\ pass = Dashboard!NoPass
      /\ mainwpKeys = 0 /\ wpEdits = 0 /\ passes = 0 /\ faults = 0
  BY DEF Dashboard!Init, NoDashboardRecord
<1>2. child \in Dashboard!Children /\ child.auth
  <2>1. child \in [plugin : {"absent", "active"}, key : {0}, sec : {0}, auth : {TRUE}]
    BY DEF Dashboard!Init
  <2>2. QED
    BY <2>1, BlankRecords DEF Dashboard!Children
<1>3. Dashboard!TypeOK
  <2>1. NoDashboardRecord
            \in [id : 0..MainwpMaxKeys, key : 0..MainwpMaxKeys,
            by : {"none", "operator", "addon"}]
    BY BlankRecords DEF NoDashboardRecord
  <2>2. 0 \in 0..MaxEdits /\ 0 \in 0..MaxPasses /\ 0 \in 0..MaxFaults
    BY DEF Dashboard!ConstantsOK
  <2>3. QED
    BY <1>1, <1>2, <2>1, <2>2, BlankRecords DEF Dashboard!TypeOK
<1>4. SettingIsKnown /\ SeenIsOurs /\ WhichWay /\ ClaimIsSaved
  BY <1>1, <1>2, BlankRecords DEF SettingIsKnown, SeenIsOurs, WhichWay, ClaimIsSaved,
     Dashboard!Idle, Dashboard!Enrolling, Dashboard!Withdrawing
<1>5. OnlyOurs /\ RetiredIsTheRecord /\ OwnedIsTheRecord /\ ReadIsTheRecord
  BY <1>1, BlankRecords DEF OnlyOurs, RetiredIsTheRecord, OwnedIsTheRecord, OwnsTheRecord,
     ReadIsTheRecord
<1>6. StaysPaired /\ RecordIsKnown
  BY <1>1 DEF StaysPaired, RecordIsKnown
<1>7. QED
  BY <1>3, <1>4, <1>5, <1>6 DEF ConnectionInv

(* What does not move keeps it.                                            *)
LEMMA ConnectionRests ==
  ASSUME ConnectionInv, UNCHANGED (Dashboard!wpVars)
  PROVE  ConnectionInv'
<1> USE DEF ConnectionInv, Dashboard!wpVars, Quiet
<1>1. Dashboard!TypeOK' /\ SettingIsKnown' /\ SeenIsOurs' /\ WhichWay' /\ ClaimIsSaved'
  BY DEF Dashboard!TypeOK, SettingIsKnown, Dashboard!needsAuthRecovery, SeenIsOurs,
     Dashboard!Ours, WhichWay, ClaimIsSaved, Dashboard!Idle
<1>2. OnlyOurs' /\ RetiredIsTheRecord' /\ OwnedIsTheRecord' /\ ReadIsTheRecord'
  BY DEF OnlyOurs, RetiredIsTheRecord, OwnedIsTheRecord, OwnsTheRecord, ReadIsTheRecord,
     Dashboard!Idle, Dashboard!Shown
<1>3. StaysPaired' /\ RecordIsKnown'
  BY DEF StaysPaired, RecordIsKnown, KnownBy, Dashboard!Idle
<1>4. QED
  BY <1>1, <1>2, <1>3

LEMMA ConnectionGoesOn ==
  ASSUME Dashboard!ConstantsOK, ConnectionInv, [Dashboard!Next]_(Dashboard!wpVars)
  PROVE  ConnectionInv'
<1>1. CASE UNCHANGED (Dashboard!wpVars)
  BY <1>1, ConnectionRests
<1>2. CASE Dashboard!Next
  BY <1>2, DashboardOperatorConnectsKeeps, DashboardOtherDashboardKeeps,
     DashboardDisconnectsKeeps,
     DashboardDropsDashboardRecordKeeps, DashboardDeletesPluginKeeps,
     DashboardConfigureMainwpKeeps,
     DashboardSyncMainwpKeeps, DashboardRestoreAuthFirstKeeps, DashboardReadDashboardKeeps,
     DashboardVisitKeeps,
     DashboardCheckSiteKeeps, DashboardUndoFirstKeeps, DashboardWaitForHttpsKeeps,
     DashboardEnrollKeeps, DashboardDownloadChildKeeps,
     DashboardPrepareKeeps, DashboardRegisterKeeps, DashboardConfirmKeeps,
     DashboardGiveBackKeeps, DashboardRestoreAuthKeeps,
     DashboardCleanupSiteKeeps, DashboardUndoChildKeeps, DashboardRemoveRecordKeeps,
     DashboardRetireKeeps, DashboardKilledKeeps
     DEF Dashboard!Next
<1>3. QED
  BY <1>1, <1>2

LEMMA ConnectionIsAccounted ==
  ASSUME Dashboard!ConstantsOK, ConnectionInv
  PROVE  Dashboard!SettingIsAccounted /\ Dashboard!MadeIsKnown
<1>1. Dashboard!SettingIsAccounted
  BY DEF Dashboard!SettingIsAccounted, ConnectionInv, SettingIsKnown
<1>2. ASSUME Dashboard!Idle, dash.by = "addon", wpEdits = 0
      PROVE  \/ record.ownedConnection /\ record.connection.id = dash.id
             \/ record.token # 0 /\ record.snapshot # Dashboard!NoSnapshot
             \/ \E linked \in retired : linked.id = dash.id
  <2>1. dash # NoDashboardRecord
    BY <1>2, BlankRecords
  <2>2. KnownBy(record) \/ retired # {}
    BY <1>2, <2>1 DEF ConnectionInv, RecordIsKnown, Quiet
  <2>3. record.ownedConnection => record.connection = Dashboard!Shown(dash)
    BY <1>2 DEF ConnectionInv, OwnedIsTheRecord, OwnsTheRecord, Quiet
  <2>4. retired # {} => retired = {Dashboard!Shown(dash)}
    BY <1>2 DEF ConnectionInv, RetiredIsTheRecord, Quiet
  <2>5. Dashboard!Shown(dash).id = dash.id
    BY DEF Dashboard!Shown
  <2>6. QED
    BY <2>2, <2>3, <2>4, <2>5 DEF KnownBy
<1>3. QED
  BY <1>1, <1>2 DEF Dashboard!MadeIsKnown

LEMMA ConnectionLeavesOthers ==
  ASSUME Dashboard!ConstantsOK, ConnectionInv, Dashboard!Next
  PROVE  Dashboard!LeavesOthersStep
<1>1. SUFFICES ASSUME pass.at = "undo", pass' # pass, child.key # 0, child'.key # child.key
               PROVE  child.key = pass.record.connection.key \/ child.sec = pass.record.token
  BY DEF Dashboard!LeavesOthersStep
<1>2. Dashboard!undoChild
  BY <1>1 DEF Dashboard!Next, Dashboard!OperatorConnects, Dashboard!OtherDashboard,
     Dashboard!Disconnects, Dashboard!DropsDashboardRecord, Dashboard!DeletesPlugin,
     Dashboard!configureMainwp, Dashboard!syncMainwp, Dashboard!restoreAuthFirst,
     Dashboard!readDashboard, Dashboard!visit, Dashboard!checkSite,
     Dashboard!undoFirst, Dashboard!waitForHttps, Dashboard!enroll, Dashboard!downloadChild,
     Dashboard!prepare, Dashboard!register, Dashboard!confirm,
     Dashboard!giveBack, Dashboard!restoreAuth, Dashboard!cleanupSite,
     Dashboard!removeRecord, Dashboard!retire, Dashboard!Killed,
     Dashboard!Edited, Dashboard!Idle
<1>3. child.key = pass.seenAs.key
  BY <1>1, <1>2 DEF Dashboard!undoChild
<1>4. child.sec = pass.seenAs.sec /\ Dashboard!Ours(pass.record)
  BY <1>1 DEF ConnectionInv, SeenIsOurs
<1>5. QED
  BY <1>1, <1>3, <1>4 DEF Dashboard!Ours

(* Its invariant while a behaviour is about it.                            *)
ConnectionHolds == part = "mainwp" => ConnectionInv

LEMMA ConnectionHoldsAtFirst == Init => ConnectionHolds
<1>1. SUFFICES ASSUME Init, part = "mainwp" PROVE ConnectionInv
  BY DEF ConnectionHolds
<1>2. Dashboard!Init
  BY <1>1 DEF Init
<1>3. QED
  BY <1>2, Constants, ConnectionStarts

LEMMA ConnectionMoves ==
  ASSUME [Next]_vars, part' = "mainwp"
  PROVE  part = "mainwp" /\ [Dashboard!Next]_(Dashboard!wpVars)
<1>1. part = "mainwp" /\ (Dashboard!Next \/ UNCHANGED mainwpVars)
  BY DEF Next, vars
<1>2. QED
  BY <1>1 DEF mainwpVars, Dashboard!wpVars

LEMMA ConnectionHoldsOn == ConnectionHolds /\ [Next]_vars => ConnectionHolds'
<1>1. SUFFICES ASSUME ConnectionHolds, [Next]_vars, part' = "mainwp"
               PROVE  ConnectionInv'
  BY DEF ConnectionHolds
<1>2. ConnectionInv /\ [Dashboard!Next]_(Dashboard!wpVars)
  BY <1>1, ConnectionMoves DEF ConnectionHolds
<1>3. QED
  BY <1>2, Constants, ConnectionGoesOn

(* While no pass runs, the administrator's password setting is the         *)
(* operator's own unless the record says that a connection was             *)
(* interrupted, and, until an operator changes something, a Dashboard      *)
(* record that the addon made can still be withdrawn: of any connections,  *)
(* edits, passes and failures, and wherever a pass is killed.              *)
THEOREM ConnectionIsKnown ==
  Spec => [](part = "mainwp" => /\ Dashboard!TypeOK
                                /\ Dashboard!SettingIsAccounted
                                /\ Dashboard!MadeIsKnown)
<1>1. Init => ConnectionHolds
  BY ConnectionHoldsAtFirst
<1>2. ConnectionHolds /\ [Next]_vars => ConnectionHolds'
  BY ConnectionHoldsOn
<1>3. ConnectionHolds
        => (part = "mainwp" => /\ Dashboard!TypeOK
                               /\ Dashboard!SettingIsAccounted
                               /\ Dashboard!MadeIsKnown)
  BY Constants, ConnectionIsAccounted DEF ConnectionHolds, ConnectionInv
<1>4. QED
  BY <1>1, <1>2, <1>3, PTL DEF Spec

(* A cleanup takes no key from the child but one the addon registered.     *)
THEOREM CleanupUndoesItsOwn ==
  Spec => [][part = "mainwp" => /\ Dashboard!LeavesOthersStep]_vars
<1>1. Init => ConnectionHolds
  BY ConnectionHoldsAtFirst
<1>2. ConnectionHolds /\ [Next]_vars => ConnectionHolds'
  BY ConnectionHoldsOn
<1>3. ConnectionHolds /\ [Next]_vars
        => [part = "mainwp" => /\ Dashboard!LeavesOthersStep]_vars
  <2>1. SUFFICES ASSUME ConnectionHolds, Next, part = "mainwp"
                 PROVE  Dashboard!LeavesOthersStep
    OBVIOUS
  <2>2. ConnectionInv /\ Dashboard!Next
    BY <2>1 DEF ConnectionHolds, Next
  <2>3. QED
    BY <2>2, Constants, ConnectionLeavesOthers
<1>4. QED
  BY <1>1, <1>2, <1>3, PTL DEF Spec

-----------------------------------------------------------------------------
(* Git. The inductive invariant of the records, their runners and the      *)
(* requests that start them; the lock is not in it, since what a record    *)
(* says is enough to keep a second deployment out.                         *)

OneUnfinished == \A d, e \in Deployments : Git!Unfinished(d) /\ Git!Unfinished(e) => d = e

(* A runner's record says where it is, also after the runner has died.     *)
RunsItsRecord ==
  \A d \in Deployments : /\ run[d] \in {"wait", "held"} => gitState[d] = "queued"
                         /\ run[d] = "work" => gitState[d] = "running"

(* Between making the record and starting its unit nobody takes it away.   *)
StartsItsRecord ==
  \A r \in Requests : Git!At(r, "start") =>
    /\ req[r].job \in young
    /\ gitState[req[r].job] = "queued" /\ run[req[r].job] = "idle"
    /\ \A q \in Requests : Git!At(q, "start") /\ req[q].job = req[r].job => q = r


DeploymentStates == {"none", "queued", "running", "done", "failed", "gone"}
RunnerPlaces == {"idle", "wait", "held", "work"}

(* Every step keeps the types.                                             *)
LEMMA DeploymentTyped ==
  ASSUME Git!ConstantsOK, Git!TypeOK, StartsItsRecord, [Git!Next]_(Git!vars)
  PROVE  Git!TypeOK'
<1> USE DEF Git!TypeOK, Git!panel, Git!saved, Git!jobs
<1>1. /\ Git!Idle \in Git!Asked /\ Git!NoConfig \in Git!Configs
      /\ \A a \in Git!Asked : a.conf \in Git!Configs
  BY DEF Git!Idle, Git!Asked, Git!Verbs, Git!NoConfig, Git!Configs, Git!ConstantsOK
<1>2. CASE Git!CreateSite
  BY <1>1, <1>2 DEF Git!CreateSite, Git!ConstantsOK
<1>3. CASE Git!DeleteSite
  BY <1>1, <1>3 DEF Git!DeleteSite, Git!ConstantsOK
<1>4. CASE Git!Forget
  BY <1>1, <1>4 DEF Git!Forget, Git!ConstantsOK
<1>5. CASE Git!PruneForgets
  BY <1>1, <1>5 DEF Git!PruneForgets, Git!ConstantsOK
<1>6. ASSUME NEW r \in Requests, NEW verb \in Git!Edits,
          Git!ReadConfig(r, verb) PROVE Git!TypeOK'
  BY <1>1, <1>6 DEF Git!ReadConfig, Git!Now, Git!Idle, Git!Asked, Git!Verbs, Git!Edits
<1>7. ASSUME NEW r \in Requests, Git!WriteConfig(r) PROVE Git!TypeOK'
  <2>1. req[r].conf \in Git!Configs /\ req[r].verb \in Git!Verbs
    BY <1>7 DEF Git!Asked
  <2>2. /\ saves' \in 0..MaxSaves
        /\ (req[r].verb \notin {"disable", "deliver"} => saves + 1 \in 0..MaxSaves)
    BY <1>7 DEF Git!WriteConfig, Git!ConstantsOK
  <2>3. Git!Changed(req[r].conf, req[r].verb, saves + 1) \in Git!Configs
    <3>1. CASE req[r].verb = "configure"
      BY <2>1, <2>2, <3>1 DEF Git!Changed, Git!Configs, Git!ConstantsOK
    <3>2. CASE req[r].verb = "disable"
      BY <2>1, <3>2 DEF Git!Changed, Git!Configs, Git!ConstantsOK
    <3>3. CASE req[r].verb = "deliver"
      BY <2>1, <3>3 DEF Git!Changed
    <3>4. CASE req[r].verb \notin {"configure", "disable", "deliver"}
      BY <2>1, <2>2, <3>4 DEF Git!Changed, Git!Configs
    <3>5. QED
      BY <3>1, <3>2, <3>3, <3>4
  <2>4. req' \in [Requests -> Git!Asked]
    BY <1>1, <1>7 DEF Git!WriteConfig, Git!Answer, Git!Now
  <2>5. QED
    BY <1>7, <2>2, <2>3, <2>4 DEF Git!WriteConfig
<1>8. ASSUME NEW r \in Requests, Git!TakeLock(r) PROVE Git!TypeOK'
  BY <1>1, <1>8 DEF Git!TakeLock, Git!At, Git!Now, Git!Goto, Git!Answer, Git!AfterStart,
     Git!Record, Git!Asked, Git!Idle, Git!Verbs
<1>9. ASSUME NEW r \in Requests, Git!LockTimeout(r) PROVE Git!TypeOK'
  BY <1>1, <1>9 DEF Git!LockTimeout, Git!At, Git!Now, Git!Goto, Git!Answer, Git!AfterStart,
     Git!Record, Git!Asked, Git!Idle, Git!Verbs
<1>10. ASSUME NEW r \in Requests, Git!Refuse(r) PROVE Git!TypeOK'
  BY <1>1, <1>10 DEF Git!Refuse, Git!At, Git!Now, Git!Goto, Git!Answer, Git!AfterStart,
     Git!Record, Git!Asked, Git!Idle, Git!Verbs
<1>11. ASSUME NEW r \in Requests, Git!Queue(r) PROVE Git!TypeOK'
  <2>1. PICK d \in Deployments : /\ Git!Record(d, "queued")
                                 /\ Git!Now(r, [req[r] EXCEPT !.at = "start", !.job = d])
    BY <1>11 DEF Git!Queue
  <2>2. [req[r] EXCEPT !.at = "start", !.job = d] \in Git!Asked
    BY <1>11 DEF Git!Asked
  <2>3. req' \in [Requests -> Git!Asked]
    BY <2>1, <2>2 DEF Git!Now
  <2>4. gitLock' = Free /\ UNCHANGED <<Git!panel, Git!saved, run, copy>>
    BY <1>11 DEF Git!Queue
  <2>5. QED
    BY <2>1, <2>3, <2>4 DEF Git!Record
<1>12. ASSUME NEW r \in Requests, Git!StartUnit(r) PROVE Git!TypeOK'
  BY <1>1, <1>12 DEF Git!StartUnit, Git!At, Git!Now, Git!Goto, Git!Answer, Git!AfterStart,
     Git!Record, Git!Asked, Git!Idle, Git!Verbs
<1>13. ASSUME NEW r \in Requests, Git!StartRefused(r) PROVE Git!TypeOK'
  <2>1. req[r].job \in Deployments
    BY <1>13 DEF Git!StartRefused, StartsItsRecord
  <2>2. QED
    BY <1>1, <1>13, <2>1 DEF Git!StartRefused, Git!At, Git!Now, Git!AfterStart, Git!Record,
       Git!Asked, Git!Idle, Git!Verbs
<1>14. ASSUME NEW r \in Requests, Git!RecordDelivery(r) PROVE Git!TypeOK'
  <2>1. [Git!Idle EXCEPT !.at = "save", !.verb = "deliver", !.conf = conf] \in Git!Asked
    BY <1>1 DEF Git!Idle, Git!Asked, Git!Verbs
  <2>2. req' \in [Requests -> Git!Asked]
    BY <1>1, <1>14, <2>1 DEF Git!RecordDelivery, Git!Answer, Git!Now
  <2>3. QED
    BY <1>14, <2>2 DEF Git!RecordDelivery
<1>15. ASSUME NEW r \in Requests, Git!Killed(r) PROVE Git!TypeOK'
  BY <1>1, <1>15 DEF Git!Killed, Git!At, Git!Now, Git!Goto, Git!Answer, Git!AfterStart,
     Git!Record, Git!Asked, Git!Idle, Git!Verbs
<1>16. ASSUME NEW r \in Requests, Git!Deploy(r) PROVE Git!TypeOK'
  BY <1>1, <1>16 DEF Git!Deploy, Git!At, Git!Now, Git!Goto, Git!Answer, Git!AfterStart,
     Git!Record, Git!Asked, Git!Idle, Git!Verbs
<1>17. ASSUME NEW r \in Requests, Git!Push(r) PROVE Git!TypeOK'
  BY <1>1, <1>17 DEF Git!Push, Git!At, Git!Now, Git!Goto, Git!Answer, Git!AfterStart,
     Git!Record, Git!Asked, Git!Idle, Git!Verbs
<1>18. ASSUME NEW d \in Deployments, Git!RunnerTakesLock(d) PROVE Git!TypeOK'
  BY <1>1, <1>18 DEF Git!RunnerTakesLock, Git!Record, Git!Stop
<1>19. ASSUME NEW d \in Deployments, Git!RunnerGivesUp(d) PROVE Git!TypeOK'
  BY <1>1, <1>19 DEF Git!RunnerGivesUp, Git!Record, Git!Stop
<1>20. ASSUME NEW d \in Deployments, Git!Claim(d) PROVE Git!TypeOK'
  BY <1>1, <1>20 DEF Git!Claim, Git!Record, Git!Stop
<1>21. ASSUME NEW d \in Deployments, Git!Work(d) PROVE Git!TypeOK'
  BY <1>1, <1>21 DEF Git!Work, Git!Record, Git!Stop
<1>22. ASSUME NEW d \in Deployments, Git!RunnerDies(d) PROVE Git!TypeOK'
  BY <1>1, <1>22 DEF Git!RunnerDies, Git!Record, Git!Stop
<1>23. ASSUME NEW d \in Deployments, Git!Age(d) PROVE Git!TypeOK'
  BY <1>1, <1>23 DEF Git!Age, Git!Record, Git!Stop
<1>24. ASSUME NEW d \in Deployments, Git!PruneRecord(d) PROVE Git!TypeOK'
  BY <1>1, <1>24 DEF Git!PruneRecord, Git!Record, Git!Stop
<1>25. CASE UNCHANGED (Git!vars)
  BY <1>25 DEF Git!vars
<1>26. QED
  BY <1>2, <1>3, <1>4, <1>5, <1>6, <1>7, <1>8, <1>9, <1>10, <1>11, <1>12, <1>13, <1>14,
     <1>15, <1>16, <1>17, <1>18, <1>19, <1>20, <1>21, <1>22, <1>23, <1>24, <1>25 DEF Git!Next,
     Git!RequestStep, Git!RunnerStep

(* The steps that leave the records and runners alone, and start nothing.  *)
LeavesRunners == /\ UNCHANGED <<gitState, run>> /\ young \subseteq young'
                 /\ \A r \in Requests : Git!At(r, "start")'
                        => Git!At(r, "start") /\ req'[r].job = req[r].job

LEMMA LeavingSteps ==
  ASSUME Git!TypeOK, NEW r \in Requests,
         \/ \E verb \in Git!Edits : Git!ReadConfig(r, verb)
         \/ Git!WriteConfig(r) \/ Git!TakeLock(r) \/ Git!LockTimeout(r) \/ Git!Refuse(r)
         \/ Git!RecordDelivery(r) \/ Git!Killed(r) \/ Git!Deploy(r) \/ Git!Push(r)
  PROVE  LeavesRunners
<1> USE DEF Git!TypeOK, LeavesRunners, Git!At, Git!Now, Git!jobs
<1>1. ASSUME NEW verb \in Git!Edits, Git!ReadConfig(r, verb) PROVE LeavesRunners
  <2>1. req'[r].at # "start" /\ \A o \in Requests : o # r => req'[o] = req[o]
    BY <1>1 DEF Git!ReadConfig, Git!Idle, Git!Asked
  <2>2. UNCHANGED (Git!jobs)
    BY <1>1 DEF Git!ReadConfig
  <2>3. QED
    BY <2>1, <2>2
<1>2. CASE Git!WriteConfig(r)
  <2>1. req'[r].at # "start" /\ \A o \in Requests : o # r => req'[o] = req[o]
    BY <1>2 DEF Git!WriteConfig, Git!Answer, Git!Goto, Git!Idle, Git!Asked
  <2>2. UNCHANGED (Git!jobs)
    BY <1>2 DEF Git!WriteConfig
  <2>3. QED
    BY <2>1, <2>2
<1>3. CASE Git!TakeLock(r)
  <2>1. req'[r].at # "start" /\ \A o \in Requests : o # r => req'[o] = req[o]
    BY <1>3 DEF Git!TakeLock, Git!Answer, Git!Goto, Git!Idle, Git!Asked
  <2>2. UNCHANGED (Git!jobs)
    BY <1>3 DEF Git!TakeLock
  <2>3. QED
    BY <2>1, <2>2
<1>4. CASE Git!LockTimeout(r)
  <2>1. req'[r].at # "start" /\ \A o \in Requests : o # r => req'[o] = req[o]
    BY <1>4 DEF Git!LockTimeout, Git!Answer, Git!Goto, Git!Idle, Git!Asked
  <2>2. UNCHANGED (Git!jobs)
    BY <1>4 DEF Git!LockTimeout
  <2>3. QED
    BY <2>1, <2>2
<1>5. CASE Git!Refuse(r)
  <2>1. req'[r].at # "start" /\ \A o \in Requests : o # r => req'[o] = req[o]
    BY <1>5 DEF Git!Refuse, Git!Answer, Git!Goto, Git!Idle, Git!Asked
  <2>2. UNCHANGED (Git!jobs)
    BY <1>5 DEF Git!Refuse
  <2>3. QED
    BY <2>1, <2>2
<1>6. CASE Git!RecordDelivery(r)
  <2>1. req'[r].at # "start" /\ \A o \in Requests : o # r => req'[o] = req[o]
    <3>1. CASE conf.token = 0
      BY <1>6, <3>1 DEF Git!RecordDelivery, Git!Answer, Git!Idle
    <3>2. CASE conf.token # 0
      <4>1. req' =
                [req EXCEPT ![r] =
                [Git!Idle EXCEPT !.at = "save", !.verb = "deliver", !.conf = conf]]
        BY <1>6, <3>2, Zenon DEF Git!RecordDelivery, Git!Now
      <4>2. QED
        BY <4>1 DEF Git!Idle
    <3>3. QED
      BY <3>1, <3>2
  <2>2. UNCHANGED (Git!jobs)
    BY <1>6 DEF Git!RecordDelivery
  <2>3. QED
    BY <2>1, <2>2
<1>7. CASE Git!Killed(r)
  <2>1. req'[r].at # "start" /\ \A o \in Requests : o # r => req'[o] = req[o]
    BY <1>7 DEF Git!Killed, Git!Answer, Git!Goto, Git!Idle, Git!Asked
  <2>2. UNCHANGED (Git!jobs)
    BY <1>7 DEF Git!Killed
  <2>3. QED
    BY <2>1, <2>2
<1>8. CASE Git!Deploy(r)
  <2>1. req'[r].at # "start" /\ \A o \in Requests : o # r => req'[o] = req[o]
    BY <1>8 DEF Git!Deploy, Git!Answer, Git!Goto, Git!Idle, Git!Asked
  <2>2. UNCHANGED (Git!jobs)
    BY <1>8 DEF Git!Deploy
  <2>3. QED
    BY <2>1, <2>2
<1>9. CASE Git!Push(r)
  <2>1. req'[r].at # "start" /\ \A o \in Requests : o # r => req'[o] = req[o]
    BY <1>9 DEF Git!Push, Git!Answer, Git!Goto, Git!Idle, Git!Asked
  <2>2. UNCHANGED (Git!jobs)
    BY <1>9 DEF Git!Push
  <2>3. QED
    BY <2>1, <2>2
<1>10. QED
  BY <1>1, <1>2, <1>3, <1>4, <1>5, <1>6, <1>7, <1>8, <1>9

(* What an operation asks of the records and the runners is one step of    *)
(* OneJob's, or none of its business.                                      *)
Deploying == {d \in Deployments : run[d] # "idle"}
GitInv == OneUnfinished /\ RunsItsRecord /\ StartsItsRecord

LEMMA LeavingHolds ==
  ASSUME Git!TypeOK, GitInv, LeavesRunners
  PROVE  GitInv' /\ UNCHANGED <<gitState, Deploying>>
<1>1. OneUnfinished' /\ RunsItsRecord'
  BY DEF GitInv, LeavesRunners, OneUnfinished, RunsItsRecord, Git!Unfinished
<1>2. StartsItsRecord'
  BY DEF GitInv, LeavesRunners, StartsItsRecord, Git!At
<1>3. QED
  BY <1>1, <1>2 DEF GitInv, LeavesRunners, Deploying

(* The only record unfinished is the new one.                              *)
LEMMA QueueSubmits ==
  ASSUME Git!TypeOK, GitInv, NEW r \in Requests, Git!Queue(r)
  PROVE  GitInv' /\ Git!Service!Next
<1>1. PICK d \in Deployments :
        /\ gitState[d] = "none" /\ gitState' = [gitState EXCEPT ![d] = "queued"]
        /\ req' = [req EXCEPT ![r] = [req[r] EXCEPT !.at = "start", !.job = d]]
        /\ young' = young \cup {d}
  BY DEF Git!Queue, Git!Record, Git!Now
<1>2. (\A e \in Deployments : ~Git!Unfinished(e)) /\ UNCHANGED run
  BY DEF Git!Queue, Git!Deployable
<1>3. \A e \in Deployments : run[e] = "idle"
  BY <1>2 DEF Git!TypeOK, GitInv, RunsItsRecord, Git!Unfinished
<1>4. /\ \A e \in Deployments : Git!Unfinished(e)' <=> e = d
      /\ gitState'[d] = "queued"
  BY <1>1, <1>2 DEF Git!TypeOK, Git!Unfinished
<1>5. /\ req'[r].at = "start" /\ req'[r].job = d
      /\ \A q \in Requests : q # r => req'[q] = req[q] /\ ~Git!At(q, "start")
  BY <1>1, <1>2 DEF Git!TypeOK, GitInv, StartsItsRecord, Git!Unfinished, Git!At, Git!Asked
<1>6. GitInv'
  BY <1>1, <1>2, <1>3, <1>4, <1>5 DEF GitInv, OneUnfinished, RunsItsRecord, StartsItsRecord,
     Git!At
<1>7. Git!Service!Submit(d)
  BY <1>1, <1>2, <1>3 DEF Git!Service!Submit, Git!Service!Show
<1>8. QED
  BY <1>6, <1>7 DEF Git!Service!Next

(* Its runner is the only one.                                             *)
LEMMA StartLaunches ==
  ASSUME Git!TypeOK, GitInv, NEW r \in Requests, Git!StartUnit(r)
  PROVE  GitInv' /\ Git!Service!Next
<1>1. PICK d \in Deployments : d = req[r].job
  BY DEF Git!StartUnit, GitInv, StartsItsRecord, Git!TypeOK
<1>2. /\ d \in young /\ gitState[d] = "queued" /\ run[d] = "idle"
      /\ \A q \in Requests : q # r /\ Git!At(q, "start") => req[q].job # d
  BY <1>1 DEF Git!StartUnit, GitInv, StartsItsRecord
<1>3. /\ run' = [run EXCEPT ![d] = "wait"]
      /\ UNCHANGED <<gitState, young>>
      /\ req'[r].at # "start" /\ \A q \in Requests : q # r => req'[q] = req[q]
  BY <1>1 DEF Git!StartUnit, Git!AfterStart, Git!Now, Git!Idle, Git!At, Git!TypeOK
<1>4. \A e \in Deployments : e # d => run[e] = "idle"
  BY <1>2 DEF Git!TypeOK, GitInv, OneUnfinished, RunsItsRecord, Git!Unfinished
<1>5. GitInv'
  BY <1>2, <1>3, <1>4 DEF Git!TypeOK, GitInv, OneUnfinished, RunsItsRecord, StartsItsRecord,
     Git!Unfinished, Git!At
<1>6. Deploying = {} /\ Deploying' = {d}
  BY <1>2, <1>3, <1>4 DEF Git!TypeOK, Deploying
<1>7. Git!Service!Launch(d)
  BY <1>2, <1>3, <1>6 DEF Git!Service!Launch, Deploying
<1>8. QED
  BY <1>5, <1>7 DEF Git!Service!Next

(* Nobody else starts the unit that was refused.                           *)
LEMMA RefusalPresumes ==
  ASSUME Git!TypeOK, GitInv, NEW r \in Requests, Git!StartRefused(r)
  PROVE  GitInv' /\ Git!Service!Next
<1>1. PICK d \in Deployments : d = req[r].job
  BY DEF Git!StartRefused, GitInv, StartsItsRecord, Git!TypeOK
<1>2. /\ gitState[d] = "queued" /\ run[d] = "idle"
      /\ \A q \in Requests : q # r /\ Git!At(q, "start") => req[q].job # d
  BY <1>1 DEF Git!StartRefused, GitInv, StartsItsRecord
<1>3. /\ gitState' = [gitState EXCEPT ![d] = "failed"] /\ young' = young \cup {d}
      /\ UNCHANGED run
      /\ req'[r].at # "start" /\ \A q \in Requests : q # r => req'[q] = req[q]
  BY <1>1 DEF Git!StartRefused, Git!AfterStart, Git!Record, Git!Now, Git!Idle, Git!At,
     Git!TypeOK
<1>4. GitInv'
  BY <1>2, <1>3 DEF Git!TypeOK, GitInv, OneUnfinished, RunsItsRecord, StartsItsRecord,
     Git!Unfinished,
     Git!At
<1>5. Git!Service!Presume(d)
  BY <1>2, <1>3 DEF Git!Service!Presume, Git!Service!Show, Git!Service!Unfinished, Deploying
<1>6. QED
  BY <1>4, <1>5 DEF Git!Service!Next

(* With a runner that is gone, all are.                                    *)
LEMMA GoneDies ==
  ASSUME Git!TypeOK, GitInv, NEW d \in Deployments, Git!RunnerGivesUp(d) \/ Git!RunnerDies(d)
  PROVE  GitInv' /\ Git!Service!Next
<1>1. /\ run[d] # "idle" /\ run' = [run EXCEPT ![d] = "idle"]
      /\ UNCHANGED <<gitState, young, req>>
  BY DEF Git!RunnerGivesUp, Git!RunnerDies, Git!Stop
<1>2. \A e \in Deployments : e # d => run[e] = "idle"
  BY <1>1 DEF Git!TypeOK, GitInv, OneUnfinished, RunsItsRecord, Git!Unfinished
<1>3. GitInv'
  BY <1>1, <1>2 DEF Git!TypeOK, GitInv, OneUnfinished, RunsItsRecord, StartsItsRecord,
     Git!Unfinished,
     Git!At
<1>4. Git!Service!Die
  BY <1>1, <1>2 DEF Git!Service!Die, Git!TypeOK, Deploying
<1>5. QED
  BY <1>3, <1>4 DEF Git!Service!Next

(* A record claimed is the one its runner was started for.                 *)
LEMMA ClaimStarts ==
  ASSUME Git!TypeOK, GitInv, NEW d \in Deployments, Git!Claim(d)
  PROVE  GitInv' /\ Git!Service!Next
<1>1. /\ run[d] = "held" /\ gitState[d] = "queued" /\ UNCHANGED req
      /\ young' = young \cup {d}
      /\ \A e \in Deployments : e # d => ~Git!Unfinished(e) /\ run[e] = "idle"
  BY DEF Git!Claim, Git!Record, Git!TypeOK, GitInv, OneUnfinished, RunsItsRecord, Git!Unfinished
<1>2. CASE gitSite # 0 /\ Git!Configured
  <2>1. gitState' = [gitState EXCEPT ![d] = "running"] /\ run' = [run EXCEPT ![d] = "work"]
    BY <1>1, <1>2 DEF Git!Claim, Git!Record
  <2>2. GitInv'
    BY <1>1, <2>1 DEF Git!TypeOK, GitInv, OneUnfinished, RunsItsRecord, StartsItsRecord,
       Git!Unfinished, Git!At
  <2>3. d \in Deploying /\ UNCHANGED Deploying
    BY <1>1, <2>1 DEF Git!TypeOK, Deploying
  <2>4. Git!Service!Start(d)
    BY <1>1, <2>1, <2>3 DEF Git!Service!Start, Git!Service!Show, Deploying
  <2>5. QED
    BY <2>2, <2>4 DEF Git!Service!Next
<1>3. CASE ~(gitSite # 0 /\ Git!Configured)
  <2>1. gitState' = [gitState EXCEPT ![d] = "failed"] /\ run' = [run EXCEPT ![d] = "idle"]
    BY <1>1, <1>3 DEF Git!Claim, Git!Record, Git!Stop
  <2>2. GitInv'
    BY <1>1, <2>1 DEF Git!TypeOK, GitInv, OneUnfinished, RunsItsRecord, StartsItsRecord,
       Git!Unfinished, Git!At
  <2>3. d \in Deploying /\ Deploying' = Deploying \ {d}
    BY <1>1, <2>1 DEF Git!TypeOK, Deploying
  <2>4. Git!Service!End(d)
    BY <1>1, <2>1, <2>3 DEF Git!Service!End, Git!Service!Show, Deploying
  <2>5. QED
    BY <2>2, <2>4 DEF Git!Service!Next
<1>4. QED
  BY <1>2, <1>3

(* Only its own runner says done.                                          *)
LEMMA WorkEnds ==
  ASSUME Git!TypeOK, GitInv, NEW d \in Deployments, Git!Work(d)
  PROVE  GitInv' /\ Git!Service!Next
<1>1. /\ run[d] = "work" /\ gitState[d] = "running" /\ UNCHANGED req
      /\ run' = [run EXCEPT ![d] = "idle"] /\ young' = young \cup {d}
      /\ \A e \in Deployments : e # d => ~Git!Unfinished(e) /\ run[e] = "idle"
  BY DEF Git!Work, Git!Record, Git!Stop, Git!TypeOK, GitInv, OneUnfinished, RunsItsRecord,
     Git!Unfinished
<1>2. PICK outcome \in {"done", "failed"} : gitState' = [gitState EXCEPT ![d] = outcome]
  BY DEF Git!Work, Git!Record
<1>3. GitInv'
  BY <1>1, <1>2 DEF Git!TypeOK, GitInv, OneUnfinished, RunsItsRecord, StartsItsRecord,
     Git!Unfinished,
     Git!At
<1>4. d \in Deploying /\ Deploying' = Deploying \ {d}
  BY <1>1 DEF Git!TypeOK, Deploying
<1>5. Git!Service!End(d)
  BY <1>1, <1>2, <1>4 DEF Git!Service!End, Git!Service!Show, Git!Service!Ended, Deploying
<1>6. QED
  BY <1>3, <1>5 DEF Git!Service!Next

(* A record is young until its unit has been started.                      *)
LEMMA PruneClears ==
  ASSUME Git!TypeOK, GitInv, NEW d \in Deployments, Git!PruneRecord(d)
  PROVE  GitInv' /\ Git!Service!Next
<1>1. /\ d \notin young /\ UNCHANGED <<run, req>> /\ young \subseteq young'
      /\ \A r \in Requests : Git!At(r, "start") => req[r].job # d
  BY DEF Git!PruneRecord, Git!Record, GitInv, StartsItsRecord
<1>2. CASE Git!Unfinished(d) /\ run[d] = "idle" /\ Git!Record(d, "failed")
  <2>1. GitInv'
    BY <1>1, <1>2 DEF Git!Record, Git!TypeOK, GitInv, OneUnfinished, RunsItsRecord,
       StartsItsRecord,
       Git!Unfinished, Git!At
  <2>2. Git!Service!Presume(d)
    BY <1>1, <1>2 DEF Git!Record, Git!Unfinished, Git!Service!Presume, Git!Service!Show,
       Git!Service!Unfinished,
       Deploying
  <2>3. QED
    BY <2>1, <2>2 DEF Git!Service!Next
<1>3. CASE gitState[d] \in {"done", "failed"} /\ gitState' = [gitState EXCEPT ![d] = "gone"]
  <2>1. GitInv'
    BY <1>1, <1>3 DEF Git!TypeOK, GitInv, OneUnfinished, RunsItsRecord, StartsItsRecord,
       Git!Unfinished, Git!At
  <2>2. run[d] = "idle"
    BY <1>3 DEF Git!TypeOK, GitInv, RunsItsRecord
  <2>3. Git!Service!Remove(d)
    BY <1>1, <1>3, <2>2 DEF Git!Service!Remove, Git!Service!Show, Git!Service!Ended, Deploying
  <2>4. QED
    BY <2>1, <2>3 DEF Git!Service!Next
<1>4. QED
  BY <1>2, <1>3 DEF Git!PruneRecord

(* Two steps in between that OneJob has no name for.                       *)
LEMMA UnnamedSteps ==
  ASSUME Git!TypeOK, GitInv, NEW d \in Deployments, Git!RunnerTakesLock(d) \/ Git!Age(d)
  PROVE  GitInv' /\ UNCHANGED <<gitState, Deploying>>
<1>1. CASE Git!RunnerTakesLock(d)
  <2>1. /\ run[d] = "wait" /\ run' = [run EXCEPT ![d] = "held"]
        /\ UNCHANGED <<gitState, young, req>>
    BY <1>1 DEF Git!RunnerTakesLock
  <2>2. GitInv'
    BY <2>1 DEF Git!TypeOK, GitInv, OneUnfinished, RunsItsRecord, StartsItsRecord,
       Git!Unfinished, Git!At
  <2>3. Deploying' = Deploying
    BY <2>1 DEF Git!TypeOK, Deploying
  <2>4. QED
    BY <2>1, <2>2, <2>3
<1>2. CASE Git!Age(d)
  <2>1. /\ young' = young \ {d} /\ UNCHANGED <<gitState, run, req>>
        /\ \A r \in Requests : Git!At(r, "start") => req[r].job # d
    BY <1>2 DEF Git!Age
  <2>2. GitInv'
    BY <2>1 DEF Git!TypeOK, GitInv, OneUnfinished, RunsItsRecord, StartsItsRecord,
       Git!Unfinished, Git!At
  <2>3. QED
    BY <2>1, <2>2 DEF Deploying
<1>3. QED
  BY <1>1, <1>2

(* The service this is, and the invariant that shows it.                   *)
LEMMA DeploymentStarts ==
  ASSUME Git!ConstantsOK, Git!Init
  PROVE  Git!TypeOK /\ GitInv /\ Git!Service!Init
<1>1. Git!Idle \in Git!Asked /\ Git!NoConfig \in Git!Configs
  BY DEF Git!Idle, Git!Asked, Git!Verbs, Git!NoConfig, Git!Configs, Git!ConstantsOK
<1>2. Git!TypeOK
  BY <1>1 DEF Git!Init, Git!TypeOK, Git!ConstantsOK
<1>3. GitInv
  BY DEF Git!Init, GitInv, OneUnfinished, RunsItsRecord, StartsItsRecord, Git!Unfinished,
     Git!At, Git!Idle
<1>4. Git!Service!Init
  BY DEF Git!Init, Git!Service!Init
<1>5. QED
  BY <1>2, <1>3, <1>4

LEMMA DeploymentGoesOn ==
  ASSUME Git!ConstantsOK, Git!TypeOK, GitInv, [Git!Next]_(Git!vars)
  PROVE  Git!TypeOK' /\ GitInv' /\ [Git!Service!Next]_(Git!Service!vars)
<1>1. Git!TypeOK'
  BY DeploymentTyped DEF GitInv
<1>2. SUFFICES GitInv' /\ (Git!Service!Next \/ UNCHANGED <<gitState, Deploying>>)
  BY <1>1 DEF Git!Service!vars, Deploying
<1>3. CASE Git!CreateSite \/ Git!DeleteSite \/ Git!Forget \/ Git!PruneForgets
               \/ UNCHANGED (Git!vars)
  <2>1. LeavesRunners
    BY <1>3 DEF Git!CreateSite, Git!DeleteSite, Git!Forget, Git!PruneForgets, Git!vars,
       Git!jobs, LeavesRunners, Git!At
  <2>2. QED
    BY <2>1, LeavingHolds
<1>4. ASSUME NEW r \in Requests,
             (\E verb \in Git!Edits : Git!ReadConfig(r, verb)) \/ Git!Deploy(r) \/ Git!Push(r)
                 \/ Git!RequestStep(r) \/ Git!Killed(r)
      PROVE  GitInv' /\ (Git!Service!Next \/ UNCHANGED <<gitState, Deploying>>)
  <2>1. CASE Git!Queue(r) \/ Git!StartUnit(r) \/ Git!StartRefused(r)
    BY <2>1, QueueSubmits, StartLaunches, RefusalPresumes
  <2>2. CASE ~(Git!Queue(r) \/ Git!StartUnit(r) \/ Git!StartRefused(r))
    <3>1. LeavesRunners
      BY <1>4, <2>2, LeavingSteps DEF Git!RequestStep
    <3>2. QED
      BY <3>1, LeavingHolds
  <2>3. QED
    BY <2>1, <2>2
<1>5. ASSUME NEW d \in Deployments, Git!RunnerStep(d) \/ Git!RunnerDies(d) \/ Git!Age(d)
          \/ Git!PruneRecord(d)
      PROVE  GitInv' /\ (Git!Service!Next \/ UNCHANGED <<gitState, Deploying>>)
  BY <1>5, GoneDies, ClaimStarts, WorkEnds, PruneClears, UnnamedSteps DEF Git!RunnerStep
<1>6. QED
  BY <1>3, <1>4, <1>5 DEF Git!Next

(* Whatever is saved, pushed, refused, killed and pruned, and however many *)
(* sites, operators and runners there are: a site's deployments are one at *)
(* a time, each goes forward to one outcome, and only its own runner says  *)
(* done.                                                                   *)
THEOREM OneAtATime == Git!Spec => Git!ImplementsOneJob
<1>1. Git!Init => Git!TypeOK /\ GitInv /\ Git!Service!Init
  BY Constants, DeploymentStarts
<1>2. Git!TypeOK /\ GitInv /\ [Git!Next]_(Git!vars)
        => Git!TypeOK' /\ GitInv' /\ [Git!Service!Next]_(Git!Service!vars)
  BY Constants, DeploymentGoesOn
<1>3. QED
  BY <1>1, <1>2, PTL DEF Git!Spec, Git!ImplementsOneJob, Git!Service!Spec

(* A site's deployments are OneJob's, of any operators, pushes, runners and*)
(* recreations of the site: those of the other components leave them alone.*)
THEOREM OneDeploymentHolds == Spec => OneDeployment
<1> DEFINE Holds == Git!TypeOK /\ GitInv
<1>1. Init => Holds /\ Git!Service!Init
  BY Constants, DeploymentStarts DEF Init
<1>2. Holds /\ [Next]_vars => Holds' /\ [Git!Service!Next]_(Git!Service!vars)
  <2>1. SUFFICES ASSUME Holds, [Next]_vars
                 PROVE  Holds' /\ [Git!Service!Next]_(Git!Service!vars)
    OBVIOUS
  <2>2. [Git!Next]_(Git!vars)
    BY <2>1 DEF Next, vars, gitVars, Git!vars
  <2>3. QED
    BY <2>1, <2>2, Constants, DeploymentGoesOn
<1>3. QED
  BY <1>1, <1>2, PTL DEF Spec, OneDeployment, Git!ImplementsOneJob, Git!Service!Spec
==============================================================================
