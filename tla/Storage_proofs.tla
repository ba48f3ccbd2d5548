--------------------------- MODULE Storage_proofs ---------------------------
(***************************************************************************)
(* What Storage promises for any packages, names, settings and callers.    *)
(***************************************************************************)
EXTENDS Storage, Integers, TLAPS

-----------------------------------------------------------------------------
(* The packages *)

\* The packages that go by the name of p.
Class(p) == {q \in Package : NameOf[q] = NameOf[p]}
\* What a file of p can hold, unless it is gone.
Content(p) == IF mode = "minimised" THEN {p} ELSE Class(p)

InHandBefore == {"built", "uploaded", "packaged", "shipped", "here"}

\* Files, objects and couriers have the right content, if any; a link means that there is
\* an object.
Right ==
  \A p \in Package :
    /\ disk[Path(p)] \in {Nothing} \cup Content(p)
    /\ object[NameOf[p]] \in {Nothing} \cup Class(p)
    /\ sent[p] \in {Nothing} \cup Content(p)
    /\ link[p] # "none" => object[NameOf[p]] # Nothing

\* What holds of a package at each place of its way.
Placed ==
  \A p \in Package :
    /\ stage[p] \in {"none", "requested", "built", "uploaded", "packaged"} => sent[p] = Nothing
    /\ record[p] \in {"ok", "offloaded"} => stage[p] = "over"
    /\ (stage[p] \in InHandBefore \/ record[p] = "ok") /\ ~Shared(p) => disk[Path(p)] # Nothing
    /\ stage[p] = "offloaded" \/ record[p] = "offloaded" => Elsewhere(p)
    /\ (stage[p] \notin {"none", "requested", "over"} \/ record[p] # "none") /\ ~Shared(p) =>
         disk[Path(p)] # Nothing \/ Elsewhere(p)

LEMMA Classes ==
  ASSUME NEW p \in Package
  PROVE  Class(p) = {p} \cup Namesakes(p) /\ Content(p) \subseteq Class(p) /\ p \in Content(p)
         /\ Content(p) \subseteq Package
BY DEF Class, Content, Namesakes

\* Two packages share a file if they have one name and files are not temporary.
LEMMA Paths ==
  ASSUME NEW p \in Package, NEW q \in Package, Path(p) = Path(q), p # q
  PROVE  mode # "minimised" /\ NameOf[p] = NameOf[q] /\ Content(p) = Content(q) /\ p \in Content(q)
         /\ (mode = "released" => Shared(q))
BY DEF Path, Content, Class, Shared, Namesakes

LEMMA PathType ==
  ASSUME TypeOK, NEW p \in Package
  PROVE  Path(p) \in Package \cup Name /\ NameOf[p] \in Name
BY PackagesAssumption DEF TypeOK, Path, NameOf, mode

LEMMA SoundSoFar == TypeOK /\ Right /\ Placed => SoleCopyIsKept /\ ReadersGetIt
<1> SUFFICES ASSUME TypeOK, Right, Placed PROVE SoleCopyIsKept /\ ReadersGetIt
  OBVIOUS
<1>1. ASSUME NEW p \in Package,
             (stage[p] \notin {"none", "requested", "over"} \/ record[p] # "none") /\ ~Shared(p)
      PROVE  ({disk[Path(p)], object[NameOf[p]]} \cup {sent[q] : q \in Package})
               \cap ({p} \cup Namesakes(p)) # {}
  <2>1. disk[Path(p)] # Nothing \/ link[p] # "none" \/ sent[p] # Nothing
    BY <1>1 DEF Placed, Elsewhere
  <2>2. disk[Path(p)] \in Class(p) \/ object[NameOf[p]] \in Class(p) \/ sent[p] \in Class(p)
    BY <2>1, Classes DEF Right
  <2> QED
    BY <2>2, Classes
<1>2. ASSUME NEW p \in Package, Delivered(p), ~Shared(p), link[p] # "expired"
      PROVE  \/ Download(p) \in {p} \cup Namesakes(p)
             \/ Download(p) = Nothing /\ sent[p] # Nothing
  <2>1. /\ disk[Path(p)] \in {Nothing} \cup Class(p) /\ object[NameOf[p]] \in {Nothing} \cup Class(p)
        /\ link[p] # "none" => object[NameOf[p]] # Nothing
    BY Classes DEF Right
  <2>2. disk[Path(p)] # Nothing \/ link[p] # "none" \/ sent[p] # Nothing
    BY <1>2 DEF Placed, Elsewhere, Delivered
  <2>3. link[p] \in {"none", "lasting", "signed"}
    BY <1>2 DEF TypeOK
  <2> QED
    BY <2>1, <2>2, <2>3, Classes DEF Download, Url
<1>3. ASSUME NEW p \in Package
      PROVE  sent[p] \in {p, Nothing} \/ (mode # "minimised" /\ sent[p] \in Namesakes(p))
  BY Classes DEF Right, Content
<1> QED
  BY <1>1, <1>2, <1>3 DEF SoleCopyIsKept, ReadersGetIt

Packaged == TypeOK /\ Right /\ Placed

LEMMA PackagedInit == Init => Packaged
<1> SUFFICES ASSUME Init PROVE Packaged
  OBVIOUS
<1>1. TypeOK
  BY DEF Init, TypeOK
<1>2. \A p \in Package : disk[Path(p)] = Nothing /\ object[NameOf[p]] = Nothing
  BY <1>1, PathType DEF Init
<1>3. Right
  BY <1>2 DEF Init, Right
<1>4. Placed
  BY DEF Init, Placed, InHandBefore
<1> QED
  BY <1>1, <1>3, <1>4 DEF Packaged

\* The steps that change neither a file nor an object, nor what a courier took.
LEMMA Rests ==
  ASSUME Packaged, TypeOK', UNCHANGED <<settings, disk, object, sent>>,
         \A p \in Package : (link[p] = "none") = (link'[p] = "none"),
         \A p \in Package :
           /\ stage'[p] = stage[p] \/ (stage[p] = "none" /\ stage'[p] = "requested")
                \/ (stage[p] \notin {"none", "over"} /\ stage'[p] = "over")
           /\ record'[p] = record[p] \/ (record[p] # "none" /\ record'[p] = "wiped")
  PROVE  Packaged'
<1>1. /\ \A p \in Package : Path(p)' = Path(p) /\ Class(p)' = Class(p) /\ Content(p)' = Content(p)
      /\ \A p \in Package : Shared(p)' = Shared(p) /\ NameOf[p]' = NameOf[p]
      /\ \A p \in Package : Elsewhere(p)' = Elsewhere(p)
  BY DEF Path, Class, Content, Shared, Namesakes, Elsewhere, NameOf, mode
<1>2. Right'
  BY <1>1 DEF Packaged, Right
<1>3. ASSUME NEW p \in Package
      PROVE  /\ stage'[p] \in {"none", "requested", "built", "uploaded", "packaged"} => sent'[p] = Nothing
             /\ record'[p] \in {"ok", "offloaded"} => stage'[p] = "over"
             /\ (stage'[p] \in InHandBefore \/ record'[p] = "ok") /\ ~Shared(p)' => disk'[Path(p)'] # Nothing
             /\ stage'[p] = "offloaded" \/ record'[p] = "offloaded" => Elsewhere(p)'
             /\ (stage'[p] \notin {"none", "requested", "over"} \/ record'[p] # "none") /\ ~Shared(p)' =>
                  disk'[Path(p)'] # Nothing \/ Elsewhere(p)'
  BY <1>1, <1>3 DEF Packaged, Placed, InHandBefore
<1>4. Placed'
  BY <1>3 DEF Placed
<1> QED
  BY <1>2, <1>4 DEF Packaged

LEMMA TypeNext ==
  ASSUME TypeOK, UNCHANGED settings, PackageStep \/ UNCHANGED packageVars \/ DropAll
  PROVE  TypeOK'
<1> USE DEF TypeOK, Go
<1>1. ASSUME NEW p \in Package, Request(p) PROVE TypeOK'
  BY <1>1 DEF Request
<1>2. ASSUME NEW p \in Package, Build(p) PROVE TypeOK'
  BY <1>2, PathType DEF Build
<1>3. ASSUME NEW p \in Package, Upload(p) PROVE TypeOK'
  <2>1. disk[Path(p)] \in Package \cup {Nothing} /\ NameOf[p] \in Name
    BY PathType
  <2>2. Urls \subseteq {"lasting", "signed", "none"}
    BY DEF Urls
  <2>3. object' \in [Name -> Package \cup {Nothing}]
    BY <1>3, <2>1 DEF Upload
  <2>4. link' \in [Package -> {"none", "lasting", "signed", "expired"}]
    BY <1>3, <2>2 DEF Upload
  <2> QED
    BY <1>3, <2>3, <2>4 DEF Upload
<1>4. ASSUME NEW p \in Package, Save(p) PROVE TypeOK'
  BY <1>4 DEF Save
<1>5. ASSUME NEW p \in Package, Ship(p) PROVE TypeOK'
  <2>1. disk[Path(p)] \in Package \cup {Nothing}
    BY PathType
  <2> QED
    BY <1>5, <2>1 DEF Ship
<1>6. ASSUME NEW p \in Package, Reclaim(p) PROVE TypeOK'
  BY <1>6 DEF Reclaim
<1>7. ASSUME NEW p \in Package, Confirm(p) PROVE TypeOK'
  BY <1>7 DEF Confirm
<1>8. ASSUME NEW p \in Package, Drop(p) \/ Expire(p) PROVE TypeOK'
  BY <1>8 DEF Drop, Expire
<1>9. CASE Wipe
  BY <1>9 DEF Wipe
<1>10. CASE DropAll
  BY <1>10 DEF DropAll
<1>11. CASE UNCHANGED packageVars
  BY <1>11 DEF packageVars
<1> QED
  BY <1>1, <1>2, <1>3, <1>4, <1>5, <1>6, <1>7, <1>8, <1>9, <1>10, <1>11 DEF PackageStep

\* The names and paths follow from the configuration, which stays.
LEMMA Fixed ==
  ASSUME UNCHANGED settings, NEW p \in Package
  PROVE  /\ Path(p)' = Path(p) /\ NameOf[p]' = NameOf[p] /\ mode' = mode
         /\ Class(p)' = Class(p) /\ Content(p)' = Content(p) /\ Shared(p)' = Shared(p)
BY DEF Path, Class, Content, Shared, Namesakes, NameOf, mode

\* Right and Placed in the next state, once names and paths are known to stay.
LEMMA Onward ==
  ASSUME UNCHANGED settings, TypeOK',
         \A p \in Package :
           /\ disk'[Path(p)] \in {Nothing} \cup Content(p)
           /\ object'[NameOf[p]] \in {Nothing} \cup Class(p)
           /\ sent'[p] \in {Nothing} \cup Content(p)
           /\ link'[p] # "none" => object'[NameOf[p]] # Nothing,
         \A p \in Package :
           /\ stage'[p] \in {"none", "requested", "built", "uploaded", "packaged"} => sent'[p] = Nothing
           /\ record'[p] \in {"ok", "offloaded"} => stage'[p] = "over"
           /\ (stage'[p] \in InHandBefore \/ record'[p] = "ok") /\ ~Shared(p) => disk'[Path(p)] # Nothing
           /\ stage'[p] = "offloaded" \/ record'[p] = "offloaded" => link'[p] # "none" \/ sent'[p] # Nothing
           /\ (stage'[p] \notin {"none", "requested", "over"} \/ record'[p] # "none") /\ ~Shared(p) =>
                disk'[Path(p)] # Nothing \/ link'[p] # "none" \/ sent'[p] # Nothing
  PROVE  Packaged'
<1>1. Right'
  BY Fixed DEF Right
<1>2. Placed'
  BY Fixed DEF Placed, Elsewhere
<1> QED
  BY <1>1, <1>2 DEF Packaged

\* What is known before a step, in the form Onward wants it after it.
LEMMA Before ==
  ASSUME Packaged, NEW p \in Package
  PROVE  /\ disk[Path(p)] \in {Nothing} \cup Content(p)
         /\ object[NameOf[p]] \in {Nothing} \cup Class(p)
         /\ sent[p] \in {Nothing} \cup Content(p)
         /\ link[p] # "none" => object[NameOf[p]] # Nothing
         /\ stage[p] \in {"none", "requested", "built", "uploaded", "packaged"} => sent[p] = Nothing
         /\ record[p] \in {"ok", "offloaded"} => stage[p] = "over"
         /\ (stage[p] \in InHandBefore \/ record[p] = "ok") /\ ~Shared(p) => disk[Path(p)] # Nothing
         /\ stage[p] = "offloaded" \/ record[p] = "offloaded" => link[p] # "none" \/ sent[p] # Nothing
         /\ (stage[p] \notin {"none", "requested", "over"} \/ record[p] # "none") /\ ~Shared(p) =>
              disk[Path(p)] # Nothing \/ link[p] # "none" \/ sent[p] # Nothing
         /\ Path(p) \in Package \cup Name /\ NameOf[p] \in Name /\ Nothing \notin Package
BY PathType, PackagesAssumption DEF Packaged, Right, Placed, Elsewhere

LEMMA BuildStep ==
  ASSUME Packaged, TypeOK', UNCHANGED settings, NEW p \in Package, Build(p)
  PROVE  Packaged'
<1>1. /\ disk' = [disk EXCEPT ![Path(p)] = p] /\ stage' = [stage EXCEPT ![p] = "built"]
      /\ stage[p] = "requested" /\ UNCHANGED <<object, link, sent, record>>
      /\ disk \in [Package \cup Name -> Package \cup {Nothing}]
      /\ DOMAIN stage = Package /\ Path(p) \in Package \cup Name /\ p # Nothing
  BY PathType, PackagesAssumption DEF Build, Go, Packaged, TypeOK
<1>2. ASSUME NEW q \in Package
      PROVE  disk'[Path(q)] \in {Nothing} \cup Content(q) /\ (disk[Path(q)] # Nothing => disk'[Path(q)] # Nothing)
             /\ (q = p => disk'[Path(q)] # Nothing)
  <2>1. CASE Path(q) = Path(p)
    <3>1. p \in Content(q)
      BY <2>1, Paths, Classes
    <3> QED
      BY <1>1, <2>1, <3>1
  <2>2. CASE Path(q) # Path(p)
    BY <1>1, <2>2, Before
  <2> QED
    BY <2>1, <2>2
<1>3. ASSUME NEW q \in Package
      PROVE  /\ stage'[q] = IF q = p THEN "built" ELSE stage[q]
             /\ record'[q] = record[q] /\ link'[q] = link[q] /\ sent'[q] = sent[q]
  BY <1>1
<1> QED
  BY <1>1, <1>2, <1>3, Before, Onward DEF InHandBefore

LEMMA UploadStep ==
  ASSUME Packaged, TypeOK', UNCHANGED settings, NEW p \in Package, Upload(p)
  PROVE  Packaged'
<1>1. /\ stage' = [stage EXCEPT ![p] = "uploaded"] /\ stage[p] = "built" /\ UNCHANGED <<disk, sent, record>>
      /\ DOMAIN stage = Package /\ object \in [Name -> Package \cup {Nothing}]
      /\ DOMAIN link = Package /\ NameOf[p] \in Name
  BY PathType DEF Upload, Go, Packaged, TypeOK
<1>2. ASSUME NEW q \in Package
      PROVE  /\ object'[NameOf[q]] \in {Nothing} \cup Class(q)
             /\ link'[q] # "none" => object'[NameOf[q]] # Nothing
             /\ link[q] # "none" /\ q # p => link'[q] # "none"
  <2>1. CASE UNCHANGED <<object, link>>
    BY <2>1, Before
  <2>2. ASSUME disk[Path(p)] # Nothing, object' = [object EXCEPT ![NameOf[p]] = disk[Path(p)]],
               NEW u, link' = [link EXCEPT ![p] = u]
        PROVE  /\ object'[NameOf[q]] \in {Nothing} \cup Class(q)
               /\ link'[q] # "none" => object'[NameOf[q]] # Nothing
               /\ link[q] # "none" /\ q # p => link'[q] # "none"
    <3>1. disk[Path(p)] \in Class(p)
      BY <2>2, Before, Classes
    <3>2. NameOf[q] = NameOf[p] => Class(q) = Class(p)
      BY DEF Class
    <3>3. NameOf[q] = NameOf[p] => object'[NameOf[q]] = disk[Path(p)]
      BY <1>1, <2>2
    <3>4. NameOf[q] # NameOf[p] => object'[NameOf[q]] = object[NameOf[q]] /\ q # p
      BY <1>1, <2>2, Before
    <3>5. q # p => link'[q] = link[q]
      BY <1>1, <2>2
    <3> QED
      BY <2>2, <3>1, <3>2, <3>3, <3>4, <3>5, Before
  <2> QED
    BY <2>1, <2>2 DEF Upload
<1>3. ASSUME NEW q \in Package
      PROVE  /\ stage'[q] = IF q = p THEN "uploaded" ELSE stage[q]
             /\ record'[q] = record[q] /\ sent'[q] = sent[q] /\ disk'[Path(q)] = disk[Path(q)]
  BY <1>1
<1>4. stage[p] \in InHandBefore /\ record[p] \notin {"ok", "offloaded"}
  BY <1>1, Before DEF InHandBefore
<1> QED
  BY <1>1, <1>2, <1>3, <1>4, Before, Onward DEF InHandBefore

LEMMA SaveStep ==
  ASSUME Packaged, TypeOK', UNCHANGED settings, NEW p \in Package, Save(p)
  PROVE  Packaged'
<1>1. /\ stage' = [stage EXCEPT ![p] = "packaged"] /\ record' = [record EXCEPT ![p] = "packaged"]
      /\ stage[p] = "uploaded" /\ UNCHANGED <<disk, object, link, sent>>
      /\ DOMAIN stage = Package /\ DOMAIN record = Package
  BY DEF Save, Go, Packaged, TypeOK
<1>2. ASSUME NEW q \in Package
      PROVE  /\ stage'[q] = IF q = p THEN "packaged" ELSE stage[q]
             /\ record'[q] = IF q = p THEN "packaged" ELSE record[q]
             /\ link'[q] = link[q] /\ sent'[q] = sent[q]
             /\ disk'[Path(q)] = disk[Path(q)] /\ object'[NameOf[q]] = object[NameOf[q]]
  BY <1>1
<1> QED
  BY <1>1, <1>2, Before, Onward DEF InHandBefore

LEMMA ShipStep ==
  ASSUME Packaged, TypeOK', UNCHANGED settings, NEW p \in Package, Ship(p)
  PROVE  Packaged'
<1>1. PICK taken \in {disk[Path(p)], Nothing} : sent' = [sent EXCEPT ![p] = taken]
  BY DEF Ship
<1>2. /\ stage' = [stage EXCEPT ![p] = "shipped"] /\ stage[p] = "packaged"
      /\ UNCHANGED <<disk, object, link, record>> /\ DOMAIN stage = Package /\ DOMAIN sent = Package
  BY DEF Ship, Go, Packaged, TypeOK
<1>3. ASSUME NEW q \in Package
      PROVE  /\ stage'[q] = IF q = p THEN "shipped" ELSE stage[q]
             /\ sent'[q] = IF q = p THEN taken ELSE sent[q]
             /\ record'[q] = record[q] /\ link'[q] = link[q]
             /\ disk'[Path(q)] = disk[Path(q)] /\ object'[NameOf[q]] = object[NameOf[q]]
  BY <1>1, <1>2
<1>4. sent[p] = Nothing /\ taken \in {Nothing} \cup Content(p) /\ stage[p] \in InHandBefore
  BY <1>2, Before DEF InHandBefore
<1> QED
  BY <1>2, <1>3, <1>4, Before, Onward DEF InHandBefore

LEMMA ReclaimStep ==
  ASSUME Packaged, TypeOK', UNCHANGED settings, NEW p \in Package, Reclaim(p)
  PROVE  Packaged'
<1>1. stage[p] = "shipped" /\ UNCHANGED <<object, link, sent, record>> /\ DOMAIN stage = Package
      /\ DOMAIN disk = Package \cup Name
  BY DEF Reclaim, Packaged, TypeOK
<1>2. CASE disk' = disk /\ stage' = [stage EXCEPT ![p] = "here"]
  <2>1. ASSUME NEW q \in Package
        PROVE  /\ stage'[q] = IF q = p THEN "here" ELSE stage[q]
               /\ record'[q] = record[q] /\ link'[q] = link[q] /\ sent'[q] = sent[q]
               /\ disk'[Path(q)] = disk[Path(q)] /\ object'[NameOf[q]] = object[NameOf[q]]
    BY <1>1, <1>2
  <2> QED
    BY <1>1, <2>1, Before, Onward DEF InHandBefore
<1>3. CASE /\ mode # "kept" /\ (link[p] # "none" \/ sent[p] # Nothing)
           /\ disk' = [disk EXCEPT ![Path(p)] = Nothing]
           /\ stage' = [stage EXCEPT ![p] = "offloaded"]
  <2>1. ASSUME NEW q \in Package
        PROVE  /\ stage'[q] = IF q = p THEN "offloaded" ELSE stage[q]
               /\ record'[q] = record[q] /\ link'[q] = link[q] /\ sent'[q] = sent[q]
               /\ object'[NameOf[q]] = object[NameOf[q]]
    BY <1>1, <1>3
  <2>2. ASSUME NEW q \in Package, q # p, ~Shared(q) PROVE Path(q) # Path(p)
    <3>1. SUFFICES ASSUME Path(q) = Path(p) PROVE FALSE
      OBVIOUS
    <3>2. mode # "minimised" /\ (mode = "released" => Shared(q))
      BY <2>2, <3>1, Paths
    <3>3. mode \in {"minimised", "released", "kept"}
      BY PackagesAssumption DEF Packaged, TypeOK, mode
    <3> QED
      BY <1>3, <2>2, <3>2, <3>3
  <2>3. ASSUME NEW q \in Package
        PROVE  /\ disk'[Path(q)] \in {Nothing, disk[Path(q)]}
               /\ ~Shared(q) /\ q # p => disk'[Path(q)] = disk[Path(q)]
    BY <1>1, <1>3, <2>2, Before
  <2>4. record[p] \notin {"ok", "offloaded"}
    BY <1>1, Before
  <2> QED
    BY <1>1, <1>3, <2>1, <2>3, <2>4, Before, Onward DEF InHandBefore
<1> QED
  BY <1>2, <1>3 DEF Reclaim, Go, Elsewhere

LEMMA ConfirmStep ==
  ASSUME Packaged, TypeOK', UNCHANGED settings, NEW p \in Package, Confirm(p)
  PROVE  Packaged'
<1>1. /\ stage' = [stage EXCEPT ![p] = "over"] /\ stage[p] \in {"offloaded", "here"}
      /\ UNCHANGED <<disk, object, link, sent>> /\ DOMAIN stage = Package /\ DOMAIN record = Package
  BY DEF Confirm, Go, Packaged, TypeOK
<1>2. ASSUME NEW q \in Package
      PROVE  /\ stage'[q] = IF q = p THEN "over" ELSE stage[q]
             /\ q # p => record'[q] = record[q]
             /\ link'[q] = link[q] /\ sent'[q] = sent[q]
             /\ disk'[Path(q)] = disk[Path(q)] /\ object'[NameOf[q]] = object[NameOf[q]]
  BY <1>1 DEF Confirm
<1>3. record'[p] = IF record[p] = "wiped" THEN "wiped" ELSE IF stage[p] = "here" THEN "ok" ELSE "offloaded"
  BY <1>1 DEF Confirm
<1> QED
  BY <1>1, <1>2, <1>3, Before, Onward DEF InHandBefore

LEMMA PackagedNext ==
  ASSUME Packaged, UNCHANGED settings, PackageStep \/ UNCHANGED packageVars \/ DropAll
  PROVE  Packaged'
<1>1. TypeOK'
  BY TypeNext DEF Packaged
<1>2. ASSUME NEW p \in Package, Request(p) \/ Drop(p) PROVE Packaged'
  <2>1. /\ UNCHANGED <<disk, object, link, sent, record>> /\ DOMAIN stage = Package
        /\ \/ stage[p] = "none" /\ stage' = [stage EXCEPT ![p] = "requested"]
           \/ stage[p] \notin {"none", "over"} /\ stage' = [stage EXCEPT ![p] = "over"]
    BY <1>2 DEF Request, Drop, InHand, Go, Packaged, TypeOK
  <2> QED
    BY <1>1, <2>1, Rests
<1>3. ASSUME NEW p \in Package, Expire(p) PROVE Packaged'
  <2>1. /\ UNCHANGED <<stage, disk, object, sent, record>> /\ DOMAIN link = Package
        /\ link[p] = "signed" /\ link' = [link EXCEPT ![p] = "expired"]
    BY <1>3 DEF Expire, Packaged, TypeOK
  <2> QED
    BY <1>1, <2>1, Rests
<1>4. CASE Wipe
  <2>1. /\ UNCHANGED <<stage, disk, object, link, sent>>
        /\ \A p \in Package : record'[p] = IF record[p] = "none" THEN "none" ELSE "wiped"
    BY <1>4 DEF Wipe
  <2> QED
    BY <1>1, <2>1, Rests
<1>5. CASE DropAll
  <2>1. /\ UNCHANGED <<disk, object, link, sent, record>>
        /\ \A p \in Package : stage'[p] = IF stage[p] \notin {"none", "over"} THEN "over" ELSE stage[p]
    BY <1>5 DEF DropAll, InHand
  <2> QED
    BY <1>1, <2>1, Rests
<1>6. CASE UNCHANGED packageVars
  BY <1>1, <1>6, Rests DEF packageVars
<1>7. ASSUME NEW p \in Package, Build(p) \/ Upload(p) \/ Save(p) \/ Ship(p) \/ Reclaim(p) \/ Confirm(p)
      PROVE  Packaged'
  BY <1>1, <1>7, BuildStep, UploadStep, SaveStep, ShipStep, ReclaimStep, ConfirmStep
<1> QED
  BY <1>2, <1>3, <1>4, <1>5, <1>6, <1>7 DEF PackageStep

-----------------------------------------------------------------------------
(* The prices *)

\* What the property rests on, part by part: whoever is to upload the cached history
\* is known, what counts as saved is in the store, and a file that is torn under an
\* uploader's hands is in those of a writer.
ToCome == saved = "no" => \E c \in Caller : fetching[c] = "putting"
Saved == saved = "yes" /\ cache = "whole" => copy = "whole"
InHands == cache = "torn" /\ (\E c \in Caller : fetching[c] = "putting")
             => \E c \in Caller : fetching[c] = "writing"
NoFile == Prices!InMemory => cache # "torn" /\ ~judged

Cached ==
  /\ settings \in Settings /\ Prices!TypeOK
  /\ ToCome /\ Saved /\ InHands /\ NoFile

LEMMA CachedInit == Init /\ Prices!Init => Cached
BY DEF Init, Prices!Init, Cached, Prices!TypeOK, ToCome, Saved, InHands, NoFile

Step == {"no", "asking", "writing", "putting"}

\* Where the fetch of c goes, nobody else's moves.
LEMMA Moved ==
  ASSUME fetching \in [Caller -> Step], NEW c \in Caller,
         \/ Prices!Return(c) /\ frame \in BOOLEAN
         \/ \E step \in Step : Prices!Proceed(c, step) /\ frame \in BOOLEAN
  PROVE  /\ fetching' \in [Caller -> Step] /\ frame' \in BOOLEAN
         /\ \A d \in Caller \ {c} : fetching'[d] = fetching[d]
BY DEF Prices!Return, Prices!Proceed, Step

LEMMA CachedNext ==
  ASSUME Cached, UNCHANGED settings, Prices!PriceStep \/ UNCHANGED priceVars \/ Prices!Forget
  PROVE  Cached'
<1>a. /\ settings \in Settings /\ Prices!TypeOK /\ ToCome /\ Saved /\ InHands /\ NoFile
      /\ fetching \in [Caller -> Step] /\ frame \in BOOLEAN
  BY DEF Cached, Prices!TypeOK, Step
<1>b. settings' \in Settings /\ Prices!InMemory' = Prices!InMemory
  BY <1>a DEF Prices!InMemory
<1> USE <1>a, <1>b DEF Cached, Prices!TypeOK, ToCome, Saved, InHands, NoFile
<1>1. ASSUME NEW c \in Caller, Prices!FromCache(c) PROVE Cached'
  <2>1. /\ fetching' \in [Caller -> Step] /\ frame' \in BOOLEAN
        /\ \A d \in Caller \ {c} : fetching'[d] = fetching[d]
    BY <1>1, Moved DEF Prices!FromCache, Step
  <2>2. fetching[c] = "no" /\ fetching'[c] \in {"no", "asking"}
    BY <1>1 DEF Prices!FromCache, Prices!Return, Prices!Proceed, Step
  <2>3. UNCHANGED <<copy, judged, saved, fresh>> /\ (cache' = cache \/ (cache = "torn" /\ cache' = "none"))
    BY <1>1 DEF Prices!FromCache, Prices!Discard
  <2> QED
    BY <2>1, <2>2, <2>3 DEF Step
<1>2. ASSUME NEW c \in Caller, Prices!FromStore(c) PROVE Cached'
  <2>1. fetching' \in [Caller -> Step] /\ frame' \in BOOLEAN
    BY <1>2, Moved DEF Prices!FromStore
  <2>2. /\ cache' = "whole" /\ fresh' = TRUE /\ saved' = "yes" /\ copy = "whole"
        /\ UNCHANGED <<copy, judged>>
    BY <1>2 DEF Prices!FromStore
  <2> QED
    BY <2>1, <2>2 DEF Step
<1>3. ASSUME NEW c \in Caller, Prices!Download(c) PROVE Cached'
  <2>1. /\ fetching' \in [Caller -> Step] /\ frame' \in BOOLEAN
        /\ \A d \in Caller \ {c} : fetching'[d] = fetching[d]
    BY <1>3, Moved DEF Prices!Download, Step
  <2>2. fetching[c] = "asking" /\ fetching'[c] = "writing"
    BY <1>3 DEF Prices!Download, Prices!Proceed, Step
  <2>3. /\ UNCHANGED <<copy, judged, saved>> /\ fresh' \in BOOLEAN
        /\ cache' = cache \/ (~Prices!InMemory /\ cache' = "torn")
    BY <1>3 DEF Prices!Download
  <2> QED
    BY <2>1, <2>2, <2>3 DEF Step
<1>4. ASSUME NEW c \in Caller, Prices!UseStale(c) PROVE Cached'
  <2>1. /\ fetching' \in [Caller -> Step] /\ frame' \in BOOLEAN
        /\ \A d \in Caller \ {c} : fetching'[d] = fetching[d]
    BY <1>4, Moved DEF Prices!UseStale, Step
  <2>2. fetching[c] = "asking" /\ fetching'[c] = "no"
    BY <1>4 DEF Prices!UseStale, Prices!Return, Prices!Proceed, Step
  <2>3. UNCHANGED <<copy, judged, saved, fresh>> /\ (cache' = cache \/ (cache = "torn" /\ cache' = "none"))
    BY <1>4 DEF Prices!UseStale, Prices!Discard
  <2> QED
    BY <2>1, <2>2, <2>3 DEF Step
<1>5. ASSUME NEW c \in Caller, Prices!Write(c) PROVE Cached'
  <2>1. fetching' \in [Caller -> Step] /\ frame' \in BOOLEAN
    BY <1>5, Moved DEF Prices!Write, Step
  <2>2. fetching'[c] = "putting"
    BY <1>5 DEF Prices!Write, Prices!Proceed, Step
  <2>3. UNCHANGED <<copy, judged>>
    BY <1>5 DEF Prices!Write
  <2>4. \/ cache' = "whole" /\ fresh' = TRUE /\ saved' = "no"
        \/ UNCHANGED <<cache, fresh, saved>> /\ cache = "none"
    BY <1>5 DEF Prices!Write
  <2> QED
    BY <2>1, <2>2, <2>3, <2>4 DEF Step
<1>6. ASSUME NEW c \in Caller, Prices!Put(c) PROVE Cached'
  <2>1. /\ fetching' \in [Caller -> Step] /\ frame' \in BOOLEAN
        /\ \A d \in Caller \ {c} : fetching'[d] = fetching[d]
    BY <1>6, Moved DEF Prices!Put
  <2>2. fetching[c] = "putting" /\ fetching'[c] = "no" /\ UNCHANGED <<cache, fresh, judged>>
    BY <1>6 DEF Prices!Put, Prices!Return, Step
  <2>3. \/ copy' = copy /\ saved' = IF saved = "no" THEN "missed" ELSE saved
        \/ copy' = cache /\ saved' = IF cache = "whole" THEN "yes" ELSE "missed"
    BY <1>6 DEF Prices!Put
  <2> QED
    BY <2>1, <2>2, <2>3 DEF Step
<1>7. ASSUME Prices!Judge \/ Prices!Prune \/ Prices!Expire PROVE Cached'
  <2>1. /\ UNCHANGED <<copy, frame, fetching, saved>> /\ fresh' \in BOOLEAN
        /\ cache' \in {cache, "none"} /\ judged' \in BOOLEAN
    BY <1>7 DEF Prices!Judge, Prices!Prune, Prices!Expire
  <2>2. Prices!InMemory => ~judged'
    BY <1>7 DEF Prices!Judge, Prices!Prune, Prices!Expire
  <2> QED
    BY <2>1, <2>2
<1>8. ASSUME Prices!Forget PROVE Cached'
  BY <1>8 DEF Prices!Forget
<1>9. ASSUME UNCHANGED priceVars PROVE Cached'
  BY <1>9 DEF priceVars
<1> QED
  BY <1>1, <1>2, <1>3, <1>4, <1>5, <1>6, <1>7, <1>8, <1>9 DEF Prices!PriceStep

\* What a step may do to the cached history and to the last one.
LeavesSaved ==
  cache = "whole" /\ cache' = "none"
    => \/ saved = "yes" /\ copy = "whole"
       \/ copy # "none" /\ (saved = "missed" \/ Prices!Rewriting)
       \/ Prices!InMemory
LosesTold ==
  Prices!Held /\ ~Prices!Held'
    => \/ Prices!Rewriting'
       \/ saved = "missed" /\ cache' = "none"
       \/ Prices!InMemory /\ cache' = "none"

LEMMA CachedStep ==
  ASSUME Cached, UNCHANGED settings, Prices!PriceStep \/ UNCHANGED priceVars \/ Prices!Forget
  PROVE  LeavesSaved /\ LosesTold
<1>a. /\ Prices!TypeOK /\ ToCome /\ Saved /\ InHands /\ NoFile
      /\ fetching \in [Caller -> Step]
      /\ Prices!InMemory' = Prices!InMemory
  BY DEF Cached, Prices!TypeOK, Step, Prices!InMemory
<1>1. ASSUME NEW c \in Caller, Prices!FromCache(c) \/ Prices!FromStore(c) \/ Prices!UseStale(c) \/ Prices!Write(c)
      PROVE  LeavesSaved /\ LosesTold
  <2>1. copy' = copy /\ (cache = "whole" => cache' = "whole")
    BY <1>1 DEF Prices!FromCache, Prices!FromStore, Prices!UseStale, Prices!Write, Prices!Discard
  <2> QED
    BY <2>1 DEF LeavesSaved, LosesTold, Prices!Held
<1>2. ASSUME NEW c \in Caller, Prices!Download(c) PROVE LeavesSaved /\ LosesTold
  <2>1. fetching'[c] = "writing" /\ copy' = copy
    BY <1>2, <1>a DEF Prices!Download, Prices!Proceed
  <2>2. IF Prices!InMemory THEN cache' = cache ELSE cache' = "torn"
    BY <1>2 DEF Prices!Download
  <2> QED
    BY <1>a, <2>1, <2>2 DEF LeavesSaved, LosesTold, Prices!Held, Prices!Rewriting
<1>3. ASSUME NEW c \in Caller, Prices!Put(c) PROVE LeavesSaved /\ LosesTold
  <2>1. cache' = cache /\ copy' \in {copy, cache} /\ (copy' # copy => cache # "none")
    BY <1>3 DEF Prices!Put
  <2>2. CASE copy' # copy /\ cache = "torn"
    <3>1. PICK d \in Caller : fetching[d] = "writing"
      BY <1>3, <1>a, <2>2 DEF InHands, Prices!Put
    <3>2. fetching'[d] = "writing"
      BY <1>3, <1>a, <3>1 DEF Prices!Put, Prices!Return
    <3> QED
      BY <1>a, <2>1, <2>2, <3>2 DEF LeavesSaved, LosesTold, Prices!Rewriting, NoFile
  <2> QED
    BY <1>a, <2>1, <2>2 DEF LeavesSaved, LosesTold, Prices!Held, Prices!TypeOK
<1>4. ASSUME Prices!Prune PROVE LeavesSaved /\ LosesTold
  <2>1. /\ judged /\ UNCHANGED <<copy, fetching, saved>>
        /\ cache' = IF copy # "none" THEN "none" ELSE cache
    BY <1>4 DEF Prices!Prune
  <2>2. saved = "no" => Prices!Rewriting /\ Prices!Rewriting'
    BY <1>a, <2>1 DEF ToCome, NoFile, Prices!Rewriting
  <2> QED
    BY <1>a, <2>1, <2>2 DEF LeavesSaved, LosesTold, Prices!Held, Saved, Prices!TypeOK
<1>5. ASSUME Prices!Judge \/ Prices!Expire \/ UNCHANGED priceVars PROVE LeavesSaved /\ LosesTold
  BY <1>5 DEF Prices!Judge, Prices!Expire, priceVars, LeavesSaved, LosesTold, Prices!Held
<1>6. ASSUME Prices!Forget PROVE LeavesSaved /\ LosesTold
  BY <1>6 DEF Prices!Forget, LeavesSaved, LosesTold, Prices!Held
<1> QED
  BY <1>1, <1>2, <1>3, <1>4, <1>5, <1>6 DEF Prices!PriceStep

-----------------------------------------------------------------------------
(* The two together *)

IInv == Packaged /\ Cached

LEMMA IInvInit == StorageInit => IInv
BY PackagedInit, CachedInit DEF StorageInit, IInv

LEMMA IInvNext == IInv /\ [Next]_vars => IInv'
<1> SUFFICES ASSUME IInv, [Next]_vars PROVE IInv'
  OBVIOUS
<1>1. UNCHANGED settings
  BY DEF Next, vars
<1>2. PackageStep \/ UNCHANGED packageVars \/ DropAll
  BY DEF Next, vars, Restart
<1>3. Prices!PriceStep \/ UNCHANGED priceVars \/ Prices!Forget
  BY DEF Next, vars, Restart
<1> QED
  BY <1>1, <1>2, <1>3, PackagedNext, CachedNext DEF IInv

LEMMA IInvImplies == IInv => TypesOK /\ SoleCopyIsKept /\ ReadersGetIt
BY SoundSoFar DEF IInv, Packaged, Cached, TypesOK

\* The variables of both halves keep their types.
THEOREM TypeCorrect == Spec => []TypesOK
<1>1. IInv => TypesOK
  BY IInvImplies
<1> QED
  BY <1>1, IInvInit, IInvNext, PTL DEF Spec

\* The content of every package that was built is left somewhere, for any number of
\* packages and namesakes, whatever uploads and couriers fail and wherever the work is
\* interrupted (DeliveryAgent removes the local file after it asked who has another).
THEOREM CopyIsKept == Spec => []SoleCopyIsKept
<1>1. IInv => SoleCopyIsKept
  BY IInvImplies
<1> QED
  BY <1>1, IInvInit, IInvNext, PTL DEF Spec

\* The download of a delivered package finds it or one that took its name, and no
\* courier gets the content of a package of another name (api.py download).
THEOREM ReadersServed == Spec => []ReadersGetIt
<1>1. IInv => ReadersGetIt
  BY IInvImplies
<1> QED
  BY <1>1, IInvInit, IInvNext, PTL DEF Spec

\* The librarian removes a file only when the store has exactly that history, or an
\* object of its name while its upload is to come or was missed; and the last history
\* goes only with a fetch that rewrites the file, a removal after a missed upload or
\* the process that held it in memory, for any number of fetches that race the
\* librarian and each other (_prune_local_cache_files, fetch_ohlcv).
THEOREM HistoryIsKept == Spec => CacheIsSound
<1>1. ASSUME IInv, [Next]_vars
      PROVE  [LeavesSaved /\ LosesTold]_priceVars
  <2>1. UNCHANGED settings
    BY <1>1 DEF Next, vars
  <2>2. Prices!PriceStep \/ UNCHANGED priceVars \/ Prices!Forget
    BY <1>1 DEF Next, vars, Restart
  <2> QED
    BY <1>1, <2>1, <2>2, CachedStep DEF IInv
<1>2. ASSUME IInv, [Next]_vars
      PROVE  [/\ cache = "whole" /\ cache' = "none"
                   => \/ saved = "yes" /\ copy = "whole"
                      \/ copy # "none" /\ (saved = "missed" \/ Prices!Rewriting)
                      \/ Prices!InMemory
              /\ Prices!Held /\ ~Prices!Held'
                   => \/ Prices!Rewriting'
                      \/ saved = "missed" /\ cache' = "none"
                      \/ Prices!InMemory /\ cache' = "none"
             ]_<<cache, fresh, copy, frame, fetching, judged, saved>>
  BY <1>1, <1>2 DEF LeavesSaved, LosesTold, priceVars
<1> QED
  BY <1>2, IInvInit, IInvNext, PTL DEF Spec, CacheIsSound, Prices!CacheIsSound
=============================================================================
