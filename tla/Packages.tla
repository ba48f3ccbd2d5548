------------------------------ MODULE Packages ------------------------------
(***************************************************************************)
(* The ZIPs of the delivery squad (agents/deliver.py), the places a copy   *)
(* of one can be, and the download of the control room (api.py): the       *)
(* local file, the object in the bucket (storage.py), and what Telegram or *)
(* Drive took.  A package has a name of its own or shares it: the name     *)
(* says asset, style, strategy, generation and day, and a strategy is      *)
(* packaged again whenever the operator asks.                              *)
(*                                                                         *)
(* A file or an object is the package whose content it has.                *)
(***************************************************************************)
EXTENDS FiniteSets

CONSTANTS
  Package,      \* the deliveries
  Name,         \* package names
  Nothing,      \* no file, no object
  Settings      \* mode: minimise_local_disk, or else keep_local_packages FALSE or TRUE;
                \* bucket: no object store, public links, or links signed for a week;
                \* name: the package_name of each package

ASSUME PackagesAssumption ==
  /\ Nothing \notin Package
  /\ Settings \subseteq [mode : {"minimised", "released", "kept"},
                         bucket : {"off", "public", "private"}, name : [Package -> Name]]

VARIABLES
  settings,  \* the configuration, which stays
  stage,     \* where the work on a package is
  disk,      \* path -> whose content the file there has
  object,    \* name -> whose content the object has
  link,      \* the URL that put returned for a package
  sent,      \* whose content a courier took as a package
  record     \* the Delivery row: status, local and object_store of its channels

packageVars == <<stage, disk, object, link, sent, record>>

mode == settings.mode
bucket == settings.bucket
NameOf == settings.name

\* A temporary directory for each package, or PACKAGE_DIR for all.
Path(p) == IF mode = "minimised" THEN p ELSE NameOf[p]
Namesakes(p) == {q \in Package \ {p} : NameOf[q] = NameOf[p]}

TypeOK ==
  /\ settings \in Settings
  /\ stage \in [Package -> {"none", "requested", "built", "uploaded", "packaged", "shipped",
                            "offloaded", "here", "over"}]
  /\ disk \in [Package \cup Name -> Package \cup {Nothing}]
  /\ object \in [Name -> Package \cup {Nothing}]
  /\ sent \in [Package -> Package \cup {Nothing}]
  /\ link \in [Package -> {"none", "lasting", "signed", "expired"}]
  /\ record \in [Package -> {"none", "packaged", "ok", "offloaded", "wiped"}]

Init ==
  /\ settings \in Settings
  /\ stage = [p \in Package |-> "none"]
  /\ disk = [path \in Package \cup Name |-> Nothing] /\ object = [n \in Name |-> Nothing]
  /\ link = [p \in Package |-> "none"] /\ sent = [p \in Package |-> Nothing]
  /\ record = [p \in Package |-> "none"]

Go(p, where) == stage' = [stage EXCEPT ![p] = where]
NoneAt(where) == \A p \in Package : stage[p] \notin where

-----------------------------------------------------------------------------
(* Packager: one instance, one package at a time *)

\* The doc writer passes a judged strategy on, or a request of the operator.
Request(p) ==
  /\ stage[p] = "none"
  /\ Go(p, "requested")
  /\ UNCHANGED <<disk, object, link, sent, record>>

\* _build; a file of that name is overwritten.
Build(p) ==
  /\ stage[p] = "requested" /\ NoneAt({"built", "uploaded"})
  /\ disk' = [disk EXCEPT ![Path(p)] = p]
  /\ Go(p, "built")
  /\ UNCHANGED <<object, link, sent, record>>

\* url_for; it may fail to sign a link.
Urls == IF bucket = "public" THEN {"lasting"} ELSE {"signed", "none"}

\* Mutant of Upload: there is a URL whatever became of the upload.
UploadUnchecked(p) ==
  /\ stage[p] = "built"
  /\ \/ bucket = "off" /\ UNCHANGED <<object, link>>
     \/ /\ bucket # "off"
        /\ object' \in {object, [object EXCEPT ![NameOf[p]] = disk[Path(p)]]}
        /\ \E u \in Urls : link' = [link EXCEPT ![p] = u]
  /\ Go(p, "uploaded")
  /\ UNCHANGED <<disk, sent, record>>

\* store().put: no store, a missing file or a failure is None.
Upload(p) ==
  /\ stage[p] = "built"
  /\ \/ /\ bucket # "off" /\ disk[Path(p)] # Nothing
        /\ object' = [object EXCEPT ![NameOf[p]] = disk[Path(p)]]
        /\ \E u \in Urls : link' = [link EXCEPT ![p] = u]
     \/ UNCHANGED <<object, link>>
  /\ Go(p, "uploaded")
  /\ UNCHANGED <<disk, sent, record>>

\* The Delivery row with the URL, and PACKAGE_READY.
Save(p) ==
  /\ stage[p] = "uploaded"
  /\ record' = [record EXCEPT ![p] = "packaged"]
  /\ Go(p, "packaged")
  /\ UNCHANGED <<disk, object, link, sent>>

-----------------------------------------------------------------------------
(* Delivery: one instance, one package at a time *)

\* _telegram and _gdrive, which may be disabled, and fail without a file.
Ship(p) ==
  /\ stage[p] = "packaged" /\ NoneAt({"shipped", "offloaded", "here"})
  /\ \E taken \in {disk[Path(p)], Nothing} : sent' = [sent EXCEPT ![p] = taken]
  /\ Go(p, "shipped")
  /\ UNCHANGED <<disk, object, link, record>>

\* Some channel besides the local one answered ok.
Elsewhere(p) == link[p] # "none" \/ sent[p] # Nothing

\* Mutant of Reclaim: to have a store is to have a copy there.
ReclaimWithStore(p) ==
  /\ stage[p] = "shipped"
  /\ \/ /\ mode # "kept" /\ (Elsewhere(p) \/ bucket # "off")
        /\ disk' = [disk EXCEPT ![Path(p)] = Nothing]
        /\ Go(p, "offloaded")
     \/ UNCHANGED disk /\ Go(p, "here")
  /\ UNCHANGED <<object, link, sent, record>>

\* Unlinks the file when there is another copy; an error keeps it.
Reclaim(p) ==
  /\ stage[p] = "shipped"
  /\ \/ /\ mode # "kept" /\ Elsewhere(p)
        /\ disk' = [disk EXCEPT ![Path(p)] = Nothing]
        /\ Go(p, "offloaded")
     \/ UNCHANGED disk /\ Go(p, "here")
  /\ UNCHANGED <<object, link, sent, record>>

\* Mutant of Confirm: the local file alone does not count.
ConfirmElsewhere(p) ==
  /\ stage[p] \in {"offloaded", "here"}
  /\ record' = IF record[p] = "wiped" THEN record
               ELSE [record EXCEPT ![p] = IF stage[p] = "offloaded" THEN "offloaded"
                                          ELSE IF Elsewhere(p) THEN "ok" ELSE "failed"]
  /\ Go(p, "over")
  /\ UNCHANGED <<disk, object, link, sent>>

\* _record: "local" counts as a channel, so the status is always "delivered".
\* A row that was wiped meanwhile stays away.
Confirm(p) ==
  /\ stage[p] \in {"offloaded", "here"}
  /\ record' = IF record[p] = "wiped" THEN record
               ELSE [record EXCEPT ![p] = IF stage[p] = "here" THEN "ok" ELSE "offloaded"]
  /\ Go(p, "over")
  /\ UNCHANGED <<disk, object, link, sent>>

-----------------------------------------------------------------------------
(* What happens around them *)

InHand(p) == stage[p] \notin {"none", "over"}

\* A handler fails or times out: its message is gone.
Drop(p) ==
  /\ InHand(p)
  /\ Go(p, "over")
  /\ UNCHANGED <<disk, object, link, sent, record>>

\* The process restarts: all messages are gone.
DropAll ==
  /\ stage' = [p \in Package |-> IF InHand(p) THEN "over" ELSE stage[p]]
  /\ UNCHANGED <<disk, object, link, sent, record>>

\* wipe_all deletes the rows, never a file or an object.
Wipe ==
  /\ record' = [p \in Package |-> IF record[p] = "none" THEN "none" ELSE "wiped"]
  /\ record' # record
  /\ UNCHANGED <<stage, disk, object, link, sent>>

\* A signed link is good for a week.
Expire(p) ==
  /\ link[p] = "signed"
  /\ link' = [link EXCEPT ![p] = "expired"]
  /\ UNCHANGED <<stage, disk, object, sent, record>>

PackageStep ==
  \/ \E p \in Package : Request(p) \/ Build(p) \/ Upload(p) \/ Save(p)
  \/ \E p \in Package : Ship(p) \/ Reclaim(p) \/ Confirm(p)
  \/ \E p \in Package : Drop(p) \/ Expire(p)
  \/ Wipe

-----------------------------------------------------------------------------
(* The download of the control room *)

HasRow(p) == record[p] \notin {"none", "wiped"}
Delivered(p) == record[p] \in {"ok", "offloaded"}

\* The recorded URL, or else url_for(name), which does not ask whether there is
\* such an object.
Url(p) == IF link[p] # "none" THEN link[p]
          ELSE CASE bucket = "off" -> "none" [] bucket = "public" -> "lasting"
                 [] OTHER -> "signed"

\* Whose content the operator gets; Nothing for a 410 and for a dead link.
Download(p) ==
  IF disk[Path(p)] # Nothing THEN disk[Path(p)]
  ELSE IF Url(p) \in {"lasting", "signed"} THEN object[NameOf[p]]
  ELSE Nothing

-----------------------------------------------------------------------------
(* Properties *)

\* Deliveries that share a file which is removed after the first of them: the
\* rule below is about all the others.
Shared(p) == mode = "released" /\ Namesakes(p) # {}

\* Safety rule (deliver.py:567-570, docs/CLOUD_STORAGE.md "Safety rule"): from the
\* moment a package is built, its content is in its file, its object or with a
\* courier, whatever failed or was interrupted, unless a later package of the same
\* name took its place.
SoleCopyIsKept ==
  \A p \in Package :
    (stage[p] \notin {"none", "requested", "over"} \/ record[p] # "none") /\ ~Shared(p) =>
      LET places == {disk[Path(p)], object[NameOf[p]]} \cup {sent[q] : q \in Package}
      IN  places \cap ({p} \cup Namesakes(p)) # {}

\* The download of a delivered package finds it, or one that took its name, unless
\* a courier has it or the signature of the recorded link has run out (api.py
\* download).  A courier gets under the name and checksum of a package nothing else,
\* except where namesakes share a file.
ReadersGetIt ==
  \A p \in Package :
    /\ Delivered(p) /\ ~Shared(p) /\ link[p] # "expired" =>
         \/ Download(p) \in {p} \cup Namesakes(p)
         \/ Download(p) = Nothing /\ sent[p] # Nothing
    /\ sent[p] \in {p, Nothing} \/ (mode # "minimised" /\ sent[p] \in Namesakes(p))
=============================================================================
