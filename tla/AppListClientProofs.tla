------------------------- MODULE AppListClientProofs -------------------------
(***************************************************************************)
(* Theorems about AppListClient for every set of providers, keys, names    *)
(* and payloads, and for every choice of Mishaps unless a theorem says     *)
(* otherwise.                                                              *)
(***************************************************************************)
EXTENDS AppListClient, AppListDiskProofs

\* Once the handshake is complete the paths are built.  Repeated exchanges that
\* fail half way may leave the icon root without a provider, never the menu.
PathsBuilt == handshake => caps.provider \in Providers /\ caps.menu \in Providers

TypeInv == TypeOK /\ PathsBuilt

(***************************************************************************)
(* Facts about the parts of an update                                      *)
(***************************************************************************)

\* The link, the icon and the entry of an update are well formed.
LEMMA EntryType ==
    ASSUME TypeInv, Ready, NEW a \in Apps
    PROVE  /\ LinkPath(a) \in LinkPaths
           /\ IconPath(a) \in IconPaths
           /\ <<caps.provider, a.args>> \in Commands
           /\ Entry(a) \in Entries
           /\ a.key \in Keys
<1>1. a.key \in Keys /\ a.name \in Names /\ a.args \in Args /\ a.icon \in BOOLEAN
  BY EnvironmentAssumption
<1>2. caps.provider \in Providers /\ caps.menu \in Providers /\ caps.icons \in Roots
  BY DEF TypeInv, TypeOK, PathsBuilt, Ready, Capacity
<1> QED
  BY <1>1, <1>2
  DEF LinkPath, IconPath, LinkPaths, IconPaths, Commands, Entry, Entries

\* The listing a round works with, just begun or not.
LEMMA StartedType ==
    ASSUME TypeInv, NEW hints \in Hints, NEW unreadable
    PROVE  Started(hints, unreadable) \in Listings
BY AddAllFilesType DEF Started, TypeInv, TypeOK

\* What is left of it after a report.
LEMMA StillListedType ==
    ASSUME TypeInv, NEW a \in Apps, NEW hints \in Hints, NEW unreadable, NEW hasIcon
    PROVE  StillListed(a, hints, Started(hints, unreadable), hasIcon) \in Listings
BY StartedType, UnlistType DEF StillListed

\* The disk after the two writes of an update.
LEMMA WrittenType ==
    ASSUME TypeInv, Ready, NEW a \in Apps, NEW made, NEW hasIcon, NEW linked
    PROVE  /\ WithIcon(a, made) \in Disks
           /\ WithIcon(a, made).links = disk.links
           /\ Written(a, made, hasIcon, linked) \in Disks
<1>1. disk \in Disks
  BY DEF TypeInv, TypeOK
<1>2. WithIcon(a, made) \in Disks /\ WithIcon(a, made).links = disk.links
  BY <1>1, EntryType, CreateIconFileType DEF WithIcon
<1> HIDE DEF WithIcon
<1>3. WithLink(a, WithIcon(a, made), hasIcon) \in Disks
  <2>1. (IF hasIcon THEN IconPath(a) ELSE None) \in IconPaths \cup {None}
    BY EntryType
  <2> QED
    BY <1>2, <2>1, EntryType, CreateShellLinkType DEF WithLink
<1> QED
  BY <1>2, <1>3 DEF Written

\* The history of a round stays a set of link locations.
LEMMA HeardType ==
    ASSUME TypeInv, Ready, NEW a \in Apps, NEW hints \in Hints, NEW reported \in BOOLEAN
    PROVE  /\ Heard(a, hints, reported) \in Rounds
           /\ Heard(a, hints, reported).reported =
                (IF "START" \in hints THEN {} ELSE round.reported)
                \cup (IF reported /\ "SYNC" \in hints THEN {At(LinkPath(a))} ELSE {})
           /\ Heard(a, hints, reported).atStart =
                IF "START" \in hints THEN {l \in Present(disk) : l[1] = caps.menu}
                                     ELSE round.atStart
<1>1. round \in Rounds
  BY DEF TypeInv, TypeOK
<1>2. At(LinkPath(a)) \in LinkPaths
  BY EntryType, AtType
<1>3. {l \in Present(disk) : l[1] = caps.menu} \subseteq LinkPaths
  BY DEF Present
<1> DEFINE start == {l \in Present(disk) : l[1] = caps.menu}
           base == IF "START" \in hints THEN [NoRound EXCEPT !.atStart = start] ELSE round
           here == IF "SYNC" \in hints THEN {At(LinkPath(a))} ELSE {}
<1>4. /\ base \in Rounds
      /\ base.reported = IF "START" \in hints THEN {} ELSE round.reported
      /\ base.atStart = IF "START" \in hints THEN start ELSE round.atStart
  <2> HIDE DEF start
  <2>1. CASE "START" \in hints
    BY <1>3, <2>1 DEF Rounds, NoRound, start
  <2>2. CASE "START" \notin hints
    BY <1>1, <2>2
  <2> QED
    BY <2>1, <2>2
<1>5. here \in SUBSET LinkPaths
  BY <1>2
<1>6. Heard(a, hints, reported) = [base EXCEPT !.reported = @ \cup (IF reported THEN here ELSE {}),
                                               !.asked    = @ \cup (IF a.legal THEN here ELSE {})]
  BY DEF Heard
<1>7. (IF reported THEN here ELSE {}) = IF reported /\ "SYNC" \in hints THEN {At(LinkPath(a))} ELSE {}
  OBVIOUS
<1> HIDE DEF base, here
<1>8. /\ Heard(a, hints, reported) \in Rounds
      /\ Heard(a, hints, reported).reported = base.reported \cup (IF reported THEN here ELSE {})
      /\ Heard(a, hints, reported).atStart = base.atStart
  BY <1>4, <1>5, <1>6 DEF Rounds
<1> QED
  BY <1>4, <1>7, <1>8

\* A verdict names link locations.
LEMMA JudgeType ==
    ASSUME NEW heard \in Rounds, NEW before, NEW after, NEW busy
    PROVE  Judge(heard, before, after, busy) \in Verdicts
BY DEF Judge, Rounds, Verdicts, Present

(***************************************************************************)
(* Types                                                                   *)
(***************************************************************************)

LEMMA NoButtonsType == NoButtons \in [Windows -> Buttons]
BY DEF NoButtons, Buttons

LEMMA TypeInit == Init => TypeInv
<1> SUFFICES ASSUME Init PROVE TypeInv
  OBVIOUS
<1>1. disk \in Disks
  BY DEF Init, Disks
<1>2. caps \in Capacity
  BY DEF Init, NoCaps, Capacity, Roots
<1>3. db \in [Keys -> Entries \cup {None}]
  BY DEF Init, EmptyDB
<1>4. sync \in Listings /\ removal \in Listings
  BY DEF Init, NoListing, Listings
<1>5. taskbar \in [Windows -> Buttons]
  BY NoButtonsType DEF Init
<1>6. round \in Rounds /\ verdict \in Verdicts
  BY DEF Init, NoRound, Rounds, Clean, Verdicts
<1> QED
  BY <1>1, <1>2, <1>3, <1>4, <1>5, <1>6 DEF Init, TypeInv, TypeOK, PathsBuilt

\* Closing and crashing forget the session, so only the disk is left to check.
LEMMA ForgetType ==
    ASSUME TypeInv, Forget, disk' \in Disks
    PROVE  TypeInv'
<1>1. caps' \in Capacity
  BY DEF Forget, NoCaps, Capacity, Roots
<1>2. db' \in [Keys -> Entries \cup {None}]
  BY DEF Forget, EmptyDB
<1>3. sync' \in Listings
  BY DEF Forget, NoListing, Listings
<1>4. taskbar' \in [Windows -> Buttons]
  BY NoButtonsType DEF Forget
<1>5. round' \in Rounds /\ verdict' \in Verdicts
  BY DEF Forget, NoRound, Rounds, Clean, Verdicts
<1> QED
  BY <1>1, <1>2, <1>3, <1>4, <1>5 DEF Forget, TypeInv, TypeOK, PathsBuilt

LEMMA CleanType == Clean \in Verdicts
BY DEF Clean, Verdicts

\* One exchange keeps the capability record well formed, and a handshake that
\* is or stays complete has its paths.
LEMMA OnCapsType ==
    ASSUME TypeInv, NEW provider \in Providers, NEW v4 \in BOOLEAN,
           NEW stage \in CapsStages, OnCaps(provider, v4, stage)
    PROVE  TypeInv'
<1> DEFINE name == IF caps.provider = None THEN provider
                   ELSE Overlay[<<caps.provider, provider>>]
<1>1. caps \in Capacity /\ handshake \in BOOLEAN
  BY DEF TypeInv, TypeOK
<1>2. name \in Providers
  BY <1>1, EnvironmentAssumption DEF Capacity, Roots
<1>3. caps' = [v4       |-> v4,
               provider |-> IF stage \in {"read"} THEN caps.provider ELSE name,
               menu     |-> IF stage \in {"read", "name"} THEN caps.menu ELSE name,
               icons    |-> IF stage = "temp" THEN None
                            ELSE IF stage \in {"read", "name", "menu"} THEN caps.icons
                            ELSE name]
  BY DEF OnCaps, CapsAfter
<1> HIDE DEF name
<1>4. caps' \in Capacity
  BY <1>1, <1>2, <1>3 DEF Capacity, Roots
<1>5. handshake' \in BOOLEAN
  BY <1>1 DEF OnCaps
<1>6. PathsBuilt'
  <2> SUFFICES ASSUME handshake'
               PROVE  caps'.provider \in Providers /\ caps'.menu \in Providers
    BY DEF PathsBuilt
  <2>1. CASE stage = "done"
    BY <2>1, <1>2, <1>3
  <2>2. CASE stage # "done"
    <3>1. handshake
      BY <2>2 DEF OnCaps
    <3>2. caps.provider \in Providers /\ caps.menu \in Providers
      BY <3>1 DEF TypeInv, PathsBuilt
    <3> QED
      BY <3>2, <1>2, <1>3
  <2> QED
    BY <2>1, <2>2
<1> QED
  BY <1>4, <1>5, <1>6, CleanType DEF OnCaps, TypeInv, TypeOK

LEMMA RefuseUpdateType ==
    ASSUME TypeInv, NEW a \in Apps, NEW hints \in Hints, RefuseUpdate(a, hints)
    PROVE  TypeInv'
<1>1. Ready
  BY DEF RefuseUpdate
<1>2. sync' \in Listings
  BY StartedType DEF RefuseUpdate
<1>3. Heard(a, hints, FALSE) \in Rounds
  BY <1>1, HeardType
<1>4. round' \in Rounds
  BY <1>3 DEF RefuseUpdate, TypeInv, TypeOK
<1> QED
  BY <1>2, <1>4, CleanType DEF RefuseUpdate, TypeInv, TypeOK, PathsBuilt, session

LEMMA ApplyUpdateType ==
    ASSUME TypeInv, NEW a \in Apps, NEW hints \in Hints, ApplyUpdate(a, hints)
    PROVE  TypeInv'
<1>1. Ready /\ db' = [db EXCEPT ![a.key] = Entry(a)]
      /\ UNCHANGED <<open, handshake, caps, taskbar, removal>>
  BY DEF ApplyUpdate
<1>2. db' \in [Keys -> Entries \cup {None}]
  BY <1>1, EntryType DEF TypeInv, TypeOK
<1>3. Heard(a, hints, TRUE) \in Rounds
  BY <1>1, HeardType
<1>4. ASSUME NEW unreadable, NEW made, NEW hasIcon, NEW linked,
             Proceed(Written(a, made, hasIcon, linked),
                     StillListed(a, hints, Started(hints, unreadable), hasIcon),
                     Heard(a, hints, TRUE))
      PROVE  disk' \in Disks /\ sync' \in Listings /\ round' \in Rounds
             /\ verdict' \in Verdicts
  BY <1>1, <1>3, <1>4, WrittenType, StillListedType, CleanType
  DEF Proceed, TypeInv, TypeOK
<1>5. ASSUME NEW unreadable, NEW made, NEW hasIcon, NEW linked,
             OnSyncEnd(Written(a, made, hasIcon, linked),
                       StillListed(a, hints, Started(hints, unreadable), hasIcon),
                       Heard(a, hints, TRUE))
      PROVE  disk' \in Disks /\ sync' \in Listings /\ round' \in Rounds
             /\ verdict' \in Verdicts
  <2>1. NoListing \in Listings /\ NoRound \in Rounds
    BY DEF NoListing, Listings, NoRound, Rounds
  <2> DEFINE written == Written(a, made, hasIcon, linked)
             listing == StillListed(a, hints, Started(hints, unreadable), hasIcon)
  <2>2. written \in Disks
    BY <1>1, WrittenType
  <2> HIDE DEF written, listing
  <2>3. PICK busy \in Busy(listing) :
           /\ disk' = DeleteAllFiles(written, listing, busy)
           /\ verdict' = Judge(Heard(a, hints, TRUE), written, disk', busy)
    BY <1>5 DEF OnSyncEnd, written, listing
  <2>4. disk' \in Disks
    BY <2>2, <2>3, DeleteFilesType DEF DeleteAllFiles
  <2>5. verdict' \in Verdicts
    BY <1>3, <2>3, JudgeType
  <2> QED
    BY <1>5, <2>1, <2>4, <2>5 DEF OnSyncEnd
<1>6. disk' \in Disks /\ sync' \in Listings /\ round' \in Rounds /\ verdict' \in Verdicts
  BY <1>4, <1>5 DEF ApplyUpdate
<1> QED
  BY <1>1, <1>2, <1>6 DEF TypeInv, TypeOK, PathsBuilt

LEMMA OnDeleteAppListType ==
    ASSUME TypeInv, NEW key \in Keys, OnDeleteAppList(key)
    PROVE  TypeInv'
<1>1. disk' \in Disks
  BY DeleteFilesType DEF OnDeleteAppList, TypeInv, TypeOK
<1>2. db' \in [Keys -> Entries \cup {None}]
  BY DEF OnDeleteAppList, TypeInv, TypeOK
<1> QED
  BY <1>1, <1>2, CleanType DEF OnDeleteAppList, TypeInv, TypeOK, PathsBuilt

LEMMA OnAssociateWindowIdType ==
    ASSUME TypeInv, NEW w \in Windows, NEW key \in Keys, NEW named \in BOOLEAN,
           OnAssociateWindowId(w, key, named)
    PROVE  TypeInv'
<1>1. PICK told \in {"nothing", "icon", "all"} :
        taskbar' = [taskbar EXCEPT ![w] =
            IF named /\ db[key] # None /\ db[key].icon # None
            THEN UpdateTaskBarInfo(@, db[key], told) ELSE PreventPinning(@, told)]
  BY DEF OnAssociateWindowId
<1>2. taskbar[w] \in Buttons /\ db[key] \in Entries \cup {None}
  BY DEF TypeInv, TypeOK
<1> DEFINE button == IF named /\ db[key] # None /\ db[key].icon # None
                     THEN UpdateTaskBarInfo(taskbar[w], db[key], told)
                     ELSE PreventPinning(taskbar[w], told)
<1>3. button \in Buttons
  <2>1. ASSUME db[key] # None, db[key].icon # None
        PROVE  UpdateTaskBarInfo(taskbar[w], db[key], told) \in Buttons
    BY <1>2, <2>1 DEF UpdateTaskBarInfo, Buttons, Entries
  <2>2. PreventPinning(taskbar[w], told) \in Buttons
    BY <1>2 DEF PreventPinning, Buttons
  <2> QED
    BY <2>1, <2>2
<1>4. taskbar' = [taskbar EXCEPT ![w] = button]
  BY <1>1 DEF TypeInv, TypeOK
<1> HIDE DEF button
<1>5. taskbar' \in [Windows -> Buttons]
  BY <1>3, <1>4 DEF TypeInv, TypeOK
<1> QED
  BY <1>5, CleanType DEF OnAssociateWindowId, TypeInv, TypeOK, PathsBuilt

LEMMA CrashType ==
    ASSUME TypeInv, Crash
    PROVE  TypeInv'
<1>1. disk' \in Disks
  <2>1. CASE UNCHANGED disk
    BY <2>1 DEF TypeInv, TypeOK
  <2>2. ASSUME NEW a \in Apps, Ready, disk' = WithIcon(a, TRUE)
        PROVE  disk' \in Disks
    BY <2>2, WrittenType
  <2>3. ASSUME NEW links, NEW icons, disk' = DeleteFiles(disk, links, icons)
        PROVE  disk' \in Disks
    BY <2>3, DeleteFilesType DEF TypeInv, TypeOK
  <2> QED
    BY <2>1, <2>2, <2>3 DEF Crash
<1> QED
  BY <1>1, ForgetType DEF Crash

LEMMA RemoveListType ==
    ASSUME TypeInv, NEW provider \in Providers, RemoveList(provider)
    PROVE  TypeInv'
<1>1. removal' \in Listings
  BY AddAllFilesType DEF RemoveList, TypeInv, TypeOK
<1> QED
  BY <1>1, CleanType DEF RemoveList, session, TypeInv, TypeOK, PathsBuilt

LEMMA RemoveSweepType ==
    ASSUME TypeInv, RemoveSweep
    PROVE  TypeInv'
<1>1. PICK links \in SUBSET removal.links, icons \in SUBSET removal.icons :
        /\ disk' = DeleteFiles(disk, links, icons) \/ UNCHANGED disk
        /\ removal' = Unlist(removal, links, icons)
  BY DEF RemoveSweep
<1>2. disk' \in Disks
  BY <1>1, DeleteFilesType DEF TypeInv, TypeOK
<1>3. removal' \in Listings
  BY <1>1, UnlistType DEF TypeInv, TypeOK
<1> QED
  BY <1>2, <1>3, CleanType DEF RemoveSweep, session, TypeInv, TypeOK, PathsBuilt

LEMMA RemoveReturnsType ==
    ASSUME TypeInv, RemoveReturns
    PROVE  TypeInv'
<1>1. removal' \in Listings
  BY DEF RemoveReturns, NoListing, Listings
<1> QED
  BY <1>1, CleanType DEF RemoveReturns, session, TypeInv, TypeOK, PathsBuilt

LEMMA TypeStep == TypeInv /\ [Next]_vars => TypeInv'
<1> SUFFICES ASSUME TypeInv, [Next]_vars PROVE TypeInv'
  OBVIOUS
<1>1. CASE Connect
  BY <1>1, CleanType DEF Connect, session, TypeInv, TypeOK, PathsBuilt
<1>2. CASE OnClose
  BY <1>2, ForgetType DEF OnClose, TypeInv, TypeOK
<1>3. ASSUME NEW provider \in Providers, NEW v4 \in BOOLEAN, NEW stage \in CapsStages,
             OnCaps(provider, v4, stage)
      PROVE  TypeInv'
  BY <1>3, OnCapsType
<1>4. ASSUME NEW a \in Apps, NEW hints \in Hints, RefuseUpdate(a, hints)
      PROVE  TypeInv'
  BY <1>4, RefuseUpdateType
<1>5. ASSUME NEW a \in Apps, NEW hints \in Hints, ApplyUpdate(a, hints)
      PROVE  TypeInv'
  BY <1>5, ApplyUpdateType
<1>6. ASSUME NEW key \in Keys, OnDeleteAppList(key)
      PROVE  TypeInv'
  BY <1>6, OnDeleteAppListType
<1>7. ASSUME NEW w \in Windows, NEW key \in Keys, NEW named \in BOOLEAN,
             OnAssociateWindowId(w, key, named)
      PROVE  TypeInv'
  BY <1>7, OnAssociateWindowIdType
<1>8. CASE Crash
  BY <1>8, CrashType
<1>9. ASSUME NEW provider \in Providers, RemoveList(provider)
      PROVE  TypeInv'
  BY <1>9, RemoveListType
<1>10. CASE RemoveSweep
  BY <1>10, RemoveSweepType
<1>11. CASE RemoveReturns
  BY <1>11, RemoveReturnsType
<1>12. CASE UNCHANGED vars
  BY <1>12 DEF vars, TypeInv, TypeOK, PathsBuilt
<1> QED
  BY <1>1, <1>2, <1>3, <1>4, <1>5, <1>6, <1>7, <1>8, <1>9, <1>10, <1>11, <1>12 DEF Next

\* Every variable keeps its type, whatever goes wrong around the plugin.
THEOREM TypeCorrect == Spec => []TypeOK
<1>1. TypeInv => TypeOK
  BY DEF TypeInv
<1> QED
  BY <1>1, TypeInit, TypeStep, PTL DEF Spec

(***************************************************************************)
(* A sweep spares what was reported                                        *)
(***************************************************************************)

\* The file system tells apart all names that the distribution uses.
CaseExact == \A m, n \in Names : Fold[m] = Fold[n] => m = n

\* No file still listed for removal is a link that was reported.
Spared(reported, listed) == \A l \in reported, n \in listed : At(n) # l

SpareInv ==
    /\ Spared(round.reported, sync.links)
    /\ ReportedSurvive

LEMMA AtInjective ==
    ASSUME CaseExact, NEW m \in LinkPaths, NEW n \in LinkPaths, At(m) = At(n)
    PROVE  m = n
BY DEF CaseExact, At, LinkPaths

\* The history and the listing after one update, applied or refused.
LEMMA UpdateSpares ==
    ASSUME CaseExact, TypeInv, Ready, Spared(round.reported, sync.links),
           NEW a \in Apps, NEW hints \in Hints, NEW unreadable, NEW hasIcon
    PROVE  /\ Spared(Heard(a, hints, FALSE).reported, Started(hints, unreadable).links)
           /\ Spared(Heard(a, hints, TRUE).reported,
                     StillListed(a, hints, Started(hints, unreadable), hasIcon).links)
<1> DEFINE started == Started(hints, unreadable)
           before  == IF "START" \in hints THEN {} ELSE round.reported
           still   == StillListed(a, hints, started, hasIcon)
<1>1. Spared(before, started.links)
  BY DEF Spared, Started
<1>2. Heard(a, hints, FALSE).reported = before
  BY HeardType
<1>3. Heard(a, hints, TRUE).reported =
        before \cup (IF "SYNC" \in hints THEN {At(LinkPath(a))} ELSE {})
  BY HeardType
<1>4. started \in Listings /\ LinkPath(a) \in LinkPaths
  BY StartedType, EntryType
<1> HIDE DEF started, before
<1>5. CASE "SYNC" \in hints
  <2>1. still.links = started.links \ {LinkPath(a)}
    BY <1>4, <1>5, UnlistType DEF StillListed
  <2>2. \A n \in still.links : At(n) # At(LinkPath(a))
    BY <1>4, <2>1, AtInjective DEF Listings
  <2>3. Spared(Heard(a, hints, TRUE).reported, still.links)
    BY <1>1, <1>3, <2>1, <2>2 DEF Spared
  <2> QED
    BY <1>1, <1>2, <2>3 DEF started
<1>6. CASE "SYNC" \notin hints
  BY <1>1, <1>2, <1>3, <1>6 DEF StillListed, started
<1> QED
  BY <1>5, <1>6

\* Outside a round an update that is let through changes no listing.
LEMMA ListingOff ==
    ASSUME TypeInv, NEW a \in Apps, NEW hints \in Hints, NEW unreadable, NEW hasIcon,
           InSync(hints, Started(hints, unreadable))
    PROVE  LET listing == StillListed(a, hints, Started(hints, unreadable), hasIcon)
           IN  ~listing.on => listing = sync
<1> DEFINE started == Started(hints, unreadable)
           listing == StillListed(a, hints, started, hasIcon)
<1>1. listing.on = started.on
  BY StartedType, UnlistType DEF StillListed
<1>2. ~started.on => "START" \notin hints /\ "SYNC" \notin hints
  <2>1. "START" \in hints => started.on = TRUE
    BY AddAllFilesType DEF Started, TypeInv, TypeOK
  <2> QED
    BY <2>1 DEF InSync
<1> QED
  BY <1>1, <1>2 DEF StillListed, Started

\* The parts of an update that is applied.
LEMMA ApplyParts ==
    ASSUME NEW a \in Apps, NEW hints \in Hints, ApplyUpdate(a, hints)
    PROVE  \E unreadable \in Unreadable(caps.menu), made, hasIcon, linked \in BOOLEAN :
            /\ InSync(hints, Started(hints, unreadable))
            /\ IF "END" \in hints
               THEN OnSyncEnd(Written(a, made, hasIcon, linked),
                              StillListed(a, hints, Started(hints, unreadable), hasIcon),
                              Heard(a, hints, TRUE))
               ELSE Proceed(Written(a, made, hasIcon, linked),
                            StillListed(a, hints, Started(hints, unreadable), hasIcon),
                            Heard(a, hints, TRUE))
BY DEF ApplyUpdate

LEMMA SpareApply ==
    ASSUME CaseExact, TypeInv, SpareInv,
           NEW a \in Apps, NEW hints \in Hints, ApplyUpdate(a, hints)
    PROVE  SpareInv'
<1>1. Ready
  BY DEF ApplyUpdate
<1>2. PICK unreadable \in Unreadable(caps.menu), made \in BOOLEAN, hasIcon \in BOOLEAN,
           linked \in BOOLEAN :
        /\ InSync(hints, Started(hints, unreadable))
        /\ IF "END" \in hints
           THEN OnSyncEnd(Written(a, made, hasIcon, linked),
                          StillListed(a, hints, Started(hints, unreadable), hasIcon),
                          Heard(a, hints, TRUE))
           ELSE Proceed(Written(a, made, hasIcon, linked),
                        StillListed(a, hints, Started(hints, unreadable), hasIcon),
                        Heard(a, hints, TRUE))
  BY ApplyParts
<1> DEFINE started == Started(hints, unreadable)
           written == Written(a, made, hasIcon, linked)
           listing == StillListed(a, hints, started, hasIcon)
           heard   == Heard(a, hints, TRUE)
<1>3. Spared(heard.reported, listing.links)
  BY <1>1, UpdateSpares DEF SpareInv
<1>4. written \in Disks /\ listing \in Listings /\ heard \in Rounds
  BY <1>1, WrittenType, StillListedType, HeardType
<1>5. ~listing.on => listing = sync
  BY <1>2, ListingOff
<1> HIDE DEF written, listing, heard
<1>6. CASE "END" \in hints
  <2>1. PICK busy \in Busy(listing) :
           /\ disk' = DeleteAllFiles(written, listing, busy)
           /\ verdict' = Judge(heard, written, disk', busy)
    BY <1>2, <1>6 DEF OnSyncEnd, written, listing, heard
  <2>2. sync' = NoListing
    BY <1>2, <1>6 DEF OnSyncEnd
  <2>3. \A l \in LinkPaths :
          l \in Present(written) /\ l \notin Present(disk') =>
              \E n \in listing.links : At(n) = l
    BY <1>4, <2>1, DeleteFilesType DEF DeleteAllFiles, Present
  <2>4. heard.reported \cap (Present(written) \ Present(disk')) = {}
    BY <1>3, <1>4, <2>3 DEF Spared, Rounds
  <2>5. ReportedSurvive'
    BY <2>1, <2>4 DEF ReportedSurvive, Judge
  <2> QED
    BY <2>2, <2>5 DEF SpareInv, Spared, NoListing
<1>7. CASE "END" \notin hints
  <2>1. /\ sync' = listing
        /\ round' = IF listing.on THEN heard ELSE round
        /\ verdict' = Clean
    BY <1>2, <1>7 DEF Proceed, written, listing, heard
  <2> QED
    BY <1>3, <1>5, <2>1 DEF SpareInv, ReportedSurvive, Clean
<1> QED
  BY <1>6, <1>7

LEMMA SpareStep ==
    ASSUME CaseExact, TypeInv, SpareInv, [Next]_vars
    PROVE  SpareInv'
<1>1. ASSUME UNCHANGED <<sync, round>>, verdict' \in {Clean, verdict}
      PROVE  SpareInv'
  BY <1>1 DEF SpareInv, Spared, ReportedSurvive, Clean
<1>2. ASSUME Forget PROVE SpareInv'
  BY <1>2 DEF Forget, SpareInv, Spared, NoListing, ReportedSurvive, Clean
<1>3. ASSUME NEW a \in Apps, NEW hints \in Hints, RefuseUpdate(a, hints)
      PROVE  SpareInv'
  <2>1. Ready /\ verdict' = Clean
    BY <1>3 DEF RefuseUpdate
  <2>2. PICK unreadable \in Unreadable(caps.menu) :
           /\ sync' = Started(hints, unreadable)
           /\ round' = IF Started(hints, unreadable).on THEN Heard(a, hints, FALSE) ELSE round
    BY <1>3 DEF RefuseUpdate
  <2>3. Spared(Heard(a, hints, FALSE).reported, Started(hints, unreadable).links)
    BY <2>1, UpdateSpares DEF SpareInv
  <2>4. ~Started(hints, unreadable).on => Started(hints, unreadable) = sync
    BY AddAllFilesType DEF Started, TypeInv, TypeOK
  <2> QED
    BY <2>1, <2>2, <2>3, <2>4 DEF SpareInv, ReportedSurvive, Clean
<1>4. ASSUME NEW a \in Apps, NEW hints \in Hints, ApplyUpdate(a, hints)
      PROVE  SpareInv'
  BY <1>4, SpareApply
<1>5. CASE Connect
  BY <1>1, <1>5 DEF Connect
<1>6. CASE OnClose \/ Crash
  BY <1>2, <1>6 DEF OnClose, Crash
<1>7. ASSUME NEW provider \in Providers, NEW v4 \in BOOLEAN, NEW stage \in CapsStages,
             OnCaps(provider, v4, stage)
      PROVE  SpareInv'
  BY <1>1, <1>7 DEF OnCaps
<1>8. ASSUME NEW key \in Keys, OnDeleteAppList(key)
      PROVE  SpareInv'
  BY <1>1, <1>8 DEF OnDeleteAppList
<1>9. ASSUME NEW w \in Windows, NEW key \in Keys, NEW named \in BOOLEAN,
             OnAssociateWindowId(w, key, named)
      PROVE  SpareInv'
  BY <1>1, <1>9 DEF OnAssociateWindowId
<1>10. ASSUME NEW provider \in Providers, RemoveList(provider)
       PROVE  SpareInv'
  BY <1>1, <1>10 DEF RemoveList
<1>11. CASE RemoveSweep \/ RemoveReturns
  BY <1>1, <1>11 DEF RemoveSweep, RemoveReturns
<1>12. CASE UNCHANGED vars
  BY <1>1, <1>12 DEF vars
<1> QED
  BY <1>3, <1>4, <1>5, <1>6, <1>7, <1>8, <1>9, <1>10, <1>11, <1>12 DEF Next

\* As long as no two names differ only in case, a sync round never removes a
\* link that was reported in it, whatever fails, is refused, deleted or
\* uninstalled in between.
THEOREM SweepSparesReported == ASSUME CaseExact PROVE Spec => []ReportedSurvive
<1>1. Init => TypeInv /\ SpareInv
  BY TypeInit DEF Init, SpareInv, Spared, NoRound, ReportedSurvive, Clean
<1>2. TypeInv /\ SpareInv /\ [Next]_vars => (TypeInv /\ SpareInv)'
  BY TypeStep, SpareStep
<1>3. SpareInv => ReportedSurvive
  BY DEF SpareInv
<1> QED
  BY <1>1, <1>2, <1>3, PTL DEF Spec

(***************************************************************************)
(* A sweep removes what was not reported                                   *)
(***************************************************************************)

\* Every link still to be reported is listed under some spelling of its name.
Listed(pending, listed) == \A l \in pending : \E n \in listed : At(n) = l

ListedInv ==
    /\ NamesFold(disk)
    /\ Listed(round.atStart \ round.reported, sync.links)
    /\ SweepIsComplete

\* The two writes of an update keep names and files together.
LEMMA WrittenNames ==
    ASSUME TypeInv, Ready, NamesFold(disk),
           NEW a \in Apps, NEW made, NEW hasIcon, NEW linked
    PROVE  /\ NamesFold(WithIcon(a, made))
           /\ NamesFold(Written(a, made, hasIcon, linked))
<1> DEFINE d == WithIcon(a, made)
<1>1. d \in Disks /\ NamesFold(d)
  BY WrittenType DEF NamesFold, Present
<1> HIDE DEF d
<1>2. (IF hasIcon THEN IconPath(a) ELSE None) \in IconPaths \cup {None}
  BY EntryType
<1>3. NamesFold(WithLink(a, d, hasIcon))
  BY <1>1, <1>2, EntryType, CreateShellLinkNames DEF WithLink
<1> QED
  BY <1>1, <1>3 DEF Written, d

LEMMA UpdateLists ==
    ASSUME TypeInv, Ready, NamesFold(disk),
           Listed(round.atStart \ round.reported, sync.links),
           NEW a \in Apps, NEW hints \in Hints, NEW unreadable, NEW hasIcon
    PROVE  LET refused == Heard(a, hints, FALSE)
               heard   == Heard(a, hints, TRUE)
               started == Started(hints, unreadable)
           IN  /\ Listed(refused.atStart \ refused.reported, started.links)
               /\ Listed(heard.atStart \ heard.reported,
                         StillListed(a, hints, started, hasIcon).links)
<1> DEFINE started == Started(hints, unreadable)
           before  == IF "START" \in hints THEN {} ELSE round.reported
           begun   == IF "START" \in hints THEN {l \in Present(disk) : l[1] = caps.menu}
                                           ELSE round.atStart
           still   == StillListed(a, hints, started, hasIcon)
<1>1. Listed(begun \ before, started.links)
  <2>1. CASE "START" \in hints
    BY <2>1, AddAllFilesComplete DEF Listed, Started, TypeInv, TypeOK
  <2>2. CASE "START" \notin hints
    BY <2>2 DEF Started
  <2> QED
    BY <2>1, <2>2
<1>2. /\ Heard(a, hints, FALSE).reported = before
      /\ Heard(a, hints, FALSE).atStart = begun
      /\ Heard(a, hints, TRUE).atStart = begun
      /\ Heard(a, hints, TRUE).reported =
            before \cup (IF "SYNC" \in hints THEN {At(LinkPath(a))} ELSE {})
  BY HeardType
<1>3. started \in Listings
  BY StartedType
<1> HIDE DEF started, before, begun
<1>4. CASE "SYNC" \in hints
  <2>1. still.links = started.links \ {LinkPath(a)}
    BY <1>3, <1>4, UnlistType DEF StillListed
  <2> QED
    BY <1>1, <1>2, <1>4, <2>1 DEF Listed, started
<1>5. CASE "SYNC" \notin hints
  BY <1>1, <1>2, <1>5 DEF StillListed, started
<1> QED
  BY <1>4, <1>5

LEMMA ListApply ==
    ASSUME TypeInv, ListedInv,
           NEW a \in Apps, NEW hints \in Hints, ApplyUpdate(a, hints)
    PROVE  ListedInv'
<1>1. Ready
  BY DEF ApplyUpdate
<1>2. PICK unreadable \in Unreadable(caps.menu), made \in BOOLEAN, hasIcon \in BOOLEAN,
           linked \in BOOLEAN :
        /\ InSync(hints, Started(hints, unreadable))
        /\ IF "END" \in hints
           THEN OnSyncEnd(Written(a, made, hasIcon, linked),
                          StillListed(a, hints, Started(hints, unreadable), hasIcon),
                          Heard(a, hints, TRUE))
           ELSE Proceed(Written(a, made, hasIcon, linked),
                        StillListed(a, hints, Started(hints, unreadable), hasIcon),
                        Heard(a, hints, TRUE))
  BY ApplyParts
<1> DEFINE started == Started(hints, unreadable)
           written == Written(a, made, hasIcon, linked)
           listing == StillListed(a, hints, started, hasIcon)
           heard   == Heard(a, hints, TRUE)
           pending == heard.atStart \ heard.reported
<1>3. Listed(pending, listing.links)
  BY <1>1, UpdateLists DEF ListedInv
<1>4. written \in Disks /\ NamesFold(written) /\ heard \in Rounds
  BY <1>1, WrittenType, WrittenNames, HeardType DEF ListedInv
<1>5. ~listing.on => listing = sync
  BY <1>2, ListingOff
<1> HIDE DEF written, listing, heard
<1>6. CASE "END" \in hints
  <2>1. PICK busy \in Busy(listing) :
           /\ disk' = DeleteAllFiles(written, listing, busy)
           /\ verdict' = Judge(heard, written, disk', busy)
    BY <1>2, <1>6 DEF OnSyncEnd, written, listing, heard
  <2>2. sync' = NoListing /\ round' = NoRound
    BY <1>2, <1>6 DEF OnSyncEnd
  <2>3. \A l \in LinkPaths :
          (l \notin busy.links /\ \E n \in listing.links : At(n) = l) =>
              l \notin Present(disk')
    BY <1>4, <2>1, DeleteFilesType DEF DeleteAllFiles, Present
  <2>4. (pending \cap Present(disk')) \ busy.links = {}
    BY <1>3, <1>4, <2>3 DEF Listed, Rounds
  <2>5. SweepIsComplete'
    BY <2>1, <2>4 DEF SweepIsComplete, Judge
  <2>6. NamesFold(disk')
    BY <1>4, <2>1, DeleteFilesNames DEF DeleteAllFiles
  <2> QED
    BY <2>2, <2>5, <2>6 DEF ListedInv, Listed, NoListing, NoRound, NamesFold, Present
<1>7. CASE "END" \notin hints
  <2>1. /\ disk' = written
        /\ sync' = listing
        /\ round' = IF listing.on THEN heard ELSE round
        /\ verdict' = Clean
    BY <1>2, <1>7 DEF Proceed, written, listing, heard
  <2>2. NamesFold(disk)'
    BY <1>4, <2>1 DEF NamesFold, Present
  <2>3. Listed(round'.atStart \ round'.reported, sync'.links)
    BY <1>3, <1>5, <2>1 DEF ListedInv
  <2> QED
    BY <2>1, <2>2, <2>3 DEF ListedInv, SweepIsComplete, Clean, Listed
<1> QED
  BY <1>6, <1>7

LEMMA ListStep ==
    ASSUME TypeInv, ListedInv, [Next]_vars
    PROVE  ListedInv'
<1>1. ASSUME UNCHANGED <<sync, round>>, verdict' \in {Clean, verdict}, NamesFold(disk')
      PROVE  ListedInv'
  BY <1>1 DEF ListedInv, Listed, SweepIsComplete, Clean, NamesFold, Present
<1>2. ASSUME Forget, NamesFold(disk') PROVE ListedInv'
  BY <1>2 DEF Forget, ListedInv, Listed, NoListing, NoRound, SweepIsComplete, Clean,
              NamesFold, Present
<1>3. disk \in Disks /\ NamesFold(disk)
  BY DEF TypeInv, TypeOK, ListedInv
<1>4. ASSUME NEW links, NEW icons PROVE NamesFold(DeleteFiles(disk, links, icons))
  BY <1>3, DeleteFilesNames
<1>5. ASSUME NEW a \in Apps, NEW hints \in Hints, RefuseUpdate(a, hints)
      PROVE  ListedInv'
  <2>1. Ready /\ verdict' = Clean /\ disk' = disk
    BY <1>5 DEF RefuseUpdate
  <2>2. PICK unreadable \in Unreadable(caps.menu) :
           /\ sync' = Started(hints, unreadable)
           /\ round' = IF Started(hints, unreadable).on THEN Heard(a, hints, FALSE) ELSE round
    BY <1>5 DEF RefuseUpdate
  <2> DEFINE started == Started(hints, unreadable)
             refused == Heard(a, hints, FALSE)
  <2>3. Listed(refused.atStart \ refused.reported, started.links)
    BY <2>1, UpdateLists DEF ListedInv
  <2>4. ~started.on => started = sync
    BY AddAllFilesType DEF Started, TypeInv, TypeOK
  <2> HIDE DEF started, refused
  <2>5. Listed(round'.atStart \ round'.reported, sync'.links)
    BY <2>2, <2>3, <2>4 DEF ListedInv, started, refused
  <2> QED
    BY <1>3, <2>1, <2>5 DEF ListedInv, SweepIsComplete, Clean, Listed, NamesFold, Present
<1>6. ASSUME NEW a \in Apps, NEW hints \in Hints, ApplyUpdate(a, hints)
      PROVE  ListedInv'
  BY <1>6, ListApply
<1>7. CASE Connect
  BY <1>1, <1>3, <1>7 DEF Connect
<1>8. CASE OnClose
  BY <1>2, <1>3, <1>8 DEF OnClose
<1>9. CASE Crash
  <2>1. ASSUME NEW a \in Apps, Ready, disk' = WithIcon(a, TRUE)
        PROVE  NamesFold(disk')
    BY <1>3, <2>1, WrittenNames
  <2>2. NamesFold(disk')
    BY <1>3, <1>4, <1>9, <2>1 DEF Crash
  <2> QED
    BY <1>2, <1>9, <2>2 DEF Crash
<1>10. ASSUME NEW provider \in Providers, NEW v4 \in BOOLEAN, NEW stage \in CapsStages,
              OnCaps(provider, v4, stage)
       PROVE  ListedInv'
  BY <1>1, <1>3, <1>10 DEF OnCaps
<1>11. ASSUME NEW key \in Keys, OnDeleteAppList(key)
       PROVE  ListedInv'
  <2>1. NamesFold(disk')
    BY <1>4, <1>11 DEF OnDeleteAppList
  <2> QED
    BY <1>1, <1>11, <2>1 DEF OnDeleteAppList
<1>12. ASSUME NEW w \in Windows, NEW key \in Keys, NEW named \in BOOLEAN,
              OnAssociateWindowId(w, key, named)
       PROVE  ListedInv'
  BY <1>1, <1>3, <1>12 DEF OnAssociateWindowId
<1>13. ASSUME NEW provider \in Providers, RemoveList(provider)
       PROVE  ListedInv'
  BY <1>1, <1>3, <1>13 DEF RemoveList
<1>14. CASE RemoveSweep \/ RemoveReturns
  <2>1. NamesFold(disk')
    BY <1>3, <1>4, <1>14 DEF RemoveSweep, RemoveReturns
  <2> QED
    BY <1>1, <1>14, <2>1 DEF RemoveSweep, RemoveReturns
<1>15. CASE UNCHANGED vars
  BY <1>1, <1>3, <1>15 DEF vars
<1> QED
  BY <1>5, <1>6, <1>7, <1>8, <1>9, <1>10, <1>11, <1>12, <1>13, <1>14, <1>15 DEF Next

\* A sync round that ends leaves no link that was there at its start and that
\* was not reported, except files in use: for every folding of names, so also
\* when the menu spells a name differently from the update that wrote it.
THEOREM SweepTakesUnreported == Spec => []SweepIsComplete
<1>1. Init => TypeInv /\ ListedInv
  BY TypeInit
  DEF Init, ListedInv, Listed, NamesFold, Present, NoRound, SweepIsComplete, Clean
<1>2. TypeInv /\ ListedInv /\ [Next]_vars => (TypeInv /\ ListedInv)'
  BY TypeStep, ListStep
<1>3. ListedInv => SweepIsComplete
  BY DEF ListedInv
<1> QED
  BY <1>1, <1>2, <1>3, PTL DEF Spec

(***************************************************************************)
(* Messages are processed only under a completed exchange                  *)
(***************************************************************************)

\* If the server never repeats its capabilities after a completed exchange,
\* then while messages are processed the provider name, the menu folder and the
\* icon folder belong together, however often an exchange failed before.
THEOREM OneExchange == ASSUME "recaps" \notin Mishaps PROVE Spec => []CapsCompleted
<1>1. Init => TypeInv /\ CapsCompleted
  BY TypeInit DEF Init, CapsCompleted
<1>2. TypeInv /\ CapsCompleted /\ [Next]_vars => (TypeInv /\ CapsCompleted)'
  <2> SUFFICES ASSUME TypeInv, CapsCompleted, [Next]_vars PROVE CapsCompleted'
    BY TypeStep
  <2>1. ASSUME UNCHANGED <<handshake, caps>> PROVE CapsCompleted'
    BY <2>1 DEF CapsCompleted
  <2>2. ASSUME Forget PROVE CapsCompleted'
    BY <2>2 DEF Forget, CapsCompleted
  <2>3. ASSUME NEW provider \in Providers, NEW v4 \in BOOLEAN, NEW stage \in CapsStages,
               OnCaps(provider, v4, stage)
        PROVE  CapsCompleted'
    <3> DEFINE name == IF caps.provider = None THEN provider
                       ELSE Overlay[<<caps.provider, provider>>]
    <3>1. name \in Providers
      BY EnvironmentAssumption DEF TypeInv, TypeOK, Capacity, Roots
    <3>2. ~handshake
      BY <2>3 DEF OnCaps
    <3>3. handshake' => v4 /\ stage = "done"
      BY <2>3, <3>2 DEF OnCaps
    <3>4. stage = "done" =>
            caps' = [v4 |-> v4, provider |-> name, menu |-> name, icons |-> name]
      BY <2>3 DEF OnCaps, CapsAfter
    <3> HIDE DEF name
    <3>5. stage = "done" => /\ caps'.v4 = v4
                            /\ caps'.provider # None
                            /\ caps'.menu = caps'.provider
                            /\ caps'.icons = caps'.provider
      BY <3>1, <3>4, NoneAssumption
    <3> QED
      BY <3>3, <3>5, Zenon DEF CapsCompleted
  <2>4. CASE Connect
    BY <2>1, <2>4 DEF Connect, session
  <2>5. CASE OnClose \/ Crash
    BY <2>2, <2>5 DEF OnClose, Crash
  <2>6. ASSUME NEW a \in Apps, NEW hints \in Hints,
               RefuseUpdate(a, hints) \/ ApplyUpdate(a, hints)
        PROVE  CapsCompleted'
    BY <2>1, <2>6 DEF RefuseUpdate, ApplyUpdate, session
  <2>7. ASSUME NEW key \in Keys, OnDeleteAppList(key)
        PROVE  CapsCompleted'
    BY <2>1, <2>7 DEF OnDeleteAppList
  <2>8. ASSUME NEW w \in Windows, NEW key \in Keys, NEW named \in BOOLEAN,
               OnAssociateWindowId(w, key, named)
        PROVE  CapsCompleted'
    BY <2>1, <2>8 DEF OnAssociateWindowId
  <2>9. ASSUME NEW provider \in Providers, RemoveList(provider)
        PROVE  CapsCompleted'
    BY <2>1, <2>9 DEF RemoveList, session
  <2>10. CASE RemoveSweep \/ RemoveReturns
    BY <2>1, <2>10 DEF RemoveSweep, RemoveReturns, session
  <2>11. CASE UNCHANGED vars
    BY <2>1, <2>11 DEF vars
  <2> QED
    BY <2>3, <2>4, <2>5, <2>6, <2>7, <2>8, <2>9, <2>10, <2>11 DEF Next
<1> QED
  BY <1>1, <1>2, PTL DEF Spec
=============================================================================
