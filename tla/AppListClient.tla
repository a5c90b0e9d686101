---------------------------- MODULE AppListClient ----------------------------
(***************************************************************************)
(* The client end of the application list channel                          *)
(* (WSLDVCPlugin/WSLDVCCallback.cpp): a Linux distribution sends its       *)
(* applications, the plugin keeps a shell link and an icon file for each   *)
(* in the user's Start Menu.  One action per message, which m_crit makes   *)
(* atomic (module ChannelCallback); another process that removes a         *)
(* provider's links (dllmain.cpp) shares only the disk and takes no lock:  *)
(* it deletes one file at a time between the messages.                     *)
(* A message that is refused before it changes anything is a stutter and   *)
(* has no action of its own.                                               *)
(***************************************************************************)
EXTENDS AppListDisk, Naturals, FiniteSets

CONSTANTS
    Apps,      \* payloads of update messages the distribution may send
    Overlay,   \* Overlay[<<old, new>>]: what the name buffer reads after new
               \* has been copied over old without a terminator
    Windows,   \* application windows
    Mishaps    \* what may go wrong around the plugin, see MishapKinds

\* caps: a capability exchange fails half way; mkdir, icon, link, delete,
\* load: that file operation fails; taskbar: a property of a window cannot be
\* set; recaps: the server repeats its capabilities; crash: the client process
\* dies; uninstall: RemoveAppProvider runs in another process.
MishapKinds == {"caps", "mkdir", "icon", "link", "delete", "load", "taskbar",
                "recaps", "crash", "uninstall"}

ASSUME EnvironmentAssumption ==
    /\ Apps \subseteq [key : Keys, name : Names, args : Args,
                       icon : BOOLEAN, legal : BOOLEAN]
    /\ Overlay \in [Providers \X Providers -> Providers]
    /\ Mishaps \subseteq MishapKinds

VARIABLES
    disk,       \* the files, shared with the other process and kept for ever
    open,       \* ~m_bChannelClosed
    handshake,  \* m_handShakeComplated
    caps,       \* m_serverCaps.version >= 4, m_appProvider, m_appMenuPath, m_iconPath
    db,         \* m_spFileDB: what this session has added, by key
    sync,       \* m_spFileDBSync: the files to remove when the round ends
    taskbar,    \* what the plugin has told the taskbar of each window
    removal,    \* the listing of RemoveAppProvider in the other process
    round,      \* history: the links of the current sync round
    verdict     \* history: what the last sweep did that it should not have

vars == <<disk, open, handshake, caps, db, sync, taskbar, removal, round, verdict>>
session == <<handshake, caps, db, taskbar>>

Entries   == [link : LinkPaths, icon : IconPaths \cup {None}, cmd : Commands]
Capacity  == [v4 : BOOLEAN, provider : Roots, menu : Roots, icons : Roots]
Buttons   == {b \in [icon : IconPaths \cup {None}, cmd : Commands \cup {None}, pinnable : BOOLEAN] :
                b.cmd # None => b.icon # None}
Rounds    == [reported : SUBSET LinkPaths, asked : SUBSET LinkPaths, atStart : SUBSET LinkPaths]
Verdicts  == [lost : SUBSET LinkPaths, refused : SUBSET LinkPaths, missed : SUBSET LinkPaths]

\* None is no entry of the database.
ASSUME EntryAssumption == None \notin Entries

NoCaps    == [v4 |-> FALSE, provider |-> None, menu |-> None, icons |-> None]
EmptyDB   == [k \in Keys |-> None]
NoButtons == [w \in Windows |-> [icon |-> None, cmd |-> None, pinnable |-> TRUE]]
NoRound   == [reported |-> {}, asked |-> {}, atStart |-> {}]
Clean     == [lost |-> {}, refused |-> {}, missed |-> {}]
Idle      == [links |-> {}, icons |-> {}]

TypeOK ==
    /\ disk \in Disks
    /\ open \in BOOLEAN
    /\ handshake \in BOOLEAN
    /\ caps \in Capacity
    /\ db \in [Keys -> Entries \cup {None}]
    /\ sync \in Listings
    /\ taskbar \in [Windows -> Buttons]
    /\ removal \in Listings
    /\ round \in Rounds
    /\ verdict \in Verdicts

Init ==
    /\ disk = [links |-> [l \in LinkPaths |-> None], icons |-> {}]
    /\ open = FALSE
    /\ handshake = FALSE
    /\ caps = NoCaps
    /\ db = EmptyDB
    /\ sync = NoListing
    /\ taskbar = NoButtons
    /\ removal = NoListing
    /\ round = NoRound
    /\ verdict = Clean
-----------------------------------------------------------------------------
(* The channel is opened, is closed by the server, or dies with its process. *)

\* WSLDVCListenerCallback::OnNewChannelConnection: a new callback object.
Connect ==
    /\ ~open
    /\ open' = TRUE
    /\ verdict' = Clean
    /\ UNCHANGED <<disk, session, sync, removal, round>>

\* Mutated form: a round outlives its session.
ForgetButRound ==
    /\ open' = FALSE
    /\ handshake' = FALSE
    /\ caps' = NoCaps
    /\ db' = EmptyDB
    /\ taskbar' = NoButtons
    /\ verdict' = Clean
    /\ UNCHANGED <<sync, removal, round>>

Forget ==
    /\ open' = FALSE
    /\ handshake' = FALSE
    /\ caps' = NoCaps
    /\ db' = EmptyDB
    /\ sync' = NoListing
    /\ taskbar' = NoButtons
    /\ round' = NoRound
    /\ verdict' = Clean
    /\ UNCHANGED removal

\* OnClose: a round in progress is cancelled, nothing is swept.
OnClose == open /\ Forget /\ UNCHANGED disk
-----------------------------------------------------------------------------
(* Capabilities *)

\* How far OnCaps gets; only the last three stages reach the assignment of
\* m_handShakeComplated.
CapsStages == {"read", "name", "menu", "temp", "icons", "old", "write", "done"}

CapsAfter(stage, provider, v4) ==
    LET name == IF caps.provider = None THEN provider
                                        ELSE Overlay[<<caps.provider, provider>>]
        before(stages, old) == IF stage \in stages THEN old ELSE name
    IN  [v4       |-> v4,
         provider |-> before({"read"}, caps.provider),
         menu     |-> before({"read", "name"}, caps.menu),
         icons    |-> IF stage = "temp" THEN None
                      ELSE before({"read", "name", "menu"}, caps.icons)]

\* Mutated form: an old server completes the handshake, too.
OnCapsAnyVersion(provider, v4, stage) ==
    /\ open
    /\ handshake => "recaps" \in Mishaps
    /\ stage \in {"read", "name", "menu", "temp", "icons", "write"} => "caps" \in Mishaps
    /\ stage = "old" => ~v4
    /\ stage \in {"write", "done"} => v4
    /\ caps' = CapsAfter(stage, provider, v4)
    /\ handshake' = IF stage \in {"old", "write", "done"} THEN stage # "write" ELSE handshake
    /\ verdict' = Clean
    /\ UNCHANGED <<disk, open, db, sync, taskbar, removal, round>>

OnCaps(provider, v4, stage) ==
    /\ open
    /\ handshake => "recaps" \in Mishaps
    /\ stage \in {"read", "name", "menu", "temp", "icons", "write"} => "caps" \in Mishaps
    /\ stage = "old" => ~v4
    /\ stage \in {"write", "done"} => v4
    /\ caps' = CapsAfter(stage, provider, v4)
    /\ handshake' = IF stage \in {"old", "write", "done"} THEN stage = "done" ELSE handshake
    /\ verdict' = Clean
    /\ UNCHANGED <<disk, open, db, sync, taskbar, removal, round>>
-----------------------------------------------------------------------------
(* Updates, alone or as part of a sync round *)

Ready == open /\ handshake

IconPathShared(a) == <<None, a.key>>  \* mutated form: one folder for all

LinkPath(a) == <<caps.menu, a.name>>
IconPath(a) == <<caps.icons, a.key>>
Entry(a) == [link |-> LinkPath(a),
             icon |-> IF a.icon THEN IconPath(a) ELSE None,
             cmd  |-> <<caps.provider, a.args>>]

\* The links that cannot be loaded while a folder is listed, and the files that
\* are in use while a listing is swept.
Unreadable(menu) ==
    IF "load" \in Mishaps THEN SUBSET {l \in Present(disk) : l[1] = menu} ELSE {{}}
Busy(listing) ==
    IF "delete" \in Mishaps
    THEN [links : SUBSET {At(n) : n \in listing.links}, icons : SUBSET listing.icons]
    ELSE {Idle}

\* OnSyncStart, when the message carries the START hint.
StartAllowed(hints) == "START" \in hints => ~sync.on
Started(hints, unreadable) ==
    IF "START" \in hints THEN AddAllFiles(disk, caps.menu, unreadable) ELSE sync

\* The checks of OnUpdateAppList, and OnFileAdded's, that follow OnSyncStart.
InSync(hints, listing) == hints \cap {"SYNC", "END"} # {} => listing.on
Conflict(a) == db[a.key] \notin {None, Entry(a)}

\* History: the link locations this round has heard of.
Heard(a, hints, reported) ==
    LET base == IF "START" \in hints
                THEN [NoRound EXCEPT !.atStart = {l \in Present(disk) : l[1] = caps.menu}]
                ELSE round
        here == IF "SYNC" \in hints THEN {At(LinkPath(a))} ELSE {}
    IN  [base EXCEPT !.reported = @ \cup (IF reported THEN here ELSE {}),
                     !.asked    = @ \cup (IF a.legal THEN here ELSE {})]

\* History: reported links that a sweep removed, links whose update was refused
\* and that it removed, and links nobody reported that it left although they
\* were not in use.
Judge(heard, before, after, busy) ==
    LET swept == Present(before) \ Present(after) IN
    [lost    |-> heard.reported \cap swept,
     refused |-> (heard.asked \ heard.reported) \cap swept,
     missed  |-> ((heard.atStart \ heard.reported) \cap Present(after)) \ busy.links]

\* An update refused after OnSyncStart: the round has started all the same.
RefuseUpdate(a, hints) ==
    /\ Ready
    /\ StartAllowed(hints)
    /\ \E unreadable \in Unreadable(caps.menu) :
        LET listing == Started(hints, unreadable) IN
        /\ \/ ~InSync(hints, listing)
           \/ ~a.legal
           \/ "mkdir" \in Mishaps
           \/ Conflict(a)
        /\ sync' = listing
        /\ round' = IF listing.on THEN Heard(a, hints, FALSE) ELSE round
    /\ verdict' = Clean
    /\ UNCHANGED <<disk, open, session, removal>>

\* CreateIconFile then CreateShellLink; the failure of either is ignored.
IconOutcome(a, made, hasIcon) ==
    /\ hasIcon => made
    /\ made => a.icon
    /\ a.icon /\ ~hasIcon => "icon" \in Mishaps
WithIcon(a, made) == IF made THEN CreateIconFile(disk, IconPath(a)) ELSE disk
\* Mutated form: a link that exists is left as it is.
WithLinkOnce(a, d, hasIcon) ==
    IF d.links[At(LinkPath(a))] # None THEN d
    ELSE CreateShellLink(d, LinkPath(a), <<caps.provider, a.args>>,
                         IF hasIcon THEN IconPath(a) ELSE None)

\* Mutated form: no link is written when its icon could not be.
WithLinkIcon(a, d, hasIcon) ==
    IF a.icon /\ ~hasIcon THEN d
    ELSE CreateShellLink(d, LinkPath(a), <<caps.provider, a.args>>,
                         IF hasIcon THEN IconPath(a) ELSE None)

WithLink(a, d, hasIcon) ==
    CreateShellLink(d, LinkPath(a), <<caps.provider, a.args>>,
                    IF hasIcon THEN IconPath(a) ELSE None)
Written(a, made, hasIcon, linked) ==
    IF linked THEN WithLink(a, WithIcon(a, made), hasIcon) ELSE WithIcon(a, made)

\* Mutated forms: a report takes nothing from the listing; it takes every link.
StillListedAll(a, hints, listing, hasIcon) == listing
StillListedNone(a, hints, listing, hasIcon) ==
    IF "SYNC" \in hints THEN [listing EXCEPT !.links = {}] ELSE listing

\* A reported link, and its icon if it could be written, leave the listing.
StillListed(a, hints, listing, hasIcon) ==
    IF "SYNC" \in hints
    THEN Unlist(listing, {LinkPath(a)}, IF hasIcon THEN {IconPath(a)} ELSE {})
    ELSE listing

\* The end of an update without the END hint, and with it (OnSyncEnd).
Proceed(written, listing, heard) ==
    /\ disk' = written
    /\ sync' = listing
    /\ round' = IF listing.on THEN heard ELSE round
    /\ verdict' = Clean
OnSyncEnd(written, listing, heard) ==
    /\ \E busy \in Busy(listing) :
          /\ disk' = DeleteAllFiles(written, listing, busy)
          /\ verdict' = Judge(heard, written, disk', busy)
    /\ sync' = NoListing
    /\ round' = NoRound

\* An update that is applied; with the END hint the files still listed go.
ApplyUpdate(a, hints) ==
    /\ Ready
    /\ StartAllowed(hints)
    /\ a.legal
    /\ ~Conflict(a)
    /\ db' = [db EXCEPT ![a.key] = Entry(a)]
    /\ \E unreadable \in Unreadable(caps.menu), made, hasIcon, linked \in BOOLEAN :
        LET started == Started(hints, unreadable)
            written == Written(a, made, hasIcon, linked)
            listing == StillListed(a, hints, started, hasIcon)
            heard   == Heard(a, hints, TRUE)
        IN
        /\ InSync(hints, started)
        /\ IconOutcome(a, made, hasIcon)
        /\ ~linked => "link" \in Mishaps
        /\ IF "END" \in hints THEN OnSyncEnd(written, listing, heard)
                              ELSE Proceed(written, listing, heard)
    /\ UNCHANGED <<open, handshake, caps, taskbar, removal>>
-----------------------------------------------------------------------------
(* Deletion, taskbar, and the death of the process *)

\* OnDeleteAppList for a key of this session: files in use stay, the entry goes.
OnDeleteAppList(key) ==
    /\ Ready
    /\ db[key] # None
    /\ \E links \in SUBSET {At(db[key].link)}, icons \in SUBSET ({db[key].icon} \ {None}) :
        /\ "delete" \notin Mishaps =>
              links = {At(db[key].link)} /\ icons = {db[key].icon} \ {None}
        /\ disk' = DeleteFiles(disk, links, icons)
    /\ db' = [db EXCEPT ![key] = None]
    /\ verdict' = Clean
    /\ UNCHANGED <<open, handshake, caps, sync, taskbar, removal, round>>

\* UpdateTaskBarInfo: the icon, then the command, of a window that can be pinned;
\* it stops at the first property that cannot be set.
UpdateTaskBarInfo(b, entry, told) ==
    CASE told = "all"  -> [b EXCEPT !.icon = entry.icon, !.cmd = entry.cmd]
      [] told = "icon" -> [b EXCEPT !.icon = entry.icon]
      [] OTHER         -> b
PreventPinning(b, told) == IF told = "all" THEN [b EXCEPT !.pinnable = FALSE] ELSE b

\* Mutated form: the key need not have an icon.
AssociateIconless(w, key, named) ==
    /\ Ready
    /\ caps.v4
    /\ \E told \in {"nothing", "icon", "all"} :
        /\ told # "all" => "taskbar" \in Mishaps
        /\ taskbar' = [taskbar EXCEPT ![w] =
              IF named /\ db[key] # None
              THEN UpdateTaskBarInfo(@, db[key], told) ELSE PreventPinning(@, told)]
    /\ verdict' = Clean
    /\ UNCHANGED <<disk, open, handshake, caps, db, sync, removal, round>>

\* The window can be pinned when its key has an icon and the message a name.  For
\* a key this session does not know the code makes up a command line but no icon,
\* and forbids pinning.
OnAssociateWindowId(w, key, named) ==
    /\ Ready
    /\ caps.v4
    /\ \E told \in {"nothing", "icon", "all"} :
        /\ told # "all" => "taskbar" \in Mishaps
        /\ taskbar' = [taskbar EXCEPT ![w] =
              IF named /\ db[key] # None /\ db[key].icon # None
              THEN UpdateTaskBarInfo(@, db[key], told) ELSE PreventPinning(@, told)]
    /\ verdict' = Clean
    /\ UNCHANGED <<disk, open, handshake, caps, db, sync, removal, round>>

\* The client process dies: between two messages, between the two files of an
\* update, or half way through a sweep.
Crash ==
    /\ open
    /\ "crash" \in Mishaps
    /\ \/ UNCHANGED disk
       \/ \E a \in Apps :
            /\ Ready /\ a.legal /\ a.icon /\ ~Conflict(a)
            /\ disk' = WithIcon(a, TRUE)
       \/ /\ Ready /\ sync.on
          /\ \E links \in SUBSET sync.links, icons \in SUBSET sync.icons :
                disk' = DeleteFiles(disk, links, icons)
    /\ Forget
-----------------------------------------------------------------------------
(* RemoveAppProvider, run by the WSL service when a distribution goes *)

RemoveList(provider) ==
    /\ "uninstall" \in Mishaps
    /\ ~removal.on
    /\ \E unreadable \in Unreadable(provider) : removal' = AddAllFiles(disk, provider, unreadable)
    /\ verdict' = Clean
    /\ UNCHANGED <<disk, open, session, sync, round>>

\* deleteAllFileIdFiles takes no lock: one file at a time, which may be in use.
RemoveSweep ==
    /\ removal.on
    /\ \E links \in SUBSET removal.links, icons \in SUBSET removal.icons :
        /\ Cardinality(links) + Cardinality(icons) = 1
        /\ disk' = DeleteFiles(disk, links, icons) \/ ("delete" \in Mishaps /\ UNCHANGED disk)
        /\ removal' = Unlist(removal, links, icons)
    /\ verdict' = Clean
    /\ UNCHANGED <<open, session, sync, round>>

RemoveReturns ==
    /\ removal.on
    /\ removal.links = {} /\ removal.icons = {}
    /\ removal' = NoListing
    /\ verdict' = Clean
    /\ UNCHANGED <<disk, open, session, sync, round>>
-----------------------------------------------------------------------------
Hints == SUBSET {"SYNC", "START", "END"}

Next ==
    \/ Connect
    \/ OnClose
    \/ \E provider \in Providers, v4 \in BOOLEAN, stage \in CapsStages :
            OnCaps(provider, v4, stage)
    \/ \E a \in Apps, hints \in Hints : RefuseUpdate(a, hints) \/ ApplyUpdate(a, hints)
    \/ \E key \in Keys : OnDeleteAppList(key)
    \/ \E w \in Windows, key \in Keys, named \in BOOLEAN :
            OnAssociateWindowId(w, key, named)
    \/ Crash
    \/ \E provider \in Providers : RemoveList(provider)
    \/ RemoveSweep \/ RemoveReturns

Spec == Init /\ [][Next]_vars
-----------------------------------------------------------------------------
(* Properties *)

\* An app that was reported in a sync round keeps its link when the round ends,
\* whatever else happened during the round: the comment at
\* WSLDVCCallback.cpp:759, "these won't be cleaned up at end".
ReportedSurvive == verdict.lost = {}

\* A link that was in the menu when a round began and that nobody reported is
\* gone when the round ends, unless its file was in use ("Any files not reported
\* during sync, will be removed at end", WSLDVCCallback.cpp:362).
SweepIsComplete == verdict.missed = {}

\* A sweep takes only what the distribution did not report in the round, also
\* when the plugin refused the report (rdpapplist_protocol.h:59).
AskedSurvive == verdict.refused = {}

\* The link of an app of the session, when it is there, is one that the session
\* has written: it has the command, and the icon or none, of that app or of a
\* namesake, which may have overtaken it, and never those of an earlier session or
\* of an app that was deleted.  It asks that links can be written and deleted: the
\* code goes on when CreateShellLink (line 750) or DeleteFileW (line 830) fails,
\* and then an older link stays.
FileOf(j, l) ==
    /\ db[j] # None
    /\ At(db[j].link) = l
    /\ disk.links[l].cmd = db[j].cmd
    /\ disk.links[l].icon \in {None, db[j].icon}

DatabaseAgreesWithMenu ==
    \A k \in Keys :
        db[k] # None /\ At(db[k].link) \in Present(disk) =>
            \E j \in Keys : FileOf(j, At(db[k].link))

Namesake(k) == \E j \in Keys \ {k} : db[j] # None /\ At(db[j].link) = At(db[k].link)

\* When the taskbar is told what to relaunch for a window, it is told the command
\* and the icon of one app, and they are those of the app's link in the menu: if
\* the link is there (another process may have removed it), if no other app of the
\* session has its name, and but for an icon that could not be written, which the
\* link goes without (WSLDVCCallback.cpp:945).  As for the links, it asks that they
\* can be written and deleted.
ButtonsAgreeWithMenu ==
    [][\A w \in Windows :
        taskbar'[w].cmd \notin {None, taskbar[w].cmd} =>
            \E k \in Keys :
                /\ db[k] # None
                /\ taskbar'[w].cmd = db[k].cmd
                /\ taskbar'[w].icon = db[k].icon
                /\ At(db[k].link) \in Present(disk) /\ ~Namesake(k) =>
                        FileOf(k, At(db[k].link))]_vars

\* Messages are processed only under one completed capability exchange ("Caps
\* exchange must be completed before processing any other messages",
\* WSLDVCCallback.cpp:1032): the paths and the name belong together.
CapsCompleted ==
    handshake => /\ caps.v4
                 /\ caps.provider # None
                 /\ caps.menu = caps.provider
                 /\ caps.icons = caps.provider

\* Providers never mix: a link below one provider's menu launches that provider
\* with an icon of that provider, and so does a taskbar button, so that removing
\* one distribution takes nothing of another.
ProvidersApart ==
    /\ \A l \in Present(disk) :
            /\ disk.links[l].cmd[1] = l[1]
            /\ disk.links[l].icon # None => disk.links[l].icon[1] = l[1]
    /\ \A w \in Windows :
            taskbar[w].cmd # None => taskbar[w].icon[1] = taskbar[w].cmd[1]

\* The links that a listing takes, as files.
Stale(listing) == {At(n) : n \in listing.links}

\* The Start Menu as its user sees it.
Menu == INSTANCE StartMenu
        WITH menu    <- Present(disk),
             round   <- [on |-> sync.on, stale |-> Stale(sync), kept |-> round.reported],
             removal <- [on |-> removal.on, stale |-> Stale(removal)],
             MayMiss <- "link" \in Mishaps,
             MayStay <- "delete" \in Mishaps

\* The plugin writes and takes links exactly as StartMenu says, whatever fails,
\* whenever it dies and whoever removes files meanwhile (OnUpdateAppList, OnSyncEnd,
\* OnDeleteAppList, OnClose, RemoveAppProvider).
MenuSpec == Menu!Spec
=============================================================================
