-------------------------- MODULE AppListMenuProofs --------------------------
(***************************************************************************)
(* What the links of the menu say: for every set of providers, keys, names *)
(* and payloads they agree with what the plugin remembers, when links can  *)
(* be written and deleted, and providers never mix, when the server does   *)
(* not repeat its capabilities.  And the menu as a whole: the client       *)
(* implements StartMenu.                                                   *)
(***************************************************************************)
EXTENDS AppListClientProofs

(***************************************************************************)
(* What a step does to the links                                           *)
(***************************************************************************)

\* e has links of d, as they were in d, and no others.
Thinned(d, e) == \A l \in LinkPaths : e.links[l] \in {None, d.links[l]}

LEMMA SweepThins ==
    ASSUME NEW d \in Disks, NEW links, NEW icons
    PROVE  Thinned(d, DeleteFiles(d, links, icons))
BY DeleteFilesType DEF Thinned

\* The link that an update writes, and the others, which it leaves alone.
LEMMA WrittenLinks ==
    ASSUME TypeInv, Ready, NEW a \in Apps, NEW made \in BOOLEAN, NEW hasIcon \in BOOLEAN
    PROVE  LET e == Written(a, made, hasIcon, TRUE)
               n == At(LinkPath(a))
           IN  /\ n \in LinkPaths
               /\ e.links[n] # None
               /\ e.links[n].cmd = <<caps.provider, a.args>>
               /\ e.links[n].icon = IF hasIcon THEN IconPath(a) ELSE None
               /\ \A l \in LinkPaths : l # n => e.links[l] = disk.links[l]
<1> DEFINE d == WithIcon(a, made)
           n == At(LinkPath(a))
           icon == IF hasIcon THEN IconPath(a) ELSE None
           e == WithLink(a, d, hasIcon)
           old == d.links[n]
           file == [name |-> IF old = None THEN LinkPath(a)[2] ELSE old.name,
                    cmd  |-> <<caps.provider, a.args>>,
                    icon |-> icon]
<1>1. d \in Disks /\ d.links = disk.links
  BY WrittenType
<1>2. LinkPath(a) \in LinkPaths /\ n \in LinkPaths
  BY EntryType, AtType
<1>3. icon \in IconPaths \cup {None} /\ <<caps.provider, a.args>> \in Commands
  BY EntryType
<1>4. e = [d EXCEPT !.links[n] = file]
  BY DEF WithLink, CreateShellLink
<1>5. file \in LinkFiles
  <2>1. old \in LinkFiles \cup {None}
    BY <1>1, <1>2 DEF Disks
  <2>2. LinkPath(a)[2] \in Names
    BY <1>2 DEF LinkPaths
  <2>3. (IF old = None THEN LinkPath(a)[2] ELSE old.name) \in Names
    BY <2>1, <2>2 DEF LinkFiles
  <2> HIDE DEF icon, old
  <2> QED
    BY <1>3, <2>3 DEF LinkFiles
<1> HIDE DEF d, n
<1>6. e.links = [d.links EXCEPT ![n] = file]
  BY <1>1, <1>4 DEF Disks
<1> HIDE DEF e
<1>7. e.links[n] = file /\ \A l \in LinkPaths : l # n => e.links[l] = d.links[l]
  BY <1>1, <1>2, <1>6 DEF Disks
<1>8. file # None
  BY <1>5, NoneAssumption
<1>9. Written(a, made, hasIcon, TRUE) = e
  BY DEF Written, e, d
<1>10. file.cmd = <<caps.provider, a.args>> /\ file.icon = icon
  OBVIOUS
<1> HIDE DEF file
<1>11. /\ e.links[n] # None /\ e.links[n].cmd = <<caps.provider, a.args>>
       /\ e.links[n].icon = icon
       /\ \A l \in LinkPaths : l # n => e.links[l] = disk.links[l]
  BY <1>1, <1>7, <1>8, <1>10
<1> QED
  BY <1>2, <1>9, <1>11 DEF n

\* What an update leaves of the disk that it has written to.
LEMMA AppliedLinks ==
    ASSUME TypeInv, NEW a \in Apps, NEW hints \in Hints, ApplyUpdate(a, hints)
    PROVE  \E made, hasIcon, linked \in BOOLEAN :
              /\ hasIcon => a.icon
              /\ ~linked => "link" \in Mishaps
              /\ Thinned(Written(a, made, hasIcon, linked), disk')
<1>1. Ready
  BY DEF ApplyUpdate
<1>2. PICK unreadable \in Unreadable(caps.menu), made \in BOOLEAN, hasIcon \in BOOLEAN,
           linked \in BOOLEAN :
        /\ IconOutcome(a, made, hasIcon)
        /\ ~linked => "link" \in Mishaps
        /\ IF "END" \in hints
           THEN OnSyncEnd(Written(a, made, hasIcon, linked),
                          StillListed(a, hints, Started(hints, unreadable), hasIcon),
                          Heard(a, hints, TRUE))
           ELSE Proceed(Written(a, made, hasIcon, linked),
                        StillListed(a, hints, Started(hints, unreadable), hasIcon),
                        Heard(a, hints, TRUE))
  BY DEF ApplyUpdate
<1> DEFINE written == Written(a, made, hasIcon, linked)
           listing == StillListed(a, hints, Started(hints, unreadable), hasIcon)
<1>3. written \in Disks
  BY <1>1, WrittenType
<1> HIDE DEF written, listing
<1>4. CASE "END" \in hints
  <2>1. \E busy \in Busy(listing) : disk' = DeleteAllFiles(written, listing, busy)
    BY <1>2, <1>4 DEF OnSyncEnd, written, listing
  <2>2. Thinned(written, disk')
    BY <1>3, <2>1, SweepThins DEF DeleteAllFiles
  <2> QED
    BY <1>2, <2>2 DEF IconOutcome, written
<1>5. CASE "END" \notin hints
  <2>1. disk' = written
    BY <1>2, <1>5 DEF Proceed, written
  <2>2. Thinned(written, disk')
    BY <2>1 DEF Thinned
  <2> QED
    BY <1>2, <2>2 DEF IconOutcome, written
<1> QED
  BY <1>4, <1>5

\* Every other step only takes links away.
LEMMA OthersThin ==
    ASSUME TypeInv, [Next]_vars
    PROVE  \/ Thinned(disk, disk')
           \/ \E a \in Apps, hints \in Hints : ApplyUpdate(a, hints)
<1>1. disk \in Disks
  BY DEF TypeInv, TypeOK
<1>2. ASSUME UNCHANGED disk PROVE Thinned(disk, disk')
  BY <1>2 DEF Thinned
<1>3. ASSUME NEW links, NEW icons, disk' = DeleteFiles(disk, links, icons)
      PROVE  Thinned(disk, disk')
  BY <1>1, <1>3, SweepThins
<1>4. CASE Crash
  <2>1. ASSUME NEW a \in Apps, Ready, disk' = WithIcon(a, TRUE) PROVE Thinned(disk, disk')
    BY <2>1, WrittenType DEF Thinned
  <2> QED
    BY <1>2, <1>3, <1>4, <2>1 DEF Crash
<1>5. ASSUME NEW key \in Keys, OnDeleteAppList(key) PROVE Thinned(disk, disk')
  BY <1>3, <1>5 DEF OnDeleteAppList
<1>6. CASE RemoveSweep \/ RemoveReturns
  BY <1>2, <1>3, <1>6 DEF RemoveSweep, RemoveReturns
<1>7. CASE Connect \/ OnClose \/ UNCHANGED vars
  BY <1>2, <1>7 DEF Connect, OnClose, vars
<1>8. ASSUME NEW provider \in Providers, NEW v4 \in BOOLEAN, NEW stage \in CapsStages,
             OnCaps(provider, v4, stage) \/ RemoveList(provider)
      PROVE  UNCHANGED disk
  BY <1>8 DEF OnCaps, RemoveList
<1>9. ASSUME NEW provider \in Providers, RemoveList(provider)
      PROVE  UNCHANGED disk
  BY <1>9 DEF RemoveList
<1>10. ASSUME NEW a \in Apps, NEW hints \in Hints, RefuseUpdate(a, hints)
       PROVE  UNCHANGED disk
  BY <1>10 DEF RefuseUpdate
<1>11. ASSUME NEW w \in Windows, NEW key \in Keys, NEW named \in BOOLEAN,
              OnAssociateWindowId(w, key, named)
       PROVE  UNCHANGED disk
  BY <1>11 DEF OnAssociateWindowId
<1> QED
  BY <1>2, <1>4, <1>5, <1>6, <1>7, <1>8, <1>9, <1>10, <1>11 DEF Next

\* What the plugin remembers changes with three kinds of step.
LEMMA DatabaseSteps ==
    ASSUME TypeInv, [Next]_vars
    PROVE  \/ db' = db
           \/ db' = EmptyDB
           \/ \E key \in Keys : OnDeleteAppList(key)
           \/ \E a \in Apps, hints \in Hints : ApplyUpdate(a, hints)
<1>1. CASE Connect \/ OnClose \/ Crash \/ RemoveSweep \/ RemoveReturns \/ UNCHANGED vars
  BY <1>1 DEF Connect, OnClose, Crash, Forget, RemoveSweep, RemoveReturns, vars, session
<1>2. ASSUME NEW provider \in Providers, NEW v4 \in BOOLEAN, NEW stage \in CapsStages,
             OnCaps(provider, v4, stage)
      PROVE  db' = db
  BY <1>2 DEF OnCaps
<1>3. ASSUME NEW provider \in Providers, RemoveList(provider)
      PROVE  db' = db
  BY <1>3 DEF RemoveList, session
<1>4. ASSUME NEW a \in Apps, NEW hints \in Hints, RefuseUpdate(a, hints)
      PROVE  db' = db
  BY <1>4 DEF RefuseUpdate, session
<1>5. ASSUME NEW w \in Windows, NEW key \in Keys, NEW named \in BOOLEAN,
             OnAssociateWindowId(w, key, named)
      PROVE  db' = db
  BY <1>5 DEF OnAssociateWindowId
<1> QED
  BY <1>1, <1>2, <1>3, <1>4, <1>5 DEF Next

\* Buttons change when a window is associated and when the session ends.
LEMMA TaskbarSteps ==
    ASSUME [Next]_vars
    PROVE  \/ taskbar' = taskbar
           \/ taskbar' = NoButtons
           \/ \E w \in Windows, key \in Keys, named \in BOOLEAN :
                    OnAssociateWindowId(w, key, named)
<1>1. CASE Connect \/ OnClose \/ Crash \/ RemoveSweep \/ RemoveReturns \/ UNCHANGED vars
  BY <1>1 DEF Connect, OnClose, Crash, Forget, RemoveSweep, RemoveReturns, vars, session
<1>2. ASSUME NEW provider \in Providers, NEW v4 \in BOOLEAN, NEW stage \in CapsStages,
             OnCaps(provider, v4, stage)
      PROVE  UNCHANGED taskbar
  BY <1>2 DEF OnCaps
<1>3. ASSUME NEW provider \in Providers, RemoveList(provider)
      PROVE  UNCHANGED taskbar
  BY <1>3 DEF RemoveList, session
<1>4. ASSUME NEW a \in Apps, NEW hints \in Hints,
             RefuseUpdate(a, hints) \/ ApplyUpdate(a, hints)
      PROVE  UNCHANGED taskbar
  BY <1>4 DEF RefuseUpdate, ApplyUpdate, session
<1>5. ASSUME NEW key \in Keys, OnDeleteAppList(key)
      PROVE  UNCHANGED taskbar
  BY <1>5 DEF OnDeleteAppList
<1> QED
  BY <1>1, <1>2, <1>3, <1>4, <1>5 DEF Next

\* Without repeated capabilities they change before the handshake or with the
\* end of the session.
LEMMA CapsSteps ==
    ASSUME "recaps" \notin Mishaps, [Next]_vars
    PROVE  \/ UNCHANGED <<handshake, caps>>
           \/ ~handshake /\ UNCHANGED <<db, taskbar>>
           \/ db' = EmptyDB /\ taskbar' = NoButtons
<1>1. CASE Connect \/ RemoveSweep \/ RemoveReturns \/ UNCHANGED vars
  BY <1>1 DEF Connect, RemoveSweep, RemoveReturns, vars, session
<1>2. CASE OnClose \/ Crash
  BY <1>2 DEF OnClose, Crash, Forget
<1>3. ASSUME NEW provider \in Providers, NEW v4 \in BOOLEAN, NEW stage \in CapsStages,
             OnCaps(provider, v4, stage)
      PROVE  ~handshake /\ UNCHANGED <<db, taskbar>>
  BY <1>3 DEF OnCaps
<1>4. ASSUME NEW provider \in Providers, RemoveList(provider)
      PROVE  UNCHANGED <<handshake, caps>>
  BY <1>4 DEF RemoveList, session
<1>5. ASSUME NEW a \in Apps, NEW hints \in Hints,
             RefuseUpdate(a, hints) \/ ApplyUpdate(a, hints)
      PROVE  UNCHANGED <<handshake, caps>>
  BY <1>5 DEF RefuseUpdate, ApplyUpdate, session
<1>6. ASSUME NEW key \in Keys, OnDeleteAppList(key)
      PROVE  UNCHANGED <<handshake, caps>>
  BY <1>6 DEF OnDeleteAppList
<1>7. ASSUME NEW w \in Windows, NEW key \in Keys, NEW named \in BOOLEAN,
             OnAssociateWindowId(w, key, named)
      PROVE  UNCHANGED <<handshake, caps>>
  BY <1>7 DEF OnAssociateWindowId
<1> QED
  BY <1>1, <1>2, <1>3, <1>4, <1>5, <1>6, <1>7 DEF Next

(***************************************************************************)
(* The database agrees with the menu                                       *)
(***************************************************************************)

\* With nothing new to remember, links that go do no harm.
LEMMA ThinnedAgrees ==
    ASSUME TypeInv, DatabaseAgreesWithMenu, db' = db, Thinned(disk, disk')
    PROVE  DatabaseAgreesWithMenu'
<1> SUFFICES ASSUME NEW k \in Keys, db[k] # None, At(db[k].link) \in Present(disk')
             PROVE  \E j \in Keys : FileOf(j, At(db[k].link))'
  BY DEF DatabaseAgreesWithMenu, FileOf, Present
<1>1. At(db[k].link) \in Present(disk) /\ disk'.links[At(db[k].link)] = disk.links[At(db[k].link)]
  BY DEF Thinned, Present
<1> QED
  BY <1>1 DEF DatabaseAgreesWithMenu, FileOf

LEMMA DeleteAgrees ==
    ASSUME "delete" \notin Mishaps, TypeInv, DatabaseAgreesWithMenu,
           NEW key \in Keys, OnDeleteAppList(key)
    PROVE  DatabaseAgreesWithMenu'
<1> DEFINE gone == At(db[key].link)
<1>1. PICK icons : disk' = DeleteFiles(disk, {gone}, icons)
  BY DEF OnDeleteAppList
<1>2. db' = [db EXCEPT ![key] = None] /\ db[key] # None
  BY DEF OnDeleteAppList
<1>3. disk \in Disks /\ db \in [Keys -> Entries \cup {None}]
  BY DEF TypeInv, TypeOK
<1>4. /\ gone \in LinkPaths /\ At(gone) = gone
      /\ \A l \in LinkPaths : disk'.links[l] = IF l = gone THEN None ELSE disk.links[l]
  <2>1. db[key].link \in LinkPaths
    BY <1>2, <1>3 DEF Entries
  <2>2. gone \in LinkPaths /\ At(gone) = gone
    BY <2>1, FoldAssumption DEF At, LinkPaths
  <2> HIDE DEF gone
  <2>3. \A l \in LinkPaths : disk'.links[l] = IF \E n \in {gone} : At(n) = l THEN None
                                              ELSE disk.links[l]
    BY <1>1, <1>3, DeleteFilesType
  <2> QED
    BY <2>2, <2>3
<1> SUFFICES ASSUME NEW k \in Keys, db'[k] # None, At(db'[k].link) \in Present(disk')
             PROVE  \E j \in Keys : FileOf(j, At(db[k].link))'
  BY DEF DatabaseAgreesWithMenu, Present
<1> DEFINE n == At(db[k].link)
<1>5. k # key /\ db'[k] = db[k]
  BY <1>2, <1>3
<1>6. n \in Present(disk) /\ n # gone /\ disk'.links[n] = disk.links[n]
  BY <1>4, <1>5 DEF Present
<1>7. PICK j \in Keys : FileOf(j, n)
  BY <1>5, <1>6 DEF DatabaseAgreesWithMenu
<1>8. j # key /\ db'[j] = db[j]
  BY <1>2, <1>3, <1>6, <1>7 DEF FileOf
<1> QED
  BY <1>5, <1>6, <1>7, <1>8 DEF FileOf

LEMMA ApplyAgrees ==
    ASSUME "link" \notin Mishaps, TypeInv, DatabaseAgreesWithMenu,
           NEW a \in Apps, NEW hints \in Hints, ApplyUpdate(a, hints)
    PROVE  DatabaseAgreesWithMenu'
<1>1. Ready /\ ~Conflict(a) /\ db' = [db EXCEPT ![a.key] = Entry(a)]
  BY DEF ApplyUpdate
<1>2. PICK made \in BOOLEAN, hasIcon \in BOOLEAN :
        /\ hasIcon => a.icon
        /\ Thinned(Written(a, made, hasIcon, TRUE), disk')
  BY AppliedLinks
<1> DEFINE e == Written(a, made, hasIcon, TRUE)
           n == At(LinkPath(a))
<1>3. /\ n \in LinkPaths
      /\ e.links[n].cmd = <<caps.provider, a.args>>
      /\ e.links[n].icon = IF hasIcon THEN IconPath(a) ELSE None
      /\ \A l \in LinkPaths : l # n => e.links[l] = disk.links[l]
  BY <1>1, WrittenLinks
<1>4. db \in [Keys -> Entries \cup {None}] /\ a.key \in Keys /\ Entry(a) \in Entries
  BY <1>1, EntryType DEF TypeInv, TypeOK
<1>5. Entry(a) # None
  BY <1>4, EntryAssumption
<1>6. /\ db'[a.key] = Entry(a) /\ At(Entry(a).link) = n
      /\ Entry(a).cmd = <<caps.provider, a.args>>
      /\ Entry(a).icon = IF a.icon THEN IconPath(a) ELSE None
      /\ \A k \in Keys : db[k] # None => db'[k] = db[k]
  BY <1>1, <1>4 DEF Entry, Conflict
<1> HIDE DEF e, n
<1> SUFFICES ASSUME NEW k \in Keys, db'[k] # None, At(db'[k].link) \in Present(disk')
             PROVE  \E j \in Keys : FileOf(j, At(db[k].link))'
  BY DEF DatabaseAgreesWithMenu, Present
<1> DEFINE m == At(db'[k].link)
<1>7. m \in LinkPaths /\ disk'.links[m] = e.links[m] /\ e.links[m] # None
  BY <1>2 DEF Thinned, Present, e
<1>8. CASE m = n
  <2>1. e.links[n].icon \in {None, Entry(a).icon}
    BY <1>2, <1>3, <1>6
  <2>2. /\ db'[a.key] # None /\ At(db'[a.key].link) = m
        /\ disk'.links[m].cmd = db'[a.key].cmd
        /\ disk'.links[m].icon \in {None, db'[a.key].icon}
    BY <1>3, <1>5, <1>6, <1>7, <1>8, <2>1
  <2>3. FileOf(a.key, At(db[k].link))'
    BY <2>2 DEF FileOf
  <2> QED
    BY <1>4, <2>3
<1>9. CASE m # n
  <2>1. k # a.key /\ db'[k] = db[k]
    BY <1>1, <1>4, <1>6, <1>9
  <2>2. m \in Present(disk) /\ disk'.links[m] = disk.links[m]
    BY <1>3, <1>7, <1>9 DEF Present
  <2>3. PICK j \in Keys : FileOf(j, m)
    BY <2>1, <2>2 DEF DatabaseAgreesWithMenu
  <2> QED
    BY <1>6, <2>2, <2>3 DEF FileOf
<1> QED
  BY <1>8, <1>9

AgreeInv == TypeInv /\ DatabaseAgreesWithMenu

LEMMA AgreeStep ==
    ASSUME {"link", "delete"} \cap Mishaps = {}, AgreeInv, [Next]_vars
    PROVE  AgreeInv'
<1> USE DEF AgreeInv
<1>1. ASSUME db' = EmptyDB PROVE DatabaseAgreesWithMenu'
  BY <1>1 DEF EmptyDB, DatabaseAgreesWithMenu
<1>2. ASSUME NEW key \in Keys, OnDeleteAppList(key) PROVE DatabaseAgreesWithMenu'
  BY <1>2, DeleteAgrees
<1>3. ASSUME NEW a \in Apps, NEW hints \in Hints, ApplyUpdate(a, hints)
      PROVE  DatabaseAgreesWithMenu'
  BY <1>3, ApplyAgrees
<1>4. ASSUME db' = db, Thinned(disk, disk') PROVE DatabaseAgreesWithMenu'
  BY <1>4, ThinnedAgrees
<1>5. DatabaseAgreesWithMenu'
  BY <1>1, <1>2, <1>3, <1>4, DatabaseSteps, OthersThin
<1>6. TypeInv'
  BY TypeStep
<1> QED
  BY <1>5, <1>6

LEMMA AgreeInit == Init => AgreeInv
BY TypeInit DEF Init, EmptyDB, DatabaseAgreesWithMenu, AgreeInv

\* The link of an app of the session, when it is there, has the command, and the
\* icon or none, of that app or of a namesake that overtook it, as long as links
\* can be written and deleted (WSLDVCCallback.cpp:750, :830): also when icons
\* cannot be written, when capabilities are repeated, and when another process
\* removes links at the same time.
THEOREM MenuAgrees ==
    ASSUME {"link", "delete"} \cap Mishaps = {}
    PROVE  Spec => []DatabaseAgreesWithMenu
<1>1. AgreeInv => DatabaseAgreesWithMenu
  BY DEF AgreeInv
<1> QED
  BY <1>1, AgreeInit, AgreeStep, PTL DEF Spec

\* Only an association, told to the end, gives a window a new command.
LEMMA NewCommand ==
    ASSUME TypeInv, [Next]_vars, NEW w \in Windows,
           taskbar'[w].cmd \notin {None, taskbar[w].cmd}
    PROVE  \E k \in Keys : /\ db[k] # None
                           /\ taskbar'[w].cmd = db[k].cmd
                           /\ taskbar'[w].icon = db[k].icon
<1>1. taskbar' # taskbar /\ taskbar' # NoButtons
  BY DEF NoButtons
<1>2. PICK v \in Windows, key \in Keys, named \in BOOLEAN : OnAssociateWindowId(v, key, named)
  BY <1>1, TaskbarSteps
<1>3. PICK told \in {"nothing", "icon", "all"} :
        taskbar' = [taskbar EXCEPT ![v] =
            IF named /\ db[key] # None /\ db[key].icon # None
            THEN UpdateTaskBarInfo(@, db[key], told) ELSE PreventPinning(@, told)]
  BY <1>2 DEF OnAssociateWindowId
<1>4. taskbar \in [Windows -> Buttons]
  BY DEF TypeInv, TypeOK
<1>5. v = w
  BY <1>3, <1>4
<1>6. PreventPinning(taskbar[w], told).cmd = taskbar[w].cmd
  BY <1>4 DEF PreventPinning, Buttons
<1>7. CASE ~(named /\ db[key] # None /\ db[key].icon # None)
  BY <1>3, <1>4, <1>5, <1>6, <1>7
<1>8. CASE named /\ db[key] # None /\ db[key].icon # None
  <2>1. taskbar'[w] = UpdateTaskBarInfo(taskbar[w], db[key], told)
    BY <1>3, <1>4, <1>5, <1>8
  <2>2. told = "all"
    BY <1>4, <2>1 DEF UpdateTaskBarInfo, Buttons
  <2> QED
    BY <1>4, <1>8, <2>1, <2>2 DEF UpdateTaskBarInfo, Buttons
<1> QED
  BY <1>7, <1>8

\* What a window is told to relaunch is what the link of one app launches, with the
\* same icon, when that link is there and no namesake has overtaken it: for every
\* set of apps and windows, as long as links can be written and deleted
\* (WSLDVCCallback.cpp:945).
THEOREM ButtonsAgree ==
    ASSUME {"link", "delete"} \cap Mishaps = {}
    PROVE  Spec => ButtonsAgreeWithMenu
<1> DEFINE Agrees ==
        \A w \in Windows :
            taskbar'[w].cmd \notin {None, taskbar[w].cmd} =>
                \E k \in Keys :
                    /\ db[k] # None
                    /\ taskbar'[w].cmd = db[k].cmd
                    /\ taskbar'[w].icon = db[k].icon
                    /\ At(db[k].link) \in Present(disk) /\ ~Namesake(k) =>
                            FileOf(k, At(db[k].link))
<1>1. ASSUME AgreeInv, [Next]_vars PROVE Agrees
  <2> SUFFICES ASSUME NEW k \in Keys, db[k] # None,
                      At(db[k].link) \in Present(disk), ~Namesake(k)
               PROVE  FileOf(k, At(db[k].link))
    BY <1>1, NewCommand DEF AgreeInv
  <2>1. PICK j \in Keys : FileOf(j, At(db[k].link))
    BY <1>1 DEF AgreeInv, DatabaseAgreesWithMenu
  <2>2. j = k
    BY <2>1 DEF FileOf, Namesake
  <2> QED
    BY <2>1, <2>2
<1>2. AgreeInv /\ [Next]_vars => [Agrees]_vars
  BY <1>1
<1>3. [][Agrees]_vars <=> ButtonsAgreeWithMenu
  BY DEF ButtonsAgreeWithMenu
<1> HIDE DEF Agrees
<1> QED
  BY <1>2, <1>3, AgreeInit, AgreeStep, PTL DEF Spec

(***************************************************************************)
(* Providers stay apart                                                    *)
(***************************************************************************)

LinksApart(d) ==
    \A l \in Present(d) :
        /\ d.links[l].cmd[1] = l[1]
        /\ d.links[l].icon # None => d.links[l].icon[1] = l[1]

\* What a session remembers and tells is of its provider.
EntriesApart ==
    \A k \in Keys : db[k] # None =>
        /\ handshake
        /\ db[k].cmd[1] = caps.provider
        /\ db[k].icon # None => db[k].icon[1] = caps.provider

ButtonsApart ==
    \A w \in Windows :
        /\ taskbar[w].icon # None => handshake /\ taskbar[w].icon[1] = caps.provider
        /\ taskbar[w].cmd # None => taskbar[w].cmd[1] = caps.provider

ApartInv == TypeInv /\ CapsCompleted /\ LinksApart(disk) /\ EntriesApart /\ ButtonsApart

LEMMA ThinnedApart ==
    ASSUME NEW d, NEW e, LinksApart(d), Thinned(d, e)
    PROVE  LinksApart(e)
BY DEF LinksApart, Thinned, Present

LEMMA ApplyApart ==
    ASSUME ApartInv, NEW a \in Apps, NEW hints \in Hints, ApplyUpdate(a, hints)
    PROVE  LinksApart(disk') /\ EntriesApart'
<1>1. Ready /\ db' = [db EXCEPT ![a.key] = Entry(a)] /\ UNCHANGED <<handshake, caps>>
  BY DEF ApplyUpdate
<1>2. caps.menu = caps.provider /\ caps.icons = caps.provider
  BY <1>1 DEF ApartInv, CapsCompleted, Ready
<1>3. db \in [Keys -> Entries \cup {None}] /\ a.key \in Keys
  BY <1>1, EntryType DEF ApartInv, TypeInv, TypeOK
<1>4. EntriesApart'
  <2>1. /\ Entry(a).cmd[1] = caps.provider
        /\ Entry(a).icon # None => Entry(a).icon[1] = caps.provider
    BY <1>2 DEF Entry, IconPath
  <2> HIDE DEF Entry
  <2> QED
    BY <1>1, <1>3, <2>1 DEF ApartInv, EntriesApart, Ready
<1>5. PICK made \in BOOLEAN, hasIcon \in BOOLEAN, linked \in BOOLEAN :
        Thinned(Written(a, made, hasIcon, linked), disk')
  BY AppliedLinks DEF ApartInv
<1>6. CASE linked
  <2> DEFINE e == Written(a, made, hasIcon, TRUE)
             n == At(LinkPath(a))
  <2>1. /\ n \in LinkPaths
        /\ e.links[n].cmd = <<caps.provider, a.args>>
        /\ e.links[n].icon = IF hasIcon THEN IconPath(a) ELSE None
        /\ \A l \in LinkPaths : l # n => e.links[l] = disk.links[l]
    BY <1>1, WrittenLinks DEF ApartInv
  <2>2. n[1] = caps.menu
    BY DEF At, LinkPath
  <2>3. e.links[n].icon # None => e.links[n].icon[1] = caps.icons
    <3>1. IconPath(a)[1] = caps.icons
      BY DEF IconPath
    <3> HIDE DEF e, n
    <3> QED
      BY <2>1, <3>1
  <2> HIDE DEF e, n
  <2>4. LinksApart(e)
    <3> SUFFICES ASSUME NEW l \in Present(e)
                 PROVE  /\ e.links[l].cmd[1] = l[1]
                        /\ e.links[l].icon # None => e.links[l].icon[1] = l[1]
      BY DEF LinksApart
    <3>1. CASE l = n
      BY <1>2, <2>1, <2>2, <2>3, <3>1
    <3>2. CASE l # n
      BY <2>1, <3>2 DEF ApartInv, LinksApart, Present
    <3> QED
      BY <3>1, <3>2
  <2>5. LinksApart(disk')
    BY <1>5, <1>6, <2>4, ThinnedApart DEF e
  <2> QED
    BY <1>4, <2>5
<1>7. CASE ~linked
  <2>1. Written(a, made, hasIcon, linked).links = disk.links
    BY <1>1, <1>7, WrittenType DEF Written, ApartInv
  <2>2. Thinned(disk, disk')
    BY <1>5, <2>1 DEF Thinned
  <2> QED
    BY <1>4, <2>2, ThinnedApart DEF ApartInv
<1> QED
  BY <1>6, <1>7

LEMMA AssociateApart ==
    ASSUME ApartInv, NEW w \in Windows, NEW key \in Keys, NEW named \in BOOLEAN,
           OnAssociateWindowId(w, key, named)
    PROVE  ButtonsApart'
<1>1. taskbar \in [Windows -> Buttons] /\ db \in [Keys -> Entries \cup {None}]
  BY DEF ApartInv, TypeInv, TypeOK
<1>2. handshake /\ UNCHANGED <<handshake, caps>>
  BY DEF OnAssociateWindowId, Ready
<1>3. PICK told \in {"nothing", "icon", "all"} :
        taskbar' = [taskbar EXCEPT ![w] =
            IF named /\ db[key] # None /\ db[key].icon # None
            THEN UpdateTaskBarInfo(@, db[key], told) ELSE PreventPinning(@, told)]
  BY DEF OnAssociateWindowId
<1> DEFINE apart(b) == /\ b.icon # None => b.icon[1] = caps.provider
                       /\ b.cmd # None => b.cmd[1] = caps.provider
           button == IF named /\ db[key] # None /\ db[key].icon # None
                     THEN UpdateTaskBarInfo(taskbar[w], db[key], told)
                     ELSE PreventPinning(taskbar[w], told)
<1>4. apart(taskbar[w])
  BY DEF ApartInv, ButtonsApart
<1>5. db[key] # None => /\ db[key].cmd[1] = caps.provider
                        /\ db[key].icon # None => db[key].icon[1] = caps.provider
  BY DEF ApartInv, EntriesApart
<1>6. apart(button)
  <2>1. apart(PreventPinning(taskbar[w], told))
    BY <1>1, <1>4 DEF PreventPinning, Buttons
  <2>2. ASSUME db[key] # None PROVE apart(UpdateTaskBarInfo(taskbar[w], db[key], told))
    BY <1>1, <1>4, <1>5, <2>2 DEF UpdateTaskBarInfo, Buttons
  <2> QED
    BY <2>1, <2>2
<1>7. taskbar'[w] = button /\ \A v \in Windows : v # w => taskbar'[v] = taskbar[v]
  BY <1>1, <1>3
<1> HIDE DEF button
<1> QED
  BY <1>2, <1>6, <1>7 DEF ApartInv, ButtonsApart

LEMMA ButtonsStep ==
    ASSUME "recaps" \notin Mishaps, ApartInv, [Next]_vars
    PROVE  ButtonsApart'
<1>1. CASE taskbar' = NoButtons
  BY <1>1 DEF NoButtons, ButtonsApart
<1>2. CASE taskbar' = taskbar
  BY <1>1, <1>2, CapsSteps DEF ApartInv, ButtonsApart, TypeInv, TypeOK, Buttons
<1>3. ASSUME NEW w \in Windows, NEW key \in Keys, NEW named \in BOOLEAN,
             OnAssociateWindowId(w, key, named)
      PROVE  ButtonsApart'
  BY <1>3, AssociateApart
<1> QED
  BY <1>1, <1>2, <1>3, TaskbarSteps

\* If the server never repeats its capabilities, a link below one provider's menu
\* launches that provider with an icon of that provider, and so does a taskbar
\* button, whatever fails and whoever removes files meanwhile: removing one
\* distribution takes nothing of another (dllmain.cpp).
THEOREM ProvidersNeverMix == ASSUME "recaps" \notin Mishaps PROVE Spec => []ProvidersApart
<1>1. Init => ApartInv
  <2> SUFFICES ASSUME Init PROVE ApartInv
    OBVIOUS
  <2>1. TypeInv /\ CapsCompleted /\ EntriesApart /\ ButtonsApart
    BY TypeInit DEF Init, CapsCompleted, EmptyDB, EntriesApart, NoButtons, ButtonsApart
  <2>2. LinksApart(disk)
    BY DEF Init, LinksApart, Present
  <2> QED
    BY <2>1, <2>2 DEF ApartInv
<1>2. ApartInv /\ [Next]_vars /\ CapsCompleted' => ApartInv'
  <2> SUFFICES ASSUME ApartInv, [Next]_vars, CapsCompleted' PROVE ApartInv'
    OBVIOUS
  <2>1. TypeInv' /\ ButtonsApart'
    BY TypeStep, ButtonsStep DEF ApartInv
  <2>2. ASSUME NEW a \in Apps, NEW hints \in Hints, ApplyUpdate(a, hints)
        PROVE  LinksApart(disk') /\ EntriesApart'
    BY <2>2, ApplyApart
  <2>3. ASSUME Thinned(disk, disk') PROVE LinksApart(disk')
    BY <2>3, ThinnedApart DEF ApartInv
  <2>4. ASSUME db' \in {db, EmptyDB} PROVE EntriesApart'
    BY <2>4, CapsSteps DEF ApartInv, EmptyDB, EntriesApart
  <2>5. ASSUME NEW key \in Keys, OnDeleteAppList(key) PROVE EntriesApart'
    <3>1. /\ db' = [db EXCEPT ![key] = None] /\ db \in [Keys -> Entries \cup {None}]
          /\ UNCHANGED <<handshake, caps>>
      BY <2>5 DEF OnDeleteAppList, ApartInv, TypeInv, TypeOK
    <3> QED
      BY <3>1 DEF ApartInv, EntriesApart
  <2>6. LinksApart(disk')
    BY <2>2, <2>3, OthersThin DEF ApartInv
  <2>7. EntriesApart'
    BY <2>2, <2>4, <2>5, DatabaseSteps DEF ApartInv
  <2>8. LinksApart(disk)'
    BY <2>6 DEF LinksApart, Present
  <2> QED
    BY <2>1, <2>7, <2>8 DEF ApartInv
<1>3. ApartInv => ProvidersApart
  <2>1. ApartInv => \A w \in Windows : taskbar[w].cmd # None => taskbar[w].icon # None
    BY DEF ApartInv, TypeInv, TypeOK, Buttons
  <2> QED
    BY <2>1 DEF ApartInv, LinksApart, ButtonsApart, ProvidersApart
<1> QED
  BY <1>1, <1>2, <1>3, OneExchange, PTL DEF Spec

(***************************************************************************)
(* The client implements StartMenu                                         *)
(***************************************************************************)

\* A fresh listing stands for the links below the folder.
LEMMA ListingStale ==
    ASSUME NEW d \in Disks, NamesFold(d), NEW provider, NEW unreadable
    PROVE  Stale(AddAllFiles(d, provider, unreadable)) = {l \in Present(d) : l[1] = provider}
<1> DEFINE found == {l \in Present(d) : l[1] = provider}
<1>1. AddAllFiles(d, provider, unreadable).links = {<<l[1], d.links[l].name>> : l \in found}
  BY DEF AddAllFiles, OnLnkFileAdded
<1>2. \A l \in found : At(<<l[1], d.links[l].name>>) = l
  BY DEF NamesFold
<1> HIDE DEF found
<1>3. Stale(AddAllFiles(d, provider, unreadable)) = {At(<<l[1], d.links[l].name>>) : l \in found}
  BY <1>1 DEF Stale
<1>4. Stale(AddAllFiles(d, provider, unreadable)) = found
  BY <1>2, <1>3
<1> QED
  BY <1>4 DEF found

\* The listing with which a round goes on, in terms of files.
LEMMA StartedStale ==
    ASSUME TypeInv, NamesFold(disk), NEW hints \in Hints, NEW unreadable
    PROVE  LET started == Started(hints, unreadable) IN
           /\ "START" \in hints => started.on /\ Stale(started) = Menu!Below(caps.menu)
           /\ "START" \notin hints => started = sync
<1>1. disk \in Disks
  BY DEF TypeInv, TypeOK
<1>2. CASE "START" \in hints
  BY <1>1, <1>2, ListingStale, AddAllFilesType DEF Started, Menu!Below
<1>3. CASE "START" \notin hints
  BY <1>3 DEF Started
<1> QED
  BY <1>2, <1>3

\* A report takes one file from it, if no other name is that file.
LEMMA ReportStale ==
    ASSUME CaseExact, TypeInv, Ready, NEW a \in Apps, NEW hints \in Hints,
           NEW unreadable, NEW hasIcon
    PROVE  LET started == Started(hints, unreadable)
               left    == StillListed(a, hints, started, hasIcon)
           IN  /\ left.on = started.on
               /\ Stale(left) = IF "SYNC" \in hints THEN Stale(started) \ {At(LinkPath(a))}
                                                    ELSE Stale(started)
<1> DEFINE started == Started(hints, unreadable)
           left    == StillListed(a, hints, started, hasIcon)
<1>1. started \in Listings /\ LinkPath(a) \in LinkPaths
  BY StartedType, EntryType
<1> HIDE DEF started
<1>2. CASE "SYNC" \in hints
  <2>1. left.on = started.on /\ left.links = started.links \ {LinkPath(a)}
    BY <1>1, <1>2, UnlistType DEF StillListed
  <2>2. \A n \in started.links : At(n) = At(LinkPath(a)) <=> n = LinkPath(a)
    BY <1>1, AtInjective DEF Listings
  <2>3. Stale(left) = Stale(started) \ {At(LinkPath(a))}
    BY <2>1, <2>2 DEF Stale
  <2> QED
    BY <1>2, <2>1, <2>3 DEF started
<1>3. CASE "SYNC" \notin hints
  BY <1>3 DEF StillListed, started
<1> QED
  BY <1>2, <1>3

\* Links go with the files that a deletion names, and only with them.
LEMMA DeleteFilesPresent ==
    ASSUME NEW d \in Disks, NEW links, NEW icons
    PROVE  Present(DeleteFiles(d, links, icons)) = Present(d) \ {At(n) : n \in links}
<1> DEFINE e == DeleteFiles(d, links, icons)
<1>1. \A l \in LinkPaths : e.links[l] = IF \E n \in links : At(n) = l THEN None ELSE d.links[l]
  BY DeleteFilesType
<1> HIDE DEF e
<1>2. Present(e) = Present(d) \ {At(n) : n \in links}
  BY <1>1 DEF Present
<1> QED
  BY <1>2 DEF e

LEMMA SweepTaken ==
    ASSUME NEW d \in Disks, NEW listing, NEW busy \in Busy(listing)
    PROVE  Menu!Taken(Present(d), Stale(listing), Present(DeleteAllFiles(d, listing, busy)))
<1> DEFINE gone == {n \in listing.links : At(n) \notin busy.links}
<1>1. Present(DeleteAllFiles(d, listing, busy)) = Present(d) \ {At(n) : n \in gone}
  BY DeleteFilesPresent DEF DeleteAllFiles
<1>2. "delete" \notin Mishaps => busy.links = {}
  BY DEF Busy, Idle
<1>3. {At(n) : n \in gone} \subseteq Stale(listing)
  BY DEF Stale
<1>4. "delete" \notin Mishaps => {At(n) : n \in gone} = Stale(listing)
  BY <1>2 DEF Stale
<1> HIDE DEF gone
<1> QED
  BY <1>1, <1>3, <1>4 DEF Menu!Taken

\* The link of an update is there afterwards, unless writing it failed.
LEMMA WrittenPresent ==
    ASSUME TypeInv, Ready, NEW a \in Apps, NEW made \in BOOLEAN, NEW hasIcon \in BOOLEAN,
           NEW linked \in BOOLEAN
    PROVE  Present(Written(a, made, hasIcon, linked)) =
              IF linked THEN Present(disk) \cup {At(LinkPath(a))} ELSE Present(disk)
<1>1. CASE linked
  <2> DEFINE e == Written(a, made, hasIcon, TRUE)
             n == At(LinkPath(a))
  <2>1. n \in LinkPaths /\ e.links[n] # None /\ \A l \in LinkPaths : l # n => e.links[l] = disk.links[l]
    BY WrittenLinks
  <2> HIDE DEF e, n
  <2>2. Present(e) = Present(disk) \cup {n}
    BY <2>1 DEF Present
  <2> QED
    BY <1>1, <2>2 DEF e, n
<1>2. CASE ~linked
  <2>1. Written(a, made, hasIcon, linked).links = disk.links
    BY <1>2, WrittenType DEF Written
  <2> QED
    BY <1>2, <2>1 DEF Present
<1> QED
  BY <1>1, <1>2

\* An update that is applied tells of its link.
LEMMA ApplyTells ==
    ASSUME CaseExact, TypeInv, NamesFold(disk),
           NEW a \in Apps, NEW hints \in Hints, ApplyUpdate(a, hints)
    PROVE  Menu!Tell(At(LinkPath(a)), "START" \in hints, "SYNC" \in hints, "END" \in hints)
<1>1. Ready /\ StartAllowed(hints) /\ UNCHANGED <<open, removal>>
  BY DEF ApplyUpdate
<1>2. PICK unreadable \in Unreadable(caps.menu), made \in BOOLEAN, hasIcon \in BOOLEAN,
           linked \in BOOLEAN :
        /\ InSync(hints, Started(hints, unreadable))
        /\ ~linked => "link" \in Mishaps
        /\ IF "END" \in hints
           THEN OnSyncEnd(Written(a, made, hasIcon, linked),
                          StillListed(a, hints, Started(hints, unreadable), hasIcon),
                          Heard(a, hints, TRUE))
           ELSE Proceed(Written(a, made, hasIcon, linked),
                        StillListed(a, hints, Started(hints, unreadable), hasIcon),
                        Heard(a, hints, TRUE))
  BY DEF ApplyUpdate
<1> DEFINE started == Started(hints, unreadable)
           written == Written(a, made, hasIcon, linked)
           listing == StillListed(a, hints, started, hasIcon)
           heard   == Heard(a, hints, TRUE)
           link    == At(LinkPath(a))
           before  == [on |-> sync.on, stale |-> Stale(sync), kept |-> round.reported]
           begun   == IF "START" \in hints THEN Menu!Round(link[1]) ELSE before
           left    == IF ~("SYNC" \in hints) THEN begun
                      ELSE [begun EXCEPT !.stale = @ \ {link}, !.kept = @ \cup {link}]
<1>3. link[1] = caps.menu
  BY <1>1, EntryType, AtType DEF LinkPath
<1>4. /\ begun.on = started.on /\ begun.stale = Stale(started)
      /\ begun.kept = IF "START" \in hints THEN {} ELSE round.reported
      /\ begun = [on |-> begun.on, stale |-> begun.stale, kept |-> begun.kept]
  BY <1>3, StartedStale DEF Menu!Round
<1>5. /\ listing.on = started.on
      /\ Stale(listing) = IF "SYNC" \in hints THEN Stale(started) \ {link} ELSE Stale(started)
  BY <1>1, ReportStale
<1>6. heard.reported = (IF "START" \in hints THEN {} ELSE round.reported)
                       \cup (IF "SYNC" \in hints THEN {link} ELSE {})
  BY <1>1, HeardType
<1>7. /\ "START" \in hints => ~sync.on
      /\ "SYNC" \in hints \/ "END" \in hints => started.on
  BY <1>1, <1>2 DEF StartAllowed, InSync
<1>8. written \in Disks /\ Present(written) \in {Present(disk) \cup {link}}
                               \cup (IF "link" \in Mishaps THEN {Present(disk)} ELSE {})
  BY <1>1, <1>2, WrittenType, WrittenPresent
<1>9. ~listing.on => heard.reported = round.reported
  <2>1. "START" \in hints => started.on
    BY StartedStale
  <2> QED
    BY <1>5, <1>6, <1>7, <2>1
<1> HIDE DEF started, written, listing, heard, link, begun
<1>10. left = [on |-> listing.on, stale |-> Stale(listing), kept |-> heard.reported]
  BY <1>4, <1>5, <1>6
<1> HIDE DEF left
<1>11. CASE "END" \in hints
  <2>1. PICK busy \in Busy(listing) : disk' = DeleteAllFiles(written, listing, busy)
    BY <1>2, <1>11 DEF OnSyncEnd, started, written, listing, heard
  <2>2. sync' = NoListing /\ round' = NoRound
    BY <1>2, <1>11 DEF OnSyncEnd
  <2>3. Menu!Taken(Present(written), left.stale, Present(disk'))
    BY <1>8, <1>10, <2>1, SweepTaken
  <2>4. [on |-> sync'.on, stale |-> Stale(sync'), kept |-> round'.reported] = Menu!NoRound
    BY <2>2 DEF NoListing, NoRound, Stale, Menu!NoRound
  <2> QED
    BY <1>1, <1>4, <1>7, <1>8, <1>11, <2>3, <2>4 DEF Menu!Tell, left, begun, link, Ready
<1>12. CASE "END" \notin hints
  <2>1. /\ disk' = written /\ sync' = listing
        /\ round' = IF listing.on THEN heard ELSE round
    BY <1>2, <1>12 DEF Proceed, started, written, listing, heard
  <2>2. [on |-> sync'.on, stale |-> Stale(sync'), kept |-> round'.reported] = left
    BY <1>9, <1>10, <2>1
  <2> QED
    BY <1>1, <1>4, <1>7, <1>8, <1>12, <2>1, <2>2 DEF Menu!Tell, left, begun, link, Ready
<1> QED
  BY <1>11, <1>12

\* An update that is refused begins a round or does nothing.
LEMMA RefuseBegins ==
    ASSUME TypeInv, NamesFold(disk), NEW a \in Apps, NEW hints \in Hints, RefuseUpdate(a, hints)
    PROVE  Menu!Begin(caps.menu) \/ UNCHANGED Menu!vars
<1>1. Ready /\ StartAllowed(hints) /\ UNCHANGED <<disk, open, removal>>
  BY DEF RefuseUpdate
<1>2. PICK unreadable \in Unreadable(caps.menu) :
        /\ sync' = Started(hints, unreadable)
        /\ round' = IF Started(hints, unreadable).on THEN Heard(a, hints, FALSE) ELSE round
  BY DEF RefuseUpdate
<1> DEFINE heard == Heard(a, hints, FALSE)
<1>3. heard.reported = IF "START" \in hints THEN {} ELSE round.reported
  BY <1>1, HeardType
<1> HIDE DEF heard
<1>4. CASE "START" \in hints
  <2>1. sync'.on = TRUE /\ Stale(sync') = Menu!Below(caps.menu)
    BY <1>2, <1>4, StartedStale, AddAllFilesType DEF Started, TypeInv, TypeOK
  <2>2. round'.reported = {} /\ ~sync.on
    BY <1>1, <1>2, <1>3, <1>4, <2>1 DEF StartAllowed, heard
  <2>3. [on |-> sync'.on, stale |-> Stale(sync'), kept |-> round'.reported]
          = Menu!Round(caps.menu)
    BY <2>1, <2>2 DEF Menu!Round
  <2> QED
    BY <1>1, <2>2, <2>3 DEF Menu!Begin, Ready
<1>5. CASE "START" \notin hints
  <2>1. sync' = sync /\ round'.reported = round.reported
    BY <1>2, <1>3, <1>5 DEF Started, heard
  <2> QED
    BY <1>1, <2>1 DEF Menu!vars
<1> QED
  BY <1>4, <1>5

\* The session ends, and what it takes then is what the round would have taken.
LEMMA ForgetLeaves ==
    ASSUME open, Forget,
           Present(disk) \ Stale(sync) \subseteq Present(disk'), Present(disk') \subseteq Present(disk)
    PROVE  Menu!Leave
<1>1. open' = FALSE /\ sync' = NoListing /\ round' = NoRound /\ removal' = removal
  BY DEF Forget
<1>2. [on |-> sync'.on, stale |-> Stale(sync'), kept |-> round'.reported] = Menu!NoRound
  BY <1>1 DEF NoListing, NoRound, Stale, Menu!NoRound
<1> QED
  BY <1>1, <1>2 DEF Menu!Leave

LEMMA CrashLeaves == ASSUME TypeInv, Crash PROVE Menu!Leave
<1>1. disk \in Disks
  BY DEF TypeInv, TypeOK
<1>2. ASSUME NEW a \in Apps, Ready, disk' = WithIcon(a, TRUE) PROVE Present(disk') = Present(disk)
  BY <1>2, WrittenType DEF Present
<1>3. ASSUME NEW links \in SUBSET sync.links, NEW icons, disk' = DeleteFiles(disk, links, icons)
      PROVE  /\ Present(disk) \ Stale(sync) \subseteq Present(disk')
             /\ Present(disk') \subseteq Present(disk)
  <2>1. Present(disk') = Present(disk) \ {At(n) : n \in links}
    BY <1>1, <1>3, DeleteFilesPresent
  <2>2. {At(n) : n \in links} \subseteq Stale(sync)
    BY DEF Stale
  <2> QED
    BY <2>1, <2>2
<1>4. /\ Present(disk) \ Stale(sync) \subseteq Present(disk')
      /\ Present(disk') \subseteq Present(disk)
  BY <1>2, <1>3 DEF Crash, Present
<1> QED
  BY <1>4, ForgetLeaves DEF Crash

LEMMA DeleteWithdraws ==
    ASSUME TypeInv, NEW key \in Keys, OnDeleteAppList(key)
    PROVE  \E link \in Menu!Links : Menu!Withdraw(link)
<1> DEFINE link == At(db[key].link)
<1>1. disk \in Disks /\ db[key] \in Entries
  BY DEF TypeInv, TypeOK, OnDeleteAppList
<1>2. link \in LinkPaths /\ At(link) = link
  <2>1. db[key].link \in LinkPaths
    BY <1>1 DEF Entries
  <2> QED
    BY <2>1, FoldAssumption DEF At, LinkPaths
<1>3. PICK links \in SUBSET {link}, icons \in SUBSET ({db[key].icon} \ {None}) :
        /\ "delete" \notin Mishaps => links = {link}
        /\ disk' = DeleteFiles(disk, links, icons)
  BY DEF OnDeleteAppList
<1> HIDE DEF link
<1>4. Present(disk') = Present(disk) \ {At(n) : n \in links}
  BY <1>1, <1>3, DeleteFilesPresent
<1>5. {At(n) : n \in links} = links
  BY <1>2
<1>6. Menu!Taken(Present(disk), {link}, Present(disk'))
  BY <1>3, <1>4, <1>5 DEF Menu!Taken
<1>7. Menu!Withdraw(link)
  BY <1>6 DEF Menu!Withdraw, OnDeleteAppList, Ready
<1> QED
  BY <1>2, <1>7 DEF Menu!Links, LinkPaths

LEMMA RemovalSteps ==
    ASSUME CaseExact, TypeInv, NamesFold(disk)
    PROVE  /\ \A provider \in Providers : RemoveList(provider) => Menu!Remove(provider)
           /\ RemoveSweep => Menu!Removing
           /\ RemoveReturns => Menu!Removed
<1>1. disk \in Disks
  BY DEF TypeInv, TypeOK
<1>2. ASSUME NEW provider \in Providers, RemoveList(provider) PROVE Menu!Remove(provider)
  <2>1. PICK unreadable \in Unreadable(provider) : removal' = AddAllFiles(disk, provider, unreadable)
    BY <1>2 DEF RemoveList
  <2>2. removal'.on = TRUE /\ Stale(removal') = Menu!Below(provider)
    BY <1>1, <2>1, ListingStale, AddAllFilesType DEF Menu!Below
  <2> QED
    BY <1>2, <2>2 DEF RemoveList, Menu!Remove
<1>3. ASSUME RemoveSweep PROVE Menu!Removing
  <2>1. PICK links \in SUBSET removal.links, icons \in SUBSET removal.icons :
          /\ disk' = DeleteFiles(disk, links, icons) \/ ("delete" \in Mishaps /\ UNCHANGED disk)
          /\ removal' = Unlist(removal, links, icons)
    BY <1>3 DEF RemoveSweep
  <2> DEFINE gone == {At(n) : n \in links}
  <2>2. removal \in Listings
    BY DEF TypeInv, TypeOK
  <2>3. removal'.on = removal.on /\ removal'.links = removal.links \ links
    BY <2>1, <2>2, UnlistType
  <2>4. \A m, n \in removal.links : At(m) = At(n) => m = n
    BY <2>2, AtInjective DEF Listings
  <2>5. gone \subseteq Stale(removal) /\ Stale(removal') = Stale(removal) \ gone
    BY <2>3, <2>4 DEF Stale
  <2>6. \/ Present(disk') = Present(disk) \ gone
        \/ "delete" \in Mishaps /\ Present(disk') = Present(disk)
    <3>1. CASE disk' = DeleteFiles(disk, links, icons)
      BY <1>1, <3>1, DeleteFilesPresent
    <3>2. CASE "delete" \in Mishaps /\ UNCHANGED disk
      BY <3>2
    <3> QED
      BY <2>1, <3>1, <3>2
  <2>7. Menu!Taken(Present(disk), gone, Present(disk'))
    <3> HIDE DEF gone
    <3> QED
      BY <2>6 DEF Menu!Taken
  <2>8. [on |-> removal'.on, stale |-> Stale(removal')]
            = [on |-> TRUE, stale |-> Stale(removal) \ gone]
    BY <1>3, <2>2, <2>3, <2>5 DEF RemoveSweep, Listings
  <2> HIDE DEF gone
  <2> QED
    BY <1>3, <2>5, <2>7, <2>8 DEF RemoveSweep, Menu!Removing
<1>4. ASSUME RemoveReturns PROVE Menu!Removed
  <2>1. [on |-> removal'.on, stale |-> Stale(removal')] = Menu!NoRemoval
    BY <1>4 DEF RemoveReturns, NoListing, Stale, Menu!NoRemoval
  <2>2. Stale(removal) = {}
    BY <1>4 DEF RemoveReturns, Stale
  <2> QED
    BY <1>4, <2>1, <2>2 DEF RemoveReturns, Menu!Removed
<1> QED
  BY <1>2, <1>3, <1>4

LEMMA StepMenu ==
    ASSUME CaseExact, TypeInv, NamesFold(disk), [Next]_vars
    PROVE  [Menu!Next]_(Menu!vars)
<1> SUFFICES Menu!Next \/ UNCHANGED Menu!vars
  OBVIOUS
<1>1. ASSUME NEW a \in Apps, NEW hints \in Hints, ApplyUpdate(a, hints)
      PROVE  Menu!Next
  <2>1. Ready
    BY <1>1 DEF ApplyUpdate
  <2>2. At(LinkPath(a)) \in Menu!Links
    BY <2>1, EntryType, AtType DEF Menu!Links, LinkPaths
  <2>3. Menu!Tell(At(LinkPath(a)), "START" \in hints, "SYNC" \in hints, "END" \in hints)
    BY <1>1, ApplyTells
  <2>4. ("START" \in hints) \in BOOLEAN /\ ("SYNC" \in hints) \in BOOLEAN /\ ("END" \in hints) \in BOOLEAN
    OBVIOUS
  <2> QED
    BY <2>2, <2>3, <2>4 DEF Menu!Next
<1>2. ASSUME NEW a \in Apps, NEW hints \in Hints, RefuseUpdate(a, hints)
      PROVE  Menu!Next \/ UNCHANGED Menu!vars
  <2>1. caps.menu \in Providers
    BY <1>2 DEF RefuseUpdate, Ready, TypeInv, PathsBuilt
  <2> QED
    BY <1>2, <2>1, RefuseBegins DEF Menu!Next
<1>3. CASE Connect
  BY <1>3 DEF Connect, Menu!Enter, Menu!Next
<1>4. CASE OnClose
  <2>1. Menu!Leave
    BY <1>4, ForgetLeaves DEF OnClose, Present
  <2> QED
    BY <2>1 DEF Menu!Next
<1>5. CASE Crash
  BY <1>5, CrashLeaves DEF Menu!Next
<1>6. ASSUME NEW key \in Keys, OnDeleteAppList(key) PROVE Menu!Next
  BY <1>6, DeleteWithdraws DEF Menu!Next
<1>7. ASSUME NEW provider \in Providers, RemoveList(provider) PROVE Menu!Next
  BY <1>7, RemovalSteps DEF Menu!Next
<1>8. CASE RemoveSweep \/ RemoveReturns
  BY <1>8, RemovalSteps DEF Menu!Next
<1>9. ASSUME UNCHANGED <<disk, open, sync, removal, round>> PROVE UNCHANGED Menu!vars
  BY <1>9 DEF Menu!vars, Present, Stale
<1>10. ASSUME NEW provider \in Providers, NEW v4 \in BOOLEAN, NEW stage \in CapsStages,
              OnCaps(provider, v4, stage)
       PROVE  UNCHANGED Menu!vars
  BY <1>9, <1>10 DEF OnCaps
<1>11. ASSUME NEW w \in Windows, NEW key \in Keys, NEW named \in BOOLEAN,
              OnAssociateWindowId(w, key, named)
       PROVE  UNCHANGED Menu!vars
  BY <1>9, <1>11 DEF OnAssociateWindowId
<1>12. CASE UNCHANGED vars
  BY <1>9, <1>12 DEF vars
<1> QED
  BY <1>1, <1>2, <1>3, <1>4, <1>5, <1>6, <1>7, <1>8, <1>10, <1>11, <1>12 DEF Next

\* If names are the same file only when they are spelled the same, the client
\* implements StartMenu: every message, crash and removal changes the menu as
\* StartMenu allows, whatever fails (WSLDVCCallback.cpp, dllmain.cpp).
THEOREM MenuAsPromised == ASSUME CaseExact PROVE Spec => MenuSpec
<1>1. Init => TypeInv /\ ListedInv
  BY TypeInit
  DEF Init, ListedInv, Listed, NamesFold, Present, NoRound, SweepIsComplete, Clean
<1>2. TypeInv /\ ListedInv /\ [Next]_vars => (TypeInv /\ ListedInv)'
  BY TypeStep, ListStep
<1>3. Init => Menu!Init
  <2> SUFFICES ASSUME Init PROVE Menu!Init
    OBVIOUS
  <2>1. Present(disk) = {} /\ Stale(sync) = {} /\ Stale(removal) = {}
    BY DEF Init, Present, Stale, NoListing
  <2> QED
    BY <2>1 DEF Init, NoListing, NoRound, Menu!Init, Menu!NoRound, Menu!NoRemoval
<1>4. TypeInv /\ ListedInv /\ [Next]_vars => [Menu!Next]_(Menu!vars)
  BY StepMenu DEF ListedInv
<1> QED
  BY <1>1, <1>2, <1>3, <1>4, PTL DEF Spec, MenuSpec, Menu!Spec
=============================================================================
