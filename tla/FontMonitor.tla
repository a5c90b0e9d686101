----------------------------- MODULE FontMonitor -----------------------------
(***************************************************************************)
(* The font monitor of WSLGd (WSLGd/FontMonitor.cpp): a thread that keeps  *)
(* the font path of the X server equal to the folders of the user's        *)
(* distribution that hold a fonts.dir, told by inotify of what changes.    *)
(* The distribution, which changes its folders at any time, and the X      *)
(* server are the environment.                                             *)
(*                                                                         *)
(* A watch is on the folder itself and goes with it where it is moved,     *)
(* while the entry that set it keeps its path: the variable at says where  *)
(* each watch is.  A folder that is moved out of the font paths goes to    *)
(* one that is not monitored.  Left out: what a fonts.dir says (the code   *)
(* never reads it, and does nothing when one is written anew in a folder   *)
(* it has added).                                                          *)
(***************************************************************************)
EXTENDS Naturals, Sequences

CONSTANTS
    Folders,     \* paths of folders below the font paths of the distribution
    Parent,      \* the folder that a folder is in, itself for a root
    Name,        \* the last name of its path, which an event gives
    MountRoot,   \* USER_DISTRO_FONT_PATH
    X11Folder,   \* its subfolder X11, the only one that is monitored
    None,        \* not tracked, or nowhere
    MaxChanges,  \* bound: changes of the distribution, X restarts, failures
    MaxQueue,    \* events that inotify keeps (fs.inotify.max_queued_events)
    Mishaps      \* what may go wrong, see MishapKinds

\* xset: an xset fails; restart: the X server starts anew, with an empty path;
\* move: a folder is moved with its subfolders; limit: dup, inotify_add_watch or
\* the listing of a folder fails; thread: pthread_create fails; stop: WSLGd ends.
MishapKinds == {"xset", "restart", "move", "limit", "thread", "stop"}

ASSUME FontAssumption ==
    /\ Parent \in [Folders -> Folders]
    /\ MountRoot \in Folders /\ X11Folder \in Folders
    /\ DOMAIN Name = Folders
    /\ \A f, g \in Folders :
        Parent[f] = Parent[g] /\ Parent[f] # f /\ Parent[g] # g /\ Name[f] = Name[g] => f = g
    /\ MaxChanges \in Nat /\ MaxQueue \in Nat
    /\ Mishaps \subseteq MishapKinds
    /\ None \notin [added : BOOLEAN, wd : Folders]
    /\ None \notin Folders

VARIABLES
    disk,     \* the distribution: each folder, and whether it has a fonts.dir
    changes,  \* how many there have been, of what MaxChanges bounds
    xpath,    \* the folders in the X server's font path
    tracked,  \* m_fontMonitorFolders; wd: its watch, named by a folder
    at,       \* for each watch, where the folder that it is on is now
    queue,    \* inotify events not yet handled
    todo,     \* what the running Start or event handler has still to do
    mode,     \* Start, the thread, Stop
    excused,  \* history: folders that changed where the monitor could not see it
    leaked    \* history: folders that a failed xset has left in the path

vars == <<disk, changes, xpath, tracked, at, queue, todo, mode, excused, leaked>>

Names   == {Name[f] : f \in Folders}
Entries == [added : BOOLEAN, wd : Folders]
Events  == [wd : Folders, what : {"up", "down", "fontsUp", "fontsDown", "void"}, name : Names]
Ops     == [op : {"add", "watch", "open", "list", "remove", "fontsUp", "fontsDown"},
            folder : Folders, added : BOOLEAN, rest : SUBSET Folders]

\* The entries that have a watch.
Holders(w) == {f \in Folders : tracked[f] # None /\ tracked[f].wd = w}

\* Also: an event that is not void is one of an entry's watch.
TypeOK ==
    /\ disk \in [Folders -> {"absent", "bare", "fonts"}]
    /\ changes \in 0 .. MaxChanges
    /\ xpath \subseteq Folders
    /\ tracked \in [Folders -> Entries \cup {None}]
    /\ at \in [Folders -> Folders \cup {None}]
    /\ queue \in Seq(Events)
    /\ \A i \in DOMAIN queue : queue[i].what # "void" => Holders(queue[i].wd) # {}
    /\ todo \in Seq(Ops)
    /\ mode \in {"starting", "running", "deaf", "stopping", "ended", "aborted"}
    /\ excused \subseteq Folders
    /\ leaked \subseteq Folders

Roots       == {f \in Folders : Parent[f] = f}
Children(f) == {g \in Folders \ Roots : Parent[g] = f}
Exists(f)   == disk[f] # "absent"

\* Each folder with what is below it: the least set with the folder and its children's.
Subtree  == [f \in Folders |-> {g \in Folders : \A S \in SUBSET Folders :
                f \in S /\ (\A h \in S : Children(h) \subseteq S) => g \in S}]
Below(f) == Subtree[f]

ASSUME TreeAssumption == \A f \in Folders : \E r \in Roots : f \in Below(r)

\* Immediately under the mount folder only X11 is monitored.
Ignored(f) == f \in Children(MountRoot) /\ f # X11Folder
Monitored  == {f \in Folders : \A g \in Folders : Ignored(g) => f \notin Below(g)}

Op(name, f) == [op |-> name, folder |-> f, added |-> FALSE, rest |-> {}]

\* Start has checked the roots that exist and has called inotify_init.
Init ==
    /\ disk \in [Folders -> {"absent", "bare", "fonts"}]
    /\ \A f \in Folders : Exists(f) => Exists(Parent[f])
    /\ \E r \in Roots : Exists(r)
    /\ changes = 0
    /\ xpath = {}
    /\ tracked = [f \in Folders |-> None]
    /\ at = [w \in Folders |-> None]
    /\ queue = <<>>
    /\ todo = <<[Op("list", MountRoot) EXCEPT !.rest = {f \in Roots : Exists(f)}]>>
    /\ mode = "starting"
    /\ excused = {}
    /\ leaked = {}
-----------------------------------------------------------------------------
(* The distribution and the X server *)

\* The watches on the folder that is now f: one at most.
On(f)   == {w \in Folders : at[w] = f}
\* The entry of f has its watch on f.
Told(f) == tracked[f] # None /\ at[tracked[f].wd] = f
Full    == Len(queue) >= MaxQueue

\* The queue once inotify has told what there is to tell of the folder f.
Telling(q, f, what, name) ==
    IF On(f) = {} \/ Len(q) >= MaxQueue THEN q
    ELSE Append(q, [wd |-> CHOOSE w \in Folders : at[w] = f, what |-> what, name |-> name])
Tell(f, what, name) == queue' = Telling(queue, f, what, name)

\* f is between the look for its fonts.dir and its watch.
InGap(f) == todo # <<>> /\ todo[1].op = "watch" /\ todo[1].folder = f

\* The event i is, for the entry of the folder that f is in, about f.
About(i, f) ==
    f \notin Roots /\ Parent[f] \in Holders(queue[i].wd) /\ queue[i].name = Name[f]

\* The monitor looks at a folder once, and again after it was told that it has gone.
Looked(f)  == tracked[f] # None \/ InGap(f)
Leaving(f) ==
    \/ todo # <<>> /\ todo[1].op = "remove" /\ todo[1].folder = f
    \/ \E i \in DOMAIN queue : queue[i].what = "down" /\ About(i, f)

\* When f comes or goes with what is below it, the monitor stays wrong about a
\* folder that it takes for one it knows, and about what is below that one.
Missed(f) == UNION {Below(g) : g \in {g \in Below(f) : Looked(g) /\ ~Leaving(g)'}}

Change ==
    /\ mode \in {"starting", "running", "stopping"}
    /\ changes < MaxChanges
    /\ changes' = changes + 1

\* A folder is made, or moved in with what it holds.
Appear(f) ==
    /\ Change
    /\ f \notin Roots /\ ~Exists(f) /\ Exists(Parent[f])
    /\ \E content \in [Below(f) -> {"absent", "bare", "fonts"}] :
        /\ content[f] # "absent"
        /\ \A g \in Below(f) \ {f} : content[g] # "absent" => content[Parent[g]] # "absent"
        /\ disk' = [g \in Folders |-> IF g \in Below(f) THEN content[g] ELSE disk[g]]
    /\ Tell(Parent[f], "up", Name[f])
    /\ UNCHANGED <<xpath, tracked, at, todo, mode, leaked>>
    /\ excused' = excused \cup (IF Told(Parent[f]) /\ Full THEN Below(f) ELSE Missed(f))

\* A fonts.dir is written, or goes.
ChangeFonts(f, to, what) ==
    /\ Change
    /\ Exists(f)
    /\ to = "bare" => disk[f] = "fonts"
    /\ disk' = [disk EXCEPT ![f] = to]
    /\ Tell(f, what, Name[f])
    /\ excused' = IF Looked(f) /\ ~Leaving(f) /\ (Told(f) => Full)
                  THEN excused \cup {f} ELSE excused
    /\ UNCHANGED <<xpath, tracked, at, todo, mode, leaked>>

Empty(f) == disk[f] = "bare" /\ \A g \in Children(f) : ~Exists(g)

\* An empty folder is removed, and its watch with it.
Disappear(f) ==
    /\ Change
    /\ f \notin Roots /\ Empty(f)
    /\ disk' = [disk EXCEPT ![f] = "absent"]
    /\ at' = [w \in Folders |-> IF at[w] = f THEN None ELSE at[w]]
    /\ Tell(Parent[f], "down", Name[f])
    /\ UNCHANGED <<xpath, tracked, todo, mode, leaked>>
    /\ excused' = excused \cup Missed(f)

\* f is renamed g, or moved there, where there is nothing or an empty folder; the
\* watches go with what is moved.
Rename(f, g) ==
    /\ "move" \in Mishaps
    /\ Change
    /\ f \notin Roots /\ Exists(f)
    /\ g \notin Roots \cup Below(f) /\ Exists(Parent[g]) /\ (Exists(g) => Empty(g))
    /\ \E m \in [{x \in Below(f) : Exists(x)} -> Below(g)] :
        /\ m[f] = g
        /\ \A x \in DOMAIN m \ {f} : Parent[m[x]] = m[Parent[x]] /\ Name[m[x]] = Name[x]
        /\ \A x, y \in DOMAIN m : m[x] = m[y] => x = y
        /\ disk' = [y \in Folders |->
                    CASE \E x \in DOMAIN m : m[x] = y -> disk[CHOOSE x \in DOMAIN m : m[x] = y]
                      [] y \in Below(f) \cup Below(g) /\ ~\E x \in DOMAIN m : m[x] = y -> "absent"
                      [] OTHER -> disk[y]]
        /\ at' = [w \in Folders |->
                    CASE at[w] \in DOMAIN m -> m[at[w]]
                      [] at[w] \in (Below(f) \cup Below(g)) \ DOMAIN m -> None
                      [] OTHER -> at[w]]
    /\ UNCHANGED <<xpath, tracked, todo, mode, leaked>>
    /\ LET first == Telling(queue, Parent[f], "down", Name[f])
       IN  /\ queue' = Telling(first, Parent[g], "up", Name[g])
           /\ excused' = excused \cup Missed(f) \cup
                 (IF Told(Parent[g]) /\ Len(first) >= MaxQueue THEN Below(g) ELSE Missed(g))

\* Xwayland comes back, after weston was launched again, with no folder in its
\* path; m_isPathAdded is not told.
XRestarts ==
    /\ "restart" \in Mishaps
    /\ Change
    /\ xpath # {} /\ xpath' = {}
    /\ excused' = excused \cup xpath
    /\ UNCHANGED <<disk, tracked, at, queue, todo, mode, leaked>>
-----------------------------------------------------------------------------
(* FontMonitor and FontFolder *)

Now       == todo[1]
Busy(op)  == mode \in {"starting", "running", "stopping"} /\ todo # <<>> /\ todo[1].op = op
Then(ops) == todo' = ops \o Tail(todo)

\* ModifyX11FontPath: an xset that fails leaves m_isPathAdded and the path of
\* the X server as they are, and none is run when there is nothing to change.
XSet(added, add, ok) == ok \/ (added # add /\ "xset" \in Mishaps)
Counted(failed)      == IF failed THEN Change ELSE UNCHANGED changes
Added(added, add, ok) == IF ok THEN add ELSE added
PathWith(f, added, add, ok) ==
    IF added = add \/ ~ok THEN xpath ELSE IF add THEN xpath \cup {f} ELSE xpath \ {f}

\* ~FontFolder; the monitor stays wrong about the unheard.
Destroy(f, added, ok, unheard) ==
    /\ XSet(added, FALSE, ok)
    /\ xpath' = PathWith(f, added, FALSE, ok)
    /\ leaked' = IF ~added THEN leaked ELSE IF ok THEN leaked \ {f} ELSE leaked \cup {f}
    /\ excused' = excused \cup unheard \cup (IF ok THEN {} ELSE {f})

\* AddMonitorFolder of a folder that is tracked, or the look of its FontFolder
\* for a fonts.dir.
Skip ==
    /\ Busy("add")
    /\ tracked[Now.folder] # None
    /\ Then(<<>>)
    /\ UNCHANGED <<disk, changes, xpath, tracked, at, queue, mode, excused, leaked>>

Look ==
    /\ Busy("add")
    /\ LET f == Now.folder IN
        /\ tracked[f] = None
        /\ \E ok \in BOOLEAN :
            LET present == disk[f] = "fonts"
            IN  /\ XSet(FALSE, present, ok) /\ Counted(~ok)
                /\ xpath' = PathWith(f, FALSE, present, ok)
                /\ excused' = IF ok THEN excused ELSE excused \cup {f}
                /\ Then(<<[Op("watch", f) EXCEPT !.added = Added(FALSE, present, ok)]>>)
    /\ UNCHANGED <<disk, tracked, at, queue, mode, leaked>>

\* A watch that no entry has, with a new number: named by the folder where it can be.
Fresh(f) == IF Holders(f) = {} THEN {f} ELSE {w \in Folders : Holders(w) = {}}

\* inotify_add_watch: the folder's own watch when it has one already, which is
\* then also another entry's.  Of entries with the same watch one hears for all,
\* and the first to go takes it away.
Watch ==
    /\ Busy("watch")
    /\ LET f == Now.folder IN
        /\ Exists(f)
        /\ \E w \in IF On(f) = {} THEN Fresh(f) ELSE On(f) :
            /\ tracked' = [tracked EXCEPT ![f] = [added |-> Now.added, wd |-> w]]
            /\ at' = [at EXCEPT ![w] = f]
            /\ excused' = IF On(f) = {} THEN excused
                          ELSE excused \cup UNION {Below(h) : h \in Holders(w) \cup {f}}
        /\ Then(<<Op("open", f)>>)
    /\ UNCHANGED <<disk, changes, xpath, queue, mode, leaked>>

\* There is no folder any more, or no descriptor or watch for it: the FontFolder
\* goes again, and nobody looks at the folder or below it any more.
WatchFails ==
    /\ Busy("watch")
    /\ LET f == Now.folder IN
        /\ Exists(f) => "limit" \in Mishaps
        /\ \E ok \in BOOLEAN :
            /\ Destroy(f, Now.added, ok, IF Exists(f) THEN Below(f) ELSE {})
            /\ Counted(~ok \/ Exists(f))
        /\ Then(<<>>)
    /\ UNCHANGED <<disk, tracked, at, queue, mode>>

\* Mutated: the subfolders of a folder that is new are left to its events.
OpenNone ==
    /\ Busy("open")
    /\ Then(<<>>)
    /\ UNCHANGED <<disk, changes, xpath, tracked, at, queue, mode, excused, leaked>>

\* The subfolders that a folder has once it is watched, one after the other.
Open ==
    /\ Busy("open")
    /\ LET f == Now.folder IN
       Then(<<[Op("list", f) EXCEPT !.rest = {g \in Children(f) : Exists(g) /\ ~Ignored(g)}]>>)
    /\ UNCHANGED <<disk, changes, xpath, tracked, at, queue, mode, excused, leaked>>

\* The folder cannot be listed: none of its subfolders is added.
OpenFails ==
    /\ Busy("open")
    /\ "limit" \in Mishaps /\ Change
    /\ excused' = excused \cup UNION {Below(g) : g \in Children(Now.folder)}
    /\ Then(<<>>)
    /\ UNCHANGED <<disk, xpath, tracked, at, queue, mode, leaked>>

List ==
    /\ Busy("list")
    /\ \/ Now.rest = {} /\ Then(<<>>)
       \/ \E g \in Now.rest :
            Then(<<Op("add", g), [Now EXCEPT !.rest = @ \ {g}]>>)
    /\ UNCHANGED <<disk, changes, xpath, tracked, at, queue, mode, excused, leaked>>

\* The queue once the entry of f is gone: what only that entry's watch has told
\* stays, for nobody.
Void(f) ==
    [i \in DOMAIN queue |->
        IF Holders(queue[i].wd) = {f} THEN [queue[i] EXCEPT !.what = "void"] ELSE queue[i]]

\* inotify_rm_watch, which takes the watch from all that have it.
Unwatch(f) ==
    /\ tracked' = [tracked EXCEPT ![f] = None]
    /\ at' = [at EXCEPT ![tracked[f].wd] = None]

\* Mutated: the entry goes and the folder stays in the font path.
Forget ==
    /\ Busy("remove")
    /\ LET f == Now.folder IN
       IF tracked[f] = None THEN UNCHANGED <<tracked, at, queue>>
       ELSE Unwatch(f) /\ queue' = Void(f)
    /\ Then(<<>>)
    /\ UNCHANGED <<disk, changes, xpath, mode, excused, leaked>>

\* Mutated: events of the folder that was there before are kept.
RemoveEntry ==
    /\ Busy("remove")
    /\ LET f == Now.folder IN
       IF tracked[f] = None
       THEN UNCHANGED <<changes, xpath, tracked, at, excused, leaked>>
       ELSE /\ \E ok \in BOOLEAN : Destroy(f, tracked[f].added, ok, {}) /\ Counted(~ok)
            /\ Unwatch(f)
    /\ Then(<<>>)
    /\ UNCHANGED <<disk, queue, mode>>

Unheard(f) == UNION {Below(h) : h \in {h \in Children(f) : tracked[h] # None /\
                   \E i \in DOMAIN queue : queue[i].what = "down" /\ About(i, h)}}

\* RemoveMonitorFolder: only this folder; void is also that a subfolder has gone
\* from a folder which was made anew meanwhile.
Remove ==
    /\ Busy("remove")
    /\ LET f == Now.folder IN
       IF tracked[f] = None
       THEN UNCHANGED <<changes, xpath, tracked, at, queue, excused, leaked>>
       ELSE /\ \E ok \in BOOLEAN : Destroy(f, tracked[f].added, ok, Unheard(f)) /\ Counted(~ok)
            /\ Unwatch(f)
            /\ queue' = Void(f)
    /\ Then(<<>>)
    /\ UNCHANGED <<disk, mode>>

\* HandleFontsDirEvent, which looks again before it adds the folder.
FontsDir(add, ok) ==
    LET f == Now.folder IN
    IF add /\ disk[f] # "fonts"
    THEN ok /\ UNCHANGED <<changes, xpath, tracked, excused>>
    ELSE /\ XSet(tracked[f].added, add, ok) /\ Counted(~ok)
         /\ xpath' = PathWith(f, tracked[f].added, add, ok)
         /\ tracked' = [tracked EXCEPT ![f].added = Added(tracked[f].added, add, ok)]
         /\ excused' = IF ok THEN excused ELSE excused \cup {f}

HandleFontsDirEvent ==
    /\ Busy("fontsUp") \/ Busy("fontsDown")
    /\ \E ok \in BOOLEAN : FontsDir(Now.op = "fontsUp", ok)
    /\ Then(<<>>)
    /\ UNCHANGED <<disk, at, queue, mode, leaked>>

\* What the entry of f makes of an event of its watch; HandleFolderEvent when it
\* is about a folder.
Kids(f, name) == {g \in Children(f) : Name[g] = name}
Handler(e, f) ==
    CASE e.what = "up"   -> {<<Op("add", g)>> : g \in {g \in Kids(f, e.name) : ~Ignored(g)}}
      [] e.what = "down" -> {<<Op("remove", g)>> : g \in Kids(f, e.name)}
      [] OTHER           -> {<<Op(e.what, f)>>}

\* Of the entries that have the watch, the first in the order of their paths.
Handle(e) ==
    \/ e.what = "void" /\ todo' = <<>>
    \/ /\ e.what # "void"
       /\ \E f \in Holders(e.wd) :
            IF Handler(e, f) = {} THEN todo' = <<>> ELSE todo' \in Handler(e, f)

\* Mutated: of the events read at once only the first is handled.
ReadOne ==
    /\ mode \in {"running", "stopping"}
    /\ todo = <<>> /\ queue # <<>>
    /\ Handle(Head(queue))
    /\ queue' = <<>>
    /\ UNCHANGED <<disk, changes, xpath, tracked, at, mode, excused, leaked>>

\* The thread reads an event.
Read ==
    /\ mode \in {"running", "stopping"}
    /\ todo = <<>> /\ queue # <<>>
    /\ Handle(Head(queue))
    /\ queue' = Tail(queue)
    /\ UNCHANGED <<disk, changes, xpath, tracked, at, mode, excused, leaked>>
-----------------------------------------------------------------------------
(* Start and Stop *)

\* pthread_create; its error, which is positive, is taken for success.
Started ==
    /\ mode = "starting"
    /\ todo = <<>>
    /\ mode' \in {"running"} \cup (IF "thread" \in Mishaps THEN {"deaf"} ELSE {})
    /\ UNCHANGED <<disk, changes, xpath, tracked, at, queue, todo, excused, leaked>>

Stop ==
    /\ "stop" \in Mishaps
    /\ mode = "running"
    /\ mode' = "stopping"
    /\ UNCHANGED <<disk, changes, xpath, tracked, at, queue, todo, excused, leaked>>

\* The thread dies where it reads, and Stop destroys the folders.
Stopped ==
    /\ mode = "stopping"
    /\ todo = <<>>
    /\ mode' = "ended"
    /\ tracked' = [f \in Folders |-> None]
    /\ at' = [w \in Folders |-> None]
    /\ queue' = <<>>
    /\ LET mine == {f \in Folders : tracked[f] # None /\ tracked[f].added} IN
       \E failed \in SUBSET mine :
            /\ failed # {} => "xset" \in Mishaps
            /\ xpath' = xpath \ (mine \ failed)
            /\ leaked' = (leaked \ mine) \cup failed
    /\ UNCHANGED <<disk, changes, todo, excused>>

\* A thread cancelled while it handles an event: CATCH_LOG catches the forced
\* unwinding and does not throw it on, which ends the process.
Aborted ==
    /\ mode = "stopping"
    /\ todo # <<>>
    /\ mode' = "aborted"
    /\ UNCHANGED <<disk, changes, xpath, tracked, at, queue, todo, excused, leaked>>
-----------------------------------------------------------------------------
Environment ==
    \/ \E f \in Folders : Appear(f) \/ Disappear(f)
    \/ \E f, g \in Folders : Rename(f, g)
    \/ \E f \in Folders : ChangeFonts(f, "fonts", "fontsUp") \/ ChangeFonts(f, "bare", "fontsDown")
    \/ XRestarts

AddMonitorFolder == Skip \/ Look \/ Watch \/ WatchFails \/ Open \/ OpenFails \/ List
Thread == AddMonitorFolder \/ Remove \/ HandleFontsDirEvent \/ Read

Next == Environment \/ Thread \/ Started \/ Stop \/ Stopped \/ Aborted

Spec == Init /\ [][Next]_vars

\* main runs Start to its end, and the thread handles what it has read.
FairSpec == Spec /\ WF_vars(Thread \/ Started)
-----------------------------------------------------------------------------
(* Properties *)

\* When the monitor has handled every event, the folders below the font paths
\* that have a fonts.dir are in the font path and the others are not, whatever
\* order folders and files came and went in ("Otherwise, add all existing
\* subfolders to track", FontMonitor.cpp:147).  Excused for good are the folders
\* that the code can be wrong about: whose change made no event (between the look
\* and the watch) or a lost one, whose xset failed, that were in the path when X
\* started anew, that are below one whose watch or listing failed, or that share a
\* watch with the path where they were before a move.
PathIsCurrent ==
    mode = "running" /\ todo = <<>> /\ queue = <<>> =>
        \A f \in Monitored \ excused : f \in xpath <=> disk[f] = "fonts"

\* Every folder in the font path belongs to a FontFolder that will take it off
\* again, so that none is left when the monitor stops; only a failed xset leaves
\* one.  "Immediately under mount folder, only monitor X11" (FontMonitor.cpp:183).
\* In mode "aborted" the entries are there still, but the process that would take
\* them off is not: it says only that the path had no folder that was nobody's.
PathIsOwned ==
    /\ xpath \subseteq Monitored
    /\ \A f \in xpath :
        \/ f \in leaked
        \/ tracked[f] # None /\ tracked[f].added
        \/ \E i \in DOMAIN todo : todo[i].op = "watch" /\ todo[i].folder = f /\ todo[i].added

\* The font path of a running monitor agrees again and again with each folder.
PathCatchesUp ==
    \A f \in Monitored :
        []<>(\/ mode \notin {"starting", "running"}
             \/ f \in excused
             \/ f \in xpath <=> disk[f] = "fonts")
=============================================================================
