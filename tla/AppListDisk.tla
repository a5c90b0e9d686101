----------------------------- MODULE AppListDisk -----------------------------
(***************************************************************************)
(* The part of a Windows user's disk that the WSLg client plugin owns, and *)
(* the operations of WSLDVCPlugin/utils.cpp and WSLDVCFileDB.cpp on it:    *)
(* the shell links below the Start Menu folder of each provider (a         *)
(* provider is a WSL distribution) and the icon files in the temporary     *)
(* folder that those links point to.  Pure operators over one value.       *)
(*                                                                         *)
(* A group folder only prefixes names: "group\appId" is one Key and        *)
(* "group\appDesc.lnk" is one Name.  Folders themselves are left out: the  *)
(* code makes them on every update and removes them when empty, and        *)
(* decides nothing by them except that making one may fail.                *)
(***************************************************************************)

CONSTANTS
    Providers,   \* provider names
    Keys,        \* app keys, appGroup\appId
    Names,       \* link file names as written, appGroup\appDesc
    Args,        \* what a command line runs: executable path, working folder
    None,        \* no link, no icon, no entry
    Fold         \* the name that the file system identifies a name with

\* NTFS compares names ignoring case: a name and its folded form are one file.
ASSUME FoldAssumption ==
    /\ Fold \in [Names -> Names]
    /\ \A n \in Names : Fold[Fold[n]] = Fold[n]

Roots     == Providers \cup {None}       \* None: the icon root of no provider
LinkPaths == Providers \X Names
IconPaths == Roots \X Keys
Commands  == Providers \X Args           \* wslg.exe -d provider ... -- args

LinkFiles == [name : Names, cmd : Commands, icon : IconPaths \cup {None}]

\* links maps the folded path of a file to its content, or to None.
Disks == [links : [LinkPaths -> LinkFiles \cup {None}], icons : SUBSET IconPaths]

\* None is none of the values it stands beside.
ASSUME NoneAssumption ==
    /\ None \notin Providers
    /\ None \notin IconPaths
    /\ None \notin LinkFiles

\* The file that a path names, whatever the case it is spelled in.
At(path) == <<path[1], Fold[path[2]]>>

Present(d) == {l \in LinkPaths : d.links[l] # None}

\* CreateShellLink: Save replaces the content of an existing file, whose name
\* in its folder keeps the case it was created with.
CreateShellLink(d, path, cmd, icon) ==
    LET old == d.links[At(path)] IN
    [d EXCEPT !.links[At(path)] =
        [name |-> IF old = None THEN path[2] ELSE old.name,
         cmd  |-> cmd,
         icon |-> icon]]

\* CreateIconFile: CREATE_ALWAYS, so the file is there even when the write of
\* its content fails and the function reports a failure.
CreateIconFile(d, icon) == [d EXCEPT !.icons = @ \cup {icon}]

\* DeleteFileW on each of these paths that is not in use.
DeleteFiles(d, links, icons) ==
    [links |-> [l \in LinkPaths |->
                    IF \E n \in links : At(n) = l THEN None ELSE d.links[l]],
     icons |-> d.icons \ icons]

(***************************************************************************)
(* A WSLDVCFileDB filled from a folder: the paths, compared with their     *)
(* case, of the .lnk files found and of the icons those links name.        *)
(***************************************************************************)
Listings  == [on : BOOLEAN, links : SUBSET LinkPaths, icons : SUBSET IconPaths]
NoListing == [on |-> FALSE, links |-> {}, icons |-> {}]

\* Mutated form: a link that cannot be loaded is not listed.
LoadedAdded(d, lnks, unreadable) ==
    [on    |-> TRUE,
     links |-> {<<l[1], d.links[l].name>> : l \in lnks \ unreadable},
     icons |-> {d.links[l].icon : l \in lnks \ unreadable} \ {None}]

\* OnLnkFileAdded for each of these links: the link is listed in any case, its
\* icon unless the link file cannot be loaded.
OnLnkFileAdded(d, lnks, unreadable) ==
    [on    |-> TRUE,
     links |-> {<<l[1], d.links[l].name>> : l \in lnks},
     icons |-> {d.links[l].icon : l \in lnks \ unreadable} \ {None}]

\* addAllFilesAsFileIdAt: every link below the provider's menu folder.
AddAllFiles(d, menu, unreadable) ==
    OnLnkFileAdded(d, {l \in Present(d) : l[1] = menu}, unreadable)

\* OnFileRemoved of a listing: erases the entry spelled exactly like this.
Unlist(listing, links, icons) ==
    [listing EXCEPT !.links = @ \ links, !.icons = @ \ icons]

\* deleteAllFileIdFiles: deletes what is listed, except the files in use.
DeleteAllFiles(d, listing, busy) ==
    DeleteFiles(d, {n \in listing.links : At(n) \notin busy.links},
                listing.icons \ busy.icons)
=============================================================================
