-------------------------- MODULE AppListDiskProofs --------------------------
(***************************************************************************)
(* What the disk operations of AppListDisk return and what they preserve,  *)
(* for every set of providers, keys and names.                             *)
(***************************************************************************)
EXTENDS AppListDisk, TLAPS

\* A path names a file below the same provider.
LEMMA AtType ==
    ASSUME NEW path \in LinkPaths
    PROVE  /\ At(path) \in LinkPaths
           /\ At(path)[1] = path[1]
           /\ At(path)[2] = Fold[path[2]]
BY FoldAssumption DEF At, LinkPaths

\* Writing a link yields a disk.
LEMMA CreateShellLinkType ==
    ASSUME NEW d \in Disks, NEW path \in LinkPaths,
           NEW cmd \in Commands, NEW icon \in IconPaths \cup {None}
    PROVE  CreateShellLink(d, path, cmd, icon) \in Disks
<1> DEFINE old  == d.links[At(path)]
           name == IF old = None THEN path[2] ELSE old.name
           file == [name |-> name, cmd |-> cmd, icon |-> icon]
<1>1. At(path) \in LinkPaths
  BY AtType
<1>2. old \in LinkFiles \cup {None}
  BY <1>1 DEF Disks
<1>3. name \in Names
  BY <1>2 DEF LinkFiles, LinkPaths
<1>4. file \in LinkFiles
  BY <1>3 DEF LinkFiles
<1>5. CreateShellLink(d, path, cmd, icon) = [d EXCEPT !.links[At(path)] = file]
  BY DEF CreateShellLink
<1> HIDE DEF file
<1> QED
  BY <1>1, <1>4, <1>5 DEF Disks

\* Writing an icon yields a disk and touches no link.
LEMMA CreateIconFileType ==
    ASSUME NEW d \in Disks, NEW icon \in IconPaths
    PROVE  /\ CreateIconFile(d, icon) \in Disks
           /\ CreateIconFile(d, icon).links = d.links
BY DEF CreateIconFile, Disks

\* Deleting files yields a disk, and what is left of a link is the link.
LEMMA DeleteFilesType ==
    ASSUME NEW d \in Disks, NEW links, NEW icons
    PROVE  /\ DeleteFiles(d, links, icons) \in Disks
           /\ \A l \in LinkPaths :
                DeleteFiles(d, links, icons).links[l] =
                    IF \E n \in links : At(n) = l THEN None ELSE d.links[l]
BY DEF DeleteFiles, Disks

\* A listing of a provider's folder is a listing.
LEMMA AddAllFilesType ==
    ASSUME NEW d \in Disks, NEW menu, NEW unreadable
    PROVE  /\ AddAllFiles(d, menu, unreadable) \in Listings
           /\ AddAllFiles(d, menu, unreadable).on = TRUE
<1> DEFINE found == {l \in Present(d) : l[1] = menu}
<1>1. \A l \in Present(d) : l \in LinkPaths /\ d.links[l] \in LinkFiles
  BY DEF Present, Disks
<1>2. {<<l[1], d.links[l].name>> : l \in found} \subseteq LinkPaths
  BY <1>1 DEF LinkFiles, LinkPaths
<1>3. {d.links[l].icon : l \in found \ unreadable} \ {None} \subseteq IconPaths
  BY <1>1 DEF LinkFiles
<1> QED
  BY <1>2, <1>3 DEF AddAllFiles, OnLnkFileAdded, Listings

\* Taking entries off a listing yields a smaller listing.
LEMMA UnlistType ==
    ASSUME NEW listing \in Listings, NEW links, NEW icons
    PROVE  /\ Unlist(listing, links, icons) \in Listings
           /\ Unlist(listing, links, icons).on = listing.on
           /\ Unlist(listing, links, icons).links = listing.links \ links
BY DEF Unlist, Listings

(***************************************************************************)
(* The name a link file has in its folder, whatever its case, is the name  *)
(* the file system finds it by.  A listing spells names as the folder      *)
(* does, so without this a sweep would miss files it has listed.           *)
(***************************************************************************)
NamesFold(d) == \A l \in Present(d) : At(<<l[1], d.links[l].name>>) = l

\* Writing a link keeps names and files together, whether the file existed
\* under another spelling or not.
LEMMA CreateShellLinkNames ==
    ASSUME NEW d \in Disks, NEW path \in LinkPaths,
           NEW cmd \in Commands, NEW icon \in IconPaths \cup {None},
           NamesFold(d)
    PROVE  NamesFold(CreateShellLink(d, path, cmd, icon))
<1> DEFINE e == CreateShellLink(d, path, cmd, icon)
<1> SUFFICES ASSUME NEW l \in Present(e)
             PROVE  At(<<l[1], e.links[l].name>>) = l
  BY DEF NamesFold
<1>1. l \in LinkPaths /\ e.links[l] # None
  BY DEF Present
<1>2. CASE l # At(path)
  <2>1. e.links[l] = d.links[l]
    BY <1>1, <1>2 DEF CreateShellLink, Disks
  <2> QED
    BY <1>1, <2>1 DEF NamesFold, Present
<1>3. CASE l = At(path)
  <2>1. e.links[l].name = IF d.links[l] = None THEN path[2] ELSE d.links[l].name
    BY <1>1, <1>3 DEF CreateShellLink, Disks
  <2>2. CASE d.links[l] = None
    BY <1>1, <1>3, <2>1, <2>2, AtType DEF At
  <2>3. CASE d.links[l] # None
    BY <1>1, <2>1, <2>3 DEF NamesFold, Present
  <2> QED
    BY <2>2, <2>3
<1> QED
  BY <1>2, <1>3

\* Deleting files keeps the names of the others.
LEMMA DeleteFilesNames ==
    ASSUME NEW d \in Disks, NEW links, NEW icons, NamesFold(d)
    PROVE  NamesFold(DeleteFiles(d, links, icons))
BY DeleteFilesType DEF NamesFold, Present

\* A fresh listing names every link that is below the folder, in a spelling
\* that the file system resolves to that link.
LEMMA AddAllFilesComplete ==
    ASSUME NEW d \in Disks, NEW menu, NEW unreadable, NamesFold(d)
    PROVE  \A l \in Present(d) :
               l[1] = menu =>
                   \E n \in AddAllFiles(d, menu, unreadable).links : At(n) = l
BY DEF NamesFold, AddAllFiles, OnLnkFileAdded
=============================================================================
