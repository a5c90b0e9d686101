-------------------------- MODULE FontMonitorProofs --------------------------
(***************************************************************************)
(* For any tree of folders and any number of changes: every folder in the  *)
(* font path belongs to a folder that is monitored, whatever fails, and    *)
(* when every event is handled the font path has exactly the folders with  *)
(* a fonts.dir, but for those whose change could not be seen.              *)
(***************************************************************************)
EXTENDS FontMonitor, TLAPS
-----------------------------------------------------------------------------
(* What is still to be done *)

\* Only folders that may be monitored are added, and listed.
Fine(o) ==
    /\ o \in Ops
    /\ o.op \in {"add", "watch", "open"} => o.folder \in Monitored
    /\ o.op = "list" => o.rest \subseteq Monitored

\* Below what the thread does now there are only listings.
Shaped(t) ==
    /\ t \in Seq(Ops)
    /\ \A i \in 1 .. Len(t) : Fine(t[i]) /\ (i > 1 => t[i].op = "list")

LEMMA ShapedEmpty == Shaped(<<>>)
  BY DEF Shaped

LEMMA ShapedOne == ASSUME NEW a, Fine(a) PROVE Shaped(<<a>>) /\ <<a>>[1] = a /\ <<a>> # <<>>
  BY DEF Shaped, Fine

\* The operation is done: a listing goes on, if there is one.
LEMMA ShapedDone ==
    ASSUME NEW t, Shaped(t), t # <<>>
    PROVE  /\ Shaped(<<>> \o Tail(t))
           /\ <<>> \o Tail(t) # <<>> => (<<>> \o Tail(t))[1].op = "list"
<1>1. t \in Seq(Ops) /\ \A i \in 1 .. Len(t) : Fine(t[i]) /\ (i > 1 => t[i].op = "list")
  BY DEF Shaped
<1>2. /\ Tail(t) \in Seq(Ops) /\ Len(Tail(t)) = Len(t) - 1 /\ Len(t) \in Nat /\ Len(t) > 0
      /\ \A i \in 1 .. Len(t) - 1 : Tail(t)[i] = t[i + 1]
  BY <1>1
<1>3. <<>> \o Tail(t) = Tail(t)
  BY <1>2
<1>4. ASSUME NEW i \in 1 .. Len(Tail(t)) PROVE Fine(Tail(t)[i]) /\ Tail(t)[i].op = "list"
  <2>1. i + 1 \in 1 .. Len(t) /\ i + 1 > 1 /\ Tail(t)[i] = t[i + 1]
    BY <1>2
  <2> QED
    BY <1>1, <2>1
<1>5. Tail(t) # <<>> => 1 \in 1 .. Len(Tail(t))
  BY <1>2
<1> QED
  BY <1>2, <1>3, <1>4, <1>5 DEF Shaped

\* Another operation comes first.
LEMMA ShapedNext ==
    ASSUME NEW t, Shaped(t), t # <<>>, NEW a, Fine(a)
    PROVE  /\ Shaped(<<a>> \o Tail(t))
           /\ (<<a>> \o Tail(t))[1] = a /\ <<a>> \o Tail(t) # <<>>
<1>1. t \in Seq(Ops) /\ \A i \in 1 .. Len(t) : Fine(t[i]) /\ (i > 1 => t[i].op = "list")
  BY DEF Shaped
<1>2. /\ Tail(t) \in Seq(Ops) /\ Len(Tail(t)) = Len(t) - 1 /\ Len(t) \in Nat /\ Len(t) > 0
      /\ \A i \in 1 .. Len(t) - 1 : Tail(t)[i] = t[i + 1]
  BY <1>1
<1> DEFINE u == <<a>> \o Tail(t)
<1>3. a \in Ops
  BY DEF Fine
<1>4. /\ u \in Seq(Ops) /\ Len(u) = Len(t) /\ u[1] = a
      /\ \A i \in 2 .. Len(t) : u[i] = t[i]
  BY <1>2, <1>3
<1> HIDE DEF u
<1>5. ASSUME NEW i \in 1 .. Len(u) PROVE Fine(u[i]) /\ (i > 1 => u[i].op = "list")
  <2>1. CASE i = 1
    BY <1>4, <2>1
  <2>2. CASE i # 1
    <3>1. i \in 2 .. Len(t) /\ i \in 1 .. Len(t) /\ i > 1
      BY <1>2, <1>4, <2>2
    <3> QED
      BY <1>1, <1>4, <3>1
  <2> QED
    BY <2>1, <2>2
<1>6. u # <<>>
  BY <1>2, <1>4
<1> QED
  BY <1>4, <1>5, <1>6 DEF Shaped, u

LEMMA ShapedTwo ==
    ASSUME NEW t, Shaped(t), t # <<>>, NEW a, Fine(a), NEW b, Fine(b), b.op = "list"
    PROVE  /\ Shaped(<<a, b>> \o Tail(t))
           /\ (<<a, b>> \o Tail(t))[1] = a /\ <<a, b>> \o Tail(t) # <<>>
<1>1. t \in Seq(Ops) /\ \A i \in 1 .. Len(t) : Fine(t[i]) /\ (i > 1 => t[i].op = "list")
  BY DEF Shaped
<1>2. /\ Tail(t) \in Seq(Ops) /\ Len(Tail(t)) = Len(t) - 1 /\ Len(t) \in Nat /\ Len(t) > 0
      /\ \A i \in 1 .. Len(t) - 1 : Tail(t)[i] = t[i + 1]
  BY <1>1
<1> DEFINE u == <<a, b>> \o Tail(t)
<1>3. a \in Ops /\ b \in Ops
  BY DEF Fine
<1>4. /\ u \in Seq(Ops) /\ Len(u) = Len(t) + 1 /\ u[1] = a /\ u[2] = b
      /\ \A i \in 3 .. Len(t) + 1 : u[i] = t[i - 1]
  BY <1>2, <1>3
<1> HIDE DEF u
<1>5. ASSUME NEW i \in 1 .. Len(u) PROVE Fine(u[i]) /\ (i > 1 => u[i].op = "list")
  <2>1. CASE i = 1
    BY <1>4, <2>1
  <2>2. CASE i = 2
    BY <1>4, <2>2
  <2>3. CASE i # 1 /\ i # 2
    <3>1. i \in 3 .. Len(t) + 1 /\ i - 1 \in 1 .. Len(t) /\ i - 1 > 1
      BY <1>2, <1>4, <2>3
    <3> QED
      BY <1>1, <1>4, <3>1
  <2> QED
    BY <2>1, <2>2, <2>3
<1>6. u # <<>>
  BY <1>2, <1>4
<1> QED
  BY <1>4, <1>5, <1>6 DEF Shaped, u

-----------------------------------------------------------------------------
(* What is below a folder *)

LEMMA BelowIs ==
    ASSUME NEW f \in Folders
    PROVE  Below(f) = {g \in Folders : \A S \in SUBSET Folders :
                f \in S /\ (\A h \in S : Children(h) \subseteq S) => g \in S}
  BY DEF Below, Subtree

LEMMA BelowSelf == ASSUME NEW f \in Folders PROVE f \in Below(f) /\ Below(f) \subseteq Folders
  BY BelowIs

LEMMA BelowChild ==
    ASSUME NEW f \in Folders, NEW g \in Below(f), NEW h \in Children(g)
    PROVE  h \in Below(f)
<1>1. g \in Folders /\ h \in Folders
  BY BelowSelf DEF Children
<1>2. ASSUME NEW S \in SUBSET Folders, f \in S, \A x \in S : Children(x) \subseteq S
      PROVE  h \in S
  <2>1. g \in S
    BY <1>2, BelowIs
  <2> QED
    BY <1>2, <2>1
<1> QED
  BY <1>1, <1>2, BelowIs

\* Whatever holds of f and passes on to the children holds below f.
LEMMA BelowInduct ==
    ASSUME NEW f \in Folders, NEW S \in SUBSET Folders, f \in S,
           \A h \in S : Children(h) \subseteq S
    PROVE  Below(f) \subseteq S
  BY BelowIs

LEMMA BelowBelow ==
    ASSUME NEW f \in Folders, NEW g \in Below(f)
    PROVE  Below(g) \subseteq Below(f)
<1>1. g \in Folders /\ Below(f) \in SUBSET Folders
  BY BelowSelf
<1>2. \A h \in Below(f) : Children(h) \subseteq Below(f)
  BY BelowChild
<1> QED
  BY <1>1, <1>2, BelowInduct

\* A folder that is below f is f, or is no root and in one that is below f.
LEMMA BelowStep ==
    ASSUME NEW f \in Folders, NEW g \in Below(f), g # f
    PROVE  g \in Children(Parent[g]) /\ Parent[g] \in Below(f)
<1> DEFINE S == {x \in Below(f) : x = f \/ (x \in Children(Parent[x]) /\ Parent[x] \in Below(f))}
<1>1. S \in SUBSET Folders /\ f \in S
  BY BelowSelf
<1>2. ASSUME NEW x \in S, NEW y \in Children(x) PROVE y \in S
  <2>1. x \in Below(f) /\ y \in Below(f)
    BY <1>2, BelowChild
  <2>2. Parent[y] = x
    BY DEF Children
  <2> QED
    BY <2>1, <2>2
<1> HIDE DEF S
<1>3. Below(f) \subseteq S
  BY <1>1, <1>2, BelowInduct
<1> QED
  BY <1>3 DEF S

LEMMA RootsOnTop == ASSUME NEW f \in Folders, NEW r \in Roots, r \in Below(f) PROVE r = f
  BY BelowStep DEF Roots, Children

\* The roots may be monitored, and of a monitored folder what is not ignored.
LEMMA RootsMonitored == Roots \subseteq Monitored
<1>1. ASSUME NEW r \in Roots, NEW g \in Folders, Ignored(g) PROVE r \notin Below(g)
  <2>1. g \notin Roots
    BY <1>1 DEF Ignored, Children
  <2> QED
    BY <2>1, RootsOnTop
<1> QED
  BY <1>1 DEF Roots, Monitored

LEMMA ChildrenMonitored ==
    ASSUME NEW f \in Monitored, NEW g \in Children(f), ~Ignored(g)
    PROVE  g \in Monitored
<1>1. f \in Folders /\ g \in Folders /\ Parent[g] = f
  BY DEF Monitored, Children
<1>2. ASSUME NEW i \in Folders, Ignored(i), g \in Below(i) PROVE FALSE
  <2>1. g # i
    BY <1>2
  <2>2. f \in Below(i)
    BY <1>1, <1>2, <2>1, BelowStep
  <2> QED
    BY <1>2, <2>2 DEF Monitored
<1> QED
  BY <1>1, <1>2 DEF Monitored
-----------------------------------------------------------------------------
(* The invariant *)

\* What the thread does now fits what is tracked.
HeadFits ==
    todo # <<>> =>
        /\ Now.op \in {"fontsUp", "fontsDown"} => tracked[Now.folder] # None
        /\ Now.op = "watch" => tracked[Now.folder] = None

MonitoredOnly == \A f \in Folders : tracked[f] # None => f \in Monitored

\* A watch that is set is an entry's.
Held == \A w \in Folders : at[w] # None => Holders(w) # {}

Watching(f) == todo # <<>> /\ Now.op = "watch" /\ Now.folder = f /\ Now.added
Owned(f) == f \in leaked \/ (tracked[f] # None /\ tracked[f].added) \/ Watching(f)

IInv ==
    /\ TypeOK
    /\ Shaped(todo)
    /\ HeadFits
    /\ MonitoredOnly
    /\ Held
    /\ xpath \subseteq Monitored
    /\ \A f \in xpath : Owned(f)

LEMMA InitIInv == Init => IInv
<1> SUFFICES ASSUME Init PROVE IInv
  OBVIOUS
<1> DEFINE a == [Op("list", MountRoot) EXCEPT !.rest = {f \in Roots : Exists(f)}]
<1>1. a \in Ops /\ a.op = "list" /\ a.rest \subseteq Roots
  BY FontAssumption DEF Op, Ops, Roots
<1>2. Fine(a)
  BY <1>1, RootsMonitored DEF Fine
<1>3. todo = <<a>>
  BY DEF Init
<1> HIDE DEF a
<1>4. Shaped(todo) /\ Now = a /\ todo # <<>>
  BY <1>2, <1>3, ShapedOne DEF Now
<1>5. TypeOK
  BY <1>4, FontAssumption DEF Init, TypeOK, Shaped
<1>6. HeadFits /\ MonitoredOnly /\ Held /\ xpath = {}
  BY <1>1, <1>4 DEF Init, HeadFits, MonitoredOnly, Held
<1> QED
  BY <1>4, <1>5, <1>6 DEF IInv

\* The same entries have the same watches.
LEMMA HoldersSame == ASSUME UNCHANGED tracked PROVE \A w : Holders(w)' = Holders(w)
  BY DEF Holders
-----------------------------------------------------------------------------
(* The environment *)

\* A queue of events of watches that entries have.
Sound(q) ==
    /\ q \in Seq(Events)
    /\ \A i \in DOMAIN q : q[i].what # "void" => Holders(q[i].wd) # {}

\* What inotify tells: nothing where no watch is or no room, or an event.
LEMMA TellingIs ==
    ASSUME NEW q, NEW f \in Folders, NEW what, NEW name
    PROVE  \/ /\ Telling(q, f, what, name) = q
              /\ On(f) = {} \/ Len(q) >= MaxQueue
           \/ \E w \in Folders :
                /\ at[w] = f /\ ~(Len(q) >= MaxQueue)
                /\ Telling(q, f, what, name) = Append(q, [wd |-> w, what |-> what, name |-> name])
<1>1. CASE On(f) = {} \/ Len(q) >= MaxQueue
  BY <1>1 DEF Telling
<1>2. CASE ~(On(f) = {} \/ Len(q) >= MaxQueue)
  <2> DEFINE w == CHOOSE w \in Folders : at[w] = f
  <2>1. w \in Folders /\ at[w] = f
    BY <1>2 DEF On
  <2>2. Telling(q, f, what, name) = Append(q, [wd |-> w, what |-> what, name |-> name])
    BY <1>2 DEF Telling
  <2> QED
    BY <1>2, <2>1, <2>2
<1> QED
  BY <1>1, <1>2

LEMMA TellingSound ==
    ASSUME Held, NEW q, Sound(q), NEW f \in Folders, NEW name \in Names,
           NEW what \in {"up", "down", "fontsUp", "fontsDown"}
    PROVE  Sound(Telling(q, f, what, name))
<1> DEFINE r == Telling(q, f, what, name)
<1>1. CASE r = q
  BY <1>1
<1>2. ASSUME NEW w \in Folders, at[w] = f, r = Append(q, [wd |-> w, what |-> what, name |-> name])
      PROVE  Sound(r)
  <2> DEFINE e == [wd |-> w, what |-> what, name |-> name]
  <2>1. e \in Events /\ e.wd = w
    BY DEF Events
  <2>2. Holders(w) # {}
    BY <1>2, FontAssumption DEF Held
  <2>3. r = Append(q, e)
    BY <1>2
  <2> HIDE DEF e, r
  <2>4. q \in Seq(Events) /\ Len(q) \in Nat /\ DOMAIN q = 1 .. Len(q)
    BY DEF Sound
  <2>5. /\ r \in Seq(Events) /\ DOMAIN r = 1 .. Len(q) + 1
        /\ r[Len(q) + 1] = e /\ \A i \in 1 .. Len(q) : r[i] = q[i]
    BY <2>1, <2>3, <2>4
  <2>6. ASSUME NEW i \in DOMAIN r, r[i].what # "void" PROVE Holders(r[i].wd) # {}
    <3>1. CASE i = Len(q) + 1
      BY <2>1, <2>2, <2>5, <3>1
    <3>2. CASE i # Len(q) + 1
      <4>1. i \in 1 .. Len(q)
        BY <2>4, <2>5, <2>6, <3>2
      <4> QED
        BY <2>4, <2>5, <2>6, <4>1 DEF Sound
    <3> QED
      BY <3>1, <3>2
  <2> QED
    BY <2>5, <2>6 DEF Sound
<1> HIDE DEF r
<1>3. r = q \/ \E w \in Folders : at[w] = f /\ r = Append(q, [wd |-> w, what |-> what, name |-> name])
  BY TellingIs DEF r
<1> QED
  BY <1>1, <1>2, <1>3 DEF r

\* What a move does to folders and watches.
Moves(f, g, m) ==
    /\ m[f] = g
    /\ \A x \in DOMAIN m \ {f} : Parent[m[x]] = m[Parent[x]]
    /\ \A x, y \in DOMAIN m : m[x] = m[y] => x = y
    /\ disk' = [y \in Folders |-> disk'[y]]
    /\ \A x \in DOMAIN m : disk'[m[x]] = disk[x]
    /\ \A y \in Folders : (~\E x \in DOMAIN m : m[x] = y) =>
        disk'[y] = IF y \in Below(f) \cup Below(g) THEN "absent" ELSE disk[y]
    /\ at' = [w \in Folders |-> at'[w]]
    /\ \A w \in Folders :
        at'[w] = IF at[w] \in DOMAIN m THEN m[at[w]]
                 ELSE IF at[w] \in Below(f) \cup Below(g) THEN None ELSE at[w]

LEMMA RenameMoves ==
    ASSUME NEW f \in Folders, NEW g \in Folders, Rename(f, g)
    PROVE  \E m \in [{x \in Below(f) : Exists(x)} -> Below(g)] : Moves(f, g, m)
<1>1. PICK m \in [{x \in Below(f) : Exists(x)} -> Below(g)] :
        /\ m[f] = g
        /\ \A x \in DOMAIN m \ {f} : Parent[m[x]] = m[Parent[x]] /\ Name[m[x]] = Name[x]
        /\ \A x, y \in DOMAIN m : m[x] = m[y] => x = y
        /\ disk' = [y \in Folders |->
                    CASE \E x \in DOMAIN m : m[x] = y -> disk[CHOOSE x \in DOMAIN m : m[x] = y]
                      [] y \in Below(f) \cup Below(g) /\ ~\E x \in DOMAIN m : m[x] = y -> "absent"
                      [] OTHER -> disk[y]]
        /\ at' = [w \in Folders |->
                    CASE at[w] \in DOMAIN m -> m[at[w]]
                      [] at[w] \in (Below(f) \cup Below(g)) \ DOMAIN m -> None
                      [] OTHER -> at[w]]
  BY DEF Rename
<1>2. ASSUME NEW x \in DOMAIN m PROVE disk'[m[x]] = disk[x]
  <2> DEFINE z == CHOOSE z \in DOMAIN m : m[z] = m[x]
  <2>1. z \in DOMAIN m /\ m[z] = m[x]
    OBVIOUS
  <2>2. z = x
    BY <1>1, <2>1
  <2>3. m[x] \in Folders
    BY BelowSelf
  <2>4. disk'[m[x]] = disk[z]
    BY <1>1, <2>3
  <2> QED
    BY <2>2, <2>4
<1>3. ASSUME NEW y \in Folders, ~\E x \in DOMAIN m : m[x] = y
      PROVE  disk'[y] = IF y \in Below(f) \cup Below(g) THEN "absent" ELSE disk[y]
  BY <1>1, <1>3
<1>4. ASSUME NEW w \in Folders
      PROVE  at'[w] = IF at[w] \in DOMAIN m THEN m[at[w]]
                      ELSE IF at[w] \in Below(f) \cup Below(g) THEN None ELSE at[w]
  BY <1>1
<1> QED
  <2>1. /\ disk' = [y \in Folders |-> disk'[y]]
        /\ at' = [w \in Folders |-> at'[w]]
    BY <1>1
  <2> QED
    BY <1>1, <1>2, <1>3, <1>4, <2>1 DEF Moves

\* Besides the queue only folders, watches and the path of the X server change.
LEMMA EnvironmentKeeps ==
    ASSUME IInv, UNCHANGED <<tracked, todo, leaked, mode>>,
           disk' \in [Folders -> {"absent", "bare", "fonts"}], changes' \in 0 .. MaxChanges,
           xpath' \in {xpath, {}}, excused' \subseteq Folders,
           at' \in [Folders -> Folders \cup {None}],
           \A w \in Folders : at'[w] # None => at[w] # None,
           Sound(queue')
    PROVE  IInv'
<1>1. \A w : Holders(w)' = Holders(w)
  BY DEF Holders
<1>2. TypeOK'
  BY <1>1 DEF IInv, TypeOK, Sound
<1>3. Now' = Now
  BY DEF Now
<1>4. Shaped(todo') /\ HeadFits' /\ MonitoredOnly' /\ xpath' \subseteq Monitored
  BY <1>3 DEF IInv, HeadFits, MonitoredOnly
<1>5. Held'
  BY <1>1 DEF IInv, Held
<1>6. \A f \in xpath' : Owned(f)'
  BY <1>3 DEF IInv, Owned, Watching
<1> QED
  BY <1>2, <1>4, <1>5, <1>6 DEF IInv

LEMMA MissedIs == ASSUME NEW f \in Folders PROVE Missed(f) \subseteq Folders
  BY BelowSelf DEF Missed

LEMMA EnvironmentStep == ASSUME IInv, Environment PROVE IInv'
<1>1. /\ TypeOK /\ Held
      /\ at \in [Folders -> Folders \cup {None}]
      /\ disk \in [Folders -> {"absent", "bare", "fonts"}]
      /\ xpath \subseteq Folders /\ excused \subseteq Folders
      /\ Sound(queue)
  BY DEF IInv, TypeOK, Sound
<1>2. ASSUME Change PROVE changes' \in 0 .. MaxChanges
  BY <1>1, <1>2, FontAssumption DEF Change, TypeOK
<1>3. ASSUME NEW f \in Folders
      PROVE  Parent[f] \in Folders /\ Below(f) \subseteq Folders /\ Name[f] \in Names
  BY FontAssumption, BelowSelf DEF Names
<1>4. ASSUME NEW f \in Folders, Appear(f) PROVE IInv'
  <2>1. /\ queue' = Telling(queue, Parent[f], "up", Name[f])
        /\ Change /\ UNCHANGED <<xpath, tracked, at, todo, mode, leaked>>
        /\ excused' = excused \cup (IF Told(Parent[f]) /\ Full THEN Below(f) ELSE Missed(f))
    BY <1>4 DEF Appear, Tell
  <2>2. disk' \in [Folders -> {"absent", "bare", "fonts"}]
    BY <1>1, <1>4 DEF Appear
  <2>3. excused' \subseteq Folders
    BY <1>1, <1>3, <2>1, MissedIs
  <2>4. Sound(queue')
    BY <1>1, <1>3, <2>1, TellingSound
  <2> QED
    BY <1>1, <1>2, <2>1, <2>2, <2>3, <2>4, EnvironmentKeeps
<1>5. ASSUME NEW f \in Folders, Disappear(f) PROVE IInv'
  <2>1. /\ queue' = Telling(queue, Parent[f], "down", Name[f])
        /\ Change /\ UNCHANGED <<xpath, tracked, todo, mode, leaked>>
        /\ at' = [w \in Folders |-> IF at[w] = f THEN None ELSE at[w]]
        /\ disk' = [disk EXCEPT ![f] = "absent"]
        /\ excused' = excused \cup Missed(f)
    BY <1>5 DEF Disappear, Tell
  <2>2. disk' \in [Folders -> {"absent", "bare", "fonts"}]
    BY <1>1, <2>1
  <2>3. excused' \subseteq Folders /\ Sound(queue')
    BY <1>1, <1>3, <2>1, MissedIs, TellingSound
  <2>4. at' \in [Folders -> Folders \cup {None}] /\ \A w \in Folders : at'[w] # None => at[w] # None
    BY <1>1, <2>1
  <2> QED
    BY <1>1, <1>2, <2>1, <2>2, <2>3, <2>4, EnvironmentKeeps
<1>6. ASSUME NEW f \in Folders, NEW g \in Folders, Rename(f, g) PROVE IInv'
  <2>1. PICK m \in [{x \in Below(f) : Exists(x)} -> Below(g)] : Moves(f, g, m)
    BY <1>6, RenameMoves
  <2> DEFINE first == Telling(queue, Parent[f], "down", Name[f])
  <2>2. /\ Change /\ UNCHANGED <<xpath, tracked, todo, mode, leaked>>
        /\ queue' = Telling(first, Parent[g], "up", Name[g])
        /\ excused' \subseteq excused \cup Missed(f) \cup Below(g) \cup Missed(g)
    BY <1>6 DEF Rename
  <2>3. disk' \in [Folders -> {"absent", "bare", "fonts"}]
    <3>1. ASSUME NEW y \in Folders PROVE disk'[y] \in {"absent", "bare", "fonts"}
      <4>1. CASE \E x \in DOMAIN m : m[x] = y
        <5>1. PICK x \in DOMAIN m : m[x] = y
          BY <4>1
        <5>2. x \in Folders /\ disk'[y] = disk[x]
          BY <1>3, <2>1, <5>1 DEF Moves
        <5> QED
          BY <1>1, <5>2
      <4>2. CASE ~\E x \in DOMAIN m : m[x] = y
        BY <1>1, <2>1, <4>2 DEF Moves
      <4> QED
        BY <4>1, <4>2
    <3> QED
      BY <2>1, <3>1 DEF Moves
  <2>4. at' \in [Folders -> Folders \cup {None}] /\ \A w \in Folders : at'[w] # None => at[w] # None
    <3>1. ASSUME NEW w \in Folders PROVE at'[w] \in Folders \cup {None} /\ (at[w] = None => at'[w] = None)
      <4>1. CASE at[w] \in DOMAIN m
        <5>1. at'[w] = m[at[w]] /\ m[at[w]] \in Folders /\ at[w] \in Folders
          BY <1>3, <2>1, <4>1 DEF Moves
        <5> QED
          BY <5>1, FontAssumption
      <4>2. CASE at[w] \notin DOMAIN m
        BY <1>1, <2>1, <4>2 DEF Moves
      <4> QED
        BY <4>1, <4>2
    <3> QED
      BY <2>1, <3>1 DEF Moves
  <2>5. Sound(first)
    BY <1>1, <1>3, TellingSound
  <2> HIDE DEF first
  <2>6. Sound(queue')
    BY <1>1, <1>3, <2>2, <2>5, TellingSound
  <2>7. excused' \subseteq Folders
    BY <1>1, <1>3, <2>2, MissedIs
  <2> QED
    BY <1>1, <1>2, <2>2, <2>3, <2>4, <2>6, <2>7, EnvironmentKeeps
<1>7. ASSUME NEW f \in Folders, NEW to \in {"fonts", "bare"}, NEW what \in {"fontsUp", "fontsDown"},
             ChangeFonts(f, to, what)
      PROVE  IInv'
  <2>1. /\ queue' = Telling(queue, f, what, Name[f]) /\ excused' \subseteq excused \cup {f}
        /\ Change /\ UNCHANGED <<xpath, tracked, at, todo, mode, leaked>>
    BY <1>7 DEF ChangeFonts, Tell
  <2>2. disk' \in [Folders -> {"absent", "bare", "fonts"}]
    BY <1>1, <1>7 DEF ChangeFonts
  <2>3. excused' \subseteq Folders /\ Sound(queue')
    BY <1>1, <1>3, <2>1, TellingSound
  <2> QED
    BY <1>1, <1>2, <2>1, <2>2, <2>3, EnvironmentKeeps
<1>8. CASE XRestarts
  <2>1. /\ Change /\ xpath' = {} /\ excused' \subseteq Folders
        /\ UNCHANGED <<disk, tracked, at, queue, todo, mode, leaked>>
    BY <1>1, <1>8 DEF XRestarts, Change
  <2> QED
    BY <1>1, <1>2, <2>1, EnvironmentKeeps
<1> QED
  BY <1>4, <1>5, <1>6, <1>7, <1>8 DEF Environment
-----------------------------------------------------------------------------
(* AddMonitorFolder *)

LEMMA HeadFine ==
    ASSUME IInv, todo # <<>>
    PROVE  /\ Now \in Ops /\ Now.folder \in Folders /\ Now.added \in BOOLEAN
           /\ Now.rest \subseteq Folders /\ Fine(Now)
<1>1. todo \in Seq(Ops) /\ 1 \in 1 .. Len(todo)
  BY DEF IInv, TypeOK
<1>2. Now \in Ops /\ Fine(Now)
  BY <1>1 DEF IInv, Shaped, Now
<1> QED
  BY <1>2 DEF Ops

\* A step that only moves on in what is to do.
LEMMA TodoKeeps ==
    ASSUME IInv, UNCHANGED <<disk, changes, xpath, tracked, at, queue, mode, leaked>>,
           excused' \subseteq Folders, Shaped(todo'), HeadFits', \A f : ~Watching(f)
    PROVE  IInv'
<1>1. \A w : Holders(w)' = Holders(w)
  BY HoldersSame
<1>2. TypeOK'
  BY <1>1 DEF IInv, TypeOK, Shaped
<1>3. MonitoredOnly' /\ Held' /\ xpath' \subseteq Monitored
  BY <1>1 DEF IInv, MonitoredOnly, Held
<1>4. \A f \in xpath' : Owned(f)'
  BY DEF IInv, Owned
<1> QED
  BY <1>2, <1>3, <1>4 DEF IInv

\* The operation is done, and what goes on is a listing.
LEMMA DoneFits ==
    ASSUME IInv, todo # <<>>, Then(<<>>)
    PROVE  Shaped(todo') /\ HeadFits' /\ \A f : ~Watching(f)'
<1>1. Shaped(todo)
  BY DEF IInv
<1>2. Shaped(todo') /\ (todo' # <<>> => todo'[1].op = "list")
  BY <1>1, ShapedDone DEF Then
<1> QED
  BY <1>2 DEF HeadFits, Now, Watching

\* One operation gives way to another.
LEMMA NextFits ==
    ASSUME IInv, todo # <<>>, NEW a, Fine(a), Then(<<a>>)
    PROVE  Shaped(todo') /\ Now' = a /\ todo' # <<>>
<1>1. Shaped(todo)
  BY DEF IInv
<1> QED
  BY <1>1, ShapedNext DEF Then, Now

LEMMA SkipStep == ASSUME IInv, Skip PROVE IInv'
<1>1. todo # <<>> /\ Now.op = "add" /\ Then(<<>>)
  BY DEF Skip, Busy, Now
<1>2. Shaped(todo') /\ HeadFits' /\ \A f : ~Watching(f)
  BY <1>1, DoneFits DEF Watching
<1>3. excused \subseteq Folders
  BY DEF IInv, TypeOK
<1> QED
  BY <1>2, <1>3, TodoKeeps DEF Skip

LEMMA OpenStep == ASSUME IInv, Open PROVE IInv'
<1> DEFINE f == Now.folder
           a == [Op("list", f) EXCEPT !.rest = {g \in Children(f) : Exists(g) /\ ~Ignored(g)}]
<1>1. todo # <<>> /\ Now.op = "open" /\ Then(<<a>>) /\ excused \subseteq Folders
  BY DEF Open, Busy, Now, IInv, TypeOK
<1>2. f \in Monitored /\ f \in Folders
  BY <1>1, HeadFine DEF Fine
<1>3. a \in Ops /\ a.op = "list" /\ a.rest \subseteq Monitored
  <2>1. {g \in Children(f) : Exists(g) /\ ~Ignored(g)} \subseteq Monitored
    BY <1>2, ChildrenMonitored
  <2>2. Monitored \subseteq Folders
    BY DEF Monitored
  <2> HIDE DEF f
  <2> QED
    BY <1>2, <2>1, <2>2 DEF Op, Ops
<1>4. Fine(a)
  BY <1>3 DEF Fine
<1> HIDE DEF a
<1>5. Shaped(todo') /\ Now' = a /\ \A g : ~Watching(g)
  BY <1>1, <1>4, NextFits DEF Watching
<1>6. HeadFits'
  BY <1>3, <1>5 DEF HeadFits
<1> QED
  BY <1>1, <1>5, <1>6, TodoKeeps DEF Open

LEMMA OpenFailsStep == ASSUME IInv, OpenFails PROVE IInv'
<1>1. todo # <<>> /\ Now.op = "open" /\ Then(<<>>) /\ Change
  BY DEF OpenFails, Busy, Now
<1>2. Shaped(todo') /\ HeadFits' /\ \A f : ~Watching(f)
  BY <1>1, DoneFits DEF Watching
<1>3. excused' \subseteq Folders
  <2>1. \A g \in Children(Now.folder) : Below(g) \subseteq Folders
    BY BelowSelf DEF Children
  <2> QED
    BY <2>1 DEF OpenFails, IInv, TypeOK
<1>4. changes' \in 0 .. MaxChanges
  BY <1>1, FontAssumption DEF Change, IInv, TypeOK
<1>5. \A w : Holders(w)' = Holders(w)
  BY HoldersSame DEF OpenFails
<1>6. TypeOK' /\ MonitoredOnly' /\ Held' /\ xpath' \subseteq Monitored
  BY <1>2, <1>3, <1>4, <1>5 DEF OpenFails, IInv, TypeOK, Shaped, MonitoredOnly, Held
<1>7. \A f \in xpath' : Owned(f)'
  BY <1>2 DEF OpenFails, IInv, Owned
<1> QED
  BY <1>2, <1>6, <1>7 DEF IInv

LEMMA ListStep == ASSUME IInv, List PROVE IInv'
<1>1. todo # <<>> /\ Now.op = "list" /\ (\A f : ~Watching(f)) /\ excused \subseteq Folders
  BY DEF List, Busy, Now, Watching, IInv, TypeOK
<1>2. CASE Then(<<>>)
  BY <1>1, <1>2, DoneFits, TodoKeeps DEF List
<1>3. ASSUME NEW g \in Now.rest, Then(<<Op("add", g), [Now EXCEPT !.rest = @ \ {g}]>>) PROVE IInv'
  <2> DEFINE a == Op("add", g)
             b == [Now EXCEPT !.rest = @ \ {g}]
  <2>1. Now \in Ops /\ Now.rest \subseteq Monitored /\ Now.rest \subseteq Folders
    BY <1>1, HeadFine DEF Fine
  <2>2. a \in Ops /\ a.op = "add" /\ a.folder = g /\ g \in Monitored
    BY <2>1 DEF Op, Ops
  <2>3. b \in Ops /\ b.op = "list" /\ b.rest \subseteq Monitored
    BY <1>1, <2>1 DEF Ops
  <2>4. Fine(a) /\ Fine(b)
    BY <2>2, <2>3 DEF Fine
  <2>5. Then(<<a, b>>)
    BY <1>3
  <2> HIDE DEF a, b
  <2>6. Shaped(todo') /\ Now' = a
    BY <1>1, <2>3, <2>4, <2>5, ShapedTwo DEF IInv, Then, Now
  <2>7. HeadFits'
    BY <2>2, <2>6 DEF HeadFits
  <2> QED
    BY <1>1, <2>6, <2>7, TodoKeeps DEF List
<1> QED
  BY <1>2, <1>3 DEF List

LEMMA CountedChanges ==
    ASSUME TypeOK, NEW failed, Counted(failed)
    PROVE  changes' \in 0 .. MaxChanges
  BY FontAssumption DEF Counted, Change, TypeOK

LEMMA LookStep == ASSUME IInv, Look PROVE IInv'
<1> DEFINE f == Now.folder
           present == disk[f] = "fonts"
<1>1. todo # <<>> /\ Now.op = "add" /\ tracked[f] = None
  BY DEF Look, Busy, Now
<1>2. PICK ok \in BOOLEAN :
        /\ Counted(~ok)
        /\ xpath' = PathWith(f, FALSE, present, ok)
        /\ excused' = IF ok THEN excused ELSE excused \cup {f}
        /\ Then(<<[Op("watch", f) EXCEPT !.added = Added(FALSE, present, ok)]>>)
  BY DEF Look
<1> DEFINE a == [Op("watch", f) EXCEPT !.added = Added(FALSE, present, ok)]
<1>3. UNCHANGED <<disk, tracked, at, queue, mode, leaked>> /\ \A w : Holders(w)' = Holders(w)
  BY HoldersSame DEF Look
<1>4. f \in Monitored /\ f \in Folders
  BY <1>1, HeadFine DEF Fine
<1>5. present \in BOOLEAN /\ Then(<<a>>)
  BY <1>2
<1> HIDE DEF f, present
<1>6. a \in Ops /\ a.op = "watch" /\ a.folder = f /\ a.added = Added(FALSE, present, ok)
  BY <1>4, <1>5 DEF Op, Ops, Added
<1> HIDE DEF a
<1>7. Fine(a)
  BY <1>4, <1>6 DEF Fine
<1>8. Shaped(todo') /\ Now' = a /\ todo' # <<>>
  BY <1>1, <1>5, <1>7, NextFits
<1>9. HeadFits'
  BY <1>1, <1>3, <1>6, <1>8 DEF HeadFits, f
<1>10. xpath' \subseteq xpath \cup {f} /\ (f \in xpath' \ xpath => a.added)
  BY <1>2, <1>6 DEF PathWith, Added
<1>11. TypeOK'
  <2>1. changes' \in 0 .. MaxChanges
    BY <1>2, CountedChanges DEF IInv
  <2>2. xpath' \subseteq Folders /\ excused' \subseteq Folders
    BY <1>2, <1>4, <1>10 DEF IInv, TypeOK
  <2> QED
    BY <1>3, <1>8, <2>1, <2>2 DEF IInv, TypeOK, Shaped
<1>12. MonitoredOnly' /\ Held' /\ xpath' \subseteq Monitored
  BY <1>3, <1>4, <1>10 DEF IInv, MonitoredOnly, Held
<1>13. ASSUME NEW g \in xpath' PROVE Owned(g)'
  <2>1. CASE g \in xpath
    BY <1>1, <1>3, <2>1 DEF IInv, Owned, Watching
  <2>2. CASE g \notin xpath
    BY <1>6, <1>8, <1>10, <1>13, <2>2 DEF Owned, Watching
  <2> QED
    BY <2>1, <2>2
<1> QED
  BY <1>8, <1>9, <1>11, <1>12, <1>13 DEF IInv
-----------------------------------------------------------------------------
(* A FontFolder goes, or hears of its fonts.dir *)

\* What is left in the path had been given away before, or is now.
LEMMA DestroyKeeps ==
    ASSUME TypeOK, NEW f \in Folders, NEW added \in BOOLEAN, NEW ok \in BOOLEAN,
           NEW unheard \in SUBSET Folders, Destroy(f, added, ok, unheard)
    PROVE  /\ excused' \subseteq Folders /\ leaked' \subseteq Folders
           /\ xpath' \subseteq xpath
           /\ \A g \in xpath' : /\ g \in leaked => g \in leaked'
                                /\ g = f /\ added => g \in leaked'
<1>1. excused' \subseteq Folders /\ leaked' \subseteq Folders
  BY DEF Destroy, TypeOK
<1>2. xpath' = IF added /\ ok THEN xpath \ {f} ELSE xpath
  BY DEF Destroy, PathWith
<1>3. leaked' = IF ~added THEN leaked ELSE IF ok THEN leaked \ {f} ELSE leaked \cup {f}
  BY DEF Destroy
<1> QED
  BY <1>1, <1>2, <1>3

LEMMA NoneIsNoEntry == None \notin Entries
  BY FontAssumption DEF Entries

\* A folder gets its watch, be it another's.
LEMMA WatchIs ==
    ASSUME IInv, Watch
    PROVE  LET f == Now.folder IN
           /\ todo # <<>> /\ Now.op = "watch" /\ Then(<<Op("open", f)>>)
           /\ f \in Monitored /\ f \in Folders /\ Exists(f) /\ tracked[f] = None
           /\ UNCHANGED <<disk, changes, xpath, queue, mode, leaked>>
           /\ \E w \in Folders :
                /\ IF On(f) = {} THEN Holders(w) = {} ELSE at[w] = f
                /\ excused' = IF On(f) = {} THEN excused
                              ELSE excused \cup UNION {Below(h) : h \in Holders(w) \cup {f}}
                /\ tracked' \in [Folders -> Entries \cup {None}]
                /\ \A g \in Folders : tracked'[g] = IF g = f THEN [added |-> Now.added, wd |-> w] ELSE tracked[g]
                /\ tracked'[f] # None
                /\ at' \in [Folders -> Folders \cup {None}]
                /\ \A v \in Folders : at'[v] = IF v = w THEN f ELSE at[v]
                /\ \A v : Holders(v)' = Holders(v) \cup (IF v = w THEN {f} ELSE {})
<1> DEFINE f == Now.folder
<1>1. /\ todo # <<>> /\ Now.op = "watch" /\ Then(<<Op("open", f)>>) /\ Exists(f)
      /\ UNCHANGED <<disk, changes, xpath, queue, mode, leaked>>
  BY DEF Watch, Busy, Now
<1>2. f \in Monitored /\ f \in Folders /\ Now.added \in BOOLEAN
  BY <1>1, HeadFine DEF Fine
<1>3. /\ tracked[f] = None /\ tracked \in [Folders -> Entries \cup {None}]
      /\ at \in [Folders -> Folders \cup {None}]
  BY <1>1 DEF IInv, HeadFits, TypeOK
<1>4. PICK w \in IF On(f) = {} THEN Fresh(f) ELSE On(f) :
        /\ tracked' = [tracked EXCEPT ![f] = [added |-> Now.added, wd |-> w]]
        /\ at' = [at EXCEPT ![w] = f]
        /\ excused' = IF On(f) = {} THEN excused
                      ELSE excused \cup UNION {Below(h) : h \in Holders(w) \cup {f}}
  BY DEF Watch
<1> DEFINE e == [added |-> Now.added, wd |-> w]
<1>5. w \in Folders /\ IF On(f) = {} THEN Holders(w) = {} ELSE at[w] = f
  BY <1>2, <1>4 DEF Fresh, On
<1>6. e \in Entries /\ e.wd = w
  BY <1>2, <1>5 DEF Entries
<1>7. tracked' = [tracked EXCEPT ![f] = e]
  BY <1>4
<1> HIDE DEF f, e
<1>8. e # None
  BY <1>6, NoneIsNoEntry
<1>9. /\ tracked' \in [Folders -> Entries \cup {None}]
      /\ \A g \in Folders : tracked'[g] = IF g = f THEN e ELSE tracked[g]
  BY <1>2, <1>3, <1>6, <1>7
<1>10. /\ at' \in [Folders -> Folders \cup {None}]
       /\ \A v \in Folders : at'[v] = IF v = w THEN f ELSE at[v]
  BY <1>2, <1>3, <1>4, <1>5
<1>11. ASSUME NEW v PROVE Holders(v)' = Holders(v) \cup (IF v = w THEN {f} ELSE {})
  BY <1>2, <1>3, <1>6, <1>8, <1>9 DEF Holders
<1> QED
  BY <1>1, <1>2, <1>3, <1>4, <1>5, <1>8, <1>9, <1>10, <1>11 DEF f, e

LEMMA WatchStep == ASSUME IInv, Watch PROVE IInv'
<1> DEFINE f == Now.folder
           a == Op("open", f)
<1>1. /\ todo # <<>> /\ Now.op = "watch" /\ Then(<<a>>)
      /\ f \in Monitored /\ f \in Folders /\ tracked[f] = None
      /\ UNCHANGED <<disk, changes, xpath, queue, mode, leaked>>
  BY WatchIs
<1>2. PICK w \in Folders :
        /\ excused' = IF On(f) = {} THEN excused
                      ELSE excused \cup UNION {Below(h) : h \in Holders(w) \cup {f}}
        /\ tracked' \in [Folders -> Entries \cup {None}]
        /\ \A g \in Folders : tracked'[g] = IF g = f THEN [added |-> Now.added, wd |-> w] ELSE tracked[g]
        /\ tracked'[f] # None
        /\ at' \in [Folders -> Folders \cup {None}]
        /\ \A v \in Folders : at'[v] = IF v = w THEN f ELSE at[v]
        /\ \A v : Holders(v)' = Holders(v) \cup (IF v = w THEN {f} ELSE {})
  BY WatchIs
<1>3. a \in Ops /\ a.op = "open" /\ a.folder = f
  BY <1>1 DEF Op, Ops
<1> HIDE DEF a
<1>4. Fine(a)
  BY <1>1, <1>3 DEF Fine
<1>5. Shaped(todo') /\ Now' = a /\ todo' # <<>>
  BY <1>1, <1>4, NextFits
<1>6. tracked'[f].added = Now.added
  BY <1>1, <1>2
<1> HIDE DEF f
<1>7. HeadFits'
  BY <1>3, <1>5 DEF HeadFits
<1>8. excused' \subseteq Folders
  <2>1. \A h \in Holders(w) \cup {f} : Below(h) \subseteq Folders
    BY <1>1, BelowSelf DEF Holders
  <2> QED
    BY <1>2, <2>1 DEF IInv, TypeOK
<1>9. TypeOK'
  BY <1>1, <1>2, <1>5, <1>8 DEF IInv, TypeOK, Shaped
<1>10. MonitoredOnly' /\ xpath' \subseteq Monitored
  BY <1>1, <1>2 DEF IInv, MonitoredOnly
<1>11. Held'
  <2> SUFFICES ASSUME NEW v \in Folders, at'[v] # None PROVE Holders(v)' # {}
    BY DEF Held
  <2>1. CASE v = w
    BY <1>2, <2>1
  <2>2. CASE v # w
    BY <1>2, <2>2 DEF IInv, Held
  <2> QED
    BY <2>1, <2>2
<1>12. ASSUME NEW g \in xpath' PROVE Owned(g)'
  <2>1. Owned(g) /\ g \in Folders
    BY <1>1, <1>12 DEF IInv, TypeOK
  <2>2. CASE g = f
    BY <1>1, <1>2, <1>6, <2>1, <2>2 DEF Owned, Watching
  <2>3. CASE g # f
    BY <1>1, <1>2, <2>1, <2>3 DEF Owned, Watching, f
  <2> QED
    BY <2>2, <2>3
<1> QED
  BY <1>5, <1>7, <1>9, <1>10, <1>11, <1>12 DEF IInv

LEMMA WatchFailsStep == ASSUME IInv, WatchFails PROVE IInv'
<1> DEFINE f == Now.folder
           unheard == IF Exists(f) THEN Below(f) ELSE {}
<1>1. /\ todo # <<>> /\ Now.op = "watch" /\ Then(<<>>)
      /\ UNCHANGED <<disk, tracked, at, queue, mode>>
  BY DEF WatchFails, Busy, Now
<1>2. f \in Monitored /\ f \in Folders /\ Now.added \in BOOLEAN /\ TypeOK
  BY <1>1, HeadFine DEF Fine, IInv
<1>3. PICK ok \in BOOLEAN :
        Destroy(f, Now.added, ok, unheard) /\ Counted(~ok \/ Exists(f))
  BY DEF WatchFails
<1>4. unheard \in SUBSET Folders
  BY <1>2, BelowSelf
<1> HIDE DEF unheard
<1>5. /\ excused' \subseteq Folders /\ leaked' \subseteq Folders
      /\ xpath' \subseteq xpath
      /\ \A g \in xpath' : /\ g \in leaked => g \in leaked'
                           /\ g = f /\ Now.added => g \in leaked'
  BY <1>2, <1>3, <1>4, DestroyKeeps
<1>6. changes' \in 0 .. MaxChanges /\ \A w : Holders(w)' = Holders(w)
  BY <1>1, <1>2, <1>3, CountedChanges, HoldersSame
<1>7. Shaped(todo') /\ HeadFits'
  BY <1>1, DoneFits
<1>8. TypeOK'
  BY <1>1, <1>2, <1>5, <1>6, <1>7 DEF TypeOK, Shaped
<1>9. MonitoredOnly' /\ Held' /\ xpath' \subseteq Monitored
  BY <1>1, <1>5, <1>6 DEF IInv, MonitoredOnly, Held
<1>10. ASSUME NEW g \in xpath' PROVE Owned(g)'
  <2>1. Owned(g)
    BY <1>5, <1>10 DEF IInv
  <2> QED
    BY <1>1, <1>5, <1>10, <2>1 DEF Owned, Watching
<1> QED
  BY <1>7, <1>8, <1>9, <1>10 DEF IInv

\* What only the watch of f has told is for nobody, the rest stays.
LEMMA VoidKeeps ==
    ASSUME TypeOK, NEW f \in Folders
    PROVE  /\ Void(f) \in Seq(Events) /\ DOMAIN Void(f) = DOMAIN queue
           /\ \A i \in DOMAIN queue :
                /\ queue[i] \in Events
                /\ Void(f)[i].wd = queue[i].wd /\ Void(f)[i].name = queue[i].name
                /\ IF Holders(queue[i].wd) = {f} THEN Void(f)[i].what = "void" ELSE Void(f)[i] = queue[i]
<1>1. queue \in Seq(Events) /\ Len(queue) \in Nat /\ DOMAIN queue = 1 .. Len(queue)
  BY DEF TypeOK
<1>2. \A i \in 1 .. Len(queue) : queue[i] \in Events
  BY <1>1
<1>3. ASSUME NEW i \in 1 .. Len(queue)
      PROVE  LET v == [queue[i] EXCEPT !.what = "void"] IN
             v \in Events /\ v.what = "void" /\ v.wd = queue[i].wd /\ v.name = queue[i].name
  BY <1>2 DEF Events
<1>4. Void(f) = [i \in 1 .. Len(queue) |->
                    IF Holders(queue[i].wd) = {f} THEN [queue[i] EXCEPT !.what = "void"] ELSE queue[i]]
  BY <1>1 DEF Void
<1>5. Void(f) \in [1 .. Len(queue) -> Events]
  BY <1>2, <1>3, <1>4
<1>6. Void(f) \in Seq(Events) /\ DOMAIN Void(f) = 1 .. Len(queue)
  BY <1>1, <1>5
<1>7. ASSUME NEW i \in 1 .. Len(queue)
      PROVE  /\ Void(f)[i].wd = queue[i].wd /\ Void(f)[i].name = queue[i].name
             /\ IF Holders(queue[i].wd) = {f} THEN Void(f)[i].what = "void" ELSE Void(f)[i] = queue[i]
  <2>1. Void(f)[i] = IF Holders(queue[i].wd) = {f} THEN [queue[i] EXCEPT !.what = "void"] ELSE queue[i]
    BY <1>4
  <2> QED
    BY <1>3, <2>1
<1> QED
  BY <1>1, <1>2, <1>6, <1>7

\* The entry of f goes, and its watch.
LEMMA UnwatchIs ==
    ASSUME TypeOK, NEW f \in Folders, tracked[f] # None, Unwatch(f)
    PROVE  /\ tracked' \in [Folders -> Entries \cup {None}]
           /\ \A g \in Folders : tracked'[g] = IF g = f THEN None ELSE tracked[g]
           /\ at' \in [Folders -> Folders \cup {None}]
           /\ \A v \in Folders : at'[v] = IF v = tracked[f].wd THEN None ELSE at[v]
           /\ \A v : Holders(v)' = Holders(v) \ {f}
<1>1. tracked \in [Folders -> Entries \cup {None}] /\ at \in [Folders -> Folders \cup {None}]
  BY DEF TypeOK
<1>2. tracked[f].wd \in Folders
  BY <1>1 DEF Entries
<1>3. /\ tracked' \in [Folders -> Entries \cup {None}]
      /\ \A g \in Folders : tracked'[g] = IF g = f THEN None ELSE tracked[g]
  BY <1>1 DEF Unwatch
<1>4. /\ at' \in [Folders -> Folders \cup {None}]
      /\ \A v \in Folders : at'[v] = IF v = tracked[f].wd THEN None ELSE at[v]
  BY <1>1, <1>2 DEF Unwatch
<1>5. ASSUME NEW v PROVE Holders(v)' = Holders(v) \ {f}
  BY <1>3 DEF Holders
<1> QED
  BY <1>3, <1>4, <1>5

LEMMA RemoveStep == ASSUME IInv, Remove PROVE IInv'
<1> DEFINE f == Now.folder
<1>1. /\ todo # <<>> /\ Now.op = "remove" /\ Then(<<>>)
      /\ UNCHANGED <<disk, mode>>
  BY DEF Remove, Busy, Now
<1>2. f \in Folders /\ TypeOK /\ excused \subseteq Folders
  BY <1>1, HeadFine DEF IInv, TypeOK
<1>3. Shaped(todo') /\ HeadFits' /\ \A g : ~Watching(g)
  BY <1>1, DoneFits DEF Watching
<1>4. CASE tracked[f] = None
  BY <1>1, <1>2, <1>3, <1>4, TodoKeeps DEF Remove
<1>5. CASE tracked[f] # None
  <2>1. PICK ok \in BOOLEAN : Destroy(f, tracked[f].added, ok, Unheard(f)) /\ Counted(~ok)
    BY <1>5 DEF Remove
  <2>2. Unwatch(f) /\ queue' = Void(f)
    BY <1>5 DEF Remove
  <2>3. tracked[f].added \in BOOLEAN
    BY <1>2, <1>5 DEF TypeOK, Entries
  <2>4. Unheard(f) \in SUBSET Folders
    BY BelowSelf DEF Unheard, Children
  <2> HIDE DEF f
  <2>5. /\ excused' \subseteq Folders /\ leaked' \subseteq Folders
        /\ xpath' \subseteq xpath
        /\ \A g \in xpath' : /\ g \in leaked => g \in leaked'
                             /\ g = f /\ tracked[f].added => g \in leaked'
    BY <1>2, <2>1, <2>3, <2>4, DestroyKeeps
  <2>6. /\ tracked' \in [Folders -> Entries \cup {None}]
        /\ \A g \in Folders : tracked'[g] = IF g = f THEN None ELSE tracked[g]
        /\ at' \in [Folders -> Folders \cup {None}]
        /\ \A v \in Folders : at'[v] = IF v = tracked[f].wd THEN None ELSE at[v]
        /\ \A v : Holders(v)' = Holders(v) \ {f}
    BY <1>2, <1>5, <2>2, UnwatchIs
  <2>7. /\ queue' \in Seq(Events) /\ DOMAIN queue' = DOMAIN queue
        /\ \A i \in DOMAIN queue :
             IF Holders(queue[i].wd) = {f} THEN queue'[i].what = "void" ELSE queue'[i] = queue[i]
    BY <1>2, <2>2, VoidKeeps
  <2>8. ASSUME NEW i \in DOMAIN queue', queue'[i].what # "void" PROVE Holders(queue[i].wd)' # {}
    <3>1. Holders(queue[i].wd) # {f} /\ queue'[i] = queue[i] /\ queue[i].what # "void"
      BY <2>7, <2>8
    <3>2. Holders(queue[i].wd) # {}
      BY <1>2, <2>7, <2>8, <3>1 DEF TypeOK
    <3>3. Holders(queue'[i].wd) \ {f} # {}
      BY <3>1, <3>2
    <3>4. \A v : Holders(v)' = Holders(v) \ {f}
      BY <2>6
    <3> HIDE DEF Holders
    <3> QED
      BY <3>3, <3>4
  <2>9. changes' \in 0 .. MaxChanges
    BY <1>2, <2>1, CountedChanges
  <2>10. TypeOK'
    BY <1>1, <1>2, <1>3, <2>5, <2>6, <2>7, <2>8, <2>9 DEF TypeOK, Shaped
  <2>11. MonitoredOnly' /\ xpath' \subseteq Monitored
    BY <2>5, <2>6 DEF IInv, MonitoredOnly
  <2>12. Held'
    <3> SUFFICES ASSUME NEW v \in Folders, at'[v] # None PROVE Holders(v)' # {}
      BY DEF Held
    <3>1. v # tracked[f].wd /\ Holders(v) # {}
      BY <2>6 DEF IInv, Held
    <3>2. f \notin Holders(v)
      BY <3>1 DEF Holders
    <3> QED
      BY <2>6, <3>1, <3>2
  <2>13. ASSUME NEW g \in xpath' PROVE Owned(g)'
    <3>1. Owned(g) /\ g \in Folders
      BY <1>2, <2>5, <2>13 DEF IInv, TypeOK
    <3> QED
      BY <1>3, <2>5, <2>6, <2>13, <3>1 DEF Owned
  <2> QED
    BY <1>3, <2>10, <2>11, <2>12, <2>13 DEF IInv
<1> QED
  BY <1>4, <1>5

LEMMA FontsDirStep == ASSUME IInv, HandleFontsDirEvent PROVE IInv'
<1> DEFINE f == Now.folder
           add == Now.op = "fontsUp"
<1>1. /\ todo # <<>> /\ Now.op \in {"fontsUp", "fontsDown"} /\ Then(<<>>)
      /\ UNCHANGED <<disk, at, queue, mode, leaked>>
  BY DEF HandleFontsDirEvent, Busy, Now
<1>2. f \in Folders /\ TypeOK /\ excused \subseteq Folders
  BY <1>1, HeadFine DEF IInv, TypeOK
<1>3. Shaped(todo') /\ HeadFits' /\ \A g : ~Watching(g)
  BY <1>1, DoneFits DEF Watching
<1>4. tracked[f] # None
  BY <1>1 DEF IInv, HeadFits
<1>5. PICK ok \in BOOLEAN : FontsDir(add, ok)
  BY DEF HandleFontsDirEvent
<1>6. CASE add /\ disk[f] # "fonts"
  BY <1>1, <1>2, <1>3, <1>5, <1>6, TodoKeeps DEF FontsDir
<1>7. CASE ~(add /\ disk[f] # "fonts")
  <2> DEFINE was == tracked[f].added
  <2>1. /\ Counted(~ok)
        /\ xpath' = PathWith(f, was, add, ok)
        /\ tracked' = [tracked EXCEPT ![f].added = Added(was, add, ok)]
        /\ excused' = IF ok THEN excused ELSE excused \cup {f}
    BY <1>5, <1>7 DEF FontsDir
  <2>2. add \in BOOLEAN
    OBVIOUS
  <2> HIDE DEF f, add
  <2>3. tracked[f] \in Entries
    BY <1>2, <1>4 DEF TypeOK
  <2>4. was \in BOOLEAN
    BY <2>3 DEF Entries
  <2>5. [tracked[f] EXCEPT !.added = Added(was, add, ok)] \in Entries
    BY <2>2, <2>3, <2>4 DEF Entries, Added
  <2>6. /\ [tracked[f] EXCEPT !.added = Added(was, add, ok)].added = Added(was, add, ok)
        /\ [tracked[f] EXCEPT !.added = Added(was, add, ok)].wd = tracked[f].wd
    BY <2>3 DEF Entries
  <2>7. /\ tracked' \in [Folders -> Entries \cup {None}]
        /\ tracked'[f] # None /\ tracked'[f].added = Added(was, add, ok) /\ tracked'[f].wd = tracked[f].wd
        /\ \A g \in Folders : g # f => tracked'[g] = tracked[g]
    BY <1>2, <2>1, <2>5, <2>6, NoneIsNoEntry DEF TypeOK
  <2>8. xpath' = IF was = add \/ ~ok THEN xpath ELSE IF add THEN xpath \cup {f} ELSE xpath \ {f}
    BY <2>1 DEF PathWith
  <2>9. f \in Monitored
    BY <1>2, <1>4 DEF IInv, MonitoredOnly
  <2>10. changes' \in 0 .. MaxChanges
    BY <1>2, <2>1, CountedChanges
  <2>11. xpath' \subseteq Folders /\ xpath' \subseteq Monitored /\ excused' \subseteq Folders
    BY <1>2, <2>1, <2>8, <2>9 DEF IInv, TypeOK
  <2>12. \A g \in Folders : tracked'[g] = None <=> tracked[g] = None
    BY <1>4, <2>7
  <2>13. \A v : Holders(v)' = Holders(v)
    BY <1>4, <2>7 DEF Holders
  <2>14. TypeOK'
    BY <1>1, <1>2, <1>3, <2>7, <2>10, <2>11, <2>13 DEF TypeOK, Shaped
  <2>15. MonitoredOnly' /\ Held'
    BY <1>1, <2>12, <2>13 DEF IInv, MonitoredOnly, Held
  <2>16. ASSUME NEW g \in xpath' PROVE Owned(g)'
    <3>1. g \in Folders
      BY <2>11, <2>16
    <3>2. CASE g \in xpath /\ g # f
      BY <1>1, <1>3, <2>7, <3>1, <3>2 DEF IInv, Owned
    <3>3. CASE g = f
      <4>1. CASE Added(was, add, ok)
        BY <2>7, <3>3, <4>1 DEF Owned
      <4>2. CASE ~Added(was, add, ok)
        <5>1. g \in xpath /\ ~was
          BY <2>8, <2>16, <3>3, <4>2 DEF Added
        <5>2. Owned(g)
          BY <5>1 DEF IInv
        <5> QED
          BY <1>1, <1>3, <3>3, <5>1, <5>2 DEF Owned
      <4> QED
        BY <4>1, <4>2
    <3> QED
      BY <2>8, <2>16, <3>2, <3>3
  <2> QED
    BY <1>3, <2>11, <2>14, <2>15, <2>16 DEF IInv
<1> QED
  BY <1>6, <1>7

-----------------------------------------------------------------------------
(* Events, Start and Stop *)

LEMMA ReadStep == ASSUME IInv, Read PROVE IInv'
<1> DEFINE e == Head(queue)
<1>1. /\ todo = <<>> /\ queue # <<>>
      /\ Handle(e) /\ queue' = Tail(queue)
      /\ UNCHANGED <<disk, changes, xpath, tracked, at, mode, excused, leaked>>
  BY DEF Read
<1>2. queue \in Seq(Events) /\ TypeOK
  BY DEF IInv, TypeOK
<1>3. /\ e \in Events /\ e = queue[1] /\ 1 \in DOMAIN queue
      /\ queue' \in Seq(Events) /\ DOMAIN queue' = 1 .. Len(queue) - 1
      /\ DOMAIN queue = 1 .. Len(queue) /\ Len(queue) \in Nat
      /\ \A i \in 1 .. Len(queue) - 1 : queue'[i] = queue[i + 1]
  BY <1>1, <1>2
<1> HIDE DEF e
<1>4. \A g : ~Watching(g)
  BY <1>1 DEF Watching
<1>5. Shaped(todo') /\ HeadFits'
  <2>1. CASE todo' = <<>>
    BY <2>1, ShapedEmpty DEF HeadFits
  <2>2. CASE todo' # <<>>
    <3>1. PICK f \in Holders(e.wd) : e.what # "void" /\ todo' \in Handler(e, f)
      BY <1>1, <2>2 DEF Handle
    <3>2. f \in Folders /\ f \in Monitored /\ tracked[f] # None
      BY <3>1 DEF Holders, IInv, MonitoredOnly
    <3>3. CASE e.what = "up"
      <4>1. PICK g \in Kids(f, e.name) : ~Ignored(g) /\ todo' = <<Op("add", g)>>
        BY <3>1, <3>3 DEF Handler
      <4> DEFINE a == Op("add", g)
      <4>2. g \in Folders /\ g \in Monitored
        BY <3>2, <4>1, ChildrenMonitored DEF Kids, Children
      <4>3. a \in Ops /\ a.op = "add" /\ a.folder = g /\ todo' = <<a>>
        BY <4>1, <4>2 DEF Op, Ops
      <4> HIDE DEF a
      <4>4. Fine(a)
        BY <4>2, <4>3 DEF Fine
      <4>5. Shaped(todo') /\ Now' = a
        BY <4>3, <4>4, ShapedOne DEF Now
      <4> QED
        BY <4>3, <4>5 DEF HeadFits
    <3>4. CASE e.what = "down"
      <4>1. PICK g \in Kids(f, e.name) : todo' = <<Op("remove", g)>>
        BY <3>1, <3>4 DEF Handler
      <4> DEFINE a == Op("remove", g)
      <4>2. a \in Ops /\ a.op = "remove" /\ todo' = <<a>>
        BY <4>1 DEF Op, Ops, Kids, Children
      <4> HIDE DEF a
      <4>3. Fine(a)
        BY <4>2 DEF Fine
      <4>4. Shaped(todo') /\ Now' = a
        BY <4>2, <4>3, ShapedOne DEF Now
      <4> QED
        BY <4>2, <4>4 DEF HeadFits
    <3>5. CASE e.what \in {"fontsUp", "fontsDown"}
      <4> DEFINE a == Op(e.what, f)
      <4>1. todo' = <<a>>
        BY <3>1, <3>5 DEF Handler
      <4>2. a \in Ops /\ a.op = e.what /\ a.folder = f
        BY <3>2, <3>5 DEF Op, Ops
      <4> HIDE DEF a
      <4>3. Fine(a)
        BY <3>5, <4>2 DEF Fine
      <4>4. Shaped(todo') /\ Now' = a
        BY <4>1, <4>3, ShapedOne DEF Now
      <4> QED
        BY <1>1, <3>2, <3>5, <4>2, <4>4 DEF HeadFits
    <3> QED
      BY <1>3, <3>1, <3>3, <3>4, <3>5 DEF Events
  <2> QED
    BY <2>1, <2>2
<1>6. \A w : Holders(w)' = Holders(w)
  BY <1>1, HoldersSame
<1>7. ASSUME NEW i \in DOMAIN queue', queue'[i].what # "void" PROVE Holders(queue'[i].wd) # {}
  <2>1. i + 1 \in DOMAIN queue /\ queue'[i] = queue[i + 1]
    BY <1>3
  <2> QED
    BY <1>2, <1>7, <2>1 DEF TypeOK
<1>8. TypeOK'
  BY <1>1, <1>2, <1>3, <1>5, <1>6, <1>7 DEF TypeOK, Shaped
<1>9. MonitoredOnly' /\ Held' /\ xpath' \subseteq Monitored
  BY <1>1, <1>6 DEF IInv, MonitoredOnly, Held
<1>10. \A g \in xpath' : Owned(g)'
  BY <1>1, <1>4 DEF IInv, Owned
<1> QED
  BY <1>5, <1>8, <1>9, <1>10 DEF IInv

LEMMA StoppedStep == ASSUME IInv, Stopped PROVE IInv'
<1> DEFINE mine == {f \in Folders : tracked[f] # None /\ tracked[f].added}
<1>1. PICK failed \in SUBSET mine :
        /\ xpath' = xpath \ (mine \ failed)
        /\ leaked' = (leaked \ mine) \cup failed
  BY DEF Stopped
<1>2. /\ todo = <<>> /\ mode' = "ended"
      /\ tracked' = [f \in Folders |-> None] /\ queue' = <<>>
      /\ at' = [w \in Folders |-> None]
      /\ UNCHANGED <<disk, changes, todo, excused>>
  BY DEF Stopped
<1>3. xpath \subseteq Folders /\ TypeOK
  BY DEF IInv, TypeOK
<1>4. TypeOK' /\ Shaped(todo')
  BY <1>1, <1>2, <1>3, ShapedEmpty DEF TypeOK
<1>5. HeadFits' /\ MonitoredOnly' /\ Held' /\ xpath' \subseteq Monitored
  BY <1>1, <1>2 DEF IInv, HeadFits, MonitoredOnly, Held
<1>6. ASSUME NEW f \in xpath' PROVE Owned(f)'
  <2>1. f \in Folders /\ Owned(f) /\ ~Watching(f)
    BY <1>1, <1>2, <1>3, <1>6 DEF IInv, Watching
  <2>2. f \in leaked \/ f \in mine
    BY <2>1 DEF Owned
  <2> HIDE DEF mine
  <2>3. f \in leaked'
    BY <1>1, <1>6, <2>2
  <2> QED
    BY <2>3 DEF Owned
<1> QED
  BY <1>4, <1>5, <1>6 DEF IInv

\* Only whether the thread runs changes.
LEMMA ModeKeeps ==
    ASSUME IInv, UNCHANGED <<disk, changes, xpath, tracked, at, queue, todo, excused, leaked>>,
           mode' \in {"running", "deaf", "stopping", "ended", "aborted"} \/ mode' = mode
    PROVE  IInv'
<1>1. \A w : Holders(w)' = Holders(w)
  BY HoldersSame
<1>2. TypeOK'
  BY <1>1 DEF IInv, TypeOK
<1>3. Now' = Now
  BY DEF Now
<1>4. HeadFits' /\ MonitoredOnly' /\ Held' /\ xpath' \subseteq Monitored /\ Shaped(todo')
  BY <1>1, <1>3 DEF IInv, HeadFits, MonitoredOnly, Held
<1>5. \A g \in xpath' : Owned(g)'
  BY <1>3 DEF IInv, Owned, Watching
<1> QED
  BY <1>2, <1>4, <1>5 DEF IInv

LEMMA StepIInv == IInv /\ [Next]_vars => IInv'
<1> SUFFICES ASSUME IInv, [Next]_vars PROVE IInv'
  OBVIOUS
<1>1. CASE Environment
  BY <1>1, EnvironmentStep
<1>2. CASE AddMonitorFolder
  BY <1>2, SkipStep, LookStep, WatchStep, WatchFailsStep, OpenStep, OpenFailsStep,
       ListStep DEF AddMonitorFolder
<1>3. CASE Remove
  BY <1>3, RemoveStep
<1>4. CASE HandleFontsDirEvent
  BY <1>4, FontsDirStep
<1>5. CASE Read
  BY <1>5, ReadStep
<1>6. CASE Stopped
  BY <1>6, StoppedStep
<1>7. CASE Started
  BY <1>7, ModeKeeps DEF Started
<1>8. CASE Stop
  BY <1>8, ModeKeeps DEF Stop
<1>9. CASE Aborted
  BY <1>9, ModeKeeps DEF Aborted
<1>10. CASE UNCHANGED vars
  BY <1>10, ModeKeeps DEF vars
<1> QED
  BY <1>1, <1>2, <1>3, <1>4, <1>5, <1>6, <1>7, <1>8, <1>9, <1>10 DEF Next, Thread
-----------------------------------------------------------------------------
(* What the monitor has still to learn *)

UpAt(i, h)    == queue[i].what = "up" /\ About(i, h)
DownAt(i, h)  == queue[i].what = "down" /\ About(i, h)
FontsAt(i, f) == f \in Holders(queue[i].wd) /\ queue[i].what \in {"fontsUp", "fontsDown"}

\* h will be looked at: its last event is that it came, or a listing has it.
Announced(h) ==
    \E i \in DOMAIN queue : UpAt(i, h) /\ \A j \in DOMAIN queue : j > i => ~DownAt(j, h)
Looks(o, h) ==
    \/ o.op = "add" /\ o.folder = h
    \/ o.op = "list" /\ h \in o.rest
    \/ o.op = "open" /\ h \in Children(o.folder)
InTodo(h) == \E i \in DOMAIN todo : Looks(todo[i], h)
Due(h) == Announced(h) \/ (~Leaving(h) /\ InTodo(h))

\* The last event of f about its fonts.dir, or that there is none.
Says(f, what) ==
    \E i \in DOMAIN queue :
        /\ FontsAt(i, f) /\ queue[i].what = what
        /\ \A j \in DOMAIN queue : j > i => ~FontsAt(j, f)
Quiet(f)   == \A i \in DOMAIN queue : ~FontsAt(i, f)
OnFonts(f) == todo # <<>> /\ Now.op \in {"fontsUp", "fontsDown"} /\ Now.folder = f

\* r goes on from q.
Extends(r, q) ==
    /\ r \in Seq(Events) /\ Len(r) >= Len(q)
    /\ \A i \in 1 .. Len(q) : r[i] = q[i]

\* More events.
LEMMA Extended ==
    ASSUME IInv, Extends(queue', queue), UNCHANGED <<todo, tracked>>
    PROVE  LET new == Len(queue) + 1 .. Len(queue') IN
           /\ \A h : Leaving(h)' <=> Leaving(h) \/ \E i \in new : DownAt(i, h)'
           /\ \A h : Due(h) /\ (\A i \in new : ~DownAt(i, h)') => Due(h)'
           /\ \A h : (\E i \in new : UpAt(i, h)' /\ \A j \in new : j > i => ~DownAt(j, h)') => Due(h)'
           /\ \A f : (\A i \in new : ~FontsAt(i, f)') =>
                        (Quiet(f)' <=> Quiet(f)) /\ \A what : Says(f, what)' => Says(f, what)
           /\ \A f : \A what : (\E i \in new : FontsAt(i, f)') /\ (\A i \in new : queue'[i].what = what) =>
                        ~Quiet(f)' /\ \A x : Says(f, x)' => x = what
<1> DEFINE n == Len(queue)
           m == Len(queue')
           new == n + 1 .. m
<1>1. /\ n \in Nat /\ DOMAIN queue = 1 .. n /\ m \in Nat /\ m >= n /\ DOMAIN queue' = 1 .. m
      /\ \A i \in 1 .. n : queue'[i] = queue[i]
  BY DEF IInv, TypeOK, Extends
<1>2. \A i \in 1 .. n : i \in 1 .. m
  BY <1>1
<1>3. \A i \in 1 .. m : i \in 1 .. n \/ i \in new
  BY <1>1
<1>4. \A i \in new : i \in 1 .. m /\ \A j \in 1 .. n : i > j /\ ~(j > i)
  BY <1>1
<1> HIDE DEF n, m, new
<1>5. \A w : Holders(w)' = Holders(w)
  BY HoldersSame
<1>6. ASSUME NEW i \in 1 .. n, NEW h
      PROVE  /\ UpAt(i, h)' <=> UpAt(i, h)
             /\ DownAt(i, h)' <=> DownAt(i, h)
             /\ FontsAt(i, h)' <=> FontsAt(i, h)
  BY <1>1, <1>5 DEF UpAt, DownAt, FontsAt, About
<1>7. ASSUME NEW h PROVE Leaving(h)' <=> Leaving(h) \/ \E i \in new : DownAt(i, h)'
  <2>1. Leaving(h)' <=> \/ todo # <<>> /\ todo[1].op = "remove" /\ todo[1].folder = h
                        \/ \E i \in 1 .. m : DownAt(i, h)'
    BY <1>1 DEF Leaving, DownAt
  <2>2. Leaving(h) <=> \/ todo # <<>> /\ todo[1].op = "remove" /\ todo[1].folder = h
                       \/ \E i \in 1 .. n : DownAt(i, h)
    BY <1>1 DEF Leaving, DownAt
  <2> QED
    BY <1>2, <1>3, <1>4, <1>6, <2>1, <2>2
<1>8. ASSUME NEW h, Announced(h), \A i \in new : ~DownAt(i, h)' PROVE Announced(h)'
  <2>1. PICK i \in 1 .. n : UpAt(i, h) /\ \A j \in 1 .. n : j > i => ~DownAt(j, h)
    BY <1>1, <1>8 DEF Announced
  <2> QED
    BY <1>1, <1>2, <1>3, <1>6, <1>8, <2>1 DEF Announced
<1>9. ASSUME NEW h, Due(h), \A i \in new : ~DownAt(i, h)' PROVE Due(h)'
  <2>1. InTodo(h)' <=> InTodo(h)
    BY DEF InTodo
  <2> QED
    BY <1>7, <1>8, <1>9, <2>1 DEF Due
<1>10. ASSUME NEW h, NEW i \in new, UpAt(i, h)', \A j \in new : j > i => ~DownAt(j, h)' PROVE Due(h)'
  <2>1. \A j \in 1 .. m : j > i => ~DownAt(j, h)'
    BY <1>3, <1>4, <1>10
  <2> QED
    BY <1>1, <1>4, <1>10, <2>1 DEF Due, Announced
<1>11. ASSUME NEW f, \A i \in new : ~FontsAt(i, f)'
       PROVE  (Quiet(f)' <=> Quiet(f)) /\ \A what : Says(f, what)' => Says(f, what)
  <2>1. Quiet(f)' <=> Quiet(f)
    BY <1>1, <1>2, <1>3, <1>6, <1>11 DEF Quiet
  <2>2. ASSUME NEW what, Says(f, what)' PROVE Says(f, what)
    <3>1. PICK i \in 1 .. m : /\ FontsAt(i, f)' /\ queue'[i].what = what
                              /\ \A j \in 1 .. m : j > i => ~FontsAt(j, f)'
      BY <1>1, <2>2 DEF Says
    <3>2. i \in 1 .. n
      BY <1>3, <1>11, <3>1
    <3> QED
      BY <1>1, <1>2, <1>6, <3>1, <3>2 DEF Says
  <2> QED
    BY <2>1, <2>2
<1>12. ASSUME NEW f, NEW what, NEW k \in new, FontsAt(k, f)', \A i \in new : queue'[i].what = what
       PROVE  ~Quiet(f)' /\ \A x : Says(f, x)' => x = what
  <2>1. ~Quiet(f)'
    BY <1>1, <1>4, <1>12 DEF Quiet
  <2>2. ASSUME NEW x, Says(f, x)' PROVE x = what
    <3>1. PICK i \in 1 .. m : /\ queue'[i].what = x
                              /\ \A j \in 1 .. m : j > i => ~FontsAt(j, f)'
      BY <1>1, <2>2 DEF Says
    <3>2. i \notin 1 .. n
      BY <1>4, <1>12, <3>1
    <3> QED
      BY <1>3, <1>12, <3>1, <3>2
  <2> QED
    BY <2>1, <2>2
<1> QED
  BY <1>7, <1>9, <1>10, <1>11, <1>12 DEF n, m, new

\* What is told of a folder: nothing, where no watch is or no room, or an event
\* more.
LEMMA TellingExtends ==
    ASSUME NEW q \in Seq(Events), NEW f \in Folders, NEW name \in Names,
           NEW what \in {"up", "down", "fontsUp", "fontsDown"}
    PROVE  LET r == Telling(q, f, what, name) IN
           /\ Extends(r, q)
           /\ \/ r = q /\ (On(f) = {} \/ Len(q) >= MaxQueue)
              \/ /\ Len(r) = Len(q) + 1 /\ r[Len(r)].wd \in Folders /\ at[r[Len(r)].wd] = f
                 /\ r[Len(r)].what = what /\ r[Len(r)].name = name
                 /\ ~(Len(q) >= MaxQueue)
<1> DEFINE r == Telling(q, f, what, name)
<1>1. CASE r = q /\ (On(f) = {} \/ Len(q) >= MaxQueue)
  BY <1>1 DEF Extends
<1>2. ASSUME NEW w \in Folders, at[w] = f, ~(Len(q) >= MaxQueue),
             r = Append(q, [wd |-> w, what |-> what, name |-> name])
      PROVE  /\ Extends(r, q)
             /\ Len(r) = Len(q) + 1 /\ r[Len(r)].wd = w
             /\ r[Len(r)].what = what /\ r[Len(r)].name = name
  <2> DEFINE e == [wd |-> w, what |-> what, name |-> name]
  <2>1. e \in Events /\ e.wd = w /\ e.what = what /\ e.name = name
    BY DEF Events
  <2>2. r = Append(q, e)
    BY <1>2
  <2> HIDE DEF e, r
  <2>3. r \in Seq(Events) /\ Len(r) = Len(q) + 1 /\ r[Len(q) + 1] = e /\ \A i \in 1 .. Len(q) : r[i] = q[i]
    BY <2>1, <2>2
  <2> QED
    BY <2>1, <2>3 DEF Extends
<1> HIDE DEF r
<1>3. \/ r = q /\ (On(f) = {} \/ Len(q) >= MaxQueue)
      \/ \E w \in Folders : /\ at[w] = f /\ ~(Len(q) >= MaxQueue)
                            /\ r = Append(q, [wd |-> w, what |-> what, name |-> name])
  BY TellingIs DEF r
<1> QED
  BY <1>1, <1>2, <1>3 DEF r

\* Of the folders whose watch is where it belongs, an event of a folder's watch is
\* about the one that it is of.
LEMMA ToldAbout ==
    ASSUME NEW f \in Folders \ Roots, NEW h \in Folders \ Roots, NEW w,
           at[w] = Parent[f], Parent[h] \in Holders(w), Told(Parent[h]), Name[h] = Name[f]
    PROVE  h = f
<1>1. Parent[h] = Parent[f]
  BY DEF Holders, Told
<1>2. Parent[h] # h /\ Parent[f] # f
  BY DEF Roots
<1> QED
  BY <1>1, <1>2, FontAssumption

\* The same events are of h.
LEMMA SameEvents ==
    ASSUME NEW h, DOMAIN queue' = DOMAIN queue,
           \A i \in DOMAIN queue :
                /\ UpAt(i, h)' <=> UpAt(i, h)
                /\ DownAt(i, h)' <=> DownAt(i, h)
                /\ FontsAt(i, h)' <=> FontsAt(i, h)
                /\ FontsAt(i, h) => queue'[i].what = queue[i].what
    PROVE  /\ Announced(h)' <=> Announced(h)
           /\ \A what : Says(h, what)' <=> Says(h, what)
           /\ Quiet(h)' <=> Quiet(h)
           /\ (\E i \in DOMAIN queue' : DownAt(i, h)') <=> (\E i \in DOMAIN queue : DownAt(i, h))
<1>1. Announced(h)' <=> Announced(h)
  BY DEF Announced
<1>2. ASSUME NEW what PROVE Says(h, what)' <=> Says(h, what)
  BY DEF Says
<1>3. Quiet(h)' <=> Quiet(h)
  BY DEF Quiet
<1> QED
  BY <1>1, <1>2, <1>3

LEMMA LeavingIs ==
    ASSUME NEW h
    PROVE  Leaving(h) <=> \/ todo # <<>> /\ Now.op = "remove" /\ Now.folder = h
                          \/ \E i \in DOMAIN queue : DownAt(i, h)
  BY DEF Leaving, DownAt, Now

-----------------------------------------------------------------------------
(* The path is current: the invariant *)

Active == mode \in {"starting", "running"}

\* Nothing is expected of h and of what is below it.
Lost(h) == Below(h) \subseteq excused

\* A watch is on a folder that is there, and no other is on it.
Alive(w) == at[w] # None => Exists(at[w])
Own(w)   == \A v \in Folders : at[w] = at[v] /\ at[w] # None => v = w

\* Nothing is expected of entries that share a watch.
Alone(h) == \A g \in Folders :
    tracked[h] # None /\ tracked[g] # None /\ tracked[h].wd = tracked[g].wd => g = h \/ Lost(h)

\* A FontFolder has its watch on its folder unless it will be told to go.
Kept(h) == tracked[h] # None /\ ~Leaving(h) => Told(h) \/ Lost(h)

\* A folder that is there, in a folder that is watched, is known or will be.
Seen(h) ==
    h \in Monitored /\ Exists(h) /\ (h \in Roots \/ (Told(Parent[h]) /\ ~Leaving(Parent[h]))) =>
        (Looked(h) /\ ~Leaving(h)) \/ Due(h) \/ Lost(h)

\* The last that the monitor has heard or will hear of a fonts.dir is what it is.
Agrees(f) ==
    /\ Says(f, "fontsUp") => disk[f] = "fonts"
    /\ Says(f, "fontsDown") => disk[f] # "fonts"
    /\ Quiet(f) /\ InGap(f) => (Now.added <=> disk[f] = "fonts")
    /\ Quiet(f) /\ OnFonts(f) => (Now.op = "fontsUp" <=> disk[f] = "fonts")
    /\ Quiet(f) /\ ~OnFonts(f) /\ tracked[f] # None => (tracked[f].added <=> disk[f] = "fonts")
Right(f) == f \notin excused /\ Looked(f) /\ ~Leaving(f) => Agrees(f)

\* m_isPathAdded is what the X server has.
InPath(f) ==
    f \notin excused => (f \in xpath <=> (tracked[f] # None /\ tracked[f].added) \/ Watching(f))

DiskTree == \A f \in Folders : Exists(f) => Exists(Parent[f])
Watches  == \A w \in Folders : Alive(w) /\ Own(w)

Facts ==
    /\ DiskTree /\ Watches
    /\ \A h \in Folders : Alone(h) /\ Kept(h) /\ Seen(h) /\ Right(h) /\ InPath(h)
CurrentInv == IInv /\ (Active => Facts)

LEMMA InitCurrentInv == Init => CurrentInv
<1> SUFFICES ASSUME Init PROVE CurrentInv
  OBVIOUS
<1> DEFINE a == [Op("list", MountRoot) EXCEPT !.rest = {f \in Roots : Exists(f)}]
<1>1. a.op = "list" /\ a.rest = {f \in Roots : Exists(f)}
  BY DEF Op
<1>2. /\ todo = <<a>> /\ tracked = [f \in Folders |-> None] /\ queue = <<>> /\ xpath = {} /\ DiskTree
      /\ at = [w \in Folders |-> None]
  BY DEF Init, DiskTree
<1> HIDE DEF a
<1>3. Now = a /\ todo # <<>> /\ DOMAIN todo = {1} /\ todo[1] = a
  BY <1>2 DEF Now
<1>4. ASSUME NEW h \in Folders PROVE Alone(h) /\ Kept(h) /\ Seen(h) /\ Right(h) /\ InPath(h)
  <2>1. tracked[h] = None /\ ~InGap(h) /\ ~Watching(h) /\ ~Leaving(h)
    BY <1>1, <1>2, <1>3 DEF InGap, Watching, Leaving
  <2>2. ~Told(h) /\ ~Looked(h)
    BY <2>1 DEF Told, Looked
  <2>3. ASSUME h \in Roots, Exists(h) PROVE Due(h)
    BY <1>1, <1>3, <2>1, <2>3 DEF Due, InTodo, Looks
  <2>4. ~Told(Parent[h])
    BY <1>2, FontAssumption DEF Told
  <2> QED
    BY <1>2, <2>1, <2>2, <2>3, <2>4 DEF Alone, Kept, Seen, Right, InPath
<1>5. Watches
  BY <1>2 DEF Watches, Alive, Own
<1> QED
  BY <1>2, <1>4, <1>5, InitIInv DEF CurrentInv, Facts

LEMMA LostStays == ASSUME NEW h, excused \subseteq excused', Lost(h) PROVE Lost(h)'
  BY DEF Lost

LEMMA LostSelf == ASSUME NEW h \in Folders, Lost(h) PROVE h \in excused
  BY BelowSelf DEF Lost

LEMMA LostBelow == ASSUME NEW f \in Folders, NEW g \in Below(f), Lost(f) PROVE Lost(g)
  BY BelowBelow DEF Lost

LEMMA LostChild ==
    ASSUME NEW f \in Folders, f \notin Roots, Lost(Parent[f]) PROVE Lost(f)
<1>1. Parent[f] \in Folders /\ f \in Children(Parent[f])
  BY FontAssumption DEF Children
<1>2. f \in Below(Parent[f])
  BY <1>1, BelowSelf, BelowChild
<1> QED
  BY <1>1, <1>2, LostBelow

\* Of a folder that is lost nothing more is expected.
LEMMA LostFacts ==
    ASSUME NEW h \in Folders, Lost(h)
    PROVE  Alone(h) /\ Kept(h) /\ Seen(h) /\ Right(h) /\ InPath(h)
  BY LostSelf DEF Alone, Kept, Seen, Right, InPath

\* An entry's watch is the entry's alone, or the entry is lost.
LEMMA AloneHolder ==
    ASSUME NEW w, NEW f \in Holders(w), NEW g \in Holders(w), f # g, Alone(f)
    PROVE  Lost(f)
  BY DEF Alone, Holders
-----------------------------------------------------------------------------
(* The path is current: the environment *)

\* Below a folder that is not there, nothing is.
LEMMA NothingBelow ==
    ASSUME DiskTree, NEW f \in Folders, ~Exists(f), NEW g \in Below(f)
    PROVE  ~Exists(g)
<1> DEFINE S == {x \in Folders : ~Exists(x)}
<1>1. \A h \in S : Children(h) \subseteq S
  BY DEF DiskTree, Children
<1>2. S \in SUBSET Folders /\ f \in S
  OBVIOUS
<1> HIDE DEF S
<1>3. Below(f) \subseteq S
  BY <1>1, <1>2, BelowInduct
<1> QED
  BY <1>3 DEF S

\* Nor below an empty one.
LEMMA EmptyBelow ==
    ASSUME DiskTree, NEW f \in Folders, Empty(f), NEW g \in Below(f), g # f
    PROVE  ~Exists(g)
<1> DEFINE S == {x \in Folders : x = f \/ ~Exists(x)}
<1>1. \A h \in S : Children(h) \subseteq S
  BY DEF DiskTree, Children, Empty
<1>2. S \in SUBSET Folders /\ f \in S
  OBVIOUS
<1> HIDE DEF S
<1>3. Below(f) \subseteq S
  BY <1>1, <1>2, BelowInduct
<1> QED
  BY <1>3 DEF S

\* What a folder that is known and does not go loses, with what is below it.
LEMMA MissedLost ==
    ASSUME NEW f \in Folders, NEW g \in Below(f), Looked(g), ~Leaving(g)',
           Missed(f) \subseteq excused'
    PROVE  Lost(g)'
<1>1. Below(g) \subseteq Missed(f)
  BY DEF Missed
<1> QED
  BY <1>1 DEF Lost

LEMMA LostAll ==
    ASSUME NEW f \in Folders, NEW g \in Below(f), Below(f) \subseteq excused'
    PROVE  Lost(g)'
  BY BelowBelow DEF Lost

\* Folders of S change, and what is told is that folders came or went: what was
\* known of S is lost or goes, and of the rest nothing is told.
LEMMA TreeCurrent ==
    ASSUME CurrentInv, Facts, DiskTree', Watches',
           UNCHANGED <<xpath, tracked, todo, mode>>, excused \subseteq excused',
           Extends(queue', queue),
           \A i \in Len(queue) + 1 .. Len(queue') : queue'[i].what \in {"up", "down"},
           NEW S \in SUBSET (Folders \ Roots),
           \A h \in S : Children(h) \subseteq S,
           \A h \in Folders \ S : disk'[h] = disk[h] /\ (Told(h)' <=> Told(h)),
           \A h \in Folders \ (S \cup Roots) : Told(Parent[h]) =>
                \A i \in Len(queue) + 1 .. Len(queue') : ~DownAt(i, h)',
           \A h \in S : Looked(h) /\ ~Leaving(h)' => Lost(h)',
           \A h \in S : Parent[h] \in S \/ Seen(h)'
    PROVE  Facts'
<1> DEFINE new == Len(queue) + 1 .. Len(queue')
<1>1. IInv
  BY DEF CurrentInv
<1>2. /\ \A h : Leaving(h)' <=> Leaving(h) \/ \E i \in new : DownAt(i, h)'
      /\ \A h : Due(h) /\ (\A i \in new : ~DownAt(i, h)') => Due(h)'
      /\ \A f : (\A i \in new : ~FontsAt(i, f)') =>
                   (Quiet(f)' <=> Quiet(f)) /\ \A what : Says(f, what)' => Says(f, what)
  BY <1>1, Extended
<1>3. \A i \in new : \A f : ~FontsAt(i, f)'
  BY DEF FontsAt
<1>4. \A h : \A i : DownAt(i, h)' => h \notin Roots
  BY DEF DownAt, About
<1> HIDE DEF new
<1>5. ASSUME NEW h \in Folders
      PROVE  /\ Looked(h)' <=> Looked(h)
             /\ Watching(h)' <=> Watching(h)
             /\ InGap(h)' <=> InGap(h)
             /\ OnFonts(h)' <=> OnFonts(h)
             /\ Now' = Now
  BY DEF Looked, Watching, InGap, OnFonts, Now
<1>6. ASSUME NEW h \in Folders PROVE Alone(h)' /\ InPath(h)'
  <2>1. Alone(h) /\ InPath(h)
    BY DEF Facts
  <2>2. Alone(h)'
    BY <2>1, LostStays DEF Alone
  <2>3. InPath(h)'
    BY <1>5, <2>1 DEF InPath
  <2> QED
    BY <2>2, <2>3
<1>7. ASSUME NEW h \in Folders PROVE Kept(h)' /\ Right(h)'
  <2>1. Kept(h) /\ Right(h)
    BY DEF Facts
  <2>2. CASE h \in S
    <3>1. ASSUME Looked(h), ~Leaving(h)' PROVE h \in excused' /\ Lost(h)'
      BY <2>2, <3>1, BelowSelf DEF Lost
    <3> QED
      BY <1>5, <3>1 DEF Kept, Right, Looked
  <2>3. CASE h \notin S
    <3>1. Kept(h)'
      BY <1>2, <2>1, <2>3, LostStays DEF Kept
    <3>2. Agrees(h) => Agrees(h)'
      <4>1. disk'[h] = disk[h]
        BY <2>3
      <4>2. (Quiet(h)' <=> Quiet(h)) /\ \A what : Says(h, what)' => Says(h, what)
        BY <1>2, <1>3
      <4> QED
        BY <1>5, <4>1, <4>2 DEF Agrees
    <3>3. Right(h)'
      BY <1>2, <1>5, <2>1, <3>2 DEF Right
    <3> QED
      BY <3>1, <3>3
  <2> QED
    BY <2>2, <2>3
<1>8. ASSUME NEW h \in Folders PROVE Seen(h)'
  <2>1. CASE h \in S /\ Parent[h] \in S
    <3> SUFFICES ASSUME Told(Parent[h])', ~Leaving(Parent[h])' PROVE Lost(h)'
      BY <2>1 DEF Seen
    <3>1. Looked(Parent[h])
      BY DEF Told, Looked
    <3>2. Lost(Parent[h])'
      BY <2>1, <3>1
    <3>3. Parent[h] \in Folders /\ h \in Below(Parent[h])
      <4>1. Parent[h] \in Folders /\ h \in Children(Parent[h])
        BY <2>1 DEF Children
      <4> QED
        BY <4>1, BelowSelf, BelowChild
    <3>4. Below(h) \subseteq Below(Parent[h])
      BY <3>3, BelowBelow
    <3> QED
      BY <3>2, <3>4 DEF Lost
  <2>2. CASE h \in S /\ Parent[h] \notin S
    BY <2>2
  <2>3. CASE h \notin S
    <3> SUFFICES ASSUME h \in Monitored, Exists(h)', h \in Roots \/ (Told(Parent[h])' /\ ~Leaving(Parent[h])')
                 PROVE  (Looked(h)' /\ ~Leaving(h)') \/ Due(h)' \/ Lost(h)'
      BY DEF Seen
    <3>1. Exists(h)
      BY <2>3 DEF Exists
    <3>2. h \in Roots \/ (Told(Parent[h]) /\ ~Leaving(Parent[h]))
      <4>1. CASE h \in Roots
        BY <4>1
      <4>2. CASE h \notin Roots
        <5>1. Parent[h] \in Folders /\ h \in Children(Parent[h])
          BY <4>2, FontAssumption DEF Children
        <5>2. Parent[h] \notin S
          BY <2>3, <5>1
        <5>3. Told(Parent[h])' /\ ~Leaving(Parent[h])'
          BY <4>2
        <5>4. Told(Parent[h])' <=> Told(Parent[h])
          BY <5>1, <5>2
        <5> QED
          BY <1>2, <5>3, <5>4
      <4> QED
        BY <4>1, <4>2
    <3>3. \A i \in new : ~DownAt(i, h)'
      BY <1>4, <2>3, <3>2 DEF new
    <3>4. Seen(h)
      BY DEF Facts
    <3>5. (Looked(h) /\ ~Leaving(h)) \/ Due(h) \/ Lost(h)
      BY <3>1, <3>2, <3>4 DEF Seen
    <3> QED
      BY <1>2, <1>5, <3>3, <3>5, LostStays
  <2> QED
    BY <2>1, <2>2, <2>3
<1> QED
  BY <1>6, <1>7, <1>8 DEF Facts

\* A folder comes: it is told or nobody watches its parent, and what it holds
\* is not watched.
LEMMA AppearCurrent ==
    ASSUME CurrentInv, NEW f \in Folders, Appear(f), Active'
    PROVE  Facts'
<1> DEFINE p == Parent[f]
           S == Below(f)
           n == Len(queue)
<1>0. PICK r : r = Len(queue')
  OBVIOUS
<1>1. /\ f \notin Roots /\ ~Exists(f) /\ Exists(p)
      /\ \A g \in Folders \ S : disk'[g] = disk[g]
      /\ Exists(f)' /\ \A g \in S \ {f} : Exists(g)' => Exists(Parent[g])'
      /\ UNCHANGED <<xpath, tracked, at, todo, mode, leaked>>
      /\ queue' = Telling(queue, p, "up", Name[f])
      /\ excused' = excused \cup (IF Told(p) /\ Full THEN S ELSE Missed(f))
  <2>1. PICK content \in [Below(f) -> {"absent", "bare", "fonts"}] :
          /\ content[f] # "absent"
          /\ \A g \in Below(f) \ {f} : content[g] # "absent" => content[Parent[g]] # "absent"
          /\ disk' = [g \in Folders |-> IF g \in Below(f) THEN content[g] ELSE disk[g]]
    BY DEF Appear
  <2>2. f \in Below(f) /\ \A g \in Below(f) : g \in Folders /\ disk'[g] = content[g]
    BY <2>1, BelowSelf
  <2>3. \A g \in Below(f) \ {f} : Parent[g] \in Below(f)
    BY BelowStep
  <2>4. \A g \in Below(f) \ {f} : Exists(g)' => Exists(Parent[g])'
    BY <2>1, <2>2, <2>3 DEF Exists
  <2>5. Exists(f)'
    BY <2>1, <2>2 DEF Exists
  <2> QED
    BY <2>1, <2>4, <2>5 DEF Appear, Tell
<1>2. IInv /\ DiskTree /\ Watches /\ Facts /\ p \in Folders /\ f \in Children(p) /\ TypeOK
  BY <1>1, FontAssumption DEF CurrentInv, Active, Children, Facts, IInv
<1>3. ASSUME NEW g \in S PROVE g \in Folders /\ ~Exists(g) /\ \A w \in Folders : at[w] # g
  <2>1. g \in Folders /\ ~Exists(g)
    BY <1>1, <1>2, <1>3, NothingBelow, BelowSelf
  <2>2. None \notin Folders
    BY FontAssumption
  <2> QED
    BY <1>2, <2>1, <2>2 DEF Watches, Alive
<1>4. DiskTree'
  <2> SUFFICES ASSUME NEW g \in Folders, Exists(g)' PROVE Exists(Parent[g])'
    BY DEF DiskTree
  <2>1. CASE g = f
    <3>1. p \notin S
      BY <1>1, <1>3
    <3> QED
      BY <1>1, <1>2, <2>1, <3>1 DEF Exists
  <2>2. CASE g \in S \ {f}
    BY <1>1, <2>2
  <2>3. CASE g \notin S
    <3>1. Exists(g) /\ Exists(Parent[g]) /\ Parent[g] \in Folders
      BY <1>1, <1>2, <2>3, FontAssumption DEF Exists, DiskTree
    <3>2. Parent[g] \notin S
      BY <1>3, <3>1
    <3> QED
      BY <1>1, <3>1, <3>2 DEF Exists
  <2> QED
    BY <2>1, <2>2, <2>3
<1>5. Watches'
  <2> SUFFICES ASSUME NEW w \in Folders PROVE Alive(w)' /\ Own(w)'
    BY DEF Watches
  <2>1. Alive(w) /\ Own(w)
    BY <1>2 DEF Watches
  <2>2. at[w] # None => at[w] \in Folders \ S
    BY <1>2, <1>3 DEF TypeOK
  <2> QED
    BY <1>1, <2>1, <2>2 DEF Alive, Own, Exists
<1>6. /\ Extends(queue', queue)
      /\ \/ r = n /\ (On(p) = {} \/ n >= MaxQueue)
         \/ r = n + 1 /\ at[queue'[r].wd] = p /\ queue'[r].wd \in Folders
            /\ queue'[r].what = "up" /\ queue'[r].name = Name[f] /\ ~(n >= MaxQueue)
      /\ n \in Nat /\ r \in Nat
  <2>1. queue \in Seq(Events) /\ Name[f] \in Names
    BY <1>2 DEF TypeOK, Names
  <2>2. Extends(queue', queue)
    BY <1>1, <1>2, <2>1, TellingExtends
  <2>3. n \in Nat /\ r \in Nat
    BY <1>0, <2>1, <2>2 DEF Extends
  <2> QED
    BY <1>0, <1>1, <1>2, <2>1, <2>2, <2>3, TellingExtends
<1>7. \A i \in n + 1 .. r : i = r /\ queue'[i].what = "up"
  BY <1>6
<1>8. \A i \in n + 1 .. r : \A h : ~DownAt(i, h)'
  BY <1>7 DEF DownAt
<1>9. ASSUME NEW h \in S, Looked(h), ~Leaving(h)' PROVE Lost(h)'
  <2>1. CASE Told(p) /\ Full
    <3>1. Below(f) \subseteq excused'
      BY <1>1, <2>1
    <3> QED
      BY <3>1, LostAll
  <2>2. CASE ~(Told(p) /\ Full)
    <3>1. Missed(f) \subseteq excused'
      BY <1>1, <2>2
    <3> QED
      BY <1>9, <3>1, MissedLost
  <2> QED
    BY <2>1, <2>2
<1>10. ASSUME Told(p) PROVE Due(f)' \/ Lost(f)'
  <2>1. CASE Full
    <3>1. Below(f) \subseteq excused' /\ f \in Below(f)
      BY <1>1, <1>10, <2>1, BelowSelf
    <3> QED
      BY <3>1 DEF Lost
  <2>2. CASE ~Full
    <3>1. tracked[p].wd \in On(p) /\ tracked[p].wd \in Folders /\ p \in Holders(tracked[p].wd)
      BY <1>2, <1>10 DEF Told, On, TypeOK, Entries, Holders
    <3>2. r = n + 1 /\ at[queue'[r].wd] = p /\ queue'[r].wd \in Folders
          /\ queue'[r].what = "up" /\ queue'[r].name = Name[f]
      BY <1>6, <2>2, <3>1 DEF Full
    <3>3. queue'[r].wd = tracked[p].wd
      <4>1. at[tracked[p].wd] = p /\ p # None
        BY <1>2, <1>10, FontAssumption DEF Told
      <4>2. Own(tracked[p].wd)
        BY <1>2, <3>1 DEF Watches
      <4> QED
        BY <3>2, <4>1, <4>2 DEF Own
    <3>4. UpAt(r, f)'
      <4>1. \A w : Holders(w)' = Holders(w)
        BY <1>1, HoldersSame
      <4>2. p \in Holders(queue'[r].wd)
        BY <3>1, <3>3
      <4> QED
        BY <1>1, <3>2, <4>1, <4>2 DEF UpAt, About
    <3>5. r \in n + 1 .. r /\ \A j \in n + 1 .. r : j > r => ~DownAt(j, f)'
      BY <1>6, <1>8, <3>2
    <3> QED
      BY <1>0, <1>1, <1>2, <1>6, <3>4, <3>5, Extended
  <2> QED
    BY <2>1, <2>2
<1>11. Seen(f)'
  <2>1. Told(p)' <=> Told(p)
    BY <1>1 DEF Told
  <2> QED
    BY <1>1, <1>10, <2>1 DEF Seen
<1>12. \A h \in S : Parent[h] \in S \/ Seen(h)'
  BY <1>11, BelowStep
<1>13. S \in SUBSET (Folders \ Roots) /\ \A h \in S : Children(h) \subseteq S
  BY <1>1, <1>3, BelowChild, RootsOnTop
<1>14. \A h \in Folders \ S : disk'[h] = disk[h] /\ (Told(h)' <=> Told(h))
  BY <1>1 DEF Told
<1>15. excused \subseteq excused'
  BY <1>1
<1>16. \A i \in n + 1 .. r : queue'[i].what \in {"up", "down"}
  BY <1>7
<1> HIDE DEF S, p
<1> QED
  BY <1>0, <1>1, <1>2, <1>4, <1>5, <1>6, <1>8, <1>9, <1>12, <1>13, <1>14, <1>15, <1>16, TreeCurrent

\* A folder goes: it is told, or what is known of it is lost.
LEMMA DisappearCurrent ==
    ASSUME CurrentInv, NEW f \in Folders, Disappear(f), Active'
    PROVE  Facts'
<1> DEFINE p == Parent[f]
           S == Below(f)
           n == Len(queue)
<1>0. PICK r : r = Len(queue')
  OBVIOUS
<1>1. /\ f \notin Roots /\ Empty(f)
      /\ disk' = [disk EXCEPT ![f] = "absent"]
      /\ at' = [w \in Folders |-> IF at[w] = f THEN None ELSE at[w]]
      /\ UNCHANGED <<xpath, tracked, todo, mode, leaked>>
      /\ queue' = Telling(queue, p, "down", Name[f])
      /\ excused' = excused \cup Missed(f)
  BY DEF Disappear, Tell
<1>2. IInv /\ DiskTree /\ Watches /\ Facts /\ p \in Folders /\ TypeOK
  BY <1>1, FontAssumption DEF CurrentInv, Active, Facts, IInv
<1>3. disk'[f] = "absent" /\ \A g \in Folders \ {f} : disk'[g] = disk[g]
  BY <1>1, <1>2 DEF TypeOK
<1>4. f \in S /\ S \subseteq Folders /\ \A g \in S : ~Exists(g)'
  <2>1. f \in S /\ S \subseteq Folders
    BY BelowSelf
  <2>2. \A g \in S \ {f} : ~Exists(g)
    BY <1>1, <1>2, EmptyBelow
  <2> QED
    BY <1>3, <2>1, <2>2 DEF Exists
<1>5. DiskTree'
  <2> SUFFICES ASSUME NEW g \in Folders, Exists(g)' PROVE Exists(Parent[g])'
    BY DEF DiskTree
  <2>1. g # f /\ Exists(g) /\ Exists(Parent[g]) /\ Parent[g] \in Folders
    BY <1>2, <1>3, FontAssumption DEF Exists, DiskTree
  <2>2. Parent[g] # f
    <3>1. CASE g \in Roots
      BY <1>1, <3>1 DEF Roots
    <3>2. CASE g \notin Roots
      BY <1>1, <2>1, <3>2 DEF Empty, Children
    <3> QED
      BY <3>1, <3>2
  <2> QED
    BY <1>3, <2>1, <2>2 DEF Exists
<1>6. ASSUME NEW w \in Folders
      PROVE  at'[w] = IF at[w] = f THEN None ELSE at[w]
  BY <1>1
<1>7. Watches'
  <2> SUFFICES ASSUME NEW w \in Folders PROVE Alive(w)' /\ Own(w)'
    BY DEF Watches
  <2>1. Alive(w) /\ Own(w) /\ at[w] \in Folders \cup {None}
    BY <1>2 DEF Watches, TypeOK
  <2>2. Alive(w)'
    BY <1>3, <1>6, <2>1 DEF Alive, Exists
  <2>3. Own(w)'
    BY <1>6, <2>1 DEF Own
  <2> QED
    BY <2>2, <2>3
<1>8. /\ Extends(queue', queue)
      /\ \A i \in n + 1 .. r : at[queue'[i].wd] = p /\ queue'[i].what = "down" /\ queue'[i].name = Name[f]
  <2>1. queue \in Seq(Events) /\ Name[f] \in Names
    BY <1>2 DEF TypeOK, Names
  <2>2. Extends(queue', queue)
    BY <1>1, <1>2, <2>1, TellingExtends
  <2>3. n \in Nat /\ r \in Nat
    BY <1>0, <2>1, <2>2 DEF Extends
  <2>4. \/ r = n
        \/ r = n + 1 /\ at[queue'[r].wd] = p /\ queue'[r].what = "down" /\ queue'[r].name = Name[f]
    BY <1>0, <1>1, <1>2, <2>1, TellingExtends
  <2>5. \A i \in n + 1 .. r : r = n + 1 /\ i = r
    BY <2>3, <2>4
  <2> QED
    BY <2>2, <2>3, <2>4, <2>5
<1>9. ASSUME NEW h \in Folders \ (S \cup Roots), Told(Parent[h]), NEW i \in n + 1 .. r
      PROVE  ~DownAt(i, h)'
  <2> SUFFICES ASSUME DownAt(i, h)' PROVE FALSE
    OBVIOUS
  <2>1. \A w : Holders(w)' = Holders(w)
    BY <1>1, HoldersSame
  <2>2. Parent[h] \in Holders(queue'[i].wd) /\ Name[h] = Name[f]
    BY <1>8, <2>1 DEF DownAt, About
  <2>3. h = f
    BY <1>1, <1>8, <1>9, <2>2, ToldAbout
  <2> QED
    BY <1>4, <2>3
<1>10. ASSUME NEW h \in S, Looked(h), ~Leaving(h)' PROVE Lost(h)'
  <2>1. Missed(f) \subseteq excused'
    BY <1>1
  <2> QED
    BY <1>10, <2>1, MissedLost
<1>11. \A h \in S : Seen(h)'
  BY <1>4 DEF Seen
<1>12. S \in SUBSET (Folders \ Roots) /\ \A h \in S : Children(h) \subseteq S
  BY <1>1, <1>4, BelowChild, RootsOnTop
<1>13. ASSUME NEW h \in Folders \ S PROVE disk'[h] = disk[h] /\ (Told(h)' <=> Told(h))
  <2>1. h # f /\ h # None
    BY <1>4, FontAssumption
  <2>2. tracked[h] # None => tracked[h].wd \in Folders
    BY <1>2 DEF TypeOK, Entries
  <2> QED
    BY <1>1, <1>3, <1>6, <2>1, <2>2 DEF Told
<1>14. excused \subseteq excused'
  BY <1>1
<1>15. \A i \in n + 1 .. r : queue'[i].what \in {"up", "down"}
  BY <1>8
<1> HIDE DEF S, p
<1> QED
  BY <1>0, <1>1, <1>2, <1>5, <1>7, <1>8, <1>9, <1>10, <1>11, <1>12, <1>13, <1>14, <1>15, TreeCurrent

\* A folder is moved: where it was it goes, where it is now it comes.
LEMMA RenameCurrent ==
    ASSUME CurrentInv, NEW f \in Folders, NEW g \in Folders, Rename(f, g), Active'
    PROVE  Facts'
<1> DEFINE S == Below(f) \cup Below(g)
           n == Len(queue)
           first == Telling(queue, Parent[f], "down", Name[f])
<1>1. /\ f \notin Roots /\ g \notin Roots /\ g \notin Below(f)
      /\ Exists(f) /\ Exists(Parent[g]) /\ (Exists(g) => Empty(g))
      /\ UNCHANGED <<xpath, tracked, todo, mode, leaked>>
      /\ queue' = Telling(first, Parent[g], "up", Name[g])
      /\ excused' = excused \cup Missed(f) \cup
              (IF Told(Parent[g]) /\ Len(first) >= MaxQueue THEN Below(g) ELSE Missed(g))
  BY DEF Rename
<1>2. /\ IInv /\ DiskTree /\ Watches /\ Facts /\ TypeOK
      /\ Parent[f] \in Folders /\ Parent[g] \in Folders
      /\ Name[f] \in Names /\ Name[g] \in Names
  BY <1>1, FontAssumption DEF CurrentInv, Active, Facts, IInv, Names
<1>3. PICK m \in [{x \in Below(f) : Exists(x)} -> Below(g)] : Moves(f, g, m)
  BY RenameMoves
<1>4. /\ m[f] = g
      /\ \A x \in DOMAIN m \ {f} : Parent[m[x]] = m[Parent[x]]
      /\ \A x, y \in DOMAIN m : m[x] = m[y] => x = y
      /\ \A x \in DOMAIN m : disk'[m[x]] = disk[x]
      /\ \A y \in Folders : (~\E x \in DOMAIN m : m[x] = y) =>
            disk'[y] = IF y \in S THEN "absent" ELSE disk[y]
      /\ \A w \in Folders :
            at'[w] = IF at[w] \in DOMAIN m THEN m[at[w]] ELSE IF at[w] \in S THEN None ELSE at[w]
  BY <1>3 DEF Moves
<1>5. /\ f \in Below(f) /\ g \in Below(g) /\ S \subseteq Folders
      /\ Below(f) \subseteq S /\ Below(g) \subseteq S
  BY BelowSelf
<1>6. DOMAIN m = {x \in Below(f) : Exists(x)} /\ f \in DOMAIN m /\ \A x \in DOMAIN m : m[x] \in Below(g)
  BY <1>1, <1>3, <1>5
<1>7. \A x \in Below(g) \ {g} : ~Exists(x)
  <2>1. CASE Exists(g)
    BY <1>1, <1>2, <2>1, EmptyBelow
  <2>2. CASE ~Exists(g)
    BY <1>2, <2>2, NothingBelow
  <2> QED
    BY <2>1, <2>2
<1>8. f \notin Below(g) /\ Parent[g] \notin S
  <2>1. f \notin Below(g)
    BY <1>1, <1>5, <1>7
  <2>2. g \in Children(Parent[g]) /\ Parent[g] # g
    BY <1>1 DEF Roots, Children
  <2>3. Parent[g] \notin Below(f)
    BY <1>1, <2>2, BelowChild
  <2> QED
    BY <1>1, <1>7, <2>1, <2>2, <2>3
<1>9. S \in SUBSET (Folders \ Roots) /\ \A h \in S : Children(h) \subseteq S
  BY <1>1, <1>5, BelowChild, RootsOnTop
<1> HIDE DEF S
<1>10. \A h \in Folders \ S : disk'[h] = disk[h]
  BY <1>4, <1>5, <1>6
<1>11. \A h \in S : Exists(h)' => \E x \in DOMAIN m : m[x] = h
  BY <1>4, <1>5 DEF Exists
<1>12. \A x \in DOMAIN m : Exists(m[x])'
  BY <1>4, <1>6 DEF Exists
<1>13. DiskTree'
  <2> SUFFICES ASSUME NEW h \in Folders, Exists(h)' PROVE Exists(Parent[h])'
    BY DEF DiskTree
  <2>1. CASE h \in S
    <3>1. PICK x \in DOMAIN m : m[x] = h
      BY <1>11, <2>1
    <3>2. CASE x = f
      <4>1. Exists(Parent[g])'
        BY <1>1, <1>2, <1>8, <1>10 DEF Exists
      <4> QED
        BY <1>4, <3>1, <3>2, <4>1
    <3>3. CASE x # f
      <4>1. x \in Below(f) /\ Parent[x] \in Below(f) /\ Exists(x) /\ x \in Folders
        BY <1>5, <1>6, <3>3, BelowStep, BelowSelf
      <4>2. Parent[x] \in DOMAIN m
        BY <1>2, <1>6, <4>1 DEF DiskTree
      <4>3. Parent[h] = m[Parent[x]]
        BY <1>4, <3>1, <3>3
      <4> QED
        BY <1>12, <4>2, <4>3
    <3> QED
      BY <3>2, <3>3
  <2>2. CASE h \notin S
    <3>1. Exists(h) /\ Exists(Parent[h]) /\ Parent[h] \in Folders
      BY <1>2, <1>10, <2>2, FontAssumption DEF Exists, DiskTree
    <3>2. Parent[h] \notin S
      BY <1>9, <2>2 DEF Roots, Children
    <3> QED
      BY <1>10, <3>1, <3>2 DEF Exists
  <2> QED
    BY <2>1, <2>2
<1>14. ASSUME NEW w \in Folders
       PROVE  \/ at[w] \in DOMAIN m /\ at'[w] = m[at[w]] /\ at'[w] \in S
              \/ at[w] \in S /\ at'[w] = None
              \/ at[w] \in Folders \ S /\ at'[w] = at[w]
              \/ at[w] = None /\ at'[w] = None
  <2>1. at[w] \in Folders \cup {None}
    BY <1>2 DEF TypeOK
  <2> QED
    BY <1>4, <1>5, <1>6, <2>1
<1>15. Watches'
  <2> SUFFICES ASSUME NEW w \in Folders, at'[w] # None
               PROVE  Exists(at[w])' /\ \A v \in Folders : at'[w] = at'[v] => v = w
    BY DEF Watches, Alive, Own
  <2>1. at[w] # None /\ Exists(at[w]) /\ \A v \in Folders : at[w] = at[v] => v = w
    <3>1. at[w] # None
      BY <1>14, FontAssumption, <1>6, <1>5
    <3> QED
      BY <1>2, <3>1 DEF Watches, Alive, Own
  <2>2. CASE at[w] \in DOMAIN m /\ at'[w] = m[at[w]] /\ at'[w] \in S
    <3>1. Exists(at[w])'
      BY <1>4, <1>6, <2>2 DEF Exists
    <3>2. ASSUME NEW v \in Folders, at'[w] = at'[v] PROVE v = w
      <4>1. at[v] \in DOMAIN m /\ at'[v] = m[at[v]]
        BY <1>14, <2>2, <3>2
      <4>2. at[v] = at[w]
        BY <1>4, <2>2, <3>2, <4>1
      <4> QED
        BY <2>1, <4>2
    <3> QED
      BY <3>1, <3>2
  <2>3. CASE at[w] \in Folders \ S /\ at'[w] = at[w]
    <3>1. Exists(at[w])'
      BY <1>10, <2>1, <2>3 DEF Exists
    <3>2. ASSUME NEW v \in Folders, at'[w] = at'[v] PROVE v = w
      <4>1. at[v] = at[w]
        BY <1>14, <2>3, <3>2
      <4> QED
        BY <2>1, <4>1
    <3> QED
      BY <2>3, <3>1, <3>2
  <2> QED
    BY <1>14, <2>2, <2>3
<1>16. ASSUME NEW h \in Folders \ S PROVE Told(h)' <=> Told(h)
  <2>1. tracked[h] # None => tracked[h].wd \in Folders
    BY <1>2 DEF TypeOK, Entries
  <2>2. ASSUME NEW w \in Folders PROVE at'[w] = h <=> at[w] = h
    BY <1>5, <1>6, <1>14, FontAssumption
  <2> QED
    BY <1>1, <2>1, <2>2 DEF Told
<1>17. /\ first \in Seq(Events) /\ n \in Nat /\ Len(first) \in Nat /\ Len(first) >= n
       /\ \A i \in 1 .. n : first[i] = queue[i]
       /\ \A i \in n + 1 .. Len(first) :
            at[first[i].wd] = Parent[f] /\ first[i].what = "down" /\ first[i].name = Name[f]
  <2>1. queue \in Seq(Events) /\ n \in Nat
    BY <1>2 DEF TypeOK
  <2>2. Extends(first, queue)
    BY <1>2, <2>1, TellingExtends
  <2>3. \/ first = queue
        \/ Len(first) = n + 1 /\ at[first[Len(first)].wd] = Parent[f]
           /\ first[Len(first)].what = "down" /\ first[Len(first)].name = Name[f]
    BY <1>2, <2>1, TellingExtends
  <2> HIDE DEF first
  <2>4. Len(first) \in Nat /\ \A i \in n + 1 .. Len(first) : Len(first) = n + 1 => i = Len(first)
    BY <2>1, <2>2 DEF Extends
  <2> QED
    BY <2>1, <2>2, <2>3, <2>4 DEF Extends
<1>18. PICK k : k = Len(queue')
  OBVIOUS
<1>19. /\ Extends(queue', first) /\ k \in Nat /\ k >= Len(first)
       /\ \/ k = Len(first) /\ (On(Parent[g]) = {} \/ Len(first) >= MaxQueue)
          \/ k = Len(first) + 1 /\ at[queue'[k].wd] = Parent[g] /\ queue'[k].wd \in Folders
             /\ queue'[k].what = "up" /\ queue'[k].name = Name[g] /\ ~(Len(first) >= MaxQueue)
  <2> HIDE DEF first
  <2>1. Extends(queue', first)
    BY <1>1, <1>2, <1>17, TellingExtends
  <2>2. k \in Nat /\ k >= Len(first)
    BY <1>17, <1>18, <2>1 DEF Extends
  <2>3. \/ queue' = first /\ (On(Parent[g]) = {} \/ Len(first) >= MaxQueue)
        \/ Len(queue') = Len(first) + 1 /\ at[queue'[Len(queue')].wd] = Parent[g]
           /\ queue'[Len(queue')].wd \in Folders
           /\ queue'[Len(queue')].what = "up" /\ queue'[Len(queue')].name = Name[g]
           /\ ~(Len(first) >= MaxQueue)
    BY <1>1, <1>2, <1>17, TellingExtends
  <2> QED
    BY <1>18, <2>1, <2>2, <2>3
<1> HIDE DEF first
<1>20. /\ Extends(queue', queue)
       /\ \A i \in n + 1 .. k :
            \/ at[queue'[i].wd] = Parent[f] /\ queue'[i].what = "down" /\ queue'[i].name = Name[f]
            \/ queue'[i].what = "up" /\ i = k
  <2>1. Extends(queue', queue)
    BY <1>17, <1>18, <1>19 DEF Extends
  <2>2. ASSUME NEW i \in n + 1 .. k, i \in 1 .. Len(first)
        PROVE  at[queue'[i].wd] = Parent[f] /\ queue'[i].what = "down" /\ queue'[i].name = Name[f]
    <3>1. queue'[i] = first[i] /\ i \in n + 1 .. Len(first)
      BY <1>17, <1>19, <2>2 DEF Extends
    <3> QED
      BY <1>17, <3>1
  <2>3. ASSUME NEW i \in n + 1 .. k, i \notin 1 .. Len(first)
        PROVE  queue'[i].what = "up" /\ i = k
    <3>1. k = Len(first) + 1 /\ i = k
      BY <1>17, <1>19, <2>3
    <3> QED
      BY <1>17, <1>19, <3>1
  <2> QED
    BY <2>1, <2>2, <2>3
<1>21. ASSUME NEW h \in Folders \ (S \cup Roots), Told(Parent[h]), NEW i \in n + 1 .. k
       PROVE  ~DownAt(i, h)'
  <2> SUFFICES ASSUME DownAt(i, h)' PROVE FALSE
    OBVIOUS
  <2>1. \A w : Holders(w)' = Holders(w)
    BY <1>1, HoldersSame
  <2>2. at[queue'[i].wd] = Parent[f] /\ queue'[i].name = Name[f]
    BY <1>20, <1>21 DEF DownAt
  <2>3. Parent[h] \in Holders(queue'[i].wd) /\ Name[h] = Name[f]
    BY <2>1, <2>2 DEF DownAt, About
  <2>4. h = f
    BY <1>1, <1>21, <2>2, <2>3, ToldAbout
  <2> QED
    BY <1>5, <2>4
<1>22. ASSUME NEW h \in S, Looked(h), ~Leaving(h)' PROVE Lost(h)'
  <2>1. CASE h \in Below(f)
    <3>1. Missed(f) \subseteq excused'
      BY <1>1
    <3> QED
      BY <1>22, <2>1, <3>1, MissedLost
  <2>2. CASE h \in Below(g)
    <3>1. CASE Told(Parent[g]) /\ Len(first) >= MaxQueue
      <4>1. Below(g) \subseteq excused'
        BY <1>1, <3>1
      <4> QED
        BY <2>2, <4>1, LostAll
    <3>2. CASE ~(Told(Parent[g]) /\ Len(first) >= MaxQueue)
      <4>1. Missed(g) \subseteq excused'
        BY <1>1, <3>2
      <4> QED
        BY <1>22, <2>2, <4>1, MissedLost
    <3> QED
      BY <3>1, <3>2
  <2> QED
    BY <2>1, <2>2 DEF S
<1>23. ASSUME Told(Parent[g]) PROVE Due(g)' \/ Lost(g)'
  <2> DEFINE p == Parent[g]
  <2>1. CASE Len(first) >= MaxQueue
    <3>1. Below(g) \subseteq excused'
      BY <1>1, <1>23, <2>1
    <3> QED
      BY <3>1 DEF Lost
  <2>2. CASE ~(Len(first) >= MaxQueue)
    <3>1. tracked[p].wd \in On(p) /\ tracked[p].wd \in Folders /\ p \in Holders(tracked[p].wd)
      BY <1>2, <1>23 DEF Told, On, TypeOK, Entries, Holders
    <3>2. k = Len(first) + 1 /\ at[queue'[k].wd] = p /\ queue'[k].wd \in Folders
          /\ queue'[k].what = "up" /\ queue'[k].name = Name[g]
      BY <1>19, <2>2, <3>1
    <3>3. queue'[k].wd = tracked[p].wd
      <4>1. at[tracked[p].wd] = p /\ p # None
        BY <1>2, <1>23, FontAssumption DEF Told
      <4>2. Own(tracked[p].wd)
        BY <1>2, <3>1 DEF Watches
      <4> QED
        BY <3>2, <4>1, <4>2 DEF Own
    <3>4. UpAt(k, g)'
      <4>1. \A w : Holders(w)' = Holders(w)
        BY <1>1, HoldersSame
      <4>2. p \in Holders(queue'[k].wd)
        BY <3>1, <3>3
      <4> QED
        BY <1>1, <3>2, <4>1, <4>2 DEF UpAt, About
    <3>5. k \in n + 1 .. k /\ \A j \in n + 1 .. k : ~(j > k)
      BY <1>17, <1>19, <3>2
    <3> QED
      BY <1>1, <1>2, <1>18, <1>20, <3>4, <3>5, Extended
  <2> QED
    BY <2>1, <2>2
<1>24. ASSUME NEW h \in S PROVE Parent[h] \in S \/ Seen(h)'
  <2>1. CASE h = f
    <3>1. ~Exists(f)'
      BY <1>5, <1>6, <1>8, <1>11
    <3> QED
      BY <2>1, <3>1 DEF Seen
  <2>2. CASE h = g
    <3>1. Told(Parent[g])' <=> Told(Parent[g])
      BY <1>2, <1>8, <1>16
    <3> QED
      BY <1>1, <1>23, <2>2, <3>1 DEF Seen
  <2>3. CASE h # f /\ h # g
    BY <1>5, <2>3, BelowStep DEF S
  <2> QED
    BY <2>1, <2>2, <2>3
<1>25. excused \subseteq excused'
  BY <1>1
<1>26. \A i \in n + 1 .. k : queue'[i].what \in {"up", "down"}
  BY <1>20
<1>27. \A h \in Folders \ S : disk'[h] = disk[h] /\ (Told(h)' <=> Told(h))
  BY <1>10, <1>16
<1> QED
  BY <1>1, <1>2, <1>9, <1>13, <1>15, <1>18, <1>20, <1>21, <1>22, <1>24, <1>25, <1>26, <1>27,
     TreeCurrent

\* A fonts.dir is written, or goes: the watch tells it, or the folder is excused.
LEMMA ChangeFontsCurrent ==
    ASSUME CurrentInv, NEW f \in Folders, NEW to, NEW what,
           (to = "fonts" /\ what = "fontsUp") \/ (to = "bare" /\ what = "fontsDown"),
           ChangeFonts(f, to, what), Active'
    PROVE  Facts'
<1> DEFINE n == Len(queue)
<1>1. /\ Exists(f) /\ disk' = [disk EXCEPT ![f] = to]
      /\ queue' = Telling(queue, f, what, Name[f])
      /\ excused' = IF Looked(f) /\ ~Leaving(f) /\ (Told(f) => Full)
                    THEN excused \cup {f} ELSE excused
      /\ UNCHANGED <<xpath, tracked, at, todo, mode, leaked>>
  BY DEF ChangeFonts, Tell
<1>2. /\ IInv /\ DiskTree /\ Watches /\ Facts /\ TypeOK
      /\ disk \in [Folders -> {"absent", "bare", "fonts"}]
      /\ queue \in Seq(Events) /\ n \in Nat /\ Name[f] \in Names
      /\ what \in {"fontsUp", "fontsDown"}
  BY <1>1 DEF CurrentInv, Active, IInv, TypeOK, Facts, Names
<1>3. /\ disk'[f] = to /\ \A g \in Folders \ {f} : disk'[g] = disk[g]
      /\ to # "absent" /\ \A g \in Folders : Exists(g)' <=> Exists(g)
  BY <1>1, <1>2 DEF Exists
<1>4. DiskTree'
  BY <1>2, <1>3, FontAssumption DEF DiskTree
<1>5. Watches'
  <2> SUFFICES ASSUME NEW w \in Folders PROVE Alive(w)' /\ Own(w)'
    BY DEF Watches
  <2>1. Alive(w) /\ Own(w) /\ at[w] \in Folders \cup {None}
    BY <1>2 DEF Watches, TypeOK
  <2> QED
    BY <1>1, <1>3, <2>1 DEF Alive, Own
<1>6. PICK k : k = Len(queue')
  OBVIOUS
<1>7. /\ Extends(queue', queue)
      /\ \/ k = n /\ (On(f) = {} \/ n >= MaxQueue)
         \/ /\ k = n + 1 /\ queue'[k].wd \in Folders /\ at[queue'[k].wd] = f
            /\ queue'[k].what = what /\ ~(n >= MaxQueue)
      /\ \A i \in n + 1 .. k : i = k /\ k = n + 1
  <2>1. Extends(queue', queue)
    BY <1>1, <1>2, TellingExtends
  <2>2. \/ k = n /\ (On(f) = {} \/ n >= MaxQueue)
        \/ /\ k = n + 1 /\ queue'[k].wd \in Folders /\ at[queue'[k].wd] = f
           /\ queue'[k].what = what /\ ~(n >= MaxQueue)
    BY <1>1, <1>2, <1>6, TellingExtends
  <2>3. \A i \in n + 1 .. k : i = k /\ k = n + 1
    BY <1>2, <2>2
  <2> QED
    BY <2>1, <2>2, <2>3
<1>8. \A w : Holders(w)' = Holders(w)
  BY <1>1, HoldersSame
<1>9. ASSUME NEW h
      PROVE  /\ Leaving(h)' <=> Leaving(h)
             /\ Due(h) => Due(h)'
             /\ (\A i \in n + 1 .. k : ~FontsAt(i, h)') =>
                   (Quiet(h)' <=> Quiet(h)) /\ \A w : Says(h, w)' => Says(h, w)
             /\ (\E i \in n + 1 .. k : FontsAt(i, h)') => ~Quiet(h)' /\ \A w : Says(h, w)' => w = what
  <2>1. \A i \in n + 1 .. k : ~DownAt(i, h)' /\ queue'[i].what = what
    BY <1>2, <1>7 DEF DownAt
  <2> QED
    BY <1>1, <1>2, <1>6, <1>7, <2>1, Extended
<1>10. ASSUME NEW h \in Folders
       PROVE  /\ Told(h)' <=> Told(h)
              /\ Looked(h)' <=> Looked(h)
              /\ Watching(h)' <=> Watching(h)
              /\ InGap(h)' <=> InGap(h)
              /\ OnFonts(h)' <=> OnFonts(h)
              /\ Now' = Now
              /\ Told(Parent[h])' <=> Told(Parent[h])
  BY <1>1 DEF Told, Looked, Watching, InGap, OnFonts, Now
<1>11. excused \subseteq excused'
  BY <1>1
<1>12. ASSUME NEW h \in Folders PROVE Alone(h)' /\ Kept(h)' /\ InPath(h)'
  <2>1. Alone(h) /\ Kept(h) /\ InPath(h) /\ (Lost(h) => Lost(h)')
    BY <1>2, <1>11, LostStays DEF Facts
  <2>2. Alone(h)'
    BY <1>1, <2>1 DEF Alone
  <2>3. Kept(h)' /\ InPath(h)'
    BY <1>1, <1>9, <1>10, <1>11, <2>1 DEF Kept, InPath
  <2> QED
    BY <2>2, <2>3
<1>13. ASSUME NEW h \in Folders PROVE Seen(h)'
  BY <1>2, <1>3, <1>9, <1>10, <1>11, LostStays DEF Facts, Seen
<1>14. ASSUME NEW h \in Folders PROVE Right(h)'
  <2> SUFFICES ASSUME h \notin excused', Looked(h)', ~Leaving(h)' PROVE Agrees(h)'
    BY DEF Right
  <2>1. Looked(h) /\ ~Leaving(h) /\ h \notin excused
    BY <1>9, <1>10, <1>11
  <2>2. Agrees(h) /\ Kept(h) /\ ~Lost(h)
    BY <1>2, <2>1, LostSelf DEF Facts, Right
  <2>3. CASE h # f
    <3>1. disk'[h] = disk[h]
      BY <1>3, <2>3
    <3>2. ASSUME NEW i \in n + 1 .. k PROVE ~FontsAt(i, h)'
      <4> SUFFICES ASSUME FontsAt(i, h)' PROVE FALSE
        OBVIOUS
      <4>1. h \in Holders(queue'[i].wd)
        BY <1>8 DEF FontsAt
      <4>2. at[queue'[i].wd] = f
        BY <1>2, <1>7, <3>2
      <4>3. tracked[h] # None /\ ~Told(h)
        BY <2>3, <4>1, <4>2 DEF Holders, Told
      <4> QED
        BY <2>1, <2>2, <4>3 DEF Kept
    <3> QED
      BY <1>1, <1>9, <1>10, <2>2, <3>1, <3>2 DEF Agrees
  <2>4. CASE h = f
    <3>1. Told(f) /\ ~Full
      BY <1>1, <2>1, <2>4
    <3>2. tracked[f].wd \in On(f) /\ tracked[f].wd \in Folders /\ f \in Holders(tracked[f].wd)
      BY <1>2, <3>1 DEF Told, On, TypeOK, Entries, Holders
    <3>3. /\ k = n + 1 /\ queue'[k].wd \in Folders /\ at[queue'[k].wd] = f
          /\ queue'[k].what = what /\ k \in n + 1 .. k
      BY <1>2, <1>7, <3>1, <3>2 DEF Full
    <3>4. queue'[k].wd = tracked[f].wd
      <4>1. at[tracked[f].wd] = f /\ f # None
        BY <3>1, FontAssumption DEF Told
      <4>2. Own(tracked[f].wd)
        BY <1>2, <3>2 DEF Watches
      <4> QED
        BY <3>3, <4>1, <4>2 DEF Own
    <3>5. f \in Holders(queue'[k].wd)
      BY <3>2, <3>4
    <3>6. FontsAt(k, f)'
      BY <1>2, <1>8, <3>3, <3>5 DEF FontsAt
    <3>7. ~Quiet(f)' /\ \A w : Says(f, w)' => w = what
      BY <1>9, <3>3, <3>6
    <3>8. /\ Says(f, "fontsUp")' => to = "fonts"
          /\ Says(f, "fontsDown")' => to # "fonts"
      BY <3>7
    <3> QED
      BY <1>3, <2>4, <3>7, <3>8 DEF Agrees
  <2> QED
    BY <2>3, <2>4
<1> QED
  BY <1>4, <1>5, <1>12, <1>13, <1>14 DEF Facts

LEMMA XRestartsCurrent == ASSUME CurrentInv, XRestarts, Active' PROVE Facts'
<1>1. /\ xpath' = {} /\ excused' = excused \cup xpath
      /\ UNCHANGED <<disk, tracked, at, queue, todo, mode, leaked>>
  BY DEF XRestarts
<1>2. Facts /\ DiskTree /\ Watches
  BY <1>1 DEF CurrentInv, Active, Facts
<1>3. DiskTree' /\ Watches'
  <2>1. DiskTree'
    BY <1>1, <1>2 DEF DiskTree, Exists
  <2>2. Watches'
    BY <1>1, <1>2 DEF Watches, Alive, Own, Exists
  <2> QED
    BY <2>1, <2>2
<1>4. ASSUME NEW h
      PROVE  /\ Told(h)' <=> Told(h)
             /\ Looked(h)' <=> Looked(h)
             /\ Leaving(h)' <=> Leaving(h)
             /\ Leaving(Parent[h])' <=> Leaving(Parent[h])
             /\ Watching(h)' <=> Watching(h)
             /\ Due(h)' <=> Due(h)
             /\ Exists(h)' <=> Exists(h)
             /\ Agrees(h)' <=> Agrees(h)
             /\ Told(Parent[h])' <=> Told(Parent[h])
  <2>1. \A w : Holders(w)' = Holders(w)
    BY <1>1, HoldersSame
  <2>2. ASSUME NEW x PROVE Leaving(x)' <=> Leaving(x)
    BY <1>1, <2>1 DEF Leaving, About
  <2>3. /\ Told(h)' <=> Told(h)
        /\ Looked(h)' <=> Looked(h)
        /\ Watching(h)' <=> Watching(h)
        /\ Exists(h)' <=> Exists(h)
        /\ Told(Parent[h])' <=> Told(Parent[h])
    BY <1>1 DEF Told, Looked, Watching, InGap, Now, Exists
  <2>4. Due(h)' <=> Due(h)
    BY <1>1, <2>1, <2>2 DEF Due, Announced, UpAt, DownAt, About, InTodo
  <2>5. Agrees(h)' <=> Agrees(h)
    BY <1>1, <2>1 DEF Agrees, Says, Quiet, FontsAt, OnFonts, InGap, Now
  <2> QED
    BY <2>2, <2>3, <2>4, <2>5
<1>5. ASSUME NEW h \in Folders PROVE Alone(h)' /\ Kept(h)' /\ Seen(h)' /\ Right(h)' /\ InPath(h)'
  <2>1. excused \subseteq excused' /\ Alone(h) /\ Kept(h) /\ Seen(h) /\ Right(h) /\ InPath(h)
    BY <1>1, <1>2 DEF Facts
  <2>2. Alone(h)' /\ Kept(h)' /\ Seen(h)'
    BY <1>1, <1>4, <2>1, LostStays DEF Alone, Kept, Seen
  <2>3. Right(h)' /\ InPath(h)'
    BY <1>1, <1>4, <2>1 DEF Right, InPath
  <2> QED
    BY <2>2, <2>3
<1> QED
  BY <1>3, <1>5 DEF Facts

-----------------------------------------------------------------------------
(* The path is current: the thread *)

\* Other operations take the place of the first.
LEMMA TodoThen ==
    ASSUME IInv, todo # <<>>
    PROVE  /\ Then(<<>>) => \A h : InTodo(h) /\ ~Looks(Now, h) => InTodo(h)'
           /\ \A a \in Ops : Then(<<a>>) =>
                \A h : (InTodo(h) /\ ~Looks(Now, h)) \/ Looks(a, h) => InTodo(h)'
           /\ \A a, b \in Ops : Then(<<a, b>>) =>
                \A h : (InTodo(h) /\ ~Looks(Now, h)) \/ Looks(a, h) \/ Looks(b, h) => InTodo(h)'
<1> DEFINE n == Len(todo)
<1>1. /\ todo \in Seq(Ops) /\ n \in Nat /\ n > 0 /\ DOMAIN todo = 1 .. n
      /\ Tail(todo) \in Seq(Ops) /\ Len(Tail(todo)) = n - 1
      /\ \A i \in 1 .. n - 1 : Tail(todo)[i] = todo[i + 1]
  BY DEF IInv, TypeOK
<1>2. ASSUME NEW h, InTodo(h), ~Looks(Now, h) PROVE \E i \in 1 .. n - 1 : Looks(Tail(todo)[i], h)
  <2>1. PICK i \in 1 .. n : Looks(todo[i], h)
    BY <1>1, <1>2 DEF InTodo
  <2>2. i # 1
    BY <1>2, <2>1 DEF Now
  <2>3. i - 1 \in 1 .. n - 1 /\ Tail(todo)[i - 1] = todo[i]
    BY <1>1, <2>2
  <2> QED
    BY <2>1, <2>3
<1> DEFINE t == Tail(todo)
<1>3. t \in Seq(Ops) /\ Len(t) = n - 1
  BY <1>1
<1> HIDE DEF t, n
<1>4. ASSUME Then(<<>>), NEW h, InTodo(h), ~Looks(Now, h) PROVE InTodo(h)'
  <2>1. todo' = t
    BY <1>3, <1>4 DEF Then, t
  <2> QED
    BY <1>2, <1>3, <1>4, <2>1 DEF InTodo, t
<1>5. ASSUME NEW a \in Ops, Then(<<a>>), NEW h, (InTodo(h) /\ ~Looks(Now, h)) \/ Looks(a, h)
      PROVE  InTodo(h)'
  <2>1. todo' = <<a>> \o t
    BY <1>5 DEF Then, t
  <2>2. DOMAIN todo' = 1 .. n /\ todo'[1] = a /\ \A i \in 1 .. n - 1 : i + 1 \in 1 .. n /\ todo'[i + 1] = t[i]
    BY <1>1, <1>3, <2>1
  <2>3. 1 \in 1 .. n
    BY <1>1
  <2> QED
    BY <1>2, <1>5, <2>2, <2>3 DEF InTodo, t
<1>6. ASSUME NEW a \in Ops, NEW b \in Ops, Then(<<a, b>>),
             NEW h, (InTodo(h) /\ ~Looks(Now, h)) \/ Looks(a, h) \/ Looks(b, h)
      PROVE  InTodo(h)'
  <2>1. todo' = <<a, b>> \o t
    BY <1>6 DEF Then, t
  <2>2. /\ DOMAIN todo' = 1 .. n + 1 /\ todo'[1] = a /\ todo'[2] = b
        /\ \A i \in 1 .. n - 1 : i + 2 \in 1 .. n + 1 /\ todo'[i + 2] = t[i]
    BY <1>1, <1>3, <2>1
  <2>3. 1 \in 1 .. n + 1 /\ 2 \in 1 .. n + 1
    BY <1>1
  <2> QED
    BY <1>2, <1>6, <2>2, <2>3 DEF InTodo, t
<1> QED
  BY <1>4, <1>5, <1>6

\* The operation done, if any, was no remove, and the next is none: nothing goes
\* that would not have gone.
LEMMA SameLeaving ==
    ASSUME UNCHANGED queue, \A w : Holders(w)' = Holders(w),
           todo # <<>> => Now.op # "remove", todo' # <<>> => Now'.op # "remove"
    PROVE  \A h : /\ Leaving(h)' <=> Leaving(h)
                  /\ Announced(h)' <=> Announced(h)
                  /\ \A what : Says(h, what)' <=> Says(h, what)
                  /\ Quiet(h)' <=> Quiet(h)
<1> SUFFICES ASSUME NEW h
             PROVE  /\ Leaving(h)' <=> Leaving(h)
                    /\ Announced(h)' <=> Announced(h)
                    /\ \A what : Says(h, what)' <=> Says(h, what)
                    /\ Quiet(h)' <=> Quiet(h)
  OBVIOUS
<1>1. ASSUME NEW i \in DOMAIN queue
      PROVE  /\ UpAt(i, h)' <=> UpAt(i, h)
             /\ DownAt(i, h)' <=> DownAt(i, h)
             /\ FontsAt(i, h)' <=> FontsAt(i, h)
  BY DEF UpAt, DownAt, FontsAt, About
<1>2. /\ Announced(h)' <=> Announced(h)
      /\ \A what : Says(h, what)' <=> Says(h, what)
      /\ Quiet(h)' <=> Quiet(h)
      /\ (\E i \in DOMAIN queue' : DownAt(i, h)') <=> (\E i \in DOMAIN queue : DownAt(i, h))
  BY <1>1, SameEvents
<1>3. Leaving(h) <=> \E i \in DOMAIN queue : DownAt(i, h)
  BY LeavingIs
<1>4. Leaving(h)' <=> \E i \in DOMAIN queue' : DownAt(i, h)'
  BY DEF Leaving, DownAt, Now
<1> QED
  BY <1>2, <1>3, <1>4

\* A step that changes no watch, and looks at what it was to look at or loses it.
LEMMA TodoCurrent ==
    ASSUME CurrentInv, Facts, UNCHANGED <<disk, at, queue>>, excused \subseteq excused',
           \A g \in Folders : /\ tracked'[g] = None <=> tracked[g] = None
                              /\ tracked[g] # None => tracked'[g].wd = tracked[g].wd,
           todo # <<>> => Now.op # "remove", todo' # <<>> => Now'.op # "remove",
           \A h \in Monitored : Exists(h) /\ Looked(h) => Looked(h)' \/ Lost(h)',
           \A h \in Monitored : Exists(h) /\ InTodo(h) => InTodo(h)' \/ Looked(h)' \/ Lost(h)'
    PROVE  DiskTree' /\ Watches' /\ \A h \in Folders : Alone(h)' /\ Kept(h)' /\ Seen(h)'
<1>1. DiskTree' /\ Watches'
  <2>1. DiskTree'
    BY DEF Facts, DiskTree, Exists
  <2>2. Watches'
    BY DEF Facts, Watches, Alive, Own, Exists
  <2> QED
    BY <2>1, <2>2
<1>2. \A w : Holders(w)' = Holders(w)
  BY DEF Holders
<1>3. ASSUME NEW h
      PROVE  /\ Leaving(h)' <=> Leaving(h)
             /\ Announced(h)' <=> Announced(h)
  BY <1>2, SameLeaving
<1>4. ASSUME NEW h \in Folders
      PROVE  /\ Told(h)' <=> Told(h)
             /\ Exists(h)' <=> Exists(h)
  BY DEF Told, Exists
<1>5. ASSUME NEW h \in Folders PROVE Alone(h)' /\ Kept(h)' /\ Seen(h)'
  <2>1. Alone(h) /\ Kept(h) /\ Seen(h) /\ (Lost(h) => Lost(h)') /\ Parent[h] \in Folders
    BY LostStays, FontAssumption DEF Facts
  <2>2. Alone(h)'
    BY <2>1 DEF Alone
  <2>3. Kept(h)'
    BY <1>3, <1>4, <2>1 DEF Kept
  <2>4. Seen(h)'
    <3> SUFFICES ASSUME h \in Monitored, Exists(h), ~Lost(h)',
                        h \in Roots \/ (Told(Parent[h]) /\ ~Leaving(Parent[h]))
                 PROVE  (Looked(h)' /\ ~Leaving(h)') \/ Due(h)'
      BY <1>3, <1>4, <2>1 DEF Seen
    <3>1. (Looked(h) /\ ~Leaving(h)) \/ Due(h)
      BY <2>1 DEF Seen
    <3>2. CASE Looked(h) /\ ~Leaving(h)
      BY <1>3, <3>2
    <3>3. CASE Due(h)
      BY <1>3, <3>3 DEF Due
    <3> QED
      BY <3>1, <3>2, <3>3
  <2> QED
    BY <2>2, <2>3, <2>4
<1> QED
  BY <1>1, <1>5

\* Nor is a watch set or a fonts.dir heard of.
LEMMA ListCurrent ==
    ASSUME CurrentInv, Active, UNCHANGED <<disk, xpath, tracked, at, queue>>,
           excused \subseteq excused',
           todo # <<>>, Now.op \in {"add", "open", "list"},
           todo' # <<>> => Now'.op \in {"add", "open", "list"},
           \A h \in Monitored : Exists(h) /\ InTodo(h) => InTodo(h)' \/ tracked[h] # None \/ Lost(h)'
    PROVE  Facts'
<1>1. ASSUME NEW h
      PROVE  /\ ~InGap(h) /\ ~InGap(h)' /\ ~Watching(h) /\ ~Watching(h)' /\ ~OnFonts(h) /\ ~OnFonts(h)'
             /\ Looked(h) <=> tracked[h] # None
             /\ Looked(h)' <=> tracked[h] # None
  <2>1. ~InGap(h) /\ ~InGap(h)' /\ ~Watching(h) /\ ~Watching(h)' /\ ~OnFonts(h) /\ ~OnFonts(h)'
    BY DEF InGap, Watching, OnFonts, Now
  <2> QED
    BY <2>1 DEF Looked
<1>2. Facts
  BY DEF CurrentInv
<1>3. DiskTree' /\ Watches' /\ \A h \in Folders : Alone(h)' /\ Kept(h)' /\ Seen(h)'
  BY <1>1, <1>2, TodoCurrent
<1>4. \A w : Holders(w)' = Holders(w)
  BY HoldersSame
<1>5. ASSUME NEW h \in Folders PROVE Right(h)' /\ InPath(h)'
  <2>1. Right(h) /\ InPath(h)
    BY <1>2 DEF Facts
  <2>2. /\ Leaving(h)' <=> Leaving(h)
        /\ \A what : Says(h, what)' <=> Says(h, what)
        /\ Quiet(h)' <=> Quiet(h)
    BY <1>4, SameLeaving
  <2>3. Agrees(h) => Agrees(h)'
    BY <1>1, <2>2 DEF Agrees
  <2> QED
    BY <1>1, <2>1, <2>2, <2>3 DEF Right, InPath
<1> QED
  BY <1>3, <1>5 DEF Facts

LEMMA DoneHead ==
    ASSUME IInv, todo # <<>>, Then(<<>>)
    PROVE  todo' # <<>> => Now'.op = "list"
<1>1. Shaped(todo)
  BY DEF IInv
<1> QED
  BY <1>1, ShapedDone DEF Then, Now

LEMMA SkipCurrent == ASSUME CurrentInv, Skip, Active' PROVE Facts'
<1>1. /\ todo # <<>> /\ Now.op = "add" /\ Then(<<>>) /\ tracked[Now.folder] # None /\ IInv
      /\ UNCHANGED <<disk, xpath, tracked, at, queue, mode, excused>>
  BY DEF Skip, Busy, Now, CurrentInv
<1>2. todo' # <<>> => Now'.op = "list"
  BY <1>1, DoneHead
<1>3. ASSUME NEW h, InTodo(h) PROVE InTodo(h)' \/ tracked[h] # None
  <2>1. CASE Looks(Now, h)
    BY <1>1, <2>1 DEF Looks
  <2>2. CASE ~Looks(Now, h)
    BY <1>1, <1>3, <2>2, TodoThen
  <2> QED
    BY <2>1, <2>2
<1>4. Active
  BY <1>1 DEF Active
<1> QED
  BY <1>1, <1>2, <1>3, <1>4, ListCurrent

LEMMA OpenCurrent == ASSUME CurrentInv, Open, Active' PROVE Facts'
<1> DEFINE f == Now.folder
           a == [Op("list", f) EXCEPT !.rest = {g \in Children(f) : Exists(g) /\ ~Ignored(g)}]
<1>1. /\ todo # <<>> /\ Now.op = "open" /\ Then(<<a>>) /\ IInv
      /\ UNCHANGED <<disk, xpath, tracked, at, queue, mode, excused>>
  BY DEF Open, Busy, Now, CurrentInv
<1>2. f \in Folders
  BY <1>1, HeadFine
<1>3. a.op = "list" /\ a.rest = {g \in Children(f) : Exists(g) /\ ~Ignored(g)}
  BY DEF Op
<1>4. a \in Ops /\ Fine(a)
  <2>1. {g \in Children(f) : Exists(g) /\ ~Ignored(g)} \subseteq Folders
    BY DEF Children
  <2>2. f \in Monitored
    BY <1>1, HeadFine DEF Fine
  <2>3. {g \in Children(f) : Exists(g) /\ ~Ignored(g)} \subseteq Monitored
    BY <2>2, ChildrenMonitored
  <2>4. a \in Ops
    BY <1>2, <2>1 DEF Op, Ops
  <2> HIDE DEF a, f
  <2> QED
    BY <1>3, <2>3, <2>4 DEF Fine
<1> HIDE DEF a
<1>5. Now' = a /\ todo' # <<>>
  BY <1>1, <1>4, NextFits
<1>6. ASSUME NEW h \in Monitored, Exists(h), InTodo(h) PROVE InTodo(h)'
  <2>1. CASE Looks(Now, h)
    <3>1. h \in Children(f) /\ ~Ignored(h)
      BY <1>1, <1>6, <2>1, BelowSelf DEF Looks, Monitored
    <3>2. Looks(a, h)
      BY <1>3, <1>6, <3>1 DEF Looks
    <3> QED
      BY <1>1, <1>4, <3>2, TodoThen
  <2>2. CASE ~Looks(Now, h)
    BY <1>1, <1>4, <1>6, <2>2, TodoThen
  <2> QED
    BY <2>1, <2>2
<1>7. Active
  BY <1>1 DEF Active
<1> QED
  BY <1>1, <1>3, <1>5, <1>6, <1>7, ListCurrent

\* The subfolders of a folder that cannot be listed are lost.
LEMMA OpenFailsCurrent == ASSUME CurrentInv, OpenFails, Active' PROVE Facts'
<1>1. /\ todo # <<>> /\ Now.op = "open" /\ Then(<<>>) /\ IInv
      /\ UNCHANGED <<disk, xpath, tracked, at, queue, mode>>
      /\ excused' = excused \cup UNION {Below(g) : g \in Children(Now.folder)}
  BY DEF OpenFails, Busy, Now, CurrentInv
<1>2. todo' # <<>> => Now'.op = "list"
  BY <1>1, DoneHead
<1>3. ASSUME NEW h, InTodo(h) PROVE InTodo(h)' \/ Lost(h)'
  <2>1. CASE Looks(Now, h)
    <3>1. h \in Children(Now.folder)
      BY <1>1, <2>1 DEF Looks
    <3> QED
      BY <1>1, <3>1 DEF Lost
  <2>2. CASE ~Looks(Now, h)
    BY <1>1, <1>3, <2>2, TodoThen
  <2> QED
    BY <2>1, <2>2
<1>4. Active /\ excused \subseteq excused'
  BY <1>1 DEF Active
<1> QED
  BY <1>1, <1>2, <1>3, <1>4, ListCurrent

LEMMA ListStepCurrent == ASSUME CurrentInv, List, Active' PROVE Facts'
<1>1. /\ todo # <<>> /\ Now.op = "list" /\ IInv
      /\ UNCHANGED <<disk, xpath, tracked, at, queue, mode, excused>>
  BY DEF List, Busy, Now, CurrentInv
<1>2. Active
  BY <1>1 DEF Active
<1>3. CASE Now.rest = {} /\ Then(<<>>)
  <2>1. todo' # <<>> => Now'.op = "list"
    BY <1>1, <1>3, DoneHead
  <2>2. \A h : ~Looks(Now, h)
    BY <1>1, <1>3 DEF Looks
  <2>3. \A h : InTodo(h) => InTodo(h)'
    BY <1>1, <1>3, <2>2, TodoThen
  <2> QED
    BY <1>1, <1>2, <2>1, <2>3, ListCurrent
<1>4. ASSUME NEW g \in Now.rest, Then(<<Op("add", g), [Now EXCEPT !.rest = @ \ {g}]>>)
      PROVE  Facts'
  <2> DEFINE a == Op("add", g)
             b == [Now EXCEPT !.rest = @ \ {g}]
  <2>1. Now \in Ops /\ Now.rest \subseteq Monitored /\ Now.rest \subseteq Folders
    BY <1>1, HeadFine DEF Fine
  <2>2. a \in Ops /\ a.op = "add" /\ a.folder = g /\ g \in Monitored
    BY <2>1 DEF Op, Ops
  <2>3. b \in Ops /\ b.op = "list" /\ b.rest = Now.rest \ {g}
    BY <1>1, <2>1 DEF Ops
  <2>4. Then(<<a, b>>)
    BY <1>4
  <2> HIDE DEF a, b
  <2>5. Fine(a) /\ Fine(b)
    BY <2>1, <2>2, <2>3 DEF Fine
  <2>6. Now' = a /\ todo' # <<>>
    BY <1>1, <2>3, <2>4, <2>5, ShapedTwo DEF IInv, Then, Now
  <2>7. ASSUME NEW h, InTodo(h) PROVE InTodo(h)'
    <3>1. Looks(Now, h) => Looks(a, h) \/ Looks(b, h)
      BY <1>1, <2>2, <2>3 DEF Looks
    <3> QED
      BY <1>1, <2>2, <2>3, <2>4, <2>7, <3>1, TodoThen
  <2> QED
    BY <1>1, <1>2, <2>2, <2>6, <2>7, ListCurrent
<1> QED
  BY <1>3, <1>4 DEF List

\* An entry that is not there has no event.
LEMMA Untold ==
    ASSUME IInv, NEW f \in Folders, tracked[f] = None
    PROVE  /\ Quiet(f) /\ \A what : ~Says(f, what)
           /\ \A h : Parent[h] = f => ~Announced(h) /\ \A i \in DOMAIN queue : ~DownAt(i, h)
<1>1. \A w : f \notin Holders(w)
  BY DEF Holders
<1>2. \A i : ~FontsAt(i, f)
  BY <1>1 DEF FontsAt
<1>3. \A h : Parent[h] = f => \A i : ~About(i, h)
  BY <1>1 DEF About
<1> QED
  BY <1>2, <1>3 DEF Quiet, Says, Announced, UpAt, DownAt

LEMMA LookCurrent == ASSUME CurrentInv, Look, Active' PROVE Facts'
<1> DEFINE f == Now.folder
           present == disk[f] = "fonts"
<1>1. /\ todo # <<>> /\ Now.op = "add" /\ tracked[f] = None /\ IInv
      /\ UNCHANGED <<disk, tracked, at, queue, mode, leaked>>
  BY DEF Look, Busy, Now, CurrentInv
<1>2. PICK ok \in BOOLEAN :
        /\ xpath' = PathWith(f, FALSE, present, ok)
        /\ excused' = IF ok THEN excused ELSE excused \cup {f}
        /\ Then(<<[Op("watch", f) EXCEPT !.added = Added(FALSE, present, ok)]>>)
  BY DEF Look
<1> DEFINE a == [Op("watch", f) EXCEPT !.added = Added(FALSE, present, ok)]
<1>3. f \in Monitored /\ f \in Folders /\ present \in BOOLEAN /\ Then(<<a>>)
  BY <1>1, <1>2, HeadFine DEF Fine
<1>4. Active /\ Facts
  BY <1>1 DEF Active, CurrentInv
<1> HIDE DEF f, present
<1>5. a \in Ops /\ a.op = "watch" /\ a.folder = f /\ a.added = Added(FALSE, present, ok)
  BY <1>3 DEF Op, Ops, Added
<1> HIDE DEF a
<1>6. Fine(a)
  BY <1>3, <1>5 DEF Fine
<1>7. Now' = a /\ todo' # <<>> /\ todo'[1] = a
  BY <1>1, <1>3, <1>6, NextFits DEF Now
<1>8. ASSUME NEW h
      PROVE  /\ ~InGap(h) /\ ~Watching(h) /\ ~OnFonts(h) /\ ~OnFonts(h)'
             /\ InGap(h)' <=> h = f
             /\ Watching(h)' <=> h = f /\ a.added
             /\ Looked(h) => Looked(h)'
  <2>1. /\ ~InGap(h) /\ ~Watching(h) /\ ~OnFonts(h) /\ ~OnFonts(h)'
        /\ InGap(h)' <=> h = f
        /\ Watching(h)' <=> h = f /\ a.added
    BY <1>1, <1>5, <1>7 DEF InGap, Watching, OnFonts, Now
  <2> QED
    BY <1>1, <2>1 DEF Looked
<1>9. ASSUME NEW h, InTodo(h) PROVE InTodo(h)' \/ Looked(h)'
  <2>1. CASE Looks(Now, h)
    <3>1. h = f
      BY <1>1, <2>1 DEF Looks, f
    <3> QED
      BY <1>8, <3>1 DEF Looked
  <2>2. CASE ~Looks(Now, h)
    BY <1>1, <1>3, <1>5, <1>9, <2>2, TodoThen
  <2> QED
    BY <2>1, <2>2
<1>10. excused \subseteq excused' /\ Now.op # "remove" /\ Now'.op # "remove"
  BY <1>1, <1>2, <1>5, <1>7
<1>11. DiskTree' /\ Watches' /\ \A h \in Folders : Alone(h)' /\ Kept(h)' /\ Seen(h)'
  BY <1>1, <1>4, <1>8, <1>9, <1>10, TodoCurrent
<1>12. ASSUME NEW h \in Folders PROVE Right(h)' /\ InPath(h)'
  <2>1. Right(h) /\ InPath(h)
    BY <1>4 DEF Facts
  <2>2. /\ Leaving(h)' <=> Leaving(h)
        /\ \A what : Says(h, what)' <=> Says(h, what)
        /\ Quiet(h)' <=> Quiet(h)
    BY <1>1, <1>10, HoldersSame, SameLeaving
  <2>3. CASE h # f
    <3>1. h \notin excused' => h \notin excused
      BY <1>10
    <3>2. h \in xpath' <=> h \in xpath
      BY <1>2, <2>3 DEF PathWith
    <3>3. Agrees(h) => Agrees(h)'
      BY <1>1, <1>8, <2>2, <2>3 DEF Agrees
    <3>4. Looked(h)' => Looked(h)
      BY <1>1, <1>8, <2>3 DEF Looked
    <3> QED
      BY <1>1, <1>8, <2>1, <2>2, <2>3, <3>1, <3>2, <3>3, <3>4 DEF Right, InPath
  <2>4. CASE h = f /\ ~ok
    BY <1>2, <2>4 DEF Right, InPath
  <2>5. CASE h = f /\ ok
    <3>1. a.added = present /\ xpath' = (IF present THEN xpath \cup {f} ELSE xpath) /\ excused' = excused
      BY <1>2, <1>3, <1>5, <2>5 DEF Added, PathWith
    <3>2. Agrees(h)'
      BY <1>1, <1>3, <1>7, <1>8, <2>2, <2>5, <3>1, Untold DEF Agrees, present
    <3>3. InPath(h)'
      BY <1>1, <1>8, <2>1, <2>5, <3>1 DEF InPath
    <3> QED
      BY <2>5, <3>2, <3>3 DEF Right
  <2> QED
    BY <2>3, <2>4, <2>5
<1> QED
  BY <1>11, <1>12 DEF Facts

\* A folder has its watch now; its subfolders will be listed.
LEMMA WatchCurrent == ASSUME CurrentInv, Watch, Active' PROVE Facts'
<1>1. /\ todo # <<>> /\ Now.op = "watch" /\ IInv /\ TypeOK /\ Then(<<Op("open", Now.folder)>>)
      /\ UNCHANGED <<disk, xpath, queue, mode>>
      /\ Now.folder \in Monitored /\ Now.folder \in Folders
      /\ Exists(Now.folder) /\ tracked[Now.folder] = None
  BY WatchIs DEF CurrentInv, IInv
<1>2. PICK f \in Folders : f = Now.folder
  BY <1>1
<1>3. PICK w \in Folders :
        /\ IF On(f) = {} THEN Holders(w) = {} ELSE at[w] = f
        /\ excused' = IF On(f) = {} THEN excused
                      ELSE excused \cup UNION {Below(h) : h \in Holders(w) \cup {f}}
        /\ \A g \in Folders : tracked'[g] = IF g = f THEN [added |-> Now.added, wd |-> w] ELSE tracked[g]
        /\ tracked'[f] # None
        /\ \A v \in Folders : at'[v] = IF v = w THEN f ELSE at[v]
  BY <1>1, <1>2, WatchIs DEF CurrentInv
<1>4. Active /\ Facts /\ DiskTree /\ Watches /\ Now.added \in BOOLEAN /\ f \in Monitored
  BY <1>1, <1>2, HeadFine DEF Active, CurrentInv, Facts
<1> DEFINE a == Op("open", f)
<1>5. a \in Ops /\ a.op = "open" /\ a.folder = f /\ Then(<<a>>)
  BY <1>1, <1>2 DEF Op, Ops
<1> HIDE DEF a
<1>6. Fine(a)
  BY <1>4, <1>5 DEF Fine
<1>7. Now' = a /\ todo' # <<>> /\ todo'[1] = a
  BY <1>1, <1>5, <1>6, NextFits DEF Now
<1>8. ASSUME NEW h
      PROVE  /\ InGap(h) <=> h = f
             /\ Watching(h) <=> h = f /\ Now.added
             /\ ~OnFonts(h) /\ ~Looks(Now, h)
             /\ ~InGap(h)' /\ ~Watching(h)' /\ ~OnFonts(h)'
  BY <1>1, <1>2, <1>5, <1>7 DEF InGap, Watching, OnFonts, Looks, Now
<1>9. /\ tracked'[f].added = Now.added /\ tracked'[f].wd = w
      /\ \A g \in Folders : g # f => tracked'[g] = tracked[g]
      /\ \A v : Holders(v)' = IF v = w THEN Holders(v) \cup {f} ELSE Holders(v)
  <2>1. tracked'[f].added = Now.added /\ tracked'[f].wd = w
    BY <1>3
  <2>2. \A g \in Folders : g # f => tracked'[g] = tracked[g]
    BY <1>3
  <2>3. ASSUME NEW v PROVE Holders(v)' = IF v = w THEN Holders(v) \cup {f} ELSE Holders(v)
    BY <1>1, <1>2, <1>3, <2>1, <2>2 DEF Holders
  <2> QED
    BY <2>1, <2>2, <2>3
<1>10. excused \subseteq excused' /\ \A h \in Folders : Lost(h) => Lost(h)'
  BY <1>3 DEF Lost
<1>11. ASSUME Holders(w) # {} PROVE \A h \in Holders(w) \cup {f} : Lost(h)'
  <2>1. excused' = excused \cup UNION {Below(h) : h \in Holders(w) \cup {f}}
    BY <1>3, <1>11
  <2> QED
    BY <2>1 DEF Lost
<1>12. Watches'
  <2>1. On(f) = {} => at[w] = None
    BY <1>1, <1>3 DEF IInv, Held
  <2>2. \A v \in Folders : at[v] = f => v = w
    <3>1. CASE On(f) = {}
      BY <3>1 DEF On
    <3>2. CASE On(f) # {}
      <4>1. at[w] = f /\ Own(w) /\ f # None
        BY <1>3, <1>4, <3>2, FontAssumption DEF Watches
      <4> QED
        BY <4>1 DEF Own
    <3> QED
      BY <3>1, <3>2
  <2>3. ASSUME NEW v \in Folders PROVE Alive(v)' /\ Own(v)'
    <3>1. Alive(v) /\ Own(v)
      BY <1>4 DEF Watches
    <3>2. Alive(v)'
      BY <1>1, <1>2, <1>3, <3>1 DEF Alive, Exists
    <3>3. Own(v)'
      BY <1>3, <2>2, <3>1 DEF Own
    <3> QED
      BY <3>2, <3>3
  <2> QED
    BY <2>3 DEF Watches
<1>13. ASSUME NEW h \in Folders, h # f PROVE (Told(h)' <=> Told(h)) \/ Lost(h)'
  <2>1. tracked'[h] = tracked[h]
    BY <1>9, <1>13
  <2>2. CASE tracked[h] = None
    BY <2>1, <2>2 DEF Told
  <2>3. CASE tracked[h] # None /\ tracked[h].wd = w
    <3>1. h \in Holders(w)
      BY <2>3 DEF Holders
    <3> QED
      BY <1>11, <3>1
  <2>4. CASE tracked[h] # None /\ tracked[h].wd # w
    <3>1. tracked[h].wd \in Folders
      BY <1>1, <2>4 DEF TypeOK, Entries
    <3> QED
      BY <1>3, <2>1, <2>4, <3>1 DEF Told
  <2> QED
    BY <2>2, <2>3, <2>4
<1>14. Told(f)'
  BY <1>3, <1>9 DEF Told
<1>15. ASSUME NEW h \in Folders, ~Lost(h)'
       PROVE  /\ Leaving(h)' <=> Leaving(h)
              /\ Announced(h)' <=> Announced(h)
              /\ \A what : Says(h, what)' <=> Says(h, what)
              /\ Quiet(h)' <=> Quiet(h)
  <2>1. ASSUME NEW i \in DOMAIN queue
        PROVE  /\ UpAt(i, h)' <=> UpAt(i, h)
               /\ DownAt(i, h)' <=> DownAt(i, h)
               /\ FontsAt(i, h)' <=> FontsAt(i, h)
    <3>1. CASE queue[i].wd # w
      <4>1. Holders(queue[i].wd)' = Holders(queue[i].wd)
        BY <1>1, <1>9, <3>1
      <4> QED
        BY <1>1, <1>9, <3>1 DEF UpAt, DownAt, FontsAt, About
    <3>2. CASE queue[i].wd = w /\ Holders(w) = {}
      <4>1. queue[i].what = "void"
        BY <1>1, <3>2 DEF TypeOK
      <4> QED
        BY <1>1, <4>1 DEF UpAt, DownAt, FontsAt
    <3>3. CASE queue[i].wd = w /\ Holders(w) # {}
      <4>1. h \notin Holders(w) \cup {f}
        BY <1>11, <1>15, <3>3
      <4>2. h \notin Roots => Parent[h] \notin Holders(w) \cup {f}
        <5> SUFFICES ASSUME h \notin Roots, Lost(Parent[h])' PROVE FALSE
          BY <1>11, <3>3
        <5>1. Parent[h] \in Folders /\ h \in Children(Parent[h])
          BY FontAssumption DEF Children
        <5>2. h \in Below(Parent[h])
          BY <5>1, BelowSelf, BelowChild
        <5>3. Below(h) \subseteq Below(Parent[h])
          BY <5>1, <5>2, BelowBelow
        <5> QED
          BY <1>15, <5>3 DEF Lost
      <4>3. Holders(w)' = Holders(w) \cup {f} /\ queue'[i] = queue[i]
        BY <1>1, <1>9
      <4> QED
        BY <3>3, <4>1, <4>2, <1>1, <1>9 DEF UpAt, DownAt, FontsAt, About
    <3> QED
      BY <3>1, <3>2, <3>3
  <2>2. /\ Announced(h)' <=> Announced(h)
        /\ \A what : Says(h, what)' <=> Says(h, what)
        /\ Quiet(h)' <=> Quiet(h)
        /\ (\E i \in DOMAIN queue' : DownAt(i, h)') <=> (\E i \in DOMAIN queue : DownAt(i, h))
    BY <1>1, <2>1, SameEvents
  <2>3. Leaving(h) <=> \E i \in DOMAIN queue : DownAt(i, h)
    BY <1>1, LeavingIs
  <2>4. Leaving(h)' <=> \E i \in DOMAIN queue' : DownAt(i, h)'
    BY <1>5, <1>7 DEF Leaving, DownAt
  <2> QED
    BY <2>2, <2>3, <2>4
<1>16. ASSUME NEW h \in Folders
       PROVE  Looked(h)' <=> Looked(h)
  BY <1>1, <1>2, <1>3, <1>8, <1>9 DEF Looked
<1>17. ASSUME NEW h, InTodo(h) \/ h \in Children(f) PROVE InTodo(h)'
  <2>1. h \in Children(f) => Looks(a, h)
    BY <1>5 DEF Looks
  <2> QED
    BY <1>1, <1>5, <1>8, <1>17, <2>1, TodoThen
<1>18. DiskTree'
  BY <1>1, <1>4 DEF DiskTree, Exists
<1>19. ASSUME NEW h \in Folders PROVE Alone(h)'
  <2> SUFFICES ASSUME NEW g \in Folders, tracked'[h] # None, tracked'[g] # None,
                      tracked'[h].wd = tracked'[g].wd, g # h
               PROVE  Lost(h)'
    BY DEF Alone
  <2>1. CASE h # f /\ g # f
    <3>1. Alone(h) /\ tracked'[h] = tracked[h] /\ tracked'[g] = tracked[g]
      BY <1>4, <1>9, <2>1 DEF Facts
    <3> QED
      BY <1>10, <3>1 DEF Alone
  <2>2. CASE h = f
    <3>1. g \in Holders(w)
      BY <1>9, <2>2 DEF Holders
    <3> QED
      BY <1>11, <2>2, <3>1
  <2>3. CASE g = f
    <3>1. h \in Holders(w)
      BY <1>9, <2>3 DEF Holders
    <3> QED
      BY <1>11, <3>1
  <2> QED
    BY <2>1, <2>2, <2>3
<1>20. ASSUME NEW h \in Folders PROVE Kept(h)'
  <2> SUFFICES ASSUME tracked'[h] # None, ~Leaving(h)', ~Lost(h)', h # f PROVE Told(h)'
    BY <1>14 DEF Kept
  <2>1. tracked[h] # None /\ ~Leaving(h) /\ ~Lost(h) /\ Kept(h)
    BY <1>4, <1>9, <1>10, <1>15 DEF Facts
  <2> QED
    BY <1>13, <2>1 DEF Kept
<1>21. ASSUME NEW h \in Folders PROVE Seen(h)'
  <2> SUFFICES ASSUME h \in Monitored, Exists(h), ~Lost(h)',
                      h \in Roots \/ (Told(Parent[h])' /\ ~Leaving(Parent[h])')
               PROVE  (Looked(h)' /\ ~Leaving(h)') \/ Due(h)'
    BY <1>1 DEF Seen, Exists
  <2>1. Seen(h) /\ Parent[h] \in Folders
    BY <1>4, FontAssumption DEF Facts
  <2>2. h \notin Roots => ~Lost(Parent[h])'
    <3> SUFFICES ASSUME h \notin Roots, Lost(Parent[h])' PROVE FALSE
      OBVIOUS
    <3>1. h \in Children(Parent[h])
      BY DEF Children
    <3>2. h \in Below(Parent[h])
      BY <2>1, <3>1, BelowSelf, BelowChild
    <3>3. Below(h) \subseteq Below(Parent[h])
      BY <2>1, <3>2, BelowBelow
    <3> QED
      BY <3>3 DEF Lost
  <2>3. CASE h \in Roots \/ Parent[h] # f
    <3>1. h \in Roots \/ (Told(Parent[h]) /\ ~Leaving(Parent[h]))
      BY <1>13, <1>15, <2>1, <2>2, <2>3
    <3>2. (Looked(h) /\ ~Leaving(h)) \/ Due(h)
      BY <1>10, <2>1, <3>1 DEF Seen
    <3> QED
      BY <1>15, <1>16, <1>17, <3>2 DEF Due
  <2>4. CASE h \notin Roots /\ Parent[h] = f
    <3>1. h \in Children(f)
      BY <2>4 DEF Children
    <3>2. ~Leaving(h)
      BY <1>1, <1>2, <2>4, Untold, LeavingIs
    <3> QED
      BY <1>15, <1>17, <3>1, <3>2 DEF Due
  <2> QED
    BY <2>3, <2>4
<1>22. ASSUME NEW h \in Folders PROVE Right(h)' /\ InPath(h)'
  <2>1. Right(h) /\ InPath(h)
    BY <1>4 DEF Facts
  <2>2. InPath(h)'
    BY <1>1, <1>2, <1>3, <1>8, <1>9, <1>10, <2>1 DEF InPath
  <2>3. ASSUME Agrees(h), Looked(h), ~Lost(h)' PROVE Agrees(h)'
    <3>1. CASE h = f
      BY <1>1, <1>2, <1>8, <1>9, <1>15, <2>3, <3>1 DEF Agrees
    <3>2. CASE h # f
      BY <1>1, <1>8, <1>9, <1>15, <2>3, <3>2 DEF Agrees
    <3> QED
      BY <3>1, <3>2
  <2>4. Lost(h)' => h \in excused'
    BY BelowSelf DEF Lost
  <2> QED
    BY <1>10, <1>15, <1>16, <2>1, <2>2, <2>3, <2>4 DEF Right
<1> QED
  BY <1>12, <1>18, <1>19, <1>20, <1>21, <1>22 DEF Facts

\* The folder is gone, or it is lost.
LEMMA WatchFailsCurrent == ASSUME CurrentInv, WatchFails, Active' PROVE Facts'
<1>1. /\ todo # <<>> /\ Now.op = "watch" /\ IInv /\ TypeOK /\ tracked[Now.folder] = None
      /\ UNCHANGED <<disk, tracked, at, queue, mode>> /\ Then(<<>>)
  BY DEF WatchFails, Busy, Now, CurrentInv, IInv, HeadFits
<1>2. PICK f \in Folders : f = Now.folder
  BY <1>1, HeadFine
<1>3. Active /\ Facts /\ Now.added \in BOOLEAN
  BY <1>1, HeadFine DEF Active, CurrentInv
<1>4. ASSUME NEW h
      PROVE  /\ InGap(h) <=> h = f
             /\ Watching(h) <=> h = f /\ Now.added
             /\ ~OnFonts(h) /\ ~Looks(Now, h)
  BY <1>1, <1>2 DEF InGap, Watching, OnFonts, Looks, Now
<1>5. PICK ok \in BOOLEAN : Destroy(f, Now.added, ok, IF Exists(f) THEN Below(f) ELSE {})
  BY <1>2 DEF WatchFails
<1>6. /\ xpath' = PathWith(f, Now.added, FALSE, ok)
      /\ excused' = excused \cup (IF Exists(f) THEN Below(f) ELSE {}) \cup (IF ok THEN {} ELSE {f})
  BY <1>5 DEF Destroy
<1>7. todo' # <<>> => Now'.op = "list"
  BY <1>1, DoneHead
<1>8. ASSUME NEW h PROVE ~InGap(h)' /\ ~Watching(h)' /\ ~OnFonts(h)'
  BY <1>7 DEF InGap, Watching, OnFonts, Now
<1>9. ASSUME NEW h PROVE InTodo(h) => InTodo(h)'
  BY <1>1, <1>4, TodoThen
<1>10. ASSUME NEW h, h # f PROVE Looked(h)' <=> Looked(h)
  BY <1>1, <1>4, <1>8, <1>10 DEF Looked
<1>11. Exists(f) => Lost(f)'
  BY <1>6 DEF Lost
<1>12. DiskTree' /\ Watches' /\ \A h \in Folders : Alone(h)' /\ Kept(h)' /\ Seen(h)'
  <2>1. excused \subseteq excused' /\ Now.op # "remove" /\ (todo' # <<>> => Now'.op # "remove")
    BY <1>1, <1>6, <1>7
  <2>2. \A h : Exists(h) /\ Looked(h) => Looked(h)' \/ Lost(h)'
    BY <1>10, <1>11
  <2> QED
    BY <1>1, <1>3, <1>9, <2>1, <2>2, TodoCurrent
<1>13. ASSUME NEW h
       PROVE  /\ Leaving(h)' <=> Leaving(h)
              /\ \A what : Says(h, what)' <=> Says(h, what)
              /\ Quiet(h)' <=> Quiet(h)
  BY <1>1, <1>7, HoldersSame, SameLeaving
<1>14. ASSUME NEW h \in Folders PROVE Right(h)' /\ InPath(h)'
  <2>1. Right(h) /\ InPath(h) /\ (h \notin excused' => h \notin excused)
    BY <1>3, <1>6 DEF Facts
  <2>2. CASE h # f
    <3>1. Agrees(h) => Agrees(h)'
      BY <1>1, <1>4, <1>8, <1>13, <2>2 DEF Agrees
    <3>2. h \in xpath' <=> h \in xpath
      BY <1>6, <2>2 DEF PathWith
    <3> QED
      BY <1>1, <1>4, <1>8, <1>10, <1>13, <2>1, <2>2, <3>1, <3>2 DEF Right, InPath
  <2>3. CASE h = f
    <3>1. ~Looked(h)'
      BY <1>1, <1>2, <1>8, <2>3 DEF Looked
    <3>2. h \notin excused' => h \notin xpath'
      BY <1>1, <1>2, <1>3, <1>4, <1>6, <2>1, <2>3 DEF InPath, PathWith
    <3>3. tracked'[h] = None
      BY <1>1, <1>2, <2>3
    <3> QED
      BY <1>8, <3>1, <3>2, <3>3 DEF Right, InPath
  <2> QED
    BY <2>2, <2>3
<1> QED
  BY <1>12, <1>14 DEF Facts

\* What only the entry's watch has told is for nobody.
LEMMA Voided ==
    ASSUME IInv, Remove, NEW f \in Folders, f = Now.folder, tracked[f] # None
    PROVE  /\ \A h : Leaving(h)' => Leaving(h)
           /\ \A h \in Folders : h # f /\ Leaving(h) /\ ~Leaving(h)' =>
                h \notin Roots /\ Parent[h] = f /\ (tracked[h] # None => Below(h) \subseteq Unheard(f))
           /\ \A h : Announced(h) => h \notin Roots
           /\ \A h : Announced(h) /\ Parent[h] # f => Announced(h)'
           /\ \A h : h # f => \A what : Says(h, what)' => Says(h, what)
           /\ \A h : h # f => (Quiet(h)' => Quiet(h))
<1>1. /\ todo # <<>> /\ Now.op = "remove" /\ Then(<<>>)
      /\ TypeOK /\ Unwatch(f) /\ queue' = Void(f)
  BY DEF Remove, Busy, Now, IInv
<1>2. /\ DOMAIN queue' = DOMAIN queue
      /\ \A i \in DOMAIN queue :
            /\ queue'[i].wd = queue[i].wd /\ queue'[i].name = queue[i].name
            /\ IF Holders(queue[i].wd) = {f} THEN queue'[i].what = "void" ELSE queue'[i] = queue[i]
  BY <1>1, VoidKeeps
<1>3. \A v : Holders(v)' = Holders(v) \ {f}
  BY <1>1, UnwatchIs
<1>4. ~(todo' # <<>> /\ Now'.op = "remove")
  <2>1. Shaped(todo)
    BY DEF IInv
  <2>2. todo' # <<>> => todo'[1].op = "list"
    BY <1>1, <2>1, ShapedDone DEF Then
  <2> QED
    BY <2>2 DEF Now
<1>5. ASSUME NEW i \in DOMAIN queue, NEW h
      PROVE  /\ About(i, h)' <=> About(i, h) /\ Parent[h] # f
             /\ About(i, h) /\ Parent[h] # f => queue'[i] = queue[i]
             /\ h # f => (h \in Holders(queue[i].wd)' <=> h \in Holders(queue[i].wd))
             /\ h # f /\ h \in Holders(queue[i].wd) => queue'[i] = queue[i]
  <2>1. Holders(queue[i].wd)' = Holders(queue[i].wd) \ {f}
    <3>1. queue'[i].wd = queue[i].wd
      BY <1>2
    <3> QED
      BY <1>3, <3>1
  <2> QED
    BY <1>2, <1>3, <2>1 DEF About
<1>6. ASSUME NEW i \in DOMAIN queue, NEW h
      PROVE  /\ DownAt(i, h)' => DownAt(i, h)
             /\ Parent[h] # f => (DownAt(i, h)' <=> DownAt(i, h)) /\ (UpAt(i, h)' <=> UpAt(i, h))
             /\ h # f => (FontsAt(i, h)' <=> FontsAt(i, h))
             /\ h # f /\ FontsAt(i, h) => queue'[i].what = queue[i].what
  BY <1>5 DEF DownAt, UpAt, FontsAt
<1>7. ASSUME NEW h PROVE Leaving(h)' <=> \E i \in DOMAIN queue : DownAt(i, h)'
  BY <1>2, <1>4 DEF Leaving, DownAt, Now
<1>8. ASSUME NEW h, Leaving(h)' PROVE Leaving(h)
  BY <1>6, <1>7, <1>8, LeavingIs
<1>9. ASSUME NEW h \in Folders, h # f, Leaving(h), ~Leaving(h)'
      PROVE  h \notin Roots /\ Parent[h] = f /\ (tracked[h] # None => Below(h) \subseteq Unheard(f))
  <2>1. PICK i \in DOMAIN queue : DownAt(i, h)
    BY <1>9, LeavingIs
  <2>2. Parent[h] = f /\ h \notin Roots
    BY <1>6, <1>7, <1>9, <2>1 DEF DownAt, About
  <2>3. ASSUME tracked[h] # None PROVE Below(h) \subseteq Unheard(f)
    <3>1. h \in Children(f)
      BY <2>2 DEF Children
    <3>2. queue[i].what = "down" /\ About(i, h)
      BY <2>1 DEF DownAt
    <3> QED
      BY <2>3, <3>1, <3>2 DEF Unheard
  <2> QED
    BY <2>2, <2>3
<1>10. ASSUME NEW h, Announced(h) PROVE h \notin Roots
  BY <1>10 DEF Announced, UpAt, About
<1>11. ASSUME NEW h, Announced(h), Parent[h] # f PROVE Announced(h)'
  BY <1>2, <1>6, <1>11 DEF Announced
<1>12. ASSUME NEW h, h # f, NEW what, Says(h, what)' PROVE Says(h, what)
  BY <1>2, <1>6, <1>12 DEF Says
<1>13. ASSUME NEW h, h # f, Quiet(h)' PROVE Quiet(h)
  BY <1>2, <1>6, <1>13 DEF Quiet
<1> QED
  BY <1>8, <1>9, <1>10, <1>11, <1>12, <1>13

\* What is removed has its next event to come, or has gone.
LEMMA RemoveCurrent == ASSUME CurrentInv, Remove, Active' PROVE Facts'
<1>1. /\ todo # <<>> /\ Now.op = "remove" /\ Then(<<>>) /\ IInv /\ TypeOK
      /\ UNCHANGED <<disk, mode>>
  BY DEF Remove, Busy, Now, CurrentInv, IInv
<1>2. PICK f \in Folders : f = Now.folder
  BY <1>1, HeadFine
<1>3. Active /\ Facts /\ DiskTree /\ Watches
  BY <1>1 DEF Active, CurrentInv, Facts
<1>4. todo' # <<>> => Now'.op = "list"
  BY <1>1, DoneHead
<1>5. ASSUME NEW h
      PROVE  /\ ~InGap(h) /\ ~InGap(h)' /\ ~Watching(h) /\ ~Watching(h)' /\ ~OnFonts(h) /\ ~OnFonts(h)'
             /\ InTodo(h) => InTodo(h)'
             /\ Exists(h)' <=> Exists(h)
  <2>1. ~Looks(Now, h)
    BY <1>1 DEF Looks
  <2>2. /\ ~InGap(h) /\ ~InGap(h)' /\ ~Watching(h) /\ ~Watching(h)' /\ ~OnFonts(h) /\ ~OnFonts(h)'
        /\ Exists(h)' <=> Exists(h)
    BY <1>1, <1>4 DEF InGap, Watching, OnFonts, Now, Exists
  <2> QED
    BY <1>1, <2>1, <2>2, TodoThen
<1>6. Leaving(f)
  BY <1>1, <1>2, LeavingIs
<1>7. DiskTree'
  BY <1>3, <1>5, FontAssumption DEF DiskTree
<1>8. CASE tracked[f] = None
  <2>1. UNCHANGED <<xpath, tracked, at, queue, excused>>
    BY <1>2, <1>8 DEF Remove
  <2>2. \A w : Holders(w)' = Holders(w)
    BY <2>1, HoldersSame
  <2>3. ASSUME NEW h
        PROVE  /\ Announced(h)' <=> Announced(h)
               /\ \A what : Says(h, what)' <=> Says(h, what)
               /\ Quiet(h)' <=> Quiet(h)
               /\ Leaving(h)' => Leaving(h)
               /\ h # f => (Leaving(h)' <=> Leaving(h))
    <3>1. ASSUME NEW i \in DOMAIN queue
          PROVE  /\ UpAt(i, h)' <=> UpAt(i, h)
                 /\ DownAt(i, h)' <=> DownAt(i, h)
                 /\ FontsAt(i, h)' <=> FontsAt(i, h)
      BY <2>1, <2>2 DEF UpAt, DownAt, FontsAt, About
    <3>2. /\ Announced(h)' <=> Announced(h)
          /\ \A what : Says(h, what)' <=> Says(h, what)
          /\ Quiet(h)' <=> Quiet(h)
          /\ (\E i \in DOMAIN queue' : DownAt(i, h)') <=> (\E i \in DOMAIN queue : DownAt(i, h))
      BY <2>1, <3>1, SameEvents
    <3>3. Leaving(h)' <=> \E i \in DOMAIN queue' : DownAt(i, h)'
      BY <1>4 DEF Leaving, DownAt, Now
    <3> QED
      BY <1>1, <1>2, <3>2, <3>3, LeavingIs
  <2>4. Watches'
    BY <1>1, <1>3, <2>1 DEF Watches, Alive, Own, Exists
  <2>5. ASSUME NEW h \in Folders PROVE Alone(h)' /\ Kept(h)' /\ Seen(h)' /\ Right(h)' /\ InPath(h)'
    <3>1. Alone(h) /\ Kept(h) /\ Seen(h) /\ Right(h) /\ InPath(h) /\ (Lost(h) <=> Lost(h)')
      BY <1>3, <2>1 DEF Facts, Lost
    <3>2. /\ Told(h)' <=> Told(h)
          /\ Looked(h)' <=> Looked(h)
          /\ Told(Parent[h])' <=> Told(Parent[h])
          /\ Looked(h) => h # f
          /\ Told(Parent[h]) => Parent[h] # f
      BY <1>5, <1>8, <2>1 DEF Told, Looked
    <3>3. Alone(h)' /\ Kept(h)'
      BY <1>8, <2>1, <2>3, <3>1, <3>2 DEF Alone, Kept
    <3>4. Seen(h)'
      BY <1>5, <2>1, <2>3, <3>1, <3>2 DEF Seen, Due
    <3>5. Agrees(h) => Agrees(h)'
      BY <1>1, <1>5, <2>1, <2>3 DEF Agrees
    <3>6. Right(h)' /\ InPath(h)'
      BY <1>5, <2>1, <2>3, <3>1, <3>2, <3>5 DEF Right, InPath
    <3> QED
      BY <3>3, <3>4, <3>6
  <2> QED
    BY <1>7, <2>4, <2>5 DEF Facts
<1>9. CASE tracked[f] # None
  <2>1. PICK ok \in BOOLEAN : Destroy(f, tracked[f].added, ok, Unheard(f))
    BY <1>2, <1>9 DEF Remove
  <2>2. Unwatch(f)
    BY <1>2, <1>9 DEF Remove
  <2>3. /\ xpath' = PathWith(f, tracked[f].added, FALSE, ok)
        /\ excused' = excused \cup Unheard(f) \cup (IF ok THEN {} ELSE {f})
    BY <2>1 DEF Destroy
  <2>4. /\ \A g \in Folders : tracked'[g] = IF g = f THEN None ELSE tracked[g]
        /\ \A v \in Folders : at'[v] = IF v = tracked[f].wd THEN None ELSE at[v]
        /\ \A g \in Folders : tracked[g] # None => tracked[g].wd \in Folders
    BY <1>1, <1>9, <2>2, UnwatchIs DEF TypeOK, Entries
  <2>5. /\ \A h : Leaving(h)' => Leaving(h)
        /\ \A h \in Folders : h # f /\ Leaving(h) /\ ~Leaving(h)' =>
             h \notin Roots /\ Parent[h] = f /\ (tracked[h] # None => Below(h) \subseteq Unheard(f))
        /\ \A h : Announced(h) => h \notin Roots
        /\ \A h : Announced(h) /\ Parent[h] # f => Announced(h)'
        /\ \A h : h # f => \A what : Says(h, what)' => Says(h, what)
        /\ \A h : h # f => (Quiet(h)' => Quiet(h))
    BY <1>1, <1>2, <1>9, Voided
  <2>6. excused \subseteq excused' /\ Unheard(f) \subseteq excused'
    BY <2>3
  <2>7. ASSUME NEW h \in Folders
        PROVE  /\ Told(h)' => Told(h) /\ h # f
               /\ Looked(h)' <=> Looked(h) /\ h # f
    <3>1. Looked(h)' <=> Looked(h) /\ h # f
      BY <1>5, <2>4 DEF Looked
    <3>2. h # None
      BY FontAssumption
    <3>3. Told(h)' => Told(h) /\ h # f
      BY <2>4, <3>2 DEF Told
    <3> QED
      BY <3>1, <3>3
  <2>8. ASSUME NEW h \in Folders, h # f, tracked[h] # None, Leaving(h), ~Leaving(h)' PROVE Lost(h)'
    <3>1. Below(h) \subseteq Unheard(f)
      BY <2>5, <2>8
    <3> QED
      BY <2>6, <3>1 DEF Lost
  <2>9. Watches'
    <3> SUFFICES ASSUME NEW w \in Folders PROVE Alive(w)' /\ Own(w)'
      BY DEF Watches
    <3>1. Alive(w) /\ Own(w)
      BY <1>3 DEF Watches
    <3>2. Alive(w)'
      BY <1>1, <2>4, <3>1 DEF Alive, Exists
    <3>3. Own(w)'
      BY <2>4, <3>1 DEF Own
    <3> QED
      BY <3>2, <3>3
  <2>10. ASSUME NEW h \in Folders PROVE Alone(h)' /\ Kept(h)'
    <3>1. Alone(h) /\ Kept(h) /\ (Lost(h) => Lost(h)')
      BY <1>3, <2>6, LostStays DEF Facts
    <3>2. Alone(h)'
      BY <2>4, <3>1 DEF Alone
    <3>3. Kept(h)'
      <4> SUFFICES ASSUME tracked'[h] # None, ~Leaving(h)', ~Lost(h)' PROVE Told(h)'
        BY DEF Kept
      <4>1. h # f /\ tracked'[h] = tracked[h]
        BY <2>4
      <4>2. ~Leaving(h)
        BY <2>8, <4>1
      <4>3. Told(h)
        BY <3>1, <4>1, <4>2 DEF Kept
      <4>4. tracked[h].wd # tracked[f].wd
        BY <1>9, <3>1, <4>1 DEF Alone
      <4> QED
        BY <2>4, <4>1, <4>3, <4>4 DEF Told
    <3> QED
      BY <3>2, <3>3
  <2>11. ASSUME NEW h \in Folders PROVE Seen(h)'
    <3> SUFFICES ASSUME h \in Monitored, Exists(h), ~Lost(h)',
                        h \in Roots \/ (Told(Parent[h])' /\ ~Leaving(Parent[h])')
                 PROVE  (Looked(h)' /\ ~Leaving(h)') \/ Due(h)'
      BY <1>5 DEF Seen
    <3>1. Seen(h) /\ Parent[h] \in Folders /\ ~Lost(h)
      BY <1>3, <2>6, FontAssumption, LostStays DEF Facts
    <3>2. h \in Roots \/ (Told(Parent[h]) /\ Parent[h] # f)
      BY <2>7, <3>1
    <3>3. h \in Roots \/ ~Leaving(Parent[h])
      <4> SUFFICES ASSUME h \notin Roots, Leaving(Parent[h]) PROVE FALSE
        OBVIOUS
      <4>1. tracked[Parent[h]] # None
        BY <3>2 DEF Told
      <4>2. Lost(Parent[h])'
        BY <2>8, <3>1, <3>2, <4>1
      <4>3. h \in Children(Parent[h])
        BY DEF Children
      <4>4. h \in Below(Parent[h])
        BY <3>1, <4>3, BelowSelf, BelowChild
      <4>5. Below(h) \subseteq Below(Parent[h])
        BY <3>1, <4>4, BelowBelow
      <4> QED
        BY <4>2, <4>5 DEF Lost
    <3>4. (Looked(h) /\ ~Leaving(h)) \/ Due(h)
      BY <3>1, <3>2, <3>3 DEF Seen
    <3>5. CASE Looked(h) /\ ~Leaving(h)
      <4>1. h # f /\ ~Leaving(h)'
        BY <1>6, <2>5, <3>5
      <4> QED
        BY <2>7, <3>5, <4>1
    <3>6. CASE Announced(h)
      BY <2>5, <3>2, <3>6 DEF Due
    <3>7. CASE ~Leaving(h) /\ InTodo(h)
      <4>1. ~Leaving(h)'
        BY <2>5, <3>7
      <4> QED
        BY <1>5, <3>7, <4>1 DEF Due
    <3> QED
      BY <3>4, <3>5, <3>6, <3>7 DEF Due
  <2>12. ASSUME NEW h \in Folders PROVE Right(h)'
    <3> SUFFICES ASSUME h \notin excused', Looked(h)', ~Leaving(h)' PROVE Agrees(h)'
      BY DEF Right
    <3>1. Looked(h) /\ h # f /\ h \notin excused /\ tracked'[h] = tracked[h]
      BY <2>4, <2>6, <2>7
    <3>2. ~Leaving(h)
      <4> SUFFICES ASSUME Leaving(h) PROVE FALSE
        OBVIOUS
      <4>1. tracked[h] # None
        BY <1>5, <3>1 DEF Looked
      <4>2. Lost(h)'
        BY <2>8, <3>1, <4>1
      <4> QED
        BY <4>2, BelowSelf DEF Lost
    <3>3. Agrees(h)
      BY <1>3, <3>1, <3>2 DEF Facts, Right
    <3> QED
      BY <1>1, <1>5, <2>5, <3>1, <3>3 DEF Agrees
  <2>13. ASSUME NEW h \in Folders PROVE InPath(h)'
    <3>1. InPath(h) /\ (h \notin excused' => h \notin excused)
      BY <1>3, <2>6 DEF Facts
    <3>2. CASE h # f
      <4>1. h \in xpath' <=> h \in xpath
        BY <2>3, <3>2 DEF PathWith
      <4> QED
        BY <1>5, <2>4, <3>1, <3>2, <4>1 DEF InPath
    <3>3. CASE h = f
      <4>1. h \notin excused' => h \notin xpath'
        BY <1>5, <1>9, <2>3, <3>1, <3>3 DEF InPath, PathWith
      <4> QED
        BY <1>5, <2>4, <3>3, <4>1 DEF InPath
    <3> QED
      BY <3>2, <3>3
  <2> QED
    BY <1>7, <2>9, <2>10, <2>11, <2>12, <2>13 DEF Facts
<1> QED
  BY <1>8, <1>9

LEMMA FontsDirCurrent == ASSUME CurrentInv, HandleFontsDirEvent, Active' PROVE Facts'
<1>1. /\ todo # <<>> /\ Now.op \in {"fontsUp", "fontsDown"} /\ Then(<<>>) /\ IInv /\ TypeOK
      /\ UNCHANGED <<disk, at, queue, mode>>
      /\ tracked[Now.folder] # None
  BY DEF HandleFontsDirEvent, Busy, Now, CurrentInv, IInv, HeadFits
<1>2. PICK f \in Folders : f = Now.folder
  BY <1>1, HeadFine
<1>3. PICK add \in BOOLEAN : add <=> Now.op = "fontsUp"
  OBVIOUS
<1>4. PICK ok \in BOOLEAN : FontsDir(Now.op = "fontsUp", ok)
  BY DEF HandleFontsDirEvent
<1>5. Active /\ Facts
  BY <1>1 DEF Active, CurrentInv
<1>6. todo' # <<>> => Now'.op = "list"
  BY <1>1, DoneHead
<1> DEFINE was == tracked[f].added
<1>8. /\ tracked[f] \in Entries /\ tracked[f] # None /\ was \in BOOLEAN
  <2>1. tracked[f] \in Entries /\ tracked[f] # None
    BY <1>1, <1>2 DEF TypeOK
  <2> QED
    BY <2>1 DEF Entries
<1>9. PICK now \in BOOLEAN :
        /\ \A g \in Folders : /\ tracked'[g] = None <=> tracked[g] = None
                              /\ tracked[g] # None => tracked'[g].wd = tracked[g].wd
                              /\ g # f => tracked'[g] = tracked[g]
        /\ tracked'[f].added = now
        /\ excused \subseteq excused'
        /\ f \notin excused' => (now = IF add /\ disk[f] # "fonts" THEN was ELSE add)
        /\ \A g : g # f => (g \in xpath' <=> g \in xpath)
        /\ f \notin excused' => (f \in xpath' <=> IF now = was THEN f \in xpath ELSE now)
  <2>1. CASE add /\ disk[f] # "fonts"
    <3>1. UNCHANGED <<xpath, tracked, excused>>
      BY <1>2, <1>3, <1>4, <2>1 DEF FontsDir
    <3> QED
      BY <1>8, <2>1, <3>1
  <2>2. CASE ~(add /\ disk[f] # "fonts")
    <3>1. /\ xpath' = PathWith(f, was, add, ok)
          /\ tracked' = [tracked EXCEPT ![f].added = Added(was, add, ok)]
          /\ excused' = IF ok THEN excused ELSE excused \cup {f}
      <4>1. (Now.op = "fontsUp") = add
        BY <1>3
      <4> QED
        BY <1>2, <1>4, <2>2, <4>1 DEF FontsDir
    <3> DEFINE now == Added(was, add, ok)
    <3>2. now \in BOOLEAN /\ now = IF ok THEN add ELSE was
      BY <1>8 DEF Added
    <3>3. xpath' = IF was = add \/ ~ok THEN xpath ELSE IF add THEN xpath \cup {f} ELSE xpath \ {f}
      BY <3>1 DEF PathWith
    <3> HIDE DEF now
    <3>4. /\ [tracked[f] EXCEPT !.added = now] \in Entries
          /\ [tracked[f] EXCEPT !.added = now].added = now
          /\ [tracked[f] EXCEPT !.added = now].wd = tracked[f].wd
      BY <1>8, <3>2 DEF Entries
    <3>5. \A g \in Folders : tracked'[g] = IF g = f THEN [tracked[f] EXCEPT !.added = now] ELSE tracked[g]
      BY <1>1, <3>1 DEF TypeOK, now
    <3>6. /\ \A g \in Folders : /\ tracked'[g] = None <=> tracked[g] = None
                                /\ tracked[g] # None => tracked'[g].wd = tracked[g].wd
                                /\ g # f => tracked'[g] = tracked[g]
          /\ tracked'[f].added = now
      BY <1>8, <3>4, <3>5, NoneIsNoEntry
    <3>7. /\ excused \subseteq excused'
          /\ f \notin excused' => now = add
          /\ f \notin excused' => ok
      BY <3>1, <3>2
    <3>8. f \notin excused' => (f \in xpath' <=> IF now = was THEN f \in xpath ELSE now)
      BY <1>8, <3>2, <3>3, <3>7
    <3>9. \A g : g # f => (g \in xpath' <=> g \in xpath)
      BY <3>3
    <3> QED
      BY <2>2, <3>2, <3>6, <3>7, <3>8, <3>9
  <2> QED
    BY <2>1, <2>2
<1> HIDE DEF was
<1>10. ASSUME NEW h
       PROVE  /\ ~InGap(h) /\ ~InGap(h)' /\ ~Watching(h) /\ ~Watching(h)'
              /\ OnFonts(h) <=> h = f
              /\ ~OnFonts(h)'
              /\ InTodo(h) => InTodo(h)'
              /\ Exists(h)' <=> Exists(h)
  <2>1. ~Looks(Now, h)
    BY <1>1 DEF Looks
  <2>2. /\ ~InGap(h) /\ ~InGap(h)' /\ ~Watching(h) /\ ~Watching(h)'
        /\ OnFonts(h) <=> h = f
        /\ ~OnFonts(h)'
        /\ Exists(h)' <=> Exists(h)
    BY <1>1, <1>2, <1>6 DEF InGap, Watching, OnFonts, Now, Exists
  <2> QED
    BY <1>1, <2>1, <2>2, TodoThen
<1>11. ASSUME NEW h
       PROVE  /\ Leaving(h)' <=> Leaving(h)
              /\ \A what : Says(h, what)' <=> Says(h, what)
              /\ Quiet(h)' <=> Quiet(h)
  <2>1. \A w : Holders(w)' = Holders(w)
    BY <1>9 DEF Holders
  <2> QED
    BY <1>1, <1>6, <2>1, SameLeaving
<1>12. ASSUME NEW h \in Folders PROVE Looked(h)' <=> Looked(h)
  BY <1>9, <1>10 DEF Looked
<1>13. DiskTree' /\ Watches' /\ \A h \in Folders : Alone(h)' /\ Kept(h)' /\ Seen(h)'
  <2>1. \A h \in Monitored : h \in Folders
    BY DEF Monitored
  <2> QED
    BY <1>1, <1>5, <1>6, <1>9, <1>10, <1>12, <2>1, TodoCurrent
<1>14. ASSUME NEW h \in Folders PROVE Right(h)'
  <2> SUFFICES ASSUME h \notin excused', Looked(h)', ~Leaving(h)' PROVE Agrees(h)'
    BY DEF Right
  <2>1. Agrees(h)
    BY <1>5, <1>9, <1>11, <1>12 DEF Facts, Right
  <2>2. CASE h # f
    BY <1>1, <1>9, <1>10, <1>11, <2>1, <2>2 DEF Agrees
  <2>3. CASE h = f
    <3>1. ASSUME Quiet(f) PROVE tracked'[f].added <=> disk[f] = "fonts"
      <4>1. add <=> disk[f] = "fonts"
        BY <1>3, <1>10, <2>1, <2>3, <3>1 DEF Agrees
      <4> QED
        BY <1>9, <2>3, <4>1
    <3> QED
      BY <1>1, <1>10, <1>11, <2>1, <2>3, <3>1 DEF Agrees
  <2> QED
    BY <2>2, <2>3
<1>15. ASSUME NEW h \in Folders PROVE InPath(h)'
  <2> SUFFICES ASSUME h \notin excused' PROVE h \in xpath' <=> (tracked'[h] # None /\ tracked'[h].added)
    BY <1>10 DEF InPath
  <2>1. h \in xpath <=> (tracked[h] # None /\ tracked[h].added)
    BY <1>5, <1>9, <1>10 DEF Facts, InPath
  <2>2. CASE h # f
    BY <1>9, <2>1, <2>2
  <2>3. CASE h = f
    BY <1>8, <1>9, <2>1, <2>3 DEF was
  <2> QED
    BY <2>2, <2>3
<1> QED
  BY <1>13, <1>14, <1>15 DEF Facts

\* An event is handled for the one that it is of, but for those that are lost
\* since they share its watch.
LEMMA Dispatched ==
    ASSUME IInv, Read, \A h \in Folders : Alone(h), NEW h \in Folders
    PROVE  /\ DownAt(1, h) => (todo' # <<>> /\ Now'.op = "remove" /\ Now'.folder = h) \/ Lost(h)
           /\ todo' # <<>> /\ Now'.op = "remove" /\ Now'.folder = h => DownAt(1, h)
           /\ UpAt(1, h) /\ h \in Monitored => todo' = <<Op("add", h)>> \/ Lost(h)
           /\ FontsAt(1, h) => (OnFonts(h)' /\ Now'.op = queue[1].what) \/ Lost(h)
           /\ OnFonts(h)' => FontsAt(1, h) /\ Now'.op = queue[1].what
           /\ todo' # <<>> => Now'.op # "watch"
<1> DEFINE e == queue[1]
<1>1. e \in Events /\ Handle(e)
  BY DEF IInv, TypeOK, Read
<1> HIDE DEF e
<1>2. e.what \in {"up", "down", "fontsUp", "fontsDown", "void"}
  BY <1>1 DEF Events
<1>3. CASE e.what = "void"
  <2>1. todo' = <<>>
    BY <1>1, <1>3 DEF Handle
  <2> QED
    BY <1>3, <2>1 DEF DownAt, UpAt, FontsAt, OnFonts, e
<1>4. CASE e.what # "void"
  <2>1. PICK f \in Holders(e.wd) :
            IF Handler(e, f) = {} THEN todo' = <<>> ELSE todo' \in Handler(e, f)
    BY <1>1, <1>4 DEF Handle
  <2>2. f \in Folders
    BY <2>1 DEF Holders
  <2>3. ASSUME About(1, h) PROVE h \in Kids(f, e.name) \/ Lost(h)
    <3>1. h \notin Roots /\ Parent[h] \in Folders /\ Parent[h] \in Holders(e.wd) /\ Name[h] = e.name
      BY <2>3, FontAssumption DEF About, e
    <3>2. CASE f = Parent[h]
      BY <3>1, <3>2 DEF Kids, Children
    <3>3. CASE f # Parent[h]
      <4>1. Lost(Parent[h])
        BY <2>1, <3>1, <3>3, AloneHolder
      <4> QED
        BY <3>1, <4>1, LostChild
    <3> QED
      BY <3>2, <3>3
  <2>4. ASSUME NEW g \in Kids(f, e.name) PROVE About(1, g) /\ g \in Folders
    BY <2>1 DEF About, Kids, Children, e
  <2>5. ASSUME NEW g \in Kids(f, e.name), h \in Kids(f, e.name) PROVE g = h
    <3>1. /\ g \in Folders /\ h \in Folders /\ Parent[g] = f /\ Parent[h] = f
          /\ Name[g] = Name[h] /\ g \notin Roots /\ h \notin Roots
      BY <2>5 DEF Kids, Children
    <3>2. Parent[g] # g /\ Parent[h] # h
      BY <3>1 DEF Roots
    <3> QED
      BY <3>1, <3>2, FontAssumption
  <2>6. CASE e.what = "down"
    <3>1. Handler(e, f) = {<<Op("remove", g)>> : g \in Kids(f, e.name)}
      BY <2>6 DEF Handler
    <3>2. ASSUME todo' # <<>>
          PROVE  \E g \in Kids(f, e.name) : Now'.op = "remove" /\ Now'.folder = g
      <4>1. PICK g \in Kids(f, e.name) : todo' = <<Op("remove", g)>>
        BY <2>1, <3>1, <3>2
      <4>2. todo'[1] = Op("remove", g)
        BY <4>1
      <4> QED
        BY <4>2 DEF Now, Op
    <3>3. ~UpAt(1, h) /\ ~FontsAt(1, h) /\ ~OnFonts(h)'
      BY <2>6, <3>2 DEF UpAt, FontsAt, OnFonts, Now, e
    <3>4. ASSUME DownAt(1, h), ~Lost(h) PROVE todo' # <<>> /\ Now'.op = "remove" /\ Now'.folder = h
      <4>1. h \in Kids(f, e.name)
        BY <2>3, <3>4 DEF DownAt
      <4>2. Handler(e, f) # {}
        BY <3>1, <4>1
      <4>3. PICK g \in Kids(f, e.name) : todo' = <<Op("remove", g)>>
        BY <2>1, <3>1, <4>2
      <4>4. todo' # <<>>
        BY <4>3
      <4> QED
        BY <2>5, <3>2, <4>1, <4>4
    <3>5. ASSUME todo' # <<>>, Now'.folder = h PROVE DownAt(1, h)
      BY <2>4, <2>6, <3>2, <3>5 DEF DownAt, e
    <3> QED
      BY <3>2, <3>3, <3>4, <3>5
  <2>7. CASE e.what = "up"
    <3>1. Handler(e, f) = {<<Op("add", g)>> : g \in {g \in Kids(f, e.name) : ~Ignored(g)}}
      BY <2>7 DEF Handler
    <3>2. ASSUME todo' # <<>>
          PROVE  \E g \in Kids(f, e.name) : todo' = <<Op("add", g)>> /\ Now'.op = "add"
      <4>1. PICK g \in Kids(f, e.name) : todo' = <<Op("add", g)>>
        BY <2>1, <3>1, <3>2
      <4>2. todo'[1] = Op("add", g)
        BY <4>1
      <4> QED
        BY <4>1, <4>2 DEF Now, Op
    <3>3. ~DownAt(1, h) /\ ~FontsAt(1, h) /\ ~OnFonts(h)'
      BY <2>7, <3>2 DEF DownAt, FontsAt, OnFonts, Now, e
    <3>4. ASSUME UpAt(1, h), h \in Monitored, ~Lost(h) PROVE todo' = <<Op("add", h)>>
      <4>1. h \in Kids(f, e.name)
        BY <2>3, <3>4 DEF UpAt
      <4>2. ~Ignored(h)
        BY <3>4, BelowSelf DEF Monitored
      <4>3. Handler(e, f) # {}
        BY <3>1, <4>1, <4>2
      <4>4. PICK g \in Kids(f, e.name) : todo' = <<Op("add", g)>>
        BY <2>1, <3>1, <4>3
      <4> QED
        BY <2>5, <4>1, <4>4
    <3> QED
      BY <3>2, <3>3, <3>4
  <2>8. CASE e.what \in {"fontsUp", "fontsDown"}
    <3>1. Handler(e, f) = {<<Op(e.what, f)>>}
      BY <2>8 DEF Handler
    <3>2. todo' = <<Op(e.what, f)>>
      BY <2>1, <3>1
    <3>3. todo' # <<>> /\ todo'[1] = Op(e.what, f)
      BY <3>2
    <3>4. Now'.op = e.what /\ Now'.folder = f
      BY <3>3 DEF Now, Op
    <3>5. ~UpAt(1, h) /\ ~DownAt(1, h)
      BY <2>8 DEF UpAt, DownAt, e
    <3>6. OnFonts(h)' <=> h = f
      BY <2>8, <3>3, <3>4 DEF OnFonts, Now
    <3>7. FontsAt(1, f)
      BY <2>1, <2>8 DEF FontsAt, e
    <3>8. ASSUME FontsAt(1, h), h # f PROVE Lost(h)
      BY <2>1, <2>2, <3>8, AloneHolder DEF FontsAt, e
    <3> QED
      BY <2>8, <3>4, <3>5, <3>6, <3>7, <3>8 DEF e
  <2> QED
    BY <1>2, <1>4, <2>6, <2>7, <2>8
<1> QED
  BY <1>3, <1>4

\* What is handled is no longer to come.
LEMMA Taken ==
    ASSUME IInv, Read, \A h \in Folders : Alone(h)
    PROVE  /\ \A h \in Folders : Leaving(h)' => Leaving(h)
           /\ \A h \in Folders : Leaving(h) => Leaving(h)' \/ Lost(h)
           /\ \A h \in Folders : h \in Monitored /\ Due(h) => Due(h)' \/ Lost(h)
           /\ \A h : ~InGap(h) /\ ~InGap(h)' /\ ~Watching(h) /\ ~Watching(h)' /\ ~OnFonts(h)
           /\ \A f \in Folders : \A what : Says(f, what)' => Says(f, what)
           /\ \A f \in Folders : Quiet(f)' /\ ~OnFonts(f)' => Quiet(f) \/ Lost(f)
           /\ \A f \in Folders : Quiet(f)' /\ OnFonts(f)' => Says(f, Now.op')
<1> DEFINE n == Len(queue)
<1>1. /\ n \in Nat /\ n > 0 /\ DOMAIN queue = 1 .. n /\ DOMAIN queue' = 1 .. n - 1
      /\ \A i \in 1 .. n - 1 : queue'[i] = queue[i + 1]
  BY DEF IInv, TypeOK, Read
<1>2. todo = <<>> /\ UNCHANGED tracked
  BY DEF Read
<1>3. 1 \in 1 .. n /\ \A i \in 2 .. n : i - 1 \in 1 .. n - 1 /\ i = (i - 1) + 1
  BY <1>1
<1>4. \A i \in 1 .. n - 1 : i + 1 \in 1 .. n /\ i + 1 \in 2 .. n /\ i + 1 > 1
  BY <1>1
<1>5. \A i \in 1 .. n : i = 1 \/ i \in 2 .. n
  BY <1>1
<1>6. \A i, j \in 1 .. n : i > j <=> i + 1 > j + 1
  BY <1>1
<1> HIDE DEF n
<1>7. \A w : Holders(w)' = Holders(w)
  BY <1>2, HoldersSame
<1>8. ASSUME NEW h, NEW i \in 1 .. n - 1
      PROVE  /\ UpAt(i, h)' <=> UpAt(i + 1, h)
             /\ DownAt(i, h)' <=> DownAt(i + 1, h)
             /\ FontsAt(i, h)' <=> FontsAt(i + 1, h)
  BY <1>1, <1>7 DEF UpAt, DownAt, FontsAt, About
<1>9. ASSUME NEW h \in Folders
      PROVE  /\ Leaving(h)' => Leaving(h)
             /\ Leaving(h) => Leaving(h)' \/ Lost(h)
  <2>1. Leaving(h) <=> \E i \in 1 .. n : DownAt(i, h)
    BY <1>1, <1>2, LeavingIs
  <2>2. Leaving(h)' <=> \/ todo' # <<>> /\ Now'.op = "remove" /\ Now'.folder = h
                        \/ \E i \in 1 .. n - 1 : DownAt(i, h)'
    BY <1>1 DEF Leaving, DownAt, Now
  <2>3. (\E i \in 1 .. n - 1 : DownAt(i, h)') <=> \E i \in 2 .. n : DownAt(i, h)
    <3>1. ASSUME NEW i \in 1 .. n - 1, DownAt(i, h)' PROVE \E j \in 2 .. n : DownAt(j, h)
      BY <1>4, <1>8, <3>1
    <3>2. ASSUME NEW i \in 2 .. n, DownAt(i, h) PROVE \E j \in 1 .. n - 1 : DownAt(j, h)'
      <4>1. PICK j \in 1 .. n - 1 : j + 1 = i
        BY <1>3
      <4> QED
        BY <1>8, <3>2, <4>1
    <3> QED
      BY <3>1, <3>2
  <2>4. /\ DownAt(1, h) => (todo' # <<>> /\ Now'.op = "remove" /\ Now'.folder = h) \/ Lost(h)
        /\ todo' # <<>> /\ Now'.op = "remove" /\ Now'.folder = h => DownAt(1, h)
    BY Dispatched
  <2>5. (\E i \in 1 .. n : DownAt(i, h)) <=> DownAt(1, h) \/ \E i \in 2 .. n : DownAt(i, h)
    BY <1>3, <1>4, <1>5, <1>1
  <2> QED
    BY <2>1, <2>2, <2>3, <2>4, <2>5
<1>10. ASSUME NEW h \in Folders, h \in Monitored, Due(h) PROVE Due(h)' \/ Lost(h)
  <2>1. PICK i \in 1 .. n : UpAt(i, h) /\ \A j \in 1 .. n : j > i => ~DownAt(j, h)
    BY <1>1, <1>2, <1>10 DEF Due, InTodo, Announced
  <2>2. CASE i = 1
    <3>1. todo' = <<Op("add", h)>> \/ Lost(h)
      BY <1>10, <2>1, <2>2, Dispatched
    <3>2. ASSUME todo' = <<Op("add", h)>> PROVE Due(h)'
      <4>1. InTodo(h)'
        BY <3>2 DEF InTodo, Looks, Op
      <4>2. \A j \in 1 .. n - 1 : ~DownAt(j, h)'
        BY <1>4, <1>8, <2>1, <2>2
      <4>3. ~(todo'[1].op = "remove")
        BY <3>2 DEF Op
      <4>4. ~Leaving(h)'
        BY <1>1, <4>2, <4>3 DEF Leaving, DownAt
      <4> QED
        BY <4>1, <4>4 DEF Due
    <3> QED
      BY <3>1, <3>2
  <2>3. CASE i \in 2 .. n
    <3>1. PICK k \in 1 .. n - 1 : k + 1 = i
      BY <1>3, <2>3
    <3>2. ASSUME NEW j \in 1 .. n - 1, j > k PROVE ~DownAt(j, h)'
      <4>1. j + 1 \in 1 .. n /\ j + 1 > i
        BY <1>1, <1>4, <3>1, <3>2
      <4> QED
        BY <1>8, <2>1, <4>1
    <3>3. UpAt(k, h)'
      BY <1>8, <2>1, <3>1
    <3> QED
      BY <1>1, <3>2, <3>3 DEF Due, Announced
  <2> QED
    BY <1>5, <2>2, <2>3
<1>11. ASSUME NEW h PROVE ~InGap(h) /\ ~InGap(h)' /\ ~Watching(h) /\ ~Watching(h)' /\ ~OnFonts(h)
  <2>1. PICK f \in Folders : TRUE
    BY FontAssumption
  <2>2. todo' # <<>> => Now'.op # "watch"
    BY <2>1, Dispatched
  <2> QED
    BY <1>2, <2>2 DEF InGap, Watching, OnFonts, Now
<1>12. ASSUME NEW f \in Folders, NEW what, Says(f, what)' PROVE Says(f, what)
  <2>1. PICK i \in 1 .. n - 1 : /\ FontsAt(i, f)' /\ queue'[i].what = what
                                /\ \A j \in 1 .. n - 1 : j > i => ~FontsAt(j, f)'
    BY <1>1, <1>12 DEF Says
  <2>2. i + 1 \in 1 .. n /\ FontsAt(i + 1, f) /\ queue[i + 1].what = what
    BY <1>1, <1>4, <1>8, <2>1
  <2>3. ASSUME NEW j \in 1 .. n, j > i + 1 PROVE ~FontsAt(j, f)
    <3>1. PICK k \in 1 .. n - 1 : k + 1 = j /\ k > i
      <4>1. j - 1 \in 1 .. n - 1 /\ (j - 1) + 1 = j /\ j - 1 > i
        BY <1>1, <2>3
      <4> QED
        BY <4>1
    <3> QED
      BY <1>8, <2>1, <3>1
  <2> QED
    BY <1>1, <2>2, <2>3 DEF Says
<1>13. ASSUME NEW f \in Folders, Quiet(f)' PROVE \A i \in 2 .. n : ~FontsAt(i, f)
  <2> SUFFICES ASSUME NEW i \in 2 .. n PROVE ~FontsAt(i, f)
    OBVIOUS
  <2>1. PICK k \in 1 .. n - 1 : k + 1 = i
    BY <1>3
  <2> QED
    BY <1>1, <1>8, <1>13, <2>1 DEF Quiet
<1>14. ASSUME NEW f \in Folders, Quiet(f)', ~OnFonts(f)' PROVE Quiet(f) \/ Lost(f)
  <2>1. FontsAt(1, f) => Lost(f)
    BY <1>14, Dispatched
  <2> QED
    BY <1>1, <1>5, <1>13, <1>14, <2>1 DEF Quiet
<1>15. ASSUME NEW f \in Folders, Quiet(f)', OnFonts(f)' PROVE Says(f, Now.op')
  <2>1. FontsAt(1, f) /\ Now.op' = queue[1].what
    BY <1>15, Dispatched
  <2>2. \A j \in 1 .. n : j > 1 => ~FontsAt(j, f)
    BY <1>1, <1>5, <1>13, <1>15
  <2> QED
    BY <1>1, <1>3, <2>1, <2>2 DEF Says
<1> QED
  BY <1>9, <1>10, <1>11, <1>12, <1>14, <1>15

LEMMA ReadCurrent == ASSUME CurrentInv, Read, Active' PROVE Facts'
<1>1. UNCHANGED <<disk, changes, xpath, tracked, at, mode, excused, leaked>> /\ IInv
  BY DEF Read, CurrentInv
<1>2. Active /\ Facts
  BY <1>1 DEF Active, CurrentInv
<1>3. /\ \A h \in Folders : Leaving(h)' => Leaving(h)
      /\ \A h \in Folders : Leaving(h) => Leaving(h)' \/ Lost(h)
      /\ \A h \in Folders : h \in Monitored /\ Due(h) => Due(h)' \/ Lost(h)
      /\ \A h : ~InGap(h) /\ ~InGap(h)' /\ ~Watching(h) /\ ~Watching(h)' /\ ~OnFonts(h)
      /\ \A f \in Folders : \A what : Says(f, what)' => Says(f, what)
      /\ \A f \in Folders : Quiet(f)' /\ ~OnFonts(f)' => Quiet(f) \/ Lost(f)
      /\ \A f \in Folders : Quiet(f)' /\ OnFonts(f)' => Says(f, Now.op')
  BY <1>1, <1>2, Taken DEF Facts
<1>4. ASSUME NEW h
      PROVE  /\ Told(h)' <=> Told(h)
             /\ Looked(h)' <=> Looked(h)
             /\ Exists(h)' <=> Exists(h)
             /\ Lost(h)' <=> Lost(h)
  BY <1>1, <1>3 DEF Told, Looked, Exists, Lost
<1>5. DiskTree' /\ Watches'
  BY <1>1, <1>2 DEF Facts, DiskTree, Watches, Alive, Own, Exists
<1>6. ASSUME NEW h \in Folders PROVE Alone(h)' /\ Kept(h)' /\ Seen(h)' /\ Right(h)' /\ InPath(h)'
  <2>1. Alone(h) /\ Kept(h) /\ Seen(h) /\ Right(h) /\ InPath(h) /\ Parent[h] \in Folders
    BY <1>2, FontAssumption DEF Facts
  <2>2. Alone(h)'
    BY <1>1, <1>4, <2>1 DEF Alone
  <2>3. Kept(h)'
    BY <1>1, <1>3, <1>4, <2>1 DEF Kept
  <2>4. Seen(h)'
    <3> SUFFICES ASSUME h \in Monitored, Exists(h), ~Lost(h),
                        h \in Roots \/ (Told(Parent[h]) /\ ~Leaving(Parent[h])')
                 PROVE  (Looked(h) /\ ~Leaving(h)') \/ Due(h)'
      BY <1>4, <2>1 DEF Seen
    <3>1. h \in Roots \/ (Told(Parent[h]) /\ ~Leaving(Parent[h]))
      BY <1>3, <2>1, LostChild
    <3>2. (Looked(h) /\ ~Leaving(h)) \/ Due(h)
      BY <2>1, <3>1 DEF Seen
    <3> QED
      BY <1>3, <3>2
  <2>5. Right(h)'
    <3> SUFFICES ASSUME h \notin excused, Looked(h), ~Leaving(h)' PROVE Agrees(h)'
      BY <1>1, <1>4 DEF Right
    <3>1. ~Lost(h)
      BY LostSelf
    <3>2. Agrees(h)
      BY <1>3, <2>1, <3>1 DEF Right
    <3>3. ASSUME Quiet(h)', OnFonts(h)' PROVE Now.op' = "fontsUp" <=> disk[h] = "fonts"
      <4>1. Says(h, Now.op') /\ Now.op' \in {"fontsUp", "fontsDown"}
        BY <1>3, <3>3 DEF OnFonts
      <4> QED
        BY <3>2, <4>1 DEF Agrees
    <3>4. ASSUME Quiet(h)', ~OnFonts(h)', tracked[h] # None PROVE tracked[h].added <=> disk[h] = "fonts"
      BY <1>3, <3>1, <3>2, <3>4 DEF Agrees
    <3> QED
      BY <1>1, <1>3, <3>2, <3>3, <3>4 DEF Agrees
  <2>6. InPath(h)'
    BY <1>1, <1>3, <2>1 DEF InPath
  <2> QED
    BY <2>2, <2>3, <2>4, <2>5, <2>6
<1> QED
  BY <1>5, <1>6 DEF Facts

\* Only whether the thread runs changes, and nothing is being done.
LEMMA StartedCurrent ==
    ASSUME CurrentInv, UNCHANGED <<disk, changes, xpath, tracked, at, queue, todo, excused, leaked>>, Active
    PROVE  Facts'
<1>1. Facts /\ DiskTree' /\ Watches'
  BY DEF CurrentInv, Facts, DiskTree, Watches, Alive, Own, Exists
<1>2. ASSUME NEW h \in Folders PROVE Alone(h)' /\ Kept(h)' /\ Seen(h)' /\ Right(h)' /\ InPath(h)'
  <2>1. Alone(h) /\ Kept(h) /\ Seen(h) /\ Right(h) /\ InPath(h)
    BY <1>1 DEF Facts
  <2>2. /\ Told(h)' <=> Told(h)
        /\ Told(Parent[h])' <=> Told(Parent[h])
        /\ Looked(h)' <=> Looked(h)
        /\ Leaving(h)' <=> Leaving(h)
        /\ Leaving(Parent[h])' <=> Leaving(Parent[h])
        /\ Watching(h)' <=> Watching(h)
        /\ Exists(h)' <=> Exists(h)
        /\ Lost(h)' <=> Lost(h)
    BY DEF Told, Looked, Leaving, About, Holders, Watching, InGap, Now, Exists, Lost
  <2>3. Due(h)' <=> Due(h)
    BY <2>2 DEF Due, Announced, UpAt, DownAt, About, Holders, InTodo
  <2>4. Agrees(h)' <=> Agrees(h)
    BY DEF Agrees, Says, Quiet, FontsAt, Holders, OnFonts, InGap, Now
  <2>5. Alone(h)' /\ Kept(h)'
    BY <2>1, <2>2 DEF Alone, Kept
  <2>6. Seen(h)'
    BY <2>1, <2>2, <2>3 DEF Seen
  <2>7. Right(h)' /\ InPath(h)'
    BY <2>1, <2>2, <2>4 DEF Right, InPath
  <2> QED
    BY <2>5, <2>6, <2>7
<1> QED
  BY <1>1, <1>2 DEF Facts

LEMMA StepCurrentInv == CurrentInv /\ [Next]_vars => CurrentInv'
<1> SUFFICES ASSUME CurrentInv, [Next]_vars PROVE CurrentInv'
  OBVIOUS
<1>1. IInv'
  BY StepIInv DEF CurrentInv
<1>2. ASSUME Active', NEW f \in Folders, NEW to, NEW what,
             (to = "fonts" /\ what = "fontsUp") \/ (to = "bare" /\ what = "fontsDown"),
             ChangeFonts(f, to, what)
      PROVE  Facts'
  BY <1>2, ChangeFontsCurrent
<1>3. ASSUME Active', Environment PROVE Facts'
  BY <1>2, <1>3, AppearCurrent, DisappearCurrent, RenameCurrent, XRestartsCurrent DEF Environment
<1>4. ASSUME Active', Thread PROVE Facts'
  BY <1>4, SkipCurrent, LookCurrent, WatchCurrent, WatchFailsCurrent, OpenCurrent, OpenFailsCurrent,
     ListStepCurrent, RemoveCurrent, FontsDirCurrent, ReadCurrent DEF Thread, AddMonitorFolder
<1>5. ASSUME Active', Started PROVE Facts'
  BY <1>5, StartedCurrent DEF Started, Active
<1>6. ASSUME Active', UNCHANGED vars PROVE Facts'
  BY <1>6, StartedCurrent DEF vars, Active
<1>7. ASSUME Stop \/ Stopped \/ Aborted PROVE ~Active'
  BY <1>7 DEF Stop, Stopped, Aborted, Active
<1> QED
  BY <1>1, <1>3, <1>4, <1>5, <1>6, <1>7 DEF Next, CurrentInv

LEMMA CurrentInvHolds == Spec => []CurrentInv
  BY InitCurrentInv, StepCurrentInv, PTL DEF Spec

\* When there is nothing to do, all that is there is watched, from the roots
\* down, but for what is lost.
LEMMA AllWatched ==
    ASSUME CurrentInv, mode = "running", todo = <<>>, queue = <<>>,
           NEW f \in Monitored, Exists(f)
    PROVE  tracked[f] # None \/ Lost(f)
<1> DEFINE S == {g \in Folders : g \in Monitored /\ Exists(g) => Told(g) \/ Lost(g)}
<1>1. DiskTree /\ Facts
  BY DEF CurrentInv, Active, Facts
<1>2. ASSUME NEW g \in Monitored, Exists(g), g \in Roots \/ Told(Parent[g]) PROVE Told(g) \/ Lost(g)
  <2>1. g \in Folders /\ ~Leaving(g) /\ ~Due(g) /\ (Looked(g) <=> tracked[g] # None)
    BY DEF Monitored, Leaving, Due, Announced, InTodo, Looked, InGap
  <2>2. Seen(g) /\ Kept(g)
    BY <1>1, <2>1 DEF Facts
  <2>3. ~Leaving(Parent[g])
    BY DEF Leaving
  <2> QED
    BY <1>2, <2>1, <2>2, <2>3 DEF Seen, Kept
<1>3. \A r \in Roots : r \in S
  BY <1>2 DEF Roots
<1>4. ASSUME NEW g \in S, NEW h \in Children(g) PROVE h \in S
  <2> SUFFICES ASSUME h \in Monitored, Exists(h) PROVE Told(h) \/ Lost(h)
    BY DEF Children
  <2>1. g \in Folders /\ h \in Folders /\ Parent[h] = g
    BY DEF Children
  <2>2. Exists(g)
    BY <1>1, <2>1 DEF DiskTree
  <2>3. g \in Monitored
    <3>1. ASSUME NEW i \in Folders, g \in Below(i) PROVE h \in Below(i)
      BY <3>1, BelowChild
    <3> QED
      BY <2>1, <3>1 DEF Monitored
  <2>4. CASE Told(g)
    BY <1>2, <2>1, <2>4
  <2>5. CASE Lost(g)
    <3>1. h \in Below(g)
      BY <2>1, BelowSelf, BelowChild
    <3> QED
      BY <2>1, <2>5, <3>1, BelowBelow DEF Lost
  <2> QED
    BY <2>2, <2>3, <2>4, <2>5
<1>5. f \in Folders
  BY DEF Monitored
<1>6. PICK r \in Roots : f \in Below(r)
  BY <1>5, TreeAssumption
<1>7. r \in Folders /\ S \in SUBSET Folders
  BY DEF Roots
<1> HIDE DEF S
<1>8. Below(r) \subseteq S
  BY <1>3, <1>4, <1>7, BelowInduct
<1>9. f \in S
  BY <1>6, <1>8
<1> QED
  BY <1>9 DEF S, Told
-----------------------------------------------------------------------------
(* The theorems *)

LEMMA Invariance == Spec => []IInv
  BY InitIInv, StepIInv, PTL DEF Spec

\* The state is well formed, and no event that inotify has given of a folder,
\* whatever is made and removed meanwhile, outlives the folder's entry
\* (RemoveMonitorFolder, FontMonitor.cpp:162).
THEOREM FontTypes == Spec => []TypeOK
<1>1. IInv => TypeOK
  BY DEF IInv
<1> QED
  BY <1>1, Invariance, PTL

\* In any tree of folders every folder of the font path is one that may be
\* monitored and has a FontFolder that will take it off again, whichever xset
\* fails, whenever X starts anew and whatever disappears during a handler.
THEOREM PathOwned == Spec => []PathIsOwned
<1>1. ASSUME IInv PROVE PathIsOwned
  <2>1. ASSUME NEW f \in xpath, Watching(f)
        PROVE  \E i \in DOMAIN todo : todo[i].op = "watch" /\ todo[i].folder = f /\ todo[i].added
    <3>1. todo \in Seq(Ops) /\ todo # <<>>
      BY <1>1, <2>1 DEF IInv, TypeOK, Watching
    <3>2. 1 \in DOMAIN todo
      BY <3>1
    <3> QED
      BY <2>1, <3>2 DEF Watching, Now
  <2>2. xpath \subseteq Monitored /\ \A f \in xpath : Owned(f)
    BY <1>1 DEF IInv
  <2> QED
    BY <2>1, <2>2 DEF PathIsOwned, Owned
<1> QED
  BY <1>1, Invariance, PTL

\* When every event is handled, whatever came, went, was moved and came back
\* meanwhile in any tree of folders, in any order and however much at once, the
\* font path has the folders with a fonts.dir and no other.  But for those that
\* changed where AddMonitorFolder does not look again ("is already tracked",
\* FontMonitor.cpp:156), whose event was lost, whose xset failed, or that X forgot;
\* and for what is below a folder that could not be watched or listed, or that
\* shares its watch with the path where it was before.
THEOREM PathCurrent == Spec => []PathIsCurrent
<1>1. ASSUME CurrentInv PROVE PathIsCurrent
  <2> SUFFICES ASSUME mode = "running", todo = <<>>, queue = <<>>, NEW f \in Monitored \ excused
               PROVE  f \in xpath <=> disk[f] = "fonts"
    BY DEF PathIsCurrent
  <2>1. f \in Folders /\ ~Leaving(f) /\ Quiet(f) /\ ~OnFonts(f) /\ ~Watching(f)
    BY DEF Monitored, Leaving, Quiet, OnFonts, Watching
  <2>2. Right(f) /\ InPath(f)
    BY <1>1, <2>1 DEF CurrentInv, Active, Facts
  <2>3. CASE tracked[f] # None
    BY <2>1, <2>2, <2>3 DEF Right, Agrees, InPath, Looked
  <2>4. CASE tracked[f] = None
    <3>1. f \notin xpath
      BY <2>1, <2>2, <2>4 DEF InPath
    <3>2. ~Lost(f)
      BY <2>1, LostSelf
    <3>3. ~Exists(f)
      BY <1>1, <2>4, <3>2, AllWatched
    <3> QED
      BY <3>1, <3>3 DEF Exists
  <2> QED
    BY <2>3, <2>4
<1> QED
  BY <1>1, CurrentInvHolds, PTL
=============================================================================
