# WSLg: models and proofs

WSLg shows the windows of Linux applications on a Windows desktop. This
directory holds TLA+ specifications of the parts of it whose sources are in this
repository and that keep state: the application list channel, which puts the
applications of a Linux distribution into the Windows Start Menu, and WSLGd, the
daemon that starts the graphics stack and keeps it alive. Weston, FreeRDP and
PulseAudio are submodules; they appear only as the environment.

## Inventory

| Part (source) | State it keeps | Operations | Talks to |
| --- | --- | --- | --- |
| Plugin, message handlers (`WSLDVCPlugin/WSLDVCCallback.cpp`) | handshake flag, capabilities, paths, two file databases | `OnCaps`, `OnUpdateAppList` with its sync hints, `OnDeleteAppList`, `OnAssociateWindowId` | server over the channel; disk; taskbar |
| Plugin, threads (same file, `OnDataReceived`, `OnClose`) | `m_crit`, `m_bChannelClosed` | one call per buffer of messages, one call to close | RDP client's threads |
| File database and utilities (`WSLDVCFileDB.cpp`, `utils.cpp`) | set of entries by key or by path | add, find, remove, list a folder, delete what is listed; write a link or an icon | disk |
| Provider removal (`dllmain.cpp`, `RemoveAppProvider`) | a listing | list, sweep | the same disk, from another process, without a lock |
| Plugin object, listener (`WSLDVCPlugin.cpp`, `WSLDVCListenerCallback.cpp`) | none | create a callback per channel | RDP client |
| Server channel (`rdpapplist/server/rdpapplist_main.c`) | channel, thread, stop event, `isReady` | `Open`, `Close`, the thread, five senders | compositor; RDP client |
| Wire format (`rdpapplist_protocol.h`, `rdpapplist_common.c`, `rdpapplist.h`) | none | read and write messages | both ends |
| Process monitor (`WSLGd/ProcessMonitor.cpp`) | `m_children`, crash times | `LaunchProcess`, `Run` | kernel |
| Startup (`WSLGd/main.cpp`) | environment, sockets | prepare, launch, wait for the compositor | monitor, compositor |
| Font monitor (`WSLGd/FontMonitor.cpp`) | watched folders, X font path | start, folder and fonts.dir events, stop | kernel (inotify), X server |

What is hard, and what would make each part correct:

* **Sync rounds.** A round lists the menu folder, takes off what the server
  reports and deletes the rest. Between the two ends of a round updates fail half
  way, apps share links, names are spelled differently, another process deletes,
  the client dies. Reported links stay, unreported ones go.
* **Capabilities.** `OnCaps` assigns a version, a name and two paths one by one
  and can return between any two. Handlers may only run with all of one exchange.
* **Two apps, two providers.** Entries, links and icons of different keys or
  providers overlap in names. The link of an app must be one that an app of this
  session has written; what a window is told must be what its app's link launches,
  unless an app of the same name has overtaken the link; and removing one provider
  must take nothing of another.
* **Threads.** A flag read without its lock, a lock that is not fair, a database
  that closing clears under handlers that do not test it.
* **Supervision.** Exits that come while another is handled, pids that return, a
  sliding window of crashes, a child that is nobody's, a wait that precedes the
  monitoring.
* **Server channel.** Calls that fail one after the other, a thread that ends by
  itself, a close that joins, a channel that is opened again while the answer to
  the one before is under way.
* **Wire format.** Lengths that are added up apart from the code that writes,
  limits that the two ends test differently, a command whose payload nobody reads.
  What a handler gets must be what was sent.
* **Font path.** Folders that come and go between a look, a watch and a listing,
  folders that are moved and take their watches along, watches that cannot be had,
  events that are handled late or lost, an xset that fails. The path must follow
  the folders, and nothing may stay in it that nobody will take off.

`PROJECT.json` lists each hazard at its line with the properties that cover it.

## Modules

| Module | What it is |
| --- | --- |
| `AppListDisk` | The files as one value, with the operations of `utils.cpp` and `WSLDVCFileDB.cpp` on it: pure operators |
| `AppListClient` | The message handlers, sync rounds, crashes and the removal of a provider; EXTENDS `AppListDisk` |
| `StartMenu` | Abstract: which links the menu has, what a round and a removal take; `AppListClient` implements it |
| `AppListDiskProofs`, `AppListClientProofs`, `AppListMenuProofs` | Lemmas about the disk; theorems about rounds; theorems about the menu as a whole |
| `SerialChannel` | Abstract: one message at a time, handshake first, nothing after the close |
| `ChannelCallback`, `ChannelCallbackProofs` | The threads around `m_crit`; they implement `SerialChannel` |
| `AppListServer`, `AppListServerProofs` | Open, Close and the thread of the server's channel |
| `AppListWire` | Writers and readers of every message, in 16-bit words: pure operators |
| `AppListSession`, `AppListSessionProofs` | Composition: the server, the wire and the plugin's end over channels that are closed and opened again; it implements `AppListServer` |
| `ProcessMonitor`, `ProcessMonitorProofs` | main's launches and `ProcessMonitor::Run` |
| `FontMonitor`, `FontMonitorProofs` | `FontMonitor`, `FontFolder` and the thread that listens to inotify |
| `MC*` | Small instances of these for TLC |

The client is modelled at two grains. `AppListClient` has one action per message,
which is only right if messages are serial; `ChannelCallback` has one action per
step of a thread between two points where another thread can be seen, and
`SerialSpec` says that it implements `SerialChannel`, the serial grain. A handler
is one `Begin` and one `End` there, and one action in `AppListClient`.

### Client

`disk.links` maps the *folded* path of a link file to its content (the name as it
was created, the command, the icon) and `disk.icons` is the set of icon files. A
path is a provider and a name. `db` is `m_spFileDB`, `sync` is `m_spFileDBSync`
and `removal` is the database of `RemoveAppProvider`. A group is a prefix of both
key and name, and so is part of them. `caps` stands for `m_serverCaps.version`
(at least 4 or not), `m_appProvider`, `m_appMenuPath` and `m_iconPath`; the copy
of a provider name over a longer old one, without terminator, is the constant
`Overlay`.

An update is `ApplyUpdate` or, if some check refuses it, `RefuseUpdate`; what
the code has done before the refusal (starting the round) is done there, too.
The END hint is handled in the same action (`OnSyncEnd`), since the code deletes
before it returns. `UpdateTaskBarInfo` sets a window's icon and then its command,
and stops at the first that cannot be set (the mishap `taskbar`), so that a window
may keep the command of one app under the icon of another. `RemoveAppProvider`
lists the folder once (`RemoveList`) and deletes file by file (`RemoveSweep`), with
messages of the session in between, until nothing is listed (`RemoveReturns`).
`Mishaps` is the set of things that may fail, so that each run
says what it lets fail. Messages that are refused without any change are
stutters.

`MenuSpec` looks at all of this from outside: `Menu` maps the links that are there
to `StartMenu`'s `menu`, the listings to the sets of files they stand for, and
says of every step, of the session, of a crash or of the other process, which
links it may write and take. There, too, the other process takes one link after
the other (`Removing`, `Removed`), only links that it has listed.

Two history variables make the properties of a round state predicates: `round`
remembers the links the round began with and those reported since, `verdict` what
the last sweep did that it should not have. No action reads them.

### Threads

`pc` follows a receiver from the test of the flag, without the lock, over
`EnterCriticalSection` and the loop to `LeaveCriticalSection`. The race on
`m_bChannelClosed` is a choice: between the write (`CloseCall`) and the moment it
is visible to all (`Publish`, or at the latest the release of the lock) a read
may return either value. The critical section admits anyone who waits.

### Process monitor

`runs` and `dead` are the kernel's table, a dead process keeping its pid until it
is reaped; `children` is `m_children`. `Reap` frees the pid, as waitpid does,
before `Relaunch` forks; whether the kernel may give the same pid again at once
is the mishap `reuse`. A `command` is argv with its capabilities and environment.
`exits` is a history of all exits seen, against which the forgetful `crashes` is
judged.

### Server, wire and session

`AppListServer` is `Open` with each call that may fail, `Close` in two halves (set
the event and wait; then close), and the thread. `isReady` is never reset, as in
the code. `WakeForNothing` is the event signalled without data, after which the
thread ends. The wait of `Close` may fail, too (`CloseFails`): it then returns an
error (`unjoined`) with the thread told to stop and the channel still open, and may
be called again. That a channel is opened only when none is open is the caller's
discipline; the code does not ask. `rdpapplist_server_context_free`, which ignores
what `Close` returns, is left out.

`AppListWire` writes a message as the senders do, field by field and with the
length that they add up (`Packet`), and reads it as the plugin does (`Read*`).
A text is a number of bytes: its letters do not matter, its length, the 16 bits
in which it is sent and its terminating zero do. `Said` is what the compositor
meant, `Readable` which messages the plugin's readers let through.

`AppListSession` puts both over two ordered queues. `Open` and `Close` of the
server put the creation and the end of a channel into the same queue as the
data; the plugin makes a callback for each channel and answers on it. What comes
in for a channel that is no more is dropped at the server (FreeRDP's part), while
the plugin still gets what was sent before the close. `Dispatch` is one round of
the loop in `OnDataReceived`. `Reading` is the table of what the readers make of
each packet: TLC keeps a constant table and would otherwise read every packet
again whenever it tests whether `Dispatch` is enabled.

### Font monitor

`tracked` is `m_fontMonitorFolders`, each entry with `m_isPathAdded` and its watch;
`xpath` is what the X server has in its path. A watch is on the folder itself, not
on its path, and goes with it when it or a folder above it is renamed; `at` says
where the folder of each watch is now. So a folder that was moved within the tree
gives its old watch again when it is added at its new path, and two entries then
share one: an event goes to the first of them in the order of the paths, which in
the model is any of them, and the first that is removed takes the watch away from
both. Folders nest, and the folder tree (`disk`) changes at every moment: the
distribution makes folders, also with contents, writes and removes `fonts.dir`
files and moves folders away. `todo` is the stack of what Start or a handler has
still to do, one operation per step, so that changes come between looking for
`fonts.dir`, adding the watch, opening the folder and each entry of the listing.
When the last entry of a watch goes, what the watch has told stays in the queue for
nobody (`void`). A watch or a listing of a folder that is there may be refused (the
mishap `limit`: descriptors, `max_user_watches`); the entry is then dropped, or its
subfolders are not looked at. `Init` has any of the roots, at least one, as Start
asks.

The code cannot see everything: a `fonts.dir` written between the look and the
watch, an event lost in a full queue, an X server that starts anew, a folder that could not
be watched or listed and what is below it, and folders whose entry shares its watch
with the entry of the path where they were before. And it looks
at a folder only once: when a folder comes while its path is still tracked, or
while it is between its look and its watch, `AddMonitorFolder` finds it "already
tracked" and neither watches the new one nor looks below it. `Looked` are the
folders that it takes for known, `Leaving` those it will still be told to drop
(they are looked at again), and `Missed(f)` what a change of `f` leaves wrong: the
known folders below `f` that do not leave, with all that is below them. `excused`
collects exactly these folders, so that `PathIsCurrent` says of all the others that
the path is right; a run without any of these events has no excused folder.
`leaked` are the folders whose removal failed in xset. `Below(f)` is `f` with all
that is below it, at any depth: the least set closed under children.

## Runs

| Run | Shows |
| --- | --- |
| `ClientFaults` | One provider, two keys, two names, three legal payloads (an app, the same app renamed, another app that shares a link name) and one that is refused; folders, icons, links and deletions fail: `ReportedSurvive`, `SweepIsComplete`, refinement of `StartMenu` (`MenuSpec`) |
| `ClientOutside` | Two providers, two apps with one link name; capability exchanges stop anywhere, the client dies anywhere, links cannot be read, icons and taskbar properties cannot be written, a provider is removed meanwhile, one file at a time: `DatabaseAgreesWithMenu`, `ButtonsAgreeWithMenu`, `CapsCompleted`, `ProvidersApart`, `MenuSpec` |
| `ChannelThreads` | Two receivers, two messages per buffer: `NoNullDatabase`, refinement of `SerialChannel`, `CloseReturns`, `CallsReturn` |
| `Monitor` | Two commands, four pids, given up at two exits within one tick: `GiveUpIsExact`, `Supervised`, `EndsForAReason`, `Relaunched` |
| `Server` | A session: two channels one after the other, two messages out of fourteen, every call failing on both ends, the wait in Close included: `TakenAsSent`, `PacketsAreFramed`, `RefusedForAReason`, `ThreadHasChannel`, refinement of `AppListServer` (`ServerSpec`), `CloseReturns`, `MessagesTaken`, `CapsAnswered` |
| `Fonts` | The mount folder with its X11 and another subfolder, and the alternative path with a subfolder, any of them there at first, moved anywhere below; xset, watches, listings and the thread fail: `PathIsCurrent`, `PathIsOwned`, `PathCatchesUp` |
| `ClientCaseOnly`, `ClientUpdated`, `ClientRecaps`, `MonitorReuse`, `MonitorEarly`, `ServerOpen` | Counterexamples, see Findings |

`ClientOutside` leaves out the failures of a link's creation and deletion: the
code ignores both (`WSLDVCCallback.cpp:748`, `:830`), an older link then stays in
the menu, and `DatabaseAgreesWithMenu` and `ButtonsAgreeWithMenu` say nothing for
that case. `ClientFaults`
has them, and the theorems about rounds and about `StartMenu` hold under all
mishaps together.

Bounds. Two keys and two names give every way for entries to collide: same key
with another link, another key with the same link. Two providers suffice because
paths carry their provider and properties compare two. Two receivers are one that
holds the lock and one that has passed the test and waits; two messages make the
loop go round with a failure in the first or the second. In the monitor
`MaxCrashes = 1`, `Window = 1`, `MaxTime = 2` keep an exit inside, on the edge of
and outside the window; four pids are one for each command, one for a helper and
the one reaped last (`EnoughPids`). The clock stops at `MaxTime`, after which
exits are simply in one second. In the session `MaxOpens = 2` lets the answer to
one channel be under way while the next is open; `MaxMessages = 2` lets a message
be refused or ignored and the next one be read after it; texts are limited to six
bytes, so that the fourteen messages have texts that are empty, fit, fit without
their zero, and are too long, every flag set and left out, an icon and none, and a
window number beyond 16 bits. In the fonts run two queued events are one that is
handled late and one that is lost behind it; two changes (each failure counts as
one) are a folder that is made and moved, or moved and refused its watch, at any
step of Start and of the thread, from any tree to begin with. What needs more (a
folder that goes and comes back while the removal of the one before is still queued
and the queue then overflows) is left to the proof, which has no bound. Where a run switches off the deadlock check the system really
stops: `Run` has returned or failed, the compositor has sent all that it sends,
the tree has changed for the last time.

Fairness. In `ChannelCallback` a thread that can take a step takes it (weak
fairness of each receiver's steps and of the closer's) and a write becomes
visible; nothing forces a call, and the lock is not assumed fair. `CloseReturns`
of the plugin holds because the flag, once visible, keeps receivers from queueing
for the lock again; that of the server says that Close comes back with everything
closed, or with the error of its wait. In `ProcessMonitor` WSLGd's single thread has weak fairness; reaping a
given dead child is strongly fair because waitpid looks at the children in the
order of their creation, so that one child cannot be passed over for ever; a live
compositor says at some point that it is ready. Exits, helpers and the clock are
not fair: nobody has to crash. In `AppListServer` the thread is fair, and so is
the caller once it is in Close; being woken for nothing is not, since FreeRDP
need never do so. In `AppListSession`, besides, what is sent comes in and the
plugin handles what it has got. `CapsAnswered` accepts a thread that has ended by
itself, which is what the code does when it is woken without data. In
`FontMonitor` main runs Start to its end and the thread handles what inotify has
told; the distribution, the X server and Stop are not fair.

## Findings

Each is a run that TLC refutes, and is told in full in `PROJECT.json`.

1. `ClientCaseOnly`: a link reported in another case than its file has is deleted
   at the end of the round (`WSLDVCFileDB.cpp:62`).
2. `ClientUpdated`: an update of an app that the session knows is refused, and
   its link is then removed at the end of the round (`WSLDVCFileDB.cpp:166`).
3. `ClientRecaps`: a second exchange that fails half way leaves the handshake
   complete over paths of two exchanges (`WSLDVCCallback.cpp:523`).
4. `MonitorReuse`: when a relaunched process gets the pid just reaped, its entry
   is the one that is erased (`ProcessMonitor.cpp:127`).
5. `MonitorEarly`: a compositor that dies before it is ready is never relaunched
   (`main.cpp:419`).
6. `ServerOpen`: Open returns success though it could not create its thread
   (`rdpapplist_main.c:685`).

## Proofs

All are for every value of the constants that the named assumptions allow.

* `TypeCorrect` (client). The type invariant needs `PathsBuilt`: once the
  handshake is complete, name and menu are providers. Repeated exchanges may
  leave the icon root without a provider, which is why icon paths range over
  `Roots`.
* `SweepSparesReported`: `[]ReportedSurvive` under `CaseExact` (names that fold
  alike are alike). Inductive with `Spared`: no listed name is the file of a
  reported link. `CaseExact` is exactly what `ClientCaseOnly` violates.
* `SweepTakesUnreported`: `[]SweepIsComplete`, with no such condition. Inductive
  with `Listed` (each link of the start that is not reported is listed under some
  spelling) and `NamesFold` (a file's name folds to its path). Removal of the
  provider and deletions meanwhile only make the folder smaller.
* `OneExchange`: `[]CapsCompleted` when the server does not repeat a completed
  exchange; inductive as it stands.
* `ChannelTypes`, `HandlersHaveDatabase`, `ThreadsAreSerial`. The invariant
  `LockDiscipline` says who holds the lock at which place in the code;
  `CloseProgress` ties the database and the visibility of the flag to the place
  of the closer. A handler holds the lock, so the closer is not past its body,
  or has left the lock, in which case the flag was visible to the receiver's loop
  test. The refinement is a step simulation: reading a message is `Begin`,
  returning from a handler is `End`, `CloseBody` is `Close`, the rest stutters.
* `OneProcessPerCommand`: `[]Supervised` unless pids are reused at once.
  `Supervised` speaks of a waiting `Run`; `OneEach` says the same at every moment
  and `TracksItsOwn` excepts the pid being handled.
* `EndsOnlyWhenAllGivenUp`: `[]EndsForAReason` under the same condition. While
  `Run` waits, each command that is not given up has a process in its table that
  takes a pid, so `waitpid` has a child; the pids being free together means that
  there is none. A fork that fails while `Run` relaunches makes it throw and return,
  too; that end is the mode `failed`, of which the theorem does not speak.
* `MenuAgrees`: `[]DatabaseAgreesWithMenu` if links can be written and deleted.
  Every step either writes the one link of an update, whose entry is the new one,
  or only takes links away (`Thinned`). The command and the icon of a link are those
  of one entry (`FileOf`): of the app itself, or of one of the same name that has
  overtaken it.
* `ButtonsAgree`: `ButtonsAgreeWithMenu`, an action property, from the invariant of
  `MenuAgrees`. A window gets a new command only when both properties could be set
  (`NewCommand`); if no namesake is there, the entry whose file the link is can only
  be that of the app.
* `ProvidersNeverMix`: `[]ProvidersApart` if the server does not repeat its
  capabilities. Inductive with `CapsCompleted`, `EntriesApart` and `ButtonsApart`:
  everything that a session remembers or has told a window is of the provider of its
  capabilities. That every single property is matters, since an update of a window
  may stop half way and leave the command of one app with the icon of another.
* `MenuAsPromised`: `MenuSpec` under `CaseExact`, for all mishaps together. Under
  `NamesFold` a fresh listing stands for the links below the folder
  (`ListingStale`), under `CaseExact` a report takes exactly one file from it
  (`ReportStale`); then an update is `Tell` or `Begin`, a close or a crash `Leave`, a
  deletion `Withdraw`, and the steps of the other process `Remove`, then `Removing`
  for each file, then `Removed`. Every other step is a stutter.
* `ServerTypes`, `ThreadNeverOrphaned`: inductive with `ThreadKeepsChannel`: a
  thread that nobody has joined keeps the channel open.
* `PacketsFramed`: `[]PacketsAreFramed` for all texts, flags, images and limits. One
  lemma per writer says that the words it writes are those it counts (`Sized`).
* `SessionImplementsServer`: `ServerSpec`. The session changes the server's variables
  by the server's own actions, save for `Receive`, which must be its `Accept` or
  `Arrive`: an answer is data for the channel that is open only after that channel
  was accepted. `Numbered` says that both queues are in the order of the channels
  and that none is of the future, `AcceptedFirst` that an acceptance precedes data.
  `SessionKeepsChannel` follows from it.
* `FontTypes`, `PathOwned`: for every tree of folders. `Shaped(todo)` describes the
  stack of a thread: only its head may be between a look and a watch, and below it
  there are listings. `HeadFits` says that the entry the head works on is there or
  not there as the code takes it for, `MonitoredOnly` that only monitored folders
  are tracked or told of. A folder then is in the path only by an entry, by the
  head of the stack, or by a failed xset.
* `PathCurrent`: `[]PathIsCurrent`, for every tree that hangs from its roots
  (`TreeAssumption`), queue and number of changes. `CurrentInv` says of every
  folder, at every step of Start and of the thread: a watch is on a folder that is
  there, and no other watch is on that one (`Alive`, `Own`), and is some entry's
  (`Held`); a tracked folder has its watch on itself unless a removal is due (`Kept`),
  and does not share it (`Alone`);
  a folder that is there and whose parent is watched is known, or an event, a
  listing or an operation on the stack will still look at it (`Seen`, `Due`); the
  last event about a folder's `fonts.dir`, or else the operation on it, or else
  `m_isPathAdded`, says what is on the disk (`Right`); and the path has what
  `m_isPathAdded` says (`InPath`). Each leaves out what is excused, and a folder that could not be watched
  or that shares its watch is excused with all that is below it (`Lost`). When stack and
  queue are empty, nothing is due, so that a child of a watched folder is watched;
  from the roots down, every folder that is there is (`AllWatched`), and its entry
  is right. The least set that `Below` is gives this induction over the tree: the
  set of watched folders is closed under children.
* `MonitorTypes`, `GivenUpExactly`: `[]TypeOK` and `[]GiveUpIsExact` of the process
  monitor, also when pids are reused. `ExitInv` says that `crashes` is the end of
  the history of all exits from some place on (`Suffix`), and that both are in
  the order of time. What `Recent` then drops is too old for this exit and all
  later ones, so that it keeps exactly the exits within the window
  (`ExitRemembered`). That its loop keeps the rest of the list from the first one
  that is young enough (`KeptIsTheRest`), and that the loop is defined at all
  (`KeptExists`), is shown by the least place at which it would fail (`Least`).
* `ReadsWhatWasWritten`, `RefusesForAReason`, `LinkTypes`: `[]TakenAsSent`,
  `[]RefusedForAReason` and `[]LinkTypeOK` of the session, for all texts, flags,
  images, window numbers, limits and numbers of channels. One lemma per field says
  that its reader, put before what its writer wrote and any rest, takes exactly
  that and leaves the rest (`U16Read`, `U32Read`, `TextRead`, `OptRead`, `IconRead`),
  and one per message composes them in the order of the code (`CapsTold`,
  `UpdateTold`, ...). `SessionInv` then says of both queues that they hold only
  packets that were written (`Carries`) of channels that were opened (`Begins`), and
  of the plugin's buffer that it is what was written of its message or the rest
  that a removal of a provider leaves (`Holds`), which no reader takes for a message.

The assumptions on the constants are few. Names of things and of nothing differ
(`NoneAssumption`, `EntryAssumption`, parts of the others), bounds are naturals,
mishaps are of the known kinds. `EnoughPids` says that the kernel does not run out
of pids, `FoldAssumption` that a folded name folds to itself, `TreeAssumption` that every folder is below one of the roots at which the code
starts. TLC evaluates all of them on the instances it checks.

Proof and model corrected each other in the font monitor. `PathIsCurrent` passed its
run with an earlier, cruder `excused`, too; the search for its invariant led to
trees and orders, beyond the run's bounds, in which it failed: a folder that comes
back while its old entry is in its gap, or below a folder that is tracked and stale.
The code does not see these, so `excused` has to have them. It also excused more
than it should, folders whose removal was still due and that are looked at again
after it. Both are now stated by `Missed`, and TLC found `CurrentInv` true on trees
of three and four folders with a queue of four before it was proved.

Only model-checked: the liveness properties (`CloseReturns`, `CallsReturn`,
`Relaunched`, `MessagesTaken`, `CapsAnswered`, `PathCatchesUp`), since the prover
handles neither liveness under fairness nor ENABLED. Every type invariant, safety
invariant and refinement that a passing run checks is a theorem, some under a named
condition that is given above (`CaseExact`, no repeated capabilities, no failing
link, no reused pid).

## Not modelled

* The content of icon files, and the memory that holds them on their way.
* Folders of the menu, which the code creates on each update and removes when
  empty without ever deciding by them, and links that a user puts there by hand.
* How the plugin finds the locale name that it puts into its answer, and the
  signature check, which is compiled out.
* Creating the plugin object, its listener and its COM registration: once, by one
  thread, without state that changes later.
* The environment, mounts and vsock port that main prepares before the first fork.
  The port loop cannot report that all ports are taken (`main.cpp:345`), but it runs
  alone and once, and a `listen` on the unbound socket fails next.
* A wall clock that is set back under the process monitor: `now` only grows.
* A call back from the channel's `Write` on the same thread. Whether the host does
  that is not in this repository.
* What a `fonts.dir` says. A folder that leaves the font paths is moved to one that
  is not monitored, from where its watch goes on telling its old entry.
* Opening a server channel over one that is open, and freeing the server's context:
  see Server, wire and session.
* Vendored helpers, build files, packaging, samples and notes. Weston, FreeRDP,
  PulseAudio and the kernel are environment, modelled from how the code uses them.

## Plan

Every component that keeps state and meets another actor is modelled. What would
come next, in this order:

1. A re-entrant variant of `ChannelCallback`, should the RDP client be found to
   call back from `Write`.
2. Startup as a module of its own: which of `SetupOptionalEnv`'s choices the
   launched commands see, and the shared memory and font monitor that are set up in
   between.
3. More of what the theorems leave conditional: what remains true of the client's
   menu after the mishaps that `MenuAgrees` excludes, and of `Supervised` when pids
   are reused (`Sparse` already says that no command has two processes).
