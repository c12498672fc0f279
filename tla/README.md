# A TLA+ model of phiola

phiola is an audio player, recorder and converter for the terminal, with a
graphical interface and an Android application. This directory holds TLA+
modules that model it, TLC configurations that check them on small instances,
and proofs, checked by TLAPS, that hold for every instance: of the task queue, the
workers and their timers, tracks and their chains of filters, the play queue, file
input and output, audio input and output, the lists of the graphical interface, and
the Android application. Paths below
are relative to `src/` of the repository (`core/track.c` is `src/core/track.c`),
those of the Android application to its Java package. `PROJECT.json` lists components, runs, the correspondence between
definitions and source lines, the hazards the properties are aimed at, and the
theorems.

## The system

| part | state it keeps | operations | talks to |
|---|---|---|---|
| task queue and kernel event loop (`util/taskqueue.h`, `util/kq-tq.h`, `util/kq.h`) | list of tasks, its spin lock, one kernel event, the stop flag | post, delete, run; wait, dispatch, stop | every thread posts; one worker runs |
| worker (`core/worker.h`, `util/kq-timer.h`) | pool of workers with job counters, a timer queue and one kernel timer each | assign, release, available; timer, tick, suspend | tracks are assigned to workers; filters set timers |
| tracks (`core/track.c`) | atomic state, wake-up task, list of all tracks under a lock | create, filter, start, stop, wake, stop-all, run, close | the task queue of the worker runs `track_run` |
| conveyor (`core/track.c`, `track.h`) | pool of filters, active chain, current filter, data passed along | add filter, open, process, result codes, close | calls the filters |
| play queue (`queue/qu.c`, `queue/ent.h`) | lists of entries, reference counts, cursor, cached indices, active tracks | add, remove, clear, sort, filter, save, play, next, previous, ref, unref, end of a track | user interfaces, tracks (queue-guard filter), directory and playlist readers |
| playlists and directories (`list/`, `core/dir-read.c`, `util/fntree.h`) | place in the list, the entry that is being read, a stack of directories | read, write | play queue |
| file input and output (`core/file-read.h`, `core/file-write.h`, `util/fcache.h`) | offsets, two read buffers, one write buffer | read, seek; write, seek, flush, close, rename | first and last filters of a track |
| containers (`format/`) and codecs (`acodec/`) | parser, position, pending packet | open, process, close; seek | neighbours in the chain, through `phi_track` |
| audio filters (`afilter/`) | format on both sides, buffer | the same | the same |
| audio devices (`adev/`) | the device's buffer, kept between tracks; its user, its timer | open, write, drain, stop, clear; read | interface filter (pause, seek), device |
| network and tee (`net/`, `core/file-tee.h`) | HTTP client, ring and reference count shared by two tracks | receive, process, read, close | the tracks that play and save |
| terminal (`tui/`, `exe/`) | position shown, seek asked for | pause, seek, stop | running track |
| GUI (`gui/`) | tabs, shown and filtered list, saved files | commands posted from the window's thread | play queue on the main worker |
| Android (`jni/`, `Track`, `Queue`, `Svc`, `SysJobs`, `MainActivity`) | MediaPlayer, lists, audio focus, service, native tracks | commands of the user, the media session and the system | native tracks call back through the main looper |
| module loader (`core/core.c`) | vector of loaded modules under a lock | `mod` | every worker |

What is hard here: a wake-up is sent only when the queue was empty, by a
thread that holds no lock; a track is stopped by one thread while another one
runs, finishes or destroys it; filters are added to, removed from and passed
over in a chain that is running, while data regions are handed on by pointer;
the audio format, the position and a seek are agreed upon by filters that see
each other only through the fields of `phi_track`, at the edges of blocks,
packets, pages and files; the device's buffer outlives the track that opened
it; an entry of the play queue is freed by whoever drops the last reference,
while the cursor, the track and the playlist reader keep pointers without one;
a buffered writer must leave the same file as an unbuffered one whatever the
seeks; a stream is saved by tracks that live longer or shorter than the one
that plays it; row and tab numbers travel from the window's thread to the core;
on Android, what was posted arrives after the user has changed his mind.

## Modules

| module | models | state and actions |
|---|---|---|
| `Mailbox` | what the task queue promises | a FIFO of tasks, the one being called, closed |
| `TaskQueue` | task queue and event loop | the list, the kernel event (`sig`), the worker's program counter (`wpc`) and that of every posting thread (`ppc`). One action per step another thread can observe |
| `Track` | life of a track | `st` is the atomic state word (`ST_*`), `queued` the wake-up task, `rpc` the place in `track_run`/`track_close`, `apc` that of the owner. The compare-exchange and the post of `track_xstop` are separate actions, as are the steps of `track_xstop_all`. A track is of one of three kinds: playback (main worker, guard filter), conversion (another worker, guard filter), tee (main worker, no guard, woken by the tee filter) |
| `Conveyor` | filter chain with any filters | chain and pool, current filter, who owns which data region; a filter may return every result code and insert any number of filters |
| `ChainOps` | the conveyor as operators | `track_run`, `trk_filter_run`, `trk_filter_add` from a chain to a chain, for the three modules below that fill it with the code's own filters |
| `ReadPipe` | file → detector → container → meta → decoder → cue hook, until → interface → output | `phi_track` with seek, position and total; one object per filter; each filter is an operator named after its process function. Sixteen kinds of files: wav, mp3, adts, flac, ape, wavpack, mpc, caf, avi; mp4, mkv and ogg with their codecs |
| `WritePipe` | source → peaks, normalizer, conversion, gain, auto-conv, resampler → encoder → writer → file | the same way; audio carries the format it really has beside the one its reader believes in |
| `Radio` | HTTP → ICY → tee → …; tee-brg → file | the tasks of the main worker in their order; the server may cut, delay, end or fail; the user stops at any moment |
| `PcmConvert` | the arithmetic of samples | a request and its result: `pcm_convert`, channel mixing, gain, peak, with integers of the code's widths (a byte of `Q` bits) that wrap around |
| `Playback` | audio output of four modules | the module's buffer, its user and timer; the track's place (`trk.pc`); the device drains, fails and is lost by itself |
| `Capture` | audio input of every module | the device captures for ever; polled by a timer, or signalled from a thread of its own |
| `Queue` | play queue | the C functions call one another, so each is an operator from a queue state to a queue state and an action applies one of them; actions are the calls of the user interface and the ends of tracks |
| `ListRead` | m3u, pls, cue and directory readers, m3u writer | the parser's results come in pieces cut anywhere; a value that was not copied is garbage in the next piece |
| `GuiLists` | lists of the GUI and of the queue manager | the window's thread posts commands with row and tab numbers (`cmds`), the main worker runs them; quit, save, load. Each C function is an operator from a state of the core to a state; a loop over rows, names or files is a function over the number of turns taken. `ub` is set where the code would use what is not there |
| `Android` | the Android application | the objects of the application (`app`), the native tracks (`jobs`), the saved files (`disk`); one message of the main looper is one action |
| `FileWrite` | file output | directory, buffer, offsets; `Open`, `Call`, `Buffered`, `Flush`, `WriteFails`, `Close` |
| `FileRead` | file input | cache of two intervals; `CacheHit`, `CacheMiss`, `ReadFails` with any seek |
| `Workers` | pool of workers | the unlocked scan, one counter per step, and the locked creation |
| `Timers` | timers of a worker | real clock and the worker's idea of it, kernel timer, timer queue |
| `TaskQueueProofs`, `WorkersProofs`, `TrackProofs`, `QueueProofs`, `FilesProofs`, `AudioProofs`, `AndroidProofs`, `GuiProofs` | proofs | about `TaskQueue`; `Workers` and `Timers`; `Track` and `Conveyor`; `Queue`; `FileRead` and `FileWrite`; `Playback` and `Capture`; `Android`; `GuiLists` |
| `MC*` | constants for TLC | where two components that share no state are in one run, a variable `part`, chosen at the start, says which of them a behaviour is about, so the state spaces add |

External, modelled from how the code uses it: kernel queues and timers, the
timer queue and file calls of `ffsys`, the parsers and writers of `avpack`, the
codecs, the resampler and the normalizer, `ffaudio` and the device behind it,
netmill, MediaPlayer, the audio focus, the services and the looper of Android.

## Runs

Every run ends within five minutes with two workers. A property that is the
conjunction of named parts is broken up here.

| run | bounds | shows |
|---|---|---|
| `task_queue` | worker and two other threads, two tasks, four posts | `TypeOK`; `NoLostWakeup`: a queued task never waits for a wake-up nobody sends; `FirstStaysFirst`: the unlocked peek is safe; `NoLostPost`: a post is followed by a call entered after it; `StopEndsLoop`; `ImplementsMailbox`: the detailed queue implements `Mailbox` including its fairness |
| `track` | two tracks of any kind; a chain with a pool of four filters | `NoUseAfterFree` (playback); `OwnerDecides`: a track with a guard is freed only after `stop()`, its owner's pointer is valid until then; `EndsOnce`: filters are closed once, a stop in time reaches them, the list of tracks is exact; `ChainSound`: the current filter is in the chain, the chain fits the pool, a data region lives until its reader asks for more, a filter that returned `PHI_OK` gets more input; `EveryFilterClosed` |
| `track_live` | two tracks, playback or tee | `StopLeadsToFree`: a stopped track is freed, whatever its state when the stop arrives |
| `queue` | three entries, two tracks at a time, directories of up to two files in order with repeat, playlists at random, one reference of the user; lists of three entries, cue sheets of three tracks with every pregap option, a tree of twelve names with filters and unreadable directories | `EntriesLive`: reference counts exact, cursor and back pointers live, cached indices flagged when stale; `AtMostOnePlaying`; `NextIsSuccessor`; `ListsExpanded`: what is listed is in the queue, in order, each once, with its own meta data and bounds, however the file is cut into pieces |
| `files` | write: buffer 3, inputs up to 4, files up to 6, three calls, every combination of `name_tmp` and `overwrite`; read: file 9, buffer 3, alignment 2, three seeks | `WrittenAsAsked`: the file an unbuffered writer would leave, complete if finished; `ReadsRight`: the bytes asked for, and the end only at the end |
| `worker` | three threads, two workers; two timers, delays 1 and 3, five ticks | `PoolExact`, `AssignReturns`; `TimersServed`: the kernel timer ticks while a timer waits, none is late, the kernel timer stops only when nobody needs it |
| `audio` | two tracks, two formats, a buffer of two units, two commands, one fault; recording: a buffer of two units, three commands, three faults | `BufferOwned`: the buffer, its timer and its format are those of the running track, an idle buffer is closed; `PlaysAsAsked`: silent while paused, nothing old after a seek; `WaitingIsWoken`; `RecordsRight`; `CapturedIsRead` |
| `reading` | four packets of three samples, pages of two packets, every kind of file, complete or cut anywhere, parts of cue sheets, one seek at any moment; three streams with titles at the start, next to each other and at the end, a ring of three units, four files | `FileHeard`: no gap, a seek lands where the reader can go, the position shown is that of the sample heard, a complete file is heard in full and ends cleanly; `StreamKept`: played and saved in order, a file for each title, the ring freed by its last user; `EveryTrackEnds` |
| `writing` | inputs of one to five samples in blocks of one to three, every container, codec, wish of the user and source; samples of every format, one, two, six or eight channels, bytes of two bits | `FileComplete`: all samples written, headers and page positions true, only what is unsupported fails; `LayoutAgrees`: each filter's idea of the format is right; `SamplesKept`: value, channel and level are kept up to a step of the coarser format |
| `gui` | five lists, five entries, two tracks, four commands of which two wait, one restart | `ListsExact`: reference counts, tabs and the rows of the filtered list; `CalmIsSafe`: commands given one at a time meet no row, tab or list that is not there; `ListsRestored` |
| `android` | lists of three and one track, one of them missing, four sets of options, two or three commands, three native tracks, one restart | `PlayerHeld`: player, focus and service follow the track; `CursorOnTrack`: the position follows its track, and nothing throws; `RecordingsHeld`; `ListsReloaded`; `NextFollows` |
| `gui_trash` | as `gui` | a disagreement, see below |

Why the bounds are enough. Two threads other than the worker, two tasks and
four posts contain every race of two posts, or of a post and a stop, with one
pass of the worker. Two tracks are needed for the list and for `stop-all`, and
a third adds nothing that two do not do to each other. Four filters give a
first, a last and a middle one, and a full pool after one insertion. Three
entries give a predecessor, a current entry and a successor. The file sizes
contain inputs smaller than, equal to and larger than the buffer, gaps,
overlaps, and reads across both buffers. Two playing tracks are the one that
leaves the device's buffer and the one that finds it, with two formats that
agree or not. Four packets in pages of two give a first, a middle and a last
packet, a page in the middle and one cut short; three samples in a packet a
position inside it. A ring of three units is filled and overrun by the longest
stream. Up to five samples in frames of two and buffers of two to four give
empty, full and partial last frames. With bytes of two bits every sum and shift
can overflow as it does with eight. Two pending commands are one that changes
what the other refers to. Three commands on Android reach a track that plays
behind a list that has changed.
Entries of `Queue` and tracks in `MCTrack` are interchangeable: symmetry is
used there for invariants only.

Conditions in the properties. Some hold only under a condition which the code
needs: `CalmIsSafe` (commands one at a time, and no list closed that plays or
stands before the default one), `CursorOnTrack` and `ListsReloaded` (no list
closed or sorted, no empty list saved), `NextFollows` (no command while a
track is going to be started, and lists in the order in which their entries were
added), `FileHeard` and
`FileComplete` (the kinds of files listed under "Disagreements" are exempt from
the part they break). What happens without the condition is listed there.

Fairness. `TaskQueue`: the kernel schedules a thread that is inside
`zzkq_tq_post` or `zzkq_stop`, and the worker unless it sleeps; it sleeps
until it is signalled, no other kernel event is promised. `Track`: the
worker serves its task queue in order, which is what `task_queue` shows, so
strong fairness of the steps of a track; filters let go of the worker again
and again and end the chain when they are called with `PHI_FSTOP`; nobody has
to stop a track. `Workers`: threads are scheduled, and a spin lock that is
free again and again is got. `ReadPipe` and `Radio`: the worker runs the tasks
it has, the network library reports what it has received or that it has failed,
the device plays what it was given; the user does nothing in particular.
`Capture`: the worker runs its tasks and timers.

## Proofs

Every theorem is of the form "in every reachable state", for any value of the
constants that satisfies the assumptions named beside it. Sets of tracks and
threads are finite; bounds that only keep TLC's state space small (posts, seeks,
commands, faults, sizes) are any natural number. Each safety property rests on an
inductive invariant, a theorem of its own; there is one lemma for each action of
the specification, or for each operator an action is built from.

| module | theorem | states | assumes |
|---|---|---|---|
| `TaskQueueProofs` | `TypeCorrect`, `WakeupNeverLost`, `PeekIsSafe`, `PostNeverLost` | `TypeOK`, `NoLostWakeup`, `FirstStaysFirst`, `NoLostPost` | the worker is a thread, `None` is no task |
| | `RefinesMailbox` | the safety part of `ImplementsMailbox` | the same |
| `WorkersProofs` | `PoolIsExact`, `PoolTypes` | `PoolExact`, and that no counter falls below zero | a pool of at least one worker |
| | `TimersAreServed` | `TimersServed` | delays and ticks of at least one (`TimersAssumptions`) |
| `TrackProofs` | `NoTrackUsedAfterFree`, `OwnersDecide`, `TracksEndOnce` | `NoUseAfterFree`, `OwnerDecides`, `EndsOnce` | finitely many tracks, any kinds |
| | `ChainIsSound`, `FiltersAllClosed`, `FiltersClosedInReverse` | `ChainSound`, `EveryFilterClosed`, `ClosedInReverse` | a pool of at least one filter |
| `QueueProofs` | `EntriesStayLive`, `OnePlaysAtMost`, `NextFollowsCurrent`, `ActiveIsExact` | `EntriesLive`, `AtMostOnePlaying`, `NextIsSuccessor`, `ActiveExact` | finitely many tracks; directories of at most two files, as in the model |
| `FilesProofs` | `ReadsAreRight` | `ReadsRight` | `Align <= Cap` |
| | `FileIsAsAsked` | `WrittenAsAsked` | a buffer of at least one byte (`WriteAssumptions`) |
| `AudioProofs` | `RecordingIsRight` | `RecordsRight` | a device of at least one unit (`CaptAssumptions`) |
| | `BufferHasOneOwner`, `OutputIsWoken`, `CommandsAreObeyed` | `BufferOwned`, `WaitingIsWoken`, `PlaysAsAsked` | a buffer, a track and blocks of at least one unit (`PlayAssumptions`) |
| `AndroidProofs` | `PlayerIsHeld`, `RecordingsAreHeld`, `CursorStaysOnTrack`, `ListsAreReloaded` | `PlayerHeld`, `RecordingsHeld`, `CursorOnTrack`, `ListsReloaded` | at most three lists at the first start, the four filters in any order (`AndroidAssumption`) |
| | `NextIsFollowed` | `NextFollows` | the same |
| `GuiProofs` | `GuiListsExact`, `GuiCalmIsSafe`, `GuiListsRestored` | `ListsExact`, `CalmIsSafe`, `ListsRestored` | one list at least; a filter's text is not empty (the empty one is a command of its own); the saved lists fit the entries there are (`GuiAssumption`) |

`Align <= Cap` holds unless the user asks for less than the alignment: the
buffer has 64 KB by default (`core/file-read.h:36`), the alignment is 4 KB, and
`-rbuffer` takes any number of KB. With `-rbuffer` of 1 to 3 the file may end
early: `DoneAtEnd` under "Disagreements".

The arguments, and why the invariants are what they are:

* Task queue, `QueueInv`. The four properties need one another: that a task is
  linked once makes unlinking the first element leave the tail; that the worker
  alone unlinks makes the peeked element stay first; that the event is consumed
  before the queue is looked at is visible only together with what the worker has
  still to dispatch. Two conjuncts about the worker's locals close the induction.
  For the refinement, `Unlink` of the first element is the mailbox's `Tail`; every
  other step maps to a step of the mailbox or changes nothing it sees.
* Pool, `PoolInv`. That only the newest worker may not be set up is not
  inductive: it needs that one thread at a time creates a worker (`OneCreator`)
  and that this worker is the newest (`CreatesNewest`).
* Timers, `TimersInv`. "None is late" follows from three facts about queued ones:
  the next tick is ahead and close (`TickAhead`), a timer is queued for the time
  it was set for by the worker's idea of the time (`QueuedInTime`), and the next
  tick reaches it in time (`NextTickInTime`).
* Tracks, `TrackInv`. One conjunct for each track (`TrackGood`) relates the state
  word, the place of the worker, the lists, and what the owner still holds;
  `OneThingAtATime` says what the main worker cannot interleave. A step touches one
  track, so one lemma carries the others (`OneTrackInv`).
* Chain, `ConveyorInv`. `Sound`: along the chain each filter holds data of one
  before it, and one that said `PHI_OK` lies behind the current one unless the
  chain is going forward. `CloseInOrder` relates what is closed to the place of the
  closing loop.
* Play queue, `QueueInv`. `Good(s, R, x)` is said of a state between two C
  functions: the user holds the entries in `R` and the function that is running
  holds `x`. Each function is shown to lead from such a state to such a state, so
  `qe_close` → `q_play_next` → `q_play` → `qe_play` → `qe_unref` is composed of
  lemmas in the order of the calls. At most one track plays because a playing track
  is that of the entry under the cursor (`CursorPlays`); the cursor, which holds no
  reference, is cleared with the entry (`CursorPoints`). "Next" rests on
  `FlagsExact`, which tells whether the cached index is to be looked up, and on the
  search finding an entry that is listed once.
* File input, `ReadInv`: what a buffer says it holds is in the file and is what is
  there.
* File output, `WriteInv`: at every step the file with the buffer laid over it, and
  with the rest of the input over that, is what was asked for; the offsets agree
  with each other between two calls, in the loop, and at the end.
* Audio input, `CaptInv`: what the device holds continues what the chain has
  (`InStep`), and the callback is switched off before its object is freed
  (`OffInTime`).
* Audio output, `PlayInv`: who owns the module's buffer and timer (`ModuleOwns`),
  the formats of what is in the buffers, when a buffer may be without a user and
  a timer (`LooseBuffer`), where the negotiation with auto-conv stands, and what a
  waiting output can rely on. `AskInv` adds pauses and seeks: a seek clears what lies
  in the filters and the device before anything newer gets there (`ClearPending`,
  `DeviceFresh`, `ChainFresh`).
* Android, `AndroidInv`. A message of the looper is a composition of functions, and
  in the middle of one the filters disagree: `Stays`, `Sound` and `Fine` say what
  holds before and after each function, `Opening` and `Closing` what holds when
  some of the four filters have been called, whichever these are, so the order
  of the filters does not matter. `Leads` collects what a step has to establish,
  once for all commands. That the lists are reloaded needs two facts about the
  files: a list that is not marked as modified is in its file or empty (`FilesHeld`),
  and the file behind the last one is absent, so that the loading stops there
  (`GoalSaved`). Nothing is said of the cursor and the files once the user has
  closed or sorted a list (`ses.moved`): the code does not keep them then.
* What is played next, `FollowInv`. An entry's number is its place in the order in
  which the entries were added. While a track plays or has just ended, the
  position is its own or, if it was removed, the place where it was: those in
  front have smaller numbers, the others greater ones (`Split`). At most one
  message or native track is going to start a track (`OneStarter`, `Waits`), and
  none while one plays. A state in which nothing is going to be started is `Calm`;
  each function leads from a calm state to one in which `Flow` holds and keeps the
  order of every list (`Orderly`), the files included. `NextFollows` says nothing
  once a list is out of order or the user has given a command while a track was
  going to be started (`ses.crossed`).

* GUI, `GuiInv`. `Sound` is said of the core's state and has one part for each thing
  that must fit together: the counters (`Counted`), who plays (`TracksOk`), that a
  list shows an entry once and only live queues show any (`ListsOk`), that a list but
  the filtered one shows entries of its own (`OwnOk`), the filter's matches, and the
  tabs (`TabsOk`). None of the three properties is inductive: that a counter is exact
  needs that the entry is in a list once and that the filtered list, of whose end
  nobody is told, gives back its references when the shown list changes; that a tab
  has a queue needs that the filtered list is the only queue without a tab. `Counted(s, H, x)` is what holds
  in the middle of a function, which holds a reference to the entries of `H` and has
  not yet counted, or counts no more, the list `x`. `Leads(s, u)` collects what a
  command keeps; `HandledLeads` has one step for each command of `corecmd_handler`.
  `CalmInv` adds what a command needs to find its rows: the queues of live entries
  are live (`Home`), the default position is that of a list before the filtered one
  (`DefaultOk`), and the one command that waits was given for the rows there are
  (`Fitting`). `SavedInv` relates the files to the lists at the time of saving, and the
  lists to the files after the loading; that the loading stops at the right file is
  that `lists_save` removes the one behind the last. Proving it has found an error of the
  model: the position `q_find` returns was a choice that could be "none" though the
  entry was listed (`PosOf` now).

Before a proof was begun, the invariant was an invariant of a TLC run. The
operations on lists are lemmas about all sequences: `InsertElements`,
`InsertListed`, `RemoveElements`, `RemoveListed` and `Sorted` in `QueueProofs`,
`InsertAtElements` and its like in `TrackProofs`, `KeepElements`, `KeepOnce`, `KeepBut`
and `KeepKeep` about the filtering of a sequence in `GuiProofs`. An induction over the
length of a sequence or the turns of a loop is made there without the library's
induction theorems: the numbers for which the statement fails are a set, and if it were
not empty it would have a least element (`NatLeast`, from the well-foundedness of `<`).

Only model-checked:

* liveness: `StopEndsLoop`, `StopLeadsToFree`, `AssignReturns`, `CapturedIsRead`,
  `EveryTrackEnds`, and the fairness part of `ImplementsMailbox`. The
  prover has no rules for ENABLED and fairness that would serve here;
* `ReadPipe`, `WritePipe`, `Radio`, `PcmConvert` and `ListRead`: what they say is
  about the result of recursive functions over a file, a stream, a sample's bits or a
  list. The least-counterexample argument of `GuiProofs` needs an invariant of the
  recursion; there it is `Sound`, while here it would be a specification of each of the
  parsers and codecs, whose states differ from one kind of file to the next;
* `Queue` with any number of files in a directory, which takes an induction over the
  files inside a step of the specification;
* the definitions under "Disagreements", which do not hold.

## Disagreements

Kept as a run: `gui_trash`. `file_del` (`gui/mod.c:86`, "Trash all selected
files") looks rows up by numbers the window took earlier; if the list was
sorted, cleared or shortened or another tab was selected meanwhile, other files
are trashed.

Stated by a definition that TLC refutes when it is checked as an invariant or
property of the run named here.

| definition | run | what happens |
|---|---|---|
| `Track!ConversionNoUseAfterFree` | `track` | `track_xstop` (`core/track.c:436`) posts the task after its compare-exchange; a track on another worker may see the new state, finish and take its task back in between; the task is then queued for a freed track |
| `Track!ConversionStopReachesFilters` | `track` | a stop that arrives after the last look at the state (`core/track.c:350`) makes the compare-exchange at 407 fail; the filters are closed without `PHI_FSTOP`, and queue-guard starts the next entry |
| `Track!TeeFreedOnlyAfterStop` | `track` | `track_run` destroys a finished track whoever woke it (`core/track.c:342`) |
| `Track!TeePointerValid` | `track` | `track_xstop_all` destroys a finished track to which the tee filter still refers (`core/track.c:454`) |
| `Track!StopAllCountsIssued` | `track` | `tracks.len` is read before the lock is taken (`core/track.c:449`) |
| `Queue!PrevIsPredecessor` | `queue` | `q_play_prev` (`queue/qu.c:317`) uses the cached index, `q_play_next` refreshes it |
| `Queue!RandomHasChoice` | `queue` | `q_random` (`queue/qu.c:225`) divides by zero when the list has become empty |
| `Queue!WaitsForRunningExpand` | `queue` | `expand` stays set after an expansion that found nothing; the entry is waited for (`queue/ent.h:106`) |
| `Queue!ExpandedIsPlayed` | `queue`, with four entries and without symmetry | an entry other than the first file of the directory is played when the list changed meanwhile (`queue/ent.h:89`) |
| `Queue!ReaderPointerLive` | `queue` | `m3u_add` keeps an uncounted pointer to an entry the user may remove (`list/m3u-read.h:70`) |
| `FileWrite!OldKeptUntilDone` | `files` | `fw_close` of an unfinished track (`core/file-write.h:47`) removes the final name and not the temporary file |
| `FileRead!DoneAtEnd` | `files` with `Cap = 1` | a buffer smaller than the alignment ends the file early (`core/file-read.h:95`) |
| `Workers!AssignedIsReady` | `worker` | `workers.len` counts a worker that is not set up yet (`core/worker.h:263`) |
| `Workers!AvailableIsNumber` | `worker` | `wrkx_available` returns 0 or 1, not a number (`core/worker.h:224`) |
| `Timers!NeverEarly` | `worker` | `wrk_timer` (`core/worker.h:99`) counts from the last tick, which may be long ago when the kernel timer was suspended |
| `Timers!TicksAfterFailure` | `worker` | `rtask.active` stays set when `fftimer_start` fails (`util/kq-timer.h:40`); no timer of the worker is called any more |
| `Capture!PausedRecordsNothing` | `audio` | pausing a recording has no effect (`tui/rec.h:83`) |
| `ReadPipe!PartBegins` | `reading` | the beginning of a track of a cue sheet is cut to whole seconds (`cdframes_to_msec`, `list/cue-read.c:328`) |
| `Radio!OutWaitsForStop` | `reading` | the tee wakes a saving track that has finished, which frees it (`core/track.c:410`: "waiting for stop()") |
| `WritePipe!LayoutTold` | `writing` | when channels are converted before the resampler, it is not told the layout (`afilter/conv.c:110`) |
| `WritePipe!FlacFrameMade` | `writing` | the FLAC encoder asserts that a full block was encoded, and counts the last frame wrong |
| `PcmConvert!Narrowed` | `writing` | 32-bit to 16-bit takes the low half |
| `GuiLists!QuitSaves` | `gui` | `gui_stop` stops the core from the window's thread; saving the lists, which is posted, may not run |
| `GuiLists!FilterOfShown` | `gui` | a file added to the conversion list from a filtered list leaves the filter over another tab |
| `GuiLists!OneListPlays` | `gui` | playing in a second list does not stop the first |
| `Android!ListsKept` | `android` | only modified lists are written: after a list was closed, the files that follow it are not moved up; an empty new list has no file and ends the loading |
| `Android!RepeatsAll` | `android` | `play_delta` (`Queue.java:345`) compares with `>` for the position behind the last: "Repeat All" stops there |
| `Android!RecAsked` | `android` | a recording that ended by itself posts `rec_click`; if the user has stopped it meanwhile a new one starts |

Met while modelling, and kept out of the properties by a condition or by the
choice of what is modelled:

* Devices. A pause before the device is open leaves the track playing while it
  is shown as paused (`adev/audio-play.h:166`); a seek while paused resumes; a
  seek while the output drains ends the track in error. directsound opens its
  buffer again without freeing the first; wasapi keeps it after a natural end;
  alsa and wasapi keep it, without a timer, if the format they ask for cannot be
  had; `dsnd_in_close` does not free its object.
* Reading. avi never clears `seek_req`, and the mpeg decoder drops its input
  while it is set; caf never serves a seek; a truncated mpc ends in an error of
  the conveyor; adts cannot seek back and reports the end of a frame; opus, vorbis
  and flac in ogg keep or miss the position of a seek inside the page they are
  in; the opus position includes the pre-skip; mkv positions are rounded; the AAC
  decoder's cache shows a wrong position for a short file; mp3 plays the
  encoder's delay after a seek to 0; the cue hook adds its offset twice for ape,
  wv and mp3, and lowers `audio.total`, which the mpeg decoder's padding compares with
  an absolute position; `info` of caf with alac and mkv with vorbis fails.
* Writing. The normalizer loses the first block; the resampler drops what does
  not fit its buffer of a second; a FLAC file to stdout gets a second header,
  mp4 to stdout fails, a recorded FLAC keeps a length of 0; normalization or
  24-bit input with a change of the rate fails; mkv copied into ogg gives the
  last packet its start as end.
* Samples. 24-bit to mono writes nothing; `chan_mask` returns -1 where its
  caller tests 0; f64, 8-bit and 24-in-32-bit samples cannot be mixed.
* Radio. `meta_changed` is reset by the interface only, so without it the tee
  opens another file for the same title; a title known at the first call
  starts a file at the second.
* Lists. In pls files `trk_idx` is local: an entry is lost when a piece ends
  between two entries; two `#EXTINF` lines in different pieces free a borrowed
  pointer; a cue sheet with several files loses the last track of each but the
  last; `INDEX 02` in the first track makes a track; relative names saved to m3u
  are resolved against the list's directory; a tree of more than 64 levels uses
  a null block (`util/fntree.h:300`).
* GUI. `qm_rm` leaves `selected` alone; a list closed while its tracks run
  dangles in `qe_close`; rows that are gone are dereferenced; a longer but
  different filter text narrows the old result.
* Android. Two quick plays while tags are read: the second fails to open, and
  with `rm_on_err` its entry is removed; a stop while tags are read is ignored;
  a posted "next" overrides what was pressed meanwhile; a focus request denied
  during a call skips through the list; "previous" at the second track with
  Repeat goes to the last; closing a list leaves `q_active`; tags read for a
  closed list are stored in a freed queue; a pause while seeking is ignored;
  `transient_pause` survives the user's own pause; `clear` of another list resets
  the active position; the delete dialog keeps a position, not a file.

## Not modelled

* Module loader: shared libraries of the process; what is left without `dlopen`
  is one vector under a lock.
* Slots of kernel events and their side bit (`util/kq.h`), the teardown of
  workers, the variables in output names, the conversion mode of the play
  queue on several workers: single threaded, pure formatting, or (the last)
  a product of `Queue` and `Workers` too large for TLC together with the rest.
* oss and coreaudio: their code does not agree with the current `adev/audio.h`.
* The other windows of the GUI and activities of the Android application, keys,
  options, printing: widgets and text.
* Contents and editing of tags, the arithmetic of resampler and normalizer, codecs
  and containers themselves: in libraries outside the repository.
* `3pt/`, `alib3/`: build files, tables and wrappers of third-party code.
* Android has no liveness: what it waits for are events of the system, and
  ENABLED of the whole step is too costly for TLC there.
