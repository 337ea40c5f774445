# A verification project for sitecopy

sitecopy keeps a copy of a local directory tree on a server. It never compares
the two directly: it keeps an *info file* that says what it believes to be on
the server (the *stored state*), compares it with the local files (the *local
state*), and on `--update` makes the changes on the server, one driver call at a
time, recording each change as done. Everything depends on the two being
merged correctly into one list, and on what is recorded being what the server
really has, after errors, lost connections, kills and edits at the wrong moment.
That is what this project models, checks with TLC and proves with TLAPS.

## 1. Inventory

| Component | State | Operations | Talks to |
|---|---|---|---|
| file list (`sitefiles.c`, `sitesi.h`, `sites.h`) | `site->files` (doubly linked list of `site_file`, each with a local and a stored state and a cached diff), counters `num*`, totals, two flags | `file_set_local`, `file_set_stored`, `file_set_diff`, `file_uploaded`, `file_downloaded`, `file_delete`, `file_compare` | called by all the rest |
| update engine (`sites.c`) | position in `handlers[]` and in the list, `ret` | `site_update` and its passes | protocol driver, front-end callbacks |
| synchronize, fetch, verify, catch-up, init (`sites.c`) | as above | `site_synch`, `site_fetch`, `site_verify`, `site_catchup`, `site_initialize` | protocol driver, local disk |
| local scan (`sites.c`) | directory stack | `site_read_local_state` | file list |
| info file (`sitestore.c`) | the XML file, `doc` of the parser | `site_open_storage_file`, `site_write_stored_state`, `site_read_stored_state` | file list |
| FTP driver (`ftp.c`, `ftpdriver.c`) | session: connected, cwd, transfer type | `ftp_put`, `ftp_put_cond`, `ftp_move`, ... with reconnection and retries | the server |
| other drivers (`davdriver.c`, `sftpdriver.c`, `rshdriver.c`, `nulldriver.c`) | session | the same table of functions | the server |
| LIST parser (`lsparser.c`) | current directory of the listing | `ls_parse`, `ls_pflist_add` | FTP, SFTP and rsh drivers |
| rcfile (`rcfile.c`) | the list of sites, the default site, the site being read | `rcfile_read`, `rcfile_verify`, `rcfile_write` | console |
| console (`console_fe.c`) | action, options, sites | `verify_sites`, `act_on_site`, `fe_can_update` | all |

What is hard here. The list is merged in whatever order `readdir` and the info
file give, and one entry can take a state away from another (moves, renames, the
"shove"). The counters are only ever adjusted. An upload takes up to five driver
calls, each of which can fail, be carried out without an answer, or break half
way. The info file is truncated before the update and written after it. The
local files are read once for the comparison and again for the upload. A fetch rebuilds the
stored state from listings made one directory at a time, while others may write to
the server, and has to guess which local files it matches when times cannot be
compared. A synchronize changes the local disk in three loops, and a download
truncates the file before anything is asked of the server. A site's options come
from lines that may stand in any order in two places. `PROJECT.json` lists these hazards, each at its line, with
the properties that would catch it going wrong.

What makes each part correct:

- *file list*: the cached diff of every entry is what its two states say now;
  a merge adds the state that was read and changes no other; counters, totals and flags
  are what a recount would give; every entry stands for a file.
- *update*: an entry recorded as unchanged is on the server with that content
  (and mode); a success means that the server is a mirror; `nodelete`,
  `tempupload` and `safe` keep their promises at every step; a published file is
  never missing in between.
- *FTP driver*: what the session remembers of the server is true of the connection
  it has; a call changes nothing but its file, success means that the work is done,
  however often the connection broke; every call returns.
- *fetch*: a success has found every file that is not excluded, once, however deep it
  lies and in whatever order it was listed; a file changed behind the back of safe
  mode is marked.
- *synchronize*: a success means a copy; what is excluded or unchanged is left alone;
  a site without a stored state loses nothing; the remains of a broken download are never taken for
  the file; when faults stop, fetching and synchronizing ends with a copy.
- *rcfile*: a site has the settings of the default site and its own and nothing
  of its neighbours, however the lines are written; a wrong line is rejected and no
  other; what is accepted is what the engine has code for; what is written can be
  read back.
- *over several runs*: what is saved is what is read; the info file can be read
  whenever the program has ended; when faults stop, repeated runs end with a
  mirror.

## 2. Modules

| Module | Models | Extends |
|---|---|---|
| `FileList` | `struct site`, `struct site_file`, and every operator on them: `file_compare`, `file_set`, the counters, `file_uploaded`, ... No variables | |
| `SiteFiles` | the file list as a state machine, under every operation that `sites.c`, `sitestore.c` and the front end perform on it | `FileList` |
| `Server` | the tree on the FTP server and what a driver call may answer and do (external, with the driver's own mapping of codes) | `FileList` |
| `DriverCall` | what the engine is promised of a driver call, as a specification of its own: what may change while it lasts, and what `SITE_OK` and `SITE_FAILED` mean | |
| `FtpSession` | the FTP driver: a session of `ftp.c` under every operation of `ftpdriver.c`, with lost connections, retries, transfer types, `CWD`, active and passive data connections | instantiates `DriverCall` |
| `SiteOptions` | the combinations of options that the engine has code for | |
| `Drivers` | what a call of the WebDAV, rsh and SFTP drivers makes of the tree, and the code it returns | `Server`, `SiteOptions` |
| `SiteUpdate` | `site_update`: the passes of `handlers[]`, one action per driver call | `Drivers` |
| `Storage` | the info file: the items that are written, and how they are read into the list | `FileList` |
| `SiteRun` | the life of a site: the user edits, `verify_sites` reads, `act_on_site` updates and saves; kills, `--init`, others who write to the server | `SiteUpdate`, `Storage` |
| `LsParser` | `ls_parse` with its context, the list of `ls_pflist_add`, the loops of the drivers over a listing. No variables | |
| `LocalDisk` | the local files, and `site_read_local_state` | `Server`, `Storage` |
| `SiteFetch` | `site_fetch`, one listing or one request about a file per step, `munge_modtime`, `site_verify` | `LocalDisk`, `LsParser` |
| `SiteSynch` | `site_synch`: its three loops, one system call or download per step | `LocalDisk` |
| `SiteCopy` | a copy kept with `--fetch`, `--synchronize` and `--verify`: the commands of `act_on_site`, the writing of the info file in two steps, `--init`, the user, others on the server, kills | `SiteFetch`, `SiteSynch` |
| `Rcfile` | `rcfile_read` line by line, `rcfile_verify` site by site, `rcfile_write` | `SiteOptions` |
| `MCSiteFiles`, `MCSiteRun`, `MCFtpSession`, `MCSiteCopy`, `MCRcfile` | the instances for TLC | |
| `FileList_lemmas` | lemmas: what the operators of `FileList` and the reading and writing of the info file keep of an exact list, of its names and of its states | `Storage`, `Folds_lemmas` |
| `SiteFiles_proofs` | the theorems about `SiteFiles` | `SiteFiles`, `FileList_lemmas` |
| `FtpSession_proofs` | the theorems about the state of a session, and that it implements `DriverCall` | `FtpSession` |
| `SiteUpdate_lemmas` | lemmas: what a driver call may make of the tree, and a step of the engine of everything | `SiteUpdate`, `FileList_lemmas` |
| `SiteRun_proofs` | the theorems about the runs of a site | `SiteRun`, `SiteUpdate_lemmas` |
| `SiteCopy_proofs` | the theorems about a copy kept with fetch and synchronize | `SiteCopy`, `FileList_lemmas` |
| `Folds_lemmas` | lemmas about recursive functions, folds and sequences of sequences | |
| `Rcfile_proofs` | the theorems about `Rcfile` | `Rcfile`, `Folds_lemmas` |

How state and actions correspond to the code:

- A *file state* is a name, a content and a mode. The content stands for what
  the state method tells apart (time and size, or checksum) together with the
  ASCII flag; for a link, its target. `Absent` is a state with `exists ==
  false`. An entry has `st["local"]` and `st["stored"]`, its `diff`, `ignore`,
  `type` and the server modification time of safe mode (0: not known).
- The list is a sequence; `file_insert` appends directories and prepends all
  else, so that directories come after files and parents before children.
- `file_set` is written as in the code: the direct match, the move and rename
  candidates, the preference for a move over a changed direct match, and the
  shove of a state that the entry already had.
- `site_stats_update` recomputes two flags after every change; here they are
  operators of the counters.
- In `SiteUpdate` the loop position is (`pass`, `next`, `step`): `step` names the
  driver call that is due for the current entry. Everything the code does
  between two driver calls is one action with the call before it. `Failed` is
  `ret = 1` and the next entry; `Declined` is a "no" to the question of
  `fe_can_update`.
- A conditional upload in safe mode is two steps, as `ftp_put_cond` is an `MDTM`
  and a `STOR`.
- `SiteRun` reads the local names in any order that visits a directory before its
  files, then the items of the info file in their order, with the parser's `doc.server`
  as a variable, since `start_element` does not clear it.
- `OpenStorage` truncates the info file (`fopen` with "w") and opens the session;
  `SaveState` writes the entries that have a stored state.
- `RemoteName` is `file_full_remote`: the identity, or the lower-case name with
  `lowercase`. A place on the server is a remote name with or without the `.in.`
  of a temporary upload.

- In `FtpSession` an operation of the driver is a position `pc` in its code (`mode`,
  `chdir`, `port`, `transfer`, `body`, `close`, ...). At a position where a command is due,
  `execute` pushes a frame on `stack`; `ftp_open` and `run_command` work on the top frame
  and leave what they return in `ret`; the action of that position takes it
  from there. The stack is needed because `ftp_open` calls `set_mode`, and so `execute`,
  to restore the transfer type of a lost connection. A command has a fate: it is
  answered, refused, or the connection is lost before or after the server has carried
  it out. `srv` is the server's end of the connection, reset with it; `srv.unread` holds
  the replies that the client has still to read.
- A path holds nothing, a directory, an old file, somebody else's file (`other`), a part
  of an upload, a complete upload in one of the two transfer types, or (`garbled`) one in
  the wrong type.
- `Implements` instantiates `DriverCall` with the variables `tree`, `local` and `result` of the
  session and with its `call`, to which it adds the places where an upload may land:
  the path asked for, and with `ftp usecwd` also the file of that name in the
  login directory (see `MCFtpCwd`). `SiteUpdate` and `Server` use the calls as `DriverCall` promises
  them.

- In `LocalDisk` and what extends it a content is what the file holds; `local_state`
  computes from it what the state method keeps: the bytes (their checksum), or the
  pair of modification time and size. This is where `munge_modtime` matters, which gives the
  stored state a time that makes the comparison come out. `Now` is `time(NULL)`, and
  `Part` what a broken download leaves.
- `ListDirectory` and the `AskFile`s after it are one turn of the loop of `site_fetch`. The first pops a
  directory, lists it, pushes its subdirectories unless the stack is full and puts its files before the ones
  found earlier. `due` is then what is yet to be asked about these files, one request per step: the times, by the FTP
  driver, and the checksums, by `fetch_checksum_file`, whose failure nobody looks at. The server may change
  before each of them, so that the time or checksum of a file need not be that of the version that was listed,
  and a file may be gone. `FetchDone` is the rest of the function, which touches nothing but the list.
- `OpenInfo` and `SaveFetched` are `site_write_stored_state` after a fetch, which opens, and so empties, the info
  file and then writes it. A kill between the two leaves a file with which `verify_sites` accepts none of the three commands, and
  which `Initialize` (`--init`) replaces.
- A listing passes through `LsParser`: the lines before the entries (a total, a blank line, a
  heading), `.` and `..`, the entries, in any of `Orders`; a garbled line fails the listing.
- In `SiteSynch`, (`loop`, `next`) is the position, and `current` the entry at which the
  loop stops next: `for_each_file` with its tests. A system call that is possible may be
  refused; a download opens the local file first.
- In `Rcfile` a text is a sequence of symbols: white space and the characters the automaton looks
  for, and words. The file is given as its author means it, a sequence of (key, value) lines; each
  step writes the next one in one of its spellings (quoted, escaped, indented, with a
  comment) and reads it as `fgets` and the automaton do. `SettingsAreOwn` compares the
  result with what was meant. `rcfile_write` is a function of the sites, and the property reads its text back.
- `EngineCanDo` is an assumption on the options of `SiteUpdate`, and a conclusion of
  `AcceptedFitsEngine`: what `rcfile_verify` lets pass is what the engine's model takes for granted.
  It admits safe mode with rsh and SFTP, which is accepted although their conditional upload is
  `SITE_UNSUPPORTED`: `Drivers` models what comes of it (see section 3).
- The ports of the rcfile are kept as they are written (`atoi`, and the default port of the protocol that `rcfile_verify` puts
  in the place of none, are left out): no option depends on them. The names of protocols are compared without case,
  of which the model has the spellings of `ProtocolNamed`.

Definitions with the comment "Mutation:" are plausible bugs of the definition
that follows them. Nothing uses them in the specifications; they stand in for
that definition when a property is tested for whether it can fail.

## 3. Runs

Runs that pass:

| Run | Specification and instance | Shows |
|---|---|---|
| `MCMerge` | `MergeSpec`: three names, two in different directories with one base name, one of which may be a file or a directory; two contents; all four combinations of `checkmoved` and `checkrenames`; one ignored name | `DiffCorrect`, `TotalsExact`, `NoNameTwice`, `MergeLosesNothing` (each merge adds the state that is read to the bag of those on its side, and leaves the other side's as it is) in every order of merging |
| `MCSiteFiles` | `Spec`: two names, all file types, two contents, two modes, with `nodelete`, `checkmoved`, permissions `exec` and `all` | `TypeOK`, `DiffCorrect`, `EveryEntryIsAFile`, `CountersExact`, `FlagsExact` under all operations |
| `MCUpdate` | `FairSpec`: a directory, a file in it (or a file in place of the directory) and a file whose remote name is lower-cased; two edited runs; one refused call anywhere; `nodelete` and `keep_going` in all combinations, `tempupload`, WebDAV | `RunTypeOK`, `UnchangedIsOnServer`, `SuccessMeansMirror`, `Converges` |
| `MCModes` | two modes, permissions, directory permissions, `checkmoved`, `nooverwrite`, `tempupload`, `--prompting`, and each of rsh, SFTP and WebDAV once; no faults | `UnchangedIsOnServer`, `SuccessMeansMirror` |
| `MCCrash` | refused calls, lost replies, partial uploads, failed reconnections, and a kill at any step of an update, followed by `--init`; others write to the server between runs; safe mode over FTP and WebDAV | `NoPartialFileVisible`, `NodeleteDeletesNothing`, `PublishedStaysPublished`, `SafeModeKeepsForeign`, and `InfoRoundTrip`, with the server times of safe mode |
| `MCSiteCopy` | `FairSpec` of `SiteCopy`: two directories, one in the other, a file in the lower one, a file beside them and an excluded file; three trees on the server and two on the disk to begin with; one change to a file, on the server between any two calls or locally between two commands; one fault or kill; five sets of options that have FTP, WebDAV and rsh, both state methods, `checkmoved`, `keep_going`, safe mode and permissions | `FetchComplete`, `FetchSeesChange`, `SynchMeansCopy`, `ConnectedForDownload`, `PartIsNoticed`, `UntouchedStays`, `EmptyStateKeepsFiles`, `VerifyMeansPresent`, `SynchConverges`, and `CopyTypeOK` |
| `MCRcfile` | `RcSpec`: files with a default site and two sites, or without one, with every pair of the settings that interact and every protocol; files with a wrong or a silent line at every kind of place; a line that is too long | `SettingsAreOwn`, `RejectsExactlyBad`, `AcceptedFitsEngine`, `WrittenReadsBack`, and `RcTypeOK` |
| `MCFtp` | `FtpSession` with `FairSpec`: one file name in the login directory and in one below it; all operations; active without and passive with `usecwd`; over IPv4 every fault but one (see below) any number of times, over IPv6 all but broken connections | `FtpTypeOK`, `SessionAgrees`, `OpenRecursesOnce`, `Implements`, `Returns` |

Runs in which the code does not do what a comment or the manual says; each is a
finding in `PROJECT.json`, with the sentence it contradicts:

| Run | Property violated | What happens |
|---|---|---|
| `MCKeepGoing` | `UnchangedIsOnServer` | with `checkmoved` and `--keep-going`, the delete of a file is refused and another is then moved over it; two items of one name are saved, one for the deletion that is due and one for the moved file; the next run deletes the file while the entry of the moved one says that it is unchanged |
| `MCNoOverwrite` | `Converges` | with `nooverwrite` the delete succeeds and the upload fails; from then on the delete fails in every run, and the file is never uploaded |
| `MCFtpCwd` | `UploadGoesWhereMeant` | `maybe_chdir` finds the `CWD` unnecessary, `PASV` finds the connection lost and opens a new one, and `STOR` with the bare file name stores the file in the login directory; the upload returns success |
| `MCKilled` | `InfoSurvives` | a signal during the update leaves an empty info file; there is no signal handler |

The same models show more of this kind; they are not kept as runs:

- permissions and a refused call (`Options = {[Option EXCEPT !.perms = "all"]}`, one `refused`
  fault, `ModeTrees`, `UnchangedIsOnServer`): the chmod after an upload fails, its mode is
  recorded as set, and it is never tried again.
- safe mode and a refused call (one `refused` fault, `InfoRoundTrip` asked also of the items without
  a time): an item of the info file without a server modification time is read with the one of an earlier item. A foreign version
  of just that time is then uploaded over, as is one whose time was recorded after a failed
  reconnection (below); so `SafeModeKeepsForeign` speaks of versions newer than the time that is recorded.
- IPv6 and lost connections (`families = {"ipv6"}`, `faults = {"break"}`, passive, `Implements`):
  `EPSV` finds the connection lost, the `TYPE` that should restore the transfer type fails, `PASV`
  is tried next and succeeds on a connection in its default type: a binary file is sent
  as ASCII, and the upload returns success.
- a data socket that fails in `accept` or `close` (fault `unread`, `MaxUnread = 1`,
  `Implements`): the reply to the transfer is not read; every later command reads
  the reply to the one before it, and a refused `MKD` returns success.
- `checkmoved` and two files that exchange their contents (`UnchangedIsOnServer`
  with `Options = {[Option EXCEPT !.checkmoved = TRUE]}`, no faults): the second rename
  finds the first file. `TODO` knows of it.
- SFTP and a fetch or a synchronize: `run_sftp` waits for the next prompt and looks at no answer, so that a `get` that failed
  returns `SITE_OK` (`sftpdriver.c:168-190`, `288-293`) and `synch_files` takes for downloaded what is not: a
  synchronize that succeeds means nothing then. `SiteCopy` is about the other drivers; of rsh it
  assumes that the command returns the status of the remote one, as `ssh` does.
- `tempupload` and a refused rename (`Converges`): the `.in.` file stays, and its
  directory can never be removed once it is deleted locally.
- a failed reconnection during a conditional upload (`Faults = {"reconnect"}`,
  safe mode, with `ftp usecwd`, `UnchangedIsOnServer`): `SITE_CONNECT` falls into `default: /* Success
  case */` of `update_files`.
- an edit while the update runs that is undone afterwards (`EditPcs = {"idle",
  "update"}`, `Converges`): the list records what the scan saw, the server has what the
  upload read.
- an outsider between the check and the upload of safe mode (`OutsiderPcs =
  {"update"}`, `SafeModeKeepsForeign`).
- conditional uploads over rsh and SFTP (`Options` with `safemode`, `UnchangedIsOnServer`):
  `SITE_UNSUPPORTED` falls into the same `default`; nothing is uploaded, and the file is
  recorded as uploaded. It happens to every changed file once a `--fetch` in safe mode has
  recorded server times (`fetch_add_file` sets `server.exists`, with the time 0 that `ls` gives), or
  when the protocol of the site was another one before.
- `checkmoved` and a synchronize (`SynchMeansCopy`, `SynchConverges` without their exceptions): two files
  that exchange their names are renamed over each other, the loop then finds the source
  of the second gone, and since nothing is saved the next synchronize starts from a
  disk on which one of the contents is lost.
- safe mode with `state timesize` and two fetches: the first marks a file that was changed on the
  server, and records its new time; the second finds the times equal and stores the file as
  unchanged (`sites.c:1102-1119`), although the local file is still the old one.
- `keep_going` and a synchronize (`SynchMeansCopy` without its exception): each of
  the three loops of `site_synch` sets `ret` anew, so that what failed in an earlier loop is forgotten.
- more directories side by side than `DIRSTACKSIZE`: the fetch leaves them out and succeeds.
- `symlinks maintain` with rsh or SFTP (`AcceptedFitsEngine` with the clause for all protocols):
  `rcfile_verify` accepts it ("FIXME: rsh checks?"), and `update_links` calls the null `link_create` of
  `rsh_driver`. The manual (`doc/sitecopy.1:554`) says that only the WebDAV driver supports it, and
  `rcfile_verify` refuses it there.
- no `$HOME`, with `-r` and `-p`, and `local ~/...`: `rcfile.c:575` tests `local_root`, which is
  assigned only at line 592, so that `SITE_NOLOCALREL` is never returned and `ne_concat` reads a
  null pointer (the verdict "killed" of the model).
- `rcfile_write` forgets `proxy-*`, `client-cert`, `rsh`, `rcp`, `http secure` and `http tolerant`,
  reverses the lists of patterns, and quotes nothing but them, and these without escapes
  (`WrittenReadsBack` without `Forgotten` and `Writable`).
- `protocol ssh` in the default site leaves the commands `ssh` and `scp` in a site that then says
  `protocol rsh` (`SettingsAreOwn` with "rsh" among the keys).
- a line of the rcfile of `LINESIZE` characters or more is read as two lines.
- two sites of one name share one info file (`rcfile.c:280`).
- `TotalsExact` under `Spec`: `file_downloaded` changes `local.size` before
  `file_set_diff` takes the old size out of the totals.

**Bounds.** `MaxRuns` bounds the runs between which the user edits (after that
the program may still be run); two edited runs are what a fault in one run needs
to be seen by the next. `MaxFaults` is 1: the findings above each need one
fault, and what one run leaves behind is what the next has to live with. `MaxClock`
bounds the server's clock: 1 where times do not matter, 2 in `MCCrash` (the upload of one run, and
the version that an outsider writes before the next). Three names are the least that give a directory, a
file in it and a file beside it, so that moves, deletes in the right order and
name conflicts happen; two contents and two modes are the least that differ. No
symmetry is used: the names have different roles, and liveness is checked.
Deadlock is not checked where the system may stop: a merged list with nothing
left to do, or a site whose bounds are used up.

In `MCSiteCopy` one change and one fault (or kill) may fall at any step of any number of
commands, which run for ever; the change may be one on the server between a listing and the requests about
its files, the kill one while the info file is written. What each of the findings on `site_synch` needs is one of them
between two steps. `site_verify`, which lists one directory, is one step, and the times that the FTP driver asks for
then, which it does not look at, are left out. Two nested directories are what the order of creation and deletion needs, and
more than one listing. Two orders of listing, each the reverse of the other, put children before and
after their parents. `DirStackSize` is 1, which is exactly enough, as at most one directory waits at a time. `EditTime`
gives each change a time of its own: two changes in successive seconds, which the mark
`local.time + 1` cannot tell apart, are outside the instance, and so are names that are
a file on one side and a directory on the other in `SynchConverges` (`NoTypeSwap`): the code removes
directories last.

In `MCRcfile` a line has at most `LineSize` symbols, 14 instead of 128 characters, so that a
file with a line that is too long is in the instance. Two settings per site suffice for what
reads two options (every check of `rcfile_verify` reads at most two), and two sites for
what one may leave to another.

In `MCFtp` nothing is counted: connections may break for ever, and the state is
finite because the code gives up after three tries at each of its three levels
(`ftp_put`, `execute`, and the `execute` inside `ftp_open`), so that the depth of the
search includes every combination of them. Two directories are what tells the
working directory of a new connection from the one remembered, one name is enough as an
operation has one file (and one more for a rename), and both transfer types occur.

**Fairness.** The `FairSpec` of `SiteRun` has weak fairness of the steps of the program (it runs
until it ends; every driver call returns) and of `StartRun` (the user runs
`sitecopy --update` again). There is none for the user's edits, for faults,
kills or outsiders. The `FairSpec` of `FtpSession` has weak fairness of the steps of the
program inside an operation (reads and connects have timeouts, so that each of
them returns), and none for the calls themselves. The `FairSpec` of `SiteCopy` has weak
fairness of `Returns` (the function in execution goes on: its loops are over finite
lists, and every call in them returns) and strong fairness of the user's `--fetch` and
`--synchronize`, since a user who goes on using both, and perhaps `--verify` in between, has
each of them possible again and again, not always; and weak fairness of `Initialize`, as a user whose info file
is corrupt can do nothing else. There is none for edits, faults and kills.

The two liveness properties about sites say what the retries of the user come to: `Converges` (repeated
updates) and `SynchConverges` (repeated fetches and synchronizes). Both need the program to have
left nothing behind that stops every later run, and both were the way to what the runs
`MCNoOverwrite` and the list above show.

## 4. Proofs

TLC checks the instances of section 3; the theorems below hold for every value of the constants
that the `ASSUME`s of the modules allow: any number of names, contents, modes, directories and
options, lists and files of any length, any number of runs, faults and retries. `PROJECT.json`
lists them.

| Theorem | States | Under which further hypotheses |
|---|---|---|
| `ListTyped`, `ListCorrect`, `NoEmptyEntry`, `CountersCorrect`, `FlagsCorrect` | `TypeOK`, `DiffCorrect`, `EveryEntryIsAFile`, `CountersExact`, `FlagsExact` of `SiteFiles` | none |
| `NamesUnique`, `MergeKeepsStates` | `NoNameTwice`, `MergeLosesNothing` of `SiteFiles` | none |
| `RunTyped` | `RunTypeOK` of `SiteRun` | none |
| `PartsStayHidden` | `NoPartialFileVisible` of `SiteRun` | no SFTP together with `tempupload` |
| `NothingIsDeleted` | `NodeleteDeletesNothing` of `SiteRun` | `KeepsTargets` |
| `PublishedStays` | `PublishedStaysPublished` of `SiteRun` | different remote names, no edits during a run, no WebDAV |
| `UnchangedHeld` | `UnchangedIsOnServer` of `SiteRun` | `PlainWorld` |
| `SuccessMirrors` | `SuccessMeansMirror` of `SiteRun` | `MirrorWorld` |
| `ForeignIsKept` | `SafeModeKeepsForeign` of `SiteRun` | different remote names, no edits and no outsiders during a run |
| `InfoReadBack` | `InfoRoundTrip` of `SiteRun` | no edits during a run, no `checkmoved` |
| `FtpTyped`, `RecursesOnce` | `FtpTypeOK`, `OpenRecursesOnce` of `FtpSession` | none |
| `SessionKnowsServer` | `SessionAgrees` of `FtpSession` | `UnreadNever` |
| `SessionImplements` | `Implements`: `FtpSession` refines `DriverCall` | `UnreadNever`, `EpsvUnbroken` |
| `CopyTypeCorrect`, `DownloadsConnected`, `NothingDeletedForNothing`, `VerifiedPresent`, `UntouchedStaysThere` | `CopyTypeOK`, `ConnectedForDownload`, `EmptyStateKeepsFiles`, `VerifyMeansPresent`, `UntouchedStays` of `SiteCopy` | `EveryTime` |
| `BrokenDownloadNoticed` | `PartIsNoticed` of `SiteCopy` | `EveryTime`, `PartIsShort` |
| `SitesTyped`, `AcceptedFits` | `RcTypeOK`, `AcceptedFitsEngine` of `Rcfile` | none |

Each argument is an inductive invariant, which is stronger than the property because the
property alone says too little of the states in between.

**The file list.** `IInv` says that the list is *exact*: every entry satisfies `EntryOK` (its type, its
diff equal to `file_compare` of its states, at least one state), and `Counted`: every counter is the
cardinality of the set of positions that it counts. It also says that names are unique while states
are merged. `FileList_lemmas` shows operator by operator that inserting, replacing and removing an
entry keeps a list exact; the counters need a bijection between the positions before and after.
The interesting case is `file_set`: a moved entry has diff `moved` because
`file_compare` said so of the arguments in one order, and the invariant needs the same answer with
local and stored as the entry has them, which holds because `file_compare` is symmetric when both
states exist; and the entry that a shove leaves is one-sided, so that its diff is the default of
its side. Uniqueness is not kept once entries are uploaded: an entry uploaded over a moved one has
the same stored name as it until `site_destroy_stored`.

**The runs of a site.** `SiteUpdate_lemmas` says of each driver call what it may make of the tree
(`Uploads`, `Moves`, `TreeMoves`, ...), then what a step of the engine may do (`EngineMoves`,
`ControlMoves`, `SiteMoves`), so that the proofs about runs have to look at three kinds of steps and not at all
the actions. `RunInv` is the types, an exact list and an engine that is at rest while
the program does something else. Beyond it,

- `PartsStayHidden` needs `WholeFiles`: with `tempupload` the engine is never at a step that
  uploads under a true name, and *what it is about to rename is whole*. SFTP is left
  out since it takes an upload that broke for a success, so that a part is renamed.
- `NothingIsDeleted` needs `StepsAsked`: the engine is at a delete before an upload only with
  `nooverwrite`, and at a rename only with `tempupload`. `KeepsTargets` excludes the options with
  which a driver removes what is in the way of a rename: MOVE of WebDAV replaces a collection, and `mv`
  puts the file into a directory that has its name.
- `PublishedStays` needs `KeysInv`: no file has two entries in the list or two items in the info
  file, and what was scanned stays in the list; otherwise a file that exists locally could have an entry that
  is deleted. It is violated, and so excluded, where two local files share a remote name (one of them is
  deleted), where a file that the scan did not see comes back during the run, and with WebDAV, whose
  DELETE of a file that has become a collection takes away what is in it.
- `UnchangedHeld` needs `HeldInv`, which says for what each record can be trusted. The stored
  state of an entry of the list that no step is working on, and of an item of a valid info file, is on the server as it says; the
  local state is on the disk. `StepHeld` says what is known of an entry *being* worked on: before the rename the content is
  under the temporary name, before it is recorded under its own, with the mode if no chmod is due. A kill leaves a truncated info file,
  which promises nothing. `KeysInv` is what keeps the step of one entry from disturbing another.
- `SuccessMirrors` adds `PassInv` (an entry that a pass has gone by is settled as long as nothing has
  failed, so that after the last pass every entry is unchanged or ignored) and `KnownInv` (everything on the server is in the
  info file, in the part of it that is still to be read, in the list or under way: nothing is
  there that the program has forgotten).
- `ForeignIsKept` needs `CheckedInv`: between the check and the upload the file on the server has the time that is
  recorded for it, and an upload without a check has no recorded time. `KeysInv` says that no other entry has the name.
- `InfoReadBack` needs `ReadInv`: the stored states of the list are those of the items read so far, each
  once (a bijection that each merge extends by one), and an entry whose item has a server time has that time.
  The time that stays in the parser is replaced by the next item that has one, so that only
  an item without a time is read with that of another. With `checkmoved` an item may be merged into an entry that then has
  its server time taken over by another state.

`PlainWorld` is: FTP, without `checkmoved` and `nooverwrite`; different remote names; edits only between
runs; nobody else writes to the server; a call that fails has done nothing (`Faults` is at most
`{"refused"}`), and with `permissions all` none fails. Each of these is needed: section 3 has the run or
the counterexample for moves, failed chmods, edits during an update, failed
reconnections and the conditional uploads of the other drivers, and a lost reply makes the list
wrong by design (`doc/sitecopy.1:114-124`). WebDAV, rsh and SFTP without those options are left to the runs. `MirrorWorld` adds, for options without `nodelete`,
that the program is not killed (it would forget what it has put on the server, and not delete it) and that with
permissions for directories no call fails (a directory whose chmod was refused is made and not recorded).

**The FTP session.** `TypeInv` says which stack of calls each position may have: the outermost call
of `execute` is the command of the position, and a second is the `TYPE` with which `ftp_open`
restores the transfer type. It is why two activations are enough (`RecursesOnce`): the session's mode
is `unknown` while it is being restored, so that the inner `ftp_open` restores nothing. `AgreeInv` adds what the session knows while a command
is on the way: no reply is left unread, a command is sent over a connection that exists,
what was restored is what the server has. `UnreadNever` (no data connection fails in `accept` or
`close`) is necessary: section 3 tells what happens otherwise.

**The refinement.** A step of the driver must be a step of `DriverCall` or change nothing that the
engine sees. `ImplInv` says what the driver may rely on at each position: the transfer type is that of the call
from `set_mode` to the transfer, or is being restored, or the operation is about to fail
(`ModeKnown`); a relative name is one of the directory asked for or of the login directory
(`NameOK`); the answer to the inner `TYPE` is never taken for the one to the command that waits
(`NoMixup`); the condition of a conditional upload, once checked, holds until the upload
(`ConditionHolds`); what the reply to each command says of the server is true (`AnswerTrue`); a
rename finds the file of its own `RNFR` or none, whatever connections came between (`Renaming`); and a
transfer that the server confirms is complete (`Transferring`). It was checked by TLC as an
invariant of the instance of `MCFtp` before it was proved. `Impl...` lemmas show that each action
keeps it, `Sim...` lemmas that each action is a step that `DriverCall` allows. `EpsvUnbroken` excludes
the networks of the IPv6 finding in section 3: where `EPSV` may lose its connection a file may be sent in
the wrong type, and the refinement is false.

**A copy kept with fetch and synchronize.** `CopyInv` says that the disk and the server are typed, that no
file of the server is what a broken download leaves (`ServerGood`), that the list is exact and each of its states
*good*: what the state method would keep of a file that exists whole (`Good`). It says the same of what was found and of
the info file, that `dirstack` is no longer than `DIRSTACKSIZE`, and that every request that is `due` is about a file that was found,
so that the answer, however late, is put where it belongs (`DueOn`).
The scan, the listing, its parser and the loops that push, merge and destroy are folds and recursive functions: each has a
lemma that gives the sequence of their intermediate values (`KeptTrace`, `PushedAllTrace`, ...), and one that says by
a least counterexample what each value holds. `EveryTime` says that the disk can hold every modification time
(`Times = Nat`); without it `munge_modtime` might ask for a time that no file can have.

- `BrokenDownloadNoticed` follows from the states being good: the item's content is that of a whole file, or a time
  with the size of one, and a part has a checksum of its own, or the size of no whole file. The latter is an assumption
  of the theorem (`PartIsShort`), and of the instance: a part that has the length of another version
  of the file is stored as that version by a fetch with `state timesize`.
- `DownloadsConnected` needs `ConnectionInv`: while the loops run without a session, no entry is
  changed, deleted or ignored. `need_conn` reads counters, and `Counted` says what they count.
- `NothingDeletedForNothing` needs `EmptyInv`: with an empty info file the list holds local states only,
  so that every counter that `Refuses` looks at is zero.
- `VerifiedPresent` is a counting argument. `numremote` is zero when as many names of the listing are stored
  as there are stored entries; names are listed once (`Listed`) and stored once (`Keyed`), so that an injection
  between two finite sets of the same size is a bijection: every stored name was listed.
- `UntouchedStaysThere` needs `UntouchedInv`: the names are kept apart (`Keyed`) by every scan, fetch and info
  file, the directories that have been listed are apart from those on the stack (`WalkedSoFar`), an
  entry that has a local file finds it on the disk with its type (`FilesThere`), and where a directory is
  to be created there is none (`NoDirThere`).

**The rcfile.** `RcInv` says that what is read is typed whatever the lines are and wherever `fgets` cuts
them, that every root ends in a slash, and that `rcfile_verify` begins when all is read and has accepted only sites that fit. `AcceptedFits` needs
no hypothesis on the file: any text, any order of lines.

`Folds_lemmas` proves what the others need of recursive functions and of the folds of the community
modules. The induction theorems of the library take an operator as a parameter and cannot be used;
the lemmas are proved from a minimal counterexample, which exists because every nonempty
set of naturals has a least element.

What the proofs take for granted of the constants is stated in the modules and evaluated by TLC on every
run: `ConstantsAssumption`, `OptionsAssumption`, `ServerAssumption`, `TreeAssumption` (no file is the value `Absent`),
`TypesOfAssumption`, `UpdateAssumption`, `UpdateOptionsAssumption`, `RunAssumption`, `CopyAssumption`, `DiskAssumption`,
`FetchAssumption` (a mode has nine bits), `WorldAssumption`, `FtpAssumption` (the paths of a
rename differ, and no directory is called "x", which is how `ftp.c` marks an unknown one), `RcAssumption`.

**Only model-checked**, and why:

- liveness: `Converges`, `SynchConverges`, `Returns`. Fairness and `ENABLED` are beyond the prover.
- `UnchangedIsOnServer` and `SuccessMeansMirror` on the sites that `PlainWorld` leaves out and that do not break them: the
  other drivers, `nooverwrite`, and moves, in `MCModes` and `MCUpdate`.
- `TotalsExact`: the totals are sums over a set of positions in an order that `CHOOSE` picks, for which an induction over
  finite sets with an operator parameter is needed.
- `SettingsAreOwn`, `RejectsExactlyBad` and `WrittenReadsBack` of `Rcfile`: what the automaton computes from every text.
- `FetchComplete`, `FetchSeesChange` and `SynchMeansCopy` of `SiteCopy`: they need that a listing and the walk over the
  directories leave nothing out, and what each step of a synchronize leaves of the comparison.
- `UploadGoesWhereMeant`, `InfoSurvives` and the other violated properties, which are false.

## 5. Not modelled, and the plan

Not modelled:

- third-party code: everything under `src/lib` (neon, expat, two copies of curl) and `src/intl`.
  It is most of the repository's C, and not what sitecopy promises. The modules cover
  nearly all of the lines of `src/src` that change the state of the list, the server, the disk or the sites.
- the formats: the XML of the info file and the escaping in it, the columns of a listing,
  the parser of `~/.netrc`, command lines and output. What is kept of them is what is in the records.
- `update_links`: `rcfile_verify` refuses `symlinks maintain` for FTP and WebDAV, and the other
  drivers have no functions for links (see above).
- `site_autoupdate` (`sites.c:763-879`): an experiment that runs with the null driver and
  lists directories; the null driver itself (`--dry-run`), for which every call succeeds and nothing happens.
- the sessions of the WebDAV driver (neon) and of the SFTP and rsh drivers (a child process);
  their calls are the steps of `Drivers`. SFTP has no listing of its own in `MCSiteCopy`: it
  parses `ls` as rsh does, and its downloads always succeed (section 3).
- `--catchup`, `--list`, `--view` of the console; `--catchup` is an operation of `SiteFiles`.
- the GNOME front end (it does not build with this version) but for `rcfile_write`, `vfsdriver.c`, `proxy.c`,
  and the libcurl and inotify samples (not linked).

Left to prove, in this order:

1. `FetchComplete` of `SiteCopy`: the invariant is that every directory found is on the stack or has all its files found.
2. `FetchSeesChange` and `SynchMeansCopy` of `SiteCopy`, from the same invariant and what each loop leaves of the
   comparison.
3. `UnchangedIsOnServer` for WebDAV, rsh and SFTP, whose calls differ in what a failure leaves behind.
