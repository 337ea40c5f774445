------------------------------ MODULE SiteFiles ------------------------------
(***************************************************************************)
(* The file list of one site under every operation that sites.c,           *)
(* sitestore.c and the front end perform on it.  First the states are      *)
(* merged ("scan": site_read_local_state, site_read_stored_state, in any   *)
(* order of names); then entries are uploaded, downloaded, deleted and so  *)
(* on ("work": the loops of site_update, site_synch and site_catchup).     *)
(* site_initialize and site_fetch destroy every stored state ("clear"); a  *)
(* fetch then merges the listing of the server.                            *)
(***************************************************************************)
EXTENDS FileList, BagsExt

CONSTANT
  TypesOf     \* the file types that a name may have, by name

ASSUME TypesOfAssumption == TypesOf \in [Names -> SUBSET FileTypes]

VARIABLES
  site,    \* the site's file list and counters
  phase    \* "scan", "work" or "clear"

vars == <<site, phase>>

files == site.files

\* The states that a caller may hand to file_set for this type.
StatesOf(type) ==
  {s \in FileState :
     type \in TypesOf[s.filename] /\ (s.content = NoData <=> type = "dir")}

Init ==
  /\ \E o \in Options : site = EmptySite(o)
  /\ phase = "scan"

\* A directory tree and a server listing name each file once; so does an info
\* file, unless two entries of one update ended with the same stored name.
NotSeen(side, name) ==
  \A i \in DOMAIN files :
     files[i].st[side] # Absent => files[i].st[side].filename # name

ReadLocal(type, state) ==
  /\ phase = "scan"
  /\ NotSeen("local", state.filename)
  /\ site' = file_set_local(site, type, state)
  /\ UNCHANGED phase

ReadStored(type, state) ==
  /\ phase = "scan"
  /\ NotSeen("stored", state.filename)
  /\ site' = file_set_stored(site, type, state)
  /\ UNCHANGED phase

StartWork ==
  /\ phase = "scan"
  /\ phase' \in {"work", "clear"}
  /\ UNCHANGED site

\* update_create_directories, update_move_files and update_files after success.
Uploaded(i) ==
  /\ phase = "work"
  /\ files[i].type # "link" /\ files[i].diff \in {"new", "changed", "moved"}
  /\ site' = file_uploaded(site, i)
  /\ UNCHANGED phase

\* update_files when only the permissions of the file have changed.
PermsSet(i) ==
  /\ phase = "work"
  /\ files[i].type = "file" /\ files[i].diff = "changed"
  /\ ~file_contents_changed(files[i]) /\ file_perms_changed(files[i], site)
  /\ site' = chmod_done(site, i)
  /\ UNCHANGED phase

\* synch_files after a successful download, synch_create_directories.
Downloaded(i) ==
  /\ phase = "work"
  /\ \/ files[i].type = "file" /\ files[i].diff \in {"changed", "deleted"}
     \/ files[i].type = "dir" /\ files[i].diff = "deleted"
  /\ site' = file_downloaded(site, i)
  /\ UNCHANGED phase

\* Deleted remotely (update), or a new directory removed locally (synch).
Deleted(i) ==
  /\ phase = "work"
  /\ files[i].diff = "deleted" \/ (files[i].type = "dir" /\ files[i].diff = "new")
  /\ site' = file_delete(site, i)
  /\ UNCHANGED phase

CatchUp(i) ==
  /\ phase = "work"
  /\ files[i].diff # "unchanged"
  /\ site' = catchup_entry(site, i)
  /\ UNCHANGED phase

DestroyStored(i) ==
  /\ phase = "clear"
  /\ site' = destroy_stored_entry(site, i)
  /\ UNCHANGED phase

\* site_fetch: once every stored state is destroyed, the listing is merged.
FetchListing ==
  /\ phase = "clear"
  /\ \A i \in DOMAIN files : Stored(files[i]) = Absent
  /\ phase' = "scan"
  /\ UNCHANGED site

Merge ==
  \E type \in FileTypes : \E s \in StatesOf(type) :
     ReadLocal(type, s) \/ ReadStored(type, s)

Next ==
  \/ Merge
  \/ StartWork \/ FetchListing
  \/ \E i \in DOMAIN files :
        \/ Uploaded(i) \/ PermsSet(i) \/ Downloaded(i) \/ Deleted(i)
        \/ CatchUp(i) \/ DestroyStored(i)

Spec == Init /\ [][Next]_vars

\* Only the merging of states, for instances with more names.
MergeSpec == Init /\ [][Merge]_vars

-----------------------------------------------------------------------------
(* Properties                                                              *)

\* The list, the counters and the options have their types.
TypeOK ==
  /\ site \in Site
  /\ phase \in {"scan", "work", "clear"}

\* The cached diff of every entry is what file_compare says of its two states
\* now, whatever order the states were merged in and however often a state
\* was shoved into another entry.  Every loop of sites.c trusts it.
DiffCorrect ==
  \A i \in DOMAIN files :
     files[i].diff = file_compare(files[i].type, Local(files[i]), Stored(files[i]), site)

\* No entry is left that stands for no file at all: nothing would delete it,
\* and file_name would dereference a null pointer.
EveryEntryIsAFile ==
  \A i \in DOMAIN files : \E side \in Sides : files[i].st[side] # Absent

\* Every counter is the number of entries that it counts, although it is only
\* ever incremented and decremented around changes of single entries.
CountersExact ==
  \A k \in Counters :
     site.num[k] = Cardinality({i \in DOMAIN files : StatKey(files[i]) = k})

\* The two flags say exactly whether there is anything to do: act_on_site skips
\* the update when remote_is_different is false, and the synch when
\* local_is_different is.
FlagsExact ==
  /\ remote_is_different(site)
       <=> \E i \in DOMAIN files :
              \/ files[i].diff \in {"new", "moved"}
              \/ files[i].diff = "changed" /\ ~files[i].ignore
              \/ files[i].diff = "deleted" /\ ~site.opt.nodelete
  /\ local_is_different(site) <=> \E i \in DOMAIN files : files[i].diff # "unchanged"

\* While states are merged, no two entries have the same name on one side:
\* the shove moves a state, it never duplicates it.
NoNameTwice ==
  phase = "scan" =>
    \A side \in Sides : \A i, j \in DOMAIN files :
       /\ files[i].st[side] # Absent /\ files[j].st[side] # Absent
       /\ files[i].st[side].filename = files[j].st[side].filename
       => i = j

\* The states on one side, with the type of their entry.
StatesIn(fs, side) ==
  {<<fs[i].type, fs[i].st[side]>> : i \in {j \in DOMAIN fs : fs[j].st[side] # Absent}}

\* The same as a bag: an entry more for the same state would count.
StatesOn(fs, side) ==
  [p \in StatesIn(fs, side) |->
     Cardinality({i \in DOMAIN fs : fs[i].st[side] # Absent /\ p = <<fs[i].type, fs[i].st[side]>>})]

\* A merge loses nothing and invents nothing: whatever state is read next, and
\* whether it is taken for a move or shoves another into an entry of its own,
\* file_set adds just that state to those on its side, and leaves the states on
\* the other side as they are.
MergeLosesNothing ==
  phase = "scan" =>
    \A side \in Sides, type \in FileTypes : \A state \in StatesOf(type) :
       NotSeen(side, state.filename) =>
         LET new == file_set(site, side, type, state).files
         IN  /\ StatesOn(new, side) = BagAdd(StatesOn(files, side), <<type, state>>)
             /\ StatesOn(new, OtherSide(side)) = StatesOn(files, OtherSide(side))

\* While states are merged, totalnew and totalchanged are the sizes of the
\* entries they count: act_on_site shows their sum as the size of the update.
\* (Afterwards they drift: file_downloaded changes local.size before
\* file_set_diff takes the old size out of the total.)
TotalsExact ==
  \A k \in {"new", "changed"} :
     site.total[k] =
       MapThenSumSet(LAMBDA i : LocalSize(files[i]),
                     {i \in DOMAIN files : StatKey(files[i]) = k})
=============================================================================
