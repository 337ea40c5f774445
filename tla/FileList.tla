------------------------------ MODULE FileList ------------------------------
(***************************************************************************)
(* The list of files that sitecopy keeps for a site: struct site_file and  *)
(* struct file_state of sites.h, and the operations of sitefiles.c and     *)
(* sitesi.h on them.  Every other module builds on these operators.        *)
(*                                                                         *)
(* A `site' is the record of the members of struct site that the file list *)
(* operations read or write:                                               *)
(*    files   the doubly linked list site->files, as a sequence            *)
(*    num     the counters numnew, numchanged, ... , by name               *)
(*    total   totalnew and totalchanged                                    *)
(*    opt     the options of the rcfile entry                              *)
(***************************************************************************)
EXTENDS Integers, Sequences, FiniteSetsExt

CONSTANTS
  Names,      \* file names, relative to the site root
  BaseName,   \* base_name(): the last component of a name
  Contents,   \* what the state method tells apart: (time, size) or checksum,
              \* with the ASCII flag; the target of a link
  NoData,     \* the content of a directory
  SizeOf,     \* file_state.size, by content
  Modes,      \* permission bits
  ExecModes,  \* the modes that have S_IXUSR
  Ignored,    \* the names that match an `ignore' pattern
  Options,    \* the rcfile option records under consideration
  Absent      \* a file_state with exists == false

FileTypes == {"file", "dir", "link"}
Diffs     == {"unchanged", "changed", "new", "deleted", "moved"}
Counters  == Diffs \cup {"ignored"}
Sides     == {"local", "stored"}

FileState == [filename : Names, content : Contents, mode : Modes]

ASSUME ConstantsAssumption ==
  /\ NoData \in Contents
  /\ SizeOf \in [Contents -> Nat]
  /\ ExecModes \subseteq Modes
  /\ Ignored \subseteq Names
  /\ Absent \notin FileState

ASSUME OptionsAssumption ==
  \A o \in Options :
     /\ o.checkmoved \in BOOLEAN
     /\ o.checkrenames \in BOOLEAN
     /\ o.nodelete \in BOOLEAN
     /\ o.dirperms \in BOOLEAN
     /\ o.tempupload \in BOOLEAN
     /\ o.nooverwrite \in BOOLEAN
     /\ o.perms \in {"ignore", "exec", "all"}

(***************************************************************************)
(* An entry of the list.  `st' holds the local and the stored state (the   *)
(* array of states that the comment in struct site_file asks for), `server'*)
(* the server modification time, 0 when server.exists is false.            *)
(***************************************************************************)
Entry ==
  [type   : FileTypes,
   diff   : Diffs,
   ignore : BOOLEAN,
   st     : [Sides -> FileState \cup {Absent}],
   server : Nat]

Site ==
  [files : Seq(Entry),
   num   : [Counters -> Int],
   total : [{"new", "changed"} -> Int],
   opt   : Options]

\* A site as ne_calloc leaves it, before anything is read.
EmptySite(o) ==
  [files |-> << >>,
   num   |-> [k \in Counters |-> 0],
   total |-> [k \in {"new", "changed"} |-> 0],
   opt   |-> o]

Local(f)  == f.st["local"]
Stored(f) == f.st["stored"]
OtherSide(side) == IF side = "local" THEN "stored" ELSE "local"

-----------------------------------------------------------------------------
(* Comparing two states                                                    *)

perms_compared(m1, m2, site) ==
  \/ site.opt.perms = "all"
  \/ site.opt.perms = "exec" /\ {m1, m2} \cap ExecModes # {}

states_differ(type, first, second, site) ==
  CASE type = "dir"  -> site.opt.dirperms /\ first.mode # second.mode
    [] type = "link" -> first.content # second.content
    [] type = "file" -> \/ first.content # second.content
                        \/ /\ perms_compared(first.mode, second.mode, site)
                           /\ first.mode # second.mode

file_compare(type, first, second, site) ==
  IF first = Absent THEN "deleted"
  ELSE IF second = Absent THEN "new"
  ELSE IF states_differ(type, first, second, site) THEN "changed"
  ELSE IF type = "file" /\ site.opt.checkmoved /\ first.filename # second.filename
       THEN "moved"
  ELSE "unchanged"

file_isignored(name) == name \in Ignored

\* Mutation: only the permissions are ever compared.
contents_never_changed(f) == FALSE

\* file_contents_changed and file_perms_changed are called for entries of type
\* file that exist locally or in the stored state.
file_contents_changed(f) ==
  Local(f) = Absent \/ Stored(f) = Absent \/ Local(f).content # Stored(f).content

ModeOf(s) == IF s = Absent THEN {} ELSE {s.mode}

\* Mutation: a new copy of a file (tempupload, nooverwrite) keeps its old mode.
perms_changed_same_copy(f, site) ==
  /\ \/ site.opt.perms = "all"
     \/ /\ site.opt.perms = "exec"
        /\ (ModeOf(Local(f)) \cup ModeOf(Stored(f))) \cap ExecModes # {}
  /\ ModeOf(Local(f)) # ModeOf(Stored(f))

file_perms_changed(f, site) ==
  /\ \/ site.opt.perms = "all"
     \/ /\ site.opt.perms = "exec"
        /\ (ModeOf(Local(f)) \cup ModeOf(Stored(f))) \cap ExecModes # {}
  /\ \/ site.opt.tempupload
     \/ site.opt.nooverwrite
     \/ ModeOf(Local(f)) # ModeOf(Stored(f))

-----------------------------------------------------------------------------
(* The counters                                                            *)

StatKey(f) == IF f.diff = "changed" /\ f.ignore THEN "ignored" ELSE f.diff

\* What the entry contributes to totalnew or totalchanged: local.size.
LocalSize(f) ==
  IF f.type = "file" /\ Local(f) # Absent THEN SizeOf[Local(f).content] ELSE 0

count_entry(site, f, sign) ==
  [files |-> site.files,
   num   |-> [site.num EXCEPT ![StatKey(f)] = @ + sign],
   total |-> [k \in {"new", "changed"} |->
                IF k = StatKey(f) THEN site.total[k] + sign * LocalSize(f)
                ELSE site.total[k]],
   opt   |-> site.opt]

site_stats_increase(site, f) == count_entry(site, f, 1)
site_stats_decrease(site, f) == count_entry(site, f, -1)

\* Mutation: deleted files count although `nodelete' keeps them.
remote_differs_nodelete(site) ==
  site.num["moved"] + site.num["new"] + site.num["changed"] + site.num["deleted"] > 0

\* The two flags that site_stats_update recomputes after every operation.
remote_is_different(site) ==
  site.num["moved"] + site.num["new"] + site.num["changed"]
    + (IF site.opt.nodelete THEN 0 ELSE site.num["deleted"]) > 0

local_is_different(site) ==
  site.num["moved"] + site.num["new"] + site.num["changed"]
    + site.num["deleted"] + site.num["ignored"] > 0

-----------------------------------------------------------------------------
(* Changing the list                                                       *)

\* Directories go to the tail, everything else to the head.
file_insert(site, f) ==
  [site EXCEPT !.files = IF f.type = "dir" THEN Append(site.files, f)
                         ELSE <<f>> \o site.files]

file_replace(site, i, f) == [site EXCEPT !.files = [site.files EXCEPT ![i] = f]]

\* Mutation: the entry is not taken out of the counters.
delete_uncounted(site, i) ==
  [site EXCEPT !.files = SubSeq(site.files, 1, i - 1)
                           \o SubSeq(site.files, i + 1, Len(site.files))]

file_delete(site, i) ==
  site_stats_decrease(
    [site EXCEPT !.files = SubSeq(site.files, 1, i - 1)
                             \o SubSeq(site.files, i + 1, Len(site.files))],
    site.files[i])

file_set_diff(site, i) ==
  LET f == site.files[i]
      g == [f EXCEPT !.diff = file_compare(f.type, Local(f), Stored(f), site)]
  IN  file_replace(site_stats_increase(site_stats_decrease(site, f), g), i, g)

-----------------------------------------------------------------------------
(* file_set: merge one state, read from disk (side = "local") or from the   *)
(* info file or the server (side = "stored"), into the list.               *)

\* The first match of a list search, 0 when there is none.
First(S) == IF S = {} THEN 0 ELSE Min(S)

direct_match(site, side, type, state) ==
  First({i \in DOMAIN site.files :
           LET f == site.files[i]  beta == f.st[OtherSide(side)]
           IN  f.type = type /\ beta # Absent /\ beta.filename = state.filename})

move_candidates(site, side, type, state) ==
  {i \in DOMAIN site.files :
     LET f == site.files[i]
     IN  /\ site.opt.checkmoved /\ type = "file" /\ f.type = "file"
         /\ f.diff # "unchanged"
         /\ file_compare("file", state, f.st[OtherSide(side)], site) = "moved"}

\* A candidate with the same base name is a move; any other is a rename, which
\* is only taken when there is no move.
moved_match(site, side, type, state) ==
  LET cands == move_candidates(site, side, type, state)
      same  == {i \in cands :
                  BaseName[site.files[i].st[OtherSide(side)].filename]
                    = BaseName[state.filename]}
  IN  IF same # {} THEN First(same)
      ELSE IF site.opt.checkrenames THEN First(cands) ELSE 0

\* Mutation: file_set_stored passes file_new as its default.
always_new(side) == "new"

default_diff(side) == IF side = "local" THEN "new" ELSE "deleted"

\* An entry for which only one side is known.
one_sided(type, side, state, ignore) ==
  [type |-> type, diff |-> default_diff(side), ignore |-> ignore,
   st |-> [s \in Sides |-> IF s = side THEN state ELSE Absent], server |-> 0]

\* The entry is inserted and counted.
add_entry(site, f) == site_stats_increase(file_insert(site, f), f)

\* Mutation: the old diff of the entry stays in the counters.
overwrite_uncounted(site, side, i, state, diff) ==
  LET old  == site.files[i]
      new  == [type |-> old.type, diff |-> diff, ignore |-> old.ignore,
               st |-> [old.st EXCEPT ![side] = state], server |-> old.server]
      done == site_stats_increase(file_replace(site, i, new), new)
  IN  IF old.st[side] = Absent THEN done
      ELSE add_entry(done, one_sided(old.type, side, old.st[side], old.ignore))

\* Mutation: the state is written before the old one is shoved aside.
overwrite_then_shove(site, side, i, state, diff) ==
  LET old  == site.files[i]
      new  == [type |-> old.type, diff |-> diff, ignore |-> old.ignore,
               st |-> [old.st EXCEPT ![side] = state], server |-> old.server]
      done == site_stats_increase(
                file_replace(site_stats_decrease(site, old), i, new), new)
  IN  IF old.st[side] = Absent THEN done
      ELSE add_entry(done, one_sided(old.type, side, state, old.ignore))

\* Mutation: the old state is not shoved aside.
overwrite_no_shove(site, side, i, state, diff) ==
  LET old  == site.files[i]
      new  == [type |-> old.type, diff |-> diff, ignore |-> old.ignore,
               st |-> [old.st EXCEPT ![side] = state], server |-> old.server]
  IN  site_stats_increase(file_replace(site_stats_decrease(site, old), i, new), new)

\* Entry i takes the new state; a state it already had on that side is shoved
\* into an entry of its own.
overwrite_entry(site, side, i, state, diff) ==
  LET old  == site.files[i]
      new  == [type |-> old.type, diff |-> diff, ignore |-> old.ignore,
               st |-> [old.st EXCEPT ![side] = state], server |-> old.server]
      done == site_stats_increase(
                file_replace(site_stats_decrease(site, old), i, new), new)
  IN  IF old.st[side] = Absent THEN done
      ELSE add_entry(done, one_sided(old.type, side, old.st[side], old.ignore))

\* dir_diff: how the state compares with its direct match.
direct_diff(site, side, type, state, direct) ==
  IF direct = 0 THEN default_diff(side)
  ELSE file_compare(type, state, site.files[direct].st[OtherSide(side)], site)

\* The entry that takes the state, 0 when a new one is created.  A move is
\* preferred to a direct match that has changed.
chosen_entry(site, side, type, state) ==
  LET direct   == direct_match(site, side, type, state)
      moved    == moved_match(site, side, type, state)
      dir_diff == direct_diff(site, side, type, state, direct)
  IN  IF /\ moved = 0
         /\ \/ direct = 0
            \/ site.files[direct].diff = "moved" /\ dir_diff # "unchanged"
      THEN 0
      ELSE IF moved # 0 /\ dir_diff # "unchanged" THEN moved ELSE direct

file_set(site, side, type, state) ==
  LET i      == chosen_entry(site, side, type, state)
      direct == direct_match(site, side, type, state)
  IN  IF i = 0
      THEN add_entry(site, one_sided(type, side, state,
                             type = "file" /\ file_isignored(state.filename)))
      ELSE overwrite_entry(site, side, i, state,
             IF i = direct THEN direct_diff(site, side, type, state, direct) ELSE "moved")

\* The place in the new list of the entry that file_set returns.
file_set_index(site, side, type, state) ==
  LET i == chosen_entry(site, side, type, state)
  IN  IF i = 0 THEN (IF type = "dir" THEN Len(site.files) + 1 ELSE 1)
      ELSE IF type # "dir" /\ site.files[i].st[side] # Absent THEN i + 1 ELSE i

file_set_local(site, type, state)  == file_set(site, "local", type, state)
file_set_stored(site, type, state) == file_set(site, "stored", type, state)

-----------------------------------------------------------------------------
(* What an operation on one entry leaves in the list                       *)

\* The entry's states change, then file_set_diff.
set_states(site, i, st) ==
  file_set_diff(file_replace(site, i, [site.files[i] EXCEPT !.st = st]), i)

\* Mutation: the stored name is freed and not set again.
uploaded_nameless(site, i) ==
  set_states(site, i,
     [s \in Sides |-> IF s = "local" THEN Local(site.files[i])
                      ELSE [Local(site.files[i]) EXCEPT !.filename = Absent]])

\* Mutation: the states change and the diff is not computed again.
uploaded_stale_diff(site, i) ==
  file_replace(site, i,
     [site.files[i] EXCEPT !.st = [s \in Sides |-> Local(site.files[i])]])

file_uploaded(site, i) ==
  set_states(site, i, [s \in Sides |-> Local(site.files[i])])

file_downloaded(site, i) ==
  set_states(site, i, [s \in Sides |-> Stored(site.files[i])])

\* file_chmod of sites.c, when the server has accepted the new mode of a file
\* that has a stored state.
chmod_done(site, i) ==
  set_states(site, i,
     [site.files[i].st EXCEPT
        !["stored"] = [Stored(site.files[i]) EXCEPT !.mode = Local(site.files[i]).mode]])

\* The body of the loop of site_catchup.
catchup_entry(site, i) ==
  CASE site.files[i].diff = "deleted"   -> file_delete(site, i)
    [] site.files[i].diff = "unchanged" -> site
    [] OTHER -> set_states(site, i, [s \in Sides |-> Local(site.files[i])])

\* Mutation: an entry that does not exist locally is kept.
destroy_stored_keeps(site, i) ==
  set_states(site, i, [site.files[i].st EXCEPT !["stored"] = Absent])

\* The body of the loop of site_destroy_stored.
destroy_stored_entry(site, i) ==
  IF Local(site.files[i]) = Absent THEN file_delete(site, i)
  ELSE set_states(site, i, [site.files[i].st EXCEPT !["stored"] = Absent])
=============================================================================
