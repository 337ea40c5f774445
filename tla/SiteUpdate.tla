----------------------------- MODULE SiteUpdate -----------------------------
(***************************************************************************)
(* site_update of sites.c: the passes over the file list that bring the    *)
(* remote site up to date, one driver call at a time.  Between two calls   *)
(* anything may happen to the server, and the program may be killed.       *)
(*                                                                         *)
(* The passes are the rows of the table handlers[].  update_links is left  *)
(* out: rcfile_verify refuses `symlinks maintain' for FTP and WebDAV, and  *)
(* the other drivers have no operations for links.                         *)
(***************************************************************************)
EXTENDS Drivers

CONSTANT
  MaxFaults    \* bound on the number of faults

VARIABLES
  site,     \* the file list
  local,    \* the local files: what opendir, lstat and fopen find
  server,   \* the tree on the server
  clock,    \* the server's clock, in the resolution of its modification times
  faults,   \* the number of faults met so far
  pass,     \* the row of handlers[] in execution, 0 outside site_update
  next,     \* the first entry that the pass has not visited
  step,     \* the driver call due for the current entry, "entry" for none yet
  ret       \* the variable ret: 0, or 1 after an error

updateVars == <<site, local, server, clock, faults, pass, next, step, ret>>

ASSUME UpdateAssumption == MaxFaults \in Nat

ASSUME UpdateOptionsAssumption ==
  \A o \in Options :
     /\ o.keep_going \in BOOLEAN
     /\ o.prompting \in BOOLEAN
     /\ o.safemode \in BOOLEAN
     /\ EngineCanDo(o)

files == site.files
opt   == site.opt

LocalFile == [type : {"file", "dir"}, content : Contents, mode : Modes]

Steps == {"entry", "dir_chmod", "delete", "check", "put", "put_if", "upload", "temp",
          "move", "modtime", "record"}

-----------------------------------------------------------------------------
(* The loops                                                               *)

handlers == <<"delete_files", "create_dirs", "move_files", "files", "delete_dirs">>

\* Mutation: directories are deleted in spite of `nodelete'.
guard_files_only(p) ==
  CASE p = "delete_files" -> ~opt.nodelete
    [] p = "move_files" -> opt.checkmoved
    [] OTHER -> TRUE

guard(p) ==
  CASE p \in {"delete_files", "delete_dirs"} -> ~opt.nodelete
    [] p = "move_files" -> opt.checkmoved
    [] OTHER -> TRUE

\* The next row whose guard is true, 0 when there is none.
pass_after(k) == First({j \in k + 1 .. Len(handlers) : guard(handlers[j])})

\* The entries that a pass works on; the others are skipped.
handles(p, f) ==
  CASE p = "delete_files" -> f.type = "file" /\ f.diff = "deleted"
    [] p = "create_dirs"  -> f.type = "dir" /\ f.diff \in {"new", "changed"}
    [] p = "move_files"   -> f.diff = "moved"
    [] p = "files"        -> f.type = "file" /\ (f.diff = "new" \/ (f.diff = "changed" /\ ~f.ignore))
    [] p = "delete_dirs"  -> f.type = "dir" /\ f.diff = "deleted"

\* update_delete_directories iterates backwards.
backwards(k) == handlers[k] = "delete_dirs"

first_entry(k) == IF backwards(k) THEN Len(files) ELSE 1

\* The entry that the loop comes to, 0 at its end.
current ==
  LET rest == {i \in DOMAIN files :
                 /\ handles(handlers[pass], files[i])
                 /\ IF backwards(pass) THEN i =< next ELSE i >= next}
  IN  IF rest = {} THEN 0 ELSE IF backwards(pass) THEN Max(rest) ELSE Min(rest)

In(p, s) == pass # 0 /\ handlers[pass] = p /\ step = s /\ current # 0

\* The loop goes on to the next entry; entry i is still in the list.
Advance(i) == next' = (IF backwards(pass) THEN i - 1 ELSE i + 1) /\ step' = "entry"

\* ... or it has been removed.
AdvanceRemoved(i) == next' = (IF backwards(pass) THEN i - 1 ELSE i) /\ step' = "entry"

\* A driver call is answered.
Answered(a) ==
  /\ server' = a.tree
  /\ faults' = faults + a.fault
  /\ faults' =< MaxFaults

\* Mutation: the error is reported but not returned.
FailedQuietly(i) == Advance(i) /\ UNCHANGED <<site, ret>>

Failed(i) == ret' = 1 /\ Advance(i) /\ UNCHANGED site

\* fe_can_update: with --prompting the user may say no.
Declined ==
  /\ opt.prompting
  /\ pass # 0 /\ step = "entry" /\ current # 0
  /\ LET f == files[current]
     IN  ~(handlers[pass] = "files" /\ f.diff = "changed" /\ ~file_contents_changed(f))
  /\ Advance(current)
  /\ UNCHANGED <<site, local, server, clock, faults, pass, ret>>

-----------------------------------------------------------------------------
(* update_delete_files and update_delete_directories                       *)

\* The driver call of the pass p for entry i.
delete_call(p, i) ==
  LET place == file_full_remote(Stored(files[i]))
  IN  IF p = "delete_files" THEN file_delete_call(opt.protocol, server, place)
      ELSE dir_remove_call(opt.protocol, server, place)

update_delete(p) ==
  /\ In(p, "entry")
  /\ LET i == current
     IN  \E a \in delete_call(p, i) :
           /\ Answered(a)
           /\ \/ /\ a.code = "ok"
                 /\ site' = file_delete(site, i)
                 /\ AdvanceRemoved(i) /\ UNCHANGED ret
              \/ a.code # "ok" /\ Failed(i)
  /\ UNCHANGED <<local, clock, pass>>

update_delete_files == update_delete("delete_files")
update_delete_directories == update_delete("delete_dirs")

-----------------------------------------------------------------------------
(* update_create_directories                                               *)

\* What the loop does after a call that succeeded: the mode, or the record.
DirDone(i, next_step) ==
  IF next_step = "dir_chmod"
  THEN step' = "dir_chmod" /\ next' = i /\ UNCHANGED <<site, ret>>
  ELSE site' = file_uploaded(site, i) /\ Advance(i) /\ UNCHANGED ret

create_directory ==
  /\ In("create_dirs", "entry")
  /\ LET i == current
         after == IF opt.dirperms THEN "dir_chmod" ELSE "record"
     IN  \/ /\ files[i].diff = "new"
            /\ \E a \in dir_create_call(opt.protocol, server, file_full_remote(Local(files[i])), clock) :
                 /\ Answered(a)
                 /\ IF a.code = "ok" THEN DirDone(i, after) ELSE Failed(i)
         \/ /\ files[i].diff = "changed"
            /\ DirDone(i, after)
            /\ UNCHANGED <<server, faults>>
  /\ UNCHANGED <<local, clock, pass>>

chmod_directory ==
  /\ In("create_dirs", "dir_chmod")
  /\ LET i == current
     IN  \E a \in file_chmod_call(opt.protocol, server, file_full_remote(Local(files[i])),
                                    Local(files[i]).mode) :
           /\ Answered(a)
           /\ IF a.code = "ok" THEN DirDone(i, "record") ELSE Failed(i)
  /\ UNCHANGED <<local, clock, pass>>

-----------------------------------------------------------------------------
(* update_move_files                                                       *)

update_move_files ==
  /\ In("move_files", "entry")
  /\ LET i == current
     IN  \E a \in file_move_call(opt.protocol, server, file_full_remote(Stored(files[i])),
                                   file_full_remote(Local(files[i]))) :
           /\ Answered(a)
           /\ \/ /\ a.code = "ok"
                 /\ site' = file_uploaded(site, i)
                 /\ Advance(i) /\ UNCHANGED ret
              \/ a.code # "ok" /\ Failed(i)
  /\ UNCHANGED <<local, clock, pass>>

-----------------------------------------------------------------------------
(* update_files                                                            *)

\* Mutation: files are uploaded under their true names.
upload_directly(f) ==
  IF ~(opt.safemode /\ f.server # 0) THEN "upload"
  ELSE IF opt.protocol = "ftp" THEN "check" ELSE "put_if"

\* Mutation: the modification time is not checked.
upload_unchecked(f) == IF opt.tempupload THEN "temp" ELSE "upload"

\* The driver calls of an upload: a safe-mode upload of a file whose server
\* modification time is known is a check (MDTM) and a put (STOR).
upload_step(f) ==
  IF opt.safemode /\ f.server # 0 THEN IF opt.protocol = "ftp" THEN "check" ELSE "put_if"
  ELSE IF opt.tempupload THEN "temp" ELSE "upload"

GoTo(i, s) == step' = s /\ next' = i /\ UNCHANGED <<site, ret>>

\* A file of which only the mode has changed is not uploaded.
chmod_only ==
  /\ In("files", "entry")
  /\ LET i == current
     IN  /\ files[i].diff = "changed" /\ ~file_contents_changed(files[i])
         /\ \/ /\ ~file_perms_changed(files[i], site)
               /\ Advance(i) /\ UNCHANGED <<site, server, faults, ret>>
            \/ /\ file_perms_changed(files[i], site)
               /\ \E a \in file_chmod_call(opt.protocol, server, file_full_remote(Local(files[i])),
                                             Local(files[i]).mode) :
                    /\ Answered(a)
                    /\ \/ /\ a.code = "ok"
                          /\ site' = chmod_done(site, i)
                          /\ Advance(i) /\ UNCHANGED ret
                       \/ a.code # "ok" /\ Failed(i)
  /\ UNCHANGED <<local, clock, pass>>

\* Mutation: every changed file is deleted before it is uploaded.
begin_with_delete ==
  /\ In("files", "entry")
  /\ LET f == files[current]
     IN  /\ f.diff = "changed" => file_contents_changed(f)
         /\ GoTo(current, IF f.diff = "changed" THEN "delete" ELSE upload_step(f))
  /\ UNCHANGED <<local, server, clock, faults, pass>>

begin_upload ==
  /\ In("files", "entry")
  /\ LET f == files[current]
     IN  /\ f.diff = "changed" => file_contents_changed(f)
         /\ GoTo(current, IF f.diff = "changed" /\ opt.nooverwrite THEN "delete"
                          ELSE upload_step(f))
  /\ UNCHANGED <<local, server, clock, faults, pass>>

delete_before_upload ==
  /\ In("files", "delete")
  /\ LET i == current
     IN  \E a \in file_delete_call(opt.protocol, server, file_full_remote(Local(files[i]))) :
           /\ Answered(a)
           /\ IF a.code = "ok" THEN GoTo(i, upload_step(files[i])) ELSE Failed(i)
  /\ UNCHANGED <<local, clock, pass>>

\* ftp_put_cond: the time is read and compared ...
check_modtime ==
  /\ In("files", "check")
  /\ LET i     == current
         place == file_full_remote(Local(files[i]))
     IN  \E a \in Answers(server, TypeAt(server, place) = "file", server) :
           /\ Answered(a)
           /\ IF a.code = "ok" /\ server[place].time = files[i].server
              THEN GoTo(i, "put") ELSE Failed(i)
  /\ UNCHANGED <<local, clock, pass>>

\* What can be read from the local file at the time of the upload.
source(state) ==
  LET f == local[state.filename]
  IN  IF f = Absent THEN {} ELSE IF f.type = "file" THEN {f.content} ELSE {}

after_upload == IF opt.safemode THEN "modtime" ELSE "record"

\* ... and the file is sent.  The switch in update_files takes every code but
\* SITE_ERRORS and SITE_FAILED for success.
put_file ==
  /\ In("files", "put")
  /\ LET i == current
     IN  \E a \in file_upload_call(opt.protocol, server, file_full_remote(Local(files[i])),
                                     source(Local(files[i])), clock) :
           /\ Answered(a)
           /\ IF a.code = "error" THEN Failed(i) ELSE GoTo(i, after_upload)
  /\ UNCHANGED <<local, clock, pass>>

\* file_upload_cond of the other drivers is one call.
put_conditionally ==
  /\ In("files", "put_if")
  /\ LET i == current
     IN  \E a \in file_upload_cond_call(opt.protocol, server, file_full_remote(Local(files[i])),
                                       source(Local(files[i])), clock, files[i].server) :
           /\ Answered(a)
           /\ IF a.code \in {"error", "failed"} THEN Failed(i) ELSE GoTo(i, after_upload)
  /\ UNCHANGED <<local, clock, pass>>

\* Mutation: the code that the driver returns is not looked at.
upload_unverified ==
  /\ In("files", "upload")
  /\ LET i == current
     IN  \E a \in file_upload_call(opt.protocol, server, file_full_remote(Local(files[i])),
                                     source(Local(files[i])), clock) :
           Answered(a) /\ GoTo(i, after_upload)
  /\ UNCHANGED <<local, clock, pass>>

upload_file ==
  /\ In("files", "upload")
  /\ LET i == current
     IN  \E a \in file_upload_call(opt.protocol, server, file_full_remote(Local(files[i])),
                                     source(Local(files[i])), clock) :
           /\ Answered(a)
           /\ IF a.code = "ok" THEN GoTo(i, after_upload) ELSE Failed(i)
  /\ UNCHANGED <<local, clock, pass>>

upload_temp ==
  /\ In("files", "temp")
  /\ LET i == current
     IN  \E a \in file_upload_call(opt.protocol, server,
                    temp_upload_filename(file_full_remote(Local(files[i]))),
                    source(Local(files[i])), clock) :
           /\ Answered(a)
           /\ IF a.code = "ok" THEN GoTo(i, "move") ELSE Failed(i)
  /\ UNCHANGED <<local, clock, pass>>

move_temp ==
  /\ In("files", "move")
  /\ LET i     == current
         place == file_full_remote(Local(files[i]))
     IN  \E a \in file_move_call(opt.protocol, server, temp_upload_filename(place), place) :
           /\ Answered(a)
           /\ IF a.code = "ok" THEN GoTo(i, after_upload) ELSE Failed(i)
  /\ UNCHANGED <<local, clock, pass>>

\* file_retrieve_server; an error is only a warning.
retrieve_modtime ==
  /\ In("files", "modtime")
  /\ LET i     == current
         place == file_full_remote(Local(files[i]))
     IN  \E a \in get_modtime_call(opt.protocol, server, place) :
           /\ Answered(a)
           /\ site' = file_replace(site, i,
                [files[i] EXCEPT !.server = IF a.code = "ok" THEN server[place].time ELSE 0])
           /\ step' = "record" /\ next' = i /\ UNCHANGED ret
  /\ UNCHANGED <<local, clock, pass>>

\* file_chmod, then file_uploaded whether or not that succeeded.
record_upload ==
  /\ In("files", "record")
  /\ LET i == current
     IN  /\ \/ /\ ~file_perms_changed(files[i], site)
               /\ UNCHANGED <<server, faults, ret>>
            \/ /\ file_perms_changed(files[i], site)
               /\ \E a \in file_chmod_call(opt.protocol, server, file_full_remote(Local(files[i])),
                                             Local(files[i]).mode) :
                    Answered(a) /\ ret' = (IF a.code = "ok" THEN ret ELSE 1)
         /\ site' = file_uploaded(site, i)
         /\ Advance(i)
  /\ UNCHANGED <<local, clock, pass>>

-----------------------------------------------------------------------------
(* The loop of site_update over handlers[]                                 *)

BeginPass(k) ==
  /\ pass' = k
  /\ next' = (IF k = 0 THEN 0 ELSE first_entry(k))
  /\ step' = "entry"

\* proto_init: the session is opened, or site_update returns at once.
StartPasses ==
  /\ pass = 0
  /\ \E a \in Answers(server, TRUE, server) :
       /\ Answered(a)
       /\ IF a.code = "ok" THEN BeginPass(pass_after(0)) /\ ret' = 0
          ELSE BeginPass(0) /\ ret' = 1
  /\ UNCHANGED <<site, local, clock>>

end_pass ==
  /\ pass # 0 /\ step = "entry" /\ current = 0
  /\ BeginPass(IF ret = 0 \/ opt.keep_going THEN pass_after(pass) ELSE 0)
  /\ UNCHANGED <<site, local, server, clock, faults, ret>>

UpdateStep ==
  \/ update_delete_files \/ update_delete_directories
  \/ create_directory \/ chmod_directory
  \/ update_move_files
  \/ chmod_only \/ begin_upload \/ delete_before_upload
  \/ check_modtime \/ put_file \/ put_conditionally \/ upload_file \/ upload_temp \/ move_temp
  \/ retrieve_modtime \/ record_upload
  \/ Declined \/ end_pass
=============================================================================
