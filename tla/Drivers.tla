------------------------------- MODULE Drivers -------------------------------
(***************************************************************************)
(* The protocol drivers besides that of FTP, as the engine sees them: what *)
(* one call of davdriver.c, rshdriver.c or sftpdriver.c makes of the tree  *)
(* on the server, and the SITE_* code that it returns.  The web server,    *)
(* neon, and the programs rsh, rcp and sftp are not part of the program.   *)
(* Server has the calls of the FTP driver.                                 *)
(***************************************************************************)
EXTENDS Server, SiteOptions

-----------------------------------------------------------------------------
(* Trees                                                                   *)

\* The names in the directory n, at any depth.
Below(n) ==
  LET under[m \in Names] == Parent[m] = n \/ (Parent[m] # Root /\ under[Parent[m]])
  IN  {m \in Names : under[m]}

\* DELETE takes a collection away with all that is in it.
Deleted(tree, place) ==
  [p \in Places |-> IF p = place \/ p[1] \in Below(place[1]) THEN Absent ELSE tree[p]]

\* run_sftp does not look at the answer of sftp: only a pipe that cannot be
\* written to is an error.
Unheard(tree, answers) ==
  {[a EXCEPT !.code = "ok"] : a \in answers}
    \cup {a \in {Answer("error", tree, 1)} : "refused" \in Faults}

\* Every operation of a driver but the conditional ones: the answers of the FTP
\* driver, of the WebDAV driver and of the shell command.
Dispatch(protocol, tree, ftp, dav, shell) ==
  CASE protocol = "ftp"  -> ftp
    [] protocol = "dav"  -> dav
    [] protocol = "rsh"  -> shell
    [] protocol = "sftp" -> Unheard(tree, shell)

-----------------------------------------------------------------------------
(* Operations                                                              *)

file_delete_call(protocol, tree, place) ==
  LET rm == driver_file_delete(tree, place)
  IN  Dispatch(protocol, tree, rm,
               Answers(tree, TypeAt(tree, place) # "none", Deleted(tree, place)), rm)

dir_create_call(protocol, tree, place, now) ==
  LET mkdir == driver_dir_create(tree, place, now)
  IN  Dispatch(protocol, tree, mkdir, mkdir, mkdir)

\* "TODO: check whether it is empty first".
dav_dir_remove(tree, place) ==
  Answers(tree, TypeAt(tree, place) = "dir", Deleted(tree, place))

dir_remove_call(protocol, tree, place) ==
  LET rmdir == driver_dir_remove(tree, place)
  IN  Dispatch(protocol, tree, rmdir, dav_dir_remove(tree, place), rmdir)

\* MOVE overwrites a collection too, and mv moves a file into a directory,
\* where it has a name that the site does not know.
file_move_call(protocol, tree, from, to) ==
  LET movable == TypeAt(tree, from) = "file" /\ DirectoryExists(tree, to)
      moved(t) == [t EXCEPT ![to] = tree[from], ![from] = Absent]
  IN  Dispatch(protocol, tree, driver_file_move(tree, from, to),
               Answers(tree, movable, moved(Deleted(tree, to))),
               IF TypeAt(tree, to) = "dir"
               THEN Answers(tree, movable, [tree EXCEPT ![from] = Absent])
               ELSE driver_file_move(tree, from, to))

\* The WebDAV driver sets the property `executable'; with perms "exec" nobody
\* looks at anything else of the mode.
file_chmod_call(protocol, tree, place, mode) ==
  LET chmod == driver_file_chmod(tree, place, mode)
  IN  Dispatch(protocol, tree, chmod, chmod, chmod)

\* rcp copies into a directory as mv moves into one.
file_upload_call(protocol, tree, place, source, now) ==
  LET put == driver_file_upload(tree, place, source, now)
  IN  Dispatch(protocol, tree, put, put,
               IF TypeAt(tree, place) = "dir" THEN Answers(tree, source # {}, tree) ELSE put)

\* A PUT with If-Unmodified-Since, which the server compares and carries out at
\* once; 412 is SITE_FAILED.  The others cannot do it: SITE_UNSUPPORTED.
file_upload_cond_call(protocol, tree, place, source, now, time) ==
  CASE protocol # "dav" -> {Answer("unsupported", tree, 0)}
    [] protocol = "dav" /\ TypeAt(tree, place) = "file" /\ tree[place].time > time ->
         {[a EXCEPT !.code = IF a.fault = 0 THEN "failed" ELSE a.code] :
            a \in Answers(tree, FALSE, tree)}
    [] OTHER -> driver_file_upload(tree, place, source, now)

get_modtime_call(protocol, tree, place) ==
  IF protocol \in {"rsh", "sftp"} THEN {Answer("unsupported", tree, 0)}
  ELSE Answers(tree, TypeAt(tree, place) = "file", tree)
=============================================================================
