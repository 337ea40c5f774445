------------------------------- MODULE Server -------------------------------
(***************************************************************************)
(* The tree of files on the server, and what a call of a protocol driver   *)
(* (struct proto_driver of protocol.h) may answer and may do to it.  The   *)
(* server is an FTP server: it is not part of the program, and is modelled *)
(* from what ftp.c and ftpdriver.c ask of it.                              *)
(*                                                                         *)
(* A call that the server would carry out may still fail.  `Faults' says   *)
(* in which ways:                                                          *)
(*    "refused"     an error, and nothing has happened                     *)
(*    "lost_reply"  an error, although the server did what it was asked    *)
(*    "partial"     an upload breaks, and leaves a part of the file        *)
(*    "reconnect"   the connection to the server was lost and could not be *)
(*                  opened again: SITE_CONNECT instead of SITE_ERRORS, as  *)
(*                  ftp_put does with `ftp usecwd'                         *)
(***************************************************************************)
EXTENDS FileList

CONSTANTS
  Root,         \* the remote directory of the site, which always exists
  Parent,       \* the directory of a name
  RemoteName,   \* a name as file_full_remote writes it
  Garbage,      \* the content of a file that was uploaded in part
  DefaultMode,  \* the mode that the server gives to a new file
  Faults        \* the faults that a call may meet

ASSUME ServerAssumption ==
  /\ Root \notin Names
  /\ Parent \in [Names -> Names \cup {Root}]
  /\ RemoteName \in [Names -> Names]
  /\ DefaultMode \in Modes
  /\ Faults \subseteq {"refused", "lost_reply", "partial", "reconnect"}
  /\ Garbage \notin Contents

\* The places of the tree: of every name, the file and its temporary upload.
Places == Names \X {"real", "temp"}

RemoteFile ==
  [type    : {"file", "dir"},
   content : Contents \cup {Garbage},
   mode    : Modes,
   time    : Nat]

ASSUME TreeAssumption == Absent \notin RemoteFile

Tree == [Places -> RemoteFile \cup {Absent}]

EmptyTree == [p \in Places |-> Absent]

file_full_remote(state) == <<RemoteName[state.filename], "real">>

\* The `.in.' prefix of the last component.
temp_upload_filename(place) == <<place[1], "temp">>

\* What is at a place: "none", "file" or "dir".
TypeAt(tree, place) == IF tree[place] = Absent THEN "none" ELSE tree[place].type

DirectoryExists(tree, place) ==
  Parent[place[1]] # Root => TypeAt(tree, <<Parent[place[1]], "real">>) = "dir"

IsEmptyDir(tree, place) ==
  \A p \in Places : Parent[p[1]] = place[1] => tree[p] = Absent

-----------------------------------------------------------------------------
(* The answers to a call: the SITE_* code, the tree that the call leaves,  *)
(* and whether a fault was met.                                            *)

Answer(code, tree, fault) == [code |-> code, tree |-> tree, fault |-> fault]

\* The call is one that the server carries out when `allowed'; `done' is the
\* tree afterwards.
Answers(tree, allowed, done) ==
  (IF allowed THEN {Answer("ok", done, 0)} ELSE {Answer("error", tree, 0)})
    \cup {a \in {Answer("error", tree, 1)} : "refused" \in Faults}
    \cup {a \in {Answer("error", done, 1)} : "lost_reply" \in Faults /\ allowed}

driver_file_delete(tree, place) ==
  Answers(tree, TypeAt(tree, place) = "file", [tree EXCEPT ![place] = Absent])

driver_dir_create(tree, place, now) ==
  Answers(tree,
          TypeAt(tree, place) = "none" /\ DirectoryExists(tree, place),
          [tree EXCEPT ![place] =
             [type |-> "dir", content |-> NoData, mode |-> DefaultMode, time |-> now]])

driver_dir_remove(tree, place) ==
  Answers(tree,
          TypeAt(tree, place) = "dir" /\ IsEmptyDir(tree, place),
          [tree EXCEPT ![place] = Absent])

driver_file_move(tree, from, to) ==
  Answers(tree,
          /\ TypeAt(tree, from) = "file"
          /\ TypeAt(tree, to) # "dir" /\ DirectoryExists(tree, to),
          [p \in Places |-> IF p = to THEN tree[from]
                            ELSE IF p = from THEN Absent ELSE tree[p]])

driver_file_chmod(tree, place, mode) ==
  Answers(tree,
          TypeAt(tree, place) # "none",
          IF tree[place] = Absent THEN tree
          ELSE [tree EXCEPT ![place] = [tree[place] EXCEPT !.mode = mode]])

\* The file as an upload leaves it: a file that is overwritten keeps its mode.
Uploaded_to(tree, place, content, now) ==
  [tree EXCEPT ![place] =
     [type |-> "file", content |-> content, time |-> now,
      mode |-> IF tree[place] = Absent THEN DefaultMode ELSE tree[place].mode]]

\* `source' is the set of contents that can be read from the local file now.
driver_file_upload(tree, place, source, now) ==
  LET allowed == /\ source # {}
                 /\ TypeAt(tree, place) # "dir" /\ DirectoryExists(tree, place)
  IN  (UNION {Answers(tree, allowed, Uploaded_to(tree, place, c, now)) : c \in source})
        \cup {a \in Answers(tree, FALSE, tree) : ~allowed}
        \cup {a \in {Answer("error", Uploaded_to(tree, place, Garbage, now), 1)} :
                allowed /\ "partial" \in Faults}
        \cup {a \in {Answer("connect", tree, 1)} : "reconnect" \in Faults}
=============================================================================
