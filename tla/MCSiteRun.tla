------------------------------ MODULE MCSiteRun ------------------------------
(* Small instances of SiteRun: a directory d, a file df in it, and a file tf *)
(* beside it.  With `lowercase' the remote name of tf is ltf, which no local *)
(* file has.                                                                 *)
EXTENDS SiteRun

CONSTANTS d, df, tf, ltf, c1, c2, m644, m755

MCBaseName   == [n \in Names |-> IF n = d THEN "d" ELSE "f"]
MCSizeOf     == [c \in Contents |-> 0]
MCParent     == [n \in Names |-> IF n = df THEN d ELSE Root]
MCRemoteName == [n \in Names |-> n]
LowerRemoteName == [n \in Names |-> IF n = tf THEN ltf ELSE n]

Dir(m)     == [type |-> "dir", content |-> NoData, mode |-> m]
File(c, m) == [type |-> "file", content |-> c, mode |-> m]

\* The trees in which d is a directory or absent.
TreesOver(fs) ==
  {t \in [Names -> fs \cup {Dir(m644), Absent}] :
     /\ t[d] \in {Dir(m644), Absent}
     /\ \A n \in Names \ {d} : t[n] \in fs \cup {Absent}
     /\ t[d] = Absent => t[df] = Absent
     /\ ltf \in Names => t[ltf] = Absent}

PlainTrees == TreesOver({File(c1, m644), File(c2, m644)})

Option ==
  [checkmoved |-> FALSE, checkrenames |-> FALSE, nodelete |-> FALSE,
   perms |-> "ignore", dirperms |-> FALSE, tempupload |-> FALSE,
   nooverwrite |-> FALSE, keep_going |-> FALSE, prompting |-> FALSE, safemode |-> FALSE,
   protocol |-> "ftp"]

\* With and without nodelete and keep_going, once with temporary uploads, and
\* once over WebDAV.
UpdateOptions ==
  {[Option EXCEPT !.nodelete = nd, !.keep_going = kg] : nd, kg \in BOOLEAN}
    \cup {[Option EXCEPT !.tempupload = TRUE, !.keep_going = TRUE],
          [Option EXCEPT !.protocol = "dav", !.keep_going = TRUE]}

\* The trees without df, or with df in its first version.
CrashTrees == {t \in PlainTrees : t[df] # File(c2, m644)}

\* ... and those in which d is a file.
SwapTrees ==
  CrashTrees \cup {[t EXCEPT ![d] = File(c1, m644)] : t \in {u \in CrashTrees : u[d] = Absent}}

CrashOptions ==
  {[Option EXCEPT !.nodelete = nd, !.tempupload = tu, !.keep_going = TRUE] : nd, tu \in BOOLEAN}
    \cup {[Option EXCEPT !.nooverwrite = TRUE]}
    \cup {[Option EXCEPT !.safemode = TRUE, !.keep_going = kg] : kg \in BOOLEAN}
    \cup {[Option EXCEPT !.protocol = "dav", !.safemode = TRUE, !.keep_going = TRUE]}

\* At most one of df and tf, in two versions and two modes; d in two modes.
ModeTrees ==
  {t \in [Names -> {File(c, m) : c \in {c1, c2}, m \in Modes} \cup {Dir(m) : m \in Modes} \cup {Absent}] :
     /\ t[d] \in {Dir(m) : m \in Modes}
     /\ t[df] # Absent => t[df].type = "file" /\ t[tf] = Absent
     /\ t[tf] # Absent => t[tf].type = "file"}

ModeOptions ==
  {[Option EXCEPT !.perms = p, !.dirperms = TRUE, !.checkmoved = cm, !.nooverwrite = no] :
     p \in {"all", "exec"}, cm, no \in BOOLEAN}
    \cup {[Option EXCEPT !.perms = "all", !.tempupload = TRUE],
          [Option EXCEPT !.perms = "all", !.checkmoved = TRUE, !.protocol = "rsh"],
          [Option EXCEPT !.perms = "all", !.nooverwrite = TRUE, !.protocol = "sftp"],
          [Option EXCEPT !.perms = "exec", !.checkmoved = TRUE, !.protocol = "dav"],
          [Option EXCEPT !.checkmoved = TRUE, !.prompting = TRUE]}

KeepGoingOptions == {[Option EXCEPT !.checkmoved = TRUE, !.keep_going = TRUE]}
KeepGoingTrees  ==
  {t \in PlainTrees :
     /\ t[d] # Absent
     /\ <<t[df], t[tf]>> \in {<<File(c1, m644), File(c2, m644)>>, <<Absent, File(c1, m644)>>}}
NoOverwriteOptions == {[Option EXCEPT !.nooverwrite = TRUE]}
OneOption       == {Option}
=============================================================================
