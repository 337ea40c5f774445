----------------------------- MODULE MCSiteCopy -----------------------------
(* Small instances of SiteCopy: a directory d with a directory dd in it, a   *)
(* file df in dd, and the files tf and xf, of which xf is excluded.          *)
EXTENDS SiteCopy

CONSTANTS d, dd, df, tf, xf, b1, b2

MCBaseName   == [n \in Names |-> CASE n = d -> "d" [] n = dd -> "dd" [] OTHER -> "f"]
MCParent     == [n \in Names |-> CASE n = dd -> d [] n = df -> dd [] OTHER -> Root]
MCRemoteName == [n \in Names |-> n]
MCByteSize   == [b \in Bytes |-> IF b = Part THEN 0 ELSE 1]
MCTimes      == {10 * k + i : k \in 0 .. MaxEdits, i \in 0 .. MaxEdits + 2} \cup {5}
MCContents   == Bytes \cup {NoData, NoSum} \cup (Times \X {0, 1})
MCSizeOf     == [c \in Contents |-> 0]

\* Two orders, each the reverse of the other.
MCOrders == {<<d, dd, df, tf, xf>>, <<xf, tf, df, dd, d>>}

MCModes == 0 .. 511

Mode == 420

LocalDir     == [type |-> "dir", bytes |-> NoData, time |-> 0, mode |-> Mode]
LocalFile(b) == [type |-> "file", bytes |-> b, time |-> 0, mode |-> Mode]

ServerDir     == [type |-> "dir", content |-> NoData, time |-> 0, mode |-> Mode]
ServerFile(b) == [type |-> "file", content |-> b, time |-> 5, mode |-> Mode]

\* Nothing, or both directories, the excluded file, and df in its first version.
Disks ==
  {[n \in Names |-> Absent],
   [n \in Names |-> CASE n \in {d, dd} -> LocalDir [] n = tf -> Absent [] OTHER -> LocalFile(b1)]}

\* tf in the first version, and df in the second one or not at all, in its
\* directories or without them.
Servers ==
  {[p \in Places |-> CASE p[2] = "temp" -> Absent
                       [] p[1] \in {d, dd} -> t.dir
                       [] p[1] = df -> t.file
                       [] OTHER -> ServerFile(b1)] :
     t \in {[dir |-> ServerDir, file |-> ServerFile(b2)], [dir |-> ServerDir, file |-> Absent],
           [dir |-> Absent, file |-> Absent]}}

Option ==
  [checkmoved |-> FALSE, checkrenames |-> FALSE, nodelete |-> FALSE,
   perms |-> "ignore", dirperms |-> FALSE, tempupload |-> FALSE,
   nooverwrite |-> FALSE, keep_going |-> FALSE, checksum |-> TRUE, safemode |-> FALSE,
   protocol |-> "ftp"]

CopyOptions ==
  {[Option EXCEPT !.checkmoved = TRUE],
   [Option EXCEPT !.keep_going = TRUE, !.protocol = "dav"],
   [Option EXCEPT !.protocol = "rsh"],
   [Option EXCEPT !.checksum = FALSE, !.safemode = TRUE],
   [Option EXCEPT !.checksum = FALSE, !.perms = "all"]}

MCVersions == {<<b1, Mode>>}

Noise == {<< >>, <<Bare("total"), Bare("blank"), Heading(FALSE)>>, <<Heading(TRUE)>>}
=============================================================================
