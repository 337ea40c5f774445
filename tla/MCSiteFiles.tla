----------------------------- MODULE MCSiteFiles -----------------------------
(* Small instances of SiteFiles: names in two directories that share a base *)
(* name, so that moves and renames both have candidates, and one name that  *)
(* may be a file, a directory or a link.                                    *)
EXTENDS SiteFiles

CONSTANTS xf, yf, zg, c1, c2, m644, m755

MCBaseName == [n \in Names |-> IF n = zg THEN "g" ELSE "f"]
MCSizeOf   == [c \in Contents |-> IF c = NoData THEN 0 ELSE IF c = c1 THEN 1 ELSE 3]
MCTypesOf  == [n \in Names |-> IF n = yf THEN {"file", "dir"} ELSE {"file"}]
MCLinkTypesOf == [n \in Names |-> IF n = yf THEN FileTypes ELSE {"file"}]

\* rcfile_verify: checkrenames needs checkmoved to matter, and checksums.
Option(cm, cr, nd, p, dp) ==
  [checkmoved |-> cm, checkrenames |-> cr, nodelete |-> nd, perms |-> p,
   dirperms |-> dp, tempupload |-> FALSE, nooverwrite |-> FALSE]

MergeOptions == {Option(cm, cr, FALSE, "ignore", FALSE) : cm, cr \in BOOLEAN}
WorkOptions ==
  {Option(cm, cm, nd, "ignore", FALSE) : cm, nd \in BOOLEAN}
    \cup {Option(TRUE, TRUE, FALSE, p, TRUE) : p \in {"exec", "all"}}
=============================================================================
