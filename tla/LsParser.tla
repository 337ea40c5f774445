------------------------------ MODULE LsParser ------------------------------
(***************************************************************************)
(* lsparser.c: one line of the output of `ls -la' at a time, and the list  *)
(* of files that ftp_fetch and rsh_fetch make of them.                     *)
(*                                                                         *)
(* A line is a record; its kind is one of                                  *)
(*    "blank"     nothing but white space                                  *)
(*    "total"     the number of blocks                                     *)
(*    "heading"   `directory:' of the directory that is listed; its name   *)
(*                has a space in it when line.spaced                       *)
(*    "entry"     permissions, size and name of a file                     *)
(*    "garbled"   a line that has too few fields, or a name with a slash   *)
(* LIST is never sent with -R, so that headings of other directories, and  *)
(* with them the prefix ctx->curdir, are left out.                         *)
(***************************************************************************)
EXTENDS Integers, Sequences, SequencesExt

Here    == "."
HereUp  == ".."

Heading(spaced) == [kind |-> "heading", spaced |-> spaced]
Bare(kind)      == [kind |-> kind]

\* The lines of a listing that are not entries.
OtherLine ==
  [kind : {"blank", "total", "garbled"}] \cup [kind : {"heading"}, spaced : BOOLEAN]

\* S_IRUSR, S_IWUSR, ..., S_IXOTH.
PermBits == <<256, 128, 64, 32, 16, 8, 4, 2, 1>>

\* The permissions field: the letter of the type, then nine bits, 0 for `-'.
perms_of(mode) == [k \in 1 .. 9 |-> (mode \div PermBits[k]) % 2]

EntryLine(letter, mode, size, name) ==
  [kind |-> "entry", letter |-> letter, perms |-> perms_of(mode), size |-> size, name |-> name]

-----------------------------------------------------------------------------

\* Every character shifts one bit in, the letter of the type too; & 0777.
parse_permissions(line) ==
  FoldLeft(LAMBDA m, bit : 2 * m + bit, IF line.letter = "-" THEN 0 ELSE 1, line.perms) % 512

Parsed(line) == [name |-> line.name, mode |-> parse_permissions(line), size |-> line.size]

Nothing == [result |-> "nothing"]
Failure == [result |-> "error"]

parse_file(line) ==
  CASE line.kind # "entry" -> Failure
    [] line.kind = "entry" /\ line.letter = "-" -> [result |-> "file", file |-> Parsed(line)]
    [] line.kind = "entry" /\ line.letter = "d" /\ line.name \notin {Here, HereUp} ->
         [result |-> "directory", file |-> [Parsed(line) EXCEPT !.size = 0]]
    [] OTHER -> Nothing

\* A heading with a space is only taken for one after a blank line, and
\* ctx->after_blank is cleared before it is looked at.
ls_parse(line) ==
  CASE line.kind \in {"blank", "total"} -> Nothing
    [] line.kind = "heading" /\ ~line.spaced -> Nothing
    [] OTHER -> parse_file(line)

\* Mutation: a directory in front of the list cuts it off.
add_directory_first(list, parsed) ==
  IF parsed.result = "file" THEN <<parsed>> \o list
  ELSE IF parsed.result = "directory" THEN <<parsed>>
  ELSE list

\* Files at the head, directories at the tail.
ls_pflist_add(list, parsed) ==
  IF parsed.result = "file" THEN <<parsed>> \o list
  ELSE IF parsed.result = "directory" THEN Append(list, parsed)
  ELSE list

\* The loop of ftp_fetch: a line that cannot be parsed ends it with an error.
ftp_fetch(lines) ==
  LET parsed == [k \in DOMAIN lines |-> ls_parse(lines[k])]
  IN  [failed |-> \E k \in DOMAIN lines : parsed[k].result = "error",
       list   |-> FoldLeft(ls_pflist_add, << >>, parsed)]

\* The loop of rsh_fetch and sftp_fetch: such a line is left out.
rsh_fetch(lines) ==
  [failed |-> FALSE,
   list   |-> FoldLeft(ls_pflist_add, << >>, [k \in DOMAIN lines |-> ls_parse(lines[k])])]
=============================================================================
