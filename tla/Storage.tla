------------------------------ MODULE Storage ------------------------------
(***************************************************************************)
(* The info file of sitestore.c: what site_write_stored_state writes, and  *)
(* how site_read_stored_state merges it into the list of files, item by    *)
(* item.  The XML and the escaping of names are abstracted to records.     *)
(***************************************************************************)
EXTENDS FileList, SequencesExt

\* An <item> of the info file.
Item == [type : FileTypes, state : FileState, server : Nat]

InfoFile == [status : {"valid", "corrupt", "missing"}, items : Seq(Item)]

ValidInfo(items) == [status |-> "valid", items |-> items]

\* As site_open_storage_file leaves it.
TruncatedInfo == [status |-> "corrupt", items |-> << >>]

\* The <item> of an entry: the server time only of a file.
item_of(f) ==
  [type |-> f.type, state |-> Stored(f), server |-> IF f.type = "file" THEN f.server ELSE 0]

\* The loop of site_write_stored_state: the first n entries, those without a
\* stored state left out.
written(fs) ==
  LET items[n \in 0 .. Len(fs)] ==
        IF n = 0 THEN << >>
        ELSE IF Stored(fs[n]) = Absent THEN items[n - 1]
        ELSE Append(items[n - 1], item_of(fs[n]))
  IN  items

items_of(fs) == written(fs)[Len(fs)]

\* Mutation: a time that the parser has is not replaced.
server_modtime_once(old, it) == IF old # 0 THEN old ELSE it.server

\* doc.server after the elements of an item: kept when the item has none.
server_modtime(old, it) == IF it.server # 0 THEN it.server ELSE old

\* What the parser has after the end of an item: the list, and doc.server,
\* which is a server modification time, or 0.
read_item(read, it) ==
  LET time == server_modtime(read.doc, it)
      s    == file_set_stored(read.site, it.type, it.state)
      k    == file_set_index(read.site, "stored", it.type, it.state)
  IN  [doc  |-> time,
       site |-> IF time = 0 THEN s
                ELSE file_replace(s, k, [s.files[k] EXCEPT !.server = time])]

\* The whole info file merged into a list.
site_read_stored_state(site, info) ==
  FoldLeft(read_item, [site |-> site, doc |-> 0], info.items).site
=============================================================================
