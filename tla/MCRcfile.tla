------------------------------ MODULE MCRcfile ------------------------------
(* Small instances of Rcfile: a default site, complete but for what a file   *)
(* varies, and two sites with up to two settings each.                       *)
EXTENDS Rcfile

L(k, v) == [key |-> k, val |-> v]
F(k)    == L(k, <<>>)

Where == <<L("server", <<"host">>), L("remote", <<"/", "web">>), L("local", <<"~/", "web", "/">>)>>

\* Settings that interact: with each other, with the protocol, or in the reader.
Tuning ==
  {F("safe"), F("tempupload"), F("nooverwrite"), F("nodelete"), F("checkmoved"),
   L("checkmoved", <<"renames">>), L("state", <<"checksum">>),
   L("permissions", <<"all">>), L("permissions", <<"dir">>), L("permissions", <<"ignore">>),
   L("symlinks", <<"maintain">>), L("ftp", <<"usecwd">>), L("http", <<"secure">>),
   L("exclude", <<"a", " ", "#", Quote, "\\">>), L("exclude", <<"b">>), L("username", <<"me">>),
   L("remote", <<"~/", "web">>), L("local", <<"/", "other">>)}

Protocol == {L("protocol", <<p>>) : p \in {"ftp", "WebDAV", "rsh", "SSH", "sftp", "gopher"}}

Bad ==
  {L("", <<"exclude", " ", "a", " ", "b">>), L("", <<"exclude", " ", Quote, Quote>>),
   L("", <<"safe", "exclude", " ", "a">>),
   L("permissions", <<"some">>), L("remote", <<"~", "me">>), L("nonsense", <<"a">>),
   F("default"), F("site"), L("checkmoved", <<"twice">>), F("exclude")}
Silent == {L("#", <<>>), L("#", <<"#", "site", " ", "c">>), L("charset", <<"utf8">>)}

\* A default site, one protocol and one setting; a site with its own; another.
PlainFiles ==
  {<<F("default")>> \o Where \o <<d, L("site", <<"a">>), p, t, L("site", <<"b">>), u>> :
     d \in Tuning \cup Protocol, p \in Protocol, t \in Tuning, u \in {F("safe"), L("protocol", <<"rsh">>)}}

\* No default site: each has to be complete.
LoneFiles ==
  {<<L("site", <<"a">>)>> \o Where \o <<t, u>> \o <<L("site", <<"b">>), t>> : t, u \in Tuning}
    \cup {<<L("site", <<"a">>)>> \o SelectSeq(Where, LAMBDA l : l.key # k) :
            k \in {"server", "remote", "local"}}

\* A line out of place or wrong, anywhere, and one that is too long.
BadFiles ==
  UNION {{<<b, F("default")>>, <<F("default"), b, L("site", <<"a">>)>>,
          <<L("site", <<"a">>), b>>, <<L("site", <<"a">>), F("safe"), L("site", <<"b">>), b, F("safe")>>} :
            b \in Bad \cup Silent \cup Tuning}
    \cup {<<L("site", <<"a">>), L("exclude", <<"a", " ", "a", " ", "a", " ", "a", " ", "a", " ", "nodelete">>)>>}

MCFiles == PlainFiles \cup LoneFiles \cup BadFiles
MCLocalDirs == {<<"home", "web", "/">>}
MCNetrc == {<< <<"host">>, <<"me">> >>}
=============================================================================
