----------------------------- MODULE SiteOptions -----------------------------
(* What the engine of sites.c takes for granted of the options of a site, and *)
(* what rcfile_verify has to see to.                                          *)

Protocols == {"ftp", "dav", "rsh", "sftp"}

\* The combinations of options that the handlers and drivers have code for, or
\* else a call that says SITE_UNSUPPORTED: safe mode with rsh or sftp, whose
\* conditional upload always says so.
EngineCanDo(o) ==
  /\ o.protocol \in Protocols
  /\ o.protocol = "dav" => o.perms # "all" /\ ~o.dirperms
  /\ o.safemode => ~o.tempupload /\ ~o.nooverwrite
=============================================================================
