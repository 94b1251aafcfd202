------------------------------ MODULE MCMonitor ------------------------------
(* A sound host and two broken ones; a plain configuration and an odd one. *)
EXTENDS Monitor

MCHosts ==
    {[mkvmerge |-> "current", roots |-> <<"ok">>, scratch |-> <<>>],
     [mkvmerge |-> "old", roots |-> <<"missing">>, scratch |-> <<"absent", "writable">>],
     [mkvmerge |-> "none", roots |-> <<"unreadable">>, scratch |-> <<"absent", "locked">>]}

MCConfigs ==
    {[split |-> FALSE, sqlite |-> TRUE, login |-> "remote_only", proxies |-> FALSE],
     [split |-> TRUE, sqlite |-> TRUE, login |-> "external", proxies |-> TRUE]}

=============================================================================
