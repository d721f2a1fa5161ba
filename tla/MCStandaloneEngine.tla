------------------------ MODULE MCStandaloneEngine ------------------------
(***************************************************************************)
(* Two flows of one client, to ports 443 and 80, the answers to the first, *)
(* and a packet that is neither TCP nor UDP.  The first flow is HTTPS by   *)
(* its port until its second packet names a site.                          *)
(***************************************************************************)
EXTENDS StandaloneEngine

CONSTANTS client, server, web, tls, reply, site, host

MCTupleOf == <<tls, web, tls, NoTuple, reply, tls, web>>
MCHash == [t \in Tuples |-> IF t = web THEN 1 ELSE 2]
MCSrcIP == [t \in Tuples |-> IF t = reply THEN server ELSE client]
MCSrcPort == [t \in Tuples |-> IF t = reply THEN 443 ELSE 1024]
MCDstPort == [t \in Tuples |-> IF t = tls THEN 443 ELSE IF t = web THEN 80 ELSE 1024]
MCNameIn == [i \in 1..7 |-> IF i = 3 THEN site ELSE IF i = 7 THEN host ELSE NoName]
MCAppOf == [n \in {site, host} |-> IF n = site THEN "YouTube" ELSE "HTTPS"]
MCRuleSets == {[ips |-> {}, apps |-> {"YouTube"}, domains |-> {}],
               [ips |-> {}, apps |-> {"HTTPS"}, domains |-> {}],
               [ips |-> {server}, apps |-> {}, domains |-> {host}]}
=============================================================================
