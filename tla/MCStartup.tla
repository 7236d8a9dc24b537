----------------------------- MODULE MCStartup -----------------------------
(* A small instance of Startup: configurations with one thing wrong each,  *)
(* at most one port taken, one UDP and one TCP sender of syslog lines.     *)
EXTENDS Startup

Good == [dir |-> "readable", address |-> TRUE, http |-> 8080, syslog |-> 514,
         api |-> 8081, cert |-> FALSE, key |-> FALSE, tls |-> FALSE]
MCConfigs ==
  {Good,
   [Good EXCEPT !.dir = "unreadable"],
   [Good EXCEPT !.address = FALSE],
   [Good EXCEPT !.api = 8080],
   [Good EXCEPT !.syslog = 69],
   [Good EXCEPT !.cert = TRUE],
   [Good EXCEPT !.cert = TRUE, !.key = TRUE],
   [Good EXCEPT !.dir = "none", !.cert = TRUE, !.key = TRUE, !.tls = TRUE]}
MCOthers == {{}} \cup {{s} : s \in {<<"udp", 69>>, <<"tcp", 8080>>, <<"udp", 514>>,
                                    <<"tcp", 514>>, <<"tcp", 8081>>}}

\* RFC 3164 and RFC 5424 lines, an empty one, and one without a text.
CONSTANT Opaque
Readers == {"udp", "tcp"}
MCStrings == {"", "text"}
MCLines == [udp |-> <<[content |-> "text"], [content |-> Opaque]>>,
            tcp |-> <<[message |-> "text"], [message |-> ""]>>]
=============================================================================
