------------------------------- MODULE Syslog -------------------------------
(***************************************************************************)
(* The syslog server (syslogd): readers of the go-syslog library, one for  *)
(* the UDP socket and one per TCP connection, hand every line they receive *)
(* to an unbuffered channel; one goroutine takes the lines from it and     *)
(* writes them to the log.                                                 *)
(*                                                                         *)
(* A line is what the library's parser makes of it, a function from keys   *)
(* to values.  RFC 3164 lines have their text under "content", RFC 5424    *)
(* lines under "message".                                                  *)
(***************************************************************************)
EXTENDS Naturals, Sequences

CONSTANTS Reader,       \* the UDP socket and the TCP connections
          Lossy,        \* the readers of datagrams
          Lines,        \* Lines[r]: the lines sent to reader r, in order
          QueueSize,    \* how many lines a reader and its socket hold
          Strings       \* the values that are strings

VARIABLES sent,         \* sent[r]: the lines sent so far
          queue,        \* queue[r]: numbers of the lines that wait
          handling,     \* the lines syslogHandleLog is working on
          logged        \* logged[r]: what has been logged of r's lines

vars == <<sent, queue, handling, logged>>

\* The texts isMsg accepts.
Texts(line) ==
  {line[k] : k \in DOMAIN line \cap {"content", "message"}} \cap Strings

\* The message syslogHandleLog may log.  (The order in which Go goes through
\* a map is random, and the last text counts.)
Messages(line) ==
  IF Texts(line) = {} THEN {"UNKNOWN"}
  ELSE {IF t = "" THEN "UNKNOWN" ELSE t : t \in Texts(line)}

Init ==
  /\ sent = [r \in Reader |-> 0]
  /\ queue = [r \in Reader |-> <<>>]
  /\ handling = {}
  /\ logged = [r \in Reader |-> <<>>]

\* A line reaches the host.  A datagram that finds no room is lost, the
\* sender on a connection has to wait.
Arrive(r) ==
  /\ sent[r] < Len(Lines[r])
  /\ Len(queue[r]) < QueueSize \/ r \in Lossy
  /\ sent' = [sent EXCEPT ![r] = @ + 1]
  /\ queue' = [queue EXCEPT ![r] = IF Len(@) < QueueSize THEN Append(@, sent'[r]) ELSE @]
  /\ UNCHANGED <<handling, logged>>

\* Mutant of Receive: only the first line is taken from the channel.
ReceiveOnce(r) ==
  /\ queue[r] # <<>>
  /\ handling = {}
  /\ \A s \in Reader : logged[s] = <<>>
  /\ handling' = {[from |-> r, line |-> Head(queue[r])]}
  /\ queue' = [queue EXCEPT ![r] = Tail(@)]
  /\ UNCHANGED <<sent, logged>>

\* Reader r and the loop of Serve meet at the channel.
Receive(r) ==
  /\ queue[r] # <<>>
  /\ handling = {}
  /\ handling' = {[from |-> r, line |-> Head(queue[r])]}
  /\ queue' = [queue EXCEPT ![r] = Tail(@)]
  /\ UNCHANGED <<sent, logged>>

syslogHandleLog ==
  \E h \in handling : \E m \in Messages(Lines[h.from][h.line]) :
    /\ logged' = [logged EXCEPT ![h.from] = Append(@, [line |-> h.line, msg |-> m])]
    /\ handling' = handling \ {h}
    /\ UNCHANGED <<sent, queue>>

\* The process ends; what was not logged is lost.
Reset ==
  /\ sent' = [r \in Reader |-> 0]
  /\ queue' = [r \in Reader |-> <<>>]
  /\ handling' = {}
  /\ logged' = [r \in Reader |-> <<>>]
=============================================================================
