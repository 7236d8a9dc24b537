----------------------------- MODULE FileServe -----------------------------
(***************************************************************************)
(* The TFTP and the HTTP file servers (tftpd/handler.go, httpd/handler.go) *)
(* on top of the store.                                                    *)
(*                                                                         *)
(* Every transfer has a goroutine of its own.  It takes the manifest of    *)
(* its client's address from the store once and works on that pointer      *)
(* while other goroutines replace or delete manifests.  The two servers    *)
(* repeat the same decisions in their own order.                           *)
(***************************************************************************)
EXTENDS Mounts

CONSTANTS ID, IP, MAC, Nil, Inputs, Files, Caller, MaxPuts,   \* see Store
          Transfer,       \* goroutines serving a file
          Asked,          \* the requests clients may send
          BadIP,          \* an address net.ParseIP refuses
          StaticFiles     \* paths of the embedded iPXE binaries

VARIABLES manifests, ip, mac, suspended, ver, todo, call,     \* see Store
          ts,             \* the transfers
          up              \* the process runs

S == INSTANCE Store

ASSUME StoreAssumption == S!InputsAssumption /\ S!FilesAssumption /\ S!NilAssumption

\* Clients send a path from an address, and over HTTP a query, of which spoof=
\* is a part; a manifest has a list of mounts.
ASSUME AskedAssumption ==
  /\ Nil \notin Asked
  /\ \A r \in Asked : /\ r.proto \in {"tftp", "http"}
                      /\ r.name \in Path /\ r.query \in Path
                      /\ r.remote \in IP
                      /\ r.spoof \in IP \cup {Nil, BadIP}
                      /\ r.spoof # Nil => r.query # <<>>
  /\ \A m \in Inputs : m.mounts \in Seq(Mount)

server == <<manifests, ip, mac, suspended, ver, todo, call>>
vars == <<manifests, ip, mac, suspended, ver, todo, call, ts, up>>

Fresh == [pc |-> "idle", req |-> Nil, obj |-> Nil, source |-> Nil, result |-> Nil]

\* result: what the client is told.  "aborted" is an HTTP connection cut off
\* by a panic of its handler, "short" a TFTP transfer that broke off and was
\* reported to the TFTP library as a success.
Results == {"ok", "error", "bad request", "not found", "aborted", "short"}

-----------------------------------------------------------------------------
(* Decisions of tftpReadHandler and ServeHTTP *)

\* The address whose manifest is used; only HTTP knows ?spoof=.
HostIP(r) == IF r.proto = "http" /\ r.spoof # Nil THEN r.spoof ELSE r.remote

\* The embedded file a request names: HTTP strips the leading slashes,
\* embed.FS refuses a name that still has one.
StaticName(r) == IF r.proto = "http" THEN TrimLeft(r.name) ELSE r.name
IsStatic(r, m) == m.ipxe /\ StaticName(r) \in StaticFiles
StaticSource(r) == Source("static", None, StaticName(r), <<>>)

\* embed.FS opens "." too, the directory of the embedded files.
IsStaticDir(r, m) == m.ipxe /\ StaticName(r) = Dot

ASSUME StaticAssumption == Dot \notin StaticFiles /\ \A f \in StaticFiles : TrimLeft(f) = f

ASSUME NilAssumption == Nil \notin Results /\ \A r \in Asked : Nil # StaticSource(r)

\* What a mount leads to: TFTP looks at Proxy before Content, HTTP the other
\* way round.  Nil: the mount is empty.
TftpSource(mount, r) ==
  CASE mount.proxy # None -> TftpURL(mount, r.name)
    [] mount.proxy = None /\ mount.content # None -> Template(mount)
    [] mount.proxy = None /\ mount.content = None ->
         IF mount.dir # <<>> THEN LocalFile(mount, r.name) ELSE Nil

HttpSource(mount, r) ==
  CASE mount.content # None -> Template(mount)
    [] mount.content = None /\ mount.proxy # None -> ProxyDirector(mount, r.name, r.query)
    [] mount.content = None /\ mount.proxy = None ->
         IF mount.dir # <<>> THEN LocalFile(mount, r.name) ELSE Nil

-----------------------------------------------------------------------------
(* Steps of a transfer *)

Local(t, r) ==
  /\ up
  /\ ts' = [ts EXCEPT ![t] = r]
  /\ UNCHANGED <<server, up>>

End(t, result) == Local(t, [ts[t] EXCEPT !.pc = "done", !.result = result])

Request(t, r) ==
  /\ S!Loaded
  /\ ts[t].pc = "idle"
  /\ Local(t, [Fresh EXCEPT !.pc = "start", !.req = r])

\* ?spoof= with something that is no address.
BadSpoof(t) ==
  /\ ts[t].pc = "start"
  /\ HostIP(ts[t].req) = BadIP
  /\ End(t, "bad request")

\* Mutant of Lookup: the test for nil is missing.
LookupUnchecked(t) ==
  /\ ts[t].pc = "start"
  /\ HostIP(ts[t].req) # BadIP
  /\ Local(t, [ts[t] EXCEPT !.pc = "static", !.obj = S!FindByIP(HostIP(ts[t].req))])

\* Mutant of Lookup: the address of the connection is used, spoofed or not.
LookupRemote(t) ==
  /\ ts[t].pc = "start"
  /\ HostIP(ts[t].req) # BadIP
  /\ LET m == S!FindByIP(ts[t].req.remote)
     IN IF m = Nil THEN End(t, "not found")
        ELSE Local(t, [ts[t] EXCEPT !.pc = "static", !.obj = m])

Lookup(t) ==
  /\ ts[t].pc = "start"
  /\ HostIP(ts[t].req) # BadIP
  /\ LET m == S!FindByIP(HostIP(ts[t].req))
     IN IF m = Nil THEN End(t, "not found")
        ELSE Local(t, [ts[t] EXCEPT !.pc = "static", !.obj = m])

\* With ipxe set, the embedded files come before the mounts.
Static(t) ==
  /\ ts[t].pc = "static"
  /\ ~IsStaticDir(ts[t].req, ts[t].obj.man)
  /\ LET r == ts[t].req
     IN IF IsStatic(r, ts[t].obj.man)
          THEN Local(t, [ts[t] EXCEPT !.pc = "send", !.source = StaticSource(r)])
          ELSE Local(t, [ts[t] EXCEPT !.pc = "mount"])

\* A directory is no io.ReadSeeker.  net/http recovers from the panic, the TFTP
\* library does not: the process ends.
StaticDir(t) ==
  /\ ts[t].pc = "static"
  /\ IsStaticDir(ts[t].req, ts[t].obj.man)
  /\ IF ts[t].req.proto = "http" THEN End(t, "aborted")
     ELSE up /\ up' = FALSE /\ UNCHANGED <<server, ts>>

\* GetMount, and the kind of mount it is.  A host path that does not begin with
\* the mount's directory is refused; ServeHTTP then calls Error() on a nil
\* error and panics.
FindMount(t) ==
  /\ ts[t].pc = "mount"
  /\ LET r == ts[t].req
         mount == GetMount(ts[t].obj.man.mounts, r.name)
         source == IF r.proto = "tftp" THEN TftpSource(mount, r) ELSE HttpSource(mount, r)
     IN CASE mount = None -> End(t, "not found")
          [] mount # None /\ source = Nil -> End(t, "error")
          [] mount # None /\ source # Nil ->
               IF source.kind = "file" /\ ~ValidateHostPath(mount, source.rest)
                 THEN End(t, IF r.proto = "http" THEN "aborted" ELSE "error")
                 ELSE Local(t, [ts[t] EXCEPT !.pc = "open", !.source = source])

\* Opening the source: a template that does not parse or execute, an upstream
\* that does not answer or answers other than 200, a file that cannot be
\* opened.  HTTP hands an upstream's answer through, whatever it is.
Open(t) ==
  /\ ts[t].pc = "open"
  /\ Local(t, [ts[t] EXCEPT !.pc = "send"])

OpenFails(t) ==
  /\ ts[t].pc = "open"
  /\ End(t, "error")

Send(t) ==
  /\ ts[t].pc = "send"
  /\ End(t, "ok")

\* The transfer breaks off; tftpReadHandler forgets that for embedded files.
SendFails(t) ==
  /\ ts[t].pc = "send"
  /\ End(t, IF ts[t].req.proto = "tftp" /\ ts[t].source.kind = "static"
              THEN "short" ELSE "error")

Finish(t) ==
  /\ ts[t].pc = "done"
  /\ Local(t, Fresh)

-----------------------------------------------------------------------------

\* Other goroutines use the store.
StoreStep ==
  /\ up
  /\ \/ S!LoadFile
     \/ \E m \in Inputs : S!Put(m)
     \/ \E c \in Caller, id \in ID : S!ForgetLookup(c, id)
     \/ \E c \in Caller : S!ForgetDelete(c)
     \/ \E c \in Caller, a \in IP, op \in {"suspend", "unsuspend"} :
          S!FlagLookup(c, a, op)
     \/ \E c \in Caller : S!FlagWrite(c)
  /\ UNCHANGED <<ts, up>>

Restart ==
  /\ S!Restart
  /\ ts' = [t \in Transfer |-> Fresh]
  /\ up' = TRUE

Init ==
  /\ S!Init
  /\ ts = [t \in Transfer |-> Fresh]
  /\ up = TRUE

Serve(t) ==
  \/ BadSpoof(t) \/ Lookup(t) \/ Static(t) \/ StaticDir(t) \/ FindMount(t)
  \/ Open(t) \/ OpenFails(t)
  \/ Send(t) \/ SendFails(t)

Next ==
  \/ \E t \in Transfer : \E r \in Asked : Request(t, r)
  \/ \E t \in Transfer : Serve(t)
  \/ \E t \in Transfer : Finish(t)
  \/ StoreStep
  \/ Restart

Spec == Init /\ [][Next]_vars

-----------------------------------------------------------------------------
(* Properties *)

Sent(t) == ts[t].pc = "done" /\ ts[t].result = "ok"

\* Type invariant of the transfers; a step that needs the manifest or the
\* source has it.
TypeOK ==
  /\ up \in BOOLEAN
  /\ \A t \in Transfer :
       /\ ts[t].pc \in {"idle", "start", "static", "mount", "open", "send", "done"}
       /\ ts[t].req = Nil <=> ts[t].pc = "idle"
       /\ ts[t].result = Nil <=> ts[t].pc # "done"
       /\ ts[t].result \in Results \cup {Nil}
       /\ ts[t].obj \in S!Obj \cup {Nil}
       /\ ts[t].pc \in {"static", "mount", "open", "send"} => ts[t].obj # Nil
       /\ ts[t].pc \in {"open", "send"} => ts[t].source # Nil

\* The source s is one of mount's own: for a file, its path on the host begins
\* with the mount's directory.
Leads(mount, s) ==
  CASE s.kind = "content" -> s.of = mount.content
    [] s.kind = "proxy" -> mount.proxy # None /\ s.of = mount.proxy.base
    [] s.kind = "file" -> mount.dir # <<>> /\ IsPrefix(hostPathPrefix(mount), s.rest)
    [] s.kind = "static" -> FALSE

\* README.md:114-115 "virtual per-host (per-manifest) paths that are accessible
\* over both TFTP and HTTP but only from the IP address of in this manifest"
\* (or for a caller who spoofs it, README.md:61-63): what is sent is a source
\* of one manifest for the client's address, chosen by that manifest's own
\* mounts, whatever happens to the store during the transfer.
OnlyOwnFiles ==
  \A t \in Transfer : Sent(t) =>
    \E m \in Inputs :
      /\ m.ip = HostIP(ts[t].req)
      /\ IF ts[t].source.kind = "static" THEN m.ipxe
         ELSE \E i \in 1..Len(m.mounts) : Leads(m.mounts[i], ts[t].source)

\* Two transfers asked for the same path of the same manifest, up to leading
\* slashes, and both succeeded.
SamePath(t, u) ==
  /\ Sent(t) /\ Sent(u)
  /\ ts[t].obj = ts[u].obj
  /\ TrimLeft(ts[t].req.name) = TrimLeft(ts[u].req.name)

\* What was sent, but for the query a proxy was sent.
Delivered(t) == [ts[t].source EXCEPT !.query = <<>>]

\* The cases in which the two servers are known to disagree on a request.
\* The mount has a proxy as well as a content (schema.go:43, 50 call them
\* mutually exclusive), or its proxy has a query, which HTTP drops.
Ambiguous(mount) == mount.proxy # None /\ (mount.content # None \/ mount.proxy.query # <<>>)
\* An embedded file is asked for over TFTP with a slash in front.
SlashedStatic(r, m) == m.ipxe /\ r.name # TrimLeft(r.name) /\ TrimLeft(r.name) \in StaticFiles
                         /\ r.proto = "tftp"

\* README.md:36 "netbootd exposes all "mounts" via both TFTP and HTTP
\* simultaneously": two transfers of the same path of the same manifest deliver
\* the same source, whichever server they use and whatever is put or deleted
\* in between.  A mount that appends the suffix needs the same leading slashes:
\* TrimPrefix, unlike GetMount, does not ignore them.
SameSource ==
  \A t, u \in Transfer :
    LET m == ts[t].obj.man
        mount == GetMount(m.mounts, ts[t].req.name)
    IN /\ SamePath(t, u)
       /\ ~SlashedStatic(ts[t].req, m) /\ ~SlashedStatic(ts[u].req, m)
       /\ mount # None => /\ ~Ambiguous(mount)
                          /\ mount.suffix => ts[t].req.name = ts[u].req.name
       => Delivered(t) = Delivered(u)
=============================================================================
