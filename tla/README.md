# Verification of netbootd

netbootd answers DHCP, TFTP and HTTP requests of machines that boot from the
network.  What a machine gets is described by a *manifest*; manifests are loaded
from a directory at start and managed over an HTTP API while machines boot.
This directory holds TLA+ models of the daemon, TLC configurations that check
them on small instances, and TLAPS proofs of every invariant that the passing
runs check.  Paths such as `store/store.go:130` are relative to the repository.

## Inventory

| Part | State | Operations | Used by |
|---|---|---|---|
| manifest store (`store/store.go`) | maps by ID, IPv4, MAC to `*Manifest`; one RWMutex | load directory, put, forget, three lookups, GetAll | every server |
| HTTP API (`api/server.go`) | the `err` result shared by all handler closures | GET, list, PUT, DELETE, suspend, unsuspend, self | operators, machines |
| DHCP (`dhcpd/`) | one goroutine per datagram; the kernel's ARP table | read loop, HandleMsg4, ARP injection | machines |
| TFTP, HTTP files (`tftpd/`, `httpd/`) | one goroutine per transfer | serve a path | machines |
| mounts (`manifest/schema.go`) | none | GetMount, HostPath, ProxyDirector | TFTP, HTTP files |
| codecs (`manifest/io.go`, `ipnet.go`, `mac.go`) | none | decode, Validate, encode | store, API |
| startup (`cmd/server.go`) | sockets, goroutines, GlobalHints | load, bind, serve, READY=1, exit | systemd |
| syslog (`syslogd/`) | one unbuffered channel | receive, log | machines |
| persistence (`store/persistence.go`) | none (stubs) | | store |

The parts interact through the store only.  A lookup returns a *pointer* into
the store, and its caller works on it after the mutex was released; the field
`Suspended` is written through such a pointer.  The hard behaviours are
therefore interleavings: a manifest is replaced or deleted between the two
critical sections of `ForgetManifest`, between a lookup and the write of
`Suspended`, or while a DHCP reply or a file is being made from it.  Besides,
the API's goroutines share one `err`, a listing walks the live map without the
mutex, and DHCP handlers share the ARP table.  Nothing is persisted, so a
restart falls back to the manifest directory.  Two behaviours span the whole
system: a machine boots by a sequence of DHCP and TFTP exchanges, any of which
may be lost, late or fall into a change of its manifest or a restart; and the
daemon comes up in steps, with services already running while later ones may
still fail.

What makes the parts correct:

* store: a lookup finds what was put last and not deleted, and by address the
  same as by ID;
* API: the answer tells what happened to *this* request; only permitted
  requests change anything; no request is left without an answer;
* DHCP: exactly the machines in the manifests are answered, each reply comes
  from one manifest and reaches the client that asked;
* files: a machine gets the files of its own manifest, the most specific mount
  wins, TFTP and HTTP agree;
* codecs: what is written can be read, or is at least never read as something
  else;
* a boot: iPXE is loaded once, the machine ends with its own address and file,
  and it does end;
* the daemon: it comes up completely or exits, and READY=1 is true;
* syslog: lines are logged in order, and none that found room is forgotten.

`PROJECT.json` lists every part, the hazards with their lines, and the lines
each definition stands for.

## Modules

**Registry** is the abstract store: one map by ID and two indexes that are
functions of it; put, delete and reset are atomic.

**Store** models `store/store.go`.  A pointer is a record `[ver, man]`: `man`
holds the fields nobody writes after `PutManifest`, `ver` is the identity of the
object, and the variable `suspended` is the set of identities whose flag is on.
Each critical section of the mutex is one action; `ForgetManifest` and the
suspend routes are two actions each (`ForgetLookup`/`ForgetDelete`,
`FlagLookup`/`FlagWrite`) with the pointer kept in `call[c]`.  `LoadFile` is one
iteration of `LoadFromDirectory`, of a file that can be used or of one that
cannot; nothing is served before the last one, as in `cmd/server.go`.  `Restart` may happen at any time.

**StoreLocks** is Store one level down: every map statement of `PutManifest` and
`ForgetManifest` is an action, and so are the halves of `sync.RWMutex`'s
operations (a writer first shuts out new readers, then waits for the old ones;
its `Unlock` lets in all readers that came meanwhile).  Its refinement mapping
shows a critical section as done once it is entered (`Settled`), and the pointer
of a pending `ForgetManifest` or suspend handler as Store's `call`.  That Store
may treat a critical section as one step is thus a result, not an assumption.

**Api** models `api/server.go` over an instance of Store.  `conn[c]` is the
handler goroutine of a connection.  Decoding, storing and marshalling assign to
the shared `err`, the test that follows is another step, and `err.Error()` reads
it once more.  `ListAll` takes the live map, `Marshal` walks it, and `MapRace`
is the runtime's abort when a writer comes in between.  A handler's position
determines the `call` of Store, so that `ImplementsStore` is a refinement: the
API acts on the store only by Store's actions.  Requests carry whether their
body decodes; manifests carry whether encoding/json can marshal them (it refuses
nested YAML mappings in `vars`).

**Dhcp** models `dhcpd/server.go`, `handler.go` and the ARP injection over an
instance of Store; the other goroutines of the process are Store's callers.
`hs[h]` is a run of `HandleMsg4`: the early returns (`Discard`,
`IgnoreUnknown`, `IgnoreOther`), the lookup with everything that depends on
immutable fields (`Answer`), the server's own address `sid` included, the two reads of `Suspended` (`TftpServerName`,
`BootFile`), the choice of the peer (`PeerKnown`, `InjectArp`, `InjectFails`)
and `Write`.  `ReadFailed` is the panic of the read loop on a failed read.  The
branch for NAK is left out: no reply is one.  The ARP table is the kernel's: it
survives a restart and may lose entries; that a machine announces an address
itself is not modelled.  Hardware addresses have a length (`HwLen`): one that
does not fit into `struct arpreq` panics.  A datagram's `via` is the interface it
came in on, which the server only sees in the control message (`oob`), and not
even there when it is bound to an interface.  `seen` is a history variable.

**Boot** composes Dhcp, and with it Store, with the first decisions of
`tftpReadHandler` and a client.  The client is external; it does what
README.md:99-106 describes: the ROM asks by DHCP and loads what it is told, and
iPXE, once loaded, does the same again under its user class.  It sends again
what is not answered, and may give up and start over at any point.  A reply
counts when it answers what the client is asking *now* (`Reaches`); a handler
that returns without that has sent a reply that was lost or came too late.  An
OFFER without a boot file is passed over.  The `serves` field of a manifest is
the set of names its mounts match.

**Mounts** holds `GetMount`, `HostPath`, `ValidateHostPath` and the two ways to
the URL of a proxy mount as operators on paths, which are sequences of characters
because the code compares characters and not path segments: `ValidateHostPath`
is a comparison of characters too.  `Clean` and `Join` are those of
`path/filepath`.  `ProxyDirector` (HTTP) takes scheme, host and path of the
target and keeps the client's query; `TftpURL` is the target's whole text with
the suffix behind it.  `IsBest` is the reference definition given by the comment
on `GetMount`.

**FileServe** models `tftpReadHandler` and `ServeHTTP` over Store and Mounts,
with their different orders (TFTP prefers `proxy`, HTTP `content`), error returns
and panics: the name `.` opens the directory of the embedded files, which cannot
be sent; net/http recovers from that, and over TFTP the process ends (`up`,
`StaticDir`).  Upstreams, templates, the file system and the network succeed or
fail nondeterministically.  Names consist of characters that URL parsing leaves
as they are.

**Codec** follows one manifest from the document an operator wrote through any
number of decodings and encodings.  The texts are modelled by what the code does
to them: `IPWithNet.String` writes eight hexadecimal digits, `ParseCIDR` reads
decimal ones; yaml.v2 writes the two fields instead of the text, because
`MarshalText` has a pointer receiver; encoding/json refuses the maps yaml.v2
makes of nested `vars`.

**Startup** models `serverCmd`: `Steps` is the order of its steps, `Listen` the
binding of a socket that may be taken by another process or by an earlier
service, `Exit` what `log.Fatal` does.  The services' goroutines start later
than they are launched (`started`, `serving`); DHCP binds its own socket there.
**Syslog**, which it contains, is the channel between the library's readers and
the loop of `syslogd`.

**StoreProofs**, **StoreLocksProofs**, **ApiProofs**, **DhcpProofs**,
**FileServeProofs**, **CodecProofs**, **StartupProofs** and **BootProofs** have
the theorems about the modules they are named after (`CodecProofs` also those
about Mounts, `StartupProofs` those about Syslog).  The **MC** modules define
the instances.
Definitions introduced by a comment "Mutant of ..." are faulty variants of the
definition that follows; no specification uses them.  Each property of a passing run
has one that violates it.

## Runs

| Run | Result | What it shows |
|---|---|---|
| `store_all` | pass | With IDs that share addresses and move between them: lookups are sound (`IndexSound`), nothing older comes back (`NeverOlder`), addresses that are not shared find what is registered (`Reachable`), addresses that are not given up find nothing else (`Coherent`), and a file that cannot be used keeps no other one out of the store (`DirectoryLoaded`). For an ID that does neither, Registry is refined; its deletion is therefore final. |
| `store_locks` | pass | Under the RWMutex the statements of three goroutines implement Store's atomic steps; no lookup sees half a put; every call returns. |
| `api_all` | pass | While one request at a time uses `err`, answers are honest (`PutAnswerHonest`, `GetAnswerHonest`), only valid manifests are served, only permitted requests change the store, and every request is answered. |
| `api_shared_err` | violation | Two PUTs at once read each other's `err`. |
| `api_map_race` | violation | Listing while a PUT writes the map takes the process down. |
| `dhcp_any` | pass | A datagram of every kind on two interfaces, a store in motion: `FromOneManifest`, `SuspendRespected`, `LeavesArrivalInterface` (the server identifier included), `NoArpPanic`. |
| `dhcp_own` | pass | A server bound to an interface, a machine with two NICs and one with one, two handlers: exactly the registered MAC addresses are answered, replies leave by the bound interface, and a unicast reply goes to a NIC listed for its address (`UnicastToListed`). |
| `dhcp_two_nics` | violation | The two NICs of a machine ask at once, and the reply to one goes to the other. |
| `files_both` | pass | Mounts of every kind, with and without `appendSuffix`, and two transfers: only the own manifest's sources (`OnlyOwnFiles`), and the same one over both servers but for the exceptions below (`SameSource`). |
| `codec` | pass | Every netmask, both formats, any number of rounds: what is accepted is the manifest that was put (`ReadBackSame`), YAML is always accepted; for all 85 lists of up to three mounts and all paths of up to three characters `GetMount` returns a longest match. |
| `boot` | pass | `NoBootLoop`, `BootsOwnFile`, `FilesOfOwnManifest` while the machine's manifest moves between addresses, and a machine that keeps trying boots once its manifest stays (`EventuallyBoots`). |
| `daemon` | pass | `LoadedFirst`, `ReadyMeansBound`; the daemon comes up completely or exits; no line that found room is forgotten. |

Bounds.  Two IDs, two or three addresses and two goroutines are enough for every
pairwise interference: the store's steps involve one object and at most one
stale pointer each.  `store_all` has a third ID, so that two that interfere run
beside a tidy one; its goroutines are interchangeable (symmetry).  `MaxPuts`
bounds the objects made between two restarts.  In `store_all` the directory makes
two of its five, and three more allow an object to be looked up, replaced by its
own ID, its address taken by another one, and the first ID put once more.  It blocks puts and nothing else; in Api `Accept` reserves
one for each PUT under way, so that no handler is ever stuck, and StoreLocks
does the same.  `dhcp_any` needs one handler because handlers interact through
the ARP table only, which is what `dhcp_own` has two for.  `files_both` has two
transfers, which are interchangeable (symmetry), because its properties compare
two; its requests reach every kind of mount and every branch of both handlers.
`store_locks` needs three goroutines: a reader, a writer that waits for it, and a
reader that comes behind the writer.  `boot` has one machine and one handler at a time; a late
reply is one whose machine has given up or gone on meanwhile.  The expiry of ARP
entries and failed reads are left out of `boot` and checked in `dhcp_any` and
`dhcp_own`.  `daemon` has configurations with one thing wrong each and at most
one port taken, which is enough because the first failure ends the process;
queues hold one line, so that datagrams are lost and connections wait.

Fairness.  Everywhere: runnable goroutines run (weak fairness of each handler's
steps), which the Go scheduler gives.  Beyond that:

* StoreLocks has strong fairness for a writer's entry, because `sync.Mutex`
  hands itself over in order once somebody has waited a millisecond;
* Startup has strong fairness for each reader at the channel, because Go queues
  blocked senders in order of arrival;
* Boot has strong fairness for sending and for receiving a reply: a client
  repeats its request, and of replies sent again and again not all are lost.
  That is an assumption about the network, and the claim is restricted to
  clients that at some point stop giving up.

Requests, lines, puts, signals and restarts are not fair.  No liveness is stated
for transfers: the TFTP server's `http.Client` has no timeout, so an upstream
can hold one forever.

`CHECK_DEADLOCK` is on in every run but `codec`, where a refused document is the
end; `Restart` or `Start` keeps the other models going, and stuck goroutines are
what the liveness properties are for.

### Conditions on the manifests

The store keeps an address consistent only under two conditions.  `Reachable`
holds for an address that one ID claims (`UniqueIP`, `UniqueMAC`), `Coherent` for
one that its ID keeps (`KeepsIP`, `KeepsMAC`); both are conditions on the single
address, in the formula, so that one careless manifest does not void what is said
of the others.  An ID all of whose addresses satisfy both is `Tidy`.

For an address that is given up, `PutManifest` of the ID with other addresses
leaves the index entry of the object it replaces, and `ForgetManifest` deletes
only the keys of the newest one: after DELETE the old object is still served by
its old addresses (put `a` at p, put `a` at q, delete `a`), against
README.md:187, and the DHCP server goes on answering the old MAC address, against
README.md:27.  For an address that is shared, deleting one manifest removes the
index entry of the other.

### Conditions on machines and mounts

* Unicast replies.  `UnicastReachesClient` says what the comment at
  `dhcpd/handler.go:183` says, and is violated (`dhcp_two_nics`): two NICs of one
  manifest that boot at once get the same address injected for both, and the
  second injection redirects the first reply (line 193; README.md:85-88 suggests
  such manifests).  What holds is `UnicastToListed`: the reply still goes to a
  NIC that some manifest lists for the address.
* Leading slashes of names.  `SameSource` says that the servers deliver the same
  source if the names are the same where a suffix is appended.  Without that they
  do not: `TrimPrefix(filename, mount.Path)` removes nothing when the TFTP name
  has no leading slash and the mount's path has one (`manifest/schema.go:72`,
  `tftpd/handler.go:72`), so that the mount of README.md:124-133 leads to
  different files.  The other exceptions are a mount with a proxy *and* a
  content, a proxy URL with a query (HTTP drops it), and a TFTP name with a slash
  before that of an embedded file.
* Leading slashes of mounts.  `BestMountFound` holds for mount paths that all
  begin with one slash.  `manifest/schema.go:151` counts slashes which its
  comment in lines 138-140 says are ignored: of the prefixes `/a` and `ab` the
  first is chosen for the path `ab`.
* Addresses that change hands.  `FilesOfOwnManifest` holds while no address goes
  from one set of NICs to another (`AddressKept`).  The machine's manifest may
  move: TFTP then finds nothing at the old address, or what is still there.
* TLS files that are given but cannot be used.  `ComesUpOrExits` excepts
  them: the daemon then reports READY and its API accepts no connection
  (`cmd/server.go:171`).

### Further divergences, not checked here

Seen while reading: `GET /api/self/manifest` marshals all manifests
(`api/server.go:245`, README.md:211); option 15 (domain) is never sent
(README.md:31,79); a suspend between the two reads of `Suspended` leaves half of
the NBP information in a reply (`dhcpd/handler.go:132,136`); a manifest fetched
as JSON can be put again only if its netmask is /0, because its mask is written
in hexadecimal (`manifest/ipnet.go:13`, against "the standard CIDR
representation" in line 17); `--debug` and `--trace` are looked up among the
flags of `rootCmd` that are not persistent, where they are not, so that they have
no effect (`cmd/root.go`).

## Proofs

The theorems hold for every value of the constants that satisfies the named
`ASSUME`s: any sets of IDs, addresses, manifests, datagrams, requests, paths and
documents, any number of goroutines.  The assumptions say what the Go types say
(manifests and requests have the fields used, `Nil` is no value) and, for the
store, that the directory's files fit into `MaxPuts`; TLC evaluates all of them
in the runs.  Where a theorem needs a condition on the manifests or requests,
the condition is a hypothesis of the theorem, and the instance of the run that
checks the property satisfies it.

The modules over the store take its invariants from `StoreProofs` by
`INSTANCE`: one lemma shows that each step is a step of Store or leaves it
alone, and `Store!TypeOK` and `IndexSound` follow.  `BootProofs` takes the
invariant of `DhcpProofs` in the same way.

**Store.**
* `TypeCorrect`: `TypeOK`, which includes that no pointer or flag is newer than
  `ver`; without that, identities could collide after a restart.
* `DirectoryIsLoaded`: `DirectoryLoaded`.  The invariant is about the entries read
  so far; nothing else changes the maps until the last one.
* `LookupsSound`: `IndexSound`, inductive together with `TypeOK`.
* `NeverOlderHolds`: `NeverOlder`.  It quantifies over all objects held anywhere
  (`Live`), the pointers of pending calls included; restricted to the maps it
  would not be inductive, because `ForgetDelete` and a put act for pointers that
  have left the maps.
* `RegisteredReachable` (`Reachable`) and `FoundIsRegistered` (`Coherent`), each
  inductive with `TypeOK` and `IndexSound`.  Every action is reduced
  to its effect on the maps (`StepEffect`: put, remove, reset or nothing), so
  that each invariant is proved for four effects and not for seven actions.
* `StoreImplementsRegistry`: `Spec => R!Spec`, where `R` sees the tidy IDs and
  their addresses.  `IndexesFollow` shows that in every state satisfying the
  invariants the two indexes, so restricted, are the functions of the map by ID
  that Registry defines; each effect then maps to a Registry step or, for an ID
  that is not tidy, to a stutter, since such an ID has no address of a tidy one
  (`TidyOwner`).

**StoreLocks.**  `TypeCorrect`, `LookupsWhole` (`LookupsSeeWhole`) and
`LocksImplementStore` (`ImplementsStore`).  The invariant `Inv` says which lock a
goroutine holds at each position (`Locks`), what of the object it is storing or
deleting is already in the maps and what is not (`Ready`, `Written`), that all
pointers were made (`AllMade`) and that every put under way has an identity left
(`Room`).  The refinement then has two kinds of steps: entering a writing
section is the whole step of Store, since the mapping shows the section as done,
and every map statement inside it is a stutter.

**Api.**  `TypeCorrect`, `ApiImplementsStore` (`ImplementsStore`) and
`OnlyPermittedChanges` (`OnlyPermittedChange`) hold for any number of requests
at once.  `PutHonest`, `GetHonest` and `ValidServed` have the hypothesis
`Unshared`: only one connection sends requests whose handlers use `err`.  The run
`api_shared_err` shows that they fail without it.  `Fine` is what a handler's
position says about its request and its pointer; `Honest` adds what `err` says
about the request, and is inductive because no other handler assigns to it.

**Dhcp.**  `TypeCorrect`, `RepliesFromOneManifest`, `SuspensionRespected`,
`RepliesLeaveArrivalInterface`, `ArpNeverPanics` and `UnicastStaysListed`
(`UnicastToListed`) without conditions; `OnlyKnownAnswered` if IDs keep their MAC
addresses (`KeptMACs`), `NoKnownIgnored` if they share none (`UniqueMACs`).  An invariant of the ARP table says that
handlers only ever enter hardware addresses listed for the entry's address.
The invariant of a handler has four parts: the manifest it holds lists the
client (`Holds`), the reply says what that manifest says (`Says`), each NBP
option was decided by a value the flag had since the lookup (`Flagged`), and the
reply goes where the request came from, under the address of that interface
(`Routed`).

**FileServe.**  `TypeCorrect`, `OwnFilesOnly` (`OnlyOwnFiles`) and
`SameSourceOverBoth` (`SameSource`) for all mounts, names and numbers of
transfers; the exceptions of `SameSource` are part of its formula.
`StaticAssumption` says that the embedded files have names without leading
slashes, and none is the directory.  The invariant `Good` says that from the
lookup on a transfer holds a manifest for its client's address (`Own`), and that
the source it has chosen is the one its manifest gives for its request and, if it
is a file, has been validated (`Right`).
`GetMountInList` and `SlashesIgnored` are about the
loop of `GetMount`: it returns one of the mounts, and does not look at the
slashes a path begins with.

**Mounts and Codec.**  `GetMountIsBest`: for every list of mounts whose paths
begin with one slash and every path, the loop of `GetMount` returns a longest
match and, if there is none, no mount; `BestMount` is the same for what is
decoded.  `RoundTrips` (`ReadBackSame`) and `YamlAccepted` (`YamlReadBack`) hold
for all documents: a hexadecimal mask is refused, or is that of /0
(`MaskReadsBack`).  The invariant says what stands in a document that netbootd
has written.

**Startup and Syslog.**  `ServicesAfterLoad` (`LoadedFirst`), `ReadyIsHonest`
(`ReadyMeansBound`) and `LinesInOrder` (`LoggedInOrder`).  `Progress` relates the
position in `Steps` to what has been loaded, bound and started; `Flow` orders the
lines that are logged, being logged, and waiting at the channel.

**Boot.**  `BootLoopBroken` (`NoBootLoop`) and `OwnFileBooted` (`BootsOwnFile`)
under `OwnNames`: no manifest gives the name of a bundled loader as its
`bootFilename`, and no mount serves a file by such a name.  `OwnManifestServes`
(`FilesOfOwnManifest`) under `AddressKept`, which lets a machine change its
address but no address its machine.  `Knows` is what a machine has
learnt in each phase: the address is that of a manifest that lists it, and the
file is the one this manifest gives to the loader that runs.

Loops are recursive functions.  That such a function exists, and what it
computes, is proved by the least counterexample: `LeastNat` derives from
`WellFoundedInduction` that a set of numbers has a least element, which needs no
operator as a parameter and is therefore in the provers' reach.

Only proved: `ApiImplementsStore` and `LinesInOrder`, which no run repeats.
Only model-checked: liveness (`EveryRequestAnswered`, `EveryCallReturns`,
`EventuallyBoots`, `ComesUpOrExits`, `EveryLineLogged`), which rests on fairness
and `ENABLED` and is out of the prover's reach, and the three violations.

## Not modelled

Persistence (stubs that are never configured); configuration, command line and
logging (calls into viper, cobra and zerolog without decisions of their own);
the byte formats of DHCP, ARP and TFTP; HTTP header handling; the content of
templates and files; names that URL parsing changes (escapes); open files, which
the garbage collector closes; one ARP table per device.  `PROJECT.json` has the
reasons.

## Plan

Every safety property of the passing runs has a theorem.  What is worth adding:

1. `GetMount` without the condition on slashes: it returns the first of the
   mounts with the longest path *as written*, which says exactly what
   `manifest/schema.go:151` does.
2. Dhcp, FileServe and Boot as refinements: each implements Store, and Boot
   implements Dhcp, so that theorems about the parts carry over as a whole.
3. `KeptMACs` and `UniqueMACs` as conditions on the single address, as in Store.
