------------------------------- MODULE Mounts -------------------------------
(***************************************************************************)
(* How a manifest's mounts are chosen and turned into a source             *)
(* (manifest/schema.go).  A path is a sequence of characters, because      *)
(* strings.HasPrefix and strings.TrimPrefix work on characters and not on  *)
(* path segments.                                                          *)
(***************************************************************************)
EXTENDS SequencesExt

CONSTANTS None,         \* an empty content, no proxy, or no mount
          RootPath      \* --root, <<>> if it is not set

Slash == "/"
Path == Seq(STRING)

\* A proxy target: scheme, host and path, and what follows a "?".
URL == [base : STRING, query : Path]

\* An empty localDir is <<>>.
Mount == [path : Path, prefix : BOOLEAN, suffix : BOOLEAN,
          proxy : URL \cup {None}, content : STRING \cup {None}, dir : Path]

ASSUME NoneAssumption == None \notin Mount \cup STRING \cup URL

\* strings.TrimLeft(p, "/")
LeadingSlashes(p) ==
  CHOOSE n \in 0..Len(p) : /\ \A i \in 1..n : p[i] = Slash
                           /\ n < Len(p) => p[n + 1] # Slash
TrimLeft(p) == SubSeq(p, LeadingSlashes(p) + 1, Len(p))

\* strings.TrimPrefix(p, q)
TrimPrefix(p, q) == IF IsPrefix(q, p) THEN SubSeq(p, Len(q) + 1, Len(p)) ELSE p

-----------------------------------------------------------------------------
(* GetMount *)

MatchesExactly(mount, p) == ~mount.prefix /\ TrimLeft(mount.path) = TrimLeft(p)
MatchesPrefix(mount, p) == mount.prefix /\ IsPrefix(TrimLeft(mount.path), TrimLeft(p))

\* Mutant of Better: the last match wins.
BetterAlways(mount, best) == TRUE

\* len(mount.Path) > len(bestMount.Path) || !found
Better(mount, best) == best = None \/ Len(mount.path) > Len(best.path)

\* bestMount after the first Len(ms) mounts, none of which matched exactly.
BestPrefix(ms, p) ==
  LET best[i \in 0..Len(ms)] ==
        IF i = 0 THEN None
        ELSE IF MatchesPrefix(ms[i], p) /\ Better(ms[i], best[i - 1])
          THEN ms[i] ELSE best[i - 1]
  IN best[Len(ms)]

\* The loop returns at the first exact match, else the best prefix.
GetMount(ms, p) ==
  LET exact == {i \in 1..Len(ms) : MatchesExactly(ms[i], p)}
  IN IF exact # {} THEN ms[Min(exact)] ELSE BestPrefix(ms, p)

-----------------------------------------------------------------------------
(* Paths of the host (path/filepath) *)

Dot == <<".">>
DotDot == <<".", ".">>

IsAbs(p) == p # <<>> /\ p[1] = Slash

\* The elements of a clean path after one more: ".." takes the one before it
\* away, if there is one.
Push(elems, e, rooted) ==
  CASE e \in {<<>>, Dot} -> elems
    [] e = DotDot /\ elems # <<>> /\ Last(elems) # DotDot -> Front(elems)
    [] e = DotDot /\ rooted /\ elems = <<>> -> elems
    [] OTHER -> Append(elems, e)

\* filepath.Clean
Clean(p) ==
  LET s == Append(p, Slash)
      \* the elements in front of the i-th character, and the begun one
      cut[i \in 0..Len(s)] ==
        IF i = 0 THEN [elems |-> <<>>, begun |-> <<>>]
        ELSE LET c == cut[i - 1]
             IN IF s[i] = Slash
                  THEN [elems |-> Push(c.elems, c.begun, IsAbs(p)), begun |-> <<>>]
                  ELSE [c EXCEPT !.begun = Append(c.begun, s[i])]
      elems == cut[Len(s)].elems
      text == FlattenSeq([i \in 1..Len(elems) |-> <<Slash>> \o elems[i]])
  IN CASE elems = <<>> -> IF IsAbs(p) THEN <<Slash>> ELSE Dot
       [] elems # <<>> -> IF IsAbs(p) THEN text ELSE Tail(text)

\* filepath.Join leaves out an empty first element.
Join(p, q) == Clean(IF p = <<>> THEN q ELSE p \o <<Slash>> \o q)

-----------------------------------------------------------------------------
(* What a mount leads to *)

Source(kind, of, rest, query) == [kind |-> kind, of |-> of, rest |-> rest, query |-> query]

\* What AppendSuffix adds.
Suffix(mount, p) == IF mount.suffix THEN TrimPrefix(p, mount.path) ELSE <<>>

\* An absolute localDir is used as it is written.
hostPathPrefix(mount) == IF IsAbs(mount.dir) THEN mount.dir ELSE Join(RootPath, mount.dir)

HostPath(mount, p) ==
  Join(hostPathPrefix(mount), IF mount.suffix THEN TrimPrefix(p, mount.path) ELSE mount.path)

\* Mutant of ValidateHostPath: every path is valid.
ValidateHostPathAlways(mount, h) == TRUE

\* strings.HasPrefix: characters are compared, not elements.
ValidateHostPath(mount, h) == IsPrefix(hostPathPrefix(mount), h)

LocalFile(mount, p) == Source("file", None, HostPath(mount, p), <<>>)

\* ProxyDirector takes scheme, host and path of the target; the query q is
\* the client's own.
ProxyDirector(mount, p, q) == Source("proxy", mount.proxy.base, Suffix(mount, p), q)

\* Mutant of TftpURL: the path is appended with the mount's path in front.
TftpURLUntrimmed(mount, p) ==
  Source("proxy", mount.proxy.base, IF mount.suffix THEN p ELSE <<>>, mount.proxy.query)

\* The TFTP server puts the suffix behind the whole text of the target.
TftpURL(mount, p) ==
  IF mount.proxy.query = <<>>
    THEN Source("proxy", mount.proxy.base, Suffix(mount, p), <<>>)
    ELSE Source("proxy", mount.proxy.base, <<>>, mount.proxy.query \o Suffix(mount, p))

Template(mount) == Source("content", mount.content, <<>>, <<>>)

-----------------------------------------------------------------------------
(* Reference definitions *)

\* The mounts that match p, by the comment on GetMount: leading slashes are
\* ignored on both sides.
Candidates(ms, p) ==
  {ms[i] : i \in {j \in 1..Len(ms) : MatchesExactly(ms[j], p) \/ MatchesPrefix(ms[j], p)}}

\* How much of p a mount stands for.
MatchLength(mount) == Len(TrimLeft(mount.path))

\* g is a best match: it matches, and no other mount matches more of p.
IsBest(g, ms, p) ==
  IF Candidates(ms, p) = {} THEN g = None
  ELSE /\ g \in Candidates(ms, p)
       /\ \A c \in Candidates(ms, p) : MatchLength(g) >= MatchLength(c)
=============================================================================
