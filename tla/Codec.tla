------------------------------- MODULE Codec -------------------------------
(***************************************************************************)
(* Manifests as documents (manifest/io.go, ipnet.go, mac.go): what an      *)
(* operator writes is decoded by PUT /api/manifests or from the manifest   *)
(* directory, and what GET /api/manifests writes may be put again.         *)
(*                                                                         *)
(* JSON and YAML differ in what they do with the same Go types.            *)
(* encoding/json calls the MarshalText of a pointer to IPWithNet; yaml.v2  *)
(* does not, and writes its two fields.  Both call HardwareAddr's.  Nested *)
(* Vars decoded by yaml.v2 are maps with keys of any type, which           *)
(* encoding/json refuses to write.                                         *)
(***************************************************************************)
EXTENDS Mounts, Integers

CONSTANTS Addr,         \* IPv4 addresses
          Docs,         \* the documents operators write
          Refused       \* an error of UnmarshalText

VARIABLES stage,        \* "document", "manifest" or "error"
          doc,          \* the document written last
          man,          \* the manifest decoded last
          first         \* the manifest decoded from the operator's document

vars == <<stage, doc, man, first>>

\* A Manifest: ipv4 is an IPWithNet, hw the number of octets of its
\* HardwareAddr, nested tells whether Vars holds further maps and generic
\* whether these have keys of any type.  Zero is IPWithNet{}.
Zero == [addr |-> None, ones |-> 0]
IPWithNet == [addr : Addr, ones : 0..32] \cup {Zero}

-----------------------------------------------------------------------------
(* IPWithNet: a text is an address and, behind the slash, hexadecimal digits *)

AtMost(n, k) == IF n > k THEN k ELSE n
AtLeast(n, k) == IF n < k THEN k ELSE n

\* IPMask.String(): two digits for each of the four octets, of which the
\* first ones bits are set.
HexDigit == <<0, 8, 12, 14, 15>>
MaskDigits(ones) ==
  [i \in 1..8 |-> HexDigit[1 + AtMost(AtLeast(ones - 4 * (i - 1), 0), 4)]]

\* A number below 100 as people write it.
Decimal(n) == IF n < 10 THEN <<n>> ELSE <<n \div 10, n % 10>>

\* Mutant of String: the number of zero bits is written.
StringZeros(v) == [addr |-> v.addr, mask |-> Decimal(32 - v.ones)]

\* The zero value is written as "<nil>/<nil>", which is not an address.
String(v) ==
  IF v = Zero THEN [addr |-> Refused, mask |-> <<>>]
  ELSE [addr |-> v.addr, mask |-> MaskDigits(v.ones)]

MarshalText(v) == String(v)

\* The value of decimal digits, or more than any mask has.
Number(ds) ==
  LET value[i \in 0..Len(ds)] ==
        IF i = 0 THEN 0
        ELSE IF value[i - 1] > 32 \/ ds[i] > 9 THEN 33
        ELSE 10 * value[i - 1] + ds[i]
  IN value[Len(ds)]

ParseCIDR(t) ==
  IF t.addr \notin Addr \/ t.mask = <<>> \/ Number(t.mask) > 32 THEN Refused
  ELSE [addr |-> t.addr, ones |-> Number(t.mask)]

\* The empty text (None) is the zero value.
UnmarshalText(t) == IF t = None THEN Zero ELSE ParseCIDR(t)

-----------------------------------------------------------------------------
(* HardwareAddr: a text is a number of octets and the way they are written *)

ParseMAC(t) == IF t.octets \in {6, 8, 20} THEN t.octets ELSE Refused
UnmarshalMAC(t) == IF t = None THEN 0 ELSE ParseMAC(t)
MarshalMAC(n) == IF n = 0 THEN None ELSE [octets |-> n, form |-> "colons"]

-----------------------------------------------------------------------------
(* Documents *)

\* How encoding/json and yaml.v2 write and read an IPWithNet.  The fields'
\* own form is marked by its tag.
JsonIPv4(v) == MarshalText(v)

\* Mutant of YamlIPv4: MarshalText has a value receiver, so yaml.v2 uses it.
YamlIPv4Text(v) == MarshalText(v)

YamlIPv4(v) == [fields |-> v]

ReadIPv4(t) == IF t # None /\ "fields" \in DOMAIN t THEN t.fields ELSE UnmarshalText(t)

\* Validate: a relative localDir needs a root path.
Valid(mounts) ==
  \A i \in 1..Len(mounts) :
    mounts[i].dir # <<>> => IsAbs(mounts[i].dir) \/ RootPath # <<>>

\* ManifestFromJson and ManifestFromYaml.
Unmarshal(d) ==
  LET v == ReadIPv4(d.ipv4)
      n == UnmarshalMAC(d.hw)
  IN IF v = Refused \/ n = Refused \/ ~Valid(d.mounts) THEN Refused
     ELSE [ipv4 |-> v, hw |-> n, nested |-> d.nested, mounts |-> d.mounts,
           generic |-> d.nested /\ d.format = "yaml"]

Document(format, ipv4, m) ==
  [format |-> format, ipv4 |-> ipv4, hw |-> MarshalMAC(m.hw),
   nested |-> m.nested, mounts |-> m.mounts]

\* What decoding can produce.
Manifest == [ipv4 : IPWithNet, hw : {0, 6, 8, 20}, nested : BOOLEAN,
             mounts : {d.mounts : d \in Docs}, generic : BOOLEAN]

ASSUME DocsAssumption ==
  \A d \in Docs :
    /\ d.ipv4 # None =>
         IF "fields" \in DOMAIN d.ipv4 THEN d.ipv4.fields \in IPWithNet
         ELSE d.ipv4.mask \in Seq(Nat)
    /\ d.nested \in BOOLEAN
    /\ d.mounts \in Seq(Mount)

\* No value is mistaken for a missing one or for an error.
ASSUME FreshAssumption ==
  /\ Refused \notin Addr
  /\ {None, Refused} \cap (IPWithNet \cup {0, 6, 8, 20} \cup Manifest) = {}
  /\ \A v \in IPWithNet : String(v) # None /\ YamlIPv4(v) # None
  /\ \A n \in {6, 8, 20} : MarshalMAC(n) # None

-----------------------------------------------------------------------------

Init ==
  /\ stage = "document"
  /\ doc \in Docs
  /\ man = None
  /\ first = None

\* Decode and validate; a document that is refused leaves nothing behind.
Read ==
  /\ stage = "document"
  /\ LET m == Unmarshal(doc)
     IN IF m = Refused THEN stage' = "error" /\ UNCHANGED <<man, first>>
        ELSE /\ stage' = "manifest"
             /\ man' = m
             /\ first' = IF first = None THEN m ELSE first
  /\ UNCHANGED doc

ToYaml ==
  /\ stage = "manifest"
  /\ doc' = Document("yaml", YamlIPv4(man.ipv4), man)
  /\ stage' = "document"
  /\ UNCHANGED <<man, first>>

ToJson ==
  /\ stage = "manifest"
  /\ IF man.generic THEN stage' = "error" /\ UNCHANGED doc
     ELSE /\ doc' = Document("json", JsonIPv4(man.ipv4), man)
          /\ stage' = "document"
  /\ UNCHANGED <<man, first>>

Next == Read \/ ToYaml \/ ToJson

Spec == Init /\ [][Next]_vars

-----------------------------------------------------------------------------
(* Properties *)

\* The same manifest, up to the Go types that hold it.
Same(m, n) == [m EXCEPT !.generic = FALSE] = [n EXCEPT !.generic = FALSE]

\* However often a manifest is fetched and put again, in whichever formats:
\* what is accepted is the manifest that was put first.  The netmask in
\* particular may make the document unreadable, but never another network.
ReadBackSame == stage = "manifest" => Same(man, first)

\* A manifest fetched as YAML can always be put again.
YamlReadBack ==
  [][Read /\ first # None /\ doc.format = "yaml" => stage' = "manifest"]_vars

Paths == BoundedSeq({Slash, "a", "b"}, 3)

\* manifest/schema.go:138-140 "Longest path match is considered "best".  If the
\* path in the Mount or being matched begins with a slash (/), it is ignored.":
\* for no path does GetMount return a mount while another one of the manifest
\* matches more of it.  It holds where all mount paths begin with one slash;
\* elsewhere the lengths compared count slashes that are ignored in matching.
BestMountFound ==
  stage = "manifest" => \A p \in Paths : IsBest(GetMount(man.mounts, p), man.mounts, p)
=============================================================================
