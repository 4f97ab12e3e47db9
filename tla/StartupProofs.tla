---------------------------- MODULE StartupProofs ----------------------------
(***************************************************************************)
(* Proofs about Startup, for any command lines, files and builds and any   *)
(* number of stops and failed writes.                                      *)
(*                                                                         *)
(* That the fingerprint is stable is not inductive: it rests on both files *)
(* holding the identity that was served, which in turn rests on no start   *)
(* writing them again while they are complete.                             *)
(***************************************************************************)
EXTENDS Startup, TLAPS

-----------------------------------------------------------------------------
(* The identity.                                                           *)

Identities == [cert : Int, key : Int]

\* What has been served is in both files and nobody writes them; an identity about
\* to be bound is the one in the files; while the key is written, the certificate
\* is the new one.
Kept ==
    /\ made \in Nat /\ served \in Int
    /\ disk \in Identities /\ held \in Identities
    /\ place \in Writing => made > 0 /\ served = 0
    /\ place \in {"key", "key_data"} => disk.cert = made
    /\ place = "bind" => held = disk /\ Complete(held.cert)
    /\ served # 0 => disk = [cert |-> served, key |-> served] /\ Complete(served)

\* The initial state: no file and no identity.
LEMMA InitKept == Init => Kept
BY DEF Init, Kept, NoIdentity, Identities, Absent, Writing

\* A start loads the identity or makes one (load_or_create_self_signed).
LEMMA LoadKept ==
    ASSUME Kept, LoadOrCreate
    PROVE  Kept'
<1>1. UNCHANGED <<disk, served>> /\ place = "identity"
  BY DEF LoadOrCreate
<1>2. CASE disk.cert # Absent /\ disk.key # Absent
  <2>1. UNCHANGED made
    BY <1>2 DEF LoadOrCreate
  <2>2. CASE Complete(disk.cert) /\ Complete(disk.key)
    <3>1. held' = disk /\ place' = "bind"
      BY <1>2, <2>2 DEF LoadOrCreate
    <3> QED
      BY <1>1, <2>1, <2>2, <3>1 DEF Kept, Writing
  <2>3. CASE ~ (Complete(disk.cert) /\ Complete(disk.key))
    <3>1. place' = "failed" /\ UNCHANGED held
      BY <1>2, <2>3 DEF LoadOrCreate
    <3> QED
      BY <1>1, <2>1, <3>1 DEF Kept, Writing
  <2> QED
    BY <2>2, <2>3
<1>3. CASE ~ (disk.cert # Absent /\ disk.key # Absent)
  <2>1. made' = made + 1 /\ place' = "cert" /\ UNCHANGED held
    BY <1>3 DEF LoadOrCreate, Generate
  <2>2. served = 0
    BY <1>3 DEF Kept, Complete, Absent, Torn
  <2> QED
    BY <1>1, <2>1, <2>2 DEF Kept, Writing
<1> QED
  BY <1>2, <1>3

\* Every step keeps what was served in both files.
LEMMA StepKept == Kept /\ [Next]_vars => Kept'
<1> SUFFICES ASSUME Kept, [Next]_vars PROVE Kept'
  OBVIOUS
<1>1. ASSUME place = "main", place' \in {"refused", "identity", "done"},
             UNCHANGED <<disk, held, made, served>>
      PROVE  Kept'
  BY <1>1 DEF Kept, Writing
<1>2. CASE ServerMain
  BY <1>1, <1>2 DEF ServerMain
<1>3. CASE ClientMain
  BY <1>1, <1>3 DEF ClientMain
<1>4. ASSUME NEW role, NEW value, Parse(role, value) PROVE Kept'
  BY <1>1, <1>4 DEF Parse
<1>5. CASE LoadOrCreate
  BY <1>5, LoadKept
<1>6. CASE CreateCert
  BY <1>6 DEF CreateCert, Kept, Writing, Identities, Torn
<1>7. CASE WriteCert
  BY <1>7 DEF WriteCert, Kept, Writing, Identities
<1>8. CASE CreateKey
  BY <1>8 DEF CreateKey, Kept, Writing, Identities, Torn
<1>9. CASE WriteKey
  <2>1. /\ disk' = [cert |-> made, key |-> made] /\ held' = disk'
        /\ place' = "bind" /\ made > 0 /\ served = 0
        /\ UNCHANGED <<made, served>>
    BY <1>9 DEF WriteKey, Kept, Writing, Identities
  <2> QED
    BY <2>1 DEF Kept, Writing, Identities, Complete, Torn
<1>10. CASE Bind
  <2>1. /\ held = disk /\ Complete(held.cert) /\ disk \in Identities
        /\ disk = [cert |-> disk.cert, key |-> disk.key]
    BY <1>10 DEF Bind, Kept, Identities
  <2>2. CASE held.cert = held.key
    <3>1. place' = "serving" /\ served' = held.cert /\ UNCHANGED <<disk, held, made>>
      BY <1>10, <2>2 DEF Bind
    <3> QED
      BY <2>1, <2>2, <3>1 DEF Kept, Writing, Identities
  <2>3. CASE held.cert # held.key
    BY <1>10, <2>3 DEF Bind, Kept, Writing
  <2> QED
    BY <2>2, <2>3
<1>11. CASE WriteFails
  <2>1. CASE UNCHANGED disk
    BY <1>11, <2>1 DEF WriteFails, Kept, Writing
  <2>2. CASE place = "key_data" /\ disk' = [disk EXCEPT !.key = made]
    BY <1>11, <2>2 DEF WriteFails, Kept, Writing, Identities
  <2> QED
    BY <1>11, <2>1, <2>2 DEF WriteFails
<1>12. CASE Stop \/ Restart
  BY <1>12 DEF Stop, Restart, Kept, Writing, NoIdentity, Identities, Absent
<1>13. CASE UNCHANGED vars
  BY <1>13 DEF vars, Kept
<1> QED
  BY <1>2, <1>3, <1>4, <1>5, <1>6, <1>7, <1>8, <1>9, <1>10, <1>11, <1>12, <1>13
  DEF Next, parse_remote, SplitTokens, parse_server_addr

\* Once a self-signed server has served, its identity is in both files of the state
\* directory, whatever is stopped or fails afterwards (load_or_create_self_signed).
THEOREM IdentityKept == Spec => []Kept
BY InitKept, StepKept, PTL DEF Spec

\* The fingerprint that clients pinned never changes, over any number of stops, failed
\* writes and starts: "reused on subsequent runs so the fingerprint stays stable"
\* (load_or_create_self_signed).
THEOREM FingerprintStableAlways == Spec => FingerprintStable
<1>1. Kept /\ [Next]_vars => (served # 0 => served' = served)
  <2> SUFFICES ASSUME Kept, [Next]_vars, served # 0 PROVE served' = served
    OBVIOUS
  <2>1. CASE Bind
    BY <2>1 DEF Bind, Kept
  <2>2. ASSUME ~ Bind PROVE served' = served
    BY <2>2 DEF Next, vars, ServerMain, ClientMain, parse_remote, SplitTokens,
       parse_server_addr, Parse, LoadOrCreate, CreateCert, WriteCert, CreateKey, WriteKey,
       WriteFails, Stop, Restart
  <2> QED
    BY <2>1, <2>2
<1>2. Kept /\ [Next]_vars => [served # 0 => served' = served]_vars
  BY <1>1
<1> QED
  BY <1>2, IdentityKept, PTL DEF Spec, FingerprintStable

-----------------------------------------------------------------------------
(* The command line.                                                       *)

\* An option that holds one value, if any.
LEMMA Optional ==
    ASSUME NEW v, NEW o \in Option({v})
    PROVE  o = <<>> \/ o = <<v>>
BY DEF Option

\* Reading an option, and one with a default.
LEMMA Unwrapped ==
    ASSUME NEW v, NEW d
    PROVE  unwrap_or(<<>>, d) = d /\ unwrap_or(<<v>>, d) = v
<1>1. <<v>> # <<>> /\ <<v>>[1] = v
  OBVIOUS
<1> QED
  BY <1>1, Zenon DEF unwrap_or

LEMMA Defaulted ==
    ASSUME NEW v, NEW o \in Option({v}), NEW h \in Option({"default"})
    PROVE  \E w \in {v, "default"} : or(o, h) \in Seq({w})
<1>1. CASE o = <<>>
  <2>1. or(o, h) = h
    BY <1>1, Zenon DEF or
  <2>2. <<>> \in Seq({"default"}) /\ <<"default">> \in Seq({"default"})
    OBVIOUS
  <2>3. h \in Seq({"default"})
    BY <2>2, Optional, Zenon
  <2> QED
    BY <2>1, <2>3, Zenon
<1>2. CASE o = <<v>>
  <2>1. o # <<>> /\ o \in Seq({v})
    BY <1>2
  <2>2. or(o, h) = o
    BY <2>1, Zenon DEF or
  <2> QED
    BY <2>1, <2>2, Zenon
<1> QED
  BY <1>1, <1>2, Optional

\* What clap guarantees of a server's TLS flags: without --insecure and
\* --tls-self-signed, the certificate and the key come together and a CA only with
\* them; the state directory never comes alone.
LEMMA ServerFlags ==
    ASSUME NEW j, ServerArgs(j),
           NEW g, g = given(j.cli, DOMAIN j.cli)
    PROVE  /\ "insecure" \notin g /\ "tls_self_signed" \notin g =>
                /\ "tls_cert" \in g <=> "tls_key" \in g
                /\ "tls_ca" \in g => "tls_cert" \in g
           /\ "tls_state_dir" \in g => \E f \in ServerTlsFlags : f \in g
<1>1. \A r \in ServerRequires : r[1] \in g =>
          r[2] \in g \/ \E c \in ServerConflicts : r[2] \in c /\ c \subseteq g \cup {r[2]}
  BY Zenon DEF ServerArgs, ArgsOk
<1>2. ASSUME NEW c \in ServerConflicts
      PROVE  /\ "tls_key" \in c => "tls_self_signed" \in c
             /\ "tls_cert" \in c => "tls_self_signed" \in c \/ "insecure" \in c
             /\ "tls_self_signed" \in c =>
                  \E f \in ServerTlsFlags \ {"tls_self_signed"} : f \in c
  BY DEF ServerConflicts, ServerTlsFlags
<1>3. ASSUME "insecure" \notin g, "tls_self_signed" \notin g, "tls_cert" \in g
      PROVE  "tls_key" \in g
  <2>1. <<"tls_cert", "tls_key">> \in ServerRequires
    BY DEF ServerRequires
  <2>2. "tls_key" \in g
        \/ \E c \in ServerConflicts : "tls_key" \in c /\ c \subseteq g \cup {"tls_key"}
    BY <1>1, <1>3, <2>1
  <2> QED
    BY <1>2, <1>3, <2>2
<1>4. ASSUME "insecure" \notin g, "tls_self_signed" \notin g,
             "tls_key" \in g \/ "tls_ca" \in g
      PROVE  "tls_cert" \in g
  <2>1. <<"tls_key", "tls_cert">> \in ServerRequires /\ <<"tls_ca", "tls_cert">> \in ServerRequires
    BY DEF ServerRequires
  <2>2. "tls_cert" \in g
        \/ \E c \in ServerConflicts : "tls_cert" \in c /\ c \subseteq g \cup {"tls_cert"}
    BY <1>1, <1>4, <2>1
  <2> QED
    BY <1>2, <1>4, <2>2
<1>5. ASSUME "tls_state_dir" \in g PROVE \E f \in ServerTlsFlags : f \in g
  <2>1. <<"tls_state_dir", "tls_self_signed">> \in ServerRequires
    BY DEF ServerRequires
  <2>2. "tls_self_signed" \in g
        \/ \E c \in ServerConflicts :
             "tls_self_signed" \in c /\ c \subseteq g \cup {"tls_self_signed"}
    BY <1>1, <1>5, <2>1
  <2>3. "tls_self_signed" \in ServerTlsFlags
    BY DEF ServerTlsFlags
  <2> QED
    BY <1>2, <2>2, <2>3
<1> QED
  BY <1>3, <1>4, <1>5

\* The options of TLS after the merge: all from the command line if it has a flag,
\* all from the file otherwise.
LEMMA ServerMerged ==
    ASSUME NEW j, ServerArgs(j),
           NEW o, o = merge_server_with_file(j.cli, j.file)
    PROVE  LET g == given(j.cli, ServerTlsFlags) IN
           \A f \in ServerTlsOptions : o[f] = IF g # {} THEN j.cli[f] ELSE j.file[f]
<1> SUFFICES ASSUME NEW f \in ServerTlsOptions
             PROVE  o[f] = IF given(j.cli, ServerTlsFlags) # {} THEN j.cli[f] ELSE j.file[f]
  OBVIOUS
<1>1. DOMAIN j.cli = ServerOptions /\ f \in ServerOptions /\ f \in DOMAIN j.cli
  BY DEF ServerArgs, ServerOptions
<1>2. o[f] = IF given(j.cli, ServerTlsFlags) # {} THEN j.cli[f] ELSE or(j.file[f], j.cli[f])
  BY <1>1 DEF merge_server_with_file, merge
<1>3. CASE given(j.cli, ServerTlsFlags) # {}
  BY <1>2, <1>3
<1>4. CASE given(j.cli, ServerTlsFlags) = {}
  <2>1. j.cli[f] = <<>>
    <3>1. \A h \in ServerTlsFlags : j.cli[h] = <<>>
      BY <1>4 DEF given
    <3>2. "tls_state_dir" \in given(j.cli, DOMAIN j.cli) =>
            \E h \in ServerTlsFlags : h \in given(j.cli, DOMAIN j.cli)
      BY ServerFlags, Zenon
    <3>3. "tls_state_dir" \in DOMAIN j.cli
      BY <1>1 DEF ServerOptions, ServerTlsOptions
    <3>4. j.cli["tls_state_dir"] = <<>>
      BY <3>1, <3>2, <3>3 DEF given
    <3> QED
      BY <3>1, <3>4 DEF ServerTlsOptions
  <2> QED
    BY <1>2, <1>4, <2>1 DEF or
<1> QED
  BY <1>3, <1>4

\* TlsFromOnePlace for a TLS configuration and the mode its command line names.
OnePlace(tls, named) ==
    LET parts == {tls.parts[k] : k \in DOMAIN tls.parts} IN
    /\ \A p, q \in parts : p = q
    /\ named # "none" => tls.mode = named /\ parts \subseteq {"cli", "default"}

LEMMA SameParts ==
    ASSUME NEW a, NEW b, NEW named, a.mode = b.mode, a.parts = b.parts, OnePlace(b, named)
    PROVE  OnePlace(a, named)
BY DEF OnePlace

\* Parts that all have one origin.
LEMMA Uniform ==
    ASSUME NEW v, NEW s \in Seq({v}), NEW mode, NEW named,
           named # "none" => mode = named /\ v \in {"cli", "default"}
    PROVE  OnePlace(Tls(mode, s), named)
<1>1. Tls(mode, s).mode = mode /\ Tls(mode, s).parts = s
  BY DEF Tls
<1>2. \A k \in DOMAIN s : s[k] = v
  OBVIOUS
<1> QED
  BY <1>1, <1>2 DEF OnePlace

\* A certificate, its key and a CA of one origin.
LEMMA UniformCertified ==
    ASSUME NEW v, NEW cert \in Option({v}), NEW key \in Option({v}), NEW ca \in Option({v}),
           NEW mode, NEW alone, NEW named,
           named # "none" => /\ named = IF ca # <<>> THEN mode ELSE alone
                             /\ v \in {"cli", "default"}
    PROVE  OnePlace(Certified(mode, alone, cert, key, ca), named)
<1>1. cert \in Seq({v}) /\ key \in Seq({v}) /\ ca \in Seq({v})
  <2>1. \A o \in Option({v}) : o = <<>> \/ o = <<v>>
    BY Optional
  <2>2. <<>> \in Seq({v}) /\ <<v>> \in Seq({v})
    OBVIOUS
  <2> QED
    BY <2>1, <2>2, Zenon
<1>2. cert \o key \in Seq({v}) /\ (cert \o key) \o ca \in Seq({v})
  BY <1>1
<1>3. CASE ca # <<>>
  <2>1. Certified(mode, alone, cert, key, ca) = Tls(mode, (cert \o key) \o ca)
    BY <1>3 DEF Certified
  <2> QED
    BY <1>2, <1>3, <2>1, Uniform
<1>4. CASE ca = <<>>
  <2>1. Certified(mode, alone, cert, key, ca) = Tls(alone, cert \o key)
    BY <1>4 DEF Certified
  <2> QED
    BY <1>2, <1>4, <2>1, Uniform
<1> QED
  BY <1>3, <1>4

\* The mode the flags of a server's command line name.
LEMMA ServerNamed ==
    ASSUME NEW j, ServerArgs(j)
    PROVE  NamedMode(j.cli) =
             IF j.cli.insecure # <<>> THEN "insecure"
             ELSE IF j.cli.tls_self_signed # <<>> THEN "self_signed"
             ELSE IF j.cli.tls_cert # <<>> THEN IF j.cli.tls_ca # <<>> THEN "mtls" ELSE "provided"
             ELSE "none"
<1> DEFINE g == given(j.cli, DOMAIN j.cli)
<1>1. /\ "insecure" \notin g /\ "tls_self_signed" \notin g =>
            ("tls_ca" \in g => "tls_cert" \in g)
  BY ServerFlags, Zenon
<1>2. DOMAIN j.cli = ServerOptions
  BY DEF ServerArgs
<1>3. /\ \A f \in ServerTlsFlags : f \in g <=> j.cli[f] # <<>>
      /\ "tls_fingerprint" \notin g
  BY <1>2 DEF given, ServerOptions, ServerTlsOptions, ServerTlsFlags
<1>4. NamedMode(j.cli) =
        IF "insecure" \in g THEN "insecure"
        ELSE IF "tls_self_signed" \in g THEN "self_signed"
        ELSE IF "tls_fingerprint" \in g THEN "fingerprint"
        ELSE IF "tls_ca" \in g THEN IF "tls_cert" \in g THEN "mtls" ELSE "ca"
        ELSE IF "tls_cert" \in g THEN "provided"
        ELSE "none"
  BY DEF NamedMode
<1> HIDE DEF g
<1> QED
  BY <1>1, <1>3, <1>4 DEF ServerTlsFlags

\* A server that starts has its TLS from one place (merge_server_with_file,
\* resolve_server_tls).
LEMMA ServerOnePlace ==
    ASSUME NEW j, ServerArgs(j),
           NEW r, r = server_main(j.cli, j.file, j.embedded), r.result = "ok"
    PROVE  OnePlace(r.tls, NamedMode(j.cli))
<1> DEFINE o == merge_server_with_file(j.cli, j.file)
           t == resolve_server_tls(o, j.embedded)
           n == NamedMode(j.cli)
           g == given(j.cli, ServerTlsFlags)
<1>1. t # Refused /\ r.tls = t
  BY DEF server_main, Refused
<1>2. \A f \in ServerTlsOptions : o[f] = IF g # {} THEN j.cli[f] ELSE j.file[f]
  BY ServerMerged, Zenon
<1>3. /\ j.cli.insecure = <<>> \/ j.cli.insecure = <<TRUE>>
      /\ j.cli.tls_self_signed = <<>> \/ j.cli.tls_self_signed = <<TRUE>>
      /\ j.cli.tls_state_dir \in Option({"cli"}) /\ j.file.tls_state_dir \in Option({"file"})
  <2>1. /\ j.cli.insecure \in Option({TRUE}) /\ j.cli.tls_self_signed \in Option({TRUE})
        /\ j.cli.tls_state_dir \in Option({"cli"}) /\ j.file.tls_state_dir \in Option({"file"})
    BY DEF ServerArgs
  <2> QED
    BY <2>1, Optional, Zenon
<1>4. /\ \A f \in TlsFiles : j.cli[f] \in Option({"cli"}) /\ j.file[f] \in Option({"file"})
      /\ \A f \in {"server_cert", "server_key", "ca"} : j.embedded[f] \in Option({"embedded"})
      /\ j.embedded.home \in Option({"default"})
  BY DEF ServerArgs
<1>5. /\ g # {} <=> \E f \in ServerTlsFlags : j.cli[f] # <<>>
      /\ j.cli.insecure = <<>> /\ j.cli.tls_self_signed = <<>> =>
           /\ j.cli.tls_cert # <<>> <=> j.cli.tls_key # <<>>
           /\ j.cli.tls_ca # <<>> => j.cli.tls_cert # <<>>
  <2>1. \A f \in ServerTlsFlags : f \in given(j.cli, DOMAIN j.cli) <=> j.cli[f] # <<>>
    BY DEF ServerArgs, given, ServerOptions, ServerTlsOptions
  <2>2. LET h == given(j.cli, DOMAIN j.cli) IN
        "insecure" \notin h /\ "tls_self_signed" \notin h =>
          /\ "tls_cert" \in h <=> "tls_key" \in h
          /\ "tls_ca" \in h => "tls_cert" \in h
    BY ServerFlags, Zenon
  <2>3. g # {} <=> \E f \in ServerTlsFlags : j.cli[f] # <<>>
    BY DEF given
  <2> QED
    BY <2>1, <2>2, <2>3 DEF ServerTlsFlags
<1>6. n = IF j.cli.insecure # <<>> THEN "insecure"
          ELSE IF j.cli.tls_self_signed # <<>> THEN "self_signed"
          ELSE IF j.cli.tls_cert # <<>> THEN IF j.cli.tls_ca # <<>> THEN "mtls" ELSE "provided"
          ELSE "none"
  BY ServerNamed
<1>7. t = IF unwrap_or(o.insecure, FALSE) THEN Tls("insecure", <<>>)
          ELSE IF unwrap_or(o.tls_self_signed, FALSE)
          THEN SelfSigned(o.tls_state_dir, j.embedded.home)
          ELSE IF o.tls_cert # <<>> /\ o.tls_key # <<>>
          THEN Certified("mtls", "provided", o.tls_cert, o.tls_key, o.tls_ca)
          ELSE IF j.embedded.server_cert # <<>> /\ j.embedded.server_key # <<>>
          THEN Certified("mtls", "provided", j.embedded.server_cert, j.embedded.server_key,
                         j.embedded.ca)
          ELSE Refused
  BY Zenon DEF resolve_server_tls
<1> HIDE DEF o, t, n, g
<1>8. OnePlace(t, n)
  <2>1. CASE g = {}
    <3>1. n = "none" /\ \A f \in ServerTlsOptions : o[f] = j.file[f]
      BY <1>2, <1>5, <1>6, <2>1 DEF ServerTlsFlags
    <3>2. CASE t = Tls("insecure", <<>>)
      <4>1. <<>> \in Seq({"file"})
        OBVIOUS
      <4> QED
        BY <3>1, <3>2, <4>1, Uniform
    <3>3. CASE t = SelfSigned(o.tls_state_dir, j.embedded.home)
      <4>1. o.tls_state_dir = j.file.tls_state_dir
        BY <3>1 DEF ServerTlsOptions
      <4>2. PICK v : or(o.tls_state_dir, j.embedded.home) \in Seq({v})
        BY <1>3, <1>4, <4>1, Defaulted
      <4>3. t = Tls("self_signed", or(o.tls_state_dir, j.embedded.home))
        BY <1>1, <3>3, Zenon DEF SelfSigned
      <4> QED
        BY <3>1, <4>2, <4>3, Uniform
    <3>4. CASE t = Certified("mtls", "provided", o.tls_cert, o.tls_key, o.tls_ca)
      <4>1. o.tls_cert \in Option({"file"}) /\ o.tls_key \in Option({"file"})
            /\ o.tls_ca \in Option({"file"})
        BY <1>4, <3>1 DEF TlsFiles, ServerTlsOptions, ServerTlsFlags
      <4> QED
        BY <3>1, <3>4, <4>1, UniformCertified
    <3>5. CASE t = Certified("mtls", "provided", j.embedded.server_cert, j.embedded.server_key,
                             j.embedded.ca)
      BY <1>4, <3>1, <3>5, UniformCertified
    <3> QED
      BY <1>1, <1>7, <3>2, <3>3, <3>4, <3>5, Zenon
  <2>2. CASE g # {}
    <3>1. \A f \in ServerTlsOptions : o[f] = j.cli[f]
      BY <1>2, <2>2
    <3>2. /\ o.insecure = j.cli.insecure /\ o.tls_self_signed = j.cli.tls_self_signed
          /\ o.tls_cert = j.cli.tls_cert /\ o.tls_key = j.cli.tls_key
          /\ o.tls_ca = j.cli.tls_ca /\ o.tls_state_dir = j.cli.tls_state_dir
      BY <3>1 DEF ServerTlsOptions, ServerTlsFlags
    <3>3. CASE j.cli.insecure # <<>>
      <4>1. n = "insecure" /\ t = Tls("insecure", <<>>)
        BY <1>3, <1>6, <1>7, <3>2, <3>3, Unwrapped, Zenon
      <4>2. <<>> \in Seq({"cli"})
        OBVIOUS
      <4> QED
        BY <4>1, <4>2, Uniform
    <3>4. CASE j.cli.insecure = <<>> /\ j.cli.tls_self_signed # <<>>
      <4>0. n = "self_signed" /\ t = SelfSigned(j.cli.tls_state_dir, j.embedded.home)
        BY <1>3, <1>6, <1>7, <3>2, <3>4, Unwrapped, Zenon
      <4>1. n = "self_signed" /\ t = Tls("self_signed", or(j.cli.tls_state_dir, j.embedded.home))
        BY <1>1, <4>0, Zenon DEF SelfSigned
      <4>2. PICK v \in {"cli", "default"} : or(j.cli.tls_state_dir, j.embedded.home) \in Seq({v})
        BY <1>3, <1>4, Defaulted
      <4> QED
        BY <4>1, <4>2, Uniform
    <3>5. CASE j.cli.insecure = <<>> /\ j.cli.tls_self_signed = <<>>
      <4>1. j.cli.tls_cert # <<>> /\ j.cli.tls_key # <<>>
        BY <1>5, <2>2, <3>5 DEF ServerTlsFlags
      <4>2. /\ n = IF j.cli.tls_ca # <<>> THEN "mtls" ELSE "provided"
            /\ t = Certified("mtls", "provided", j.cli.tls_cert, j.cli.tls_key, j.cli.tls_ca)
        BY <1>6, <1>7, <3>2, <3>5, <4>1 DEF unwrap_or
      <4>3. j.cli.tls_cert \in Option({"cli"}) /\ j.cli.tls_key \in Option({"cli"})
            /\ j.cli.tls_ca \in Option({"cli"})
        BY <1>4 DEF TlsFiles
      <4> QED
        BY <4>2, <4>3, UniformCertified
    <3> QED
      BY <3>3, <3>4, <3>5
  <2> QED
    BY <2>1, <2>2
<1> QED
  BY <1>1, <1>8 DEF n

\* What clap guarantees of a client's TLS flags: the certificate and the key come
\* together, and with a CA unless --insecure or --tls-fingerprint is given.
LEMMA ClientFlags ==
    ASSUME NEW j, ClientArgs(j),
           NEW g, g = given(j.cli, DOMAIN j.cli)
    PROVE  /\ "tls_cert" \in g <=> "tls_key" \in g
           /\ "tls_cert" \in g => "tls_ca" \in g \/ "insecure" \in g \/ "tls_fingerprint" \in g
<1>1. \A r \in ClientRequires : r[1] \in g =>
          r[2] \in g \/ \E c \in ClientConflicts : r[2] \in c /\ c \subseteq g \cup {r[2]}
  BY Zenon DEF ClientArgs, ArgsOk
<1>2. ASSUME NEW c \in ClientConflicts
      PROVE  /\ "tls_key" \notin c /\ "tls_cert" \notin c
             /\ "tls_ca" \in c => "insecure" \in c \/ "tls_fingerprint" \in c
  BY DEF ClientConflicts
<1>3. ASSUME "tls_cert" \in g PROVE "tls_key" \in g
  <2>1. <<"tls_cert", "tls_key">> \in ClientRequires
    BY DEF ClientRequires
  <2>2. "tls_key" \in g
        \/ \E c \in ClientConflicts : "tls_key" \in c /\ c \subseteq g \cup {"tls_key"}
    BY <1>1, <1>3, <2>1
  <2> QED
    BY <1>2, <2>2
<1>4. ASSUME "tls_key" \in g PROVE "tls_cert" \in g
  <2>1. <<"tls_key", "tls_cert">> \in ClientRequires
    BY DEF ClientRequires
  <2>2. "tls_cert" \in g
        \/ \E c \in ClientConflicts : "tls_cert" \in c /\ c \subseteq g \cup {"tls_cert"}
    BY <1>1, <1>4, <2>1
  <2> QED
    BY <1>2, <2>2
<1>5. ASSUME "tls_cert" \in g
      PROVE  "tls_ca" \in g \/ "insecure" \in g \/ "tls_fingerprint" \in g
  <2>1. <<"tls_cert", "tls_ca">> \in ClientRequires
    BY DEF ClientRequires
  <2>2. "tls_ca" \in g
        \/ \E c \in ClientConflicts : "tls_ca" \in c /\ c \subseteq g \cup {"tls_ca"}
    BY <1>1, <1>5, <2>1
  <2> QED
    BY <1>2, <2>2
<1> QED
  BY <1>3, <1>4, <1>5

\* A client that starts has merged options, and what it starts with is made of them
\* (merge_client_with_file, the client branch of main).
LEMMA ClientMade ==
    ASSUME NEW j, ClientArgs(j),
           NEW r, r = client_main(j.cli, j.file, j.embedded), r.result = "ok",
           NEW o, o = merge(j.cli, j.file, ClientTlsFlags, ClientTlsFlags)
    PROVE  LET t == resolve_client_tls(o, j.embedded)
               max == max_retries_from_cli(unwrap_or(o.max_retry_count, -1))
           IN  /\ \A f \in {"server", "remotes", "proxy"} :
                     ~ (j.cli[f] = <<>> /\ j.file[f] = <<"bad">>)
               /\ o.server # <<>> /\ o.remotes \notin {<<>>, <<"empty">>}
               /\ t # Refused /\ max # <<>>
               /\ r.tls = t /\ r.server = o.server[1] /\ r.remotes = o.remotes[1]
               /\ r.proxy = o.proxy /\ r.max_retries = max[1]
<1> DEFINE m == merge_client_with_file(j.cli, j.file)
           t == resolve_client_tls(o, j.embedded)
           max == max_retries_from_cli(unwrap_or(o.max_retry_count, -1))
<1>1. r # Refused
  BY DEF Refused
<1>2. m # Refused
  BY <1>1, Zenon DEF client_main
<1>3. /\ ~ \E f \in {"server", "remotes", "proxy"} : j.cli[f] = <<>> /\ j.file[f] = <<"bad">>
      /\ m = [result |-> "ok", options |-> o]
  BY <1>2, Zenon DEF merge_client_with_file
<1>4. m.options = o
  BY <1>3
<1>5. r = IF \/ o.server = <<>>
             \/ o.remotes \in {<<>>, <<"empty">>}
             \/ t = Refused
             \/ max = <<>>
          THEN Refused
          ELSE [result |-> "ok", tls |-> t, server |-> o.server[1],
                remotes |-> o.remotes[1], proxy |-> o.proxy, max_retries |-> max[1]]
  BY <1>2, <1>4, Zenon DEF client_main
<1> HIDE DEF t, max, m
<1>6. ~ (o.server = <<>> \/ o.remotes \in {<<>>, <<"empty">>} \/ t = Refused \/ max = <<>>)
  BY <1>1, <1>5, Zenon
<1>7. r = [result |-> "ok", tls |-> t, server |-> o.server[1],
           remotes |-> o.remotes[1], proxy |-> o.proxy, max_retries |-> max[1]]
  BY <1>5, <1>6, Zenon
<1>8. /\ r.tls = t /\ r.server = o.server[1] /\ r.remotes = o.remotes[1]
      /\ r.proxy = o.proxy /\ r.max_retries = max[1]
  BY <1>7
<1> QED
  BY <1>3, <1>6, <1>8, Zenon DEF t, max

\* The options of TLS after the merge, and the others.
LEMMA ClientMerged ==
    ASSUME NEW j, ClientArgs(j),
           NEW o, o = merge(j.cli, j.file, ClientTlsFlags, ClientTlsFlags)
    PROVE  /\ LET g == given(j.cli, ClientTlsFlags) IN
              \A f \in ClientTlsFlags : o[f] = IF g # {} THEN j.cli[f] ELSE j.file[f]
           /\ \A f \in ClientOptions \ ClientTlsFlags : o[f] = or(j.cli[f], j.file[f])
<1>1. DOMAIN j.cli = ClientOptions
  BY DEF ClientArgs
<1>2. ASSUME NEW f \in ClientTlsFlags
      PROVE  o[f] = IF given(j.cli, ClientTlsFlags) # {} THEN j.cli[f] ELSE j.file[f]
  <2>1. o[f] = IF given(j.cli, ClientTlsFlags) # {} THEN j.cli[f] ELSE or(j.file[f], j.cli[f])
    BY <1>1 DEF merge, ClientOptions
  <2>2. given(j.cli, ClientTlsFlags) = {} => j.cli[f] = <<>>
    BY DEF given
  <2> QED
    BY <2>1, <2>2 DEF or
<1>3. ASSUME NEW f \in ClientOptions \ ClientTlsFlags
      PROVE  o[f] = or(j.cli[f], j.file[f])
  BY <1>1, <1>3 DEF merge
<1> QED
  BY <1>2, <1>3

\* A pinned fingerprint, and a CA with or without a certificate, of one origin.
LEMMA UniformPinned ==
    ASSUME NEW v, NEW f \in Option({v, "bad"}), Pinned(f) # Refused, NEW named,
           named # "none" => named = "fingerprint" /\ v \in {"cli", "default"}
    PROVE  OnePlace(Pinned(f), named)
<1>1. f # <<"bad">> /\ Pinned(f) = Tls("fingerprint", f)
  BY Zenon DEF Pinned
<1>2. f = <<>> \/ f = <<v>>
  BY <1>1 DEF Option
<1>3. <<>> \in Seq({v}) /\ <<v>> \in Seq({v})
  OBVIOUS
<1>4. f \in Seq({v})
  BY <1>2, <1>3, Zenon
<1> QED
  BY <1>1, <1>4, Uniform

LEMMA UniformTrusting ==
    ASSUME NEW v, NEW ca \in Option({v}), NEW cert \in Option({v}), NEW key \in Option({v}),
           NEW named,
           named # "none" => /\ named = IF cert # <<>> /\ key # <<>> THEN "mtls" ELSE "ca"
                             /\ v \in {"cli", "default"}
    PROVE  OnePlace(Trusting(ca, cert, key), named)
<1>1. cert \in Seq({v}) /\ key \in Seq({v}) /\ ca \in Seq({v})
  <2>1. \A o \in Option({v}) : o = <<>> \/ o = <<v>>
    BY Optional
  <2>2. <<>> \in Seq({v}) /\ <<v>> \in Seq({v})
    OBVIOUS
  <2> QED
    BY <2>1, <2>2, Zenon
<1>2. (ca \o cert) \o key \in Seq({v})
  BY <1>1
<1>3. CASE cert # <<>> /\ key # <<>>
  <2>1. Trusting(ca, cert, key) = Tls("mtls", (ca \o cert) \o key)
    BY <1>3 DEF Trusting
  <2> QED
    BY <1>2, <1>3, <2>1, Uniform
<1>4. CASE ~ (cert # <<>> /\ key # <<>>)
  <2>1. Trusting(ca, cert, key) = Tls("ca", ca)
    BY <1>4 DEF Trusting
  <2> QED
    BY <1>1, <1>4, <2>1, Uniform
<1> QED
  BY <1>3, <1>4

\* The mode the flags of a client's command line name.
LEMMA ClientNamed ==
    ASSUME NEW j, ClientArgs(j)
    PROVE  /\ NamedMode(j.cli) =
                IF j.cli.insecure # <<>> THEN "insecure"
                ELSE IF j.cli.tls_fingerprint # <<>> THEN "fingerprint"
                ELSE IF j.cli.tls_ca # <<>> THEN IF j.cli.tls_cert # <<>> THEN "mtls" ELSE "ca"
                ELSE "none"
           /\ j.cli.tls_cert # <<>> <=> j.cli.tls_key # <<>>
           /\ j.cli.tls_cert # <<>> =>
                j.cli.tls_ca # <<>> \/ j.cli.insecure # <<>> \/ j.cli.tls_fingerprint # <<>>
<1> DEFINE g == given(j.cli, DOMAIN j.cli)
<1>1. /\ "tls_cert" \in g <=> "tls_key" \in g
      /\ "tls_cert" \in g => "tls_ca" \in g \/ "insecure" \in g \/ "tls_fingerprint" \in g
  BY ClientFlags, Zenon
<1>2. DOMAIN j.cli = ClientOptions
  BY DEF ClientArgs
<1>3. /\ \A f \in ClientTlsFlags : f \in g <=> j.cli[f] # <<>>
      /\ "tls_self_signed" \notin g
  BY <1>2 DEF given, ClientOptions, ClientTlsFlags
<1>4. NamedMode(j.cli) =
        IF "insecure" \in g THEN "insecure"
        ELSE IF "tls_self_signed" \in g THEN "self_signed"
        ELSE IF "tls_fingerprint" \in g THEN "fingerprint"
        ELSE IF "tls_ca" \in g THEN IF "tls_cert" \in g THEN "mtls" ELSE "ca"
        ELSE IF "tls_cert" \in g THEN "provided"
        ELSE "none"
  BY DEF NamedMode
<1> HIDE DEF g
<1> QED
  BY <1>1, <1>3, <1>4 DEF ClientTlsFlags

\* A client that starts has the mode and the parts that ClientMode gives, and the
\* server name of the command line, the file or the build (resolve_client_tls).
LEMMA ClientNames ==
    ASSUME NEW j, ClientArgs(j),
           NEW r, r = client_main(j.cli, j.file, j.embedded), r.result = "ok"
    PROVE  LET o == merge(j.cli, j.file, ClientTlsFlags, ClientTlsFlags)
               t == ClientMode(o, j.embedded)
           IN  /\ t # Refused /\ r.tls.mode = t.mode /\ r.tls.parts = t.parts
               /\ r.tls.server_name =
                    IF r.tls.mode = "insecure" THEN <<>>
                    ELSE or(j.cli.tls_server_name,
                            or(j.file.tls_server_name, j.embedded.server_name))
<1> DEFINE o == merge(j.cli, j.file, ClientTlsFlags, ClientTlsFlags)
           t == ClientMode(o, j.embedded)
           u == resolve_client_tls(o, j.embedded)
           name == or(o.tls_server_name, j.embedded.server_name)
<1>1. u # Refused /\ r.tls = u
  BY ClientMade
<1>2. u = IF t = Refused THEN Refused
          ELSE [result |-> "ok", mode |-> t.mode, parts |-> t.parts,
                server_name |-> IF t.mode = "insecure" THEN <<>> ELSE name]
  BY Zenon DEF resolve_client_tls
<1>3. o.tls_server_name = or(j.cli.tls_server_name, j.file.tls_server_name)
  BY ClientMerged DEF ClientOptions, ClientTlsFlags
<1>4. name = or(j.cli.tls_server_name, or(j.file.tls_server_name, j.embedded.server_name))
  BY <1>3 DEF or
<1> HIDE DEF o, t, u, name
<1>5. t # Refused /\ r.tls = [result |-> "ok", mode |-> t.mode, parts |-> t.parts,
                              server_name |-> IF t.mode = "insecure" THEN <<>> ELSE name]
  BY <1>1, <1>2, Zenon
<1>6. /\ r.tls.mode = t.mode /\ r.tls.parts = t.parts
      /\ r.tls.server_name = IF t.mode = "insecure" THEN <<>> ELSE name
  BY <1>5
<1> QED
  BY <1>4, <1>5, <1>6, Zenon DEF o, t

\* A client that starts has its TLS from one place (merge_client_with_file,
\* resolve_client_tls).
LEMMA ClientOnePlace ==
    ASSUME NEW j, ClientArgs(j),
           NEW r, r = client_main(j.cli, j.file, j.embedded), r.result = "ok"
    PROVE  OnePlace(r.tls, NamedMode(j.cli))
<1> DEFINE o == merge(j.cli, j.file, ClientTlsFlags, ClientTlsFlags)
           t == ClientMode(o, j.embedded)
           n == NamedMode(j.cli)
           g == given(j.cli, ClientTlsFlags)
<1>1. t # Refused /\ r.tls.mode = t.mode /\ r.tls.parts = t.parts
  BY ClientNames, Zenon
<1>2. \A f \in ClientTlsFlags : o[f] = IF g # {} THEN j.cli[f] ELSE j.file[f]
  BY ClientMerged, Zenon
<1>3. /\ \A f \in TlsFiles : j.cli[f] \in Option({"cli"}) /\ j.file[f] \in Option({"file"})
      /\ j.cli.tls_fingerprint \in Option({"cli", "bad"})
      /\ j.file.tls_fingerprint \in Option({"file", "bad"})
      /\ \A f \in {"client_cert", "client_key", "ca"} : j.embedded[f] \in Option({"embedded"})
      /\ j.embedded.fingerprint \in Option({"embedded", "bad"})
      /\ j.cli.insecure \in Option({TRUE})
  BY DEF ClientArgs
<1>4. j.cli.insecure = <<>> \/ j.cli.insecure = <<TRUE>>
  BY <1>3, Optional, Zenon
<1>5. /\ n = IF j.cli.insecure # <<>> THEN "insecure"
             ELSE IF j.cli.tls_fingerprint # <<>> THEN "fingerprint"
             ELSE IF j.cli.tls_ca # <<>> THEN IF j.cli.tls_cert # <<>> THEN "mtls" ELSE "ca"
             ELSE "none"
      /\ j.cli.tls_cert # <<>> <=> j.cli.tls_key # <<>>
      /\ j.cli.tls_cert # <<>> =>
           j.cli.tls_ca # <<>> \/ j.cli.insecure # <<>> \/ j.cli.tls_fingerprint # <<>>
  BY ClientNamed, Zenon
<1>6. t = IF unwrap_or(o.insecure, FALSE) THEN Tls("insecure", <<>>)
          ELSE IF o.tls_fingerprint # <<>> THEN Pinned(o.tls_fingerprint)
          ELSE IF o.tls_ca # <<>> THEN Trusting(o.tls_ca, o.tls_cert, o.tls_key)
          ELSE IF j.embedded.ca # <<>>
          THEN Trusting(j.embedded.ca, j.embedded.client_cert, j.embedded.client_key)
          ELSE IF j.embedded.fingerprint # <<>> THEN Pinned(j.embedded.fingerprint)
          ELSE Refused
  BY Zenon DEF ClientMode
<1>7. g # {} <=> \E f \in ClientTlsFlags : j.cli[f] # <<>>
  BY DEF given
<1>8. <<>> \in Seq({"cli"})
  OBVIOUS
<1> SUFFICES OnePlace(t, n)
  BY <1>1, SameParts, Zenon
<1> HIDE DEF o, t, n, g
<1>9. CASE g = {}
  <2>1. n = "none" /\ \A f \in ClientTlsFlags : o[f] = j.file[f]
    BY <1>2, <1>5, <1>7, <1>9 DEF ClientTlsFlags
  <2>2. /\ o.tls_fingerprint \in Option({"file", "bad"}) /\ o.tls_ca \in Option({"file"})
        /\ o.tls_cert \in Option({"file"}) /\ o.tls_key \in Option({"file"})
    BY <1>3, <2>1 DEF ClientTlsFlags, TlsFiles
  <2>3. CASE t = Tls("insecure", <<>>)
    BY <1>8, <2>1, <2>3, Uniform
  <2>4. CASE t = Pinned(o.tls_fingerprint)
    BY <1>1, <2>1, <2>2, <2>4, UniformPinned
  <2>5. CASE t = Trusting(o.tls_ca, o.tls_cert, o.tls_key)
    BY <2>1, <2>2, <2>5, UniformTrusting
  <2>6. CASE t = Trusting(j.embedded.ca, j.embedded.client_cert, j.embedded.client_key)
    BY <1>3, <2>1, <2>6, UniformTrusting
  <2>7. CASE t = Pinned(j.embedded.fingerprint)
    BY <1>1, <1>3, <2>1, <2>7, UniformPinned
  <2> QED
    BY <1>1, <1>6, <2>3, <2>4, <2>5, <2>6, <2>7, Zenon
<1>10. CASE g # {}
  <2>1. /\ o.insecure = j.cli.insecure /\ o.tls_fingerprint = j.cli.tls_fingerprint
        /\ o.tls_ca = j.cli.tls_ca /\ o.tls_cert = j.cli.tls_cert /\ o.tls_key = j.cli.tls_key
    BY <1>2, <1>10 DEF ClientTlsFlags
  <2>2. CASE j.cli.insecure # <<>>
    <3>1. n = "insecure" /\ t = Tls("insecure", <<>>)
      BY <1>4, <1>5, <1>6, <2>1, <2>2, Unwrapped, Zenon
    <3> QED
      BY <1>8, <3>1, Uniform
  <2>3. CASE j.cli.insecure = <<>> /\ j.cli.tls_fingerprint # <<>>
    <3>1. n = "fingerprint" /\ t = Pinned(j.cli.tls_fingerprint)
      BY <1>5, <1>6, <2>1, <2>3, Unwrapped, Zenon
    <3> QED
      BY <1>1, <1>3, <3>1, UniformPinned
  <2>4. CASE j.cli.insecure = <<>> /\ j.cli.tls_fingerprint = <<>>
    <3>1. j.cli.tls_ca # <<>>
      BY <1>5, <1>7, <1>10, <2>4 DEF ClientTlsFlags
    <3>2. /\ n = IF j.cli.tls_cert # <<>> THEN "mtls" ELSE "ca"
          /\ t = Trusting(j.cli.tls_ca, j.cli.tls_cert, j.cli.tls_key)
      BY <1>5, <1>6, <2>1, <2>4, <3>1, Unwrapped, Zenon
    <3>3. /\ j.cli.tls_ca \in Option({"cli"}) /\ j.cli.tls_cert \in Option({"cli"})
          /\ j.cli.tls_key \in Option({"cli"})
      BY <1>3 DEF TlsFiles
    <3>4. n = IF j.cli.tls_cert # <<>> /\ j.cli.tls_key # <<>> THEN "mtls" ELSE "ca"
      BY <1>5, <3>2
    <3>5. ASSUME NEW ca \in Option({"cli"}), NEW cert \in Option({"cli"}),
                 NEW key \in Option({"cli"}),
                 n = IF cert # <<>> /\ key # <<>> THEN "mtls" ELSE "ca"
          PROVE  OnePlace(Trusting(ca, cert, key), n)
      BY <3>5, UniformTrusting
    <3>6. OnePlace(Trusting(j.cli.tls_ca, j.cli.tls_cert, j.cli.tls_key), n)
      BY <3>3, <3>4, <3>5, Zenon
    <3> QED
      BY <3>2, <3>6, Zenon
  <2> QED
    BY <2>2, <2>3, <2>4
<1> QED
  BY <1>9, <1>10

\* A client that starts has what ClientStartsWhole says (merge_client_with_file, the
\* client branch of main, max_retries_from_cli).
LEMMA ClientWhole ==
    ASSUME NEW j, ClientArgs(j),
           NEW r, r = client_main(j.cli, j.file, j.embedded), r.result = "ok"
    PROVE  LET asked == unwrap_or(or(j.cli.max_retry_count, j.file.max_retry_count), -1) IN
           /\ r.server = (IF j.cli.server # <<>> THEN "cli" ELSE "file")
           /\ r.remotes = (IF j.cli.remotes # <<>> THEN "cli" ELSE "file")
           /\ r.proxy \in {<<>>, <<"cli">>, <<"file">>}
           /\ r.max_retries = (IF asked < 0 THEN NoLimit ELSE asked)
<1> DEFINE o == merge(j.cli, j.file, ClientTlsFlags, ClientTlsFlags)
           asked == unwrap_or(or(j.cli.max_retry_count, j.file.max_retry_count), -1)
           max == max_retries_from_cli(unwrap_or(o.max_retry_count, -1))
<1>1. /\ \A f \in {"server", "remotes", "proxy"} : ~ (j.cli[f] = <<>> /\ j.file[f] = <<"bad">>)
      /\ o.server # <<>> /\ o.remotes \notin {<<>>, <<"empty">>} /\ max # <<>>
      /\ r.server = o.server[1] /\ r.remotes = o.remotes[1]
      /\ r.proxy = o.proxy /\ r.max_retries = max[1]
  BY ClientMade
<1>2. \A f \in {"server", "remotes", "proxy", "max_retry_count"} : o[f] = or(j.cli[f], j.file[f])
  BY ClientMerged DEF ClientOptions, ClientTlsFlags
<1>3. /\ \A f \in {"server", "remotes", "proxy"} : j.cli[f] = <<>> \/ j.cli[f] = <<"cli">>
      /\ j.file.server \in {<<>>, <<"file">>, <<"bad">>}
      /\ j.file.remotes \in {<<>>, <<"file">>, <<"bad">>, <<"empty">>}
      /\ j.file.proxy \in {<<>>, <<"file">>, <<"bad">>}
  BY DEF ClientArgs, Option
<1>4. max = IF asked < 0 THEN <<NoLimit>> ELSE IF asked > U32Max THEN <<>> ELSE <<asked>>
  BY <1>2 DEF max_retries_from_cli
<1> HIDE DEF o, asked, max
<1>5. r.server = (IF j.cli.server # <<>> THEN "cli" ELSE "file")
  <2>1. \/ o.server = <<"cli">> /\ j.cli.server # <<>>
        \/ o.server = <<"file">> /\ j.cli.server = <<>>
    BY <1>1, <1>2, <1>3 DEF or
  <2> QED
    BY <1>1, <2>1
<1>6. r.remotes = (IF j.cli.remotes # <<>> THEN "cli" ELSE "file")
  <2>1. \/ o.remotes = <<"cli">> /\ j.cli.remotes # <<>>
        \/ o.remotes = <<"file">> /\ j.cli.remotes = <<>>
    BY <1>1, <1>2, <1>3 DEF or
  <2> QED
    BY <1>1, <2>1
<1>7. r.proxy \in {<<>>, <<"cli">>, <<"file">>}
  BY <1>1, <1>2, <1>3 DEF or
<1>8. r.max_retries = (IF asked < 0 THEN NoLimit ELSE asked)
  BY <1>1, <1>4
<1> QED
  BY <1>5, <1>6, <1>7, <1>8 DEF asked

-----------------------------------------------------------------------------

\* What main has computed is what its own arguments give, and they are arguments clap
\* lets through, until the server turns to its state directory.
Resolved ==
    /\ job.role = "server" =>
         ServerArgs(job) /\ out \in {Pending, server_main(job.cli, job.file, job.embedded)}
    /\ job.role = "client" =>
         ClientArgs(job) /\ out \in {Pending, client_main(job.cli, job.file, job.embedded)}

\* Every step keeps the arguments and what was computed from them.
LEMMA StepResolved == Resolved /\ [Next]_vars => Resolved'
<1> SUFFICES ASSUME Resolved, [Next]_vars PROVE Resolved'
  OBVIOUS
<1>1. ASSUME UNCHANGED <<job, out>> PROVE Resolved'
  BY <1>1 DEF Resolved
<1>2. CASE ServerMain
  <2>1. job' = job /\ job.role = "server"
        /\ out' = server_main(job.cli, job.file, job.embedded)
    BY <1>2 DEF ServerMain
  <2> QED
    BY <2>1 DEF Resolved
<1>3. CASE ClientMain
  <2>1. job' = job /\ job.role = "client"
        /\ out' = client_main(job.cli, job.file, job.embedded)
    BY <1>3 DEF ClientMain
  <2> QED
    BY <2>1 DEF Resolved
<1>4. ASSUME NEW role \in {"remote", "split", "server_addr"}, NEW value, Parse(role, value)
      PROVE  Resolved'
  <2>1. job' = job /\ job.role # "server" /\ job.role # "client"
    BY <1>4 DEF Parse
  <2> QED
    BY <2>1 DEF Resolved
<1>5. CASE parse_remote \/ SplitTokens \/ parse_server_addr
  BY <1>4, <1>5 DEF parse_remote, SplitTokens, parse_server_addr
<1>6. CASE LoadOrCreate
  <2>1. job'.role = "self_signed"
    BY <1>6 DEF LoadOrCreate, Drop
  <2> QED
    BY <2>1 DEF Resolved
<1>7. CASE CreateCert \/ WriteCert \/ CreateKey \/ WriteKey \/ Bind
  BY <1>1, <1>7 DEF CreateCert, WriteCert, CreateKey, WriteKey, Bind
<1>8. CASE WriteFails \/ Stop \/ Restart
  BY <1>1, <1>8 DEF WriteFails, Stop, Restart
<1>9. CASE UNCHANGED vars
  BY <1>1, <1>9 DEF vars
<1> QED
  BY <1>2, <1>3, <1>5, <1>6, <1>7, <1>8, <1>9 DEF Next

\* The arguments of a process and what main made of them belong together in every
\* state (main).
LEMMA ResolvedAlways == Spec => []Resolved
<1>1. Init => Resolved
  BY StartupAssumption DEF Init, Resolved
<1> QED
  BY <1>1, StepResolved, PTL DEF Spec

\* For any command line clap lets through, any file and any build, the certificate,
\* the key, the CA and the fingerprint come from one place, a mode named on the
\* command line is the mode used, and the server name follows its own order (merge_server_with_file, merge_client_with_file, resolve_server_tls,
\* resolve_client_tls).
THEOREM TlsFromOnePlaceAlways == Spec => []TlsFromOnePlace
<1>1. Resolved => TlsFromOnePlace
  <2> DEFINE NameFollows == out.tls.server_name =
                 IF out.tls.mode = "insecure" THEN <<>>
                 ELSE or(job.cli.tls_server_name,
                         or(job.file.tls_server_name, job.embedded.server_name))
  <2> SUFFICES ASSUME Resolved, job.role \in {"server", "client"}, out.result = "ok"
               PROVE  /\ OnePlace(out.tls, NamedMode(job.cli))
                      /\ job.role = "client" => NameFollows
    BY Zenon DEF TlsFromOnePlace, OnePlace
  <2>1. out # Pending
    BY DEF Pending
  <2>2. CASE job.role = "server"
    <3>1. OnePlace(out.tls, NamedMode(job.cli))
      BY <2>1, <2>2, ServerOnePlace, Zenon DEF Resolved
    <3> QED
      BY <2>2, <3>1
  <2>3. CASE job.role = "client"
    <3>1. out = client_main(job.cli, job.file, job.embedded) /\ ClientArgs(job)
      BY <2>1, <2>3, Zenon DEF Resolved
    <3>2. OnePlace(out.tls, NamedMode(job.cli))
      BY <3>1, ClientOnePlace, Zenon
    <3>3. NameFollows
      BY <3>1, ClientNames, Zenon
    <3> QED
      BY <3>2, <3>3
  <2> QED
    BY <2>2, <2>3
<1> QED
  BY <1>1, ResolvedAlways, PTL

\* For any arguments and any width of the retry count, a client that starts is whole:
\* server, remotes, proxy and retry limit are the ones asked for
\* (merge_client_with_file, the client branch of main, max_retries_from_cli).
THEOREM ClientStartsWholeAlways == Spec => []ClientStartsWhole
<1>1. Resolved => ClientStartsWhole
  <2> SUFFICES ASSUME Resolved, job.role = "client", out.result = "ok"
               PROVE  ClientStartsWhole
    BY Zenon DEF ClientStartsWhole
  <2>1. out = client_main(job.cli, job.file, job.embedded) /\ ClientArgs(job)
    BY DEF Resolved, Pending
  <2> QED
    BY <2>1, ClientWhole, Zenon DEF ClientStartsWhole
<1> QED
  BY <1>1, ResolvedAlways, PTL
=============================================================================
