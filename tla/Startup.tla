------------------------------- MODULE Startup -------------------------------
(***************************************************************************)
(* The start of a process: the arguments are parsed and merged (main.rs,   *)
(* common/remote.rs), and a server in self-signed mode loads its identity  *)
(* from its state directory or creates it (common/quic.rs), with the       *)
(* process stopped or a write failing anywhere in between, and started     *)
(* again.                                                                  *)
(***************************************************************************)
EXTENDS CommandLine, RemoteSpec

CONSTANTS
    Jobs,      \* what a process may be asked to do: a set of sets of jobs
    MaxFaults  \* bound on stops and failed writes

Option(values) == {<<>>} \cup {<<v>> : v \in values}

TlsFiles == {"tls_cert", "tls_key", "tls_ca"}

\* What main is given: options that clap lets through, and values that tell where
\* they come from or what is wrong with them.
ServerArgs(j) ==
    /\ DOMAIN j.cli = ServerOptions
    /\ ArgsOk(j.cli, ServerConflicts, ServerRequires)
    /\ \A f \in {"insecure", "tls_self_signed"} :
          j.cli[f] \in Option({TRUE}) /\ j.file[f] \in Option(BOOLEAN)
    /\ \A f \in TlsFiles \cup {"tls_state_dir"} :
          j.cli[f] \in Option({"cli"}) /\ j.file[f] \in Option({"file"})
    /\ \A f \in {"server_cert", "server_key", "ca"} : j.embedded[f] \in Option({"embedded"})
    /\ j.embedded.home \in Option({"default"})

ClientArgs(j) ==
    /\ DOMAIN j.cli = ClientOptions
    /\ ArgsOk(j.cli, ClientConflicts, ClientRequires)
    /\ j.cli.insecure \in Option({TRUE}) /\ j.file.insecure \in Option(BOOLEAN)
    /\ \A f \in TlsFiles : j.cli[f] \in Option({"cli"}) /\ j.file[f] \in Option({"file"})
    /\ j.cli.tls_fingerprint \in Option({"cli", "bad"})
    /\ j.file.tls_fingerprint \in Option({"file", "bad"})
    /\ \A f \in {"client_cert", "client_key", "ca"} : j.embedded[f] \in Option({"embedded"})
    /\ j.embedded.fingerprint \in Option({"embedded", "bad"})
    /\ j.cli.tls_server_name \in Option({"cli"}) /\ j.file.tls_server_name \in Option({"file"})
    /\ j.embedded.server_name \in Option({"embedded"})
    /\ \A f \in {"server", "remotes", "proxy"} : j.cli[f] \in Option({"cli"})
    /\ j.file.server \in Option({"file", "bad"})
    /\ j.file.remotes \in Option({"file", "bad", "empty"})
    /\ j.file.proxy \in Option({"file", "bad"})
    /\ \A o \in {j.cli.max_retry_count, j.file.max_retry_count} : o \in Seq(Int) /\ Len(o) <= 1

ASSUME StartupAssumption ==
    /\ \A jobs \in Jobs : \A j \in jobs :
          (j.role = "server" => ServerArgs(j)) /\ (j.role = "client" => ClientArgs(j))
    /\ U32Max \in Nat
    /\ MaxFaults \in Nat

VARIABLES
    job,     \* what this process is asked to do
    place,   \* where the process is
    out,     \* what the pure part of the start computed
    disk,    \* server.pem and server.key in the state directory
    held,    \* the identity in memory
    made,    \* identities generated so far: each has its own number
    served,  \* the fingerprint of the last start that served, 0 before the first
    faults   \* stops and failed writes so far

vars == <<job, place, out, disk, held, made, served, faults>>

-----------------------------------------------------------------------------

\* A file that does not exist, and one that was created and not yet written.
Absent == -1

Torn == 0

Pending == [result |-> "pending"]

NoIdentity == [cert |-> Absent, key |-> Absent]

Writing == {"cert", "cert_data", "key", "key_data"}

\* Where a server in self-signed mode is.
Identifying == {"identity", "bind", "serving", "stopped", "failed"} \cup Writing

Complete(file) == file > Torn

Init ==
    /\ \E jobs \in Jobs : job \in jobs
    /\ place = "main"
    /\ out = Pending
    /\ disk = NoIdentity
    /\ held = NoIdentity
    /\ made = 0
    /\ served = 0
    /\ faults = 0

-----------------------------------------------------------------------------
(* The pure part of the start.                                             *)

\* main() with the server subcommand; run_server then loads the identity.
ServerMain ==
    /\ place = "main"
    /\ job.role = "server"
    /\ out' = server_main(job.cli, job.file, job.embedded)
    /\ place' = CASE out' = Refused -> "refused"
                  [] out' # Refused /\ out'.tls.mode = "self_signed" -> "identity"
                  [] OTHER -> "done"
    /\ UNCHANGED <<job, disk, held, made, served, faults>>

\* main() with the client subcommand.
ClientMain ==
    /\ place = "main"
    /\ job.role = "client"
    /\ out' = client_main(job.cli, job.file, job.embedded)
    /\ place' = IF out' = Refused THEN "refused" ELSE "done"
    /\ UNCHANGED <<job, disk, held, made, served, faults>>

\* A value parser of an argument.
Parse(role, value) ==
    /\ place = "main"
    /\ job.role = role
    /\ out' = value
    /\ place' = "done"
    /\ UNCHANGED <<job, disk, held, made, served, faults>>

\* The text of a remote given as its parts.
Joined(tokens) ==
    LET joined[k \in 0 .. Len(tokens)] ==
            IF k = 0 THEN <<>>
            ELSE IF k = 1 THEN tokens[1] ELSE joined[k - 1] \o <<":">> \o tokens[k]
    IN  joined[Len(tokens)]

Text(spec) ==
    (IF spec.reverse THEN <<"R", ":">> ELSE <<>>) \o Joined(spec.tokens)
    \o (IF spec.protocol = "" THEN <<>> ELSE <<"/", spec.protocol>>)

parse_remote == Parse("remote", from_str(Text(job)))

SplitTokens == Parse("split", split_addr_tokens(job.text))

parse_server_addr ==
    Parse("server_addr", [result |-> "ok", addrs |-> interleave_address_families(job.resolved)])

-----------------------------------------------------------------------------
(* The identity of a server in self-signed mode.                           *)

\* main is done with its arguments: what follows depends on the state directory only.
Drop == job' = [role |-> "self_signed"] /\ out' = Pending

Generate(start) ==
    /\ made' = made + 1
    /\ place' = start
    /\ UNCHANGED held

\* Fault: one file is taken for both.
LoadIfEither ==
    /\ place = "identity"
    /\ IF disk.cert # Absent \/ disk.key # Absent
       THEN /\ IF Complete(disk.cert) /\ Complete(disk.key)
               THEN held' = disk /\ place' = "bind"
               ELSE place' = "failed" /\ UNCHANGED held
            /\ UNCHANGED made
       ELSE Generate("cert")
    /\ Drop
    /\ UNCHANGED <<disk, served, faults>>

\* Fault: every start makes an identity.
AlwaysGenerate ==
    /\ place = "identity"
    /\ made <= MaxFaults
    /\ Generate("cert")
    /\ Drop
    /\ UNCHANGED <<disk, served, faults>>

\* load_or_create_self_signed up to the first write: both files are loaded if both
\* exist, which fails on one without its PEM block; otherwise both are made anew.
LoadOrCreate ==
    /\ place = "identity"
    /\ IF disk.cert # Absent /\ disk.key # Absent
       THEN /\ IF Complete(disk.cert) /\ Complete(disk.key)
               THEN held' = disk /\ place' = "bind"
               ELSE place' = "failed" /\ UNCHANGED held
            /\ UNCHANGED made
       ELSE Generate("cert")
    /\ Drop
    /\ UNCHANGED <<disk, served, faults>>

\* fs::write creates or truncates the file, then writes it.
CreateCert ==
    /\ place = "cert"
    /\ disk' = [disk EXCEPT !.cert = Torn]
    /\ place' = "cert_data"
    /\ UNCHANGED <<job, out, held, made, served, faults>>

WriteCert ==
    /\ place = "cert_data"
    /\ disk' = [disk EXCEPT !.cert = made]
    /\ place' = "key"
    /\ UNCHANGED <<job, out, held, made, served, faults>>

\* write_secret_file.
CreateKey ==
    /\ place = "key"
    /\ disk' = [disk EXCEPT !.key = Torn]
    /\ place' = "key_data"
    /\ UNCHANGED <<job, out, held, made, served, faults>>

\* The identity goes on from memory, not from the files.
WriteKey ==
    /\ place = "key_data"
    /\ disk' = [disk EXCEPT !.key = made]
    /\ held' = [cert |-> made, key |-> made]
    /\ place' = "bind"
    /\ UNCHANGED <<job, out, made, served, faults>>

\* build_quic_server_config: rustls refuses a key that is not the certificate's.
Bind ==
    /\ place = "bind"
    /\ IF held.cert = held.key
       THEN place' = "serving" /\ served' = held.cert
       ELSE place' = "failed" /\ UNCHANGED served
    /\ UNCHANGED <<job, out, disk, held, made, faults>>

\* A create or a write fails, or set_permissions once the key is written: the error
\* ends the process.
WriteFails ==
    /\ place \in Writing
    /\ faults < MaxFaults
    /\ faults' = faults + 1
    /\ place' = "failed"
    /\ UNCHANGED disk \/ (place = "key_data" /\ disk' = [disk EXCEPT !.key = made])
    /\ UNCHANGED <<job, out, held, made, served>>

\* The process is stopped, wherever it is.
Stop ==
    /\ place \in Identifying \ {"stopped", "failed"}
    /\ faults < MaxFaults
    /\ faults' = faults + 1
    /\ place' = "stopped"
    /\ held' = NoIdentity
    /\ UNCHANGED <<job, out, disk, made, served>>

\* The process is started again with the same arguments, of which main makes the same.
Restart ==
    /\ place \in {"stopped", "failed"}
    /\ place' = "identity"
    /\ held' = NoIdentity
    /\ UNCHANGED <<job, out, disk, made, served, faults>>

Start == ServerMain \/ LoadOrCreate \/ CreateCert \/ WriteCert \/ CreateKey \/ WriteKey \/ Bind

Next ==
    \/ ServerMain \/ ClientMain \/ parse_remote \/ SplitTokens \/ parse_server_addr
    \/ LoadOrCreate \/ CreateCert \/ WriteCert \/ CreateKey \/ WriteKey \/ Bind
    \/ WriteFails \/ Stop \/ Restart

Spec == Init /\ [][Next]_vars

\* A process that runs goes on, and one that ended is started again.
FairSpec == Spec /\ WF_vars(Start) /\ WF_vars(Restart)

-----------------------------------------------------------------------------
(* Properties.                                                             *)

Started == place \in {"done", "refused", "identity"}

\* The mode that the TLS flags of a command line name.
NamedMode(cli) ==
    LET g == given(cli, DOMAIN cli) IN
    IF "insecure" \in g THEN "insecure"
    ELSE IF "tls_self_signed" \in g THEN "self_signed"
    ELSE IF "tls_fingerprint" \in g THEN "fingerprint"
    ELSE IF "tls_ca" \in g THEN IF "tls_cert" \in g THEN "mtls" ELSE "ca"
    ELSE IF "tls_cert" \in g THEN "provided"
    ELSE "none"

\* The certificate, the key, the CA and the fingerprint a process uses come from one
\* place, all from the command line, all from the file or all from the build; and
\* when the command line names a TLS mode, that mode is used, and none of these is the
\* file's or the build's (cli_set_tls in merge_server_with_file and
\* merge_client_with_file, and the order in resolve_server_tls and
\* resolve_client_tls).  The server name is the one part with an order of its own: it
\* is the command line's, else the file's, else the build's, whoever chose the mode,
\* and an insecure client has none.
TlsFromOnePlace ==
    job.role \in {"server", "client"} /\ out.result = "ok" =>
        LET parts == {out.tls.parts[k] : k \in DOMAIN out.tls.parts}
            named == NamedMode(job.cli)
        IN  /\ \A p, q \in parts : p = q
            /\ named # "none" => out.tls.mode = named /\ parts \subseteq {"cli", "default"}
            /\ job.role = "client" => out.tls.server_name =
                 IF out.tls.mode = "insecure" THEN <<>>
                 ELSE or(job.cli.tls_server_name,
                         or(job.file.tls_server_name, job.embedded.server_name))

\* A client that starts has a server and remotes, those of the command line if it
\* gives any, a proxy that was parsed, and the retry limit it was asked for: none for
\* a negative count, and never one cut to its width (merge_client_with_file, the
\* client branch of main, max_retries_from_cli).
ClientStartsWhole ==
    job.role = "client" /\ out.result = "ok" =>
        LET asked == unwrap_or(or(job.cli.max_retry_count, job.file.max_retry_count), -1) IN
        /\ out.server = (IF job.cli.server # <<>> THEN "cli" ELSE "file")
        /\ out.remotes = (IF job.cli.remotes # <<>> THEN "cli" ELSE "file")
        /\ out.proxy \in {<<>>, <<"cli">>, <<"file">>}
        /\ out.max_retries = (IF asked < 0 THEN NoLimit ELSE asked)

\* What the help says of <local-host>:<local-port>:<remote-host>:<remote-port>/<protocol>:
\* the fields are counted from the right, and one that is left out has its default.
Meant(spec) ==
    LET stdio == spec.tokens # <<>> /\ spec.tokens[1] = STDIO
        fields == IF stdio THEN Tail(spec.tokens) ELSE spec.tokens
        n == Len(fields)
        back(k) == fields[n + 1 - k]
        socks == n > 0 /\ back(1) = SOCKS
        wellFormed ==
            /\ spec.protocol \in {"", "tcp", "udp"}
            /\ n \in 1 .. (IF stdio THEN 2 ELSE IF socks THEN 3 ELSE 4)
            /\ stdio => ~ spec.reverse /\ \A k \in DOMAIN fields : fields[k] # SOCKS
            /\ socks => (n >= 2 => IsPort(back(2))) /\ (n = 3 => IsIp(back(3)))
            /\ ~ socks => IsPort(back(1)) /\ (n >= 3 => IsPort(back(3))) /\ (n = 4 => IsIp(back(4)))
        field(k, default) == IF n >= k THEN unbracket(back(k)) ELSE default
        port(k, default) == IF n >= k THEN parse_port(back(k)) ELSE default
    IN  IF ~ wellFormed THEN Failed
        ELSE [result |-> "ok", reverse |-> spec.reverse, stdio |-> stdio,
              kind |-> IF socks THEN "socks5" ELSE IF spec.protocol = "" THEN "tcp" ELSE spec.protocol,
              local |-> IF stdio THEN <<ANY_V4, 0>>
                        ELSE IF socks THEN <<field(3, LOCALHOST), port(2, 1080)>>
                        ELSE <<field(4, ANY_V4), port(3, parse_port(back(1)))>>,
              remote |-> IF socks THEN <<>>
                         ELSE <<field(2, IF stdio THEN LOCALHOST ELSE ANY_V4), parse_port(back(1))>>]

\* A remote is parsed to what the grammar of the help gives it, for every number of
\* fields, with IPv6 hosts in brackets, either direction and any suffix; stdio is
\* never reversed and never a SOCKS proxy (RemoteRequest::from_str).
RemoteAsMeant == job.role = "remote" /\ Started => out = Meant(job)

\* The pieces of a text between the positions of a set.
Pieces(s, cuts) ==
    LET before(k) == {0} \cup {c \in cuts : c < k} IN
    {[from |-> (CHOOSE c \in before(k) : \A d \in before(k) : d <= c) + 1, to |-> k - 1] :
        k \in cuts \cup {Len(s) + 1}}

\* A piece is one bracket from end to end, or has no bracket in front and no colon.
Atomic(piece) ==
    IF piece # <<>> /\ piece[1] = "["
    THEN Bracketed(piece) /\ \A k \in 1 .. Len(piece) - 1 : piece[k] # "]"
    ELSE \A k \in DOMAIN piece : piece[k] # ":"

\* The ways to cut a text at colons into atomic pieces of which the last is not empty.
Cuts(s) ==
    {cuts \in SUBSET {k \in DOMAIN s : s[k] = ":"} :
        /\ Len(s) \notin cuts
        /\ \A p \in Pieces(s, cuts) : Atomic(SubSeq(s, p.from, p.to))}

\* An address is split exactly when it can be: the tokens joined by ':' are the text,
\* no token breaks a bracket or runs over a colon, and a text is refused only if there
\* is no way to split it (split_addr_tokens).
SplitExact ==
    job.role = "split" /\ Started =>
        IF job.text = <<>> THEN out = [result |-> "ok", tokens |-> <<>>]
        ELSE IF out = Failed THEN Cuts(job.text) = {}
        ELSE /\ Joined(out.tokens) = job.text
             /\ \A k \in DOMAIN out.tokens : Atomic(out.tokens[k])
             /\ out.tokens[Len(out.tokens)] # <<>>


\* Once a server has served, every later start serves the same fingerprint: "reused on
\* subsequent runs so the fingerprint stays stable" (load_or_create_self_signed).
FingerprintStable == [][served # 0 => served' = served]_vars

\* A server whose start is cut off or fails serves after it is started again, unless
\* it was cut off between the creation and the writing of the key, which no later
\* start repairs (load_or_create_self_signed, write_secret_file).
ServesAgain ==
    place \in Identifying ~> place = "serving" \/ (place = "failed" /\ disk.key = Torn)
=============================================================================
