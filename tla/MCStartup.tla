------------------------------ MODULE MCStartup ------------------------------
(***************************************************************************)
(* Startup for TLC: every command line clap lets through with every file   *)
(* and every build, every remote of up to four fields, every short text    *)
(* and every short list of addresses.                                      *)
(***************************************************************************)
EXTENDS Startup

Unset(options) == [f \in options |-> <<>>]

-----------------------------------------------------------------------------

TlsPaths == {"tls_cert", "tls_key", "tls_ca", "tls_state_dir"}

Flag(given_, f, value) == IF f \in given_ THEN <<value>> ELSE <<>>

ServerTlsClis ==
    {cli \in {[f \in ServerOptions |->
                 Flag(g, f, IF f \in TlsPaths THEN "cli" ELSE TRUE)] : g \in SUBSET ServerTlsOptions} :
        ArgsOk(cli, ServerConflicts, ServerRequires)}

ServerTlsFiles ==
    {[f \in ServerOptions |->
        IF f = "insecure" THEN i ELSE IF f = "tls_self_signed" THEN s ELSE Flag(g, f, "file")] :
        i \in Option({TRUE, FALSE}), s \in Option({TRUE, FALSE}), g \in SUBSET TlsPaths}

ServerBuilt == {"server_cert", "server_key", "ca", "home"}

ServerBuilds ==
    {[f \in ServerBuilt |-> Flag(g, f, IF f = "home" THEN "default" ELSE "embedded")] :
        g \in SUBSET ServerBuilt}

\* The options outside TLS, with --insecure.
ServerPlain(source, no_admin) ==
    {[f \in ServerOptions |->
        CASE f = "insecure" /\ source = "cli" -> <<TRUE>>
          [] f = "port" -> p
          [] f = "max_connections" -> m
          [] f = "admin_socket" -> a
          [] f = "no_admin_socket" -> n
          [] OTHER -> <<>>] :
        p \in Option({source}), m \in Option({0, 2}), a \in Option({source}), n \in Option(no_admin)}

ServerJob(cli, file, embedded) ==
    [role |-> "server", cli |-> cli, file |-> file, embedded |-> embedded]

ServerTlsJobs ==
    {ServerJob(cli, file, embedded) :
        cli \in ServerTlsClis, file \in ServerTlsFiles, embedded \in ServerBuilds}

ServerPlainJobs ==
    {ServerJob(cli, file, Unset(ServerBuilt)) :
        cli \in {c \in ServerPlain("cli", {TRUE}) : ArgsOk(c, ServerConflicts, ServerRequires)},
        file \in ServerPlain("file", {TRUE, FALSE})}

-----------------------------------------------------------------------------

ClientTls(source, insecures, fingerprints, names) ==
    {[f \in ClientOptions |->
        CASE f = "insecure" -> i
          [] f = "tls_fingerprint" -> p
          [] f = "tls_server_name" -> n
          [] f \in {"server", "remotes"} -> IF source = "cli" THEN <<"cli">> ELSE <<>>
          [] OTHER -> Flag(g, f, source)] :
        i \in Option(insecures), p \in Option(fingerprints), n \in Option(names),
        g \in SUBSET {"tls_ca", "tls_cert", "tls_key"}}

ClientBuilt == {"client_cert", "client_key", "ca", "fingerprint", "server_name"}

ClientBuilds(fingerprints, names) ==
    {[f \in ClientBuilt |->
        IF f = "fingerprint" THEN p ELSE IF f = "server_name" THEN n ELSE Flag(g, f, "embedded")] :
        g \in SUBSET {"client_cert", "client_key", "ca"},
        p \in Option(fingerprints), n \in Option(names)}

\* The options outside TLS.
ClientPlain(source, servers, remotes, proxies) ==
    {[f \in ClientOptions |->
        CASE f = "insecure" /\ source = "cli" -> <<TRUE>>
          [] f = "server" -> s
          [] f = "remotes" -> r
          [] f = "proxy" -> p
          [] f = "max_retry_count" -> m
          [] OTHER -> <<>>] :
        s \in Option(servers), r \in Option(remotes), p \in Option(proxies),
        m \in Option({-1, 0, U32Max, U32Max + 1})}

ClientJob(cli, file, embedded) ==
    [role |-> "client", cli |-> cli, file |-> file, embedded |-> embedded]

ClientJobs(clis, files, builds) ==
    {ClientJob(cli, file, embedded) :
        cli \in {c \in clis : ArgsOk(c, ClientConflicts, ClientRequires)},
        file \in files, embedded \in builds}

ClientTlsJobs ==
    ClientJobs(ClientTls("cli", {TRUE}, {"cli", "bad"}, {}),
               ClientTls("file", {TRUE, FALSE}, {"file"}, {}),
               ClientBuilds({"embedded", "bad"}, {}))

\* The server name, in every mode from every origin.
ClientNameJobs ==
    ClientJobs(ClientTls("cli", {TRUE}, {"cli"}, {"cli"}),
               ClientTls("file", {TRUE}, {"file"}, {"file"}),
               ClientBuilds({"embedded"}, {"embedded"}))

ClientPlainJobs ==
    {ClientJob(cli, file, Unset(ClientBuilt)) :
        cli \in ClientPlain("cli", {"cli"}, {"cli"}, {"cli"}),
        file \in ClientPlain("file", {"file", "bad"}, {"file", "bad", "empty"}, {"file", "bad"})}

-----------------------------------------------------------------------------

MCPorts == [w \in {"80", "81"} |-> IF w = "80" THEN 80 ELSE 81]

MCIps == {<<"0.0.0.0">>, <<"127.0.0.1">>, <<":", ":", "80">>}

Tokens ==
    {<<>>, <<"80">>, <<"81">>, <<"host">>, SOCKS, STDIO, <<"127.0.0.1">>, <<"[", ":", ":", "80", "]">>}

RemoteJobs ==
    {[role |-> "remote", reverse |-> r, tokens |-> t, protocol |-> p] :
        r \in BOOLEAN, p \in {"", "tcp", "udp", "icmp"},
        t \in UNION {[1 .. n -> Tokens] : n \in 0 .. 4} \cup {[k \in 1 .. 5 |-> <<"80">>]}}

SplitJobs ==
    {[role |-> "split", text |-> t] : t \in UNION {[1 .. n -> {":", "[", "]", "80"}] : n \in 0 .. 6}}

AddrJobs ==
    {[role |-> "server_addr", resolved |-> [k \in 1 .. Len(f) |-> <<f[k], k>>]] :
        f \in UNION {[1 .. n -> {4, 6}] : n \in 1 .. 6}}

MCJobs ==
    {ServerTlsJobs, ServerPlainJobs, ClientTlsJobs, ClientNameJobs, ClientPlainJobs, RemoteJobs,
     SplitJobs, AddrJobs}
=============================================================================
