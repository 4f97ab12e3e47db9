----------------------------- MODULE CommandLine -----------------------------
(***************************************************************************)
(* What a process starts with (main.rs): the command line merged with the  *)
(* configuration file, the TLS mode resolved from both and from what the   *)
(* build embeds, the retry limit and the order of the server's addresses.  *)
(* An option is <<>> when it was not given and <<value>> when it was.  The *)
(* value of a path is where it comes from.  The options that are merged    *)
(* alike (host, port, congestion, logging and so on) are left to port.     *)
(***************************************************************************)
EXTENDS Integers, Sequences

CONSTANT U32Max  \* u32::MAX

Refused == [result |-> "error"]

or(a, b) == IF a # <<>> THEN a ELSE b

unwrap_or(option, default) == IF option # <<>> THEN option[1] ELSE default

ServerTlsFlags == {"insecure", "tls_self_signed", "tls_cert", "tls_key", "tls_ca"}

ServerTlsOptions == ServerTlsFlags \cup {"tls_state_dir"}

ServerOptions ==
    ServerTlsOptions \cup {"port", "max_connections", "admin_socket", "no_admin_socket"}

ClientTlsFlags == {"insecure", "tls_fingerprint", "tls_ca", "tls_cert", "tls_key"}

ClientOptions ==
    ClientTlsFlags \cup {"tls_server_name", "server", "remotes", "proxy", "max_retry_count"}

given(cli, options) == {f \in options : cli[f] # <<>>}

ServerConflicts ==
    {{"tls_self_signed", f} : f \in {"insecure", "tls_cert", "tls_key", "tls_ca"}}
    \cup {{"insecure", f} : f \in {"tls_cert", "tls_ca"}}
    \cup {{"admin_socket", "no_admin_socket"}}

ServerRequires ==
    {<<"tls_state_dir", "tls_self_signed">>, <<"tls_cert", "tls_key">>,
     <<"tls_key", "tls_cert">>, <<"tls_ca", "tls_cert">>}

ClientConflicts ==
    {{"tls_fingerprint", "insecure"}, {"tls_fingerprint", "tls_ca"}, {"tls_ca", "insecure"}}

ClientRequires ==
    {<<"tls_cert", "tls_key">>, <<"tls_cert", "tls_ca">>,
     <<"tls_key", "tls_cert">>, <<"tls_key", "tls_ca">>}

\* What clap lets through: no conflict among the options given, and every one they
\* require is given too, unless it conflicts with one that is.
ArgsOk(cli, conflicts, requires) ==
    LET g == given(cli, DOMAIN cli) IN
    /\ \A c \in conflicts : ~ c \subseteq g
    /\ \A r \in requires : r[1] \in g =>
          r[2] \in g \/ \E c \in conflicts : r[2] \in c /\ c \subseteq g \cup {r[2]}

-----------------------------------------------------------------------------
(* The command line and the file.                                          *)

\* Fault: every option is merged by itself.
merge_each(cli, file, flags, tls) == [f \in DOMAIN cli |-> or(cli[f], file[f])]

\* One TLS flag on the command line drops all TLS options of the file.
merge(cli, file, flags, tls) ==
    [f \in DOMAIN cli |->
        IF f \notin tls THEN or(cli[f], file[f])
        ELSE IF given(cli, flags) # {} THEN cli[f]
        ELSE or(file[f], cli[f])]

merge_server_with_file(cli, file) == merge(cli, file, ServerTlsFlags, ServerTlsOptions)

\* The file's server, remotes and proxy are parsed only when they are used.  The
\* server name is not among the flags: the file's is taken under any of them.
merge_client_with_file(cli, file) ==
    LET bad == \E f \in {"server", "remotes", "proxy"} : cli[f] = <<>> /\ file[f] = <<"bad">>
    IN  IF bad THEN Refused
        ELSE [result |-> "ok", options |-> merge(cli, file, ClientTlsFlags, ClientTlsFlags)]

-----------------------------------------------------------------------------
(* The TLS mode.                                                           *)

\* A mode and where its parts come from.
Tls(mode, parts) == [result |-> "ok", mode |-> mode, parts |-> parts]

Certified(mode, alone, cert, key, ca) ==
    IF ca # <<>> THEN Tls(mode, cert \o key \o ca) ELSE Tls(alone, cert \o key)

\* default_state_dir is in the home directory, if there is one.
SelfSigned(state_dir, home) ==
    LET dir == or(state_dir, home) IN
    IF dir = <<>> THEN Refused ELSE Tls("self_signed", dir)

resolve_server_tls(o, embedded) ==
    IF unwrap_or(o.insecure, FALSE) THEN Tls("insecure", <<>>)
    ELSE IF unwrap_or(o.tls_self_signed, FALSE)
    THEN SelfSigned(o.tls_state_dir, embedded.home)
    ELSE IF o.tls_cert # <<>> /\ o.tls_key # <<>>
    THEN Certified("mtls", "provided", o.tls_cert, o.tls_key, o.tls_ca)
    ELSE IF embedded.server_cert # <<>> /\ embedded.server_key # <<>>
    THEN Certified("mtls", "provided", embedded.server_cert, embedded.server_key, embedded.ca)
    ELSE Refused

Pinned(fingerprint) ==
    IF fingerprint = <<"bad">> THEN Refused ELSE Tls("fingerprint", fingerprint)

Trusting(ca, cert, key) ==
    IF cert # <<>> /\ key # <<>> THEN Tls("mtls", ca \o cert \o key) ELSE Tls("ca", ca)

ClientMode(o, embedded) ==
    IF unwrap_or(o.insecure, FALSE) THEN Tls("insecure", <<>>)
    ELSE IF o.tls_fingerprint # <<>> THEN Pinned(o.tls_fingerprint)
    ELSE IF o.tls_ca # <<>> THEN Trusting(o.tls_ca, o.tls_cert, o.tls_key)
    ELSE IF embedded.ca # <<>>
    THEN Trusting(embedded.ca, embedded.client_cert, embedded.client_key)
    ELSE IF embedded.fingerprint # <<>> THEN Pinned(embedded.fingerprint)
    ELSE Refused

\* Fault: a build's server name goes with its certificates only.
resolve_client_name_dropped(o, embedded) ==
    LET tls == ClientMode(o, embedded)
        name == IF o.tls_ca # <<>> THEN o.tls_server_name
                ELSE or(o.tls_server_name, embedded.server_name)
    IN  IF tls = Refused THEN Refused
        ELSE [result |-> "ok", mode |-> tls.mode, parts |-> tls.parts,
              server_name |-> IF tls.mode = "insecure" THEN <<>> ELSE name]

\* Every mode but insecure takes the server name along, or else the build's.
resolve_client_tls(o, embedded) ==
    LET tls == ClientMode(o, embedded)
        name == or(o.tls_server_name, embedded.server_name)
    IN  IF tls = Refused THEN Refused
        ELSE [result |-> "ok", mode |-> tls.mode, parts |-> tls.parts,
              server_name |-> IF tls.mode = "insecure" THEN <<>> ELSE name]

-----------------------------------------------------------------------------
(* The two branches of main.                                               *)

NoLimit == -1

server_main(cli, file, embedded) ==
    LET o == merge_server_with_file(cli, file)
        tls == resolve_server_tls(o, embedded)
        max == unwrap_or(o.max_connections, 0)
    IN  IF tls = Refused THEN Refused
        ELSE [result |-> "ok", tls |-> tls, port |-> unwrap_or(o.port, "default"),
              max_connections |-> IF max = 0 THEN NoLimit ELSE max,
              admin_socket |-> IF unwrap_or(o.no_admin_socket, FALSE) THEN <<>>
                               ELSE or(o.admin_socket, <<"default">>)]

\* Fault: the count is cut to its width.
max_retries_wrapped(raw) ==
    IF raw < 0 THEN <<NoLimit>> ELSE <<raw % (U32Max + 1)>>

max_retries_from_cli(raw) ==
    IF raw < 0 THEN <<NoLimit>> ELSE IF raw > U32Max THEN <<>> ELSE <<raw>>

\* In the order of the code: the merge, the server, the remotes, TLS, the count.
client_main(cli, file, embedded) ==
    LET merged == merge_client_with_file(cli, file) IN
    IF merged = Refused THEN Refused
    ELSE LET o == merged.options
             tls == resolve_client_tls(o, embedded)
             max == max_retries_from_cli(unwrap_or(o.max_retry_count, -1))
         IN  IF \/ o.server = <<>>
                \/ o.remotes \in {<<>>, <<"empty">>}
                \/ tls = Refused
                \/ max = <<>>
             THEN Refused
             ELSE [result |-> "ok", tls |-> tls, server |-> o.server[1],
                   remotes |-> o.remotes[1], proxy |-> o.proxy, max_retries |-> max[1]]

-----------------------------------------------------------------------------
(* The order in which a server's addresses are tried.  An address is       *)
(* <<family, number>>.                                                     *)

OfFamily(addrs, family) == SelectSeq(addrs, LAMBDA a : a[1] = family)

\* Fault: the addresses stay in the order of the resolver.
keep_resolver_order(resolved) == resolved


\* One of each family in turn, v6 first, then the rest of the longer list.
interleave_address_families(resolved) ==
    LET v4 == OfFamily(resolved, 4)
        v6 == OfFamily(resolved, 6)
        both == IF Len(v4) < Len(v6) THEN Len(v4) ELSE Len(v6)
        longer == IF Len(v4) < Len(v6) THEN v6 ELSE v4
    IN  [k \in DOMAIN resolved |->
            IF k > 2 * both THEN longer[k - both]
            ELSE IF k % 2 = 1 THEN v6[(k + 1) \div 2]
            ELSE v4[k \div 2]]
=============================================================================
