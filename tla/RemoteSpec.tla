----------------------------- MODULE RemoteSpec -----------------------------
(***************************************************************************)
(* The parser of remotes (common/remote.rs) and the order of a server's    *)
(* addresses (main.rs).  A text is a sequence of lexical atoms: the        *)
(* separators and brackets, and words.  A word that is a port is a number  *)
(* of Ports; the host of an address is a sequence of atoms.                *)
(***************************************************************************)
EXTENDS Integers, Sequences

CONSTANTS
    Ports,  \* words that parse as a port, with their number: word -> 0..65535
    Ips     \* texts that parse as an IP address

Failed == [result |-> "error"]

ANY_V4 == <<"0.0.0.0">>

LOCALHOST == <<"127.0.0.1">>

SOCKS == <<"socks">>

STDIO == <<"stdio">>

Bracketed(s) == Len(s) >= 2 /\ s[1] = "[" /\ s[Len(s)] = "]"

unbracket(s) == IF Bracketed(s) THEN SubSeq(s, 2, Len(s) - 1) ELSE s

IsPort(token) == Len(token) = 1 /\ token[1] \in DOMAIN Ports

parse_port(token) == Ports[token[1]]

IsIp(token) == unbracket(token) \in Ips

-----------------------------------------------------------------------------
(* split_addr_tokens.                                                      *)

\* The first position at or after i that holds the atom, or Len(s) + 1.
Position(s, i, atom) ==
    LET found == {j \in i .. Len(s) : s[j] = atom} IN
    IF found = {} THEN Len(s) + 1 ELSE CHOOSE j \in found : \A k \in found : j <= k

\* Fault: a bracket is a character like any other.
TokenEndAtColon(s, i) == Position(s, i, ":") - 1

\* The last position of the token that starts at i: its closing bracket, or the one
\* in front of the next ':'.
TokenEnd(s, i) ==
    IF s[i] = "[" THEN Position(s, i + 1, "]") ELSE Position(s, i, ":") - 1

\* The tokens from each position on.  A token is followed by a ':' that is not the
\* last atom, or by the end.
Scan(s) ==
    LET scan[i \in 1 .. Len(s) + 1] ==
            IF i > Len(s) THEN [result |-> "ok", tokens |-> <<>>]
            ELSE LET last == TokenEnd(s, i)
                     token == SubSeq(s, i, last)
                     rest == scan[last + 2]
                 IN  IF last > Len(s) THEN Failed
                     ELSE IF last = Len(s) THEN [result |-> "ok", tokens |-> <<token>>]
                     ELSE IF s[last + 1] # ":" \/ last + 1 = Len(s) \/ rest = Failed
                     THEN Failed
                     ELSE [result |-> "ok", tokens |-> <<token>> \o rest.tokens]
    IN  scan

split_addr_tokens(s) == Scan(s)[1]

-----------------------------------------------------------------------------
(* from_str.                                                               *)

Tunnel(kind, lhost, lport, rhost, rport) ==
    [result |-> "ok", kind |-> kind, local |-> <<lhost, lport>>, remote |-> <<rhost, rport>>]

Socks5(lhost, lport) ==
    [result |-> "ok", kind |-> "socks5", local |-> <<lhost, lport>>, remote |-> <<>>]

parse_one_token(t, kind) ==
    IF t[1] = SOCKS THEN Socks5(LOCALHOST, 1080)
    ELSE IF ~ IsPort(t[1]) THEN Failed
    ELSE Tunnel(kind, ANY_V4, parse_port(t[1]), ANY_V4, parse_port(t[1]))

parse_two_tokens(t, kind) ==
    IF t[2] = SOCKS
    THEN IF IsPort(t[1]) THEN Socks5(LOCALHOST, parse_port(t[1])) ELSE Failed
    ELSE IF ~ IsPort(t[2]) THEN Failed
    ELSE Tunnel(kind, ANY_V4, parse_port(t[2]), unbracket(t[1]), parse_port(t[2]))

\* Fault: the listener takes the remote port.
parse_three_swapped(t, kind) ==
    IF t[3] = SOCKS
    THEN IF IsIp(t[1]) /\ IsPort(t[2]) THEN Socks5(unbracket(t[1]), parse_port(t[2]))
         ELSE Failed
    ELSE IF ~ (IsPort(t[1]) /\ IsPort(t[3])) THEN Failed
    ELSE Tunnel(kind, ANY_V4, parse_port(t[3]), unbracket(t[2]), parse_port(t[3]))

parse_three_tokens(t, kind) ==
    IF t[3] = SOCKS
    THEN IF IsIp(t[1]) /\ IsPort(t[2]) THEN Socks5(unbracket(t[1]), parse_port(t[2]))
         ELSE Failed
    ELSE IF ~ (IsPort(t[1]) /\ IsPort(t[3])) THEN Failed
    ELSE Tunnel(kind, ANY_V4, parse_port(t[1]), unbracket(t[2]), parse_port(t[3]))

parse_four_tokens(t, kind) ==
    IF ~ (IsIp(t[1]) /\ IsPort(t[2]) /\ IsPort(t[4])) THEN Failed
    ELSE Tunnel(kind, unbracket(t[1]), parse_port(t[2]), unbracket(t[3]), parse_port(t[4]))

tokens_to_kind(t, kind) ==
    CASE Len(t) = 1 -> parse_one_token(t, kind)
      [] Len(t) = 2 -> parse_two_tokens(t, kind)
      [] Len(t) = 3 -> parse_three_tokens(t, kind)
      [] Len(t) = 4 -> parse_four_tokens(t, kind)
      [] OTHER -> Failed

tokens_to_stdio_kind(t, kind) ==
    IF \E k \in DOMAIN t : t[k] = SOCKS THEN Failed
    ELSE CASE Len(t) = 1 /\ IsPort(t[1]) ->
                Tunnel(kind, ANY_V4, 0, LOCALHOST, parse_port(t[1]))
           [] Len(t) = 2 /\ IsPort(t[2]) ->
                Tunnel(kind, ANY_V4, 0, unbracket(t[1]), parse_port(t[2]))
           [] OTHER -> Failed

\* "R:" in front, and something behind it.
parse_direction(s) ==
    IF Len(s) >= 2 /\ s[1] = "R" /\ s[2] = ":"
    THEN IF Len(s) = 2 THEN Failed
         ELSE [result |-> "ok", reverse |-> TRUE, rest |-> SubSeq(s, 3, Len(s))]
    ELSE IF s = <<"R">> THEN Failed
    ELSE [result |-> "ok", reverse |-> FALSE, rest |-> s]

\* The text behind the last '/', if there is one, has to be a protocol.
parse_protocol(s) ==
    LET slashes == {j \in DOMAIN s : s[j] = "/"} IN
    IF slashes = {} THEN [result |-> "ok", kind |-> "tcp", body |-> s]
    ELSE LET cut == CHOOSE j \in slashes : \A k \in slashes : k <= j
             suffix == SubSeq(s, cut + 1, Len(s))
         IN  IF suffix \notin {<<"tcp">>, <<"udp">>} THEN Failed
             ELSE [result |-> "ok", kind |-> suffix[1], body |-> SubSeq(s, 1, cut - 1)]

from_str(s) ==
    LET direction == parse_direction(s) IN
    IF direction = Failed THEN Failed
    ELSE LET protocol == parse_protocol(direction.rest) IN
    IF protocol = Failed THEN Failed
    ELSE LET split == split_addr_tokens(protocol.body) IN
    IF split = Failed THEN Failed
    ELSE LET stdio == split.tokens # <<>> /\ split.tokens[1] = STDIO
             kind == IF stdio THEN tokens_to_stdio_kind(Tail(split.tokens), protocol.kind)
                     ELSE tokens_to_kind(split.tokens, protocol.kind)
         IN  IF (stdio /\ direction.reverse) \/ kind = Failed THEN Failed
             ELSE [result |-> "ok", reverse |-> direction.reverse, stdio |-> stdio,
                   kind |-> kind.kind, local |-> kind.local, remote |-> kind.remote]
=============================================================================
