--------------------------- MODULE ConnectionUrl ----------------------------
(***************************************************************************)
(* Connection URLs: ConnectionConfig::from_url and the parsers of          *)
(* config.rs.  A URL is written part by part, in the forms that            *)
(* docs/advanced/urls.md gives, and parsed at every point at which it is   *)
(* complete.                                                               *)
(*                                                                         *)
(* A text is a sequence of tokens: the separators the parser looks for,    *)
(* and names and numbers, which it never splits.  Numbers are the tokens   *)
(* that str::parse::<u16> accepts.                                         *)
(***************************************************************************)
EXTENDS Naturals, Sequences, SequencesExt

CONSTANTS
  Numbers,     \* tokens that are u16 numbers
  Passwords,   \* texts used as passwords
  Hosts,       \* hosts, as [text, host]: how they are written and what they are
  MaxHosts     \* bound on the hosts of a URL

VARIABLES
  scheme,      \* the scheme
  rest,        \* the text after "://"
  stage,       \* the part to be written next
  want         \* the configuration that the parts written so far describe

vars == <<scheme, rest, stage, want>>

None == <<"none">>

DEFAULT_PORT          == <<"6379">>
DEFAULT_SENTINEL_PORT == <<"26379">>
LOCALHOST             == <<"127.0.0.1">>

Schemes == {"redis", "rediss", "redis+sentinel", "redis+sentinels", "redis+cluster", "rediss+cluster"}

Topology(s) == CASE s \in {"redis", "rediss"}                   -> "standalone"
                 [] s \in {"redis+sentinel", "redis+sentinels"} -> "sentinel"
                 [] s \in {"redis+cluster", "rediss+cluster"}   -> "cluster"

Default == [username |-> None, password |-> None, db |-> <<"0">>, tls |-> FALSE,
            topology |-> "standalone", master |-> None, hosts |-> <<[host |-> LOCALHOST, port |-> DEFAULT_PORT]>>]

Err == [err |-> TRUE]

-----------------------------------------------------------------------------
(* str's split_once, rsplit_once, split and trim. *)

Cut(s, i) == IF i = 0 THEN None ELSE <<SubSeq(s, 1, i - 1), SubSeq(s, i + 1, Len(s))>>
split_once(s, c)  == Cut(s, SelectInSeq(s, LAMBDA t : t = c))
rsplit_once(s, c) == Cut(s, SelectLastInSeq(s, LAMBDA t : t = c))

split(s, c) == FoldLeft(LAMBDA acc, t : IF t = c THEN Append(acc, <<>>)
                                        ELSE [acc EXCEPT ![Len(acc)] = Append(@, t)], << <<>> >>, s)

trim(s) == SelectSeq(s, LAMBDA t : t # " ")

IsU16(s) == Len(s) = 1 /\ s[1] \in Numbers

-----------------------------------------------------------------------------
(* The parsers. *)

\* The part before the first slash, and what follows unless it is empty.
split_path(text) ==
  LET p == split_once(text, "/")
  IN IF p = None THEN <<text, None>> ELSE IF p[2] = <<>> THEN <<p[1], None>> ELSE p

\* user:pass, :pass, or a password alone.
parse_userinfo(config, userinfo) ==
  LET p    == split_once(userinfo, ":")
      user == IF p = None THEN <<>> ELSE p[1]
      pass == IF p = None THEN userinfo ELSE p[2]
  IN [config EXCEPT !.username = IF user = <<>> THEN @ ELSE user,
                    !.password = IF pass = <<>> THEN @ ELSE pass]

\* [ipv6]:port, host:port or host
parse_host_port(s, default_port) ==
  LET close == SelectInSeq(s, LAMBDA t : t = "]")
      after == SubSeq(s, close + 1, Len(s))
      hp    == rsplit_once(s, ":")
      Addr(h, p) == [host |-> IF h = <<>> THEN LOCALHOST ELSE h, port |-> p]
  IN IF s # <<>> /\ s[1] = "["
     THEN IF close = 0 THEN Err
          ELSE IF after = <<>> \/ after[1] # ":" THEN Addr(SubSeq(s, 2, close - 1), default_port)
          ELSE IF IsU16(Tail(after)) THEN Addr(SubSeq(s, 2, close - 1), Tail(after))
          ELSE Err
     ELSE IF hp = None THEN Addr(s, default_port)
     ELSE IF IsU16(hp[2]) THEN Addr(hp[1], hp[2])
     ELSE IF Contains(hp[1], ":") THEN Addr(s, default_port)
     ELSE Err

\* The addresses of a comma-separated list, empty ones left out.
HostList(text, default_port) ==
  LET parts == split(text, ",")
      addrs == SelectSeq([i \in DOMAIN parts |-> trim(parts[i])], LAMBDA a : a # <<>>)
  IN [i \in DOMAIN addrs |-> parse_host_port(addrs[i], default_port)]

\* No address, or an invalid one, is an error.
WithHosts(config, hosts) ==
  IF hosts = <<>> \/ Contains(hosts, Err) THEN Err ELSE [config EXCEPT !.hosts = hosts]

\* Mutant of parse_standalone_url: credentials end at the first "@".
parse_standalone_url_first(config, host_part) ==
  LET at == split_once(host_part, "@")
      hp == IF at = None THEN host_part ELSE at[2]
      c  == IF at = None THEN config ELSE parse_userinfo(config, at[1])
  IN WithHosts(c, <<parse_host_port(hp, DEFAULT_PORT)>>)

parse_standalone_url(config, host_part) ==
  LET at == rsplit_once(host_part, "@")
      hp == IF at = None THEN host_part ELSE at[2]
      c  == IF at = None THEN config ELSE parse_userinfo(config, at[1])
  IN WithHosts(c, <<parse_host_port(hp, DEFAULT_PORT)>>)

\* One "@" ends the master's name; with more, the first ends the credentials.
parse_sentinel_url(config, host_part) ==
  LET ats    == Len(SelectSeq(host_part, LAMBDA t : t = "@"))
      first  == split_once(host_part, "@")
      master == IF ats = 1 THEN first ELSE split_once(first[2], "@")
      c      == IF ats = 1 THEN config ELSE parse_userinfo(config, first[1])
  IN IF ats = 0 \/ master[1] = <<>> THEN Err
     ELSE WithHosts([c EXCEPT !.topology = "sentinel", !.master = master[1]],
                    HostList(master[2], DEFAULT_SENTINEL_PORT))

parse_cluster_url(config, host_part) ==
  LET at    == rsplit_once(host_part, "@")
      hosts == IF at = None THEN host_part ELSE at[2]
      c     == IF at = None THEN config ELSE parse_userinfo(config, at[1])
  IN WithHosts([c EXCEPT !.topology = "cluster"], HostList(hosts, DEFAULT_PORT))

\* The parsers share their treatment of /db, which comes first.
from_url(sch, text) ==
  LET path == split_path(text)
      db   == IF path[2] = None THEN Default.db ELSE path[2]
      c    == [Default EXCEPT !.db = db, !.tls = sch \in {"rediss", "redis+sentinels", "rediss+cluster"}]
  IN IF ~IsU16(db) THEN Err
     ELSE CASE Topology(sch) = "standalone" -> parse_standalone_url(c, path[1])
            [] Topology(sch) = "sentinel"   -> parse_sentinel_url(c, path[1])
            [] Topology(sch) = "cluster"    -> parse_cluster_url(c, path[1])

-----------------------------------------------------------------------------
(* Writing a URL. *)

Init == /\ scheme \in Schemes
        /\ rest = <<>>
        /\ stage = "userinfo"
        /\ want = [Default EXCEPT !.topology = Topology(scheme), !.hosts = <<>>,
                                  !.tls = scheme \in {"rediss", "redis+sentinels", "rediss+cluster"}]

\* [username:password@] or [:password@]; in a sentinel URL "@" is not allowed
\* in a password, since it would end the credentials.
WriteUserinfo ==
  /\ stage = "userinfo"
  /\ \E user \in {<<>>, <<"user">>}, pass \in Passwords :
       /\ Topology(scheme) = "sentinel" => ~Contains(pass, "@")
       /\ rest' = user \o <<":">> \o pass \o <<"@">>
       /\ want' = [want EXCEPT !.username = IF user = <<>> THEN None ELSE user, !.password = pass]
  /\ stage' = IF Topology(scheme) = "sentinel" THEN "master" ELSE "host"
  /\ UNCHANGED scheme

WriteMaster ==
  /\ Topology(scheme) = "sentinel"
  /\ stage \in {"userinfo", "master"}
  /\ rest' = rest \o <<"mymaster", "@">>
  /\ want' = [want EXCEPT !.master = <<"mymaster">>]
  /\ stage' = "host"
  /\ UNCHANGED scheme

\* host[:port], and more of them in a list
WriteHost ==
  /\ stage \in {"host", "tail"} \/ (stage = "userinfo" /\ Topology(scheme) # "sentinel")
  /\ Len(want.hosts) < IF Topology(scheme) = "standalone" THEN 1 ELSE MaxHosts
  /\ \E h \in Hosts, port \in {None, <<"6380">>}, sep \in {<<",">>, <<",", " ">>} :
       /\ Topology(scheme) # "standalone" => h.text # <<>>
       /\ h.bare => port = None
       /\ rest' = rest \o (IF want.hosts = <<>> THEN <<>> ELSE sep) \o h.text
                       \o (IF port = None THEN <<>> ELSE <<":">> \o port)
       /\ want' = [want EXCEPT !.hosts = Append(@, [host |-> h.host, port |->
                     IF port # None THEN port
                     ELSE IF Topology(scheme) = "sentinel" THEN DEFAULT_SENTINEL_PORT ELSE DEFAULT_PORT])]
  /\ stage' = "tail"
  /\ UNCHANGED scheme

WriteDb ==
  /\ stage = "tail"
  /\ \E db \in {<<>>, <<"1">>} :
       /\ rest' = rest \o <<"/">> \o db
       /\ want' = [want EXCEPT !.db = IF db = <<>> THEN @ ELSE db]
  /\ stage' = "done"
  /\ UNCHANGED scheme

Next == WriteUserinfo \/ WriteMaster \/ WriteHost \/ WriteDb

Spec == Init /\ [][Next]_vars

-----------------------------------------------------------------------------
(* A URL written in a documented form is accepted, and every part of it ends
   up in its own field: passwords with ":" or "@" in them, bracketed IPv6
   addresses, lists of hosts and the defaults of the parts left out. *)
UrlRoundTrip == stage \in {"tail", "done"} => from_url(scheme, rest) = want

=============================================================================
