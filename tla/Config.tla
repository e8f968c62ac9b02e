------------------------------- MODULE Config -------------------------------
(***************************************************************************)
(* The connection configuration of gel-dsn (gel-dsn/src/gel/config.rs).    *)
(*                                                                         *)
(* The state is one Config value, built from Config::default() by the     *)
(* builder calls (with_host, with_db, with_branch, with_user,              *)
(* with_password, with_wait_until_available, with_tls_ca) and by writes   *)
(* of its public fields (authentication, tls_security, tls_server_name,   *)
(* cloud_certs). The queries to_tls, dsn_url and as_credentials are       *)
(* operators of that state; the properties relate what they return to    *)
(* the config and to spec.md.                                              *)
(*                                                                         *)
(* Host text is a sequence of tokens: a token is a run of letters or      *)
(* digits, or one punctuation character, so a string rewrite on ':' and   *)
(* '%' and a starts_with('-') test are modelled token by token. A URL is  *)
(* a record of its components, and the url crate's setters keep their    *)
(* failure cases, which dsn_url discards with `_ =`.                      *)
(***************************************************************************)
EXTENDS Naturals, Sequences, SequencesExt, Pem

CONSTANTS
    Hosts,          \* host inputs: [kind, text]; kind name | ip4 | ip6 | unix | bad
    Localhost,      \* the DEFAULT_HOST value, text LOCALHOST_HOSTNAME
    Ports,          \* port inputs of with_host
    DbNames,        \* database and branch names
    Users,          \* user names; contains DefaultUser
    DefaultUser,    \* DEFAULT_USER
    Passwords, SecretKeys, ServerNames, CAs, Clouds,
    Waits,          \* wait_until_available values; contains DefaultWait
    DefaultWait,    \* DEFAULT_WAIT
    DefaultTlsSecurity, \* the tls_security a DSN without the parameter yields
    None            \* Option::None

DEFAULT_PORT == 5656
LOCALHOST_HOSTNAME == Localhost.text
DEFAULT_DATABASE_NAME == "edgedb"
DEFAULT_BRANCH_NAME_CONNECT == "__default__"

TlsSecurities == {"Insecure", "NoHostVerification", "Strict", "Default"}

(* DatabaseBranch; Default carries the empty name. *)
DefaultDb == [kind |-> "Default", name |-> ""]
DbBranches ==
    {DefaultDb} \cup [kind : {"Database", "Branch", "Ambiguous"}, name : DbNames]

(* DatabaseBranch::database and ::branch_for_connect: every named variant *)
(* yields its name; Default yields the default database or the sentinel. *)
Database(db) == IF db.kind = "Default" THEN DEFAULT_DATABASE_NAME ELSE db.name
BranchForConnect(db) ==
    IF db.kind = "Default" THEN DEFAULT_BRANCH_NAME_CONNECT ELSE db.name

(* Authentication and its password() / secret_key() accessors. *)
NoAuth == [kind |-> "None", secret |-> ""]
Auths == {NoAuth} \cup [kind : {"Password"}, secret : Passwords]
                  \cup [kind : {"SecretKey"}, secret : SecretKeys]
Password(a) == IF a.kind = "Password" THEN a.secret ELSE None
SecretKey(a) == IF a.kind = "SecretKey" THEN a.secret ELSE None

ValidHosts == {h \in Hosts \cup {Localhost} : h.kind # "bad"}

Configs == [host : ValidHosts, port : Ports, db : DbBranches, user : Users,
            auth : Auths, tls_security : TlsSecurities,
            tls_ca : {None} \cup CAs, tls_server_name : {None} \cup ServerNames,
            wait : Waits, cloud_certs : {None} \cup Clouds]

(* Config::default() *)
DefaultConfig ==
    [host |-> Localhost, port |-> DEFAULT_PORT, db |-> DefaultDb,
     user |-> DefaultUser, auth |-> NoAuth, tls_security |-> "Strict",
     tls_ca |-> None, tls_server_name |-> None, wait |-> DefaultWait,
     cloud_certs |-> None]

(* host.target_name()?.tcp(): the host text and port, or None for Unix. *)
Tcp(c) == IF c.host.kind = "unix" THEN None ELSE [text |-> c.host.text, port |-> c.port]

-----------------------------------------------------------------------------
(* to_tls *)

(* The root certificates: a pinned CA, else Webpki plus the cloud roots, *)
(* else Webpki.                                                          *)
RootCert(c) ==
    IF c.tls_ca # None THEN [kind |-> "Custom", certs |-> c.tls_ca]
    ELSE IF c.cloud_certs # None THEN [kind |-> "WebpkiPlus", certs |-> c.cloud_certs]
    ELSE [kind |-> "Webpki", certs |-> None]

(* Config::tls_ca_pem: the pinned certificates as PEM text. *)
TlsCaPem(c) == IF c.tls_ca = None THEN None ELSE ToPem(c.tls_ca)

ServerCertVerify(c) ==
    CASE c.tls_security = "Insecure" -> "Insecure"
      [] c.tls_security = "NoHostVerification" -> "IgnoreHostname"
      [] c.tls_security \in {"Strict", "Default"} -> "VerifyFull"

HostForIp == <<".", "host-for-ip", ".", "edgedb", ".", "net">>

(* format!("{ip}.host-for-ip.edgedb.net"), then replace([':', '%'], "-"),  *)
(* then an "i" prefix when the result starts with '-'.                    *)
SniNoPrefix(c) ==
    IF c.tls_server_name # None THEN <<c.tls_server_name>>
    ELSE IF c.host.kind = "unix" THEN None
    ELSE IF c.host.kind \in {"ip4", "ip6"}
         THEN LET s == c.host.text \o HostForIp
              IN [i \in DOMAIN s |-> IF s[i] \in {":", "%"} THEN "-" ELSE s[i]]
         ELSE c.host.text
Sni(c) ==
    IF c.tls_server_name # None THEN <<c.tls_server_name>>
    ELSE IF c.host.kind = "unix" THEN None
    ELSE IF c.host.kind \in {"ip4", "ip6"}
         THEN LET s == c.host.text \o HostForIp
                  r == [i \in DOMAIN s |-> IF s[i] \in {":", "%"} THEN "-" ELSE s[i]]
              IN IF r[1] = "-" THEN <<"i">> \o r ELSE r
         ELSE c.host.text

ToTls(c) ==
    [root_cert |-> RootCert(c), server_cert_verify |-> ServerCertVerify(c),
     alpn |-> <<"edgedb-binary", "gel-binary">>, sni_override |-> Sni(c)]

-----------------------------------------------------------------------------
(* dsn_url, over a URL record and the url crate's setters *)

EmptyUrl == [host |-> None, port |-> None, path |-> None, user |-> "",
             password |-> None, query |-> <<>>]

(* set_host parses an opaque host for the gel: scheme, which forbids ':'; *)
(* set_port, set_username and set_password fail on a URL with no host.   *)
SetHost(u, t) == IF ":" \in Range(t) THEN u ELSE [u EXCEPT !.host = t]
SetPort(u, p) == IF u.host = None THEN u ELSE [u EXCEPT !.port = p]
SetUsername(u, n) == IF u.host = None THEN u ELSE [u EXCEPT !.user = n]
SetPassword(u, pw) == IF u.host = None THEN u ELSE [u EXCEPT !.password = pw]
SetPath(u, n) == [u EXCEPT !.path = n]
AppendPair(u, k, v) == [u EXCEPT !.query = Append(@, <<k, v>>)]

(* The host and port: the authority for a non-local host, a port query  *)
(* parameter for localhost on a non-default port.                        *)
DsnHost(c) ==
    LET t == Tcp(c) IN
    IF t.text # LOCALHOST_HOSTNAME
    THEN IF t.port # DEFAULT_PORT THEN SetPort(SetHost(EmptyUrl, t.text), t.port)
         ELSE SetHost(EmptyUrl, t.text)
    ELSE IF t.port # DEFAULT_PORT THEN AppendPair(EmptyUrl, "port", t.port)
    ELSE EmptyUrl

(* The path: database() then branch_for_connect(), for a non-default    *)
(* DatabaseBranch.                                                       *)
DsnPathUnguarded(c, u) == SetPath(SetPath(u, Database(c.db)), BranchForConnect(c.db))
DsnPath(c, u) ==
    IF c.db = DefaultDb THEN u
    ELSE SetPath(SetPath(u, Database(c.db)), BranchForConnect(c.db))

(* The user and password: in the authority when the URL has a host, else *)
(* as query parameters.                                                   *)
DsnUserinfo(c, u) ==
    LET u1 == IF c.user = DefaultUser THEN u
              ELSE IF u.host = None THEN AppendPair(u, "user", c.user)
              ELSE SetUsername(u, c.user)
    IN IF Password(c.auth) = None THEN u1
       ELSE IF u1.host = None THEN AppendPair(u1, "password", Password(c.auth))
       ELSE SetPassword(u1, Password(c.auth))

(* The remaining query parameters, in the order dsn_url appends them. *)
DsnQuery(c, u) ==
    LET u1 == IF c.tls_ca = None THEN u ELSE AppendPair(u, "tls_ca_file", "<...>")
        u2 == IF SecretKey(c.auth) = None THEN u1
              ELSE AppendPair(u1, "secret_key", SecretKey(c.auth))
        u3 == IF c.tls_security = "Strict" THEN u2
              ELSE AppendPair(u2, "tls_security", c.tls_security)
        u4 == IF c.tls_server_name = None THEN u3
              ELSE AppendPair(u3, "tls_server_name", c.tls_server_name)
    IN IF c.wait = DefaultWait THEN u4
       ELSE AppendPair(u4, "wait_until_available", c.wait)

(* dsn_url: None for a Unix host. *)
DsnUrl(c) ==
    IF Tcp(c) = None THEN None
    ELSE DsnQuery(c, DsnUserinfo(c, DsnPath(c, DsnHost(c))))

(* as_credentials: NoTcpAddress for a Unix host; NonZero::new(port)     *)
(* .expect(..) panics on port 0.                                         *)
AsCredentials(c) ==
    CASE Tcp(c) = None -> [result |-> "NoTcpAddress", file |-> None]
      [] c.port = 0 -> [result |-> "panic", file |-> None]
      [] OTHER -> [result |-> "Ok",
                   file |-> [user |-> c.user, host |-> c.host.text, port |-> c.port,
                             password |-> Password(c.auth), secret_key |-> SecretKey(c.auth),
                             database |-> Database(c.db), branch |-> BranchForConnect(c.db),
                             tls_ca |-> c.tls_ca, tls_security |-> c.tls_security,
                             tls_server_name |-> c.tls_server_name]]

-----------------------------------------------------------------------------
(* The DSN parser, from the DSN grammar of spec.md 6: the authority    *)
(* first, then the query parameters; a path names an ambiguous database  *)
(* or branch; an absent field takes its default. The CA file parameter   *)
(* names no CA material and is dropped.                                  *)

HasKey(u, k) == \E i \in DOMAIN u.query : u.query[i][1] = k
KeyVal(u, k) == u.query[CHOOSE i \in DOMAIN u.query : u.query[i][1] = k][2]
QueryOr(u, k, d) == IF HasKey(u, k) THEN KeyVal(u, k) ELSE d

ParseDsn(u) ==
    LET text == IF u.host = None THEN LOCALHOST_HOSTNAME ELSE u.host
        pw == IF u.password # None THEN u.password ELSE QueryOr(u, "password", None)
        sk == QueryOr(u, "secret_key", None)
    IN [host |-> CHOOSE h \in ValidHosts : h.text = text,
        port |-> IF u.port # None THEN u.port ELSE QueryOr(u, "port", DEFAULT_PORT),
        db |-> CASE u.path # None -> [kind |-> "Ambiguous", name |-> u.path]
                 [] HasKey(u, "database") -> [kind |-> "Database", name |-> KeyVal(u, "database")]
                 [] HasKey(u, "branch") -> [kind |-> "Branch", name |-> KeyVal(u, "branch")]
                 [] OTHER -> DefaultDb,
        user |-> IF u.user # "" THEN u.user ELSE QueryOr(u, "user", DefaultUser),
        auth |-> CASE pw # None -> [kind |-> "Password", secret |-> pw]
                   [] sk # None -> [kind |-> "SecretKey", secret |-> sk]
                   [] OTHER -> NoAuth,
        tls_security |-> QueryOr(u, "tls_security", DefaultTlsSecurity),
        tls_ca |-> None,
        tls_server_name |-> QueryOr(u, "tls_server_name", None),
        wait |-> QueryOr(u, "wait_until_available", DefaultWait),
        cloud_certs |-> None]

(* The name the handshake sends for a DatabaseBranch (spec.md 4.5): the *)
(* branch on protocol 2 and later, the database before.                 *)
ConnectName(db, proto) == IF proto >= 2 THEN BranchForConnect(db) ELSE Database(db)

-----------------------------------------------------------------------------
VARIABLE cfg

Init == cfg = DefaultConfig

(* with_host: HostType::from_str(host)? then a new Host. *)
WithHostUnchecked(h, p) == cfg' = [cfg EXCEPT !.host = h, !.port = p]
WithHost(h, p) ==
    /\ h.kind # "bad"
    /\ cfg' = [cfg EXCEPT !.host = h, !.port = p]

WithDb(d) == cfg' = [cfg EXCEPT !.db = d]
WithBranch(n) == cfg' = [cfg EXCEPT !.db = [kind |-> "Branch", name |-> n]]
WithUser(n) == cfg' = [cfg EXCEPT !.user = n]
WithPassword(pw) == cfg' = [cfg EXCEPT !.auth = [kind |-> "Password", secret |-> pw]]
WithWaitUntilAvailable(w) == cfg' = [cfg EXCEPT !.wait = w]
WithTlsCa(ca) == cfg' = [cfg EXCEPT !.tls_ca = ca]

(* Writes of the public fields that have no builder. *)
SetSecretKey(k) == cfg' = [cfg EXCEPT !.auth = [kind |-> "SecretKey", secret |-> k]]
SetTlsSecurity(s) == cfg' = [cfg EXCEPT !.tls_security = s]
SetTlsServerName(n) == cfg' = [cfg EXCEPT !.tls_server_name = n]
SetCloudCerts(x) == cfg' = [cfg EXCEPT !.cloud_certs = x]

Next ==
    \/ \E h \in Hosts, p \in Ports : WithHost(h, p)
    \/ \E d \in DbBranches : WithDb(d)
    \/ \E n \in DbNames : WithBranch(n)
    \/ \E n \in Users : WithUser(n)
    \/ \E pw \in Passwords : WithPassword(pw)
    \/ \E w \in Waits : WithWaitUntilAvailable(w)
    \/ \E ca \in CAs : WithTlsCa(ca)
    \/ \E k \in SecretKeys : SetSecretKey(k)
    \/ \E s \in TlsSecurities : SetTlsSecurity(s)
    \/ \E n \in {None} \cup ServerNames : SetTlsServerName(n)
    \/ \E x \in {None} \cup Clouds : SetCloudCerts(x)

Spec == Init /\ [][Next]_cfg

-----------------------------------------------------------------------------
(* Properties *)

(* Every reachable Config holds a host that HostType::from_str accepted. *)
TypeOK == cfg \in Configs

(* The verify mode spec.md 4.1 gives each tls_security: Default is       *)
(* VerifyFull unless a pinned certificate is present, then               *)
(* IgnoreHostname; the TlsSecurity::Default doc comment says the same.   *)
SpecVerify(c) ==
    IF c.tls_security = "Default"
    THEN IF c.tls_ca # None THEN "IgnoreHostname" ELSE "VerifyFull"
    ELSE ServerCertVerify(c)

(* The SNI to_tls presents is the tls_server_name override when set;    *)
(* otherwise, for an IP host, a DNS name under host-for-ip.edgedb.net   *)
(* with no ':' or '%' and no leading '-'; otherwise the host name.       *)
SniIsDnsName ==
    LET sni == Sni(cfg) IN
    CASE cfg.tls_server_name # None -> sni = <<cfg.tls_server_name>>
      [] cfg.host.kind \in {"ip4", "ip6"} ->
            /\ Range(sni) \cap {":", "%"} = {}
            /\ sni[1] # "-"
            /\ IsSuffix(HostForIp, sni)
      [] cfg.host.kind = "unix" -> sni = None
      [] OTHER -> sni = cfg.host.text

(* Exactly the spec's verify mode (spec.md 4.1, TlsSecurity::Default).  *)
VerifyModeAsSpecified == ToTls(cfg).server_cert_verify = SpecVerify(cfg)

(* The DSN fields of spec.md 8 that survive parse(dsn_url(c)): host,    *)
(* port, the database or branch each protocol version connects to, user, *)
(* authentication, verify mode, server name and wait.                    *)
RoundTrips(c) ==
    LET c2 == ParseDsn(DsnUrl(c)) IN
    /\ c2.host = c.host
    /\ c2.port = c.port
    /\ \A proto \in {1, 2} : ConnectName(c2.db, proto) = ConnectName(c.db, proto)
    /\ c2.user = c.user
    /\ c2.auth = c.auth
    /\ ServerCertVerify(c2) = ServerCertVerify(c)
    /\ c2.tls_server_name = c.tls_server_name
    /\ c2.wait = c.wait

(* spec.md 8: dsn_url() of a TCP config parses back to the same config,  *)
(* for host names and IPv4 hosts; IPv6 hosts are DsnRoundTripIpv6.       *)
DsnRoundTrip ==
    Tcp(cfg) # None /\ cfg.host.kind # "ip6" => RoundTrips(cfg)

(* spec.md 8, for an IPv6 host: dsn_url() passes the unbracketed address *)
(* to Url::set_host, and the same round trip must hold.                  *)
DsnRoundTripIpv6 ==
    Tcp(cfg) # None /\ cfg.host.kind = "ip6" => RoundTrips(cfg)

(* tls_ca_pem never panics in to_pem's encode_slice(..).unwrap() and     *)
(* gives text that, read as strict RFC 7468 PEM, is exactly the pinned   *)
(* certificates: the buffer sized len * 4 / 3 + 4 holds every encoding, *)
(* it is truncated to what was written, and lines break at 64 digits.   *)
TlsCaPemRoundTrip ==
    cfg.tls_ca # None =>
        /\ TlsCaPem(cfg).ok
        /\ ParsePem(TlsCaPem(cfg).pem) = [ok |-> TRUE, certs |-> cfg.tls_ca]

(* as_credentials returns a credentials file or NoTcpAddress for every   *)
(* Config; spec.md 6 has credentials ports non-zero, and it never      *)
(* panics.                                                               *)
AsCredentialsTotal == AsCredentials(cfg).result # "panic"

=============================================================================
