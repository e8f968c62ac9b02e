-------------------------- MODULE ConnectionOptions --------------------------
(***************************************************************************)
(* ConnectionOptions::try_into (gel-dsn/src/gel/config.rs): the classic   *)
(* connection options turned into the explicit Params of the resolver.    *)
(* An option is present or absent; its text does not matter here, so a   *)
(* Params field records which option it came from and how it is read      *)
(* (Param::from_unparsed or Param::from_file).                         *)
(***************************************************************************)
CONSTANT None

(* The options try_into looks at, and some it only passes through. *)
Fields == {"dsn", "user", "password", "secret_key", "credentials",
           "credentials_file", "tls_ca", "tls_ca_file", "branch", "database"}
PassThrough == {"dsn", "user", "password", "secret_key", "branch", "database"}

Given(o, f) == f \in o

(* Param::from_unparsed / Param::from_file of an optional value. *)
FromUnparsed(o, f) == IF Given(o, f) THEN [src |-> f, how |-> "unparsed"] ELSE None
FromFile(o, f) == IF Given(o, f) THEN [src |-> f, how |-> "file"] ELSE None

(* Params::credentials: the credentials file, else the inline credentials. *)
Credentials(o) ==
    IF FromFile(o, "credentials_file") # None THEN FromFile(o, "credentials_file")
    ELSE FromUnparsed(o, "credentials")

(* Params::tls_ca: the inline CA, else the CA file. *)
TlsCa(o) ==
    IF FromUnparsed(o, "tls_ca") # None THEN FromUnparsed(o, "tls_ca")
    ELSE FromFile(o, "tls_ca_file")

Params(o) ==
    [f \in PassThrough \cup {"credentials", "tls_ca"} |->
        CASE f = "credentials" -> Credentials(o)
          [] f = "tls_ca" -> TlsCa(o)
          [] OTHER -> FromUnparsed(o, f)]

Ok(p) == [kind |-> "Ok", params |-> p, names |-> <<>>]
Err(k, names) == [kind |-> k, params |-> None, names |-> names]

(* try_into without the tls_ca / tls_ca_file check. *)
TryIntoNoCaCheck(o) ==
    CASE Given(o, "credentials") /\ Given(o, "credentials_file") ->
            Err("MultipleCompound", <<"CredentialsFile", "CredentialsFile">>)
      [] Given(o, "branch") /\ Given(o, "database") ->
            Err("ExclusiveOptions", <<"branch", "database">>)
      [] OTHER -> Ok(Params(o))

(* try_into: the three exclusivity checks in order, then the Params. *)
TryInto(o) ==
    CASE Given(o, "credentials") /\ Given(o, "credentials_file") ->
            Err("MultipleCompound", <<"CredentialsFile", "CredentialsFile">>)
      [] Given(o, "tls_ca") /\ Given(o, "tls_ca_file") ->
            Err("ExclusiveOptions", <<"tls_ca", "tls_ca_file">>)
      [] Given(o, "branch") /\ Given(o, "database") ->
            Err("ExclusiveOptions", <<"branch", "database">>)
      [] OTHER -> Ok(Params(o))

-----------------------------------------------------------------------------
VARIABLES opts, res

(* A caller fills in any of the pub fields of ConnectionOptions. *)
Init == opts \in SUBSET Fields /\ res = None

(* try_into(self) consumes the options: it runs once. *)
Convert == res = None /\ res' = TryInto(opts) /\ UNCHANGED opts

Next == Convert

Spec == Init /\ [][Next]_<<opts, res>>

-----------------------------------------------------------------------------
ExclusivePairs ==
    {{"credentials", "credentials_file"}, {"tls_ca", "tls_ca_file"},
     {"branch", "database"}}

(* spec.md 3: the three exclusive pairs are refused, and an accepted set  *)
(* of options reaches the Params whole: every option given is the source *)
(* of some Params field, so none is silently dropped by the precedence   *)
(* between inline and file-backed credentials and CA.                    *)
ExclusiveOrComplete ==
    res # None =>
        /\ (res.kind = "Ok") <=> (\A pair \in ExclusivePairs : ~(pair \subseteq opts))
        /\ res.kind = "Ok" =>
              \A f \in opts : \E g \in DOMAIN res.params :
                    res.params[g] # None /\ res.params[g].src = f

(* spec.md 4.5: a MultipleCompound error names the conflicting compound  *)
(* sources, here the inline credentials and the credentials file.        *)
MultipleCompoundNamesBoth ==
    res # None /\ res.kind = "MultipleCompound" => res.names[1] # res.names[2]
=============================================================================
