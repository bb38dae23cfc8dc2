---------------------------- MODULE MCCommandLine ----------------------------
(* CommandLine with a token of four keys and one that has none of them     *)
(* under the same references, and invocations that differ from a complete  *)
(* one in an option or two.                                                *)
EXTENDS CommandLine, TLC

MCToken ==
  [t1 |-> [label |-> "Signer", pin |-> "right",
           keys |-> <<[id |-> <<1>>, object |-> "a", alg |-> "gost256"],
                      [id |-> <<2>>, object |-> "b", alg |-> "rsa"],
                      [id |-> <<2>>, object |-> "c", alg |-> "ecdsa"],
                      [id |-> <<3>>, object |-> "d", alg |-> "gost512"]>>],
   t2 |-> [label |-> "Other", pin |-> "theirs",
           keys |-> <<[id |-> <<1>>, object |-> "e", alg |-> "gost512"]>>]]

MCPorts == {<<"t1", "t2">>, <<Empty, "t2">>, <<"t2", "t1">>}

Uri == [scheme |-> "pkcs11", slot |-> Free, token |-> "Signer", id |-> <<1>>, object |-> Free]

Rutoken == [scheme |-> "rutoken", slot |-> Free, token |-> Free, id |-> <<1>>, object |-> Free]

Sign == [input |-> "in", output |-> "dir"] @@ ("cert" :> "file") @@ ("key-uri" :> Uri)
        @@ ("pkcs11-module" :> "module") @@ ("pin-env" :> "PIN")

OverCcid == ("key-uri" :> Rutoken) @@ ("transport" :> "ccid")

Without(g, o) == [x \in DOMAIN g \ {o} |-> g[x]]

\* Variations of a complete command line to sign.
SignOptions ==
  {Sign}
  \cup {Without(Sign, o) : o \in DOMAIN Sign}
  \cup {change @@ Sign : change \in
          {("output" :> "nodir"), ("embed-content" :> TRUE), ("dry-run" :> TRUE), ("bind" :> "x"),
           ("digest" :> "md5"), ("digest" :> "sha256"), ("transport" :> "usb"),
           ("key-uri" :> [Uri EXCEPT !.id = <<2>>, !.object = "c"]) @@ ("key-algorithm" :> "ecdsa"),
           ("pin-env" :> "OTHER"), ("pin-env" :> "UNSET"), ("transport" :> "ccid"),
           ("key-uri" :> NoUri), ("key-uri" :> Rutoken), ("key-uri" :> [Uri EXCEPT !.id = <<>>]),
           ("key-uri" :> [Uri EXCEPT !.token = Free]), ("key-uri" :> [Uri EXCEPT !.slot = 2]),
           ("key-uri" :> [Uri EXCEPT !.id = <<2>>]) @@ ("digest" :> "sha256"),
           ("key-uri" :> [Uri EXCEPT !.object = "c"]) @@ ("digest" :> "sha384"),
           ("key-uri" :> [Uri EXCEPT !.id = <<2>>]) @@ ("digest" :> "sha512") @@ ("key-algorithm" :> "rsa"),
           ("key-uri" :> [Uri EXCEPT !.id = <<3>>]) @@ ("digest" :> "gost512"),
           OverCcid, OverCcid @@ ("embed-content" :> TRUE), OverCcid @@ ("digest" :> "sha256"),
           OverCcid @@ ("pin-env" :> "DOTENV"), OverCcid @@ ("pin-env" :> "UNSET"),
           OverCcid @@ ("key-uri" :> [Rutoken EXCEPT !.id = <<1, 2>>])}}
  \cup {Without(OverCcid @@ Sign, "pin-env")}

RawSign == ("input" :> "in") @@ ("output" :> "dir") @@ ("key-uri" :> Rutoken) @@ ("pin-env" :> "PIN")

ReadCertificate == ("output" :> "dir") @@ ("key-uri" :> Rutoken)

Bridge == ("key-uri" :> Rutoken) @@ ("pin-env" :> "PIN")

GostLogin == Bridge @@ ("host" :> "h")

WithChain == ("client-cert" :> "file") @@ GostLogin

Of(name, options) == {[name |-> name, given |-> g] : g \in options}

MCInvocation ==
  Of("sign", SignOptions)
  \cup Of("ccid-sign-raw", {RawSign, Without(RawSign, "input"), ("digest" :> "sha256") @@ RawSign,
                            ("pin-env" :> "OTHER") @@ RawSign})
  \cup Of("ccid-read-cert", {ReadCertificate, ("pin-env" :> "PIN") @@ ReadCertificate,
                             ("key-uri" :> Uri) @@ ReadCertificate})
  \cup Of("ccid-probe", {("bind" :> "x"), ("ccid-reader" :> "any")})
  \cup Of("ccid-apdu", {("apdu" :> <<"good">>), ("pin-env" :> "PIN") @@ ("apdu" :> <<"good", "bad">>),
                        ("pin-env" :> "DOTENV"), ("pin-env" :> "PIN")})
  \cup Of("gosuslugi-bridge", {Bridge, ("cert" :> "file") @@ Bridge, ("cert-record" :> "file") @@ Bridge,
                               ("cert" :> "file") @@ ("cert-record" :> "file") @@ Bridge,
                               ("pin-env" :> "UNSET") @@ ("cert" :> "file") @@ Bridge})
  \cup Of("gost-login", {GostLogin, WithChain, Bridge, ("pin-env" :> "UNSET") @@ WithChain})
  \cup Of("gost-bridge", {GostLogin, WithChain, ("pin-env" :> "OTHER") @@ WithChain,
                          ("pin-env" :> "UNSET") @@ WithChain})
  \cup Of("tls-probe", {("host" :> "h"), ("port" :> "1")})

MCCertificate == {[form |-> "der", of |-> <<"t1", 1>>]}
                 \cup {[form |-> f, of |-> Nothing] : f \in {"empty", "badpem", "bare"}}
                 \cup {[form |-> "record", of |-> <<"t1", 1>>]}

MCEnvironment == ("PIN" :> "right") @@ ("OTHER" :> "mistyped")

MCDotEnv == ("DOTENV" :> "right") @@ ("PIN" :> "old")
===============================================================================
