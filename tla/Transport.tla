------------------------------- MODULE Transport -------------------------------
(***************************************************************************)
(* How an agonet server or client comes up: options, TLS and TLCP          *)
(* (options.go, options_tls.go, config_tls.go), listeners (agonet.go,      *)
(* listener.go), the server's Start and Stop (server.go) and the           *)
(* protocol a client dials with (client.go).                               *)
(*                                                                         *)
(* Files are what reading them gives: a pair of certificate and key is     *)
(* not configured ("unset"), good, or bad (missing, unreadable, not a      *)
(* pair); so is the CA file.  A TLS or TLCP configuration is the list of   *)
(* its certificates, an address the parts its parser looks at.  What the   *)
(* engine does between start and stop is module Engine.                    *)
(***************************************************************************)
EXTENDS Naturals, Sequences

CONSTANTS
    Securities,  \* the SecurityConfigs a configuration file may hold
    Addresses    \* the lists of addresses a server is given

Types == {"", "none", "tls", "tlcp", "tls_tlcp", "other"}
Plain == {"", "none"}

ASSUME TransportAssumption ==
    \A sec \in Securities : sec.type \in Types /\ sec.cliType \in Types

VARIABLES
    opts,  \* Options: its six TLS fields
    made,  \* "no", "server", "client", or "refused" by the constructor
    run,   \* where the goroutine in server.run is
    todo,  \* addresses createListeners has not come to
    lns,   \* listeners opened so far
    eng,   \* server.eng: not assigned, running, or turned off
    dial   \* the protocol of the connection the client dialled

transportVars == <<opts, made, run, todo, lns, eng, dial>>

NoConfig == [set |-> FALSE, certs |-> <<>>]
Config(certs) == [set |-> TRUE, certs |-> certs]

NoOptions == [type |-> "", tls |-> NoConfig, tlcp |-> NoConfig,
              cliType |-> "", cliTls |-> NoConfig, cliTlcp |-> NoConfig]

TransportInit ==
    /\ opts = NoOptions
    /\ made = "no"
    /\ run = "idle"
    /\ todo \in Addresses
    /\ lns = <<>>
    /\ eng = "none"
    /\ dial = "none"

------------------------------------------------------------------------------
\* Certificates and keys.

Failed == [err |-> TRUE, cfg |-> NoConfig]
Built(certs) == [err |-> FALSE, cfg |-> Config(certs)]

\* A client's certificate is optional, a server's is not.
buildTLSConfig(c, iscli) ==
    LET pair == IF iscli THEN c.auth ELSE c.sign IN
    IF pair = "bad" \/ (pair = "unset" /\ ~iscli) \/ c.ca = "bad"
    THEN Failed
    ELSE Built(IF pair = "unset" THEN <<>> ELSE IF iscli THEN <<"auth">> ELSE <<"sign">>)

\* A TLCP server has two pairs: first the one that signs, then the one that encrypts.
buildTLCPConfig(c, iscli) ==
    LET pairs == IF iscli THEN {c.auth} ELSE {c.sign, c.enc} IN
    IF "bad" \in pairs \/ ("unset" \in pairs /\ ~iscli) \/ c.ca = "bad"
    THEN Failed
    ELSE Built(IF ~iscli THEN <<"sign", "enc">> ELSE IF c.auth = "unset" THEN <<>> ELSE <<"auth">>)

\* Type, never CliType, says which configurations are built.
SecurityOptions(o, sec, iscli) ==
    LET t == IF sec.type \in {"tls", "tls_tlcp"} THEN buildTLSConfig(sec.tls, iscli)
             ELSE [err |-> FALSE, cfg |-> IF iscli THEN o.cliTls ELSE o.tls]
        l == IF sec.type \in {"tlcp", "tls_tlcp"} THEN buildTLCPConfig(sec.tlcp, iscli)
             ELSE [err |-> FALSE, cfg |-> IF iscli THEN o.cliTlcp ELSE o.tlcp]
    IN  [err |-> t.err \/ l.err,
         opts |-> IF iscli THEN [o EXCEPT !.cliTls = t.cfg, !.cliTlcp = l.cfg]
                  ELSE [o EXCEPT !.tls = t.cfg, !.tlcp = l.cfg]]

WithAgTLSConfig(o, sec) ==
    IF sec.type \in Plain THEN [err |-> FALSE, opts |-> o]
    ELSE SecurityOptions([o EXCEPT !.type = sec.type], sec, FALSE)

\* A client knows TLS or TLCP: tls_tlcp becomes TLS, anything else is left out.
WithAgClientTLSConfig(o, sec) ==
    LET declared == IF sec.cliType = "" THEN sec.type ELSE sec.cliType
        t == IF declared = "tls_tlcp" THEN "tls" ELSE declared
    IN  IF t \notin {"tls", "tlcp"} THEN [err |-> FALSE, opts |-> o]
        ELSE SecurityOptions([o EXCEPT !.cliType = t], sec, TRUE)

------------------------------------------------------------------------------
\* Options.

CliTLSType(o) == IF o.cliType = "" THEN o.type ELSE o.cliType
CliTLSConfig(o) == IF o.cliTls.set THEN o.cliTls ELSE o.tls
CliTLCPConfig(o) == IF o.cliTlcp.set THEN o.cliTlcp ELSE o.tlcp

\* Mutant of ValidateServer: one configuration of the two is enough.
ValidateEither(o) == o.type \in Types \ {"other"} /\ (o.type \in Plain \/ o.tls.set \/ o.tlcp.set)

ValidateServer(o) ==
    \/ o.type \in Plain
    \/ o.type = "tls" /\ o.tls.set
    \/ o.type = "tlcp" /\ o.tlcp.set
    \/ o.type = "tls_tlcp" /\ o.tls.set /\ o.tlcp.set

\* Mutant of ValidateClient: what the server's fields lend is not looked at.
ValidateOwn(o) ==
    \/ o.cliType \in Plain
    \/ o.cliType = "tls" /\ o.cliTls.set
    \/ o.cliType = "tlcp" /\ o.cliTlcp.set

\* The type a client falls back to is checked, not the field alone; tls_tlcp is
\* for servers.
ValidateClient(o) ==
    \/ CliTLSType(o) \in Plain
    \/ CliTLSType(o) = "tls" /\ CliTLSConfig(o).set
    \/ CliTLSType(o) = "tlcp" /\ CliTLCPConfig(o).set

\* One functional option, as ExtendOptions applies it.
With(field, v) ==
    /\ made = "no"
    /\ opts' = [opts EXCEPT ![field] = v]
    /\ UNCHANGED <<made, run, todo, lns, eng, dial>>

WithTLSType(t) == With("type", t)
WithCliTLSType(t) == With("cliType", t)
WithTLSConfig(c) == With("tls", c)
WithCliTLSConfig(c) == With("cliTls", c)
WithTLCPConfig(c) == With("tlcp", c)
WithCliTLCPConfig(c) == With("cliTlcp", c)

\* What the constructors do once the options are there.
Makes(kind, o, valid) ==
    /\ made = "no"
    /\ opts' = o
    /\ made' = IF valid THEN kind ELSE "refused"
    /\ UNCHANGED <<run, todo, lns, eng, dial>>

NewServerWithOptions == Makes("server", opts, ValidateServer(opts))
NewClientWithOptions == Makes("client", opts, ValidateClient(opts))

\* From a configuration file: fresh options, TLS if Type asks for it.
NewServer(sec) ==
    /\ opts = NoOptions
    /\ LET w == WithAgTLSConfig(NoOptions, sec) IN Makes("server", w.opts, ~w.err /\ ValidateServer(w.opts))

NewClient(sec) ==
    /\ opts = NoOptions
    /\ LET w == IF sec.type \in Plain THEN [err |-> FALSE, opts |-> NoOptions]
                ELSE WithAgClientTLSConfig(NoOptions, sec)
       IN  Makes("client", w.opts, ~w.err /\ ValidateClient(w.opts))

------------------------------------------------------------------------------
\* server.run and server.Stop.

\* The network of an address, "" when it is refused.
parseProtoAddr(a) ==
    IF \/ a.scheme \in {"tcp", "udp"} /\ a.host /\ ~a.path
       \/ a.scheme = "unix" /\ (a.host \/ a.path)
    THEN a.scheme ELSE ""

\* Nil configurations, Plain types: the listener stays as it is.
tlsIfNeed == IF opts.type \in Plain THEN {"plain"}
             ELSE {p \in {"tls", "tlcp"} : opts[p].set}

Start ==
    /\ made = "server" /\ run = "idle"
    /\ run' = "listen"
    /\ UNCHANGED <<opts, made, todo, lns, eng, dial>>

\* createListeners: the first address that fails ends it; what is open stays open.
Listen ==
    /\ run = "listen" /\ todo # <<>>
    /\ LET net == parseProtoAddr(Head(todo)) IN
       \/ /\ net \in {"tcp", "unix"}
          /\ lns' = Append(lns, [open |-> TRUE, speaks |-> tlsIfNeed])
          /\ UNCHANGED run
       \/ /\ run' = "failed"
          /\ UNCHANGED lns
    /\ todo' = Tail(todo)
    /\ UNCHANGED <<opts, made, eng, dial>>

\* From here on Stop finds the engine.
Assign ==
    /\ run = "listen" /\ todo = <<>> /\ lns # <<>>
    /\ run' = "boot"
    /\ eng' = "running"
    /\ UNCHANGED <<opts, made, todo, lns, dial>>

Released == lns' = [i \in DOMAIN lns |-> [lns[i] EXCEPT !.open = FALSE]]

\* Mutant of Boot: an early end leaves the ports bound.
BootLeaks ==
    /\ run = "boot"
    /\ run' \in {"serve", "returned"}
    /\ UNCHANGED <<opts, made, todo, lns, eng, dial>>

\* OnBoot may ask for an early end; else event loops and accept loops start.
Boot ==
    /\ run = "boot"
    /\ \/ run' = "serve" /\ UNCHANGED lns
       \/ run' = "returned" /\ Released
    /\ UNCHANGED <<opts, made, todo, eng, dial>>

\* An accept loop that fails turns the engine off itself.
AcceptFails ==
    /\ run = "serve" /\ eng = "running"
    /\ eng' = "off"
    /\ UNCHANGED <<opts, made, run, todo, lns, dial>>

\* eng.stop: the context ends, listeners are closed, loops are waited for.
Ends ==
    /\ run = "serve" /\ eng = "off"
    /\ Released
    /\ run' = "returned"
    /\ UNCHANGED <<opts, made, todo, eng, dial>>

\* Stop, under engMu.  Before the engine is assigned it does nothing, and is lost.
StopServer ==
    /\ made = "server"
    /\ eng' = IF eng = "running" THEN "off" ELSE eng
    /\ UNCHANGED <<opts, made, run, todo, lns, dial>>

------------------------------------------------------------------------------
\* client.DialContext: what is dialled, if the dial itself succeeds.
DialContext ==
    /\ made = "client"
    /\ dial' = LET t == CliTLSType(opts) IN
               IF t = "tls" THEN (IF CliTLSConfig(opts).set THEN "tls" ELSE "none")
               ELSE IF t = "tlcp" THEN (IF CliTLCPConfig(opts).set THEN "tlcp" ELSE "none")
               ELSE "plain"
    /\ UNCHANGED <<opts, made, run, todo, lns, eng>>

------------------------------------------------------------------------------
Run == Start \/ Listen \/ Assign \/ Boot \/ AcceptFails \/ Ends

TransportNext ==
    \/ \E t \in Types : WithTLSType(t) \/ WithCliTLSType(t)
    \/ \E c \in {NoConfig, Config(<<>>)} : \/ WithTLSConfig(c) \/ WithCliTLSConfig(c)
                                          \/ WithTLCPConfig(c) \/ WithCliTLCPConfig(c)
    \/ NewServerWithOptions \/ NewClientWithOptions
    \/ made = "no" /\ opts = NoOptions /\ \E sec \in Securities : NewServer(sec) \/ NewClient(sec)
    \/ Run \/ StopServer \/ DialContext

\* The goroutine in run goes on.
TransportFairness == WF_transportVars(Boot) /\ WF_transportVars(Ends)

TransportSpec == TransportInit /\ [][TransportNext]_transportVars /\ TransportFairness

------------------------------------------------------------------------------
\* What each declared type lets through.
Speaks(t) == CASE t = "tls" -> {"tls"}
               [] t = "tlcp" -> {"tlcp"}
               [] t = "tls_tlcp" -> {"tls", "tlcp"}
               [] OTHER -> {"plain"}

\* What is declared is spoken, and nothing that is not configured
\* (options.go:92-155, listener.go:80-104, client.go:131-165): whatever options
\* were given, in whatever order and from whatever configuration, a listener
\* offers every protocol of the declared type, offers no other than those and
\* the ones whose configuration is set (a server of type tls that was given a
\* TLCP configuration accepts TLCP too), and is in plain text exactly when no
\* type was declared; a client dials with the type it resolved to, borrowed
\* from the server's fields or not, and every pair of a TLCP server that a file
\* gave is there and in its order.
DeclaredIsSpoken ==
    /\ \A i \in DOMAIN lns :
         /\ Speaks(opts.type) \subseteq lns[i].speaks
         /\ lns[i].speaks \subseteq Speaks(opts.type) \cup {p \in {"tls", "tlcp"} : opts[p].set}
         /\ "plain" \in lns[i].speaks <=> opts.type \in Plain
    /\ dial # "none" => dial \in Speaks(CliTLSType(opts))
    /\ opts.tlcp.certs \in {<<>>, <<"sign", "enc">>}

\* A Stop that finds the engine ends the server and frees its ports (server.go:64-72,
\* 111-149), wherever run is at that moment and whatever OnBoot answers.
StopReleases ==
    (eng = "off") ~> (run = "returned" /\ \A i \in DOMAIN lns : ~lns[i].open)

\* Whenever run returns after createListeners succeeded, its ports are free.  It
\* says nothing of a run that ends in createListeners: the listeners opened
\* before the address that failed stay open (agonet.go:83-99, run = "failed").
PortsReleased == run = "returned" => \A i \in DOMAIN lns : ~lns[i].open
===============================================================================
