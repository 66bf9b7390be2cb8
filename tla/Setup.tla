------------------------------- MODULE Setup --------------------------------
(***************************************************************************)
(* From a command line and a configuration file to credentials on the      *)
(* wire: main, lib::run, Cli::check, Config::load and the merge of         *)
(* session::resolve, then connect and authenticate, once for a one-shot    *)
(* command and again after every loss of the connection for the reader.    *)
(* A setting carries the name of the server definition it was written      *)
(* for, or Flag.                                                           *)
(***************************************************************************)
EXTENDS Naturals, FiniteSets

CONSTANTS Invocations,        \* the command lines tried
          Files,              \* the configuration files tried
          MaxDials            \* connections one invocation opens

Absent == "absent"
Flag == "flag"

VARIABLES invocation,         \* Cli
          file,               \* the configuration file on disk
          log,                \* where log records go
          phase,              \* how far the invocation has come
          config,             \* Config, once loaded
          target,             \* Target::server, once resolved
          password,           \* what resolve_password returned
          dials,              \* connections opened
          sent                \* every AUTHINFO exchange begun

setupVars == <<invocation, file, log, phase, config, target, password, dials, sent>>

\* ServerConfig::default().  blank: the password written is empty; usable: every
\* subscription parses; trust: the extra authorities and the name to verify.
DefaultServer ==
    [host |-> "", port |-> Absent, security |-> "ImplicitTls", usable |-> TRUE,
     username |-> Absent, password |-> Absent, blank |-> FALSE, password_env |-> Absent,
     password_command |-> Absent, allow_plaintext |-> FALSE, trust |-> Absent]

\* ServerArgs::default()
NoFlags ==
    [server |-> Absent, host |-> Absent, port |-> Absent, security |-> Absent,
     username |-> Absent, password_command |-> FALSE, password_env |-> FALSE,
     allow_plaintext |-> FALSE, trust |-> Absent]

\* Config::default()
DefaultConfig == [state |-> "missing", default_server |-> Absent, servers |-> <<>>]

\* What `config init` writes: example_toml, which parses.
ExampleConfig == [state |-> "written", default_server |-> "example",
                  servers |-> [e \in {"example"} |-> [DefaultServer EXCEPT !.host = "example"]]]

\* A definition as the file gives it, each setting that is traced under its name.
Settings(e) ==
    [host : STRING, port : STRING, security : {"ImplicitTls", "StartTls", "Plain"}, usable : BOOLEAN,
     username : {e, Absent}, password : {e, Absent}, blank : BOOLEAN, password_env : {e, Absent},
     password_command : {e, Absent}, allow_plaintext : BOOLEAN, trust : {e, Absent}]

\* clap refuses both password flags at once.
FlagSettings ==
    {args \in [server : STRING, host : STRING, port : STRING,
               security : {Absent, "ImplicitTls", "StartTls", "Plain"}, username : {Absent, Flag},
               password_command : BOOLEAN, password_env : BOOLEAN,
               allow_plaintext : BOOLEAN, trust : {Absent, Flag}] :
        ~(args.password_command /\ args.password_env)}

ASSUME SetupAssumption ==
    /\ \A i \in Invocations : i.before \in FlagSettings /\ i.after \in FlagSettings
    /\ \A f \in Files : /\ f.state = "missing" => f = DefaultConfig
                        /\ \A e \in DOMAIN f.servers : f.servers[e] \in Settings(e)

Secret(source, owner, text) == [source |-> source, owner |-> owner, text |-> text]

NoSecret == Secret(Absent, Absent, Absent)

SetupInit ==
    /\ invocation \in Invocations
    /\ file \in Files
    /\ log = "none" /\ phase = "start"
    /\ config = DefaultConfig /\ target = DefaultServer
    /\ password = NoSecret /\ dials = 0 /\ sent = {}

-----------------------------------------------------------------------------
(* Config                                                                  *)

\* Password sources a definition sets.
Sources(server) == {s \in {"password", "password_env", "password_command"} : server[s] # Absent}

Valid(c) ==
    /\ c.default_server # Absent => c.default_server \in DOMAIN c.servers
    /\ \A e \in DOMAIN c.servers :
          /\ c.servers[e].host # ""
          /\ Cardinality(Sources(c.servers[e])) <= 1
          /\ c.servers[e].usable

\* Config::load
Loads == file.state = "missing" \/ (file.state = "written" /\ Valid(file))

\* Config::server, or Absent where it reports an error.
ServerFor(c, name) ==
    IF name # Absent THEN IF name \in DOMAIN c.servers THEN name ELSE Absent
    ELSE IF c.default_server # Absent THEN c.default_server
    ELSE IF Cardinality(DOMAIN c.servers) = 1 THEN CHOOSE e \in DOMAIN c.servers : TRUE
    ELSE Absent

-----------------------------------------------------------------------------
(* session::resolve                                                        *)

Given(flag, configured) == IF flag = Absent THEN configured ELSE flag

Found(c, args) ==
    LET name == ServerFor(c, args.server)
    IN  IF name = Absent THEN DefaultServer ELSE c.servers[name]

\* Mutant: whatever the configuration supplies is carried to any host.
BaseAlways(c, args) == Found(c, args)

\* The definition the flags are laid over: none, when --host names a host other
\* than the one found and no --server says whose settings to use.
Base(c, args) ==
    IF args.host # Absent /\ args.server = Absent /\ args.host # Found(c, args).host
    THEN DefaultServer
    ELSE Found(c, args)

\* Either password flag replaces every configured source.
WithPasswordFlag(server, args) ==
    IF ~args.password_command /\ ~args.password_env THEN server
    ELSE [server EXCEPT
            !.password = Absent,
            !.password_command = IF args.password_command THEN Flag ELSE Absent,
            !.password_env = IF args.password_env THEN Flag ELSE Absent]

PortFor(server, args) ==
    Given(args.port, IF args.host # Absent THEN Absent ELSE server.port)

Overridden(server, args) ==
    WithPasswordFlag(
        [server EXCEPT
            !.host = Given(args.host, @),
            !.port = PortFor(server, args),
            !.security = Given(args.security, @),
            !.username = Given(args.username, @),
            !.allow_plaintext = @ \/ args.allow_plaintext,
            !.trust = Given(args.trust, @)],
        args)

\* The flags that count: the reader's own without a subcommand.
Flags == IF invocation.command = Absent THEN invocation.before ELSE invocation.after

OpensTheReader == invocation.command \in {Absent, "tui"}

-----------------------------------------------------------------------------
(* main and lib::run                                                       *)

\* Logging is set up first and is never fatal: the reader logs to a file unless
\* the platform has no directory for one.
StartLogging ==
    /\ phase = "start"
    /\ \E directory, opened \in BOOLEAN :
          log' = IF invocation.log_file \/ (OpensTheReader /\ directory)
                 THEN IF opened THEN "file" ELSE "none"
                 ELSE "stderr"
    /\ phase' = "logging"
    /\ UNCHANGED <<invocation, file, config, target, password, dials, sent>>

\* Cli::check
Check ==
    /\ phase = "logging"
    /\ phase' = IF invocation.command # Absent /\ invocation.before # NoFlags
                THEN "failed" ELSE "checked"
    /\ UNCHANGED <<invocation, file, log, config, target, password, dials, sent>>

Configuring(action) ==
    /\ phase = "checked" /\ invocation.command = "config" /\ invocation.action = action
    /\ UNCHANGED <<invocation, log, config, target, password, dials, sent>>

ConfigPath == Configuring("path") /\ phase' = "done" /\ UNCHANGED file

ConfigShow ==
    /\ Configuring("show")
    /\ phase' = IF Loads THEN "done" ELSE "failed"
    /\ UNCHANGED file

\* fs::write truncates before it writes, so a failure may leave half a file.
ConfigInit ==
    /\ Configuring("init")
    /\ \/ file.state # "missing" /\ ~invocation.force
          /\ phase' = "failed" /\ UNCHANGED file
       \/ /\ file.state = "missing" \/ invocation.force
          /\ \/ phase' = "done" /\ file' = ExampleConfig
             \/ phase' = "failed" /\ file' \in {file, [file EXCEPT !.state = "broken"]}

Load ==
    /\ phase = "checked" /\ invocation.command # "config"
    /\ IF Loads THEN config' = file /\ phase' = "loaded"
       ELSE UNCHANGED config /\ phase' = "failed"
    /\ UNCHANGED <<invocation, file, log, target, password, dials, sent>>

Resolve ==
    /\ phase = "loaded"
    /\ IF ServerFor(config, Flags.server) = Absent /\ Flags.host = Absent
       THEN UNCHANGED target /\ phase' = "failed"
       ELSE target' = Overridden(Base(config, Flags), Flags) /\ phase' = "resolved"
    /\ UNCHANGED <<invocation, file, log, config, password, dials, sent>>

-----------------------------------------------------------------------------
(* session::connect, and resolve_password                                  *)

\* Security::default_port
DefaultPort(security) == IF security = "ImplicitTls" THEN "563" ELSE "119"

\* ServerConfig::connect_options: the transport's port, unless one is given.
Options == [host |-> target.host,
            port |-> Given(target.port, DefaultPort(target.security)),
            encrypted |-> target.security # "Plain",
            trust |-> target.trust]

\* Connecting and negotiating, as far as Client does not model it.
Dial ==
    /\ phase = "resolved" /\ dials < MaxDials
    /\ dials' = dials + 1
    /\ \/ target.host # "" /\ phase' = "dialled"
       \/ phase' = "failed"
    /\ password' = NoSecret
    /\ UNCHANGED <<invocation, file, log, config, target, sent>>

\* What an environment variable yields: nothing unless it is set and not empty.
FromEnvironment(value) ==
    IF value \in {"unset", ""} THEN {} ELSE {Secret("password_env", target.password_env, value)}

\* What a command yields: the first line of its output, if it has one and succeeds.
FromCommand(value) ==
    IF value \in {"unset", ""} THEN {} ELSE {Secret("password_command", target.password_command, value)}

\* resolve_password, as the set of its one result, empty where it is an error.
Resolved(value) ==
    IF target.password # Absent
    THEN {Secret("password", target.password, IF target.blank THEN "" ELSE "word")}
    ELSE IF target.password_env # Absent THEN FromEnvironment(value)
    ELSE IF target.password_command # Absent THEN FromCommand(value)
    ELSE {NoSecret}

\* The first half of session::authenticate.
ObtainPassword ==
    /\ phase = "dialled"
    /\ \/ target.username = Absent /\ phase' = "ready" /\ UNCHANGED password
       \/ /\ target.username # Absent
          /\ \E value \in {"unset", "", "word"} :
                \/ /\ password' \in Resolved(value)
                   /\ phase' = "authenticating"
                \/ /\ Resolved(value) = {}
                   /\ phase' = "failed" /\ UNCHANGED password
    /\ UNCHANGED <<invocation, file, log, config, target, dials, sent>>

\* Client::authenticate, as far as it decides whether anything is sent.
Authenticate ==
    /\ phase = "authenticating"
    /\ IF ~Options.encrypted /\ ~target.allow_plaintext
       THEN phase' = "failed" /\ UNCHANGED sent
       ELSE /\ sent' = sent \cup {[to |-> Options, username |-> target.username,
                                   password |-> password]}
            /\ phase' \in {"ready", "failed"}
    /\ UNCHANGED <<invocation, file, log, config, target, password, dials>>

\* The reader's worker connects again, with the same target, when it has to.
Redial ==
    /\ OpensTheReader /\ dials \in 1..(MaxDials - 1)
    /\ phase \in {"ready", "failed"}
    /\ phase' = "resolved"
    /\ UNCHANGED <<invocation, file, log, config, target, password, dials, sent>>

SetupNext ==
    \/ StartLogging \/ Check \/ ConfigPath \/ ConfigShow \/ ConfigInit
    \/ Load \/ Resolve \/ Dial \/ ObtainPassword \/ Authenticate \/ Redial

SetupSpec == SetupInit /\ [][SetupNext]_setupVars

-----------------------------------------------------------------------------
AtHome(s, e) == s.to.host = file.servers[e].host \/ Flags.server = e

\* The definitions the settings of an exchange were written for.
Owners(s) == {s.username, s.to.trust, s.password.owner}

(***************************************************************************)
(* A user name, a password, the trust in a certificate and the permission  *)
(* to send a password in the clear are used with the host they were        *)
(* configured for, unless --server names that definition: resolve must not *)
(* offer one server's password to another whose name was typed.            *)
(***************************************************************************)
SecretsStayHome ==
    \A s \in sent :
        /\ \A e \in Owners(s) \ {Absent, Flag} : AtHome(s, e)
        /\ s.to.encrypted \/ Flags.allow_plaintext
           \/ \E e \in DOMAIN file.servers : file.servers[e].allow_plaintext /\ AtHome(s, e)

(***************************************************************************)
(* The port of a definition is used with its own host only, even where     *)
(* --server and --host are both given: without a --port, a port other than *)
(* the transport's own is one that a definition of this very host sets.    *)
(***************************************************************************)
PortsStayHome ==
    \A s \in sent :
        Flags.port = Absent /\ s.to.port # DefaultPort(target.security)
        => \E e \in DOMAIN file.servers :
              s.to.host = file.servers[e].host /\ s.to.port = file.servers[e].port

(***************************************************************************)
(* The password offered comes from one source, the flag's where a password *)
(* flag is given: the order resolve_password looks in never decides        *)
(* between two.                                                            *)
(***************************************************************************)
OneSource ==
    /\ Cardinality(Sources(target)) <= 1
    /\ \A s \in sent :
          s.password # NoSecret /\ (Flags.password_env \/ Flags.password_command)
             => s.password.owner = Flag

(***************************************************************************)
(* An empty password is sent only where one is written in the file: a      *)
(* variable that is unset or empty and a command that fails or prints      *)
(* nothing stop the login, at every reconnection too.                      *)
(***************************************************************************)
NoEmptyPassword ==
    \A s \in sent : s.password.text = "" => s.password.source = "password"

(***************************************************************************)
(* What is offered to a server is what was meant for it: settings written  *)
(* for its host, over its port, with a password from one source that       *)
(* yielded one (resolve, resolve_password, authenticate).                  *)
(***************************************************************************)
CredentialsStayHome == SecretsStayHome /\ PortsStayHome /\ OneSource /\ NoEmptyPassword

=============================================================================
