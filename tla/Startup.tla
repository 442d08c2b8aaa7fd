------------------------------- MODULE Startup -------------------------------
(***************************************************************************)
(* What the daemon is told and how it keeps to it: the options, the two    *)
(* configuration files and the log levels and domains, at the start of     *)
(* main() and by SetLogging() later (main.c, bm-logging.c).                *)
(*                                                                         *)
(* Without --config the old file is tried first and the new one when the   *)
(* old is missing or not valid; an administrator may write either between  *)
(* the steps.  Options come before what the file says.  An optional string *)
(* is a set of at most one; a list of domains is a sequence of names, with *)
(* "" for two separators in a row.  Upper and lower case are alike.        *)
(***************************************************************************)
EXTENDS Naturals, Sequences, FiniteSets, SequencesExt

CONSTANTS
    Domains,        \* names in domain_descs, in its order, but NONE
    DefaultDomains, \* those log_domains starts with
    LevelArg,       \* what --log-level, a file or a caller says: names, right and wrong
    DomainsArg,     \* and for --log-domains: sequences of names
    File,           \* contents of a configuration file
    MaxWrites,      \* bound: changes of the files
    MaxSets         \* bound: calls of SetLogging

VARIABLES
    files,    \* the old, the new and the given configuration file: a content, if any
    writes,   \* how often they changed
    stage,    \* where main() is
    options,  \* the command line
    config,   \* conf_plugins, cfg_log_level and cfg_log_domains
    plugins,  \* those the manager is given
    level,    \* log_level
    domains,  \* log_domains
    source,   \* history: the content that was parsed, if any
    asked     \* history: what bm_logging_setup() was called with

fileVars == <<files, writes>>
logVars == <<level, domains, asked>>
vars == <<files, writes, stage, options, config, plugins, level, domains, source, asked>>

-----------------------------------------------------------------------------
(* bm-logging.c *)

(* level_descs: each level has the ones before it *)
Levels == <<"ERR", "WARN", "INFO", "DEBUG">>

DefaultLevel == "INFO"

LevelKnown(l) == l \subseteq ToSet(Levels) \union {""}

DomainsKnown(d) == \A names \in d : ToSet(names) \subseteq ToSet(Domains) \union {"NONE", ""}

(* NULL and the empty string change nothing. *)
LevelOf(l, old) == IF l \subseteq {""} THEN old ELSE CHOOSE name \in l : TRUE

DomainsOf(d, old) ==
    IF d \subseteq {<<>>} THEN old ELSE (UNION {ToSet(names) : names \in d}) \ {"NONE", ""}

Accepts(l, d) == LevelKnown(l) /\ DomainsKnown(d)

(* bm_logging_setup: the level is in force before the domains are looked at. *)
LoggingSetup(l, d) ==
    /\ level' = IF LevelKnown(l) THEN LevelOf(l, level) ELSE level
    /\ domains' = IF Accepts(l, d) THEN DomainsOf(d, domains) ELSE domains
    /\ asked' = Append(asked, [level |-> l, domains |-> d])

(* The k-th of a set of numbers *)
Nth(S, k) == CHOOSE i \in S : Cardinality({j \in S : j <= i}) = k

(* The names of those in force, in the order of domain_descs *)
DomainsToString ==
    LET on == {i \in DOMAIN Domains : Domains[i] \in domains}
    IN  [k \in 1 .. Cardinality(on) |-> Domains[Nth(on, k)]]

(* _bm_log: whether a message is written *)
Logs(domain, severity) ==
    /\ domain \in domains
    /\ \E i, j \in DOMAIN Levels : Levels[i] = severity /\ Levels[j] = level /\ i <= j

-----------------------------------------------------------------------------
(* main.c *)

NoConfig == [plugins |-> {}, level |-> {}, domains |-> {}]
NoOptions == [config |-> FALSE, plugins |-> {}, level |-> {}, domains |-> {}]

Init ==
    /\ files \in [{"old", "new", "given"} -> {{}} \union {{f} : f \in File}]
    /\ writes = 0
    /\ stage = "off"
    /\ options = NoOptions
    /\ config = NoConfig
    /\ plugins = {}
    /\ level = DefaultLevel
    /\ domains = DefaultDomains
    /\ source = {}
    /\ asked = <<>>

WriteFile(which) ==
    /\ writes < MaxWrites
    /\ writes' = writes + 1
    /\ \E f \in {{}} \union {{f} : f \in File} : files' = [files EXCEPT ![which] = f]
    /\ UNCHANGED <<stage, options, config, plugins, source, logVars>>

Option(S) == {{}} \union {{v} : v \in S}

(* The process starts, and its options are parsed. *)
Start ==
    /\ stage = "off"
    /\ \E c \in BOOLEAN, p \in Option({"optioned"}), l \in Option(LevelArg), d \in Option(DomainsArg) :
          options' = [config |-> c, plugins |-> p, level |-> l, domains |-> d]
    /\ stage' = IF options'.config THEN "given" ELSE "old"
    /\ config' = NoConfig
    /\ plugins' = {}
    /\ source' = {}
    /\ level' = DefaultLevel
    /\ domains' = DefaultDomains
    /\ asked' = <<>>
    /\ UNCHANGED fileVars

(* Mutant of ReadAs: the levels are read before a file without plugins is given up. *)
ReadAsLoggingFirst(f) ==
    [plugins |-> f.plugins, level |-> f.level, domains |-> f.domains]

(* parse_config_file: what it has put in its results when it returns *)
ReadAs(f) ==
    IF f.plugins = {} THEN config
    ELSE [plugins |-> f.plugins, level |-> f.level, domains |-> f.domains]

ParseConfigFile(which) ==
    LET content == files[which]
        parsed == \E f \in content : f.valid /\ f.plugins # {}
    IN  /\ config' = IF \E f \in content : f.valid
                     THEN ReadAs(CHOOSE f \in content : TRUE)
                     ELSE config
        /\ source' = IF parsed THEN content ELSE source
        /\ stage' = IF parsed \/ which = "new" THEN "logging"
                    ELSE IF which = "old" THEN "new" ELSE "off"

(* The file given is parsed and nothing else; or the old one, then the new. *)
ReadConfig ==
    /\ stage \in {"given", "old", "new"}
    /\ ParseConfigFile(stage)
    /\ UNCHANGED <<fileVars, options, plugins, logVars>>

(* "Logging setup", and "Plugins specified with '--plugins' override" *)
SetUp ==
    /\ stage = "logging"
    /\ LET l == IF options.level # {} THEN options.level ELSE config.level
           d == IF options.domains # {} THEN options.domains ELSE config.domains
       IN  /\ LoggingSetup(l, d)
           /\ stage' = IF Accepts(l, d) THEN "runs" ELSE "off"
    /\ plugins' = IF options.plugins # {} THEN options.plugins ELSE config.plugins
    /\ UNCHANGED <<fileVars, options, config, source>>

(* impl_manager_set_logging: level and domains are strings, maybe empty *)
SetLogging(l, d) ==
    /\ stage = "runs"
    /\ Len(asked) <= MaxSets
    /\ LoggingSetup({l}, {d})
    /\ UNCHANGED <<fileVars, stage, options, config, plugins, source>>

Exit ==
    /\ stage = "runs"
    /\ stage' = "off"
    /\ UNCHANGED <<fileVars, options, config, plugins, source, logVars>>

Next ==
    \/ \E which \in {"old", "new", "given"} : WriteFile(which)
    \/ Start \/ ReadConfig \/ SetUp \/ Exit
    \/ \E l \in LevelArg, d \in DomainsArg : SetLogging(l, d)

Spec == Init /\ [][Next]_vars

-----------------------------------------------------------------------------
(* Properties *)

(* The last of some calls of bm_logging_setup, if there are any *)
LastOf(calls) == {i \in calls : \A j \in calls : j <= i}

Named   == {i \in DOMAIN asked : /\ Accepts(asked[i].level, asked[i].domains)
                                 /\ ~(asked[i].domains \subseteq {<<>>})}
Leveled == {i \in DOMAIN asked : LevelKnown(asked[i].level) /\ ~(asked[i].level \subseteq {""})}

(* What is in force is what was asked for last: the domains of the last call  *)
(* that was accepted and named any, none of a refused one; the level of the   *)
(* last call with a known one, a refused one included.                        *)
LastInForce ==
    /\ Named = {} => domains = DefaultDomains
    /\ \A i \in LastOf(Named) : domains = DomainsOf(asked[i].domains, {})
    /\ Leveled = {} => level = DefaultLevel
    /\ \A i \in LastOf(Leveled) : level = LevelOf(asked[i].level, "")

(* SetLogging with what domains_to_string() prints changes nothing, unless it *)
(* is nothing; a message is written if its level is no later than the one     *)
(* in force.                                                                  *)
LoggingAsAsked ==
    /\ LastInForce
    /\ domains # {} => DomainsOf({DomainsToString}, {}) = domains
    /\ \A i \in DOMAIN Levels, domain \in domains :
          Levels[i] = level => \A j \in DOMAIN Levels : Logs(domain, Levels[j]) <=> j <= i

(* "Even though we prefer BarcodeManager.conf, we need to check the old       *)
(* bm-system-settings.conf first": a daemon that runs has its plugins and its *)
(* logging from one file, never a part from a file that was given up; but for *)
(* what an option says.                                                       *)
OneSource ==
    stage = "runs" =>
        LET said == IF source = {} THEN NoConfig ELSE CHOOSE f \in source : TRUE
        IN  /\ plugins = (IF options.plugins # {} THEN options.plugins ELSE said.plugins)
            /\ asked[1].level = (IF options.level # {} THEN options.level ELSE said.level)
            /\ asked[1].domains = (IF options.domains # {} THEN options.domains ELSE said.domains)
            /\ options.config => source # {}
=============================================================================
