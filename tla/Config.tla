------------------------------- MODULE Config -------------------------------
(***************************************************************************)
(* The settings of a run (src/config/): config.yaml, or a config.ini still *)
(* to be migrated; the schema read from it; the runtime values             *)
(* (FanslyConfig) that flags, the environment, validation, the service and *)
(* the daemon change; and the saves that write the schema back at a dozen  *)
(* points of a run.  What a save writes is decided value by value: a key   *)
(* is written when its runtime value differs from the schema's, unless it  *)
(* is marked as overridden for this run only.                              *)
(*                                                                         *)
(* A file or a schema is a partial function from the keys that are set to  *)
(* their values.  One process runs at a time, nobody else edits the file,  *)
(* and a write of the file is one step.                                    *)
(***************************************************************************)
EXTENDS Naturals, FiniteSets

CONSTANTS
    Creators,   \* the user names that exist
    Ids,        \* account ids, usable as keys of filters.wall
    NameOf,     \* the creator of an id
    Placeholder,\* the user name of a scaffold, "ReplaceMe"
    Followed,   \* the creators the account follows
    Profiles,   \* what the user may write in the file
    FlagSets,   \* what the user may type on the command line
    IdsKnown,   \* may the service be trusted to know every id
    MaxRuns     \* bound: starts of the program

Names == Creators \cup Ids \cup {Placeholder}

ASSUME ConfigAssumption ==
    /\ NameOf \in [Ids -> Creators]
    /\ Creators \cap Ids = {} /\ Placeholder \notin Creators \cup Ids
    /\ Followed \subseteq Creators
    /\ IdsKnown \in BOOLEAN
    /\ MaxRuns \in Nat

-----------------------------------------------------------------------------
(* config/schema.py: the keys and their defaults.                          *)

Modes == {"normal", "timeline", "wall", "stash_only"}

\* TargetedCreatorSection, with `wall` of FiltersSection: whose keys count.
Targets  == [usernames |-> {}, use_following |-> FALSE, wall |-> {}]
Account  == [token |-> "bad", credentials |-> FALSE, check_key |-> "outdated"]
Options  == [download_mode |-> "normal", interactive |-> TRUE,
             directory |-> "local", temp_folder |-> "system", retries |-> "default"]
Postgres == [pg_password |-> "none"]
Cache    == [device_id |-> FALSE]
Monitoring == [daemon_mode |-> FALSE, session_baseline |-> "none"]
Stash    == [stash |-> FALSE, scan_settle_s |-> "default"]

\* What g says, where f says nothing.
Over(f, g) == [k \in DOMAIN f \cup DOMAIN g |-> IF k \in DOMAIN f THEN f[k] ELSE g[k]]

Default == Over(Targets, Over(Account, Over(Options, Over(Postgres,
               Over(Cache, Over(Monitoring, Stash))))))
Keys == DOMAIN Default
Value(m, k) == IF k \in DOMAIN m THEN m[k] ELSE Default[k]

\* The schema refuses a file in which a flag is not one.
ASSUME ProfilesAssumption == \A p \in Profiles : Value(p, "use_following") \in BOOLEAN

\* Keys written even when they were never set.
Always == {"usernames", "token", "check_key", "directory", "temp_folder", "pg_password"}

\* _section_to_map, _sync_to_map: what a schema looks like on disk.
Rendered(s) == [k \in DOMAIN s \cup Always |-> Value(s, k)]

VARIABLES
    files,      \* the files there are: "yaml", "ini" and its backup "bak"
    schema,     \* FanslyConfig._schema
    run,        \* the runtime values
    ephemeral,  \* _ephemeral_overrides
    flags,      \* the command line of this run
    env,        \* FANSLY_PG_PASSWORD of this run, or "none"
    stage,      \* how far the run is
    runs,       \* what the bound leaves
    given,      \* history: the values the user has given for each key
    driven      \* history: runs that have loaded the authored session_baseline

diskVars == <<files, schema>>
configVars == <<diskVars, run, ephemeral, flags, env, stage, runs, given, driven>>

\* What the next start reads for k: config.yaml before config.ini.
OnDisk(k) == IF "yaml" \in DOMAIN files THEN Value(files["yaml"], k)
             ELSE IF "ini" \in DOMAIN files THEN Value(files["ini"], k)
             ELSE Default[k]

NoFlags == <<>>
Off == stage = "off"

-----------------------------------------------------------------------------
(* FanslyConfig._save_config.                                              *)

\* Never written back: they are runtime-only.
RunOnly == {"daemon_mode", "session_baseline", "scan_settle_s"}

\* Faulty variant: the marks of this run are not consulted.
ChangedEvenIfEphemeral(s, r, e) == {k \in Keys \ RunOnly : r[k] # Value(s, k)}

\* _maybe_set: the keys an assignment adds to the schema.
Changed(s, r, e) == {k \in Keys \ (RunOnly \cup e) : r[k] # Value(s, k)}

\* _rebuild_schema_from_config.  The stash section is built anew from the
\* runtime values, and scan_settle_s is not among them.
Rebuilt(s, r, e) ==
    LET kept == DOMAIN s \ {"scan_settle_s"} IN
    [k \in kept \cup Changed(s, r, e) |->
        IF k \in Changed(s, r, e) THEN r[k] ELSE s[k]]

Saved(s, r, e) == /\ schema' = Rebuilt(s, r, e)
                  /\ files' = Over([yaml |-> Rendered(schema')], files)

\* A step of the run that assigns r and saves; one that only assigns.
Saves(r, e)   == Saved(schema, r, e) /\ run' = r /\ ephemeral' = e
Assigns(r, e) == run' = r /\ ephemeral' = e /\ UNCHANGED diskVars
Same == run

GoesTo(next) == stage' = next /\ UNCHANGED <<flags, env, runs, driven>>

\* Every way out of the process: nothing but the files is left.
Gone == /\ stage' = "off"
        /\ schema' = <<>> /\ run' = Default /\ ephemeral' = {}
        /\ flags' = NoFlags /\ env' = "none"
        /\ UNCHANGED <<runs, given, driven>>
Refused == Gone /\ UNCHANGED files

-----------------------------------------------------------------------------
(* config/loader.py and config/config.py: reading the settings.            *)

\* parse_args: the modes exclude each other, and so do they and wall filters.
Parsed(f) == ~ ("mode" \in DOMAIN f /\ "wall" \in DOMAIN f)

Start == /\ Off /\ runs > 0
         /\ \E f \in FlagSets : Parsed(f) /\ flags' = f
         /\ env' \in {"none", "env"}
         /\ runs' = runs - 1
         /\ stage' = "load"
         /\ UNCHANGED <<diskVars, run, ephemeral, given, driven>>

\* Faulty variant: the directive stays in the schema.
TakenKeepsBaseline(s) == s

\* _populate_config_from_schema takes session_baseline out of the schema.
Taken(s) == IF Value(s, "session_baseline") = "none" THEN s
            ELSE Over([session_baseline |-> "none"], s)

\* _populate_config_from_schema: the runtime values that s gives.
Populated(s) ==
    [k \in Keys |->
       CASE k = "check_key" /\ Value(s, k) = "outdated" -> "current"
         [] k = "pg_password" /\ env # "none" -> env
         [] k = "interactive" /\ Value(s, "daemon_mode") -> FALSE
         [] OTHER -> Value(s, k)]

\* load_config, from the schema that load_or_migrate returned.
Loads(s) == /\ Saved(Taken(s), Populated(s), {})
            /\ run' = Populated(s) /\ ephemeral' = {}
            /\ driven' = driven + (IF Value(s, "session_baseline") = "none" THEN 0 ELSE 1)
            /\ stage' = "args" /\ UNCHANGED <<flags, env, runs, given>>

\* load_or_migrate: config.yaml, or nothing but defaults.
LoadYaml == /\ stage = "load" /\ "yaml" \in DOMAIN files
            /\ Loads(files["yaml"])
LoadDefaults == /\ stage = "load" /\ DOMAIN files \cap {"yaml", "ini"} = {}
                /\ Loads(<<>>)

\* _build_schema_from_parser: the keys a config.ini may hold.
IniKeys == Keys \ {"wall", "daemon_mode", "session_baseline", "scan_settle_s"}
FromIni(m) == [k \in DOMAIN m \cap IniKeys |-> m[k]]

\* migrate_ini_to_yaml: write, reload and compare, rename.  Each step is on
\* disk when a crash comes.
MigrateWrites ==
    /\ stage = "load" /\ "yaml" \notin DOMAIN files /\ "ini" \in DOMAIN files
    /\ files' = Over([yaml |-> Rendered(FromIni(files["ini"]))], files)
    /\ schema' = FromIni(files["ini"])
    /\ GoesTo("parity") /\ UNCHANGED <<run, ephemeral, given>>

\* _assert_parity, or a file that does not load: the YAML is removed again.
MigrateDiverges ==
    /\ stage = "parity"
    /\ files' = [n \in DOMAIN files \ {"yaml"} |-> files[n]]
    /\ Gone

MigrateRenames ==
    /\ stage = "parity"
    /\ files' = Over([bak |-> files["ini"]], [n \in DOMAIN files \ {"ini"} |-> files[n]])
    /\ stage' = "migrated"
    /\ UNCHANGED <<schema, run, ephemeral, flags, env, runs, given, driven>>

LoadMigrated == stage = "migrated" /\ Loads(schema)

-----------------------------------------------------------------------------
(* config/args.py: map_args_to_config.                                     *)

Has(flag) == flag \in DOMAIN flags

\* _handle_user_settings, _apply_cli_wall_filters.
UserFlags ==
    LET users == IF Has("users") THEN [usernames |-> flags["users"]] ELSE NoFlags
        following == IF Has("following") THEN [use_following |-> TRUE] ELSE NoFlags
    IN  IF Has("wall")
        THEN Over([usernames |-> flags["wall"], wall |-> flags["wall"]], following)
        ELSE Over(users, following)

\* _handle_download_mode.
ModeFlags ==
    IF Has("mode") THEN [download_mode |-> flags["mode"]]
    ELSE IF Has("wall") THEN [download_mode |-> "wall"] ELSE NoFlags

\* _handle_not_none_settings, _handle_boolean_settings, _handle_unsigned_ints,
\* _handle_monitoring_settings.
OtherFlags ==
    LET token == IF Has("token") THEN [token |-> "flag"] ELSE NoFlags
        retries == IF Has("retries") THEN [retries |-> "flag"] ELSE NoFlags
        quiet == IF Has("quiet") THEN [interactive |-> FALSE] ELSE NoFlags
        full == IF Has("full_pass") THEN [session_baseline |-> "flag"] ELSE NoFlags
        daemon == IF Has("daemon") THEN [daemon_mode |-> TRUE, interactive |-> FALSE]
                  ELSE NoFlags
    IN  Over(token, Over(retries, Over(quiet, Over(full, daemon))))

\* The marks: a key of the schema a flag is to override for this run only.
Marked == (IF Has("users") \/ Has("wall") \/ Has("following") THEN {"usernames"}
           ELSE {})
          \cup (IF Has("following") THEN {"use_following"} ELSE {})
          \cup (IF Has("wall") THEN {"wall"} ELSE {})
          \cup (IF Has("mode") \/ Has("wall") THEN {"download_mode"} ELSE {})
          \cup (IF Has("quiet") THEN {"interactive"} ELSE {})

StashOnly == Has("mode") /\ flags["mode"] = "stash_only"

\* The ConfigErrors of the handlers.
Conflict == \/ Has("following") /\ Has("users")
            \/ Has("wall") /\ Has("users") /\ flags["users"] # flags["wall"]
            \/ StashOnly /\ Has("daemon")

MapArgs ==
    /\ stage = "args" /\ ~ Conflict
    /\ LET mapped == Over(UserFlags, Over(ModeFlags, Over(OtherFlags, run)))
           quits == mapped.download_mode = "stash_only" /\ mapped.daemon_mode IN
       IF quits THEN Assigns([mapped EXCEPT !.daemon_mode = FALSE],
                             Marked \cup {"daemon_mode"})
       ELSE Assigns(mapped, Marked)
    /\ GoesTo("walls") /\ UNCHANGED given

ArgsConflict == stage = "args" /\ Conflict /\ Refused

-----------------------------------------------------------------------------
(* config/validation.py: validate_adjust_config.                           *)

\* _derive_wall_filter_scope: is the scope that of -u (or of the wall flag)?
Narrowed == "usernames" \in ephemeral /\ run.usernames # {}

WallConflict ==
    /\ run.wall # {}
    /\ \/ run.download_mode # "wall"
       \/ run.use_following
       \/ Narrowed /\ ~ run.usernames \subseteq run.wall

\* Faulty variant: the filters' keys are the scope whatever -u says.
ScopeOfFilters(r) == [r EXCEPT !.usernames = r.wall]

\* _derive_wall_filter_scope: the filters' keys, unless -u narrows them.
FilterScope(r) == IF Narrowed THEN [r EXCEPT !.wall = @ \cap r.usernames]
                  ELSE [r EXCEPT !.usernames = r.wall]

\* validate_adjust_wall_filters.  Empty specs are the user's to fill in.
ValidateWalls ==
    /\ stage = "walls" /\ ~ WallConflict
    /\ IF run.wall = {} THEN Assigns(Same, ephemeral)
       ELSE Assigns(FilterScope(run),
                    ephemeral \cup {IF Narrowed THEN "wall" ELSE "usernames"})
    /\ GoesTo("names") /\ UNCHANGED given

WallsRefused == stage = "walls" /\ WallConflict /\ Refused

\* validate_creator_names: a placeholder is asked for or dropped; no name at
\* all is refused.  (sanitize_creator_names gives None for none.)
ValidateNames ==
    /\ stage = "names" /\ run.usernames # {}
    /\ LET dropped == [run EXCEPT !.usernames = @ \ {Placeholder}] IN
       IF dropped = run THEN Assigns(Same, ephemeral) /\ UNCHANGED given
       ELSE \/ /\ Saves(dropped, ephemeral)
               /\ given' = [given EXCEPT !.usernames = @ \cup {dropped.usernames}]
            \/ /\ run.interactive
               /\ \E c \in Creators :
                    LET answered == [dropped EXCEPT !.usernames = @ \cup {c}] IN
                    /\ Saves(answered, ephemeral)
                    /\ given' = [given EXCEPT !.usernames =
                                   @ \cup {answered.usernames}]
    /\ GoesTo("token")

NamesRefused == stage = "names" /\ run.usernames = {} /\ Refused

\* validate_adjust_token: a token of some browser, unless a login is to come.
ValidateToken ==
    /\ stage = "token" /\ UNCHANGED given
    /\ \/ /\ run.credentials \/ run.token # "bad"
          /\ Assigns(Same, ephemeral)
       \/ /\ ~ run.credentials /\ run.token = "bad"
          /\ Saves([run EXCEPT !.token = "browser"], ephemeral)
    /\ GoesTo("key")

TokenRefused ==
    stage = "token" /\ ~ run.credentials /\ run.token = "bad" /\ Refused

\* validate_adjust_user_agent and validate_adjust_check_key, which always
\* guesses a key and saves.
ValidateKey == /\ stage = "key"
               /\ Saves([run EXCEPT !.check_key = "guessed"], ephemeral)
               /\ GoesTo("directory") /\ UNCHANGED given

\* validate_adjust_download_directory: a temp folder that cannot be made is
\* given up; a directory that is not there is asked for.
ValidateDirectory ==
    /\ stage = "directory"
    /\ \E temp \in {run.temp_folder, "system"} :
         LET r == [run EXCEPT !.temp_folder = temp] IN
         \/ Assigns([r EXCEPT !.directory = IF @ = "local" THEN "cwd" ELSE @],
                    ephemeral) /\ UNCHANGED given
         \/ /\ run.directory # "local"
            /\ Saves([r EXCEPT !.directory = "asked"], ephemeral)
            /\ given' = [given EXCEPT !.directory = @ \cup {"asked"}]
    /\ GoesTo("mode")

\* validate_adjust_download_mode: asked unless a flag or a filter decided it.
ValidateMode ==
    /\ stage = "mode"
    /\ \/ Assigns(Same, ephemeral) /\ UNCHANGED given
       \/ /\ run.interactive /\ ~ Has("mode") /\ ~ Has("wall") /\ run.wall = {}
          /\ \E m \in Modes :
               /\ Assigns([run EXCEPT !.download_mode = m], ephemeral)
               /\ given' = [given EXCEPT !.download_mode = @ \cup {m}]
    /\ GoesTo("api")

-----------------------------------------------------------------------------
(* FanslyConfig.setup_api and main up to the list of creators.             *)

\* The device id, then a login when the token is not valid and the session,
\* each followed by a save.
UpdateDeviceId == /\ stage = "api"
                  /\ Saves([run EXCEPT !.device_id = TRUE], ephemeral)
                  /\ GoesTo("login") /\ UNCHANGED given

SetupSession ==
    /\ stage = "login"
    /\ Saves([run EXCEPT !.token = IF @ = "bad" THEN "login" ELSE @], ephemeral)
    /\ GoesTo("scope") /\ UNCHANGED given

LoginFails == stage = "login" /\ run.token = "bad" /\ Refused

\* main: the following list replaces the names when it is asked for, or when
\* there are none.
ListFollowing ==
    /\ stage = "scope" /\ (run.use_following \/ run.usernames = {})
    /\ Followed # {}
    /\ Assigns([run EXCEPT !.usernames = Followed], ephemeral)
    /\ GoesTo("ids") /\ UNCHANGED given

NobodyFollowed ==
    stage = "scope" /\ (run.use_following \/ run.usernames = {}) /\ Refused

NamesStand == /\ stage = "scope" /\ ~ run.use_following /\ run.usernames # {}
              /\ Assigns(Same, ephemeral)
              /\ GoesTo("ids") /\ UNCHANGED given

\* resolve_wall_filter_id_keys: ids become names; one that the service does
\* not know is dropped, and so is one whose creator has a filter of its own.
ResolveIds ==
    /\ stage = "ids"
    /\ \E known \in IF IdsKnown THEN {run.wall \cap Ids} ELSE SUBSET (run.wall \cap Ids) :
         LET ids == run.wall \cap Ids
             new == {NameOf[i] : i \in known} \ run.wall
             To(names) == (names \ ids) \cup new
             Names2 == IF run.usernames = {} THEN {} ELSE To(run.usernames) IN
         IF ids = {} THEN Assigns(Same, ephemeral)
         ELSE Assigns([run EXCEPT !.wall = To(@), !.usernames = Names2],
                      ephemeral \cup {"wall"})
    /\ GoesTo("running") /\ UNCHANGED given

-----------------------------------------------------------------------------
(* The run.                                                                *)

\* _refresh_following and its loop, in the daemon.
RefreshFollowing ==
    /\ stage = "running" /\ run.daemon_mode /\ run.use_following
    /\ Followed # {}
    /\ Assigns([run EXCEPT !.usernames = Followed], ephemeral)
    /\ GoesTo("running") /\ UNCHANGED given

\* get_stash_context, and on_device_updated of a request that finds the device
\* id too old.
SavedInRun == /\ stage = "running"
              /\ Saves(Same, ephemeral)
              /\ GoesTo("running") /\ UNCHANGED given

\* The end of the run, or its death, at any moment.
Exits == ~ Off /\ Refused

ConfigInit ==
    /\ \/ files = <<>>
       \/ \E p \in Profiles : files \in {[yaml |-> p], [ini |-> FromIni(p)]}
    /\ given = [k \in Keys |-> {OnDisk(k)}]
    /\ schema = <<>> /\ run = Default /\ ephemeral = {}
    /\ flags = NoFlags /\ env = "none" /\ stage = "off"
    /\ runs = MaxRuns /\ driven = 0

LoadNext == LoadYaml \/ LoadDefaults \/ MigrateWrites \/ MigrateDiverges
            \/ MigrateRenames \/ LoadMigrated \/ MapArgs \/ ArgsConflict
ValidateNext == \/ ValidateWalls \/ WallsRefused \/ ValidateNames \/ NamesRefused
                \/ ValidateToken \/ TokenRefused \/ ValidateKey
                \/ ValidateDirectory \/ ValidateMode
RunNext == \/ UpdateDeviceId \/ SetupSession \/ LoginFails \/ ListFollowing \/ NobodyFollowed
           \/ NamesStand \/ ResolveIds \/ RefreshFollowing \/ SavedInRun \/ Exits
ConfigNext == Start \/ LoadNext \/ ValidateNext \/ RunNext
ConfigSpec == ConfigInit /\ [][ConfigNext]_configVars

-----------------------------------------------------------------------------
(* Properties.                                                             *)

\* What is kept between runs and what a run works with are well typed
\* (config/schema.py, config/fanslyconfig.py).
ConfigTypeOK ==
    /\ DOMAIN files \subseteq {"yaml", "ini", "bak"}
    /\ \A n \in DOMAIN files : DOMAIN files[n] \subseteq Keys
    /\ DOMAIN schema \subseteq Keys /\ DOMAIN run = Keys
    /\ run.usernames \subseteq Names /\ run.wall \subseteq Names
    /\ run.download_mode \in Modes
    /\ ephemeral \subseteq Keys
    /\ driven \in Nat

\* The settings that are the user's: nothing in a run replaces them by design.
Curated == {"usernames", "use_following", "download_mode", "wall", "daemon_mode",
            "directory"}
\* What a save may write nevertheless: the list of followed creators over the
\* names when the file (not a flag) asks for the list or names nobody, and the
\* working directory for the placeholder.
MayReplace(k) ==
    IF k = "usernames" /\ (TRUE \in given.use_following \/ {} \in given.usernames)
    THEN {Followed}
    ELSE IF k = "directory" THEN {"cwd"} ELSE {}

\* A run leaves the user's settings as the user gave them, in the file or in an
\* answer: whatever the flags, the filters, the service or the daemon change at
\* runtime, whenever a save comes and wherever the run or the migration dies
\* (_maybe_set and _ephemeral_overrides; migrate_ini_to_yaml).
CuratedKept == \A k \in Curated : OnDisk(k) \in given[k] \cup MayReplace(k)

\* A session_baseline in the file is the directive of one run at most, although
\* settings are saved over and over and runs may die anywhere (_populate_config_from_schema: "a
\* one-shot directive").
BaselineOnce == driven <= 1

\* is_username_in_scope.
InScope(c) == run.use_following \/ run.usernames = {} \/ c \in run.usernames

ById(names) == {IF n \in Ids THEN NameOf[n] ELSE n : n \in names}

\* A run that does not follow the list acts on nobody the user did not ask for:
\* with -u or --wall-filters on the creators given there only, with filters in
\* the file on their creators only (_derive_wall_filter_scope,
\* resolve_wall_filter_id_keys).
ScopeHonoured ==
    stage = "running" /\ ~ run.use_following =>
        \A c \in Creators : InScope(c) =>
            /\ Has("users") => c \in ById(flags["users"])
            /\ Has("wall")  => c \in ById(flags["wall"])
            /\ (Value(schema, "wall") # {} /\ ~ Has("wall"))
                 => c \in ById(Value(schema, "wall"))

\* An empty scope, which is everybody, is left to "legacy or test-time configs"
\* (is_username_in_scope; resolve_wall_filter_id_keys).
NeverUnrestricted == stage = "running" => run.use_following \/ run.usernames # {}

\* "CLI flags override config values when both are supplied": the creators given
\* with -u are those a run acts on (_handle_user_settings, main).
UsersOverride ==
    stage = "running" /\ Has("users") =>
        \A c \in Creators : InScope(c) => c \in ById(flags["users"])
=============================================================================
